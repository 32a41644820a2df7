--------------------------- MODULE CoreServicesProofs ---------------------------
(***************************************************************************)
(* Proofs about three services of the core. The tools that leave it: whatever *)
(* skills and servers are found, only what the core vouches for runs without *)
(* approval, and every successful call has the answer that was made for it.  *)
(* The stream of a turn: the app is sent the frames of the run in order and   *)
(* ends up showing the answer. A call over the socket: however its bytes are   *)
(* cut into reads and writes, both sides get what was sent, whole or not at    *)
(* all.                                                                      *)
(***************************************************************************)
EXTENDS ToolHost, AgentStream, Connection, SequenceTheorems, FiniteSetTheorems, WellFoundedInduction, TLAPS

(***************************************************************************)
(* The tools                                                               *)
(***************************************************************************)

\* What stands in the plan for a tool that runs without approval.
Vouched(step, n) ==
    /\ step.kind # "mcp" /\ step.name = n
    /\ \/ step.kind \in {"core", "bridge"} /\ ~step.irreversible
       \/ step.kind = "skill" /\ step.auto /\ step.exec = "vouched"

NamesCore(i, n) == plan[i].kind = "core" /\ plan[i].name = n

\* The steps done so far account for the registry; as long as a step of the core
\* is to come, they were all the core's.
RegistryInv ==
    /\ \A n \in DOMAIN registry : ~registry[n].irreversible =>
          \E i \in DOMAIN plan : Vouched(plan[i], n)
    /\ \A n \in DOMAIN registry : registry[n].by \notin {"core", "bridge"} =>
          \A i \in DOMAIN plan : ~NamesCore(i, n)
    /\ \A i \in 1..booted : plan[i].kind = "core" => plan[i].name \in DOMAIN registry
    /\ \A n \in DOMAIN registry : n \in Name

\* Who holds the MCP client reads, and nobody else does; an answer with the current
\* id was made for whoever reads.
McpInv ==
    /\ \A c \in Clients : call[c].st = "read" <=> mcp.holder = c
    /\ \A c \in Clients : call[c] # NoCall => call[c].id <= serial
    /\ \A a \in mcp.asked \cup {mcp.lines[i] : i \in DOMAIN mcp.lines} :
          a.madeFor # OwnWord =>
             /\ a.id <= mcp.next
             /\ a.id = mcp.next /\ mcp.holder \in Clients => a.madeFor = call[mcp.holder].id

\* The app was sent every call once, and has carried out none that waits but the
\* one at the head, once it says so.
HostInv ==
    /\ \A i, j \in DOMAIN host.queue : host.queue[i] = host.queue[j] => i = j
    /\ \A i, j \in DOMAIN done : done[i] = done[j] => i = j
    /\ \A i \in DOMAIN host.queue : host.queue[i] <= serial
    /\ \A i \in DOMAIN done : done[i] <= serial
    /\ host.acted # "no" => host.queue # <<>>
    /\ host.acted = "yes" => \E i \in DOMAIN done : done[i] = host.queue[1]
    /\ \A i \in DOMAIN host.queue, j \in DOMAIN done :
          host.queue[i] = done[j] => i = 1 /\ host.acted = "yes"

AnswersInv ==
    \A a \in answers :
        /\ a.madeFor = a.id \/ (a.by = "mcp" /\ a.madeFor = OwnWord)
        /\ a.by = "bridge" => \E i \in DOMAIN done : done[i] = a.id

ToolIInv == ToolTypeOK /\ RegistryInv /\ McpInv /\ HostInv /\ AnswersInv

LEMMA InitHolds == ToolInit => ToolIInv
<1> SUFFICES ASSUME ToolInit PROVE ToolIInv
  OBVIOUS
<1>1. ToolTypeOK
  <2>1. plan \in BootPlans /\ booted = 0 /\ booted \in 0..Len(plan)
    <3>1. plan \in Seq(Step)
      BY BootAssumption DEF ToolInit
    <3>2. Len(plan) \in Nat
      BY <3>1, LenProperties
    <3> QED BY <3>2 DEF ToolInit
  <2>2. DOMAIN registry = {}
    BY DEF ToolInit
  <2>3. call \in [Clients -> Calling]
    BY DEF ToolInit, Calling
  <2>4. PICK mute \in BOOLEAN :
           mcp = [holder |-> NoOne, up |-> TRUE, mute |-> mute, next |-> 0,
                  asked |-> {}, lines |-> <<>>, own |-> 0]
    BY DEF ToolInit
  <2>5. 0 \in 0..MaxOwn /\ 0 \in 0..MaxToolCalls /\ << >> \in Seq(Reply) /\ {} \in SUBSET Reply
    BY ToolHostAssumption
  <2>6. mcp \in [holder : Clients \cup {NoOne}, up : BOOLEAN, mute : BOOLEAN, next : Nat,
                 asked : SUBSET Reply, lines : Seq(Reply), own : 0..MaxOwn]
    BY <2>4, <2>5
  <2>7. host \in [up : BOOLEAN, queue : Seq(1..MaxToolCalls), acted : {"no", "yes", "refused"}]
    BY DEF ToolInit
  <2> QED
    BY <2>1, <2>2, <2>3, <2>5, <2>6, <2>7 DEF ToolInit, ToolTypeOK
<1>2. RegistryInv
  BY DEF ToolInit, RegistryInv
<1>3. McpInv
  <2>1. mcp.holder = NoOne /\ mcp.asked = {} /\ mcp.lines = <<>>
    BY DEF ToolInit
  <2>2. \A c \in Clients : call[c] = NoCall /\ call[c].st = "none"
    BY DEF ToolInit, NoCall
  <2> QED
    BY <2>1, <2>2, ClientsAssumption DEF McpInv
<1>4. HostInv
  BY DEF ToolInit, HostInv
<1>5. AnswersInv
  BY DEF ToolInit, AnswersInv
<1> QED
  BY <1>1, <1>2, <1>3, <1>4, <1>5 DEF ToolIInv

(***************************************************************************)
(* The registry                                                            *)
(***************************************************************************)

\* What the steps of the plan are, and that the core's come first.
LEMMA PlanIs ==
    ASSUME ToolTypeOK
    PROVE  /\ plan \in Seq(Step) /\ Len(plan) \in Nat /\ DOMAIN plan = 1..Len(plan)
           /\ booted \in Nat /\ booted <= Len(plan)
           /\ \A i \in DOMAIN plan : plan[i] \in Step
           /\ \A j \in DOMAIN plan : plan[j].kind = "core" =>
                 Len(plan[j].name) = 1 /\ \A i \in 1..j : plan[i].kind = "core"
<1>1. plan \in Seq(Step) /\ plan \in BootPlans
  BY BootAssumption DEF ToolTypeOK
<1>2. Len(plan) \in Nat /\ DOMAIN plan = 1..Len(plan) /\ \A i \in DOMAIN plan : plan[i] \in Step
  BY <1>1, LenProperties, ElementOfSeq
<1> QED
  BY <1>1, <1>2, BootAssumption DEF ToolTypeOK

LEMMA OnePart ==
    ASSUME NEW S, NEW x \in S PROVE <<x>> \in Seq(S) /\ Len(<<x>>) = 1
OBVIOUS

\* The name of an imported tool has two parts or more.
LEMMA ImportedIsLong ==
    ASSUME NEW prefix \in STRING, NEW r \in Remotes
    PROVE  <<prefix>> \o r \in Name /\ Len(<<prefix>> \o r) > 1
<1> DEFINE p == <<prefix>>
<1>1. r \in Seq(STRING) /\ r # <<>>
  BY RemotesAssumption
<1>1a. p \in Seq(STRING) /\ Len(p) = 1
  BY OnePart
<1>2. Len(r) \in Nat /\ Len(r) # 0
  BY <1>1, LenProperties, EmptySeq
<1> HIDE DEF p
<1>3. p \o r \in Seq(STRING) /\ Len(p \o r) = Len(p) + Len(r)
  BY <1>1, <1>1a, ConcatProperties
<1>4. Len(p \o r) > 1 /\ p \o r # <<>>
  <2>1. Len(p \o r) > 1
    BY <1>1a, <1>2, <1>3
  <2>2. Len(<< >>) = 0
    OBVIOUS
  <2> QED BY <2>1, <2>2
<1> QED
  BY <1>3, <1>4 DEF Name, p

LEMMA RegistryStep ==
    ASSUME ToolTypeOK, RegistryInv, BootStep
    PROVE  RegistryInv' /\ \A n \in DOMAIN registry' :
             registry'[n] \in [by : {"core", "mcp", "skill", "bridge"}, irreversible : BOOLEAN]
<1> DEFINE s == plan[booted + 1]
<1>1. /\ booted < Len(plan) /\ booted' = booted + 1 /\ plan' = plan
      /\ booted + 1 \in DOMAIN plan /\ s \in Step
  BY PlanIs DEF BootStep
<1>2. \A n \in DOMAIN registry :
         /\ registry[n] \in [by : {"core", "mcp", "skill", "bridge"}, irreversible : BOOLEAN]
         /\ n \in Name
  BY DEF ToolTypeOK, RegistryInv
<1>3. CASE /\ s.kind \in {"core", "bridge"}
           /\ registry' = Put(registry, s.name, Made(s.kind, s.irreversible))
  <2> DEFINE t == Made(s.kind, s.irreversible)
  <2>1. s.name \in Name /\ s.irreversible \in BOOLEAN
    BY <1>1, <1>3 DEF Step
  <2>2. /\ DOMAIN registry' = DOMAIN registry \cup {s.name} /\ registry'[s.name] = t
        /\ \A n \in DOMAIN registry : n # s.name => registry'[n] = registry[n]
    BY <1>3 DEF Put
  <2>3. /\ t \in [by : {"core", "mcp", "skill", "bridge"}, irreversible : BOOLEAN]
        /\ t.by = s.kind /\ t.irreversible = s.irreversible
    BY <1>3, <2>1 DEF Made
  <2>4. \A n \in DOMAIN registry' : ~registry'[n].irreversible =>
           \E i \in DOMAIN plan : Vouched(plan[i], n)
    <3> SUFFICES ASSUME NEW n \in DOMAIN registry', ~registry'[n].irreversible
                 PROVE  \E i \in DOMAIN plan : Vouched(plan[i], n)
      OBVIOUS
    <3>1. CASE n = s.name
      <4>1. Vouched(plan[booted + 1], n)
        BY <1>3, <2>2, <2>3, <3>1 DEF Vouched
      <4> QED BY <4>1, <1>1
    <3>2. CASE n # s.name
      BY <2>2, <3>2 DEF RegistryInv
    <3> QED BY <3>1, <3>2
  <2>5. \A n \in DOMAIN registry' : registry'[n].by \notin {"core", "bridge"} =>
           \A i \in DOMAIN plan : ~NamesCore(i, n)
    BY <1>3, <2>2, <2>3 DEF RegistryInv
  <2>6. \A i \in 1..(booted + 1) : plan[i].kind = "core" => plan[i].name \in DOMAIN registry'
    <3> TAKE i \in 1..(booted + 1)
    <3>1. i \in 1..booted \/ i = booted + 1
      BY PlanIs
    <3> QED BY <3>1, <2>2 DEF RegistryInv
  <2>7. \A n \in DOMAIN registry' : n \in Name
    BY <1>2, <2>1, <2>2
  <2>8. RegistryInv'
    BY <1>1, <2>4, <2>5, <2>6, <2>7 DEF RegistryInv, NamesCore
  <2> QED
    BY <1>2, <2>2, <2>3, <2>8
<1>4. CASE s.kind = "skill" /\ registry' = AddSkill(registry, s)
  <2>1. /\ s.name \in Name /\ s.auto \in BOOLEAN
        /\ s.kind = "skill" /\ s.exec \in {"vouched", "other", "invalid"}
    BY <1>1, <1>4 DEF Step
  <2>2. \A i \in 1..booted : plan[i].kind = "core" => plan[i].name \in DOMAIN registry
    BY DEF RegistryInv
  <2>3. \A i \in DOMAIN plan : plan[i].kind = "core" => i <= booted
    <3> SUFFICES ASSUME NEW i \in DOMAIN plan, plan[i].kind = "core", ~(i <= booted)
                 PROVE  FALSE
      OBVIOUS
    <3>1. booted + 1 \in 1..i
      BY PlanIs
    <3>2. s.kind = "core"
      BY <3>1, PlanIs
    <3> QED BY <3>2, <2>1
  <2>4. CASE s.exec = "invalid" \/ s.name \in DOMAIN registry
    <3>1. registry' = registry
      BY <1>4, <2>4 DEF AddSkill
    <3>2. \A i \in 1..(booted + 1) : plan[i].kind = "core" => plan[i].name \in DOMAIN registry
      <4> TAKE i \in 1..(booted + 1)
      <4>1. i \in DOMAIN plan
        BY <1>1, PlanIs
      <4>2. plan[i].kind = "core" => i \in 1..booted
        BY <2>3, <4>1, PlanIs
      <4> QED BY <4>2, <2>2
    <3> QED BY <1>1, <1>2, <3>1, <3>2 DEF RegistryInv, NamesCore
  <2>5. CASE ~(s.exec = "invalid" \/ s.name \in DOMAIN registry)
    <3> DEFINE t == BuildCommandTool(s)
    <3>1. /\ DOMAIN registry' = DOMAIN registry \cup {s.name} /\ registry'[s.name] = t
          /\ \A n \in DOMAIN registry : registry'[n] = registry[n]
      BY <1>4, <2>5 DEF AddSkill, Put
    <3>2. t.by = "skill" /\ (t.irreversible <=> ~(s.auto /\ s.exec = "vouched"))
      BY DEF BuildCommandTool, Made
    <3>2a. t \in [by : {"core", "mcp", "skill", "bridge"}, irreversible : BOOLEAN]
      BY DEF BuildCommandTool, Made
    <3>3. \A n \in DOMAIN registry' : ~registry'[n].irreversible =>
             \E i \in DOMAIN plan : Vouched(plan[i], n)
      <4> SUFFICES ASSUME NEW n \in DOMAIN registry', ~registry'[n].irreversible
                   PROVE  \E i \in DOMAIN plan : Vouched(plan[i], n)
        OBVIOUS
      <4>1. CASE n = s.name
        <5>1. s.auto /\ s.exec = "vouched"
          BY <3>1, <3>2, <4>1
        <5>2. Vouched(plan[booted + 1], n)
          BY <5>1, <4>1, <2>1 DEF Vouched
        <5> QED BY <5>2, <1>1
      <4>2. CASE n # s.name
        BY <3>1, <4>2 DEF RegistryInv
      <4> QED BY <4>1, <4>2
    <3>4. \A i \in DOMAIN plan : ~NamesCore(i, s.name)
      <4> SUFFICES ASSUME NEW i \in DOMAIN plan, NamesCore(i, s.name) PROVE FALSE
        OBVIOUS
      <4>1. i \in 1..booted
        BY <2>3, PlanIs DEF NamesCore
      <4> QED BY <4>1, <2>2, <2>5 DEF NamesCore
    <3>5. \A n \in DOMAIN registry' : registry'[n].by \notin {"core", "bridge"} =>
             \A i \in DOMAIN plan : ~NamesCore(i, n)
      BY <3>1, <3>4 DEF RegistryInv
    <3>6. \A i \in 1..(booted + 1) : plan[i].kind = "core" => plan[i].name \in DOMAIN registry'
      <4> TAKE i \in 1..(booted + 1)
      <4>1. i \in DOMAIN plan
        BY <1>1, PlanIs
      <4>2. plan[i].kind = "core" => i \in 1..booted
        BY <2>3, <4>1, PlanIs
      <4> QED BY <4>2, <2>2, <3>1
    <3>7. \A n \in DOMAIN registry' : n \in Name
      BY <1>2, <2>1, <3>1
    <3>8. RegistryInv'
      BY <1>1, <3>3, <3>5, <3>6, <3>7 DEF RegistryInv, NamesCore
    <3> QED BY <1>2, <3>1, <3>2a, <3>8
  <2> QED BY <2>4, <2>5
<1>5. CASE /\ s.kind = "mcp"
           /\ \E listed \in SUBSET Remotes : registry' = ImportMcpTools(registry, s.prefix, listed)
  <2>1. PICK listed \in SUBSET Remotes : registry' = ImportMcpTools(registry, s.prefix, listed)
    BY <1>5
  <2> DEFINE found == {<<s.prefix>> \o r : r \in listed}
  <2>2. s.prefix \in STRING
    BY <1>1, <1>5 DEF Step
  <2>3. /\ DOMAIN registry' = DOMAIN registry \cup found
        /\ \A n \in DOMAIN registry' :
              registry'[n] = IF n \in found THEN Made("mcp", TRUE) ELSE registry[n]
    BY <2>1 DEF ImportMcpTools
  <2>4. \A n \in found : n \in Name /\ Len(n) > 1
    BY <2>2, ImportedIsLong
  <2> HIDE DEF found
  <2>5. \A n \in found : \A i \in DOMAIN plan : ~NamesCore(i, n)
    <3> SUFFICES ASSUME NEW n \in found, NEW i \in DOMAIN plan, NamesCore(i, n) PROVE FALSE
      OBVIOUS
    <3>1. Len(n) = 1
      BY PlanIs DEF NamesCore
    <3>2. Len(n) > 1
      BY <2>4
    <3> QED BY <3>1, <3>2
  <2>6. \A n \in DOMAIN registry' : ~registry'[n].irreversible =>
           \E i \in DOMAIN plan : Vouched(plan[i], n)
    BY <2>3 DEF RegistryInv, Made
  <2>7. \A n \in DOMAIN registry' : registry'[n].by \notin {"core", "bridge"} =>
           \A i \in DOMAIN plan : ~NamesCore(i, n)
    BY <2>3, <2>5 DEF RegistryInv
  <2>8. \A i \in 1..(booted + 1) : plan[i].kind = "core" => plan[i].name \in DOMAIN registry'
    <3> TAKE i \in 1..(booted + 1)
    <3>1. i \in 1..booted \/ i = booted + 1
      BY PlanIs
    <3> QED BY <3>1, <2>3, <1>5 DEF RegistryInv
  <2>9. \A n \in DOMAIN registry' : n \in Name
    BY <1>2, <2>3, <2>4
  <2>10. RegistryInv'
    BY <1>1, <2>6, <2>7, <2>8, <2>9 DEF RegistryInv, NamesCore
  <2>11. Made("mcp", TRUE) \in [by : {"core", "mcp", "skill", "bridge"}, irreversible : BOOLEAN]
    BY DEF Made
  <2> QED BY <1>2, <2>3, <2>10, <2>11
<1> QED
  BY <1>3, <1>4, <1>5 DEF BootStep

(***************************************************************************)
(* Calls                                                                   *)
(***************************************************************************)

SkillCalling  == [id : 1..MaxToolCalls, by : {"skill"}, st : {"wait", "join"}, leader : BOOLEAN,
                  child : {"none", "grouped", "detached"}, killed : BOOLEAN]
McpCalling    == [id : 1..MaxToolCalls, by : {"mcp"}, st : {"lock", "read"}]
BridgeCalling == [id : 1..MaxToolCalls, by : {"bridge"}, st : {"reply"}]

\* The stage of a call says what it is.
LEMMA CallIs ==
    ASSUME ToolTypeOK, NEW c \in Clients
    PROVE  /\ call[c] \in Calling
           /\ call[c].st = "none" <=> call[c] = NoCall
           /\ call[c].st \in {"wait", "join"} => call[c] \in SkillCalling
           /\ call[c].st \in {"lock", "read"} => call[c] \in McpCalling
           /\ call[c].st = "reply" => call[c] \in BridgeCalling
           /\ call[c] # NoCall => call[c].id \in 1..MaxToolCalls
<1>1. call[c] \in Calling
  BY DEF ToolTypeOK
<1>2. \/ call[c] = NoCall \/ call[c] \in SkillCalling
      \/ call[c] \in McpCalling \/ call[c] \in BridgeCalling
  BY <1>1 DEF Calling, SkillCalling, McpCalling, BridgeCalling
<1>3. CASE call[c] = NoCall
  BY <1>1, <1>3 DEF NoCall
<1>4. CASE call[c] \in SkillCalling
  BY <1>1, <1>4 DEF NoCall, SkillCalling
<1>5. CASE call[c] \in McpCalling
  BY <1>1, <1>5 DEF NoCall, McpCalling
<1>6. CASE call[c] \in BridgeCalling
  BY <1>1, <1>6 DEF NoCall, BridgeCalling
<1> QED BY <1>2, <1>3, <1>4, <1>5, <1>6

LEMMA CallingIs == SkillCalling \cup McpCalling \cup BridgeCalling \cup {NoCall} = Calling
BY DEF Calling, SkillCalling, McpCalling, BridgeCalling

\* What a step that leaves the boot alone has to show.
CallTypes ==
    /\ call \in [Clients -> Calling]
    /\ serial \in 0..MaxToolCalls
    /\ answers \subseteq [id : 1..MaxToolCalls, madeFor : 0..MaxToolCalls,
                         by : {"mcp", "skill", "bridge"}]
    /\ mcp \in [holder : Clients \cup {NoOne}, up : BOOLEAN, mute : BOOLEAN, next : Nat,
                asked : SUBSET Reply, lines : Seq(Reply), own : 0..MaxOwn]
    /\ host \in [up : BOOLEAN, queue : Seq(1..MaxToolCalls), acted : {"no", "yes", "refused"}]
    /\ done \in Seq(1..MaxToolCalls)

LEMMA BootFrame ==
    ASSUME ToolTypeOK, RegistryInv, UNCHANGED <<bootVars, registry>>, CallTypes'
    PROVE  ToolTypeOK' /\ RegistryInv'
<1>1. plan' = plan /\ booted' = booted /\ registry' = registry
  BY DEF bootVars
<1> QED BY <1>1 DEF ToolTypeOK, CallTypes, RegistryInv, NamesCore

Rest == CallTypes /\ McpInv /\ HostInv /\ AnswersInv

LEMMA RestIs == ToolIInv => Rest
BY DEF ToolIInv, ToolTypeOK, CallTypes, Rest

\* The sequences of the state, element by element.
LEMMA SeqsAre ==
    ASSUME Rest
    PROVE  /\ host.queue \in Seq(1..MaxToolCalls) /\ Len(host.queue) \in Nat
           /\ DOMAIN host.queue = 1..Len(host.queue)
           /\ \A i \in DOMAIN host.queue : host.queue[i] \in 1..MaxToolCalls
           /\ done \in Seq(1..MaxToolCalls) /\ Len(done) \in Nat /\ DOMAIN done = 1..Len(done)
           /\ \A i \in DOMAIN done : done[i] \in 1..MaxToolCalls
           /\ mcp.lines \in Seq(Reply) /\ Len(mcp.lines) \in Nat
           /\ DOMAIN mcp.lines = 1..Len(mcp.lines)
           /\ \A i \in DOMAIN mcp.lines : mcp.lines[i] \in Reply
<1>1. host.queue \in Seq(1..MaxToolCalls) /\ done \in Seq(1..MaxToolCalls) /\ mcp.lines \in Seq(Reply)
  BY DEF Rest, CallTypes
<1>2. \A S : \A q \in Seq(S) :
         Len(q) \in Nat /\ DOMAIN q = 1..Len(q) /\ \A i \in DOMAIN q : q[i] \in S
  BY LenProperties, ElementOfSeq
<1> QED BY <1>1, <1>2

\* A step that changes neither the client, nor the app, nor the answers, and keeps
\* each call's id and whether it reads.
LEMMA CallsMove ==
    ASSUME ToolTypeOK, Rest, NEW c \in Clients, NEW new \in Calling,
           call' = [call EXCEPT ![c] = new],
           new.st # "read", call[c].st # "read",
           serial' \in {serial, serial + 1}, serial' \in 0..MaxToolCalls,
           new = NoCall \/ new.id <= serial', mcp' = mcp
    PROVE  call' \in [Clients -> Calling] /\ McpInv'
<1>1. /\ call' \in [Clients -> Calling] /\ call'[c] = new
      /\ \A d \in Clients : d # c => call'[d] = call[d]
  BY DEF Rest, CallTypes
<1>2. serial \in Nat /\ serial' \in Nat /\ serial <= serial'
  BY ToolHostAssumption DEF Rest, CallTypes
<1>3. \A d \in Clients : call'[d].st = "read" <=> mcp.holder = d
  BY <1>1 DEF Rest, McpInv
<1>4. \A d \in Clients : call'[d] # NoCall => call'[d].id <= serial'
  <2> TAKE d \in Clients
  <2>1. CASE d = c
    BY <2>1, <1>1
  <2>2. CASE d # c
    <3>1. call[d] # NoCall => call[d].id <= serial /\ call[d].id \in Nat
      BY CallIs, ToolHostAssumption DEF Rest, McpInv
    <3> QED BY <2>2, <1>1, <1>2, <3>1
  <2> QED BY <2>1, <2>2
<1>5. mcp.holder # c
  BY DEF Rest, McpInv
<1>6. mcp.holder \in Clients => call'[mcp.holder] = call[mcp.holder]
  BY <1>1, <1>5
<1> QED
  BY <1>1, <1>3, <1>4, <1>6 DEF Rest, McpInv

LEMMA EditIs ==
    ASSUME ToolTypeOK, NEW c \in Clients,
           LeaderExits(c) \/ ChildEnds(c) \/ TryWait(c) \/ TimedOut(c)
    PROVE  \E new \in SkillCalling :
              /\ Edit(c, new) /\ call[c] \in SkillCalling /\ new.id = call[c].id
<1>1. /\ call[c].st \in {"wait", "join"}
      /\ call[c] \in SkillCalling
  BY CallIs DEF LeaderExits, ChildEnds, TryWait, TimedOut
<1>2. CASE LeaderExits(c)
  <2> DEFINE new == [call[c] EXCEPT !.leader = FALSE]
  <2>1. new \in SkillCalling /\ new.id = call[c].id
    BY <1>1 DEF SkillCalling
  <2> QED BY <1>1, <1>2, <2>1 DEF LeaderExits
<1>3. CASE ChildEnds(c)
  <2> DEFINE new == [call[c] EXCEPT !.child = "none"]
  <2>1. new \in SkillCalling /\ new.id = call[c].id
    BY <1>1 DEF SkillCalling
  <2> QED BY <1>1, <1>3, <2>1 DEF ChildEnds
<1>4. CASE TryWait(c)
  <2> DEFINE new == [call[c] EXCEPT !.st = "join"]
  <2>1. new \in SkillCalling /\ new.id = call[c].id
    BY <1>1 DEF SkillCalling
  <2> QED BY <1>1, <1>4, <2>1 DEF TryWait
<1>5. CASE TimedOut(c)
  <2> DEFINE new == [call[c] EXCEPT !.st = "join", !.leader = FALSE, !.killed = TRUE,
                                    !.child = IF @ = "grouped" THEN "none" ELSE @]
  <2>1. new \in SkillCalling /\ new.id = call[c].id
    BY <1>1 DEF SkillCalling
  <2> QED BY <1>1, <1>5, <2>1 DEF TimedOut
<1> QED BY <1>2, <1>3, <1>4, <1>5

LEMMA EditStep ==
    ASSUME ToolIInv, NEW c \in Clients,
           LeaderExits(c) \/ ChildEnds(c) \/ TryWait(c) \/ TimedOut(c)
    PROVE  ToolIInv'
<1> USE RestIs
<1>1. PICK new \in SkillCalling : Edit(c, new) /\ call[c] \in SkillCalling /\ new.id = call[c].id
  BY EditIs DEF ToolIInv
<1>2. /\ call' = [call EXCEPT ![c] = new] /\ new \in Calling /\ new.st # "read"
      /\ call[c].st # "read" /\ call[c] # NoCall
      /\ UNCHANGED <<bootVars, registry, serial, answers, mcp, host, done>>
  BY <1>1, CallingIs DEF Edit, SkillCalling, NoCall, hostVars
<1>3. new.id <= serial /\ serial \in 0..MaxToolCalls
  BY <1>1, <1>2 DEF Rest, McpInv, CallTypes
<1>4. call' \in [Clients -> Calling] /\ McpInv'
  BY <1>2, <1>3, CallsMove DEF ToolIInv
<1>5. CallTypes' /\ HostInv' /\ AnswersInv'
  BY <1>2, <1>4 DEF Rest, CallTypes, HostInv, AnswersInv
<1> QED
  BY <1>2, <1>4, <1>5, BootFrame DEF ToolIInv

LEMMA StartStep ==
    ASSUME ToolIInv, NEW c \in Clients, SkillCall(c) \/ McpCall(c)
    PROVE  ToolIInv'
<1> USE RestIs
<1>1. PICK new : /\ StartCall(c, new) /\ new.st # "read" /\ new.id = serial + 1
                 /\ new \in SkillCalling \cup McpCalling
  <2>0. serial + 1 \in 1..MaxToolCalls
    BY ToolHostAssumption DEF SkillCall, McpCall, StartCall, Rest, CallTypes
  <2>1. CASE SkillCall(c)
    <3>1. PICK child \in {"none", "grouped", "detached"} :
             StartCall(c, [id |-> serial + 1, by |-> "skill", st |-> "wait", leader |-> TRUE,
                           child |-> child, killed |-> FALSE])
      BY <2>1 DEF SkillCall
    <3> DEFINE new == [id |-> serial + 1, by |-> "skill", st |-> "wait", leader |-> TRUE,
                       child |-> child, killed |-> FALSE]
    <3>2. new \in SkillCalling /\ new.st # "read" /\ new.id = serial + 1
      BY <2>0 DEF SkillCalling
    <3> QED BY <3>1, <3>2
  <2>2. CASE McpCall(c)
    <3> DEFINE new == [id |-> serial + 1, by |-> "mcp", st |-> "lock"]
    <3>1. StartCall(c, new)
      BY <2>2 DEF McpCall
    <3>2. new \in McpCalling /\ new.st # "read" /\ new.id = serial + 1
      BY <2>0 DEF McpCalling
    <3> QED BY <3>1, <3>2
  <2> QED BY <2>1, <2>2
<1>2. /\ call' = [call EXCEPT ![c] = new] /\ new \in Calling /\ call[c] = NoCall
      /\ serial' = serial + 1 /\ serial < MaxToolCalls
      /\ UNCHANGED <<bootVars, registry, answers, mcp, host, done>>
  BY <1>1, CallingIs DEF StartCall, SkillCall, McpCall, hostVars
<1>3. serial' \in 0..MaxToolCalls /\ serial \in Nat /\ new.id <= serial'
  BY <1>1, <1>2, ToolHostAssumption DEF Rest, CallTypes
<1>4. call[c].st # "read"
  BY <1>2 DEF NoCall
<1>5. call' \in [Clients -> Calling] /\ McpInv'
  BY <1>1, <1>2, <1>3, <1>4, CallsMove DEF ToolIInv
<1>6. HostInv'
  <2>1. host' = host /\ done' = done
    BY <1>2
  <2>2. \A i \in DOMAIN host.queue : host.queue[i] <= serial + 1
    BY <1>3, SeqsAre, ToolHostAssumption DEF Rest, HostInv
  <2>3. \A i \in DOMAIN done : done[i] <= serial + 1
    BY <1>3, SeqsAre, ToolHostAssumption DEF Rest, HostInv
  <2> QED BY <1>2, <2>1, <2>2, <2>3 DEF Rest, HostInv
<1>7. CallTypes' /\ AnswersInv'
  BY <1>2, <1>3, <1>5 DEF Rest, CallTypes, AnswersInv
<1> QED
  BY <1>2, <1>5, <1>6, <1>7, BootFrame DEF ToolIInv

LEMMA AppendIs ==
    ASSUME NEW S, NEW q \in Seq(S), NEW x \in S
    PROVE  /\ Append(q, x) \in Seq(S) /\ DOMAIN Append(q, x) = 1..(Len(q) + 1)
           /\ Append(q, x)[Len(q) + 1] = x
           /\ \A i \in DOMAIN q : i \in DOMAIN Append(q, x) /\ Append(q, x)[i] = q[i]
           /\ \A i \in DOMAIN Append(q, x) : i = Len(q) + 1 \/ i \in DOMAIN q
<1>1. DOMAIN q = 1..Len(q) /\ Len(q) \in Nat
  BY LenProperties
<1> QED BY <1>1, AppendProperties, LenProperties

LEMMA TailIs ==
    ASSUME NEW S, NEW q \in Seq(S), q # <<>>
    PROVE  /\ Tail(q) \in Seq(S) /\ Head(q) = q[1] /\ 1 \in DOMAIN q /\ Head(q) \in S
           /\ \A i \in DOMAIN Tail(q) : i + 1 \in DOMAIN q /\ i \in Nat /\ i >= 1 /\ Tail(q)[i] = q[i + 1]
<1>1. DOMAIN q = 1..Len(q) /\ Len(q) \in Nat /\ Len(q) # 0
  BY LenProperties, EmptySeq
<1>2. Tail(q) \in Seq(S) /\ Len(Tail(q)) = Len(q) - 1 /\ Head(q) \in S
  BY HeadTailProperties
<1>3. DOMAIN Tail(q) = 1..(Len(q) - 1)
  BY <1>2, LenProperties
<1>4. \A i \in 1..(Len(q) - 1) : Tail(q)[i] = q[i + 1]
  BY <1>1, <1>2
<1>5. Head(q) = q[1]
  OBVIOUS
<1> QED BY <1>1, <1>2, <1>3, <1>4, <1>5

\* What is left of a sequence, and what is added to one, as something to pick.
RestFits(S, q) ==
    \E rest \in Seq(S) :
        /\ rest = Tail(q)
        /\ \A i \in DOMAIN rest : /\ i + 1 \in DOMAIN q /\ i \in Nat /\ i >= 1
                                  /\ rest[i] = q[i + 1]
MoreFits(S, q, x) ==
    \E more \in Seq(S) :
        /\ more = Append(q, x)
        /\ Len(q) + 1 \in DOMAIN more /\ more[Len(q) + 1] = x
        /\ \A i \in DOMAIN q : i \in DOMAIN more /\ more[i] = q[i]
        /\ \A i \in DOMAIN more : i = Len(q) + 1 \/ i \in DOMAIN q

LEMMA RestOf ==
    ASSUME NEW S, NEW q \in Seq(S), q # <<>> PROVE RestFits(S, q)
<1>1. /\ Tail(q) \in Seq(S)
      /\ \A i \in DOMAIN Tail(q) : /\ i + 1 \in DOMAIN q /\ i \in Nat /\ i >= 1
                                   /\ Tail(q)[i] = q[i + 1]
  BY TailIs
<1> QED BY <1>1, Zenon DEF RestFits

LEMMA MoreOf ==
    ASSUME NEW S, NEW q \in Seq(S), NEW x \in S PROVE MoreFits(S, q, x)
<1>1. /\ Append(q, x) \in Seq(S)
      /\ Len(q) + 1 \in DOMAIN Append(q, x) /\ Append(q, x)[Len(q) + 1] = x
      /\ \A i \in DOMAIN q : i \in DOMAIN Append(q, x) /\ Append(q, x)[i] = q[i]
      /\ \A i \in DOMAIN Append(q, x) : i = Len(q) + 1 \/ i \in DOMAIN q
  BY AppendIs, LenProperties
<1> QED BY <1>1, Zenon DEF MoreFits

\* A call that returns without holding the client's Mutex.
LEMMA ReturnStep ==
    ASSUME ToolIInv, NEW c \in Clients, call[c].st # "read",
           Return(c), UNCHANGED <<mcp, host, done>>,
           \/ answers' = answers
           \/ /\ call[c] \in SkillCalling
              /\ answers' = answers \cup {[id |-> call[c].id, madeFor |-> call[c].id, by |-> call[c].by]}
    PROVE  ToolIInv'
<1> USE RestIs
<1>1. /\ call' = [call EXCEPT ![c] = NoCall] /\ serial' = serial
      /\ UNCHANGED <<bootVars, registry>>
  BY DEF Return
<1>2. NoCall \in Calling /\ NoCall.st # "read" /\ serial \in 0..MaxToolCalls
  BY CallingIs DEF NoCall, Rest, CallTypes
<1>3. call' \in [Clients -> Calling] /\ McpInv'
  BY <1>1, <1>2, CallsMove DEF ToolIInv
<1>4. HostInv'
  BY <1>1 DEF Rest, HostInv
<1>5. CallTypes' /\ AnswersInv'
  <2>1. CASE answers' = answers
    BY <1>1, <1>3, <2>1 DEF Rest, CallTypes, AnswersInv
  <2>2. CASE /\ call[c] \in SkillCalling
             /\ answers' = answers \cup {[id |-> call[c].id, madeFor |-> call[c].id, by |-> call[c].by]}
    <3> DEFINE a == [id |-> call[c].id, madeFor |-> call[c].id, by |-> call[c].by]
    <3>1. call[c].id \in 1..MaxToolCalls /\ call[c].by = "skill" /\ call[c].id \in 0..MaxToolCalls
      BY <2>2, ToolHostAssumption DEF SkillCalling
    <3>2. /\ a \in [id : 1..MaxToolCalls, madeFor : 0..MaxToolCalls, by : {"mcp", "skill", "bridge"}]
          /\ a.madeFor = a.id /\ a.by # "bridge"
      BY <3>1
    <3> HIDE DEF a
    <3>3. answers' = answers \cup {a}
      BY <2>2 DEF a
    <3>4. CallTypes'
      BY <1>1, <1>3, <3>2, <3>3 DEF Rest, CallTypes
    <3>5. AnswersInv'
      BY <3>2, <3>3 DEF Rest, AnswersInv
    <3> QED BY <3>4, <3>5
  <2> QED BY <2>1, <2>2
<1> QED
  BY <1>1, <1>3, <1>4, <1>5, BootFrame DEF ToolIInv

LEMMA JoinStep ==
    ASSUME ToolIInv, NEW c \in Clients, JoinReaders(c) \/ BridgeGivesUp(c)
    PROVE  ToolIInv'
<1>1. Return(c) /\ UNCHANGED <<mcp, host, done>> /\ call[c].st # "read"
  BY DEF JoinReaders, BridgeGivesUp, ReturnOk, ReturnError, hostVars
<1>2. \/ answers' = answers
      \/ /\ call[c] \in SkillCalling
         /\ answers' = answers \cup {[id |-> call[c].id, madeFor |-> call[c].id, by |-> call[c].by]}
  BY CallIs DEF ToolIInv, JoinReaders, BridgeGivesUp, ReturnOk, ReturnError
<1> QED BY <1>1, <1>2, ReturnStep

(***************************************************************************)
(* MCP                                                                     *)
(***************************************************************************)

\* What a server still has to say, whether it was asked or not.
Said(a) ==
    a.madeFor # OwnWord =>
       /\ a.id <= mcp.next
       /\ a.id = mcp.next /\ mcp.holder \in Clients => a.madeFor = call[mcp.holder].id

LEMMA McpIs ==
    McpInv <=> /\ \A c \in Clients : call[c].st = "read" <=> mcp.holder = c
               /\ \A c \in Clients : call[c] # NoCall => call[c].id <= serial
               /\ \A a \in mcp.asked : Said(a)
               /\ \A i \in DOMAIN mcp.lines : Said(mcp.lines[i])
BY DEF McpInv, Said

LEMMA ServerStep ==
    ASSUME ToolIInv, ServerAnswers \/ ServerSpeaks \/ ServerDies
    PROVE  ToolIInv'
<1> USE RestIs
<1>1. UNCHANGED <<bootVars, registry, call, serial, answers, host, done>>
  BY DEF ServerAnswers, ServerSpeaks, ServerDies
<1>2. /\ mcp \in [holder : Clients \cup {NoOne}, up : BOOLEAN, mute : BOOLEAN, next : Nat,
                  asked : SUBSET Reply, lines : Seq(Reply), own : 0..MaxOwn]
      /\ mcp.lines \in Seq(Reply) /\ mcp.asked \subseteq Reply
      /\ \A a \in mcp.asked : Said(a)
      /\ \A i \in DOMAIN mcp.lines : Said(mcp.lines[i])
  BY McpIs DEF Rest, CallTypes
<1>3. /\ mcp'.holder = mcp.holder /\ mcp'.next = mcp.next
      /\ mcp' \in [holder : Clients \cup {NoOne}, up : BOOLEAN, mute : BOOLEAN, next : Nat,
                   asked : SUBSET Reply, lines : Seq(Reply), own : 0..MaxOwn]
      /\ \A a \in mcp'.asked : Said(a)
      /\ \A i \in DOMAIN mcp'.lines : Said(mcp'.lines[i])
  <2>1. CASE ServerAnswers
    <3>1. PICK a \in mcp.asked : mcp' = [mcp EXCEPT !.asked = @ \ {a}, !.lines = Append(@, a)]
      BY <2>1 DEF ServerAnswers
    <3>2. a \in Reply /\ Said(a)
      BY <1>2, <3>1
    <3>3. /\ Append(mcp.lines, a) \in Seq(Reply)
          /\ \A i \in DOMAIN Append(mcp.lines, a) : Said(Append(mcp.lines, a)[i])
      BY <1>2, <3>2, AppendIs
    <3> QED BY <1>2, <3>1, <3>3
  <2>2. CASE ServerSpeaks
    <3>1. PICK id \in 0..MaxToolCalls :
             mcp' = [mcp EXCEPT !.own = @ + 1,
                                !.lines = Append(@, [id |-> id, madeFor |-> OwnWord])]
      BY <2>2 DEF ServerSpeaks
    <3> DEFINE a == [id |-> id, madeFor |-> OwnWord]
    <3>2. a \in Reply /\ Said(a)
      BY ToolHostAssumption DEF Reply, OwnWord, Said
    <3>3. mcp.own + 1 \in 0..MaxOwn
      <4>1. mcp.own \in 0..MaxOwn
        BY <1>2
      <4>2. mcp.own < MaxOwn
        BY <2>2 DEF ServerSpeaks
      <4> QED BY <4>1, <4>2, ToolHostAssumption
    <3> HIDE DEF a
    <3>4. /\ Append(mcp.lines, a) \in Seq(Reply)
          /\ \A i \in DOMAIN Append(mcp.lines, a) : Said(Append(mcp.lines, a)[i])
      BY <1>2, <3>2, AppendIs
    <3>5. mcp' = [mcp EXCEPT !.own = @ + 1, !.lines = Append(@, a)]
      BY <3>1 DEF a
    <3> QED BY <1>2, <3>3, <3>4, <3>5
  <2>3. CASE ServerDies
    BY <1>2, <2>3 DEF ServerDies
  <2> QED BY <2>1, <2>2, <2>3
<1>4. McpInv'
  BY <1>1, <1>3 DEF Rest, McpInv, Said
<1>5. CallTypes' /\ HostInv' /\ AnswersInv'
  BY <1>1, <1>3 DEF Rest, CallTypes, HostInv, AnswersInv
<1> QED
  BY <1>1, <1>4, <1>5, BootFrame DEF ToolIInv

LEMMA RequestStep ==
    ASSUME ToolIInv, NEW c \in Clients, McpRequest(c)
    PROVE  ToolIInv'
<1> USE RestIs
<1>1. /\ call[c].st = "lock" /\ mcp.holder = NoOne
      /\ call[c] \in McpCalling /\ call[c] # NoCall
      /\ UNCHANGED <<bootVars, registry, serial, answers, host, done>>
  BY CallIs DEF ToolIInv, McpRequest, Return, ReturnError, NoCall
<1>2. /\ mcp \in [holder : Clients \cup {NoOne}, up : BOOLEAN, mute : BOOLEAN, next : Nat,
                  asked : SUBSET Reply, lines : Seq(Reply), own : 0..MaxOwn]
      /\ mcp.asked \subseteq Reply /\ mcp.next \in Nat
      /\ \A i \in DOMAIN mcp.lines : mcp.lines[i] \in Reply
      /\ call \in [Clients -> Calling]
  BY SeqsAre DEF Rest, CallTypes
<1>3. CASE /\ mcp' = [mcp EXCEPT !.holder = c, !.next = @ + 1,
                                 !.asked = @ \cup {[id |-> mcp.next + 1, madeFor |-> call[c].id]}]
           /\ call' = [call EXCEPT ![c].st = "read"]
  <2>1. PICK a \in Reply : /\ a = [id |-> mcp.next + 1, madeFor |-> call[c].id]
                           /\ a.id = mcp.next + 1 /\ a.madeFor = call[c].id
    <3>1. call[c].id \in 0..MaxToolCalls /\ mcp.next + 1 \in Nat
      BY <1>1, <1>2, ToolHostAssumption DEF McpCalling
    <3> DEFINE a == [id |-> mcp.next + 1, madeFor |-> call[c].id]
    <3>2. a \in Reply /\ a.id = mcp.next + 1 /\ a.madeFor = call[c].id
      BY <3>1 DEF Reply
    <3> QED BY <3>2
  <2>2. PICK new \in McpCalling : /\ new = [call[c] EXCEPT !.st = "read"]
                                  /\ new.st = "read" /\ new.id = call[c].id
    <3> DEFINE new == [call[c] EXCEPT !.st = "read"]
    <3>1. new \in McpCalling /\ new.st = "read" /\ new.id = call[c].id
      BY <1>1 DEF McpCalling
    <3> QED BY <3>1
  <2>2a. new \in Calling /\ new.st = "read" /\ new.id = call[c].id
    BY <2>2, CallingIs
  <2>2b. a.id = mcp.next + 1 /\ a.madeFor = call[c].id
    BY <2>1
  <2>3. call' = [call EXCEPT ![c] = new]
    BY <1>3, <2>2
  <2>4. mcp' = [mcp EXCEPT !.holder = c, !.next = @ + 1, !.asked = @ \cup {a}]
    BY <1>3, <2>1
  <2>4a. mcp.next + 1 \in Nat /\ mcp.asked \cup {a} \in SUBSET Reply
    BY <1>2
  <2>5. /\ call' \in [Clients -> Calling] /\ call'[c] = new
        /\ \A d \in Clients : d # c => call'[d] = call[d]
    BY <2>2a, <2>3, <1>2
  <2>6. /\ mcp'.holder = c /\ mcp'.next = mcp.next + 1 /\ mcp'.asked = mcp.asked \cup {a}
        /\ mcp'.lines = mcp.lines
        /\ mcp' \in [holder : Clients \cup {NoOne}, up : BOOLEAN, mute : BOOLEAN, next : Nat,
                     asked : SUBSET Reply, lines : Seq(Reply), own : 0..MaxOwn]
    BY <1>2, <2>4, <2>4a
  <2>7. \A d \in Clients : call'[d].st = "read" <=> mcp'.holder = d
    BY <1>1, <2>2a, <2>5, <2>6, ClientsAssumption DEF Rest, McpInv
  <2>8. \A d \in Clients : call'[d] # NoCall => call'[d].id <= serial'
    BY <1>1, <2>2a, <2>5 DEF Rest, McpInv
  <2>9. \A b \in Reply : Said(b) => Said(b)'
    <3> SUFFICES ASSUME NEW b \in Reply, Said(b), b.madeFor # OwnWord
                 PROVE  b.id <= mcp.next + 1 /\ b.id # mcp.next + 1
      BY <2>6 DEF Said
    <3>1. b.id \in Nat /\ b.id <= mcp.next
      BY DEF Said, Reply
    <3> QED BY <3>1, <1>2
  <2>10. Said(a)'
    <3>1. mcp.next + 1 <= mcp.next + 1
      BY <1>2
    <3> QED BY <2>2a, <2>2b, <2>5, <2>6, <3>1 DEF Said
  <2>11. McpInv'
    <3>1. \A b \in mcp'.asked : Said(b)'
      BY <2>6, <2>9, <2>10, <1>2, McpIs DEF Rest
    <3>2. \A i \in DOMAIN mcp'.lines : Said(mcp.lines[i])'
      <4> TAKE i \in DOMAIN mcp'.lines
      <4>1. mcp.lines[i] \in Reply /\ Said(mcp.lines[i])
        BY <2>6, <1>2, McpIs DEF Rest
      <4>2. PICK b \in Reply : b = mcp.lines[i]
        BY <4>1
      <4>3. b.madeFor # OwnWord => b.id <= mcp.next
        BY <4>1, <4>2 DEF Said
      <4> QED BY <4>1, <4>2, <4>3, <2>6, <2>9 DEF Said
    <3> QED BY <2>6, <2>7, <2>8, <3>1, <3>2 DEF McpInv, Said
  <2>12. CallTypes' /\ HostInv' /\ AnswersInv'
    BY <1>1, <2>5, <2>6 DEF Rest, CallTypes, HostInv, AnswersInv
  <2> QED
    BY <1>1, <2>11, <2>12, BootFrame DEF ToolIInv
<1>4. CASE ~mcp.up /\ mcp' = [mcp EXCEPT !.next = @ + 1] /\ ReturnError(c)
  <2>1. /\ call' = [call EXCEPT ![c] = NoCall] /\ NoCall \in Calling /\ NoCall.st # "read"
    BY <1>4, CallingIs DEF ReturnError, Return, NoCall
  <2>2. /\ call' \in [Clients -> Calling] /\ call'[c] = NoCall
        /\ \A d \in Clients : d # c => call'[d] = call[d]
    BY <2>1, <1>2
  <2>3. /\ mcp'.holder = NoOne /\ mcp'.asked = mcp.asked /\ mcp'.lines = mcp.lines
        /\ mcp'.next = mcp.next + 1
        /\ mcp' \in [holder : Clients \cup {NoOne}, up : BOOLEAN, mute : BOOLEAN, next : Nat,
                     asked : SUBSET Reply, lines : Seq(Reply), own : 0..MaxOwn]
    BY <1>1, <1>2, <1>4
  <2>4. \A d \in Clients : call'[d].st = "read" <=> mcp'.holder = d
    BY <1>1, <2>1, <2>2, <2>3, ClientsAssumption DEF Rest, McpInv
  <2>5. \A d \in Clients : call'[d] # NoCall => call'[d].id <= serial'
    BY <1>1, <2>2 DEF Rest, McpInv
  <2>6. \A b \in mcp.asked \cup {mcp.lines[i] : i \in DOMAIN mcp.lines} :
           b.madeFor # OwnWord => b.id <= mcp.next + 1
    <3> TAKE b \in mcp.asked \cup {mcp.lines[i] : i \in DOMAIN mcp.lines}
    <3>1. b \in Reply
      BY <1>2
    <3>2. b.madeFor # OwnWord => b.id <= mcp.next
      BY DEF Rest, McpInv
    <3> QED BY <3>1, <3>2, <1>2 DEF Reply
  <2>7. McpInv'
    BY <2>3, <2>4, <2>5, <2>6, ClientsAssumption DEF McpInv
  <2>8. CallTypes' /\ HostInv' /\ AnswersInv'
    BY <1>1, <2>2, <2>3 DEF Rest, CallTypes, HostInv, AnswersInv
  <2> QED
    BY <1>1, <2>7, <2>8, BootFrame DEF ToolIInv
<1> QED
  BY <1>3, <1>4 DEF McpRequest

\* The client lets go of the Mutex and forgets its call.
LEMMA LetGo ==
    ASSUME ToolIInv, NEW c \in Clients, call[c].st = "read",
           call' = [call EXCEPT ![c] = NoCall], serial' = serial,
           mcp'.holder = NoOne, mcp'.next = mcp.next, mcp'.asked = mcp.asked,
           \A i \in DOMAIN mcp'.lines : \E k \in DOMAIN mcp.lines : mcp'.lines[i] = mcp.lines[k]
    PROVE  call' \in [Clients -> Calling] /\ McpInv'
<1> USE RestIs
<1>1. NoCall \in Calling /\ NoCall.st # "read" /\ call \in [Clients -> Calling]
  BY CallingIs DEF NoCall, Rest, CallTypes
<1>2. /\ call' \in [Clients -> Calling] /\ call'[c] = NoCall
      /\ \A d \in Clients : d # c => call'[d] = call[d]
  BY <1>1
<1>3. mcp.holder = c
  BY DEF Rest, McpInv
<1>4. \A d \in Clients : call'[d].st = "read" <=> mcp'.holder = d
  BY <1>1, <1>2, <1>3, ClientsAssumption DEF Rest, McpInv
<1>5. \A d \in Clients : call'[d] # NoCall => call'[d].id <= serial'
  BY <1>2 DEF Rest, McpInv
<1>6. \A b \in mcp'.asked \cup {mcp'.lines[i] : i \in DOMAIN mcp'.lines} :
         b.madeFor # OwnWord => b.id <= mcp.next
  BY DEF Rest, McpInv
<1> QED
  BY <1>2, <1>4, <1>5, <1>6, ClientsAssumption DEF McpInv

LEMMA ReadStep ==
    ASSUME ToolIInv, NEW c \in Clients, McpRead(c)
    PROVE  ToolIInv'
<1> USE RestIs
<1>1. /\ call[c].st = "read" /\ call[c] \in McpCalling /\ mcp.holder = c
      /\ call[c].id \in 1..MaxToolCalls /\ call[c].by = "mcp"
      /\ UNCHANGED <<bootVars, registry, serial, host, done>>
  BY CallIs
  DEF ToolIInv, McpRead, Return, ReturnOk, ReturnError, McpCalling, Rest, McpInv
<1>2. /\ mcp \in [holder : Clients \cup {NoOne}, up : BOOLEAN, mute : BOOLEAN, next : Nat,
                  asked : SUBSET Reply, lines : Seq(Reply), own : 0..MaxOwn]
      /\ mcp.lines \in Seq(Reply)
  BY DEF Rest, CallTypes
<1>3. CASE /\ mcp.lines # <<>> /\ Head(mcp.lines).id = mcp.next
           /\ mcp' = [mcp EXCEPT !.lines = Tail(@), !.holder = NoOne]
           /\ ReturnOk(c, Head(mcp.lines).madeFor)
  <2> DEFINE h == Head(mcp.lines)
             a == [id |-> call[c].id, madeFor |-> h.madeFor, by |-> call[c].by]
  <2>1. /\ h = mcp.lines[1] /\ 1 \in DOMAIN mcp.lines /\ h \in Reply
    BY <1>2, <1>3, TailIs
  <2>1a. PICK rest \in Seq(Reply) :
            /\ rest = Tail(mcp.lines)
            /\ \A i \in DOMAIN rest : \E k \in DOMAIN mcp.lines : rest[i] = mcp.lines[k]
    <3>1. RestFits(Reply, mcp.lines)
      BY <1>2, <1>3, RestOf
    <3> QED BY <3>1, Zenon DEF RestFits
  <2>2. h.madeFor = OwnWord \/ h.madeFor = call[c].id
    <3>1. Said(mcp.lines[1])
      BY <2>1, McpIs DEF Rest
    <3> QED BY <1>1, <1>3, <2>1, <3>1 DEF Said
  <2>3. /\ a \in [id : 1..MaxToolCalls, madeFor : 0..MaxToolCalls, by : {"mcp", "skill", "bridge"}]
        /\ a.id = call[c].id /\ a.madeFor = h.madeFor /\ a.by = "mcp"
    BY <1>1, <2>1 DEF Reply
  <2>4. answers' = answers \cup {a}
    BY <1>3 DEF ReturnOk
  <2> HIDE DEF a, h
  <2>5. /\ mcp'.holder = NoOne /\ mcp'.next = mcp.next /\ mcp'.asked = mcp.asked
        /\ mcp'.lines = rest
        /\ mcp' \in [holder : Clients \cup {NoOne}, up : BOOLEAN, mute : BOOLEAN, next : Nat,
                     asked : SUBSET Reply, lines : Seq(Reply), own : 0..MaxOwn]
    BY <1>2, <1>3, <2>1a
  <2>6. call' = [call EXCEPT ![c] = NoCall]
    BY <1>3 DEF ReturnOk, Return
  <2>7. call' \in [Clients -> Calling] /\ McpInv'
    <3>1. serial' = serial
      BY <1>1
    <3>2. \A i \in DOMAIN mcp'.lines : \E k \in DOMAIN mcp.lines : mcp'.lines[i] = mcp.lines[k]
      BY <2>1a, <2>5
    <3> QED BY <1>1, <2>5, <2>6, <3>1, <3>2, LetGo
  <2>8. AnswersInv'
    BY <1>1, <2>2, <2>3, <2>4 DEF Rest, AnswersInv
  <2>9. CallTypes' /\ HostInv'
    BY <1>1, <2>3, <2>4, <2>5, <2>7 DEF Rest, CallTypes, HostInv
  <2> QED BY <1>1, <2>7, <2>8, <2>9, BootFrame DEF ToolIInv
<1>4. CASE /\ mcp.lines # <<>> /\ Head(mcp.lines).id # mcp.next
           /\ mcp' = [mcp EXCEPT !.lines = Tail(@)]
           /\ UNCHANGED <<bootVars, registry, call, serial, answers>>
  <2>1. PICK rest \in Seq(Reply) :
            /\ rest = Tail(mcp.lines)
            /\ \A i \in DOMAIN rest : \E k \in DOMAIN mcp.lines : rest[i] = mcp.lines[k]
    <3>1. RestFits(Reply, mcp.lines)
      BY <1>2, <1>4, RestOf
    <3> QED BY <3>1, Zenon DEF RestFits
  <2>2. /\ mcp'.holder = mcp.holder /\ mcp'.next = mcp.next /\ mcp'.asked = mcp.asked
        /\ mcp'.lines = rest
        /\ mcp' \in [holder : Clients \cup {NoOne}, up : BOOLEAN, mute : BOOLEAN, next : Nat,
                     asked : SUBSET Reply, lines : Seq(Reply), own : 0..MaxOwn]
    BY <1>2, <1>4, <2>1
  <2>3. McpInv'
    BY <1>4, <2>1, <2>2 DEF Rest, McpInv
  <2>4. CallTypes' /\ HostInv' /\ AnswersInv'
    <3>1. call' = call /\ serial' = serial /\ answers' = answers /\ host' = host /\ done' = done
      BY <1>1, <1>4
    <3> QED BY <2>2, <3>1 DEF Rest, CallTypes, HostInv, AnswersInv
  <2> QED BY <1>1, <2>3, <2>4, BootFrame DEF ToolIInv
<1>5. CASE /\ mcp.lines = <<>> /\ ~mcp.up
           /\ mcp' = [mcp EXCEPT !.holder = NoOne] /\ ReturnError(c)
  <2>1. /\ mcp'.holder = NoOne /\ mcp'.next = mcp.next /\ mcp'.asked = mcp.asked
        /\ mcp'.lines = mcp.lines
        /\ mcp' \in [holder : Clients \cup {NoOne}, up : BOOLEAN, mute : BOOLEAN, next : Nat,
                     asked : SUBSET Reply, lines : Seq(Reply), own : 0..MaxOwn]
    BY <1>2, <1>5
  <2>2. call' = [call EXCEPT ![c] = NoCall] /\ answers' = answers
    BY <1>5 DEF ReturnError, Return
  <2>3. call' \in [Clients -> Calling] /\ McpInv'
    BY <1>1, <2>1, <2>2, LetGo
  <2>4. CallTypes' /\ HostInv' /\ AnswersInv'
    BY <1>1, <2>1, <2>2, <2>3 DEF Rest, CallTypes, HostInv, AnswersInv
  <2> QED BY <1>1, <2>3, <2>4, BootFrame DEF ToolIInv
<1> QED
  BY <1>3, <1>4, <1>5 DEF McpRead

(***************************************************************************)
(* The bridge                                                              *)
(***************************************************************************)

LEMMA BridgeStep ==
    ASSUME ToolIInv, NEW c \in Clients, BridgeCall(c)
    PROVE  ToolIInv'
<1> USE RestIs
<1>0. /\ serial + 1 \in 1..MaxToolCalls /\ serial \in Nat /\ call[c] = NoCall
      /\ serial' = serial + 1
      /\ UNCHANGED <<bootVars, registry, answers, mcp, done>>
      /\ host' = [host EXCEPT !.queue = Append(@, serial + 1)]
  BY ToolHostAssumption DEF BridgeCall, StartCall, Rest, CallTypes
<1>1. PICK new \in BridgeCalling : /\ call' = [call EXCEPT ![c] = new]
                                  /\ new.st # "read" /\ new.id = serial + 1
  <2> DEFINE new == [id |-> serial + 1, by |-> "bridge", st |-> "reply"]
  <2>1. new \in BridgeCalling /\ new.st # "read" /\ new.id = serial + 1
    BY <1>0 DEF BridgeCalling
  <2>2. call' = [call EXCEPT ![c] = new]
    BY DEF BridgeCall, StartCall
  <2> QED BY <2>1, <2>2
<1>2. call' \in [Clients -> Calling] /\ McpInv'
  <2>1. new \in Calling /\ call[c].st # "read"
    BY <1>0, CallingIs DEF NoCall
  <2>2. serial' \in 0..MaxToolCalls /\ new.id <= serial'
    BY <1>0, <1>1
  <2> QED BY <1>0, <1>1, <2>1, <2>2, CallsMove DEF ToolIInv
<1>3. PICK q \in Seq(1..MaxToolCalls) :
         /\ q = Append(host.queue, serial + 1)
         /\ q[Len(host.queue) + 1] = serial + 1
         /\ \A i \in DOMAIN host.queue : i \in DOMAIN q /\ q[i] = host.queue[i]
         /\ \A i \in DOMAIN q : i = Len(host.queue) + 1 \/ i \in DOMAIN host.queue
  <2>1. MoreFits(1..MaxToolCalls, host.queue, serial + 1)
    BY <1>0, SeqsAre, MoreOf
  <2> QED BY <2>1, Zenon DEF MoreFits
<1>4. /\ host' = [host EXCEPT !.queue = q]
      /\ host \in [up : BOOLEAN, queue : Seq(1..MaxToolCalls), acted : {"no", "yes", "refused"}]
  BY <1>0, <1>3 DEF Rest, CallTypes
<1>5. /\ host'.queue = q /\ host'.acted = host.acted /\ done' = done
      /\ host' \in [up : BOOLEAN, queue : Seq(1..MaxToolCalls), acted : {"no", "yes", "refused"}]
  BY <1>0, <1>4
<1>6. /\ \A i \in DOMAIN host.queue : host.queue[i] # serial + 1 /\ host.queue[i] <= serial + 1
      /\ \A i \in DOMAIN done : done[i] # serial + 1 /\ done[i] <= serial + 1
  <2>1. /\ \A i \in DOMAIN host.queue : host.queue[i] \in Nat /\ host.queue[i] <= serial
        /\ \A i \in DOMAIN done : done[i] \in Nat /\ done[i] <= serial
    BY SeqsAre DEF Rest, HostInv
  <2> QED BY <1>0, <2>1
<1>7. HostInv'
  <2>1. \A i, j \in DOMAIN q : q[i] = q[j] => i = j
    BY <1>3, <1>6 DEF Rest, HostInv
  <2>2. \A i \in DOMAIN q : q[i] <= serial + 1
    BY <1>0, <1>3, <1>6
  <2>3. \A i \in DOMAIN q, j \in DOMAIN done : q[i] = done[j] => i = 1 /\ host.acted = "yes"
    BY <1>3, <1>6 DEF Rest, HostInv
  <2>4. host.acted # "no" => q # <<>> /\ q[1] = host.queue[1]
    <3> SUFFICES ASSUME host.acted # "no" PROVE q # <<>> /\ q[1] = host.queue[1]
      OBVIOUS
    <3>1. 1 \in DOMAIN host.queue
      BY SeqsAre, EmptySeq DEF Rest, HostInv
    <3>2. 1 \in DOMAIN q /\ q[1] = host.queue[1]
      BY <3>1, <1>3
    <3> QED BY <3>2
  <2> QED BY <1>0, <1>5, <1>6, <2>1, <2>2, <2>3, <2>4 DEF Rest, HostInv
<1>8. CallTypes' /\ AnswersInv'
  BY <1>0, <1>2, <1>5 DEF Rest, CallTypes, AnswersInv
<1> QED
  BY <1>0, <1>2, <1>7, <1>8, BootFrame DEF ToolIInv

LEMMA ActStep ==
    ASSUME ToolIInv, HostActs
    PROVE  ToolIInv'
<1> USE RestIs
<1>1. /\ UNCHANGED <<bootVars, registry, call, serial, answers, mcp>>
      /\ host.queue # <<>> /\ host.acted = "no"
      /\ host \in [up : BOOLEAN, queue : Seq(1..MaxToolCalls), acted : {"no", "yes", "refused"}]
  BY DEF HostActs, Rest, CallTypes
<1>2. McpInv'
  BY <1>1 DEF Rest, McpInv
<1>3. CASE done' = Append(done, Head(host.queue)) /\ host' = [host EXCEPT !.acted = "yes"]
  <2>1. /\ Head(host.queue) = host.queue[1] /\ 1 \in DOMAIN host.queue
        /\ host.queue[1] \in 1..MaxToolCalls
    BY <1>1, SeqsAre, TailIs
  <2>2. /\ done' \in Seq(1..MaxToolCalls)
        /\ done'[Len(done) + 1] = host.queue[1] /\ Len(done) + 1 \in DOMAIN done'
        /\ \A i \in DOMAIN done : i \in DOMAIN done' /\ done'[i] = done[i]
        /\ \A i \in DOMAIN done' : i = Len(done) + 1 \/ i \in DOMAIN done
    BY <1>3, <2>1, SeqsAre, AppendIs
  <2>3. /\ host'.queue = host.queue /\ host'.acted = "yes"
        /\ host' \in [up : BOOLEAN, queue : Seq(1..MaxToolCalls), acted : {"no", "yes", "refused"}]
    BY <1>1, <1>3
  <2>4. \A i \in DOMAIN done : done[i] # host.queue[1]
    BY <1>1, <2>1 DEF Rest, HostInv
  <2>5. HostInv'
    <3>1. \A i, j \in DOMAIN done' : done'[i] = done'[j] => i = j
      BY <2>2, <2>4 DEF Rest, HostInv
    <3>2. \A i \in DOMAIN done' : done'[i] <= serial
      BY <2>1, <2>2 DEF Rest, HostInv
    <3>3. \A i \in DOMAIN host.queue, j \in DOMAIN done' : host.queue[i] = done'[j] => i = 1
      BY <1>1, <2>1, <2>2 DEF Rest, HostInv
    <3> QED BY <1>1, <2>2, <2>3, <3>1, <3>2, <3>3 DEF Rest, HostInv
  <2>6. AnswersInv'
    BY <1>1, <2>2 DEF Rest, AnswersInv
  <2>7. CallTypes'
    BY <1>1, <2>2, <2>3 DEF Rest, CallTypes
  <2> QED BY <1>1, <1>2, <2>5, <2>6, <2>7, BootFrame DEF ToolIInv
<1>4. CASE UNCHANGED done /\ host' = [host EXCEPT !.acted = "refused"]
  <2>1. /\ host'.queue = host.queue /\ host'.acted = "refused"
        /\ host' \in [up : BOOLEAN, queue : Seq(1..MaxToolCalls), acted : {"no", "yes", "refused"}]
    BY <1>1, <1>4
  <2>2. CallTypes' /\ HostInv' /\ AnswersInv'
    BY <1>1, <1>4, <2>1 DEF Rest, CallTypes, HostInv, AnswersInv
  <2> QED BY <1>1, <1>2, <2>2, BootFrame DEF ToolIInv
<1> QED
  BY <1>3, <1>4 DEF HostActs

\* The app goes on to the next call, or is gone.
LEMMA QueueGoesOn ==
    ASSUME Rest, serial' = serial, done' = done,
           \/ host.queue # <<>> /\ host' = [host EXCEPT !.queue = Tail(@), !.acted = "no"]
           \/ host' = [host EXCEPT !.up = FALSE, !.queue = <<>>, !.acted = "no"]
    PROVE  /\ HostInv'
           /\ host' \in [up : BOOLEAN, queue : Seq(1..MaxToolCalls), acted : {"no", "yes", "refused"}]
<1>1. host \in [up : BOOLEAN, queue : Seq(1..MaxToolCalls), acted : {"no", "yes", "refused"}]
  BY DEF Rest, CallTypes
<1>2. CASE host.queue # <<>> /\ host' = [host EXCEPT !.queue = Tail(@), !.acted = "no"]
  <2>1. RestFits(1..MaxToolCalls, host.queue)
    BY <1>2, SeqsAre, RestOf
  <2>2. PICK q \in Seq(1..MaxToolCalls) :
           /\ q = Tail(host.queue)
           /\ \A i \in DOMAIN q : /\ i + 1 \in DOMAIN host.queue /\ i \in Nat /\ i >= 1
                                  /\ q[i] = host.queue[i + 1]
    BY <2>1, Zenon DEF RestFits
  <2>3. host' = [host EXCEPT !.queue = q, !.acted = "no"]
    BY <1>2, <2>2
  <2>4. /\ host'.queue = q /\ host'.acted = "no"
        /\ host' \in [up : BOOLEAN, queue : Seq(1..MaxToolCalls), acted : {"no", "yes", "refused"}]
    BY <1>1, <2>3
  <2>5. \A i, j \in DOMAIN q : q[i] = q[j] => i = j
    <3> SUFFICES ASSUME NEW i \in DOMAIN q, NEW j \in DOMAIN q, q[i] = q[j] PROVE i = j
      OBVIOUS
    <3>1. i + 1 = j + 1
      BY <2>2 DEF Rest, HostInv
    <3> QED BY <2>2, <3>1
  <2>6. \A i \in DOMAIN q : q[i] <= serial
    BY <2>2 DEF Rest, HostInv
  <2>7. \A i \in DOMAIN q, j \in DOMAIN done : q[i] # done[j]
    <3> SUFFICES ASSUME NEW i \in DOMAIN q, NEW j \in DOMAIN done, q[i] = done[j] PROVE FALSE
      OBVIOUS
    <3>1. i + 1 = 1
      BY <2>2 DEF Rest, HostInv
    <3> QED BY <2>2, <3>1
  <2> QED BY <2>4, <2>5, <2>6, <2>7 DEF Rest, HostInv
<1>3. CASE host' = [host EXCEPT !.up = FALSE, !.queue = <<>>, !.acted = "no"]
  <2>1. << >> \in Seq(1..MaxToolCalls) /\ DOMAIN << >> = {}
    OBVIOUS
  <2>2. /\ host'.queue = << >> /\ host'.acted = "no"
        /\ host' \in [up : BOOLEAN, queue : Seq(1..MaxToolCalls), acted : {"no", "yes", "refused"}]
    BY <1>1, <1>3, <2>1
  <2> QED BY <2>1, <2>2 DEF Rest, HostInv
<1> QED BY <1>2, <1>3

LEMMA ReplyStep ==
    ASSUME ToolIInv, HostReplies \/ HostQuits
    PROVE  ToolIInv'
<1> USE RestIs
<1> DEFINE next == [host EXCEPT !.queue = Tail(@), !.acted = "no"]
           gone == [host EXCEPT !.up = FALSE, !.queue = <<>>, !.acted = "no"]
           id == Head(host.queue)
<1>1. UNCHANGED <<bootVars, registry, serial, mcp, done>>
  BY DEF HostReplies, HostQuits, Return, ReturnOk, ReturnError
<1>2. \/ host.acted # "no" /\ host' = next
      \/ host' = gone
  BY DEF HostReplies, HostQuits
<1>3. host.acted # "no" => host.queue # <<>>
  BY DEF Rest, HostInv
<1>4. /\ HostInv'
      /\ host' \in [up : BOOLEAN, queue : Seq(1..MaxToolCalls), acted : {"no", "yes", "refused"}]
  BY <1>1, <1>2, <1>3, QueueGoesOn
<1>5. CASE UNCHANGED <<call, answers>>
  <2>1. McpInv'
    BY <1>1, <1>5 DEF Rest, McpInv
  <2>2. CallTypes' /\ AnswersInv'
    BY <1>1, <1>4, <1>5 DEF Rest, CallTypes, AnswersInv
  <2> QED BY <1>1, <1>4, <2>1, <2>2, BootFrame DEF ToolIInv
<1>6. ASSUME NEW c \in Clients, Waiting(c, id), host.acted # "no",
             IF host.acted = "yes" THEN ReturnOk(c, id) ELSE ReturnError(c)
      PROVE  ToolIInv'
  <2>1. /\ call[c].st = "reply" /\ call[c].id = id /\ call[c] \in BridgeCalling
        /\ call' = [call EXCEPT ![c] = NoCall]
    BY <1>6, CallIs DEF ToolIInv, Waiting, ReturnOk, ReturnError, Return
  <2>2. NoCall \in Calling /\ NoCall.st # "read" /\ serial \in 0..MaxToolCalls
    BY CallingIs DEF NoCall, Rest, CallTypes
  <2>3. call' \in [Clients -> Calling] /\ McpInv'
    BY <1>1, <2>1, <2>2, CallsMove DEF ToolIInv
  <2>4. CASE host.acted = "yes"
    <3>1. PICK a : /\ a = [id |-> call[c].id, madeFor |-> id, by |-> call[c].by]
                   /\ answers' = answers \cup {a}
      BY <1>6, <2>4 DEF ReturnOk
    <3>2. id = host.queue[1]
      BY <1>6, <1>3, SeqsAre, TailIs
    <3>3. \E i \in DOMAIN done : done[i] = id
      BY <2>4, <3>2 DEF Rest, HostInv
    <3>4. call[c].id \in 1..MaxToolCalls /\ call[c].id \in 0..MaxToolCalls /\ call[c].by = "bridge"
      BY <2>1, ToolHostAssumption DEF BridgeCalling
    <3>5. /\ a \in [id : 1..MaxToolCalls, madeFor : 0..MaxToolCalls, by : {"mcp", "skill", "bridge"}]
          /\ a.madeFor = a.id /\ a.id = id
      BY <3>1, <3>4, <2>1
    <3>6. AnswersInv'
      BY <1>1, <3>1, <3>3, <3>5 DEF Rest, AnswersInv
    <3>7. CallTypes'
      BY <1>1, <1>4, <2>3, <3>1, <3>5 DEF Rest, CallTypes
    <3> QED BY <1>1, <1>4, <2>3, <3>6, <3>7, BootFrame DEF ToolIInv
  <2>5. CASE host.acted # "yes"
    <3>1. answers' = answers
      BY <1>6, <2>5 DEF ReturnError
    <3>2. CallTypes' /\ AnswersInv'
      BY <1>1, <1>4, <2>3, <3>1 DEF Rest, CallTypes, AnswersInv
    <3> QED BY <1>1, <1>4, <2>3, <3>2, BootFrame DEF ToolIInv
  <2> QED BY <2>4, <2>5
<1> QED
  BY <1>5, <1>6 DEF HostReplies, HostQuits

(***************************************************************************)
(* The theorems                                                            *)
(***************************************************************************)

LEMMA BootKeeps ==
    ASSUME ToolIInv, BootStep
    PROVE  ToolIInv'
<1>1. /\ RegistryInv'
      /\ \A n \in DOMAIN registry' :
            registry'[n] \in [by : {"core", "mcp", "skill", "bridge"}, irreversible : BOOLEAN]
  BY RegistryStep DEF ToolIInv
<1>2. /\ booted < Len(plan) /\ booted' = booted + 1 /\ plan' = plan
      /\ call' = call /\ serial' = serial /\ answers' = answers
      /\ mcp' = mcp /\ host' = host /\ done' = done
  BY DEF BootStep, hostVars
<1>3. booted' \in 0..Len(plan)
  BY <1>2, PlanIs DEF ToolIInv
<1>4. ToolTypeOK'
  BY <1>1, <1>2, <1>3 DEF ToolIInv, ToolTypeOK
<1>5. McpInv' /\ HostInv' /\ AnswersInv'
  BY <1>2 DEF ToolIInv, McpInv, HostInv, AnswersInv
<1> QED BY <1>1, <1>4, <1>5 DEF ToolIInv

LEMMA StutterKeeps ==
    ASSUME ToolIInv, UNCHANGED toolVars
    PROVE  ToolIInv'
<1>1. /\ plan' = plan /\ booted' = booted /\ registry' = registry
      /\ call' = call /\ serial' = serial /\ answers' = answers
      /\ mcp' = mcp /\ host' = host /\ done' = done
  BY DEF toolVars, bootVars, hostVars
<1> QED
  BY <1>1 DEF ToolIInv, ToolTypeOK, RegistryInv, NamesCore, McpInv, HostInv, AnswersInv

THEOREM ToolInductive == ToolIInv /\ [ToolNext]_toolVars => ToolIInv'
<1> SUFFICES ASSUME ToolIInv, [ToolNext]_toolVars PROVE ToolIInv'
  OBVIOUS
<1>1. CASE BootStep
  BY <1>1, BootKeeps
<1>2. ASSUME NEW c \in Clients,
             \/ SkillCall(c) \/ LeaderExits(c) \/ ChildEnds(c) \/ McpCall(c) \/ BridgeCall(c)
             \/ ToolSteps(c)
      PROVE  ToolIInv'
  <2>1. CASE SkillCall(c) \/ McpCall(c)
    BY <2>1, StartStep
  <2>2. CASE LeaderExits(c) \/ ChildEnds(c) \/ TryWait(c) \/ TimedOut(c)
    BY <2>2, EditStep
  <2>3. CASE JoinReaders(c) \/ BridgeGivesUp(c)
    BY <2>3, JoinStep
  <2>4. CASE McpRequest(c)
    BY <2>4, RequestStep
  <2>5. CASE McpRead(c)
    BY <2>5, ReadStep
  <2>6. CASE BridgeCall(c)
    BY <2>6, BridgeStep
  <2> QED
    BY <1>2, <2>1, <2>2, <2>3, <2>4, <2>5, <2>6 DEF ToolSteps
<1>3. CASE ServerAnswers \/ ServerSpeaks \/ ServerDies
  BY <1>3, ServerStep
<1>4. CASE HostActs
  BY <1>4, ActStep
<1>5. CASE HostReplies \/ HostQuits
  BY <1>5, ReplyStep
<1>6. CASE UNCHANGED toolVars
  BY <1>6, StutterKeeps
<1> QED
  BY <1>1, <1>2, <1>3, <1>4, <1>5, <1>6 DEF ToolNext

LEMMA ToolInvariant == ToolSpec => []ToolIInv
<1>1. ToolIInv /\ [ToolNext]_toolVars => ToolIInv'
  BY ToolInductive
<1> QED BY InitHolds, <1>1, PTL DEF ToolSpec

\* Every reachable state is well typed, whatever is found at boot and however many
\* clients call (the registry, call_tool, run_command, call_app_host).
THEOREM ToolTypeCorrect == ToolSpec => []ToolTypeOK
<1>1. ToolIInv => ToolTypeOK
  BY DEF ToolIInv
<1> QED BY ToolInvariant, <1>1, PTL

\* Whatever skills and MCP servers are installed, only what the core vouches for runs
\* without approval, and no skill takes the name of a tool of the core (load_skills,
\* import_mcp_tools, the registration in main).
THEOREM RegistryAlwaysGuarded == ToolSpec => []RegistryGuarded
<1>1. ASSUME ToolIInv PROVE RegistryGuarded
  <2>1. \A n \in DOMAIN registry : ~registry[n].irreversible =>
           \E i \in DOMAIN plan : Vouched(plan[i], n)
    BY <1>1 DEF ToolIInv, RegistryInv
  <2>2. \A n \in DOMAIN registry :
           (\E i \in DOMAIN plan : plan[i].kind = "core" /\ plan[i].name = n) =>
              registry[n].by \in {"core", "bridge"}
    BY <1>1 DEF ToolIInv, RegistryInv, NamesCore
  <2> QED BY <2>1, <2>2, Zenon DEF RegistryGuarded, Vouched
<1>2. ToolIInv => RegistryGuarded
  BY <1>1
<1> QED BY ToolInvariant, <1>2, PTL

\* A successful call has the answer made for it, and the app did once what it says it
\* did, however late replies are and whatever a server says unasked (request,
\* call_app_host).
THEOREM AnswersAlwaysMatch == ToolSpec => []AnswersMatch
<1>1. ToolIInv => AnswersMatch
  BY DEF ToolIInv, AnswersInv, HostInv, AnswersMatch
<1> QED BY ToolInvariant, <1>1, PTL


(***************************************************************************)
(* Streams                                                                 *)
(***************************************************************************)

\* Frames pass from the runner to the channel and the socket and none is lost as
\* long as the drain runs; after that the socket has the first of them, or all and
\* the end mark. A final frame is the last one, and the drain stops at it. A drain that
\* a panic took along leaves its client without the end.
FramesInv ==
    /\ drain = "on" => sent = wire \o chan
    /\ drain = "off" => IsPrefix(wire, sent) \/ wire = Append(sent, EndMark)
    /\ wire = Append(sent, EndMark) => run = "ended"
    /\ drain = "off" /\ client = "there" /\ run # "panicked" => wire = Append(sent, EndMark)
    /\ run # "ended" => \A i \in DOMAIN sent : ~Ends(sent[i])
    /\ run = "ended" => \A i \in DOMAIN sent : Ends(sent[i]) <=> i = Len(sent)
    /\ run \in {"pull", "ended"} => audited

\* Text that ends outside a closing tag.
Settled(text) == Len(text) > 0 => text[Len(text)] # Close[1]

\* What the app shows of a turn is all of it that may be shown.
TextInv ==
    /\ run = "reading" => Settled(content)
    /\ run = "reading" /\ ~stray => emitted = ByteSize(Visible(content))
    /\ run = "reading" /\ calls = <<>> /\ ~stray => shown = Visible(content)
    /\ run = "panicked" => stray
    /\ run = "final" /\ ~stray => answer = ModelError \/ Trim(shown) = answer
    /\ StreamedIsAnswer

\* The tool that runs is the first of the calls.
CallAtHand == run = "tool" => calls # <<>>

StreamIInv == TypeOK /\ CallAtHand /\ FramesInv /\ TextInv

LEMMA LeastOf ==
  ASSUME NEW T, T \subseteq Nat, T # {}
  PROVE  \E m \in T : \A n \in T : m <= n
<1> DEFINE R == {p \in Nat \X Nat : p[1] < p[2]}
<1>1. IsWellFoundedOn(R, Nat)
  BY NatLessThanWellFounded DEF OpToRel
<1>2. \A m, n \in Nat : n < m => <<n, m>> \in R
  OBVIOUS
<1> HIDE DEF R
<1>3. PICK m \in T : \A n \in T : ~(<<n, m>> \in R)
  BY <1>1, WFMin
<1>4. ASSUME NEW n \in T PROVE m <= n
  <2>1. m \in Nat /\ n \in Nat /\ ~(n < m)
    BY <1>2, <1>3
  <2> QED
    BY <2>1
<1> QED
  BY <1>4

LEMMA GreatestOf ==
  ASSUME NEW n \in Nat, NEW T, T \subseteq 0..n, T # {}
  PROVE  \E m \in T : \A x \in T : x <= m
<1> DEFINE U == {n - x : x \in T}
<1>1. U \subseteq Nat /\ U # {}
  <2>1. \A x \in T : n - x \in Nat
    OBVIOUS
  <2> QED
    BY <2>1
<1>2. PICK u \in U : \A y \in U : u <= y
  <2> HIDE DEF U
  <2> QED
    BY <1>1, LeastOf
<1>3. PICK m \in T : u = n - m
  OBVIOUS
<1>4. ASSUME NEW x \in T PROVE x <= m
  <2>1. n - m <= n - x /\ x \in 0..n /\ m \in 0..n
    BY <1>2, <1>3
  <2> QED
    BY <2>1
<1> QED
  BY <1>4

LEMMA LastEnd ==
  ASSUME NEW S, NEW text \in Seq(S), NEW tag, EndsOf(tag, text) # {}
  PROVE  LET m == CHOOSE i \in EndsOf(tag, text) : \A j \in EndsOf(tag, text) : j <= i
         IN  m \in 2..Len(text) /\ Len(text) \in Nat
<1> DEFINE T == EndsOf(tag, text)
<1>1. Len(text) \in Nat
  BY LenProperties
<1>2. T \subseteq 0..Len(text) /\ T \subseteq 2..Len(text)
  BY <1>1 DEF EndsOf
<1>3. \E m \in T : \A j \in T : j <= m
  BY <1>1, <1>2, GreatestOf
<1>4. (CHOOSE i \in T : \A j \in T : j <= i) \in T
  <2> HIDE DEF T
  <2> QED BY <1>3
<1> QED BY <1>1, <1>2, <1>4

LEMMA PartIs ==
  ASSUME NEW S, NEW text \in Seq(S), NEW m \in Nat \ {0}, NEW n \in Nat, n <= Len(text)
  PROVE  /\ SubSeq(text, m, n) \in Seq(S)
         /\ Len(SubSeq(text, m, n)) = IF m <= n THEN n - m + 1 ELSE 0
         /\ \A i \in 1..(n - m + 1) : SubSeq(text, m, n)[i] = text[m + i - 1]
<1>1. \A i \in m..n : text[i] \in S
  <2>1. m..n \subseteq 1..Len(text)
    BY LenProperties
  <2> QED BY <2>1, ElementOfSeq
<1>2. m \in Int /\ n \in Int
  OBVIOUS
<1> QED BY <1>1, <1>2, SubSeqProperties

LEMMA VisibleIs ==
  ASSUME NEW S, NEW text \in Seq(S)
  PROVE  Visible(text) \in Seq(S)
<1>0. Len(text) \in Nat
  BY LenProperties
<1>1. CASE EndsOf(Close, text) # {}
  <2> DEFINE m == CHOOSE i \in EndsOf(Close, text) : \A j \in EndsOf(Close, text) : j <= i
  <2>1. m \in 2..Len(text)
    BY <1>1, LastEnd
  <2>2. Visible(text) = SubSeq(text, 1 + m, Len(text))
    BY <1>1 DEF Visible
  <2> HIDE DEF m
  <2>3. 1 + m \in Nat \ {0} /\ Len(text) <= Len(text)
    BY <1>0, <2>1
  <2> QED BY <1>0, <2>2, <2>3, PartIs
<1>2. CASE EndsOf(Close, text) = {}
  <2>1. << >> \in Seq(S)
    OBVIOUS
  <2> QED BY <1>2, <2>1 DEF Visible
<1> QED BY <1>1, <1>2

LEMMA TrimIs ==
  ASSUME NEW S, NEW text \in Seq(S)
  PROVE  Trim(text) \in Seq(S)
<1> DEFINE solid == {i \in 1..Len(text) : text[i] # Space}
           a == CHOOSE i \in solid : \A j \in solid : i <= j
           b == CHOOSE i \in solid : \A j \in solid : j <= i
<1>0. Len(text) \in Nat /\ << >> \in Seq(S)
  BY LenProperties
<1>1. CASE solid = {}
  BY <1>0, <1>1 DEF Trim
<1>2. CASE solid # {}
  <2>1. solid \subseteq Nat /\ solid \subseteq 0..Len(text) /\ solid \subseteq 1..Len(text)
    BY <1>0
  <2>2. Trim(text) = SubSeq(text, a, b)
    BY <1>2 DEF Trim
  <2> HIDE DEF solid
  <2>3. a \in solid
    BY <1>2, <2>1, LeastOf
  <2>4. b \in solid
    BY <1>0, <1>2, <2>1, GreatestOf
  <2> HIDE DEF a, b
  <2>5. a \in Nat \ {0} /\ b \in Nat /\ b <= Len(text)
    BY <1>0, <2>1, <2>3, <2>4
  <2> QED BY <2>2, <2>5, PartIs
<1> QED BY <1>1, <1>2

LEMMA OneIs ==
  ASSUME NEW S, NEW a \in S
  PROVE  <<a>> \in Seq(S) /\ Len(<<a>>) = 1 /\ DOMAIN <<a>> = 1..1 /\ <<a>>[1] = a
<1>1. <<a>> \in Seq(S)
  OBVIOUS
<1>2. Len(<<a>>) = 1
  OBVIOUS
<1>3. <<a>>[1] = a
  OBVIOUS
<1>4. DOMAIN <<a>> = 1..1
  BY <1>1, <1>2, LenProperties
<1> QED BY <1>1, <1>2, <1>3, <1>4

LEMMA TwoAre ==
  ASSUME NEW S, NEW a \in S, NEW b \in S
  PROVE  /\ <<a, b>> \in Seq(S) /\ Len(<<a, b>>) = 2 /\ DOMAIN <<a, b>> = 1..2
         /\ <<a, b>>[1] = a /\ <<a, b>>[2] = b
<1>1. <<a, b>> \in Seq(S)
  OBVIOUS
<1>2. Len(<<a, b>>) = 2
  OBVIOUS
<1>3. <<a, b>>[1] = a /\ <<a, b>>[2] = b
  OBVIOUS
<1>4. DOMAIN <<a, b>> = 1..2
  BY <1>1, <1>2, LenProperties
<1> QED BY <1>1, <1>2, <1>3, <1>4

LEMMA ChunkIs ==
  ASSUME NEW chunk \in Chunks
  PROVE  /\ chunk \in Seq(Atoms) /\ Len(chunk) \in {1, 2} /\ DOMAIN chunk = 1..Len(chunk)
         /\ chunk[Len(chunk)] # Close[1]
         /\ chunk # Close => chunk[1] # Close[1]
         /\ chunk = Close => Len(chunk) = 2 /\ chunk[1] = Close[1] /\ chunk[2] = Close[2]
<1>1. Open[1] = "<th" /\ Open[2] = "ink>" /\ Close[1] = "</th" /\ Close[2] = "ink/>"
  BY DEF Open, Close
<1>2. Open = <<Open[1], Open[2]>> /\ Close = <<Close[1], Close[2]>>
  BY <1>1 DEF Open, Close
<1>3. CASE chunk \in {<<"text">>, <<WideAtom>>, <<Space>>, <<Open[1]>>, <<Open[2]>>}
  <2>1. PICK a \in {"text", WideAtom, Space, Open[1], Open[2]} : chunk = <<a>>
    BY <1>3
  <2>2. a \in Atoms /\ a # Close[1]
    <3>1. a \in {"text", "wide", " ", "<th", "ink>"}
      BY <1>1 DEF Space, WideAtom
    <3>2. a \in Atoms
      BY <2>1 DEF Atoms
    <3>3. a # "</th"
      BY <3>1
    <3> QED BY <1>1, <3>2, <3>3
  <2>3. chunk \in Seq(Atoms) /\ Len(chunk) = 1 /\ DOMAIN chunk = 1..1 /\ chunk[1] = a
    BY <2>1, <2>2, OneIs
  <2>4. Len(Close) = 2
    BY <1>1, <1>2, TwoAre
  <2>5. chunk # Close
    BY <2>3, <2>4
  <2> QED BY <2>2, <2>3, <2>5
<1>4. CASE chunk \in {Open, Close}
  <2>1. PICK a \in {"<th", "</th"}, b \in {"ink>", "ink/>"} : chunk = <<a, b>>
    BY <1>1, <1>2, <1>4
  <2>2. a \in Atoms /\ b \in Atoms /\ b # Close[1]
    <3>2. a \in Atoms /\ b \in Atoms
      BY <1>1 DEF Atoms
    <3>3. "ink>" # "</th" /\ "ink/>" # "</th"
      OBVIOUS
    <3>4. b # Close[1]
      BY <1>1, <3>3, Zenon
    <3> QED BY <3>2, <3>4
  <2>3. /\ <<a, b>> \in Seq(Atoms) /\ Len(<<a, b>>) = 2 /\ DOMAIN <<a, b>> = 1..2
        /\ <<a, b>>[1] = a /\ <<a, b>>[2] = b
    BY <2>2, TwoAre
  <2>4. /\ chunk \in Seq(Atoms) /\ Len(chunk) = 2 /\ DOMAIN chunk = 1..2
        /\ chunk[1] = a /\ chunk[2] = b
    BY <2>1, <2>3
  <2>5. chunk # Close => chunk[1] # Close[1]
    BY <1>1, <1>4
  <2>6. chunk = Close => chunk[1] = Close[1] /\ chunk[2] = Close[2]
    OBVIOUS
  <2> QED BY <2>2, <2>4, <2>5, <2>6
<1> QED BY <1>3, <1>4 DEF Chunks

LEMMA JoinIs ==
  ASSUME NEW S, NEW s \in Seq(S), NEW t \in Seq(S)
  PROVE  /\ s \o t \in Seq(S) /\ Len(s) \in Nat /\ Len(t) \in Nat
         /\ Len(s \o t) = Len(s) + Len(t)
         /\ DOMAIN (s \o t) = 1..(Len(s) + Len(t))
         /\ \A i \in 1..Len(s) : (s \o t)[i] = s[i]
         /\ \A i \in 1..Len(t) : (s \o t)[Len(s) + i] = t[i]
<1>1. Len(s) \in Nat /\ Len(t) \in Nat
  BY LenProperties
<1>2. /\ s \o t \in Seq(S) /\ Len(s \o t) = Len(s) + Len(t)
      /\ \A i \in 1..(Len(s) + Len(t)) :
            (s \o t)[i] = IF i <= Len(s) THEN s[i] ELSE t[i - Len(s)]
  BY ConcatProperties
<1>3. DOMAIN (s \o t) = 1..(Len(s) + Len(t))
  BY <1>2, LenProperties
<1>4. \A i \in 1..Len(s) : (s \o t)[i] = s[i]
  BY <1>1, <1>2
<1>5. ASSUME NEW i \in 1..Len(t) PROVE (s \o t)[Len(s) + i] = t[i]
  <2>1. /\ Len(s) + i \in 1..(Len(s) + Len(t)) /\ ~(Len(s) + i <= Len(s))
        /\ Len(s) + i - Len(s) = i
    BY <1>1
  <2> QED BY <1>2, <2>1
<1> QED BY <1>1, <1>2, <1>3, <1>4, <1>5

\* A chunk adds to the visible text or hides all of it: it never changes what is there.
LEMMA VisibleGrows ==
  ASSUME NEW text \in Seq(Atoms), Settled(text), NEW chunk \in Chunks
  PROVE  LET new == Visible(text \o chunk) IN
         /\ Settled(text \o chunk)
         /\ \/ new = << >>
            \/ /\ Len(Visible(text)) <= Len(new)
               /\ SubSeq(new, 1, Len(Visible(text))) = Visible(text)
<1> DEFINE long == text \o chunk
           n == Len(text)
           new == Visible(long)
           old == Visible(text)
<1>1. chunk \in Seq(Atoms) /\ Len(chunk) \in {1, 2} /\ chunk[Len(chunk)] # Close[1]
  BY ChunkIs
<1>2. /\ long \in Seq(Atoms) /\ n \in Nat /\ Len(long) = n + Len(chunk)
      /\ \A i \in 1..n : long[i] = text[i]
      /\ \A i \in 1..Len(chunk) : long[n + i] = chunk[i]
  BY <1>1, JoinIs
<1>3. Settled(long)
  <2>1. Len(chunk) \in 1..Len(chunk)
    BY <1>1
  <2> QED BY <1>1, <1>2, <2>1 DEF Settled
<1>4. old \in Seq(Atoms) /\ new \in Seq(Atoms) /\ Len(old) \in Nat /\ Len(new) \in Nat
  BY <1>2, VisibleIs, LenProperties
<1> HIDE DEF long
<1>11. Len(chunk) = 1 \/ Len(chunk) = 2
  BY <1>1
<1>5. ASSUME NEW tag PROVE EndsOf(tag, text) \subseteq EndsOf(tag, long)
  <2>1. ASSUME NEW i \in EndsOf(tag, text) PROVE i \in EndsOf(tag, long)
    <3>1. i \in 2..n /\ text[i - 1] = tag[1] /\ text[i] = tag[2]
      BY DEF EndsOf
    <3>2. i \in 1..n /\ i - 1 \in 1..n /\ i \in 2..Len(long)
      BY <1>2, <1>11, <3>1
    <3> QED BY <1>2, <3>1, <3>2 DEF EndsOf
  <2> QED BY <2>1
<1>6. SUFFICES ASSUME new # << >> PROVE Len(old) <= Len(new) /\ SubSeq(new, 1, Len(old)) = old
  BY <1>3 DEF long
<1>9. CASE chunk = Close
  <2>1. Len(chunk) = 2 /\ chunk[1] = Close[1] /\ chunk[2] = Close[2]
    BY <1>9, ChunkIs
  <2>2. n + 2 \in EndsOf(Close, long)
    <3>1. long[n + 1] = Close[1] /\ long[n + 2] = Close[2] /\ Len(long) = n + 2
      BY <1>2, <2>1
    <3>2. n + 2 \in 2..Len(long) /\ n + 2 - 1 = n + 1
      BY <1>2, <3>1
    <3> QED BY <3>1, <3>2 DEF EndsOf
  <2> DEFINE m == CHOOSE i \in EndsOf(Close, long) : \A j \in EndsOf(Close, long) : j <= i
  <2>3. m = n + 2
    <3>1. EndsOf(Close, long) \subseteq 2..(n + 2)
      BY <1>2, <2>1 DEF EndsOf
    <3>2. \A j \in EndsOf(Close, long) : j <= n + 2
      BY <1>2, <3>1
    <3>3. m \in EndsOf(Close, long) /\ \A j \in EndsOf(Close, long) : j <= m
      BY <2>2, <3>2
    <3> HIDE DEF m
    <3>4. n + 2 <= m /\ m <= n + 2 /\ m \in Nat
      BY <1>2, <2>2, <3>1, <3>3
    <3> QED BY <1>2, <3>4
  <2>4. new = SubSeq(long, 1 + m, Len(long))
    BY <2>2 DEF Visible
  <2> HIDE DEF m, new
  <2>5. 1 + m = n + 3 /\ Len(long) = n + 2 /\ n + 2 < n + 3 /\ n + 2 \in Int /\ n + 3 \in Int
    BY <1>2, <2>1, <2>3
  <2>6. new = << >>
    BY <2>4, <2>5, SubSeqEmpty
  <2> QED BY <1>6, <2>6 DEF new
<1>10. CASE chunk # Close
  <2>1. chunk[1] # Close[1]
    BY <1>10, ChunkIs
  <2>2. EndsOf(Close, long) = EndsOf(Close, text)
    <3>1. ASSUME NEW i \in EndsOf(Close, long) PROVE i \in EndsOf(Close, text)
      <4>1. i \in 2..(n + Len(chunk)) /\ long[i - 1] = Close[1] /\ long[i] = Close[2]
        BY <1>2 DEF EndsOf
      <4>6. i \in Nat /\ n \in Nat /\ i >= 2 /\ i <= n + Len(chunk)
        BY <1>2, <1>11, <4>1
      <4>2. CASE i <= n
        <5>1. i \in 2..n /\ i \in 1..n /\ i - 1 \in 1..n
          BY <1>2, <4>1, <4>2
        <5> QED BY <1>2, <4>1, <5>1 DEF EndsOf
      <4>3. CASE i = n + 1
        <5>1. n \in 1..n /\ i - 1 = n /\ n > 0
          BY <1>2, <4>1, <4>3
        <5>2. text[n] = Close[1]
          BY <1>2, <4>1, <5>1
        <5> QED BY <5>1, <5>2 DEF Settled
      <4>4. CASE i = n + 2
        <5>1. i - 1 = n + 1 /\ 1 \in 1..Len(chunk)
          BY <1>11, <4>4, <4>6
        <5>2. long[n + 1] = chunk[1]
          BY <1>2, <5>1
        <5> QED BY <2>1, <4>1, <5>1, <5>2
      <4>5. i <= n \/ i = n + 1 \/ i = n + 2
        <5>1. \A j, k, l \in Nat : (l = 1 \/ l = 2) /\ j <= k + l => j <= k \/ j = k + 1 \/ j = k + 2
          OBVIOUS
        <5>2. Len(chunk) \in Nat
          BY <1>11
        <5> QED BY <1>11, <4>6, <5>1, <5>2, Zenon
      <4> QED BY <4>2, <4>3, <4>4, <4>5
    <3> QED BY <1>5, <3>1
  <2>3. CASE EndsOf(Close, text) # {}
    <3> DEFINE m == CHOOSE i \in EndsOf(Close, text) : \A j \in EndsOf(Close, text) : j <= i
    <3>1. m \in 2..n
      BY <2>3, LastEnd
    <3>2. old = SubSeq(text, 1 + m, n) /\ new = SubSeq(long, 1 + m, Len(long))
      BY <2>2, <2>3 DEF Visible
    <3> HIDE DEF m, old, new
    <3>3. 1 + m \in Nat \ {0} /\ n <= Len(text) /\ Len(long) \in Nat /\ Len(long) <= Len(long)
      BY <1>1, <1>2, <3>1
    <3>4. /\ Len(old) = IF 1 + m <= n THEN n - (1 + m) + 1 ELSE 0
          /\ \A i \in 1..(n - (1 + m) + 1) : old[i] = text[(1 + m) + i - 1]
      BY <1>2, <3>2, <3>3, PartIs
    <3>5. /\ Len(new) = IF 1 + m <= Len(long) THEN Len(long) - (1 + m) + 1 ELSE 0
          /\ \A i \in 1..(Len(long) - (1 + m) + 1) : new[i] = long[(1 + m) + i - 1]
      BY <1>2, <3>2, <3>3, PartIs
    <3>6. Len(old) = n - m
      BY <1>2, <3>1, <3>4
    <3>7. ASSUME NEW i \in 1..Len(old) PROVE new[i] = old[i]
      <4>1. /\ i \in 1..(n - (1 + m) + 1) /\ i \in 1..(Len(long) - (1 + m) + 1)
            /\ (1 + m) + i - 1 \in 1..n
        BY <1>1, <1>2, <3>1, <3>6
      <4> QED BY <1>2, <3>4, <3>5, <4>1
    <3>9. Len(old) <= Len(new)
      BY <1>1, <1>2, <3>1, <3>5, <3>6
    <3>8. /\ SubSeq(new, 1, Len(old)) \in Seq(Atoms)
          /\ Len(SubSeq(new, 1, Len(old))) = Len(old)
          /\ \A i \in 1..Len(old) : SubSeq(new, 1, Len(old))[i] = new[i]
      <4>1. 1 \in Nat \ {0} /\ Len(old) <= Len(new)
        BY <3>9
      <4>2. /\ SubSeq(new, 1, Len(old)) \in Seq(Atoms)
            /\ Len(SubSeq(new, 1, Len(old))) = IF 1 <= Len(old) THEN Len(old) - 1 + 1 ELSE 0
            /\ \A i \in 1..(Len(old) - 1 + 1) : SubSeq(new, 1, Len(old))[i] = new[1 + i - 1]
        BY <1>4, <4>1, PartIs
      <4>3. Len(old) - 1 + 1 = Len(old) /\ \A i \in 1..Len(old) : 1 + i - 1 = i
        BY <1>4
      <4>4. Len(SubSeq(new, 1, Len(old))) = Len(old)
        BY <1>4, <4>2
      <4> QED BY <4>2, <4>3, <4>4
    <3> QED BY <1>4, <3>7, <3>8, <3>9, SeqEqual
  <2>4. CASE EndsOf(Close, text) = {}
    <3>1. CASE EndsOf(Open, long) # {}
      <4>1. new = << >>
        BY <2>2, <2>4, <3>1 DEF Visible
      <4> QED BY <1>6, <4>1
    <3>2. CASE EndsOf(Open, long) = {}
      <4>1. EndsOf(Open, text) = {}
        BY <1>5, <3>2
      <4>2. old = text /\ new = long
        BY <2>2, <2>4, <3>2, <4>1 DEF Visible
      <4> HIDE DEF old, new
      <4>3. /\ SubSeq(long, 1, n) \in Seq(Atoms)
            /\ Len(SubSeq(long, 1, n)) = IF 1 <= n THEN n - 1 + 1 ELSE 0
            /\ \A i \in 1..(n - 1 + 1) : SubSeq(long, 1, n)[i] = long[1 + i - 1]
        <5>1. 1 \in Nat \ {0} /\ n <= Len(long)
          BY <1>1, <1>2
        <5> QED BY <1>2, <5>1, PartIs
      <4>4. n - 1 + 1 = n /\ \A i \in 1..n : 1 + i - 1 = i
        BY <1>2
      <4>5. Len(SubSeq(long, 1, n)) = n /\ \A i \in 1..n : SubSeq(long, 1, n)[i] = text[i]
        BY <1>2, <4>3, <4>4
      <4>6. SubSeq(long, 1, n) = text
        BY <4>3, <4>5, SeqEqual
      <4>7. n <= Len(long)
        BY <1>1, <1>2
      <4> QED BY <4>2, <4>6, <4>7
    <3> QED BY <3>1, <3>2
  <2> QED BY <2>3, <2>4
<1> QED BY <1>9, <1>10

\* The bytes at which the atoms of a text end grow from atom to atom, and depend on the
\* atoms before them only.
LEMMA OffsetIs ==
  ASSUME NEW text, NEW k \in Nat, NEW m \in Nat
  PROVE  Offset(text, k) \in Nat /\ Offset(text, 0) = 0 /\ (k < m => Offset(text, k) < Offset(text, m))
<1> DEFINE W(n) == {i \in 1..n : text[i] = WideAtom}
<1>1. ASSUME NEW n \in Nat PROVE IsFiniteSet(W(n)) /\ Cardinality(W(n)) \in Nat
  <2>1. IsFiniteSet(1..n)
    BY FS_Interval
  <2>2. W(n) \subseteq 1..n
    OBVIOUS
  <2> HIDE DEF W
  <2>3. IsFiniteSet(W(n))
    BY <2>1, <2>2, FS_Subset
  <2> QED BY <2>3, FS_CardinalityType
<1>2. Cardinality(W(0)) = 0
  <2>1. W(0) = {}
    OBVIOUS
  <2> HIDE DEF W
  <2> QED BY <2>1, FS_EmptySet
<1>3. k < m => Cardinality(W(k)) <= Cardinality(W(m))
  <2>1. k < m => W(k) \subseteq W(m)
    OBVIOUS
  <2>2. IsFiniteSet(W(m))
    BY <1>1
  <2> HIDE DEF W
  <2> QED BY <2>1, <2>2, FS_Subset
<1>4. \A n \in Nat : Offset(text, n) = n + Cardinality(W(n))
  BY DEF Offset
<1> HIDE DEF W
<1>5. Cardinality(W(k)) \in Nat /\ Cardinality(W(m)) \in Nat
  BY <1>1
<1> QED BY <1>2, <1>3, <1>4, <1>5

LEMMA OffsetSame ==
  ASSUME NEW s, NEW t, NEW k \in Nat, \A i \in 1..k : s[i] = t[i]
  PROVE  Offset(s, k) = Offset(t, k)
<1>1. {i \in 1..k : s[i] = WideAtom} = {i \in 1..k : t[i] = WideAtom}
  OBVIOUS
<1> QED BY <1>1 DEF Offset

(***************************************************************************)
(* Streams: types                                                          *)
(***************************************************************************)

RunAt == {"requested", "never", "asking", "reading", "tools", "tool", "pull", "ended", "panicked"}
         \cup Results

\* What the runner's own state may be, and what is in flight.
RunTypes ==
    /\ run \in RunAt /\ turn \in Nat /\ emitted \in Nat
    /\ content \in Seq(Atoms) /\ calls \in Seq(ToolNames) /\ answer \in Seq(Atoms)
    /\ audited \in BOOLEAN /\ stray \in BOOLEAN
WireTypes ==
    /\ drain \in {"on", "off"} /\ client \in {"there", "gone"}
    /\ chan \in Seq(Frame) /\ sent \in Seq(Frame) /\ shown \in Seq(Atoms)
    /\ wire \in Seq(Frame \cup {EndMark})

LEMMA TypesAre == TypeOK <=> RunTypes /\ WireTypes
BY DEF TypeOK, RunTypes, WireTypes, RunAt

LEMMA FramesAre ==
  /\ \A text \in Seq(Atoms) : Token(text) \in Frame /\ ~Ends(Token(text))
  /\ \A name \in ToolNames, phase \in {"intent", "start", "done"} :
        ToolFrame(name, phase) \in Frame /\ ~Ends(ToolFrame(name, phase))
  /\ \A status \in Results \cup {"pull"}, text \in Seq(Atoms) :
        DoneFrame(status, text) \in Frame /\ Ends(DoneFrame(status, text))
  /\ \A line \in {"success", "other"} : Progress(line) \in Frame /\ ~Ends(Progress(line))
  /\ ErrorFrame \in Frame /\ Ends(ErrorFrame)
<1>1. \A text \in Seq(Atoms) : Token(text) \in Frame /\ ~Ends(Token(text))
  BY DEF Token, Frame, Ends
<1>2. \A name \in ToolNames, phase \in {"intent", "start", "done"} :
         ToolFrame(name, phase) \in Frame /\ ~Ends(ToolFrame(name, phase))
  BY DEF ToolFrame, Frame, Ends
<1>3. \A status \in Results \cup {"pull"}, text \in Seq(Atoms) :
         DoneFrame(status, text) \in Frame /\ Ends(DoneFrame(status, text))
  BY DEF DoneFrame, Frame, Ends
<1>4. \A line \in {"success", "other"} : Progress(line) \in Frame /\ ~Ends(Progress(line))
  BY DEF Progress, Frame, Ends
<1>5. ErrorFrame \in Frame /\ Ends(ErrorFrame)
  BY DEF ErrorFrame, Frame, Ends
<1> QED BY <1>1, <1>2, <1>3, <1>4, <1>5

LEMMA BubbleIs ==
  ASSUME NEW text \in Seq(Atoms), NEW item \in Frame
  PROVE  Bubble(text, item) \in Seq(Atoms)
<1>1. CASE item.ev = "token"
  <2>1. item.data \in Seq(Atoms)
    BY <1>1 DEF Frame, ErrorFrame
  <2>2. text \o item.data \in Seq(Atoms)
    BY <2>1, JoinIs
  <2> QED BY <1>1, <2>2 DEF Bubble
<1>2. CASE item.ev # "token"
  <2>1. << >> \in Seq(Atoms)
    OBVIOUS
  <2> QED BY <1>2, <2>1 DEF Bubble
<1> QED BY <1>1, <1>2

LEMMA PushTypes ==
  ASSUME WireTypes, NEW item \in Frame, Push(item), UNCHANGED <<drain, wire, client>>
  PROVE  WireTypes'
<1>1. chan' \in Seq(Frame) /\ sent' \in Seq(Frame)
  BY AppendProperties DEF WireTypes, Push
<1>2. shown' \in Seq(Atoms)
  BY BubbleIs DEF WireTypes, Push
<1> QED BY <1>1, <1>2 DEF WireTypes

LEMMA QuietTypes ==
  ASSUME WireTypes, Quiet, UNCHANGED <<drain, wire, client>>
  PROVE  WireTypes'
BY DEF WireTypes, Quiet

\* What a runner's step does to the rest: nothing, or one frame is pushed, and the
\* run ends with the frame that is final.
Working == run \notin {"requested", "never", "ended", "panicked"}
PushStep(item) == Working /\ Push(item) /\ (Ends(item) <=> run' = "ended")
RunnerStep ==
    /\ UNCHANGED <<drain, wire, client>>
    /\ run' = "pull" => run = "pull"
    /\ audited => audited'
    /\ run' = "ended" => audited' \/ run = "pull"
    /\ \/ Working /\ Quiet /\ run' # "ended"
       \/ \E item \in Frame : PushStep(item)

LEMMA TailOf ==
  ASSUME NEW S, NEW s \in Seq(S), s # <<>>
  PROVE  Head(s) \in S /\ Tail(s) \in Seq(S)
BY HeadTailProperties

\* Every step of the runner but the first.
RunnerActs ==
    \/ AskModel \/ OutOfIters
    \/ \E chunk \in Chunks : TextDelta(chunk)
    \/ \E name \in ToolNames : ToolDelta(name)
    \/ StreamBreaks \/ TurnEnds
    \/ NextTool \/ Pend \/ ToolReturns \/ NextTurn \/ Finish
    \/ PullRefused \/ PullEnds
    \/ \E line \in {"success", "other"} : PullLine(line)

LEMMA NoText == << >> \in Seq(Atoms) /\ << >> \in Seq(ToolNames) /\ ModelError \in Seq(Atoms)
                /\ Stopped \in Seq(Atoms) /\ <<"ok">> \in Seq(Atoms)
<1>1. "model error" \in Atoms /\ "(stopped: reached max iterations)" \in Atoms /\ "ok" \in Atoms
  BY DEF Atoms
<1>2. ModelError \in Seq(Atoms)
  BY <1>1, OneIs DEF ModelError
<1>3. Stopped \in Seq(Atoms)
  BY <1>1, OneIs DEF Stopped
<1>4. <<"ok">> \in Seq(Atoms)
  BY <1>1, OneIs
<1>5. << >> \in Seq(Atoms) /\ << >> \in Seq(ToolNames)
  OBVIOUS
<1> QED BY <1>2, <1>3, <1>4, <1>5

LEMMA SizeOf ==
  ASSUME NEW S, NEW text \in Seq(S)
  PROVE  ByteSize(text) \in Nat /\ Len(text) \in Nat
BY LenProperties, OffsetIs DEF ByteSize

LEMMA ForwardIs ==
  ASSUME TypeOK, NEW visible \in Seq(Atoms), Forward(visible)
  PROVE  /\ NewEmitted(visible) \in Nat
         /\ Quiet \/ \E text \in Seq(Atoms) : Push(Token(text))
<1>1. Len(visible) \in Nat /\ emitted \in Nat /\ ByteSize(visible) \in Nat
  BY SizeOf DEF TypeOK
<1>2. CASE ByteSize(visible) > emitted
  <2>1. PICK k \in Cuts(visible) : Push(Token(SubSeq(visible, k + 1, Len(visible))))
    BY <1>2 DEF Forward
  <2>2. SubSeq(visible, k + 1, Len(visible)) \in Seq(Atoms)
    <3>1. k + 1 \in Nat \ {0} /\ Len(visible) <= Len(visible)
      BY <1>1 DEF Cuts
    <3> QED BY <1>1, <3>1, PartIs
  <2> QED BY <1>1, <2>1, <2>2 DEF NewEmitted
<1>3. CASE ~(ByteSize(visible) > emitted)
  BY <1>1, <1>3 DEF Forward, NewEmitted
<1> QED BY <1>2, <1>3

LEMMA TextTypes ==
  ASSUME TypeOK, NEW chunk \in Chunks, TextDelta(chunk)
  PROVE  /\ content' \in Seq(Atoms) /\ Visible(content') \in Seq(Atoms) /\ emitted' \in Nat
         /\ RunTypes' /\ RunnerStep
<1>1. content' \in Seq(Atoms)
  BY ChunkIs, JoinIs DEF TypeOK, TextDelta, TextArrives
<1>2. Visible(content') \in Seq(Atoms)
  BY <1>1, VisibleIs
<1>3. /\ Forward(Visible(content')) /\ emitted' = NewEmitted(Visible(content'))
      /\ stray' = (stray \/ ByteSize(Visible(content')) < emitted)
      /\ UNCHANGED <<run, turn, calls, answer, audited, drain, wire, client>> /\ run = "reading"
  BY DEF TextDelta, TextArrives, Speaks
<1>4. emitted' \in Nat
  BY <1>2, <1>3, ForwardIs
<1>5. stray' \in BOOLEAN
  <2>1. (stray \/ ByteSize(Visible(content')) < emitted) \in BOOLEAN
    OBVIOUS
  <2> QED BY <1>3, <2>1
<1>6. RunTypes'
  BY <1>1, <1>3, <1>4, <1>5 DEF TypeOK, RunTypes, RunAt
<1>7. Working /\ run' # "ended" /\ (run' = "pull" => run = "pull") /\ (audited => audited')
  BY <1>3 DEF Working
<1>8. Quiet \/ \E item \in Frame : PushStep(item)
  <2>1. CASE Quiet
    BY <2>1
  <2>2. CASE \E text \in Seq(Atoms) : Push(Token(text))
    <3>1. PICK text \in Seq(Atoms) : Push(Token(text))
      BY <2>2
    <3>2. Token(text) \in Frame /\ ~Ends(Token(text))
      BY FramesAre
    <3>3. PushStep(Token(text))
      BY <1>7, <3>1, <3>2 DEF PushStep
    <3> QED BY <3>2, <3>3
  <2> QED BY <1>2, <1>3, <2>1, <2>2, ForwardIs
<1>9. RunnerStep
  BY <1>3, <1>7, <1>8, Zenon DEF RunnerStep
<1> QED BY <1>1, <1>2, <1>4, <1>6, <1>9

\* A step that pushes nothing, and one that pushes a frame.
LEMMA SilentIs ==
  ASSUME Working, Quiet, run' # "ended", run' # "pull", UNCHANGED <<audited, drain, wire, client>>
  PROVE  RunnerStep
BY Zenon DEF RunnerStep

LEMMA SpokenIs ==
  ASSUME Working, NEW item \in Frame, Push(item), Ends(item) <=> run' = "ended",
         run' = "pull" => run = "pull", audited => audited', run' = "ended" => audited' \/ run = "pull",
         UNCHANGED <<drain, wire, client>>
  PROVE  RunnerStep
BY Zenon DEF RunnerStep, PushStep

LEMMA ActsAre ==
  ASSUME TypeOK, CallAtHand, RunnerActs
  PROVE  RunTypes' /\ RunnerStep
<1>1. CASE AskModel
  <2>1. /\ run = "asking" /\ turn' = turn + 1 /\ content' = <<>> /\ emitted' = 0 /\ calls' = <<>>
        /\ stray' = (shown # <<>>) /\ Quiet /\ UNCHANGED <<audited, drain, wire, client>>
        /\ run' \in {"reading", "final"} /\ answer' \in {answer, ModelError}
    BY <1>1 DEF AskModel
  <2>2. stray' \in BOOLEAN /\ turn' \in Nat /\ 0 \in Nat
    BY <2>1 DEF TypeOK
  <2>3. answer' \in Seq(Atoms)
    BY <2>1, NoText DEF TypeOK
  <2>4. RunTypes'
    BY <2>1, <2>2, <2>3, NoText DEF TypeOK, RunTypes, RunAt, Results
  <2>5. RunnerStep
    BY <2>1, SilentIs DEF Working
  <2> QED BY <2>4, <2>5
<1>2. CASE OutOfIters \/ StreamBreaks \/ TurnEnds \/ Pend \/ NextTurn
  <2>1. /\ run \in {"asking", "reading", "tools"} /\ run' \in {"asking", "tools"} \cup Results
        /\ answer' \in {answer, ModelError, Stopped, TurnAnswer, <<>>}
        /\ Quiet /\ UNCHANGED <<turn, content, emitted, calls, audited, stray, drain, wire, client>>
    BY <1>2, Zenon DEF OutOfIters, StreamBreaks, TurnEnds, Pend, NextTurn, Results
  <2>2. TurnAnswer \in Seq(Atoms)
    BY VisibleIs, TrimIs DEF TurnAnswer, TypeOK
  <2>3. answer' \in Seq(Atoms)
    BY <2>1, <2>2, NoText DEF TypeOK
  <2>4. run' \in RunAt /\ run' # "ended" /\ run' # "pull"
    BY <2>1 DEF RunAt, Results
  <2>5. RunTypes'
    BY <2>1, <2>3, <2>4 DEF TypeOK, RunTypes
  <2>6. RunnerStep
    BY <2>1, <2>4, SilentIs DEF Working
  <2> QED BY <2>5, <2>6
<1>3. CASE \E chunk \in Chunks : TextDelta(chunk)
  BY <1>3, TextTypes
<1>4. CASE \E name \in ToolNames : ToolDelta(name)
  <2>1. PICK name \in ToolNames : ToolDelta(name)
    BY <1>4
  <2>2. /\ run = "reading" /\ calls' = Append(calls, name) /\ Push(ToolFrame(name, "intent"))
        /\ UNCHANGED <<run, turn, content, emitted, answer, audited, stray, drain, wire, client>>
    BY <2>1 DEF ToolDelta, Speaks
  <2>3. calls' \in Seq(ToolNames)
    BY <2>2, AppendProperties DEF TypeOK
  <2>4. RunTypes'
    BY <2>2, <2>3 DEF TypeOK, RunTypes, RunAt
  <2>5. ToolFrame(name, "intent") \in Frame /\ ~Ends(ToolFrame(name, "intent"))
    BY FramesAre
  <2>6. RunnerStep
    BY <2>2, <2>5, SpokenIs DEF Working
  <2> QED BY <2>4, <2>6
<1>5. CASE NextTool
  <2>1. /\ run = "tools" /\ calls # <<>> /\ run' \in {"tool", "tools"} /\ calls' \in {calls, Tail(calls)}
        /\ Push(ToolFrame("read", "start")) \/ Quiet
        /\ UNCHANGED <<turn, content, emitted, answer, audited, stray, drain, wire, client>>
    BY <1>5 DEF NextTool
  <2>2. calls' \in Seq(ToolNames)
    BY <2>1, TailOf DEF TypeOK
  <2>3. RunTypes'
    BY <2>1, <2>2 DEF TypeOK, RunTypes, RunAt
  <2>4. ToolFrame("read", "start") \in Frame /\ ~Ends(ToolFrame("read", "start"))
    BY FramesAre DEF ToolNames
  <2>5. run' # "ended" /\ run' # "pull" /\ Working
    BY <2>1 DEF Working
  <2>6. RunnerStep
    <3>1. CASE Quiet
      BY <2>1, <2>5, <3>1, SilentIs
    <3>2. CASE Push(ToolFrame("read", "start"))
      BY <2>1, <2>4, <2>5, <3>2, SpokenIs
    <3> QED BY <2>1, <3>1, <3>2
  <2> QED BY <2>3, <2>6
<1>6. CASE ToolReturns
  <2>1. /\ run = "tool" /\ run' = "tools" /\ calls' = Tail(calls) /\ Push(ToolFrame(Head(calls), "done"))
        /\ UNCHANGED <<turn, content, emitted, answer, audited, stray, drain, wire, client>>
    BY <1>6 DEF ToolReturns
  <2>2. Head(calls) \in ToolNames /\ calls' \in Seq(ToolNames)
    BY <2>1, TailOf DEF CallAtHand, TypeOK
  <2>3. RunTypes'
    BY <2>1, <2>2 DEF TypeOK, RunTypes, RunAt
  <2>4. ToolFrame(Head(calls), "done") \in Frame /\ ~Ends(ToolFrame(Head(calls), "done"))
    BY <2>2, FramesAre
  <2>5. RunnerStep
    BY <2>1, <2>4, SpokenIs DEF Working
  <2> QED BY <2>3, <2>5
<1>7. CASE Finish
  <2>1. /\ run \in Results /\ run' = "ended" /\ audited' = TRUE /\ Push(DoneFrame(run, answer))
        /\ UNCHANGED <<turn, content, emitted, calls, answer, stray, drain, wire, client>>
    BY <1>7 DEF Finish
  <2>2. RunTypes'
    BY <2>1 DEF TypeOK, RunTypes, RunAt
  <2>3. DoneFrame(run, answer) \in Frame /\ Ends(DoneFrame(run, answer))
    BY <2>1, FramesAre DEF TypeOK
  <2>4. RunnerStep
    BY <2>1, <2>3, SpokenIs DEF Working, Results
  <2> QED BY <2>2, <2>4
<1>8. CASE PullRefused
  <2>1. /\ run = "pull" /\ run' = "ended" /\ Push(ErrorFrame)
        /\ UNCHANGED <<turn, content, emitted, calls, answer, audited, stray, drain, wire, client>>
    BY <1>8 DEF PullRefused
  <2>2. RunTypes'
    BY <2>1 DEF TypeOK, RunTypes, RunAt
  <2>3. RunnerStep
    BY <2>1, FramesAre, SpokenIs DEF Working
  <2> QED BY <2>2, <2>3
<1>9. CASE PullEnds
  <2>1. /\ run = "pull" /\ run' = "ended" /\ Push(DoneFrame("pull", answer))
        /\ UNCHANGED <<turn, content, emitted, calls, answer, audited, stray, drain, wire, client>>
    BY <1>9 DEF PullEnds
  <2>2. RunTypes'
    BY <2>1 DEF TypeOK, RunTypes, RunAt
  <2>3. DoneFrame("pull", answer) \in Frame /\ Ends(DoneFrame("pull", answer))
    BY FramesAre DEF TypeOK
  <2>4. RunnerStep
    BY <2>1, <2>3, SpokenIs DEF Working
  <2> QED BY <2>2, <2>4
<1>10. CASE \E line \in {"success", "other"} : PullLine(line)
  <2>1. PICK line \in {"success", "other"} : PullLine(line)
    BY <1>10
  <2>2. /\ run = "pull" /\ turn' = turn + 1 /\ answer' \in {<<"ok">>, answer} /\ Push(Progress(line))
        /\ UNCHANGED <<run, content, emitted, calls, audited, stray, drain, wire, client>>
    BY <2>1 DEF PullLine
  <2>7. turn' \in Nat
    BY <2>2 DEF TypeOK
  <2>8. answer \in Seq(Atoms) /\ <<"ok">> \in Seq(Atoms)
    BY NoText DEF TypeOK
  <2>3. turn' \in Nat /\ answer' \in Seq(Atoms)
    BY <2>2, <2>7, <2>8, Zenon
  <2>4. RunTypes'
    BY <2>2, <2>3 DEF TypeOK, RunTypes, RunAt
  <2>5. Progress(line) \in Frame /\ ~Ends(Progress(line))
    BY FramesAre
  <2>6. RunnerStep
    BY <2>2, <2>5, SpokenIs DEF Working
  <2> QED BY <2>4, <2>6
<1> QED BY <1>1, <1>2, <1>3, <1>4, <1>5, <1>6, <1>7, <1>8, <1>9, <1>10 DEF RunnerActs

LEMMA CallStays ==
  ASSUME TypeOK, CallAtHand, RunnerActs
  PROVE  CallAtHand'
<1>1. CASE NextTool
  BY <1>1 DEF NextTool, CallAtHand
<1>2. CASE AskModel \/ OutOfIters \/ StreamBreaks \/ TurnEnds \/ Pend \/ NextTurn \/ ToolReturns \/ Finish
  BY <1>2 DEF AskModel, OutOfIters, StreamBreaks, TurnEnds, Pend, NextTurn, ToolReturns, Finish, CallAtHand
<1>3. CASE \E chunk \in Chunks : TextDelta(chunk)
  BY <1>3 DEF TextDelta, TextArrives, Speaks, CallAtHand
<1>4. CASE \E name \in ToolNames : ToolDelta(name)
  BY <1>4 DEF ToolDelta, Speaks, CallAtHand
<1>5. CASE PullRefused \/ PullEnds \/ \E line \in {"success", "other"} : PullLine(line)
  BY <1>5 DEF PullRefused, PullEnds, PullLine, CallAtHand
<1> QED BY <1>1, <1>2, <1>3, <1>4, <1>5 DEF RunnerActs

(***************************************************************************)
(* Streams: the frames                                                     *)
(***************************************************************************)

LEMMA PrefixIs ==
  ASSUME NEW S, NEW s \in Seq(S), NEW t \in Seq(S)
  PROVE  IsPrefix(s, t) <=> Len(s) <= Len(t) /\ \A i \in 1..Len(s) : s[i] = t[i]
<1>1. Len(s) \in Nat /\ Len(t) \in Nat
  BY LenProperties
<1>2. /\ \A i \in 1..Len(s) : SubSeq(s, 1, Len(s))[i] = s[i] /\ 1 + i - 1 = i
      /\ SubSeq(s, 1, Len(s)) = s
  <2>1. SubSeq(s, 1, Len(s)) = s
    BY SubSeqFull
  <2> QED BY <1>1, <2>1
<1>3. CASE Len(s) <= Len(t)
  <2>1. 1 \in Nat \ {0} /\ Len(s) - 1 + 1 = Len(s)
    BY <1>1
  <2>2. /\ SubSeq(t, 1, Len(s)) \in Seq(S)
        /\ Len(SubSeq(t, 1, Len(s))) = IF 1 <= Len(s) THEN Len(s) - 1 + 1 ELSE 0
        /\ \A i \in 1..(Len(s) - 1 + 1) : SubSeq(t, 1, Len(s))[i] = t[1 + i - 1]
    BY <1>1, <1>3, <2>1, PartIs
  <2>3. Len(SubSeq(t, 1, Len(s))) = Len(s) /\ \A i \in 1..Len(s) : SubSeq(t, 1, Len(s))[i] = t[i]
    BY <1>1, <1>2, <2>1, <2>2
  <2>4. ASSUME \A i \in 1..Len(s) : s[i] = t[i] PROVE s = SubSeq(t, 1, Len(s))
    BY <2>2, <2>3, <2>4, SeqEqual
  <2> QED BY <1>2, <1>3, <2>3, <2>4 DEF IsPrefix
<1>4. CASE ~(Len(s) <= Len(t))
  BY <1>4 DEF IsPrefix
<1> QED BY <1>3, <1>4

LEMMA BeginsWith ==
  ASSUME NEW S, NEW s \in Seq(S), NEW t \in Seq(S)
  PROVE  IsPrefix(s, s \o t)
<1>1. /\ s \o t \in Seq(S) /\ Len(s) \in Nat /\ Len(t) \in Nat /\ Len(s \o t) = Len(s) + Len(t)
      /\ \A i \in 1..Len(s) : (s \o t)[i] = s[i]
  BY JoinIs
<1>2. Len(s) <= Len(s \o t)
  BY <1>1
<1> QED BY <1>1, <1>2, PrefixIs

LEMMA LongerIs ==
  ASSUME NEW S, NEW s \in Seq(S), NEW e \in S
  PROVE  /\ Append(s, e) \in Seq(S) /\ Len(s) \in Nat /\ Len(Append(s, e)) = Len(s) + 1
         /\ DOMAIN Append(s, e) = 1..(Len(s) + 1) /\ DOMAIN s = 1..Len(s)
         /\ Append(s, e) = s \o <<e>>
         /\ \A i \in 1..Len(s) : Append(s, e)[i] = s[i]
         /\ Append(s, e)[Len(s) + 1] = e
<1>1. /\ Append(s, e) \in Seq(S) /\ Len(Append(s, e)) = Len(s) + 1
      /\ \A i \in 1..Len(s) : Append(s, e)[i] = s[i]
      /\ Append(s, e)[Len(s) + 1] = e
  BY AppendProperties
<1>2. Len(s) \in Nat /\ DOMAIN s = 1..Len(s) /\ DOMAIN Append(s, e) = 1..(Len(s) + 1)
  BY <1>1, LenProperties
<1>3. Append(s, e) = s \o <<e>>
  BY AppendIsConcat
<1> QED BY <1>1, <1>2, <1>3

Marked == Frame \cup {EndMark}

LEMMA MarkedAre ==
  ASSUME TypeOK
  PROVE  /\ wire \in Seq(Marked) /\ chan \in Seq(Marked) /\ sent \in Seq(Marked)
         /\ EndMark \in Marked /\ Frame \subseteq Marked /\ EndMark \notin Frame /\ ~Ends(EndMark)
<1>1. Frame \subseteq Marked /\ EndMark \in Marked
  BY DEF Marked
<1>2. EndMark.ev = "[DONE]"
  BY DEF EndMark
<1>3. \A item \in Frame : item.ev \in {"token", "tool", "done", "progress", "error"}
  BY DEF Frame, ErrorFrame
<1>4. EndMark \notin Frame
  BY <1>2, <1>3
<1>5. wire \in Seq(Marked) /\ chan \in Seq(Frame) /\ sent \in Seq(Frame)
  BY DEF TypeOK, Marked
<1>6. chan \in Seq(Marked) /\ sent \in Seq(Marked)
  BY <1>1, <1>5, SeqMonotonic
<1> QED BY <1>1, <1>2, <1>4, <1>5, <1>6 DEF Ends

LEMMA SilentKeeps ==
  ASSUME TypeOK, FramesInv, RunnerStep, Working, Quiet, run' # "ended"
  PROVE  FramesInv'
<1>1. UNCHANGED <<drain, wire, client, chan, sent>> /\ run \in RunAt
  BY DEF RunnerStep, Quiet, TypeOK, RunAt
<1>2. run # "ended" /\ run # "panicked" /\ (run' = "pull" => audited')
  BY <1>1 DEF Working, RunnerStep, FramesInv
<1> QED BY <1>1, <1>2, Zenon DEF FramesInv, RunnerStep

LEMMA PushKeeps ==
  ASSUME TypeOK, FramesInv, RunnerStep, NEW item \in Frame, PushStep(item)
  PROVE  FramesInv'
<1>0. /\ UNCHANGED <<drain, wire, client>> /\ run # "ended" /\ run # "panicked" /\ Working
      /\ chan' = Append(chan, item) /\ sent' = Append(sent, item) /\ (Ends(item) <=> run' = "ended")
  BY DEF RunnerStep, PushStep, Working, Push
<1>1. /\ wire \in Seq(Marked) /\ chan \in Seq(Marked) /\ sent \in Seq(Marked)
      /\ item \in Marked /\ EndMark \in Marked
  BY MarkedAre
<1>2. /\ sent' \in Seq(Marked) /\ Len(sent) \in Nat /\ Len(sent') = Len(sent) + 1
      /\ DOMAIN sent' = 1..(Len(sent) + 1) /\ DOMAIN sent = 1..Len(sent)
      /\ sent' = sent \o <<item>>
      /\ \A i \in 1..Len(sent) : sent'[i] = sent[i]
      /\ sent'[Len(sent) + 1] = item
  BY <1>0, <1>1, LongerIs
<1>3. chan' = chan \o <<item>> /\ <<item>> \in Seq(Marked)
  BY <1>0, <1>1, LongerIs, OneIs
<1>4. Len(Append(sent', EndMark)) = Len(sent') + 1
  BY <1>1, <1>2, LongerIs
<1>5. drain' = "on" => sent' = wire' \o chan'
  <2>1. CASE drain = "on"
    <3>1. sent = wire \o chan
      BY <2>1 DEF FramesInv
    <3>2. (wire \o chan) \o <<item>> = wire \o (chan \o <<item>>)
      BY <1>1, <1>3, ConcatAssociative
    <3> QED BY <1>0, <1>2, <1>3, <3>1, <3>2
  <2> QED BY <1>0, <2>1
<1>6. wire # Append(sent, EndMark)
  BY <1>0 DEF FramesInv
<1>7. Len(wire) \in Nat /\ Len(wire) <= Len(sent)
  <2>1. CASE drain = "on"
    <3>1. /\ Len(wire) \in Nat /\ Len(chan) \in Nat /\ Len(wire \o chan) = Len(wire) + Len(chan)
      BY <1>1, JoinIs
    <3> QED BY <2>1, <3>1 DEF FramesInv
  <2>2. CASE drain = "off"
    <3>1. IsPrefix(wire, sent)
      BY <1>6, <2>2 DEF FramesInv
    <3>2. Len(wire) \in Nat
      BY <1>1, LenProperties
    <3> QED BY <1>1, <3>1, <3>2, PrefixIs
  <2> QED BY <2>1, <2>2 DEF TypeOK
<1>8. wire' # Append(sent', EndMark)
  <2>1. Len(wire) # Len(sent') + 1
    BY <1>2, <1>7
  <2> QED BY <1>0, <1>4, <2>1
<1>9. drain' = "off" => IsPrefix(wire', sent') /\ client' # "there"
  <2>1. ASSUME drain = "off" PROVE IsPrefix(wire, sent') /\ client # "there"
    <3>1. IsPrefix(wire, sent) /\ client # "there"
      BY <1>0, <1>6, <2>1 DEF FramesInv
    <3>2. \A i \in 1..Len(wire) : wire[i] = sent[i] /\ i \in 1..Len(sent)
      BY <1>1, <1>2, <1>7, <3>1, PrefixIs
    <3>3. \A i \in 1..Len(wire) : wire[i] = sent'[i]
      BY <1>2, <3>2
    <3>4. Len(wire) <= Len(sent')
      BY <1>2, <1>7
    <3> QED BY <1>1, <1>2, <3>1, <3>3, <3>4, PrefixIs
  <2> QED BY <1>0, <2>1
<1>10. \A i \in 1..Len(sent) : ~Ends(sent'[i])
  BY <1>0, <1>2 DEF FramesInv
<1>11. \A i \in 1..(Len(sent) + 1) : i \in 1..Len(sent) \/ i = Len(sent) + 1
  BY <1>2
<1>12. run' # "ended" => \A i \in DOMAIN sent' : ~Ends(sent'[i])
  BY <1>0, <1>2, <1>10, <1>11
<1>13. run' = "ended" => \A i \in DOMAIN sent' : Ends(sent'[i]) <=> i = Len(sent')
  <2>1. \A i \in 1..Len(sent) : i # Len(sent')
    BY <1>2
  <2> QED BY <1>0, <1>2, <1>10, <1>11, <2>1
<1>14. run' \in {"pull", "ended"} => audited'
  BY DEF RunnerStep, FramesInv
<1> QED BY <1>5, <1>8, <1>9, <1>12, <1>13, <1>14 DEF FramesInv

LEMMA BeginKeeps ==
  ASSUME TypeOK, FramesInv, NEW route \in {"asking", "pull"}, Begin(route)
  PROVE  TypeOK' /\ FramesInv'
<1>1. /\ run = "requested" /\ audited' = (route = "pull") /\ Quiet
      /\ UNCHANGED <<turn, content, emitted, calls, answer, stray, wire, client>>
  BY DEF Begin
<1>2. \/ client = "there" /\ run' = route /\ drain' = drain
      \/ client = "gone" /\ run' = "never" /\ drain' = "off"
  BY DEF Begin, TypeOK
<1>3. audited' \in BOOLEAN /\ run' \in RunAt /\ drain' \in {"on", "off"}
  BY <1>1, <1>2 DEF TypeOK, RunAt
<1>4. TypeOK'
  BY <1>1, <1>3 DEF TypeOK, Quiet, RunAt
<1>5. UNCHANGED <<sent, chan>> /\ run' # "ended" /\ run # "ended"
  BY <1>1, <1>2 DEF Quiet
<1>6. wire # Append(sent, EndMark)
  BY <1>1 DEF FramesInv
<1>7. run' \in {"pull", "ended"} => audited'
  BY <1>1, <1>2
<1>8. drain = "on" /\ client = "gone" => IsPrefix(wire, sent)
  BY MarkedAre, BeginsWith DEF FramesInv
<1>9. drain = "on" \/ drain = "off"
  BY DEF TypeOK
<1>10. (drain' = "on" => sent' = wire' \o chan') /\ (drain' = "off" => IsPrefix(wire', sent') \/ wire' = Append(sent', EndMark))
       /\ (drain' = "off" /\ client' = "there" => wire' = Append(sent', EndMark))
  <2>1. CASE client = "there"
    BY <1>1, <1>2, <1>5, <2>1 DEF FramesInv
  <2>2. CASE client = "gone"
    BY <1>1, <1>2, <1>5, <1>8, <1>9, <2>2 DEF FramesInv
  <2> QED BY <2>1, <2>2 DEF TypeOK
<1>11. wire' # Append(sent', EndMark) /\ \A i \in DOMAIN sent' : ~Ends(sent'[i])
  BY <1>1, <1>5, <1>6 DEF FramesInv
<1>12. FramesInv'
  BY <1>5, <1>7, <1>10, <1>11 DEF FramesInv
<1> QED BY <1>4, <1>12

LEMMA DrainKeeps ==
  ASSUME TypeOK, FramesInv, DrainWrite
  PROVE  TypeOK' /\ FramesInv'
<1> DEFINE f == Head(chan)
           add == IF Ends(f) THEN <<f, EndMark>> ELSE <<f>>
<1>1. /\ drain = "on" /\ chan # <<>> /\ client = "there" /\ chan' = Tail(chan)
      /\ wire' = wire \o add /\ drain' = IF Ends(f) THEN "off" ELSE "on"
      /\ UNCHANGED <<runVars, client, sent, shown>>
  BY DEF DrainWrite
<1>2. /\ wire \in Seq(Marked) /\ chan \in Seq(Marked) /\ sent \in Seq(Marked) /\ chan \in Seq(Frame)
      /\ EndMark \in Marked /\ Frame \subseteq Marked
  BY MarkedAre DEF TypeOK
<1>3. /\ f \in Frame /\ chan' \in Seq(Frame) /\ chan' \in Seq(Marked) /\ f \in Marked
      /\ Len(chan') = Len(chan) - 1 /\ \A i \in 1..Len(chan') : chan'[i] = chan[i + 1]
  BY <1>1, <1>2, HeadTailProperties
<1>4. Len(chan) \in Nat \ {0} /\ f = chan[1]
  <2>1. Len(chan) \in Nat \ {0}
    BY <1>1, <1>2, EmptySeq
  <2> QED BY <1>2, <2>1
<1>5. sent = wire \o chan
  BY <1>1 DEF FramesInv
<1>6. /\ Len(wire) \in Nat /\ Len(sent) = Len(wire) + Len(chan) /\ DOMAIN sent = 1..Len(sent)
      /\ \A i \in 1..Len(wire) : sent[i] = wire[i]
      /\ \A i \in 1..Len(chan) : sent[Len(wire) + i] = chan[i]
  BY <1>2, <1>5, JoinIs
<1>7. sent[Len(wire) + 1] = f /\ Len(wire) + 1 \in DOMAIN sent
  BY <1>4, <1>6
<1>8. /\ <<f>> \in Seq(Marked) /\ Len(<<f>>) = 1 /\ <<f>>[1] = f
      /\ <<f, EndMark>> \in Seq(Marked) /\ Len(<<f, EndMark>>) = 2
      /\ <<f, EndMark>>[1] = f /\ <<f, EndMark>>[2] = EndMark
  BY <1>2, <1>3, OneIs, TwoAre
<1>9. wire' \in Seq(Marked)
  BY <1>1, <1>2, <1>8, JoinIs
<1>10. TypeOK'
  <2>1. drain' \in {"on", "off"}
    BY <1>1
  <2> QED BY <1>1, <1>3, <1>9, <2>1 DEF TypeOK, runVars, Marked
<1>11. UNCHANGED <<run, audited, sent, client>>
  BY <1>1 DEF runVars
<1>12. run \in {"pull", "ended"} => audited
  BY DEF FramesInv
<1>13. CASE ~Ends(f)
  <2>1. wire' = wire \o <<f>> /\ drain' = "on"
    BY <1>1, <1>13
  <2>2. /\ Len(wire') = Len(wire) + 1 /\ wire'[Len(wire) + 1] = f
        /\ \A i \in 1..Len(wire) : wire'[i] = wire[i]
    <3>1. 1 \in 1..Len(<<f>>)
      BY <1>8
    <3> QED BY <1>2, <1>8, <2>1, <3>1, JoinIs
  <2>3. /\ wire' \o chan' \in Seq(Marked) /\ Len(wire' \o chan') = Len(wire') + Len(chan')
        /\ \A i \in 1..Len(wire') : (wire' \o chan')[i] = wire'[i]
        /\ \A i \in 1..Len(chan') : (wire' \o chan')[Len(wire') + i] = chan'[i]
    <3>1. PICK w \in Seq(Marked), c \in Seq(Marked) : w = wire' /\ c = chan'
      BY <1>3, <1>9
    <3>2. /\ w \o c \in Seq(Marked) /\ Len(w \o c) = Len(w) + Len(c)
          /\ \A i \in 1..Len(w) : (w \o c)[i] = w[i]
          /\ \A i \in 1..Len(c) : (w \o c)[Len(w) + i] = c[i]
      BY JoinIs
    <3> QED BY <3>1, <3>2
  <2>4. Len(wire' \o chan') = Len(sent)
    BY <1>3, <1>4, <1>6, <2>2, <2>3
  <2>5. ASSUME NEW i \in 1..Len(sent) PROVE sent[i] = (wire' \o chan')[i]
    <3>1. CASE i <= Len(wire)
      <4>1. i \in 1..Len(wire) /\ i \in 1..Len(wire')
        BY <1>6, <2>2, <3>1
      <4> QED BY <1>6, <2>2, <2>3, <4>1
    <3>2. CASE i = Len(wire) + 1
      <4>1. i \in 1..Len(wire')
        BY <1>6, <2>2, <3>2
      <4> QED BY <1>7, <2>2, <2>3, <3>2, <4>1
    <3>3. CASE i > Len(wire) + 1
      <4> DEFINE k == i - (Len(wire) + 1)
      <4>1. /\ k \in 1..Len(chan') /\ i = Len(wire') + k /\ k + 1 \in 1..Len(chan)
            /\ Len(wire) + (k + 1) = i
        BY <1>3, <1>4, <1>6, <2>2, <3>3
      <4> HIDE DEF k
      <4>2. sent[i] = chan[k + 1] /\ chan'[k] = chan[k + 1]
        BY <1>3, <1>6, <4>1
      <4>3. (wire' \o chan')[Len(wire') + k] = chan'[k]
        BY <2>3, <4>1
      <4> QED BY <4>1, <4>2, <4>3
    <3>4. i <= Len(wire) \/ i = Len(wire) + 1 \/ i > Len(wire) + 1
      <4>1. i \in Nat
        BY <1>4, <1>6
      <4> QED BY <1>6, <4>1
    <3> QED BY <3>1, <3>2, <3>3, <3>4
  <2>6. sent = wire' \o chan'
    BY <1>2, <2>3, <2>4, <2>5, SeqEqual
  <2>7. wire' # Append(sent, EndMark)
    <3>1. Len(Append(sent, EndMark)) = Len(sent) + 1
      BY <1>2, LongerIs
    <3>2. Len(wire') # Len(sent) + 1
      BY <1>4, <1>6, <2>2
    <3> QED BY <3>1, <3>2
  <2>8. FramesInv'
    BY <1>11, <1>12, <2>1, <2>6, <2>7 DEF FramesInv
  <2> QED BY <1>10, <2>8
<1>14. CASE Ends(f)
  <2>1. wire' = wire \o <<f, EndMark>> /\ drain' = "off"
    BY <1>1, <1>14
  <2>2. run = "ended" /\ Len(wire) + 1 = Len(sent)
    BY <1>7, <1>14 DEF FramesInv
  <2>3. /\ Len(wire') = Len(wire) + 2
        /\ wire'[Len(wire) + 1] = f /\ wire'[Len(wire) + 2] = EndMark
        /\ \A i \in 1..Len(wire) : wire'[i] = wire[i]
    <3>1. 1 \in 1..Len(<<f, EndMark>>) /\ 2 \in 1..Len(<<f, EndMark>>)
      BY <1>8
    <3> QED BY <1>2, <1>8, <2>1, <3>1, JoinIs
  <2>4. /\ Append(sent, EndMark) \in Seq(Marked) /\ Len(Append(sent, EndMark)) = Len(sent) + 1
        /\ \A i \in 1..Len(sent) : Append(sent, EndMark)[i] = sent[i]
        /\ Append(sent, EndMark)[Len(sent) + 1] = EndMark
    BY <1>2, LongerIs
  <2>5. ASSUME NEW i \in 1..Len(wire') PROVE wire'[i] = Append(sent, EndMark)[i]
    <3>1. CASE i <= Len(wire)
      <4>1. i \in 1..Len(wire) /\ i \in 1..Len(sent)
        BY <1>6, <2>2, <3>1
      <4> QED BY <1>6, <2>3, <2>4, <4>1
    <3>2. CASE i = Len(wire) + 1
      <4>1. i \in 1..Len(sent)
        BY <1>6, <2>2, <3>2
      <4> QED BY <1>7, <2>3, <2>4, <3>2, <4>1
    <3>3. CASE i = Len(wire) + 2
      <4>1. i = Len(sent) + 1
        BY <1>6, <2>2, <3>3
      <4> QED BY <2>3, <2>4, <3>3, <4>1
    <3>4. i <= Len(wire) \/ i = Len(wire) + 1 \/ i = Len(wire) + 2
      <4>1. i \in Nat /\ i <= Len(wire) + 2
        BY <1>6, <2>3
      <4> QED BY <1>6, <4>1
    <3> QED BY <3>1, <3>2, <3>3, <3>4
  <2>6. Len(wire') = Len(Append(sent, EndMark))
    BY <1>6, <2>2, <2>3, <2>4
  <2>7. wire' = Append(sent, EndMark)
    BY <1>9, <2>4, <2>5, <2>6, SeqEqual
  <2>8. FramesInv'
    BY <1>11, <1>12, <2>1, <2>2, <2>7 DEF FramesInv
  <2> QED BY <1>10, <2>8
<1> QED BY <1>13, <1>14

LEMMA DrainStops ==
  ASSUME TypeOK, FramesInv, DrainFails
  PROVE  TypeOK' /\ FramesInv'
<1>1. /\ drain = "on" /\ chan # <<>> /\ client = "gone" /\ drain' = "off" /\ chan' = Tail(chan)
      /\ UNCHANGED <<runVars, wire, client, sent, shown>>
  BY DEF DrainFails
<1>2. chan' \in Seq(Frame)
  BY <1>1, TailOf DEF TypeOK
<1>3. TypeOK'
  BY <1>1, <1>2 DEF TypeOK, runVars
<1>4. IsPrefix(wire, sent)
  BY <1>1, MarkedAre, BeginsWith DEF FramesInv
<1>5. UNCHANGED <<run, audited, sent, wire, client>>
  BY <1>1 DEF runVars
<1>6. FramesInv'
  BY <1>1, <1>4, <1>5 DEF FramesInv
<1> QED BY <1>3, <1>6

LEMMA LeavingKeeps ==
  ASSUME TypeOK, FramesInv, ClientLeaves
  PROVE  TypeOK' /\ FramesInv'
<1>1. /\ drain = "on" /\ client' = "gone" /\ UNCHANGED <<runVars, chan, drain, wire, sent, shown>>
  BY DEF ClientLeaves
<1>2. TypeOK'
  BY <1>1 DEF TypeOK, runVars
<1>3. FramesInv'
  BY <1>1 DEF FramesInv, runVars
<1> QED BY <1>2, <1>3

LEMMA ActsKeep ==
  ASSUME TypeOK, CallAtHand, FramesInv, RunnerActs
  PROVE  TypeOK' /\ CallAtHand' /\ FramesInv'
<1>1. RunTypes' /\ RunnerStep
  BY ActsAre
<1>2. CASE Working /\ Quiet /\ run' # "ended"
  <2>1. WireTypes'
    BY <1>1, <1>2, QuietTypes, TypesAre DEF RunnerStep
  <2>2. TypeOK'
    BY <1>1, <2>1 DEF TypeOK, RunTypes, WireTypes, RunAt
  <2> QED BY <1>1, <1>2, <2>2, SilentKeeps, CallStays
<1>3. CASE \E item \in Frame : PushStep(item)
  <2>1. PICK item \in Frame : PushStep(item)
    BY <1>3
  <2>2. WireTypes'
    BY <1>1, <2>1, PushTypes, TypesAre DEF RunnerStep, PushStep
  <2>3. TypeOK'
    BY <1>1, <2>2 DEF TypeOK, RunTypes, WireTypes, RunAt
  <2> QED BY <1>1, <2>1, <2>3, PushKeeps, CallStays
<1> QED BY <1>1, <1>2, <1>3, Zenon DEF RunnerStep

(***************************************************************************)
(* Streams: the text                                                       *)
(***************************************************************************)

\* What the property says when the text does not change any more.
LEMMA AnswerStays ==
  ASSUME StreamedIsAnswer, UNCHANGED <<run, stray, sent, shown>>
  PROVE  StreamedIsAnswer'
BY DEF StreamedIsAnswer

\* Text that has been forwarded and not hidden ends where the text behind it begins.
LEMMA CutAt ==
  ASSUME TypeOK, TextInv, NEW chunk \in Chunks, run = "reading", content' = content \o chunk
  PROVE  LET old == Visible(content)
             new == Visible(content')
         IN  /\ Settled(content') /\ old \in Seq(Atoms) /\ new \in Seq(Atoms)
             /\ ~stray /\ ByteSize(new) >= emitted =>
                   /\ emitted = ByteSize(old) /\ Len(old) <= Len(new)
                   /\ SubSeq(new, 1, Len(old)) = old
                   /\ Len(old) \in Cuts(new) /\ \A k \in Cuts(new) : k = Len(old)
                   /\ ByteSize(new) = emitted => Len(new) = Len(old)
<1> DEFINE old == Visible(content)
           new == Visible(content')
<1>1. content \in Seq(Atoms) /\ content' \in Seq(Atoms) /\ Settled(content)
  BY ChunkIs, JoinIs DEF TypeOK, TextInv
<1>2. old \in Seq(Atoms) /\ new \in Seq(Atoms)
  BY <1>1, VisibleIs
<1>3. /\ Settled(content')
      /\ new = << >> \/ (Len(old) <= Len(new) /\ SubSeq(new, 1, Len(old)) = old)
  BY <1>1, VisibleGrows
<1>4. ~stray => emitted = ByteSize(old)
  BY DEF TextInv
<1> SUFFICES ASSUME ~stray, ByteSize(new) >= emitted
             PROVE  /\ emitted = ByteSize(old) /\ Len(old) <= Len(new)
                    /\ SubSeq(new, 1, Len(old)) = old
                    /\ Len(old) \in Cuts(new) /\ \A k \in Cuts(new) : k = Len(old)
                    /\ ByteSize(new) = emitted => Len(new) = Len(old)
  BY <1>2, <1>3
<1> HIDE DEF old, new
<1>5. /\ Len(old) \in Nat /\ Len(new) \in Nat /\ ByteSize(old) \in Nat /\ ByteSize(new) \in Nat
  BY <1>2, SizeOf
<1>6. Len(old) <= Len(new) /\ SubSeq(new, 1, Len(old)) = old
  <2>1. CASE new = << >>
    <3>1. Len(new) = 0
      BY <2>1
    <3>2. ByteSize(new) = 0
      BY <3>1, OffsetIs DEF ByteSize
    <3>3. ByteSize(old) = 0
      BY <1>4, <1>5, <3>2
    <3>4. 0 < Len(old) => Offset(old, 0) < Offset(old, Len(old)) /\ Offset(old, 0) = 0
      BY <1>5, OffsetIs
    <3>5. Len(old) = 0
      BY <1>5, <3>3, <3>4 DEF ByteSize
    <3>6. old = << >> /\ SubSeq(new, 1, 0) = << >>
      BY <1>2, <3>5, EmptySeq, SubSeqEmpty
    <3> QED BY <3>1, <3>5, <3>6
  <2> QED BY <1>3, <2>1
<1>7. \A i \in 1..Len(old) : new[i] = old[i]
  <2>1. /\ \A i \in 1..(Len(old) - 1 + 1) : SubSeq(new, 1, Len(old))[i] = new[1 + i - 1]
    <3>1. 1 \in Nat \ {0}
      OBVIOUS
    <3> QED BY <1>2, <1>5, <1>6, <3>1, PartIs
  <2>2. ASSUME NEW i \in 1..Len(old) PROVE new[i] = old[i]
    <3>1. i \in 1..(Len(old) - 1 + 1) /\ 1 + i - 1 = i
      BY <1>5
    <3>2. SubSeq(new, 1, Len(old))[i] = new[i]
      BY <2>1, <3>1
    <3> QED BY <1>6, <3>2
  <2> QED BY <2>2
<1>8. Offset(new, Len(old)) = emitted
  BY <1>4, <1>5, <1>7, OffsetSame DEF ByteSize
<1>9. Len(old) \in Cuts(new)
  BY <1>5, <1>6, <1>8 DEF Cuts
<1>10. ASSUME NEW k \in Nat, Offset(new, k) = emitted PROVE k = Len(old)
  <2>1. /\ Offset(new, k) \in Nat
        /\ k < Len(old) => Offset(new, k) < Offset(new, Len(old))
        /\ Len(old) < k => Offset(new, Len(old)) < Offset(new, k)
    BY <1>5, OffsetIs
  <2> QED BY <1>5, <1>8, <1>10, <2>1
<1>11. \A k \in Cuts(new) : k = Len(old)
  BY <1>10, <1>5 DEF Cuts
<1>12. ByteSize(new) = emitted => Len(new) = Len(old)
  BY <1>5, <1>10 DEF ByteSize
<1> QED BY <1>4, <1>6, <1>9, <1>11, <1>12

LEMMA ForwardKeeps ==
  ASSUME TypeOK, TextInv, NEW chunk \in Chunks, TextDelta(chunk)
  PROVE  TextInv'
<1> DEFINE new == Visible(content')
           old == Visible(content)
<1>1. /\ run = "reading" /\ content' = content \o chunk
      /\ Forward(new) /\ emitted' = NewEmitted(new) /\ stray' = (stray \/ ByteSize(new) < emitted)
      /\ UNCHANGED <<run, calls, answer>>
  BY DEF TextDelta, TextArrives, Speaks
<1>2. /\ Settled(content') /\ old \in Seq(Atoms) /\ new \in Seq(Atoms)
      /\ ~stray /\ ByteSize(new) >= emitted =>
            /\ emitted = ByteSize(old) /\ Len(old) <= Len(new)
            /\ SubSeq(new, 1, Len(old)) = old
            /\ Len(old) \in Cuts(new) /\ \A k \in Cuts(new) : k = Len(old)
            /\ ByteSize(new) = emitted => Len(new) = Len(old)
  BY <1>1, CutAt
<1>3. emitted \in Nat /\ ByteSize(new) \in Nat /\ Len(new) \in Nat /\ Len(old) \in Nat
  BY <1>2, SizeOf DEF TypeOK
<1>4. calls = <<>> /\ ~stray => shown = old
  BY <1>1 DEF TextInv
<1> HIDE DEF new, old
<1>5. ASSUME ~stray' PROVE emitted' = ByteSize(new) /\ (calls' = <<>> => shown' = new)
  <2>1. ~stray /\ ByteSize(new) >= emitted
    <3>1. ~stray /\ ~(ByteSize(new) < emitted)
      BY <1>1, <1>5, Zenon
    <3> QED BY <1>3, <3>1
  <2>2. CASE ByteSize(new) > emitted
    <3>1. PICK k \in Cuts(new) : Push(Token(SubSeq(new, k + 1, Len(new))))
      BY <1>1, <2>2 DEF Forward
    <3>2. k = Len(old)
      BY <1>2, <2>1, <3>1
    <3>3. shown' = shown \o SubSeq(new, Len(old) + 1, Len(new))
      BY <3>1, <3>2 DEF Push, Bubble, Token
    <3>4. SubSeq(new, 1, Len(old)) \o SubSeq(new, Len(old) + 1, Len(new)) = SubSeq(new, 1, Len(new))
      <4>1. 1 \in 1..(Len(new) + 1) /\ Len(old) \in (1 - 1)..Len(new) /\ Len(new) \in Len(old)..Len(new)
        BY <1>2, <1>3, <2>1
      <4> QED BY <1>2, <4>1, ConcatAdjacentSubSeq
    <3>5. SubSeq(new, 1, Len(new)) = new
      BY <1>2, SubSeqFull
    <3>6. emitted' = ByteSize(new)
      BY <1>1, <2>2 DEF NewEmitted
    <3> QED BY <1>1, <1>2, <1>4, <2>1, <3>3, <3>4, <3>5, <3>6
  <2>3. CASE ~(ByteSize(new) > emitted)
    <3>1. ByteSize(new) = emitted
      BY <1>3, <2>1, <2>3
    <3>2. new = old
      BY <1>2, <2>1, <3>1, SubSeqFull
    <3>3. Quiet /\ emitted' = emitted
      BY <1>1, <2>3 DEF Forward, NewEmitted
    <3> QED BY <1>1, <1>4, <2>1, <3>1, <3>2, <3>3 DEF Quiet
  <2> QED BY <2>2, <2>3
<1>6. run' = "reading" /\ run' # "final" /\ run' # "ended" /\ run' # "panicked"
  BY <1>1
<1> QED BY <1>2, <1>5, <1>6 DEF TextInv, StreamedIsAnswer, new

\* A slice panics only behind text that was hidden, and takes the drain along.
LEMMA PanicKeeps ==
  ASSUME TypeOK, FramesInv, TextInv, NEW chunk \in Chunks, TextPanics(chunk)
  PROVE  TypeOK' /\ CallAtHand' /\ FramesInv' /\ TextInv'
<1>1. /\ run = "reading" /\ content' = content \o chunk /\ ~Sliceable(Visible(content'))
      /\ run' = "panicked" /\ drain' = "off" /\ Quiet
      /\ UNCHANGED <<turn, emitted, calls, answer, audited, stray, wire, client>>
  BY DEF TextPanics, TextArrives, Speaks
<1>2. content' \in Seq(Atoms)
  BY <1>1, ChunkIs, JoinIs DEF TypeOK
<1>3. TypeOK'
  BY <1>1, <1>2 DEF TypeOK, Quiet
<1>4. stray
  <2>1. ByteSize(Visible(content')) > emitted /\ Cuts(Visible(content')) = {}
    BY <1>1 DEF Sliceable
  <2>2. ByteSize(Visible(content')) \in Nat /\ emitted \in Nat
    BY <1>2, VisibleIs, SizeOf DEF TypeOK
  <2>3. ~stray => Len(Visible(content)) \in Cuts(Visible(content'))
    BY <1>1, <2>1, <2>2, CutAt
  <2> QED BY <2>1, <2>3
<1>5. TextInv'
  BY <1>1, <1>4 DEF TextInv, StreamedIsAnswer
<1>6. IsPrefix(wire, sent) /\ wire # Append(sent, EndMark)
  <2>1. CASE drain = "on"
    BY <1>1, <2>1, MarkedAre, BeginsWith DEF FramesInv
  <2>2. CASE drain = "off"
    BY <1>1, <2>2 DEF FramesInv
  <2> QED BY <1>1, <2>1, <2>2 DEF TypeOK, FramesInv
<1>7. FramesInv'
  BY <1>1, <1>6 DEF FramesInv, Quiet
<1>8. CallAtHand'
  BY <1>1 DEF CallAtHand
<1> QED BY <1>3, <1>5, <1>7, <1>8

\* A step to a stage in which nothing is said of the text.
LEMMA OtherKeeps ==
  ASSUME run' \notin {"reading", "final", "ended", "panicked"}
  PROVE  TextInv'
BY DEF TextInv, StreamedIsAnswer

LEMMA DoneOnly ==
  ASSUME TypeOK, FramesInv, run # "ended", NEW item \in Frame, Push(item)
  PROVE  \A i \in DOMAIN sent' : Ends(sent'[i]) => sent'[i] = item
<1>1. sent' = Append(sent, item) /\ sent \in Seq(Frame)
  BY DEF Push, TypeOK
<1>2. /\ DOMAIN sent' = 1..(Len(sent) + 1) /\ DOMAIN sent = 1..Len(sent) /\ Len(sent) \in Nat
      /\ \A i \in 1..Len(sent) : sent'[i] = sent[i]
      /\ sent'[Len(sent) + 1] = item
  BY <1>1, LongerIs
<1>3. \A i \in DOMAIN sent' : i \in 1..Len(sent) \/ i = Len(sent) + 1
  BY <1>2
<1> QED BY <1>2, <1>3 DEF FramesInv

LEMMA TextKeeps ==
  ASSUME TypeOK, CallAtHand, FramesInv, TextInv, RunnerActs
  PROVE  TextInv'
<1>1. CASE AskModel
  <2>1. /\ content' = <<>> /\ emitted' = 0 /\ calls' = <<>> /\ stray' = (shown # <<>>) /\ Quiet
        /\ run' = "reading" \/ (run' = "final" /\ answer' = ModelError)
    BY <1>1 DEF AskModel
  <2>2. Len(<< >>) = 0
    OBVIOUS
  <2>3. Settled(content')
    BY <2>1, <2>2 DEF Settled
  <2>4. Visible(<< >>) = << >>
    <3>1. \A tag : EndsOf(tag, << >>) = {}
      BY <2>2 DEF EndsOf
    <3> QED BY <3>1 DEF Visible
  <2>7. ByteSize(<< >>) = 0
    BY <2>2, OffsetIs DEF ByteSize
  <2>5. (~stray' => shown' = Visible(content')) /\ emitted' = ByteSize(Visible(content'))
    BY <2>1, <2>2, <2>4, <2>7 DEF Quiet
  <2>6. run' # "ended" /\ run' # "panicked"
    BY <2>1
  <2> QED BY <2>1, <2>3, <2>5, <2>6 DEF TextInv, StreamedIsAnswer
<1>2. CASE \E chunk \in Chunks : TextDelta(chunk)
  BY <1>2, ForwardKeeps
<1>3. CASE \E name \in ToolNames : ToolDelta(name)
  <2>1. PICK name \in ToolNames : ToolDelta(name)
    BY <1>3
  <2>2. /\ run = "reading" /\ run' = run /\ content' = content /\ calls' = Append(calls, name)
        /\ UNCHANGED <<emitted, stray>>
    BY <2>1 DEF ToolDelta, Speaks
  <2>3. calls' # <<>>
    <3>1. calls \in Seq(ToolNames) /\ name \in ToolNames
      BY DEF TypeOK
    <3>2. calls' = Append(calls, name)
      BY <2>2
    <3> QED BY <3>1, <3>2, AppendProperties
  <2>4. Settled(content')
    BY <2>2 DEF TextInv
  <2> QED BY <2>2, <2>3, <2>4 DEF TextInv, StreamedIsAnswer
<1>4. CASE StreamBreaks
  <2>1. run' = "final" /\ answer' = ModelError
    BY <1>4 DEF StreamBreaks
  <2> QED BY <2>1 DEF TextInv, StreamedIsAnswer
<1>5. CASE TurnEnds
  <2>1. /\ run = "reading" /\ Quiet /\ UNCHANGED <<content, emitted, calls, stray>>
        /\ \/ calls = <<>> /\ run' = "final" /\ answer' = Trim(Visible(content))
           \/ run' = "tools"
    BY <1>5 DEF TurnEnds, TurnAnswer
  <2>2. CASE run' = "tools"
    BY <2>2, OtherKeeps
  <2>3. CASE calls = <<>> /\ run' = "final" /\ answer' = Trim(Visible(content))
    <3>1. ~stray' => Trim(shown') = answer'
      BY <2>1, <2>3 DEF TextInv, Quiet
    <3> QED BY <2>3, <3>1 DEF TextInv, StreamedIsAnswer
  <2> QED BY <2>1, <2>2, <2>3
<1>6. CASE OutOfIters \/ NextTool \/ Pend \/ ToolReturns \/ NextTurn
  <2>1. run' \notin {"reading", "final", "ended", "panicked"}
    BY <1>6 DEF OutOfIters, NextTool, Pend, ToolReturns, NextTurn
  <2> QED BY <2>1, OtherKeeps
<1>7. CASE Finish
  <2>1. /\ run \in Results /\ run' = "ended" /\ Push(DoneFrame(run, answer)) /\ UNCHANGED <<answer, stray>>
    BY <1>7 DEF Finish
  <2>2. DoneFrame(run, answer) \in Frame /\ Ends(DoneFrame(run, answer)) /\ run # "ended"
    BY <2>1, FramesAre DEF TypeOK, Results
  <2>3. \A i \in DOMAIN sent' : sent'[i].ev = "done" => sent'[i] = DoneFrame(run, answer)
    BY <2>1, <2>2, DoneOnly DEF Ends
  <2>4. shown' = shown
    BY <2>1 DEF Push, Bubble, DoneFrame
  <2>5. DoneFrame(run, answer).data = <<run, answer>>
    BY DEF DoneFrame
  <2>6. <<run, answer>>[1] = run /\ <<run, answer>>[2] = answer
    OBVIOUS
  <2>7. ASSUME ~stray', NEW i \in DOMAIN sent', sent'[i].ev = "done", sent'[i].data[1] = "final",
               sent'[i].data[2] # ModelError
        PROVE  Trim(shown') = sent'[i].data[2]
    <3>1. sent'[i].data[1] = run /\ sent'[i].data[2] = answer
      BY <2>3, <2>5, <2>6, <2>7
    <3>2. run = "final" /\ answer # ModelError /\ ~stray
      BY <2>1, <2>7, <3>1
    <3>3. Trim(shown) = answer
      BY <3>2 DEF TextInv
    <3> QED BY <2>4, <3>1, <3>3
  <2>8. StreamedIsAnswer'
    BY <2>7 DEF StreamedIsAnswer
  <2> QED BY <2>1, <2>8 DEF TextInv
<1>8. CASE PullRefused \/ PullEnds
  <2>1. run = "pull" /\ run' = "ended" /\ (Push(ErrorFrame) \/ Push(DoneFrame("pull", answer)))
    BY <1>8 DEF PullRefused, PullEnds
  <2>2. PICK item \in {ErrorFrame, DoneFrame("pull", answer)} : Push(item)
    BY <2>1
  <2>3. item \in Frame
    BY FramesAre DEF TypeOK
  <2>4. \A i \in DOMAIN sent' : sent'[i].ev = "done" => sent'[i] = item
    BY <2>1, <2>2, <2>3, DoneOnly DEF Ends
  <2>5. ~(item.ev = "done" /\ item.data[1] = "final")
    <3>1. ErrorFrame.ev = "error" /\ DoneFrame("pull", answer).data = <<"pull", answer>>
      BY DEF ErrorFrame, DoneFrame
    <3>2. <<"pull", answer>>[1] = "pull"
      OBVIOUS
    <3> QED BY <3>1, <3>2
  <2>6. StreamedIsAnswer'
    BY <2>4, <2>5 DEF StreamedIsAnswer
  <2> QED BY <2>1, <2>6 DEF TextInv
<1>9. CASE \E line \in {"success", "other"} : PullLine(line)
  <2>1. run' \notin {"reading", "final", "ended", "panicked"}
    BY <1>9 DEF PullLine
  <2> QED BY <2>1, OtherKeeps
<1> QED BY <1>1, <1>2, <1>3, <1>4, <1>5, <1>6, <1>7, <1>8, <1>9 DEF RunnerActs

LEMMA StreamBegins == Init => StreamIInv
<1> SUFFICES ASSUME Init PROVE StreamIInv
  OBVIOUS
<1>1. run = "requested" /\ turn = 0 /\ emitted = 0 /\ drain = "on" /\ client = "there"
  BY DEF Init
<1>2. content = <<>> /\ calls = <<>> /\ answer = <<>> /\ chan = <<>> /\ wire = <<>> /\ sent = <<>> /\ shown = <<>>
  BY DEF Init
<1>3. audited = FALSE /\ stray = FALSE
  BY DEF Init
<1>4. audited \in BOOLEAN /\ stray \in BOOLEAN
  BY <1>3
<1>5. << >> \in Seq(Frame) /\ << >> \in Seq(Frame \cup {EndMark})
  OBVIOUS
<1>6. TypeOK
  <2>1. run \in RunAt /\ turn \in Nat /\ emitted \in Nat
    BY <1>1 DEF RunAt
  <2> QED BY <1>1, <1>2, <1>4, <1>5, <2>1, NoText DEF TypeOK, RunAt
<1>7. << >> \o << >> = << >> /\ Append(<< >>, EndMark) # << >> /\ DOMAIN << >> = {}
  <2>1. Append(<< >>, EndMark) # << >>
    BY <1>6, <1>2, MarkedAre, AppendProperties
  <2>2. << >> \o << >> = << >>
    BY <1>5, ConcatEmptySeq
  <2> QED BY <2>1, <2>2
<1>8. FramesInv
  BY <1>1, <1>2, <1>7 DEF FramesInv
<1>9. TextInv /\ CallAtHand
  BY <1>1 DEF TextInv, StreamedIsAnswer, CallAtHand
<1> QED BY <1>6, <1>8, <1>9 DEF StreamIInv

THEOREM StreamInductive == StreamIInv /\ [Next]_vars => StreamIInv'
<1> SUFFICES ASSUME StreamIInv, [Next]_vars PROVE StreamIInv'
  OBVIOUS
<1> USE DEF StreamIInv
<1>1. CASE RunnerActs
  BY <1>1, ActsKeep, TextKeeps
<1>2. CASE \E route \in {"asking", "pull"} : Begin(route)
  <2>1. PICK route \in {"asking", "pull"} : Begin(route)
    BY <1>2
  <2>2. TypeOK' /\ FramesInv'
    BY <2>1, BeginKeeps
  <2>3. run' \notin {"reading", "final", "ended", "tool", "panicked"}
    BY <2>1 DEF Begin
  <2>4. CallAtHand' /\ TextInv'
    BY <2>3, OtherKeeps DEF CallAtHand
  <2> QED BY <2>2, <2>4
<1>3. CASE Drain \/ ClientLeaves
  <2>1. TypeOK' /\ FramesInv'
    BY <1>3, DrainKeeps, DrainStops, LeavingKeeps DEF Drain
  <2>2. UNCHANGED <<runVars, sent, shown>>
    BY <1>3 DEF Drain, DrainWrite, DrainFails, ClientLeaves
  <2>3. TextInv' /\ CallAtHand'
    BY <2>2, AnswerStays DEF TextInv, CallAtHand, runVars
  <2> QED BY <2>1, <2>3
<1>4. CASE UNCHANGED vars
  <2>1. UNCHANGED <<runVars, chan, drain, wire, client, sent, shown>>
    BY <1>4 DEF vars, runVars
  <2>2. TypeOK' /\ FramesInv'
    BY <2>1 DEF TypeOK, FramesInv, runVars
  <2>3. TextInv' /\ CallAtHand'
    BY <2>1, AnswerStays DEF TextInv, CallAtHand, runVars
  <2> QED BY <2>2, <2>3
<1>5. CASE \E chunk \in Chunks : TextPanics(chunk)
  BY <1>5, PanicKeeps
<1> QED BY <1>1, <1>2, <1>3, <1>4, <1>5, Zenon DEF Next, Runner, RunnerActs

LEMMA StreamInvariant == Spec => []StreamIInv
<1>1. StreamIInv /\ [Next]_vars => StreamIInv'
  BY StreamInductive
<1> QED BY StreamBegins, <1>1, PTL DEF Spec

\* Every reachable state of a stream is well typed, whatever the model says, for any
\* number of turns, calls and lines (the agent and pull routes of handle_conn).
THEOREM StreamTypeCorrect == Spec => []TypeOK
<1>1. StreamIInv => TypeOK
  BY DEF StreamIInv
<1> QED BY StreamInvariant, <1>1, PTL

\* What a client reads is what the run pushed, in its order and without gaps, and once
\* the connection closed a client that stayed has the final frame once and last, and a
\* run that ended is in the audit log (the drain and the runner of handle_conn). A run
\* that a slice of the visible text ended by a panic has neither; that takes text that was
\* hidden after it had been forwarded (complete_with_tools_streaming).
THEOREM FramesAlwaysInOrder == Spec => []FramesInOrder
<1>1. ASSUME StreamIInv PROVE FramesInOrder
  <2>1. TypeOK /\ FramesInv
    BY <1>1 DEF StreamIInv
  <2>2. IsPrefix(wire, sent) \/ wire = Append(sent, EndMark)
    <3>1. CASE drain = "on"
      BY <2>1, <3>1, MarkedAre, BeginsWith DEF FramesInv
    <3>2. CASE drain = "off"
      BY <2>1, <3>2 DEF FramesInv
    <3> QED BY <2>1, <3>1, <3>2 DEF TypeOK
  <2>3. run = "panicked" => stray
    BY <1>1 DEF StreamIInv, TextInv
  <2> QED BY <2>1, <2>2, <2>3 DEF FramesInv, FramesInOrder, Closed
<1>2. StreamIInv => FramesInOrder
  BY <1>1
<1> QED BY StreamInvariant, <1>2, PTL

\* When a run ends normally, the text the app has put together from the tokens is the
\* answer of the final frame, unless text was hidden after it had been forwarded or
\* is left from an earlier turn (complete_with_tools_streaming, visible_content).
THEOREM StreamedIsTheAnswer == Spec => []StreamedIsAnswer
<1>1. StreamIInv => StreamedIsAnswer
  BY DEF StreamIInv, TextInv
<1> QED BY StreamInvariant, <1>1, PTL

(***************************************************************************)
(* Calls over the socket                                                   *)
(***************************************************************************)

\* The bytes of a stream: five of a named frame, three of the end mark, which comes
\* last.
AtomOf(f, o) ==
    IF f.event = "message" THEN IF o = 0 THEN <<"data", f.data[1]>> ELSE LineFeed
    ELSE IF o = 0 THEN <<"event", f.event>>
    ELSE IF o = 2 THEN <<"data", f.data[1]>> ELSE LineFeed
Size(frames) ==
    IF Len(frames) > 0 /\ frames[Len(frames)].event = "message" THEN 5 * Len(frames) - 2
    ELSE 5 * Len(frames)
Bytes(frames) == [p \in 1..Size(frames) |-> AtomOf(frames[((p - 1) \div 5) + 1], (p - 1) % 5)]

Given   == response.frames
Json    == {<<<<"json", text>>, <<"json end">>>> : text \in {"ok", "error"}}
Content == IF response.body = <<>> THEN Bytes(Given) ELSE response.body
Message(text, rest) == (<<<<text>>>> \o Blank) \o rest

\* What one side has put together, what is on its way, and what is yet to be sent.
Cat(a, b)       == a \o b
JoinOf(a, b, c) == Cat(Cat(a, b), c)
From(s, q)      == SubSeq(s, q + 1, Len(s))

\* What the core has given and the caller has not looked at.
Pending == JoinOf(got, toClient, unwritten)
Fresh   ==
    /\ response = [body |-> <<>>, frames |-> <<>>] /\ unwritten = <<>>
    /\ toClient = <<>> /\ got = <<>> /\ header = "open"

\* The request is written, buffered and read in its order.
RequestInv ==
    /\ caller = "connect" => /\ server \in {"down", "up"} /\ unsent = Request
                             /\ toServer = <<>> /\ buf = <<>> /\ tries < Tries
    /\ caller \in {"write", "read", "lines"} /\ server \in {"down", "up"} => died
    /\ server = "head" => Len(buf) < 3 /\ JoinOf(buf, toServer, unsent) = Request
    /\ server = "body" => JoinOf(buf, toServer, unsent) = Body(exchange.length)
    /\ handled \in {Unhandled, Body(exchange.length)} \/ (handled = <<>> /\ ClientGone)

\* The frames of a stream: named ones, then the end mark.
Named(f) == f.event \in {"token", "done"} /\ f.data = <<f.data[1]>> /\ f.data[1] \in Payload
Shaped(frames) ==
    \A i \in DOMAIN frames :
        Named(frames[i]) \/ (frames[i] = EndMarkFrame /\ i = Len(frames))
GivenInv ==
    /\ response.body \in Json \cup {<<>>}
    /\ response.body # <<>> \/ exchange.kind = "request" => Given = <<>>
    /\ Shaped(Given)
    /\ server = "stream" => /\ response.body = <<>> /\ exchange.kind = "stream"
                            /\ \A i \in DOMAIN Given : Named(Given[i])

\* Where the caller is in the stream: how many bytes it has taken apart.
Position(q) ==
    LET k == Len(events) IN
    \/ k = Len(Given) /\ q = Size(Given) /\ frame = NoFrame
    \/ /\ k < Len(Given)
       /\ \/ q = 5 * k /\ frame = NoFrame
          \/ /\ q = 5 * k + 2
             /\ frame = IF Given[k + 1].event = "message" THEN Given[k + 1]
                        ELSE [event |-> Given[k + 1].event, data |-> <<>>]
          \/ q = 5 * k + 4 /\ frame = Given[k + 1] /\ Given[k + 1].event # "message"

AnswerInv ==
    /\ server \in {"up", "head", "body", "handle"} \/ (server = "down" /\ ~died) => Fresh
    /\ header = "open" =>
          /\ \/ Fresh /\ server \notin {"answer", "stream"}
             \/ \E text \in {"ok", "error"} : Pending = Message(text, Content)
          /\ exchange.kind = "stream" => Len(got) < 3
    /\ caller \in {"connect", "write"} => header = "open"
    /\ header # "past" => events = <<>> /\ frame = NoFrame /\ caller # "lines"
    /\ header # "open" =>
          /\ exchange.kind = "stream"
          /\ \E q \in 0..Size(Given) : Position(q) /\ Pending = From(Content, q)
    /\ IsPrefix(events, Given)
    /\ server = "closed" /\ ~ClientGone => unwritten = <<>>
    /\ caller = "read" /\ header = "past" => \A i \in DOMAIN got : got[i] # LineFeed

\* What a call returned.
ResultInv ==
    /\ result.is # "none" => caller = "back"
    /\ result.is \in {"ok", "error", "success"} /\ ~died => server = "closed"
    /\ result.is \in {"ok", "error"} /\ ~died => result.body = response.body
    /\ result.is = "success" /\ ~died /\ header # "read" => events = Given

ConnIInv == ConnTypeOK /\ RequestInv /\ GivenInv /\ AnswerInv /\ ResultInv

(***************************************************************************)
(* Calls: bytes                                                            *)
(***************************************************************************)

\* A sequence whose front moves behind another.
LEMMA Moves ==
  ASSUME NEW S, NEW t \in Seq(S), NEW n \in Nat, n <= Len(t)
  PROVE  /\ SubSeq(t, 1, n) \in Seq(S) /\ SubSeq(t, n + 1, Len(t)) \in Seq(S)
         /\ Len(SubSeq(t, 1, n)) = n /\ Len(SubSeq(t, n + 1, Len(t))) = Len(t) - n
         /\ Cat(SubSeq(t, 1, n), SubSeq(t, n + 1, Len(t))) = t
<1>1. Len(t) \in Nat /\ 1 \in Nat \ {0} /\ n + 1 \in Nat \ {0} /\ Len(t) <= Len(t)
  BY LenProperties
<1>2. SubSeq(t, 1, n) \in Seq(S) /\ Len(SubSeq(t, 1, n)) = IF 1 <= n THEN n - 1 + 1 ELSE 0
  BY <1>1, PartIs
<1>3. /\ SubSeq(t, n + 1, Len(t)) \in Seq(S)
      /\ Len(SubSeq(t, n + 1, Len(t))) = IF n + 1 <= Len(t) THEN Len(t) - (n + 1) + 1 ELSE 0
  BY <1>1, PartIs
<1>4. Len(SubSeq(t, 1, n)) = n /\ Len(SubSeq(t, n + 1, Len(t))) = Len(t) - n
  BY <1>1, <1>2, <1>3
<1>5. SubSeq(t, 1, n) \o SubSeq(t, n + 1, Len(t)) = t
  <2>1. 1 \in 1..(Len(t) + 1) /\ n \in (1 - 1)..Len(t) /\ Len(t) \in n..Len(t)
    BY <1>1
  <2>2. SubSeq(t, 1, n) \o SubSeq(t, n + 1, Len(t)) = SubSeq(t, 1, Len(t))
    BY <2>1, ConcatAdjacentSubSeq
  <2> QED BY <2>2, SubSeqFull
<1>6. Cat(SubSeq(t, 1, n), SubSeq(t, n + 1, Len(t))) = t
  BY <1>5 DEF Cat
<1> QED BY <1>2, <1>3, <1>4, <1>6

\* What is behind the first q of two sequences together.
LEMMA BehindJoined ==
  ASSUME NEW S, NEW s \in Seq(S), NEW t \in Seq(S), NEW q \in Nat, q <= Len(s)
  PROVE  SubSeq(s \o t, q + 1, Len(s \o t)) = SubSeq(s, q + 1, Len(s)) \o t
<1>1. /\ s \o t \in Seq(S) /\ Len(s) \in Nat /\ Len(t) \in Nat /\ Len(s \o t) = Len(s) + Len(t)
      /\ \A i \in 1..Len(s) : (s \o t)[i] = s[i]
      /\ \A i \in 1..Len(t) : (s \o t)[Len(s) + i] = t[i]
  BY JoinIs
<1> DEFINE a == SubSeq(s \o t, q + 1, Len(s \o t))
           b == SubSeq(s, q + 1, Len(s))
<1>2. q + 1 \in Nat \ {0} /\ Len(s) <= Len(s) /\ Len(s \o t) \in Nat /\ Len(s \o t) <= Len(s \o t)
  BY <1>1
<1>3. /\ a \in Seq(S) /\ Len(a) = IF q + 1 <= Len(s \o t) THEN Len(s \o t) - (q + 1) + 1 ELSE 0
      /\ \A i \in 1..(Len(s \o t) - (q + 1) + 1) : a[i] = (s \o t)[(q + 1) + i - 1]
  BY <1>1, <1>2, PartIs
<1>4. /\ b \in Seq(S) /\ Len(b) = IF q + 1 <= Len(s) THEN Len(s) - (q + 1) + 1 ELSE 0
      /\ \A i \in 1..(Len(s) - (q + 1) + 1) : b[i] = s[(q + 1) + i - 1]
  BY <1>1, <1>2, PartIs
<1> HIDE DEF a, b
<1>5. Len(a) = Len(s) + Len(t) - q /\ Len(b) = Len(s) - q
  BY <1>1, <1>3, <1>4
<1>6. /\ b \o t \in Seq(S) /\ Len(b \o t) = Len(b) + Len(t)
      /\ \A i \in 1..Len(b) : (b \o t)[i] = b[i]
      /\ \A i \in 1..Len(t) : (b \o t)[Len(b) + i] = t[i]
  <2>1. b \in Seq(S)
    BY <1>4
  <2> QED BY <2>1, JoinIs
<1>7. ASSUME NEW i \in 1..Len(a) PROVE a[i] = (b \o t)[i]
  <2>1. i \in 1..(Len(s \o t) - (q + 1) + 1) /\ (q + 1) + i - 1 = q + i
    BY <1>1, <1>5
  <2>2. a[i] = (s \o t)[q + i]
    BY <1>3, <2>1
  <2>3. CASE i <= Len(b)
    <3>1. /\ i \in 1..Len(b) /\ i \in 1..(Len(s) - (q + 1) + 1) /\ q + i \in 1..Len(s)
          /\ (q + 1) + i - 1 = q + i
      BY <1>1, <1>5, <2>3
    <3> QED BY <1>1, <1>4, <1>6, <2>2, <3>1
  <2>4. CASE i > Len(b)
    <3> DEFINE k == i - Len(b)
    <3>1. k \in 1..Len(t) /\ Len(b) + k = i /\ Len(s) + k = q + i
      BY <1>1, <1>5, <2>4
    <3> HIDE DEF k
    <3>2. (s \o t)[Len(s) + k] = t[k] /\ (b \o t)[Len(b) + k] = t[k]
      BY <1>1, <1>6, <3>1
    <3> QED BY <2>2, <3>1, <3>2
  <2> QED BY <1>5, <1>1, <2>3, <2>4
<1>8. Len(a) = Len(b \o t)
  BY <1>1, <1>5, <1>6
<1> QED BY <1>3, <1>6, <1>7, <1>8, SeqEqual DEF a, b

\* What is behind the first q is what is behind the next n of it.
LEMMA BehindMore ==
  ASSUME NEW S, NEW s \in Seq(S), NEW q \in Nat, NEW n \in Nat, q + n <= Len(s)
  PROVE  SubSeq(SubSeq(s, q + 1, Len(s)), n + 1, Len(s) - q) = SubSeq(s, (q + n) + 1, Len(s))
<1>1. Len(s) \in Nat
  BY LenProperties
<1> DEFINE r == SubSeq(s, q + 1, Len(s))
           a == SubSeq(r, n + 1, Len(s) - q)
           b == SubSeq(s, (q + n) + 1, Len(s))
<1>2. /\ r \in Seq(S) /\ Len(r) = IF q + 1 <= Len(s) THEN Len(s) - (q + 1) + 1 ELSE 0
      /\ \A i \in 1..(Len(s) - (q + 1) + 1) : r[i] = s[(q + 1) + i - 1]
  <2>1. q + 1 \in Nat \ {0} /\ Len(s) <= Len(s)
    BY <1>1
  <2> QED BY <1>1, <2>1, PartIs
<1>3. Len(r) = Len(s) - q /\ Len(s) - q \in Nat
  BY <1>1, <1>2
<1>4. /\ b \in Seq(S) /\ Len(b) = IF (q + n) + 1 <= Len(s) THEN Len(s) - ((q + n) + 1) + 1 ELSE 0
      /\ \A i \in 1..(Len(s) - ((q + n) + 1) + 1) : b[i] = s[((q + n) + 1) + i - 1]
  <2>1. (q + n) + 1 \in Nat \ {0} /\ Len(s) <= Len(s)
    BY <1>1
  <2> QED BY <1>1, <2>1, PartIs
<1> HIDE DEF r
<1>5. /\ a \in Seq(S) /\ Len(a) = IF n + 1 <= Len(s) - q THEN (Len(s) - q) - (n + 1) + 1 ELSE 0
      /\ \A i \in 1..((Len(s) - q) - (n + 1) + 1) : a[i] = r[(n + 1) + i - 1]
  <2>1. n + 1 \in Nat \ {0} /\ Len(s) - q <= Len(r)
    BY <1>3
  <2> QED BY <1>2, <1>3, <2>1, PartIs
<1> HIDE DEF a, b
<1>6. Len(a) = Len(s) - q - n /\ Len(b) = Len(s) - q - n
  BY <1>1, <1>4, <1>5
<1>7. ASSUME NEW i \in 1..Len(a) PROVE a[i] = b[i]
  <2>1. /\ i \in 1..((Len(s) - q) - (n + 1) + 1) /\ i \in 1..(Len(s) - ((q + n) + 1) + 1)
        /\ (n + 1) + i - 1 = n + i /\ ((q + n) + 1) + i - 1 = q + n + i
        /\ n + i \in 1..(Len(s) - (q + 1) + 1) /\ (q + 1) + (n + i) - 1 = q + n + i
    BY <1>1, <1>6
  <2>2. a[i] = r[n + i] /\ b[i] = s[q + n + i]
    BY <1>4, <1>5, <2>1
  <2>3. r[n + i] = s[q + n + i]
    BY <1>2, <2>1
  <2> QED BY <2>2, <2>3
<1> QED BY <1>4, <1>5, <1>6, <1>7, SeqEqual DEF a, b, r


LEMMA CatIs ==
  ASSUME NEW S, NEW a \in Seq(S), NEW b \in Seq(S)
  PROVE  Cat(a, b) \in Seq(S) /\ Len(Cat(a, b)) = Len(a) + Len(b)
BY JoinIs DEF Cat

LEMMA Regroup ==
  ASSUME NEW S, NEW a \in Seq(S), NEW b \in Seq(S), NEW c \in Seq(S)
  PROVE  Cat(Cat(a, b), c) = Cat(a, Cat(b, c))
<1>1. PICK x, y : x = (a \o b) \o c /\ y = a \o (b \o c)
  OBVIOUS
<1>2. x = y
  BY <1>1, ConcatAssociative
<1>3. x = Cat(Cat(a, b), c)
  BY <1>1 DEF Cat
<1>4. y = Cat(a, Cat(b, c))
  BY <1>1 DEF Cat
<1> QED BY <1>2, <1>3, <1>4

LEMMA JoinTypes ==
  ASSUME NEW S, NEW a \in Seq(S), NEW b \in Seq(S), NEW c \in Seq(S)
  PROVE  /\ JoinOf(a, b, c) \in Seq(S)
         /\ Len(JoinOf(a, b, c)) = Len(a) + Len(b) + Len(c)
<1>1. Cat(a, b) \in Seq(S) /\ Len(Cat(a, b)) = Len(a) + Len(b)
  BY CatIs
<1>2. Cat(Cat(a, b), c) \in Seq(S) /\ Len(Cat(Cat(a, b), c)) = Len(Cat(a, b)) + Len(c)
  BY <1>1, CatIs
<1> QED BY <1>1, <1>2 DEF JoinOf

\* Bytes are sent.
LEMMA Flows ==
  ASSUME NEW S, NEW a \in Seq(S), NEW b \in Seq(S), NEW c \in Seq(S), NEW n \in Nat, n <= Len(c)
  PROVE  /\ b \o SubSeq(c, 1, n) \in Seq(S) /\ Len(b \o SubSeq(c, 1, n)) = Len(b) + n
         /\ SubSeq(c, n + 1, Len(c)) \in Seq(S)
         /\ JoinOf(a, b \o SubSeq(c, 1, n), SubSeq(c, n + 1, Len(c))) = JoinOf(a, b, c)
<1>1. /\ SubSeq(c, 1, n) \in Seq(S) /\ SubSeq(c, n + 1, Len(c)) \in Seq(S)
      /\ Len(SubSeq(c, 1, n)) = n
      /\ Cat(SubSeq(c, 1, n), SubSeq(c, n + 1, Len(c))) = c
  BY Moves
<1>2. PICK f \in Seq(S), r \in Seq(S) :
         f = SubSeq(c, 1, n) /\ r = SubSeq(c, n + 1, Len(c)) /\ Len(f) = n /\ Cat(f, r) = c
  BY <1>1
<1>3. Cat(b, f) \in Seq(S) /\ Len(Cat(b, f)) = Len(b) + Len(f) /\ Cat(a, b) \in Seq(S)
  BY CatIs
<1>4. Cat(a, Cat(b, f)) = Cat(Cat(a, b), f)
  BY Regroup
<1>5. Cat(Cat(Cat(a, b), f), r) = Cat(Cat(a, b), Cat(f, r))
  BY <1>3, Regroup
<1>6. JoinOf(a, Cat(b, f), r) = JoinOf(a, b, c)
  BY <1>2, <1>4, <1>5 DEF JoinOf
<1>7. b \o f = Cat(b, f)
  BY DEF Cat
<1> QED BY <1>2, <1>3, <1>6, <1>7

\* Bytes are read.
LEMMA Arrives ==
  ASSUME NEW S, NEW a \in Seq(S), NEW b \in Seq(S), NEW c \in Seq(S), NEW n \in Nat, n <= Len(b)
  PROVE  /\ a \o SubSeq(b, 1, n) \in Seq(S) /\ Len(a \o SubSeq(b, 1, n)) = Len(a) + n
         /\ SubSeq(b, n + 1, Len(b)) \in Seq(S) /\ Len(SubSeq(b, n + 1, Len(b))) = Len(b) - n
         /\ JoinOf(a \o SubSeq(b, 1, n), SubSeq(b, n + 1, Len(b)), c) = JoinOf(a, b, c)
<1>1. /\ SubSeq(b, 1, n) \in Seq(S) /\ SubSeq(b, n + 1, Len(b)) \in Seq(S)
      /\ Len(SubSeq(b, 1, n)) = n /\ Len(SubSeq(b, n + 1, Len(b))) = Len(b) - n
      /\ Cat(SubSeq(b, 1, n), SubSeq(b, n + 1, Len(b))) = b
  BY Moves
<1>2. PICK f \in Seq(S), r \in Seq(S) :
         /\ f = SubSeq(b, 1, n) /\ r = SubSeq(b, n + 1, Len(b))
         /\ Len(f) = n /\ Len(r) = Len(b) - n /\ Cat(f, r) = b
  BY <1>1
<1>3. Cat(a, f) \in Seq(S) /\ Len(Cat(a, f)) = Len(a) + Len(f)
  BY CatIs
<1>4. Cat(Cat(a, f), r) = Cat(a, Cat(f, r))
  BY Regroup
<1>5. JoinOf(Cat(a, f), r, c) = JoinOf(a, b, c)
  BY <1>2, <1>4 DEF JoinOf
<1>6. a \o f = Cat(a, f)
  BY DEF Cat
<1> QED BY <1>2, <1>3, <1>5, <1>6

LEMMA FromCat ==
  ASSUME NEW S, NEW a \in Seq(S), NEW b \in Seq(S), NEW q \in Nat, q <= Len(a)
  PROVE  From(Cat(a, b), q) = Cat(From(a, q), b)
<1>1. SubSeq(a \o b, q + 1, Len(a \o b)) = SubSeq(a, q + 1, Len(a)) \o b
  BY BehindJoined
<1>2. PICK x, y : x = SubSeq(a \o b, q + 1, Len(a \o b)) /\ y = SubSeq(a, q + 1, Len(a)) \o b
  OBVIOUS
<1>3. x = y
  BY <1>1, <1>2
<1>4. x = From(Cat(a, b), q)
  BY <1>2 DEF From, Cat
<1>5. y = Cat(From(a, q), b)
  BY <1>2 DEF From, Cat
<1> QED BY <1>3, <1>4, <1>5

\* What is behind the first q is what is behind the next n of it.
LEMMA FromFrom ==
  ASSUME NEW S, NEW s \in Seq(S), NEW q \in Nat, NEW n \in Nat, q + n <= Len(s)
  PROVE  From(From(s, q), n) = From(s, q + n)
<1>1. Len(s) \in Nat /\ q <= Len(s)
  BY LenProperties
<1>2. PICK r \in Seq(S) : r = SubSeq(s, q + 1, Len(s)) /\ Len(r) = Len(s) - q
  <2>1. SubSeq(s, q + 1, Len(s)) \in Seq(S) /\ Len(SubSeq(s, q + 1, Len(s))) = Len(s) - q
    BY <1>1, Moves
  <2> QED BY <2>1
<1>3. SubSeq(SubSeq(s, q + 1, Len(s)), n + 1, Len(s) - q) = SubSeq(s, (q + n) + 1, Len(s))
  BY BehindMore
<1>4. PICK x, y : x = SubSeq(r, n + 1, Len(s) - q) /\ y = SubSeq(s, (q + n) + 1, Len(s))
  OBVIOUS
<1>5. x = y
  BY <1>2, <1>3, <1>4
<1>6. From(s, q) = r
  BY <1>2 DEF From
<1>7. x = From(r, n)
  BY <1>2, <1>4 DEF From
<1>8. y = From(s, q + n)
  BY <1>4 DEF From
<1> QED BY <1>5, <1>6, <1>7, <1>8

\* Bytes are taken off the front.
LEMMA Taken ==
  ASSUME NEW S, NEW a \in Seq(S), NEW b \in Seq(S), NEW c \in Seq(S), NEW q \in Nat, q <= Len(a)
  PROVE  /\ From(a, q) \in Seq(S) /\ Len(From(a, q)) = Len(a) - q
         /\ JoinOf(From(a, q), b, c) = From(JoinOf(a, b, c), q)
<1>0. From(a, q) \in Seq(S) /\ Len(From(a, q)) = Len(a) - q
  BY Moves DEF From
<1>1. PICK r \in Seq(S) : r = From(a, q) /\ Len(r) = Len(a) - q
  BY <1>0
<1>2. \A x, y \in Seq(S) : q <= Len(x) =>
         From(Cat(x, y), q) = Cat(From(x, q), y)
  BY FromCat
<1>3. Cat(a, b) \in Seq(S) /\ q <= Len(Cat(a, b))
  <2>1. Cat(a, b) \in Seq(S) /\ Len(Cat(a, b)) = Len(a) + Len(b)
    BY CatIs
  <2> QED BY <2>1, LenProperties
<1>4. From(Cat(a, b), q) = Cat(r, b)
  BY <1>1, <1>2
<1>5. From(Cat(Cat(a, b), c), q) = Cat(From(Cat(a, b), q), c)
  BY <1>2, <1>3
<1>6. JoinOf(r, b, c) = From(JoinOf(a, b, c), q)
  BY <1>4, <1>5 DEF JoinOf
<1> QED BY <1>1, <1>6

\* Nothing is on its way, or nothing is left to send.
LEMMA JoinEnds ==
  ASSUME NEW S, NEW a \in Seq(S), NEW b \in Seq(S), NEW c \in Seq(S)
  PROVE  /\ JoinOf(<<>>, <<>>, c) = c /\ JoinOf(a, <<>>, <<>>) = a
         /\ JoinOf(a, b, <<>>) = Cat(a, b)
         /\ JoinOf(a, b, c) = Cat(JoinOf(a, b, <<>>), c)
<1>1. << >> \in Seq(S)
  OBVIOUS
<1>2. Cat(<<>>, <<>>) = << >> /\ Cat(<<>>, c) = c /\ Cat(a, <<>>) = a
  BY <1>1, ConcatEmptySeq DEF Cat
<1>3. PICK s \in Seq(S) : s = Cat(a, b)
  BY CatIs
<1>4. Cat(s, <<>>) = s
  BY <1>1, ConcatEmptySeq DEF Cat
<1> QED BY <1>2, <1>3, <1>4 DEF JoinOf

LEMMA PiecesAre ==
  /\ <<"crlf">> \in Piece /\ LineFeed \in Piece /\ <<"request">> \in Piece
  /\ \A text \in {"ok", "error"} : <<text>> \in Piece /\ <<"json", text>> \in Piece
  /\ <<"json end">> \in Piece
  /\ \A n \in Bodies : \A i \in 1..n : <<"byte", ToString(i)>> \in Piece
  /\ \A name \in {"token", "done"} : <<"event", name>> \in Piece
  /\ \A value \in Payload : <<"data", value>> \in Piece
  /\ LineFeed[1] = "nl" /\ <<"crlf">>[1] = "crlf" /\ <<"request">>[1] = "request"
  /\ \A text : <<text>>[1] = text
  /\ \A a, b : <<a, b>>[1] = a /\ <<a, b>>[2] = b
BY DEF Piece, LineFeed

LEMMA BlankIs ==
  Blank \in Seq(Piece) /\ Len(Blank) = 2 /\ Blank[1] = <<"crlf">> /\ Blank[2] = <<"crlf">>
<1>1. <<"crlf">> \in Piece
  BY PiecesAre
<1> QED BY <1>1, TwoAre DEF Blank

\* A line and the blank one.
LEMMA HeadLineIs ==
  ASSUME NEW a \in Piece, NEW rest \in Seq(Piece)
  PROVE  /\ <<a>> \o Blank \in Seq(Piece) /\ Len(<<a>> \o Blank) = 3
         /\ (<<a>> \o Blank) \o rest \in Seq(Piece) /\ Len((<<a>> \o Blank) \o rest) = Len(rest) + 3
         /\ ((<<a>> \o Blank) \o rest)[1] = a
         /\ ((<<a>> \o Blank) \o rest)[2] = <<"crlf">>
         /\ ((<<a>> \o Blank) \o rest)[3] = <<"crlf">>
         /\ SubSeq((<<a>> \o Blank) \o rest, 4, Len(rest) + 3) = rest
<1> DEFINE h == <<a>> \o Blank
<1>1. <<a>> \in Seq(Piece) /\ Len(<<a>>) = 1 /\ <<a>>[1] = a
  BY OneIs
<1>2. /\ h \in Seq(Piece) /\ Len(h) = 1 + 2
      /\ \A i \in 1..1 : h[i] = <<a>>[i]
      /\ \A i \in 1..2 : h[1 + i] = Blank[i]
  <2>1. Blank \in Seq(Piece) /\ Len(Blank) = 2
    BY BlankIs
  <2>2. PICK x \in Seq(Piece) : x = <<a>>
    BY <1>1
  <2>3. /\ x \o Blank \in Seq(Piece) /\ Len(x \o Blank) = Len(x) + Len(Blank)
        /\ \A i \in 1..Len(x) : (x \o Blank)[i] = x[i]
        /\ \A i \in 1..Len(Blank) : (x \o Blank)[Len(x) + i] = Blank[i]
    BY <2>1, JoinIs
  <2> QED BY <1>1, <2>1, <2>2, <2>3
<1>3. h[1] = a /\ h[1 + 1] = <<"crlf">> /\ h[1 + 2] = <<"crlf">>
  BY <1>1, <1>2, BlankIs
<1> HIDE DEF h
<1>4. Len(h) = 3 /\ h[1] = a /\ h[2] = <<"crlf">> /\ h[3] = <<"crlf">>
  BY <1>2, <1>3
<1>5. /\ h \o rest \in Seq(Piece) /\ Len(rest) \in Nat /\ Len(h \o rest) = Len(h) + Len(rest)
      /\ \A i \in 1..Len(h) : (h \o rest)[i] = h[i]
  BY <1>2, JoinIs
<1>6. (h \o rest)[1] = a /\ (h \o rest)[2] = <<"crlf">> /\ (h \o rest)[3] = <<"crlf">>
  BY <1>4, <1>5
<1>7. Len(h \o rest) = Len(rest) + 3
  BY <1>4, <1>5
<1>8. SubSeq(h \o rest, 3 + 1, Len(h \o rest)) = SubSeq(h, 3 + 1, Len(h)) \o rest
  <2>1. h \in Seq(Piece) /\ 3 \in Nat /\ 3 <= Len(h)
    BY <1>2, <1>4
  <2> QED BY <2>1, BehindJoined
<1>9. SubSeq(h, 3 + 1, Len(h)) = << >>
  BY <1>4, SubSeqEmpty
<1>10. << >> \o rest = rest
  BY ConcatEmptySeq
<1> QED BY <1>2, <1>4, <1>5, <1>6, <1>7, <1>8, <1>9, <1>10 DEF h

\* The beginning of such a message.
Headed(bytes) ==
    /\ Len(bytes) >= 1 => bytes[1] # <<"crlf">>
    /\ Len(bytes) >= 2 => bytes[2] = <<"crlf">>
    /\ Len(bytes) >= 3 => bytes[3] = <<"crlf">>

LEMMA HeaderIs ==
  ASSUME NEW bytes \in Seq(Piece), Headed(bytes)
  PROVE  HeaderEnd(bytes) = IF Len(bytes) < 3 THEN 0 ELSE 3
<1> DEFINE ends == {i \in 2..Len(bytes) : SubSeq(bytes, i - 1, i) = Blank}
<1>1. Len(bytes) \in Nat
  BY LenProperties
<1>2. ASSUME NEW i \in 2..Len(bytes)
      PROVE  /\ SubSeq(bytes, i - 1, i) \in Seq(Piece) /\ Len(SubSeq(bytes, i - 1, i)) = 2
             /\ SubSeq(bytes, i - 1, i)[1] = bytes[i - 1] /\ SubSeq(bytes, i - 1, i)[2] = bytes[i]
  <2>1. i - 1 \in Nat \ {0} /\ i \in Nat /\ i <= Len(bytes) /\ i - 1 <= i
    BY <1>1
  <2>2. /\ SubSeq(bytes, i - 1, i) \in Seq(Piece)
        /\ Len(SubSeq(bytes, i - 1, i)) = IF i - 1 <= i THEN i - (i - 1) + 1 ELSE 0
        /\ \A j \in 1..(i - (i - 1) + 1) : SubSeq(bytes, i - 1, i)[j] = bytes[(i - 1) + j - 1]
    BY <2>1, PartIs
  <2>3. i - (i - 1) + 1 = 2 /\ 1 \in 1..2 /\ 2 \in 1..2 /\ (i - 1) + 1 - 1 = i - 1 /\ (i - 1) + 2 - 1 = i
    BY <2>1
  <2> QED BY <2>1, <2>2, <2>3
<1>3. ASSUME NEW i \in ends PROVE i \in Nat /\ i >= 3
  <2>1. i \in 2..Len(bytes) /\ SubSeq(bytes, i - 1, i) = Blank
    OBVIOUS
  <2>2. bytes[i - 1] = <<"crlf">>
    BY <1>2, <2>1, BlankIs
  <2>3. i # 2
    BY <1>1, <2>1, <2>2 DEF Headed
  <2> QED BY <1>1, <2>1, <2>3
<1>4. CASE Len(bytes) < 3
  <2>1. ends = {}
    <3>1. \A i \in ends : i \in 2..Len(bytes) /\ i >= 3
      BY <1>3
    <3> HIDE DEF ends
    <3> QED BY <1>1, <1>4, <3>1
  <2> QED BY <1>4, <2>1 DEF HeaderEnd
<1>5. CASE ~(Len(bytes) < 3)
  <2>1. Len(bytes) >= 3 /\ 3 \in 2..Len(bytes) /\ 3 - 1 = 2
    BY <1>1, <1>5
  <2>2. bytes[2] = <<"crlf">> /\ bytes[3] = <<"crlf">>
    BY <1>1, <2>1 DEF Headed
  <2>3. /\ SubSeq(bytes, 3 - 1, 3) \in Seq(Piece) /\ Len(SubSeq(bytes, 3 - 1, 3)) = 2
        /\ SubSeq(bytes, 3 - 1, 3)[1] = bytes[3 - 1] /\ SubSeq(bytes, 3 - 1, 3)[2] = bytes[3]
    BY <1>2, <2>1
  <2>4. \A i \in 1..2 : SubSeq(bytes, 3 - 1, 3)[i] = Blank[i]
    <3>1. \A i \in 1..2 : i = 1 \/ i = 2
      OBVIOUS
    <3> QED BY <2>1, <2>2, <2>3, <3>1, BlankIs
  <2>5. SubSeq(bytes, 3 - 1, 3) = Blank
    BY <2>3, <2>4, BlankIs, SeqEqual
  <2>6. 3 \in ends
    BY <2>1, <2>5
  <2>7. HeaderEnd(bytes) = Min(ends)
    BY <2>6 DEF HeaderEnd
  <2> HIDE DEF ends
  <2>8. \A x \in ends : 3 <= x
    BY <1>3
  <2>9. Min(ends) = 3
    <3>1. \A x \in ends : (\A y \in ends : x <= y) => x = 3
      BY <1>3, <2>6, <2>8
    <3> QED BY <2>6, <2>8, <3>1 DEF Min
  <2> QED BY <1>5, <2>7, <2>9
<1> QED BY <1>4, <1>5

LEMMA HeadedIs ==
  ASSUME NEW a \in Piece, a # <<"crlf">>, NEW s \in Seq(Piece), NEW t \in Seq(Piece),
         NEW m, m = Cat(s, t), m[1] = a, m[2] = <<"crlf">>, m[3] = <<"crlf">>
  PROVE  /\ Len(s) >= 1 => s[1] = a
         /\ HeaderEnd(s) = IF Len(s) < 3 THEN 0 ELSE 3
<1>1. /\ Len(s) \in Nat /\ Len(t) \in Nat /\ \A i \in 1..Len(s) : m[i] = s[i]
  BY JoinIs DEF Cat
<1>2. /\ Len(s) >= 1 => s[1] = a
      /\ Len(s) >= 2 => s[2] = <<"crlf">>
      /\ Len(s) >= 3 => s[3] = <<"crlf">>
  BY <1>1
<1>3. Headed(s)
  BY <1>2 DEF Headed
<1> QED BY <1>2, <1>3, HeaderIs

(***************************************************************************)
(* Calls: the bytes of a stream                                            *)
(***************************************************************************)

LEMMA LessOrEqual == \A m, n \in Int : m <= n /\ m # n => m < n
OBVIOUS

LEMMA ByFive ==
  /\ \A k \in Nat, o \in 0..4 : (5 * k + o) \div 5 = k /\ (5 * k + o) % 5 = o
  /\ \A p \in Nat : p \div 5 \in Nat /\ p % 5 \in 0..4 /\ p = 5 * (p \div 5) + (p % 5)
<1>1. ASSUME NEW k \in Nat, NEW o \in 0..4 PROVE (5 * k + o) \div 5 = k /\ (5 * k + o) % 5 = o
  OBVIOUS
<1>2. ASSUME NEW p \in Nat PROVE p \div 5 \in Nat /\ p % 5 \in 0..4 /\ p = 5 * (p \div 5) + (p % 5)
  OBVIOUS
<1> QED BY <1>1, <1>2

LEMMA EndMarkIs ==
  /\ EndMarkFrame \in CallFrame /\ EndMarkFrame.event = "message" /\ EndMarkFrame.data[1] = "[DONE]"
  /\ ~Named(EndMarkFrame) /\ EndMarkFrame.data = <<"[DONE]">>
  /\ NoFrame \in CallFrame /\ NoFrame.event = "message" /\ NoFrame.data = <<>> /\ "[DONE]" \in Payload
<1>1. "[DONE]" \in Payload
  BY DEF Payload
<1>2. <<"[DONE]">> \in Seq(Payload) /\ << >> \in Seq(Payload) /\ <<"[DONE]">>[1] = "[DONE]"
  BY <1>1, OneIs
<1> QED BY <1>1, <1>2 DEF EndMarkFrame, NoFrame, CallFrame, Named

LEMMA ThreeAre ==
  ASSUME NEW S, NEW a \in S, NEW b \in S, NEW c \in S
  PROVE  /\ <<a, b, c>> \in Seq(S) /\ Len(<<a, b, c>>) = 3
         /\ <<a, b, c>>[1] = a /\ <<a, b, c>>[2] = b /\ <<a, b, c>>[3] = c
<1>1. <<a, b, c>> \in Seq(S)
  OBVIOUS
<1>2. Len(<<a, b, c>>) = 3
  OBVIOUS
<1>3. <<a, b, c>>[1] = a /\ <<a, b, c>>[2] = b /\ <<a, b, c>>[3] = c
  OBVIOUS
<1> QED BY <1>1, <1>2, <1>3

\* The bytes of one frame.
Width(f) == IF f.event = "message" THEN 3 ELSE 5

LEMMA WireIs ==
  ASSUME NEW f, Named(f) \/ f = EndMarkFrame
  PROVE  /\ Wire(f) \in Seq(Piece) /\ Len(Wire(f)) = Width(f)
         /\ \A o \in 0..(Width(f) - 1) : AtomOf(f, o) \in Piece /\ Wire(f)[o + 1] = AtomOf(f, o)
<1> DEFINE d == <<"data", f.data[1]>>
           e == <<"event", f.event>>
<1>1. f.data[1] \in Payload
  BY EndMarkIs DEF Named
<1>2. d \in Piece /\ LineFeed \in Piece
  BY <1>1, PiecesAre
<1>3. /\ <<d, LineFeed, LineFeed>> \in Seq(Piece) /\ Len(<<d, LineFeed, LineFeed>>) = 3
      /\ <<d, LineFeed, LineFeed>>[1] = d /\ <<d, LineFeed, LineFeed>>[2] = LineFeed
      /\ <<d, LineFeed, LineFeed>>[3] = LineFeed
  <2> HIDE DEF d
  <2> QED BY <1>2, ThreeAre
<1>4. CASE f = EndMarkFrame
  <2>1. f.event = "message" /\ Width(f) = 3
    BY <1>4, EndMarkIs DEF Width
  <2>2. << >> \o <<d, LineFeed, LineFeed>> = <<d, LineFeed, LineFeed>>
    BY <1>3, ConcatEmptySeq
  <2>3. Wire(f) = <<d, LineFeed, LineFeed>>
    BY <2>1, <2>2 DEF Wire
  <2>4. AtomOf(f, 0) = d /\ AtomOf(f, 1) = LineFeed /\ AtomOf(f, 2) = LineFeed
    BY <2>1 DEF AtomOf
  <2>5. \A o \in 0..(Width(f) - 1) : o = 0 \/ o = 1 \/ o = 2
    BY <2>1
  <2> HIDE DEF d
  <2>6. Wire(f)[0 + 1] = d /\ Wire(f)[1 + 1] = LineFeed /\ Wire(f)[2 + 1] = LineFeed
    BY <1>3, <2>3
  <2> QED BY <1>2, <1>3, <2>1, <2>3, <2>4, <2>5, <2>6
<1>5. CASE Named(f)
  <2>1. f.event # "message" /\ Width(f) = 5 /\ f.event \in {"token", "done"}
    BY <1>5 DEF Width, Named
  <2>2. e \in Piece
    BY <2>1, PiecesAre
  <2>3. /\ <<e, LineFeed>> \in Seq(Piece) /\ Len(<<e, LineFeed>>) = 2
        /\ <<e, LineFeed>>[1] = e /\ <<e, LineFeed>>[2] = LineFeed
    <3> HIDE DEF e
    <3> QED BY <1>2, <2>2, TwoAre
  <2>4. Wire(f) = <<e, LineFeed>> \o <<d, LineFeed, LineFeed>>
    BY <2>1 DEF Wire
  <2>5. AtomOf(f, 0) = e /\ AtomOf(f, 1) = LineFeed /\ AtomOf(f, 2) = d
        /\ AtomOf(f, 3) = LineFeed /\ AtomOf(f, 4) = LineFeed
    BY <2>1 DEF AtomOf
  <2>6. \A o \in 0..(Width(f) - 1) : o = 0 \/ o = 1 \/ o = 2 \/ o = 3 \/ o = 4
    BY <2>1
  <2> HIDE DEF d, e
  <2>7. PICK x \in Seq(Piece), y \in Seq(Piece) : x = <<e, LineFeed>> /\ y = <<d, LineFeed, LineFeed>>
    BY <1>3, <2>3
  <2>8. /\ x \o y \in Seq(Piece) /\ Len(x \o y) = Len(x) + Len(y)
        /\ \A i \in 1..Len(x) : (x \o y)[i] = x[i]
        /\ \A i \in 1..Len(y) : (x \o y)[Len(x) + i] = y[i]
    BY JoinIs
  <2>9. Len(x) = 2 /\ Len(y) = 3 /\ x[1] = e /\ x[2] = LineFeed /\ y[1] = d /\ y[2] = LineFeed /\ y[3] = LineFeed
    BY <1>3, <2>3, <2>7
  <2>10. /\ (x \o y)[1] = e /\ (x \o y)[2] = LineFeed /\ (x \o y)[2 + 1] = d
         /\ (x \o y)[2 + 2] = LineFeed /\ (x \o y)[2 + 3] = LineFeed /\ Len(x \o y) = 5
    BY <2>8, <2>9
  <2>11. /\ Wire(f) \in Seq(Piece) /\ Len(Wire(f)) = 5
         /\ Wire(f)[0 + 1] = e /\ Wire(f)[1 + 1] = LineFeed /\ Wire(f)[2 + 1] = d
         /\ Wire(f)[3 + 1] = LineFeed /\ Wire(f)[4 + 1] = LineFeed
    BY <2>4, <2>7, <2>8, <2>10
  <2> QED BY <1>2, <2>1, <2>2, <2>5, <2>6, <2>11
<1> QED BY <1>4, <1>5

\* Where a byte stands.
LEMMA SizeIs ==
  ASSUME NEW frames \in Seq(CallFrame), Shaped(frames)
  PROVE  /\ Len(frames) \in Nat /\ Size(frames) \in Nat
         /\ \A i \in 1..Len(frames) : \A o \in 0..(Width(frames[i]) - 1) :
               5 * (i - 1) + o + 1 \in 1..Size(frames)
         /\ \A i \in 1..Len(frames) : i < Len(frames) => Named(frames[i]) /\ Width(frames[i]) = 5
         /\ \A p \in 1..Size(frames) :
               /\ ((p - 1) \div 5) + 1 \in 1..Len(frames)
               /\ (p - 1) % 5 \in 0..(Width(frames[((p - 1) \div 5) + 1]) - 1)
               /\ p = 5 * ((p - 1) \div 5) + ((p - 1) % 5) + 1
         /\ Len(frames) > 0 => Size(frames) = 5 * (Len(frames) - 1) + Width(frames[Len(frames)])
         /\ Len(frames) = 0 => Size(frames) = 0
<1>1. Len(frames) \in Nat /\ DOMAIN frames = 1..Len(frames)
  BY LenProperties
<1>2. \A i \in 1..Len(frames) : /\ Width(frames[i]) \in {3, 5}
                                /\ Named(frames[i]) => Width(frames[i]) = 5 /\ frames[i].event # "message"
                                /\ i < Len(frames) => Named(frames[i])
  BY <1>1, EndMarkIs DEF Shaped, Width, Named
<1>3. Len(frames) = 0 => Size(frames) = 0
  BY DEF Size
<1>4. Len(frames) > 0 => Size(frames) = 5 * (Len(frames) - 1) + Width(frames[Len(frames)])
  BY <1>1 DEF Size, Width
<1>5. Size(frames) \in Nat
  BY <1>1 DEF Size
<1>6. ASSUME NEW i \in 1..Len(frames), NEW o \in 0..(Width(frames[i]) - 1)
      PROVE  5 * (i - 1) + o + 1 \in 1..Size(frames)
  <2>1. Width(frames[i]) = 3 \/ Width(frames[i]) = 5
    BY <1>2
  <2>0. i \in Nat /\ i >= 1 /\ o \in Nat /\ o <= Width(frames[i]) - 1 /\ i <= Len(frames)
    BY <1>1, <2>1
  <2>2. CASE i = Len(frames)
    <3>1. Len(frames) > 0
      BY <1>1, <2>0
    <3>2. Size(frames) = 5 * (i - 1) + Width(frames[i])
      BY <1>4, <2>2, <3>1
    <3> QED BY <1>5, <2>0, <2>1, <3>2
  <2>3. CASE i # Len(frames)
    <3>0. i < Len(frames)
      <4>1. i \in Int /\ Len(frames) \in Int
        BY <1>1, <2>0
      <4> QED BY <2>0, <2>3, <4>1, LessOrEqual
    <3>1. Len(frames) \in 1..Len(frames) /\ Len(frames) > 0 /\ i < Len(frames)
      BY <1>1, <2>0, <3>0
    <3>2. Width(frames[Len(frames)]) = 3 \/ Width(frames[Len(frames)]) = 5
      BY <1>2, <3>1
    <3>3. o <= 4
      BY <2>0, <2>1
    <3>4. Size(frames) >= 5 * (Len(frames) - 1) + 3
      BY <1>1, <1>4, <3>1, <3>2
    <3>5. 5 * (i - 1) + o + 1 <= 5 * (Len(frames) - 1)
      BY <1>1, <2>0, <3>1, <3>3
    <3>6. 5 * (i - 1) + o + 1 \in Nat /\ 5 * (i - 1) + o + 1 >= 1
      BY <2>0
    <3> QED BY <1>1, <1>5, <3>4, <3>5, <3>6
  <2> QED BY <2>2, <2>3
<1>7. ASSUME NEW p \in 1..Size(frames)
      PROVE  /\ ((p - 1) \div 5) + 1 \in 1..Len(frames)
             /\ (p - 1) % 5 \in 0..(Width(frames[((p - 1) \div 5) + 1]) - 1)
             /\ p = 5 * ((p - 1) \div 5) + ((p - 1) % 5) + 1
  <2>1. p - 1 \in Nat /\ p - 1 < Size(frames) /\ Len(frames) > 0
    BY <1>1, <1>3, <1>5
  <2> DEFINE k == (p - 1) \div 5
             o == (p - 1) % 5
  <2>2. k \in Nat /\ o \in 0..4 /\ p - 1 = 5 * k + o
    BY <2>1, ByFive
  <2>3. Len(frames) \in 1..Len(frames)
    BY <1>1, <2>1
  <2>4. Width(frames[Len(frames)]) = 3 \/ Width(frames[Len(frames)]) = 5
    BY <1>2, <2>3
  <2> HIDE DEF k, o
  <2>5. k + 1 <= Len(frames)
    BY <1>1, <1>4, <2>1, <2>2, <2>4
  <2>6. k + 1 \in 1..Len(frames)
    BY <1>1, <2>2, <2>5
  <2>7. o <= Width(frames[k + 1]) - 1
    <3>1. CASE k + 1 = Len(frames)
      <4>1. Size(frames) = 5 * k + Width(frames[k + 1])
        <5>1. Len(frames) - 1 = k
          BY <2>2, <3>1
        <5> QED BY <1>4, <2>1, <3>1, <5>1
      <4>2. Width(frames[k + 1]) \in Nat
        BY <2>4, <3>1
      <4> QED BY <2>1, <2>2, <4>1, <4>2
    <3>2. CASE k + 1 # Len(frames)
      <4>1. Width(frames[k + 1]) = 5
        <5>1. k + 1 < Len(frames)
          <6>1. k + 1 \in Int /\ Len(frames) \in Int
            BY <1>1, <2>2
          <6> QED BY <2>5, <3>2, <6>1, LessOrEqual
        <5> QED BY <1>2, <2>6, <5>1
      <4> QED BY <2>2, <4>1
    <3> QED BY <3>1, <3>2
  <2>8. Width(frames[k + 1]) = 3 \/ Width(frames[k + 1]) = 5
    BY <1>2, <2>6
  <2>9. o \in 0..(Width(frames[k + 1]) - 1)
    BY <2>2, <2>7, <2>8
  <2>10. p = 5 * k + o + 1
    BY <2>1, <2>2
  <2> QED BY <2>6, <2>9, <2>10 DEF k, o
<1> QED BY <1>1, <1>2, <1>3, <1>4, <1>5, <1>6, <1>7

LEMMA BytesAre ==
  ASSUME NEW frames \in Seq(CallFrame), Shaped(frames)
  PROVE  /\ Bytes(frames) \in Seq(Piece) /\ Len(Bytes(frames)) = Size(frames)
         /\ \A i \in 1..Len(frames) : \A o \in 0..(Width(frames[i]) - 1) :
               Bytes(frames)[5 * (i - 1) + o + 1] = AtomOf(frames[i], o)
<1>1. Size(frames) \in Nat
  BY SizeIs
<1>2. ASSUME NEW p \in 1..Size(frames)
      PROVE  AtomOf(frames[((p - 1) \div 5) + 1], (p - 1) % 5) \in Piece
  <2> DEFINE i == ((p - 1) \div 5) + 1
             o == (p - 1) % 5
  <2>1. i \in 1..Len(frames) /\ o \in 0..(Width(frames[i]) - 1)
    BY SizeIs
  <2>2. Named(frames[i]) \/ frames[i] = EndMarkFrame
    BY <2>1, LenProperties DEF Shaped
  <2> HIDE DEF i, o
  <2>3. AtomOf(frames[i], o) \in Piece
    BY <2>1, <2>2, WireIs
  <2> QED BY <2>3 DEF i, o
<1>3. Bytes(frames) \in [1..Size(frames) -> Piece]
  BY <1>2 DEF Bytes
<1>4. Bytes(frames) \in Seq(Piece) /\ Len(Bytes(frames)) = Size(frames)
  <2>1. Bytes(frames) \in Seq(Piece)
    BY <1>1, <1>3
  <2> QED BY <1>1, <1>3, <2>1, LenProperties
<1>5. ASSUME NEW i \in 1..Len(frames), NEW o \in 0..(Width(frames[i]) - 1)
      PROVE  Bytes(frames)[5 * (i - 1) + o + 1] = AtomOf(frames[i], o)
  <2>1. 5 * (i - 1) + o + 1 \in 1..Size(frames) /\ i \in Nat /\ i >= 1
    BY SizeIs
  <2>2. o \in 0..4
    BY DEF Width
  <2>3. 5 * (i - 1) + o + 1 - 1 = 5 * (i - 1) + o /\ i - 1 \in Nat
    BY <2>1, <2>2
  <2>4. (5 * (i - 1) + o) \div 5 = i - 1 /\ (5 * (i - 1) + o) % 5 = o
    BY <2>2, <2>3, ByFive
  <2>5. i - 1 + 1 = i
    BY <2>1
  <2> DEFINE p == 5 * (i - 1) + o + 1
  <2>6. p - 1 = 5 * (i - 1) + o /\ p \in 1..Size(frames)
    BY <2>1, <2>3
  <2> HIDE DEF p
  <2>7. Bytes(frames)[p] = AtomOf(frames[((p - 1) \div 5) + 1], (p - 1) % 5)
    BY <2>6 DEF Bytes
  <2> QED BY <2>4, <2>5, <2>6, <2>7 DEF p
<1> QED BY <1>4, <1>5

\* One more frame behind named ones.
LEMMA BytesGrow ==
  ASSUME NEW F \in Seq(CallFrame), \A i \in DOMAIN F : Named(F[i]),
         NEW f \in CallFrame, Named(f) \/ f = EndMarkFrame
  PROVE  /\ Shaped(F) /\ Shaped(Append(F, f)) /\ Append(F, f) \in Seq(CallFrame)
         /\ Bytes(Append(F, f)) = Bytes(F) \o Wire(f)
         /\ Size(F) = 5 * Len(F)
<1> DEFINE G == Append(F, f)
           n == Len(F)
<1>1. /\ G \in Seq(CallFrame) /\ n \in Nat /\ Len(G) = n + 1
      /\ DOMAIN G = 1..(n + 1) /\ DOMAIN F = 1..n
      /\ \A i \in 1..n : G[i] = F[i]
      /\ G[n + 1] = f
  BY LongerIs
<1> HIDE DEF G
<1>2. Shaped(F)
  BY DEF Shaped
<1>3. Shaped(G)
  <2>1. \A i \in 1..(n + 1) : i \in 1..n \/ i = n + 1
    BY <1>1
  <2> QED BY <1>1, <2>1 DEF Shaped
<1>4. \A i \in 1..n : Width(F[i]) = 5
  BY <1>1 DEF Named, Width
<1>5. Size(F) = 5 * n
  <2>1. Len(F) > 0 => F[Len(F)].event # "message"
    BY <1>1 DEF Named
  <2> QED BY <2>1 DEF Size
<1>6. Width(f) = 3 \/ Width(f) = 5
  BY DEF Width
<1>7. Size(G) = 5 * n + Width(f)
  <2>1. Len(G) > 0 /\ Len(G) - 1 = n
    BY <1>1
  <2>2. Size(G) = 5 * (Len(G) - 1) + Width(G[Len(G)])
    BY <1>1, <1>3, <2>1, SizeIs
  <2> QED BY <1>1, <2>1, <2>2
<1>8. /\ Bytes(F) \in Seq(Piece) /\ Len(Bytes(F)) = 5 * n
      /\ \A i \in 1..Len(F) : \A o \in 0..(Width(F[i]) - 1) :
            Bytes(F)[5 * (i - 1) + o + 1] = AtomOf(F[i], o)
  BY <1>2, <1>5, BytesAre
<1>9. /\ Bytes(G) \in Seq(Piece) /\ Len(Bytes(G)) = 5 * n + Width(f)
      /\ \A i \in 1..Len(G) : \A o \in 0..(Width(G[i]) - 1) :
            Bytes(G)[5 * (i - 1) + o + 1] = AtomOf(G[i], o)
  BY <1>1, <1>3, <1>7, BytesAre
<1>10. /\ Wire(f) \in Seq(Piece) /\ Len(Wire(f)) = Width(f)
       /\ \A o \in 0..(Width(f) - 1) : Wire(f)[o + 1] = AtomOf(f, o)
  BY WireIs
<1>11. /\ Bytes(F) \o Wire(f) \in Seq(Piece) /\ Len(Bytes(F) \o Wire(f)) = 5 * n + Width(f)
       /\ \A p \in 1..(5 * n) : (Bytes(F) \o Wire(f))[p] = Bytes(F)[p]
       /\ \A p \in 1..Width(f) : (Bytes(F) \o Wire(f))[5 * n + p] = Wire(f)[p]
  <2>1. PICK x \in Seq(Piece), y \in Seq(Piece) : x = Bytes(F) /\ y = Wire(f)
    BY <1>8, <1>10
  <2>2. /\ x \o y \in Seq(Piece) /\ Len(x \o y) = Len(x) + Len(y)
        /\ \A i \in 1..Len(x) : (x \o y)[i] = x[i]
        /\ \A i \in 1..Len(y) : (x \o y)[Len(x) + i] = y[i]
    BY JoinIs
  <2>3. Len(x) = 5 * n /\ Len(y) = Width(f)
    BY <1>8, <1>10, <2>1
  <2> QED BY <2>1, <2>2, <2>3
<1>12. ASSUME NEW p \in 1..(5 * n + Width(f)) PROVE Bytes(G)[p] = (Bytes(F) \o Wire(f))[p]
  <2>0. p \in Nat /\ p >= 1 /\ p <= 5 * n + Width(f) /\ p - 1 \in Nat
    BY <1>1, <1>6
  <2>1. CASE p <= 5 * n
    <3> DEFINE k == (p - 1) \div 5
               o == (p - 1) % 5
    <3>1. k \in Nat /\ o \in 0..4 /\ p - 1 = 5 * k + o
      BY <2>0, ByFive
    <3> HIDE DEF k, o
    <3>2. k + 1 \in 1..n /\ k + 1 \in 1..(n + 1) /\ (k + 1) - 1 = k
      BY <1>1, <2>0, <2>1, <3>1
    <3>3. G[k + 1] = F[k + 1] /\ Width(F[k + 1]) = 5
      BY <1>1, <1>4, <3>2
    <3>4. o \in 0..(Width(F[k + 1]) - 1)
      BY <3>1, <3>3
    <3>5. 5 * ((k + 1) - 1) + o + 1 = p
      BY <2>0, <3>1, <3>2
    <3>6. Bytes(F)[5 * ((k + 1) - 1) + o + 1] = AtomOf(F[k + 1], o)
      BY <1>8, <3>2, <3>4
    <3>7. Bytes(G)[5 * ((k + 1) - 1) + o + 1] = AtomOf(G[k + 1], o)
      BY <1>1, <1>9, <3>2, <3>3, <3>4
    <3>8. p \in 1..(5 * n)
      BY <1>1, <2>0, <2>1
    <3> QED BY <1>11, <3>3, <3>5, <3>6, <3>7, <3>8
  <2>2. CASE ~(p <= 5 * n)
    <3> DEFINE o == p - (5 * n) - 1
    <3>1. o \in 0..(Width(f) - 1) /\ o + 1 \in 1..Width(f) /\ 5 * n + (o + 1) = p
      BY <1>1, <1>6, <2>0, <2>2
    <3> HIDE DEF o
    <3>2. n + 1 \in 1..(n + 1) /\ (n + 1) - 1 = n /\ 5 * n + o + 1 = p
      BY <1>1, <3>1
    <3>3. Bytes(G)[5 * ((n + 1) - 1) + o + 1] = AtomOf(G[n + 1], o)
      BY <1>1, <1>9, <3>1, <3>2
    <3>4. Wire(f)[o + 1] = AtomOf(f, o)
      BY <1>10, <3>1
    <3>5. (Bytes(F) \o Wire(f))[5 * n + (o + 1)] = Wire(f)[o + 1]
      BY <1>11, <3>1
    <3> QED BY <1>1, <3>1, <3>2, <3>3, <3>4, <3>5
  <2> QED BY <2>1, <2>2
<1>13. Bytes(G) = Bytes(F) \o Wire(f)
  BY <1>9, <1>11, <1>12, SeqEqual
<1> QED BY <1>1, <1>2, <1>3, <1>5, <1>13 DEF G

\* A stream ends with a newline, once something of it is out.
LEMMA LastIs ==
  ASSUME NEW frames \in Seq(CallFrame), Shaped(frames), Len(frames) > 0
  PROVE  Size(frames) \in Nat /\ Size(frames) > 0 /\ Bytes(frames)[Size(frames)] = LineFeed
<1> DEFINE n == Len(frames)
           f == frames[n]
<1>1. n \in Nat /\ n \in 1..n /\ DOMAIN frames = 1..n /\ n - 1 \in Nat
  BY LenProperties
<1>2. Named(f) \/ f = EndMarkFrame
  BY <1>1 DEF Shaped
<1>3. \/ Width(f) = 3 /\ AtomOf(f, 2) = LineFeed
      \/ Width(f) = 5 /\ AtomOf(f, 4) = LineFeed
  BY <1>2 DEF Width, AtomOf
<1>4. Width(f) - 1 \in 0..(Width(f) - 1) /\ AtomOf(f, Width(f) - 1) = LineFeed
  BY <1>3
<1>5. Size(frames) = 5 * (n - 1) + Width(f) /\ Size(frames) \in Nat
  BY SizeIs
<1>6. Bytes(frames)[5 * (n - 1) + (Width(f) - 1) + 1] = AtomOf(f, Width(f) - 1)
  BY <1>1, <1>4, BytesAre
<1>7. 5 * (n - 1) + (Width(f) - 1) + 1 = Size(frames) /\ Size(frames) > 0
  BY <1>1, <1>3, <1>5
<1> QED BY <1>4, <1>5, <1>6, <1>7

\* The first line of what the caller has.
FirstLine(s) == Min({i \in DOMAIN s : s[i] = LineFeed})

LEMMA FirstLineIs ==
  ASSUME NEW s \in Seq(Piece), LineFeed \in Range(s)
  PROVE  /\ s[1] = LineFeed => /\ FirstLine(s) = 1 /\ SubSeq(s, 1, FirstLine(s) - 1) = << >>
                               /\ Len(s) >= 1
         /\ s[1] # LineFeed /\ (Len(s) >= 2 => s[2] = LineFeed) =>
               /\ FirstLine(s) = 2 /\ SubSeq(s, 1, FirstLine(s) - 1) = <<s[1]>> /\ Len(s) >= 2
<1> DEFINE L == {i \in DOMAIN s : s[i] = LineFeed}
<1>1. Len(s) \in Nat /\ DOMAIN s = 1..Len(s)
  BY LenProperties
<1>2. PICK j \in 1..Len(s) : s[j] = LineFeed
  BY <1>1 DEF Range
<1>3. L \subseteq Nat /\ \A i \in L : i >= 1 /\ i <= Len(s) /\ s[i] = LineFeed
  BY <1>1
<1>4. j \in L
  BY <1>1, <1>2
<1>5. CASE s[1] = LineFeed
  <2>1. 1 \in L /\ Len(s) >= 1
    BY <1>1, <1>2, <1>5
  <2> HIDE DEF L
  <2>2. \A x \in L : (\A y \in L : x <= y) => x = 1
    BY <1>3, <2>1
  <2>3. \A y \in L : 1 <= y
    BY <1>3
  <2>4. Min(L) = 1
    BY <2>1, <2>2, <2>3 DEF Min
  <2>5. FirstLine(s) = 1
    BY <2>4 DEF FirstLine, L
  <2>6. SubSeq(s, 1, FirstLine(s) - 1) = << >>
    BY <2>5, SubSeqEmpty
  <2> QED BY <1>5, <2>1, <2>5, <2>6
<1>6. CASE s[1] # LineFeed /\ (Len(s) >= 2 => s[2] = LineFeed)
  <2>1. j # 1 /\ Len(s) >= 2 /\ 2 \in L
    BY <1>1, <1>2, <1>6
  <2> HIDE DEF L
  <2>2. \A x \in L : 2 <= x
    BY <1>3, <1>6
  <2>3. \A x \in L : (\A y \in L : x <= y) => x = 2
    BY <1>3, <2>1, <2>2
  <2>4. Min(L) = 2
    BY <2>1, <2>2, <2>3 DEF Min
  <2>5. FirstLine(s) = 2 /\ 2 - 1 = 1
    BY <2>4 DEF FirstLine, L
  <2>6. SubSeq(s, 1, 1) = <<s[1]>>
    <3>1. /\ SubSeq(s, 1, 1) \in Seq(Piece)
          /\ Len(SubSeq(s, 1, 1)) = IF 1 <= 1 THEN 1 - 1 + 1 ELSE 0
          /\ \A i \in 1..(1 - 1 + 1) : SubSeq(s, 1, 1)[i] = s[1 + i - 1]
      <4>1. 1 \in Nat \ {0} /\ 1 \in Nat /\ 1 <= Len(s)
        BY <1>1, <2>1
      <4> QED BY <4>1, PartIs
    <3>2. Len(SubSeq(s, 1, 1)) = 1 /\ SubSeq(s, 1, 1)[1] = s[1]
      BY <3>1
    <3>3. s[1] \in Piece
      BY <1>1, <2>1, ElementOfSeq
    <3>4. <<s[1]>> \in Seq(Piece) /\ Len(<<s[1]>>) = 1 /\ <<s[1]>>[1] = s[1]
      BY <3>3, OneIs
    <3>5. \A i \in 1..1 : i = 1
      OBVIOUS
    <3>6. PICK x \in Seq(Piece), y \in Seq(Piece) : x = SubSeq(s, 1, 1) /\ y = <<s[1]>>
      BY <3>1, <3>4
    <3>7. Len(x) = Len(y) /\ \A i \in 1..Len(x) : x[i] = y[i]
      BY <3>2, <3>4, <3>5, <3>6
    <3> QED BY <3>6, <3>7, SeqEqual
  <2> QED BY <1>6, <2>1, <2>5, <2>6
<1> QED BY <1>5, <1>6

(***************************************************************************)
(* Calls: the request                                                      *)
(***************************************************************************)

ControlTypes ==
    /\ exchange \in [kind : {"request", "stream"}, length : Bodies]
    /\ caller \in {"connect", "write", "read", "lines", "back", "gone"} /\ tries \in 0..Tries
    /\ server \in {"down", "up", "head", "body", "handle", "answer", "stream", "closed"}
    /\ died \in BOOLEAN /\ header \in {"open", "read", "past"}
RequestTypes ==
    /\ unsent \in Seq(Piece) /\ buf \in Seq(Piece) /\ toServer \in Seq(Piece)
    /\ handled \in Seq(Piece) \cup {Unhandled} /\ Len(toServer) <= Room
AnswerTypes ==
    /\ got \in Seq(Piece) /\ unwritten \in Seq(Piece) /\ toClient \in Seq(Piece)
    /\ frame \in CallFrame /\ events \in Seq(CallFrame)
    /\ response \in [body : Seq(Piece), frames : Seq(CallFrame)] /\ Len(toClient) <= Room
ResultTypes ==
    /\ result.is \in {"none", "success", "connect", "io", "parse", "ok", "error"}
    /\ result.body \in Seq(Piece)

LEMMA ConnTypes == ConnTypeOK <=> ControlTypes /\ RequestTypes /\ AnswerTypes /\ ResultTypes
BY DEF ConnTypeOK, ControlTypes, RequestTypes, AnswerTypes, ResultTypes

LEMMA ControlKeeps == ConnTypeOK /\ RequestInv /\ [ConnNext]_connVars => ControlTypes'
<1> SUFFICES ASSUME ControlTypes, RequestInv, [ConnNext]_connVars PROVE ControlTypes'
  BY ConnTypes
<1> USE DEF ControlTypes
<1>1. CASE Connect
  <2>1. caller' \in {"connect", "write", "back"} /\ server' \in {server, "head"}
    BY <1>1 DEF Connect, ReturnWith
  <2>2. (tries' = tries \/ tries' = tries + 1) /\ tries < Tries
    BY <1>1 DEF Connect, RequestInv
  <2>3. tries' \in 0..Tries
    BY <2>2, ConnectionAssumption
  <2> QED BY <1>1, <2>1, <2>3 DEF Connect
<1>2. CASE ClientWrite
  BY <1>2 DEF ClientWrite, ReturnWith, serverVars
<1>3. CASE ClientReads
  BY <1>3 DEF ClientReads, StreamReads, serverVars
<1>4. CASE TakeLine
  BY <1>4 DEF TakeLine, serverVars
<1>5. CASE ClientSeesEnd
  BY <1>5 DEF ClientSeesEnd, ReturnWith, serverVars
<1>6. CASE AppQuits
  BY <1>6 DEF AppQuits, serverVars
<1>7. CASE CoreBoots \/ CoreStops \/ HeadCut \/ Handle \/ Answer \/ OpenStream
  BY <1>7 DEF CoreBoots, CoreStops, HeadCut, Handle, Answer, OpenStream, clientVars
<1>8. CASE CoreReads
  BY <1>8 DEF CoreReads, ReadHead, ReadBody, clientVars
<1>9. CASE NextFrame
  BY <1>9 DEF NextFrame, clientVars
<1>10. CASE CoreWrites
  BY <1>10 DEF CoreWrites, clientVars
<1>11. CASE UNCHANGED connVars
  BY <1>11 DEF connVars, clientVars, serverVars
<1> QED BY <1>1, <1>2, <1>3, <1>4, <1>5, <1>6, <1>7, <1>8, <1>9, <1>10, <1>11
        DEF ConnNext, ClientStep, CoreStep

\* A line, a blank one and what is behind them.
Lines == {"request", "ok", "error"}

LEMMA MessageIs ==
  ASSUME NEW text \in Lines, NEW rest \in Seq(Piece)
  PROVE  /\ Message(text, rest) \in Seq(Piece) /\ Len(Message(text, rest)) = Len(rest) + 3
         /\ Message(text, rest)[1] = <<text>> /\ Message(text, rest)[2] = <<"crlf">>
         /\ Message(text, rest)[3] = <<"crlf">> /\ From(Message(text, rest), 3) = rest
         /\ <<text>> \in Piece /\ <<text>> # <<"crlf">>
<1>1. <<text>> \in Piece
  BY PiecesAre DEF Lines
<1>2. <<text>>[1] # <<"crlf">>[1]
  <2>1. <<text>>[1] = text /\ <<"crlf">>[1] = "crlf"
    BY PiecesAre
  <2> QED BY <2>1 DEF Lines
<1>3. <<text>> # <<"crlf">>
  BY <1>2
<1>4. PICK a \in Piece : a = <<text>>
  BY <1>1
<1>5. PICK m : m = (<<a>> \o Blank) \o rest
  OBVIOUS
<1>6. m \in Seq(Piece) /\ Len(m) = Len(rest) + 3 /\ m[1] = a /\ m[2] = <<"crlf">> /\ m[3] = <<"crlf">>
  BY <1>5, HeadLineIs
<1>7. SubSeq(m, 4, Len(rest) + 3) = rest
  BY <1>5, HeadLineIs
<1>8. From(m, 3) = rest
  BY <1>6, <1>7 DEF From
<1>9. m = Message(text, rest)
  BY <1>4, <1>5 DEF Message
<1> QED BY <1>1, <1>3, <1>4, <1>6, <1>8, <1>9

\* Such a message, when its front has come.
LEMMA FrontIs ==
  ASSUME NEW text \in Lines, NEW rest \in Seq(Piece),
         NEW s \in Seq(Piece), NEW t \in Seq(Piece), NEW u \in Seq(Piece),
         JoinOf(s, t, u) = Message(text, rest)
  PROVE  /\ Behind(s) \in Seq(Piece)
         /\ HeaderEnd(s) = 0 <=> Len(s) < 3
         /\ HeaderEnd(s) = 0 => Behind(s) = s
         /\ HeaderEnd(s) # 0 => JoinOf(Behind(s), t, u) = rest /\ s[1] = <<text>>
<1>1. PICK v \in Seq(Piece) : v = Cat(t, u)
  BY CatIs
<1>2. Cat(Cat(s, t), u) = Cat(s, Cat(t, u))
  BY Regroup
<1>3. PICK m \in Seq(Piece) : m = Message(text, rest)
  BY MessageIs
<1>4. PICK a \in Piece : a = <<text>> /\ a # <<"crlf">> /\ m[1] = a
  BY <1>3, MessageIs
<1>5. /\ Len(s) >= 1 => s[1] = a
      /\ HeaderEnd(s) = IF Len(s) < 3 THEN 0 ELSE 3
  <2>1. m = Cat(s, v)
    BY <1>1, <1>2, <1>3 DEF JoinOf
  <2>2. m[2] = <<"crlf">> /\ m[3] = <<"crlf">>
    BY <1>3, MessageIs
  <2> QED BY <1>4, <2>1, <2>2, HeadedIs
<1>6. Len(s) \in Nat
  BY LenProperties
<1>7. CASE Len(s) < 3
  <2>1. HeaderEnd(s) = 0 /\ HeaderEnd(s) + 1 = 1
    BY <1>5, <1>7
  <2>2. Behind(s) = s
    BY <2>1, SubSeqFull DEF Behind
  <2> QED BY <1>7, <2>1, <2>2
<1>8. CASE ~(Len(s) < 3)
  <2>1. HeaderEnd(s) = 3 /\ 3 <= Len(s) /\ 3 \in Nat
    BY <1>5, <1>6, <1>8
  <2>2. PICK q \in Nat : q = 3
    OBVIOUS
  <2>3. Behind(s) = From(s, q)
    BY <2>1, <2>2 DEF Behind, From
  <2>4. /\ From(s, q) \in Seq(Piece) /\ JoinOf(From(s, q), t, u) = From(JoinOf(s, t, u), q)
    <3>1. q <= Len(s)
      BY <2>1, <2>2
    <3> QED BY <3>1, Taken
  <2>5. From(JoinOf(s, t, u), q) = rest
    BY <2>2, MessageIs
  <2>6. s[1] = <<text>>
    BY <1>4, <1>5, <2>1
  <2> QED BY <1>6, <1>8, <2>1, <2>3, <2>4, <2>5, <2>6
<1> QED BY <1>7, <1>8

LEMMA RequestIs ==
  ASSUME exchange.length \in Bodies
  PROVE  /\ Body(exchange.length) \in Seq(Piece) /\ Len(Body(exchange.length)) = exchange.length
         /\ exchange.length \in Nat
         /\ Request = Message("request", Body(exchange.length)) /\ Request \in Seq(Piece)
<1> DEFINE n == exchange.length
<1>1. n \in Nat
  BY ConnectionAssumption
<1>2. Body(n) \in [1..n -> Piece]
  BY PiecesAre DEF Body
<1>3. Body(n) \in Seq(Piece) /\ Len(Body(n)) = n
  <2>1. Body(n) \in Seq(Piece)
    BY <1>1, <1>2
  <2> QED BY <1>1, <1>2, <2>1, LenProperties
<1>4. Request = Message("request", Body(n))
  BY DEF Request, Message
<1>5. Message("request", Body(n)) \in Seq(Piece)
  BY <1>3, MessageIs DEF Lines
<1> QED BY <1>1, <1>3, <1>4, <1>5

\* The request when the step is not about it.
RequestSame == UNCHANGED <<exchange, unsent, buf, toServer, handled>>
RequestFits ==
    /\ caller' = "connect" => caller = "connect" /\ server' \in {"down", "up"} /\ tries' < Tries
    /\ caller' \in {"write", "read", "lines"} /\ server' \in {"down", "up"} => died'
    /\ server' \in {"head", "body"} => server' = server
    /\ ClientGone => ClientGone'

LEMMA RequestStays ==
  ASSUME RequestTypes, RequestInv, RequestSame, RequestFits
  PROVE  RequestTypes' /\ RequestInv'
<1>1. RequestTypes'
  BY DEF RequestTypes, RequestSame
<1>2. Request' = Request /\ exchange' = exchange
  BY DEF Request, RequestSame
<1>3. /\ caller' = "connect" => server' \in {"down", "up"} /\ unsent' = Request'
                               /\ toServer' = <<>> /\ buf' = <<>> /\ tries' < Tries
      /\ server' = "head" => Len(buf') < 3 /\ JoinOf(buf', toServer', unsent') = Request'
      /\ server' = "body" => JoinOf(buf', toServer', unsent') = Body(exchange'.length)
  BY <1>2 DEF RequestInv, RequestSame, RequestFits
<1>4. handled' \in {Unhandled, Body(exchange'.length)} \/ (handled' = <<>> /\ ClientGone')
  BY <1>2 DEF RequestInv, RequestSame, RequestFits
<1> QED BY <1>1, <1>3, <1>4 DEF RequestInv, RequestFits

LEMMA ConnectAsks ==
  ASSUME ConnIInv, Connect
  PROVE  RequestTypes' /\ RequestInv'
<1>0. RequestTypes /\ RequestInv /\ ControlTypes
  BY ConnTypes DEF ConnIInv
<1>1. CASE server # "up"
  <2>1. RequestSame /\ RequestFits
    <3>1. caller' = "connect" => tries' < Tries
      <4>1. caller = "connect" /\ tries < Tries /\ tries \in Nat /\ Tries \in Nat
        BY <1>0, ConnectionAssumption DEF Connect, RequestInv, ControlTypes
      <4>2. caller' = "connect" => tries' = tries + 1 /\ tries' # Tries
        BY <1>1 DEF Connect, ReturnWith
      <4> QED BY <4>1, <4>2
    <3> QED BY <1>0, <1>1, <3>1 DEF Connect, ReturnWith, RequestSame, RequestFits, RequestInv, ClientGone
  <2> QED BY <1>0, <2>1, RequestStays
<1>2. CASE server = "up"
  <2>1. /\ caller' = "write" /\ server' = "head" /\ caller = "connect"
        /\ UNCHANGED <<exchange, unsent, buf, toServer, handled>>
    BY <1>2 DEF Connect
  <2>2. unsent = Request /\ toServer = <<>> /\ buf = <<>>
    BY <1>0, <2>1 DEF RequestInv
  <2>3. Request' = Request
    BY <2>1 DEF Request
  <2>4. Request \in Seq(Piece)
    BY <1>0, RequestIs DEF ControlTypes
  <2>5. JoinOf(<<>>, <<>>, Request) = Request /\ Len(<<>>) = 0
    BY <2>4, JoinEnds
  <2>6. Len(buf') < 3 /\ JoinOf(buf', toServer', unsent') = Request'
    BY <2>1, <2>2, <2>3, <2>5
  <2>7. handled' \in {Unhandled, Body(exchange'.length)} \/ (handled' = <<>> /\ ClientGone')
    <3>1. handled \in {Unhandled, Body(exchange.length)}
      BY <1>0, <2>1 DEF RequestInv, ClientGone
    <3> QED BY <2>1, <3>1
  <2>8. RequestTypes'
    BY <1>0, <2>1 DEF RequestTypes
  <2> QED BY <2>1, <2>6, <2>7, <2>8 DEF RequestInv
<1> QED BY <1>1, <1>2

LEMMA WriteSends ==
  ASSUME ConnIInv, ClientWrite
  PROVE  RequestTypes' /\ RequestInv'
<1>0. RequestTypes /\ RequestInv /\ ControlTypes /\ caller = "write"
  BY ConnTypes DEF ConnIInv, ClientWrite
<1>1. CASE UNCHANGED <<unsent, toServer>>
  <2>1. RequestSame /\ RequestFits
    BY <1>0, <1>1 DEF ClientWrite, serverVars, ReturnWith, RequestSame, RequestFits, RequestInv, ClientGone
  <2> QED BY <1>0, <2>1, RequestStays
<1>2. CASE \E n \in 1..Len(unsent) :
              /\ ~ServerGone /\ Len(toServer) + n <= Room
              /\ toServer' = toServer \o SubSeq(unsent, 1, n)
              /\ unsent' = SubSeq(unsent, n + 1, Len(unsent))
              /\ UNCHANGED <<caller, result>>
  <2>1. PICK n \in 1..Len(unsent) :
              /\ ~ServerGone /\ Len(toServer) + n <= Room
              /\ toServer' = toServer \o SubSeq(unsent, 1, n)
              /\ unsent' = SubSeq(unsent, n + 1, Len(unsent))
              /\ UNCHANGED <<caller, result>>
    BY <1>2
  <2>2. /\ UNCHANGED <<exchange, server, buf, handled, died, caller>>
        /\ buf \in Seq(Piece) /\ toServer \in Seq(Piece) /\ unsent \in Seq(Piece)
    BY <1>0, <2>1 DEF ClientWrite, serverVars, RequestTypes
  <2>3. n \in Nat /\ n <= Len(unsent)
    BY <2>2, LenProperties
  <2>8. JoinOf(buf', toServer', unsent') = JoinOf(buf, toServer, unsent)
    BY <2>1, <2>2, <2>3, Flows
  <2>9. toServer' \in Seq(Piece) /\ Len(toServer') = Len(toServer) + n /\ unsent' \in Seq(Piece)
    BY <2>1, <2>2, <2>3, Flows
  <2>10. RequestTypes'
    BY <1>0, <2>1, <2>2, <2>9 DEF RequestTypes
  <2>11. Request' = Request
    BY <2>2 DEF Request
  <2>12. /\ server' = "head" => Len(buf') < 3 /\ JoinOf(buf', toServer', unsent') = Request'
         /\ server' = "body" => JoinOf(buf', toServer', unsent') = Body(exchange'.length)
    BY <1>0, <2>2, <2>8, <2>11 DEF RequestInv
  <2>13. handled' \in {Unhandled, Body(exchange'.length)} \/ (handled' = <<>> /\ ClientGone')
    BY <1>0, <2>2 DEF RequestInv, ClientGone
  <2>14. caller' \in {"write", "read", "lines"} /\ server' \in {"down", "up"} => died'
    BY <1>0, <2>2 DEF RequestInv
  <2>15. caller' # "connect"
    BY <1>0, <2>2
  <2> QED BY <2>10, <2>12, <2>13, <2>14, <2>15 DEF RequestInv
<1> QED BY <1>1, <1>2 DEF ClientWrite

LEMMA CoreTakes ==
  ASSUME ConnIInv, CoreReads
  PROVE  RequestTypes' /\ RequestInv'
<1>0. RequestTypes /\ RequestInv /\ ControlTypes
  BY ConnTypes DEF ConnIInv
<1>1. PICK n \in 1..Len(toServer) :
          /\ ReadHead(SubSeq(toServer, 1, n)) \/ ReadBody(SubSeq(toServer, 1, n))
          /\ toServer' = SubSeq(toServer, n + 1, Len(toServer))
  BY DEF CoreReads
<1>2. /\ UNCHANGED <<exchange, caller, unsent, tries, handled, died>>
      /\ buf \in Seq(Piece) /\ toServer \in Seq(Piece) /\ unsent \in Seq(Piece)
  BY <1>0 DEF CoreReads, clientVars, RequestTypes
<1>3. n \in Nat /\ n <= Len(toServer) /\ Len(toServer) \in Nat
  BY <1>2, LenProperties
<1> DEFINE s == buf \o SubSeq(toServer, 1, n)
<1>4. /\ s \in Seq(Piece) /\ toServer' \in Seq(Piece) /\ Len(toServer') = Len(toServer) - n
      /\ JoinOf(s, toServer', unsent) = JoinOf(buf, toServer, unsent)
  BY <1>1, <1>2, <1>3, Arrives
<1>5. Len(toServer') <= Room /\ Len(toServer') \in Nat
  BY <1>0, <1>3, <1>4, ConnectionAssumption DEF RequestTypes
<1>6. Request' = Request
  BY <1>2 DEF Request
<1>7. CASE ReadHead(SubSeq(toServer, 1, n))
  <2>0. /\ server = "head" /\ buf' = Behind(s)
        /\ server' = IF HeaderEnd(s) = 0 THEN "head"
                     ELSE IF exchange.length > MaxBody THEN "closed" ELSE "body"
    BY <1>7 DEF ReadHead
  <2>1. JoinOf(buf, toServer, unsent) = Request
    BY <1>0, <2>0 DEF RequestInv
  <2>2. /\ "request" \in Lines /\ Body(exchange.length) \in Seq(Piece)
        /\ JoinOf(s, toServer', unsent) = Message("request", Body(exchange.length))
    BY <1>0, <1>4, <2>1, RequestIs DEF ControlTypes, Lines
  <2> HIDE DEF s
  <2>3. /\ Behind(s) \in Seq(Piece)
        /\ HeaderEnd(s) = 0 <=> Len(s) < 3
        /\ HeaderEnd(s) = 0 => Behind(s) = s
        /\ HeaderEnd(s) # 0 => JoinOf(Behind(s), toServer', unsent) = Body(exchange.length)
    <3>1. PICK t \in Seq(Piece), b \in Seq(Piece), text \in Lines :
             t = toServer' /\ b = Body(exchange.length) /\ text = "request"
      BY <1>4, <2>2
    <3>2. JoinOf(s, t, unsent) = Message(text, b)
      BY <2>2, <3>1
    <3>3. /\ Behind(s) \in Seq(Piece)
          /\ HeaderEnd(s) = 0 <=> Len(s) < 3
          /\ HeaderEnd(s) = 0 => Behind(s) = s
          /\ HeaderEnd(s) # 0 => JoinOf(Behind(s), t, unsent) = b
      BY <1>2, <1>4, <3>2, FrontIs
    <3> QED BY <3>1, <3>3
  <2>4. RequestTypes'
    BY <1>0, <1>2, <1>4, <1>5, <2>0, <2>3 DEF RequestTypes
  <2>5. server' = "head" => Len(buf') < 3 /\ JoinOf(buf', toServer', unsent') = Request'
    BY <1>2, <1>4, <1>6, <2>0, <2>1, <2>3
  <2>6. server' = "body" => JoinOf(buf', toServer', unsent') = Body(exchange'.length)
    BY <1>2, <2>0, <2>3
  <2>7. server' \notin {"down", "up"} /\ caller' # "connect"
    BY <1>0, <1>2, <2>0 DEF RequestInv
  <2>8. handled' \in {Unhandled, Body(exchange'.length)} \/ (handled' = <<>> /\ ClientGone')
    BY <1>0, <1>2 DEF RequestInv, ClientGone
  <2> QED BY <2>4, <2>5, <2>6, <2>7, <2>8 DEF RequestInv
<1>8. CASE ReadBody(SubSeq(toServer, 1, n))
  <2>0. server = "body" /\ server' = "body" /\ buf' = s
    BY <1>8 DEF ReadBody
  <2> HIDE DEF s
  <2>1. JoinOf(buf', toServer', unsent') = Body(exchange'.length)
    BY <1>0, <1>2, <1>4, <2>0 DEF RequestInv
  <2>2. RequestTypes'
    BY <1>0, <1>2, <1>4, <1>5, <2>0 DEF RequestTypes
  <2>3. caller' # "connect"
    BY <1>0, <1>2, <2>0 DEF RequestInv
  <2>4. handled' \in {Unhandled, Body(exchange'.length)} \/ (handled' = <<>> /\ ClientGone')
    BY <1>0, <1>2 DEF RequestInv, ClientGone
  <2> QED BY <2>0, <2>1, <2>2, <2>3, <2>4 DEF RequestInv
<1> QED BY <1>1, <1>7, <1>8

LEMMA HandleHandles ==
  ASSUME ConnIInv, Handle
  PROVE  RequestTypes' /\ RequestInv'
<1>0. RequestTypes /\ RequestInv /\ ControlTypes
  BY ConnTypes DEF ConnIInv
<1>1. /\ server = "body" /\ server' = "handle"
      /\ UNCHANGED <<exchange, caller, tries, unsent, buf, died, toServer>>
      /\ handled' = IF Len(buf) < exchange.length THEN <<>> ELSE SubSeq(buf, 1, exchange.length)
      /\ Len(buf) >= exchange.length \/ (toServer = <<>> /\ ClientGone)
  BY DEF Handle, clientVars
<1> DEFINE n == exchange.length
<1>2. /\ Body(n) \in Seq(Piece) /\ Len(Body(n)) = n /\ n \in Nat
  BY <1>0, RequestIs DEF ControlTypes
<1>3. /\ buf \in Seq(Piece) /\ toServer \in Seq(Piece) /\ unsent \in Seq(Piece)
      /\ Len(buf) \in Nat /\ Len(toServer) \in Nat /\ Len(unsent) \in Nat
  BY <1>0, LenProperties DEF RequestTypes
<1>4. JoinOf(buf, toServer, unsent) = Body(n)
  BY <1>0, <1>1 DEF RequestInv
<1>5. Len(buf) + Len(toServer) + Len(unsent) = n
  <2>1. Len(JoinOf(buf, toServer, unsent)) = Len(buf) + Len(toServer) + Len(unsent)
    BY <1>3, JoinTypes
  <2> QED BY <1>2, <1>4, <2>1
<1>6. handled' \in Seq(Piece) /\ (handled' = Body(n) \/ (handled' = <<>> /\ ClientGone))
  <2>1. CASE Len(buf) < n
    <3>1. handled' = << >> /\ ClientGone
      BY <1>1, <1>2, <1>3, <2>1
    <3> QED BY <3>1
  <2>2. CASE ~(Len(buf) < n)
    <3>1. Len(buf) = n /\ Len(toServer) = 0 /\ Len(unsent) = 0
      BY <1>2, <1>3, <1>5, <2>2
    <3>2. toServer = << >> /\ unsent = << >>
      BY <1>3, <3>1, EmptySeq
    <3>3. JoinOf(buf, toServer, unsent) = buf
      BY <1>3, <3>2, JoinEnds
    <3>4. handled' = SubSeq(buf, 1, Len(buf))
      BY <1>1, <2>2, <3>1
    <3>5. handled' = buf
      BY <1>3, <3>4, SubSeqFull
    <3> QED BY <1>2, <1>4, <3>3, <3>5
  <2> QED BY <2>1, <2>2
<1>7. RequestTypes'
  BY <1>0, <1>1, <1>6 DEF RequestTypes
<1>8. caller' # "connect"
  BY <1>0, <1>1 DEF RequestInv
<1>9. handled' \in {Unhandled, Body(exchange'.length)} \/ (handled' = <<>> /\ ClientGone')
  BY <1>1, <1>6 DEF ClientGone
<1> QED BY <1>1, <1>7, <1>8, <1>9 DEF RequestInv

\* The request is kept whole by every step.
LEMMA RequestKeeps ==
  ASSUME ConnIInv, [ConnNext]_connVars
  PROVE  RequestTypes' /\ RequestInv'
<1>0. RequestTypes /\ RequestInv /\ ControlTypes /\ AnswerInv
  BY ConnTypes DEF ConnIInv
<1>1. CASE Connect
  BY <1>1, ConnectAsks
<1>2. CASE ClientWrite
  BY <1>2, WriteSends
<1>3. CASE CoreReads
  BY <1>3, CoreTakes
<1>4. CASE Handle
  BY <1>4, HandleHandles
<1>5. ASSUME RequestSame /\ RequestFits PROVE RequestTypes' /\ RequestInv'
  BY <1>0, <1>5, RequestStays
<1> USE DEF RequestSame, RequestFits, ClientGone
<1>6. CASE ClientReads
  <2>1. RequestSame /\ RequestFits
    BY <1>0, <1>6 DEF ClientReads, StreamReads, serverVars, RequestInv
  <2> QED BY <1>5, <2>1
<1>7. CASE TakeLine
  <2>1. RequestSame /\ RequestFits
    BY <1>0, <1>7 DEF TakeLine, serverVars, RequestInv
  <2> QED BY <1>5, <2>1
<1>8. CASE ClientSeesEnd
  <2>1. RequestSame /\ RequestFits
    BY <1>0, <1>8 DEF ClientSeesEnd, ReturnWith, serverVars, RequestInv
  <2> QED BY <1>5, <2>1
<1>9. CASE AppQuits
  <2>1. RequestSame /\ RequestFits
    BY <1>0, <1>9 DEF AppQuits, serverVars, RequestInv
  <2> QED BY <1>5, <2>1
<1>10. CASE CoreBoots \/ CoreStops
  <2>1. RequestSame /\ RequestFits
    BY <1>0, <1>10 DEF CoreBoots, CoreStops, clientVars, RequestInv
  <2> QED BY <1>5, <2>1
<1>11. CASE HeadCut \/ Answer \/ OpenStream
  <2>1. RequestSame /\ RequestFits
    BY <1>0, <1>11 DEF HeadCut, Answer, OpenStream, clientVars, RequestInv
  <2> QED BY <1>5, <2>1
<1>12. CASE NextFrame
  <2>1. RequestSame /\ RequestFits
    BY <1>0, <1>12 DEF NextFrame, clientVars, RequestInv
  <2> QED BY <1>5, <2>1
<1>13. CASE CoreWrites
  <2>1. RequestSame /\ RequestFits
    BY <1>0, <1>13 DEF CoreWrites, clientVars, RequestInv
  <2> QED BY <1>5, <2>1
<1>14. CASE UNCHANGED connVars
  <2>1. RequestSame /\ RequestFits
    BY <1>0, <1>14 DEF connVars, clientVars, serverVars, RequestInv
  <2> QED BY <1>5, <2>1
<1> QED BY <1>1, <1>2, <1>3, <1>4, <1>6, <1>7, <1>8, <1>9, <1>10, <1>11, <1>12, <1>13, <1>14
        DEF ConnNext, ClientStep, CoreStep

(***************************************************************************)
(* Calls: the answer                                                       *)
(***************************************************************************)

LEMMA JsonIs ==
  ASSUME NEW body \in Json
  PROVE  /\ body \in Seq(Piece) /\ Len(body) = 2 /\ body # <<>>
         /\ body[1] # LineFeed /\ body[2] # LineFeed
<1>1. PICK text \in {"ok", "error"} : body = <<<<"json", text>>, <<"json end">>>>
  BY DEF Json
<1>2. PICK a \in Piece, b \in Piece : a = <<"json", text>> /\ b = <<"json end">>
  BY PiecesAre
<1>3. body = <<a, b>>
  BY <1>1, <1>2
<1>4. <<a, b>> \in Seq(Piece) /\ Len(<<a, b>>) = 2 /\ <<a, b>>[1] = a /\ <<a, b>>[2] = b
  BY TwoAre
<1>5. body \in Seq(Piece) /\ Len(body) = 2 /\ body[1] = a /\ body[2] = b
  BY <1>3, <1>4
<1>6. a[1] = "json" /\ b[1] = "json end" /\ LineFeed[1] = "nl"
  BY <1>2, PiecesAre
<1>7. a # LineFeed /\ b # LineFeed
  BY <1>6
<1>8. body # <<>>
  <2>1. ASSUME body = << >> PROVE FALSE
    <3>1. Len(body) = 0
      BY <2>1
    <3> QED BY <1>5, <3>1
  <2> QED BY <2>1, Zenon
<1> QED BY <1>5, <1>7, <1>8

LEMMA NothingIs ==
  /\ <<>> \in Seq(Piece) /\ Len(<<>>) = 0 /\ <<>> \in Seq(CallFrame)
  /\ Shaped(<<>>) /\ Size(<<>>) = 0 /\ Bytes(<<>>) = <<>>
  /\ IsPrefix(<<>>, <<>>)
<1>1. << >> \in Seq(Piece) /\ << >> \in Seq(CallFrame) /\ Len(<< >>) = 0
  BY EmptySeq
<1>2. Shaped(<< >>)
  BY DEF Shaped
<1>3. Size(<< >>) = 0
  BY <1>1 DEF Size
<1>4. Bytes(<< >>) \in Seq(Piece) /\ Len(Bytes(<< >>)) = 0
  BY <1>1, <1>2, <1>3, BytesAre
<1>5. Bytes(<< >>) = << >>
  BY <1>4, EmptySeq
<1>6. IsPrefix(<< >>, << >>)
  <2>1. PICK e \in Seq(CallFrame) : e = << >>
    BY <1>1
  <2>2. Len(e) <= Len(e)
    BY LenProperties
  <2>3. IsPrefix(e, e)
    BY <2>2, PrefixIs
  <2> QED BY <2>1, <2>3
<1> QED BY <1>1, <1>2, <1>3, <1>5, <1>6

LEMMA ContentIs ==
  ASSUME AnswerTypes, GivenInv
  PROVE  /\ Content \in Seq(Piece) /\ Given \in Seq(CallFrame) /\ Shaped(Given)
         /\ Size(Given) \in Nat /\ Size(Given) <= Len(Content) /\ Len(Content) \in Nat
         /\ response.body # <<>> => /\ response.body \in Json /\ Content = response.body
                                    /\ Given = <<>> /\ Size(Given) = 0
         /\ response.body = <<>> => Content = Bytes(Given) /\ Len(Content) = Size(Given)
<1>1. Given \in Seq(CallFrame) /\ Shaped(Given)
  BY DEF AnswerTypes, GivenInv, Given
<1>2. Bytes(Given) \in Seq(Piece) /\ Len(Bytes(Given)) = Size(Given) /\ Size(Given) \in Nat
  BY <1>1, BytesAre, SizeIs
<1>3. CASE response.body = <<>>
  <2>1. Content = Bytes(Given)
    BY <1>3 DEF Content
  <2> QED BY <1>1, <1>2, <1>3, <2>1
<1>4. CASE response.body # <<>>
  <2>1. Content = response.body /\ response.body \in Json /\ Given = <<>>
    BY <1>4 DEF Content, GivenInv
  <2>2. response.body \in Seq(Piece) /\ Len(response.body) = 2
    BY <2>1, JsonIs
  <2>3. Size(Given) = 0
    BY <2>1, NothingIs
  <2> QED BY <1>1, <1>4, <2>1, <2>2, <2>3
<1> QED BY <1>3, <1>4

\* What the core gave and what has come of it stay, and only the control moves.
DataSame == UNCHANGED <<exchange, got, header, frame, events, unwritten, response, toClient>>
Early    == server \in {"up", "head", "body", "handle"} \/ (server = "down" /\ ~died)
DataFits ==
    /\ Early' => Early
    /\ server' \in {"answer", "stream"} => server' = server
    /\ server' = "closed" /\ ~ClientGone' => unwritten = <<>>
    /\ caller' \in {"connect", "write"} => caller \in {"connect", "write"}
    /\ caller' = "lines" => caller = "lines"
    /\ caller' = "read" => caller \in {"read", "write"}

LEMMA DataStays ==
  ASSUME AnswerTypes, GivenInv, AnswerInv, DataSame, DataFits
  PROVE  AnswerTypes' /\ GivenInv' /\ AnswerInv'
<1>1. UNCHANGED <<exchange, got, header, frame, events, unwritten, response, toClient>>
  BY DEF DataSame
<1>2. AnswerTypes'
  BY <1>1 DEF AnswerTypes
<1>3. Given' = Given /\ Content' = Content /\ Pending' = Pending
  BY <1>1 DEF Given, Content, Pending
<1>4. Fresh' <=> Fresh
  BY <1>1 DEF Fresh
<1>5. \A q : Position(q)' <=> Position(q)
  BY <1>1, <1>3 DEF Position
<1>6. GivenInv'
  BY <1>1, <1>3 DEF GivenInv, DataFits
<1>7. Early' => Fresh'
  BY <1>4 DEF AnswerInv, Early, DataFits
<1>8. header' = "open" =>
          /\ \/ Fresh' /\ server' \notin {"answer", "stream"}
             \/ \E text \in {"ok", "error"} : Pending' = Message(text, Content')
          /\ exchange'.kind = "stream" => Len(got') < 3
  BY <1>1, <1>3, <1>4 DEF AnswerInv, DataFits
<1>9. /\ caller' \in {"connect", "write"} => header' = "open"
      /\ header' # "past" => events' = <<>> /\ frame' = NoFrame /\ caller' # "lines"
  BY <1>1 DEF AnswerInv, DataFits
<1>10. header' # "open" =>
          /\ exchange'.kind = "stream"
          /\ \E q \in 0..Size(Given') : Position(q)' /\ Pending' = From(Content', q)
  BY <1>1, <1>3, <1>5 DEF AnswerInv
<1>11. /\ IsPrefix(events', Given')
       /\ server' = "closed" /\ ~ClientGone' => unwritten' = <<>>
  BY <1>1, <1>3 DEF AnswerInv, DataFits
<1>12. caller' = "read" /\ header' = "past" => \A i \in DOMAIN got' : got'[i] # LineFeed
  BY <1>1 DEF AnswerInv, DataFits
<1> QED BY <1>2, <1>6, <1>7, <1>8, <1>9, <1>10, <1>11, <1>12 DEF AnswerInv, Early

LEMMA AnswerAnswers ==
  ASSUME AnswerTypes, ControlTypes, GivenInv, AnswerInv, Answer
  PROVE  AnswerTypes' /\ GivenInv' /\ AnswerInv'
<1>1. PICK text \in {"ok", "error"} :
          /\ response' = [response EXCEPT !.body = <<<<"json", text>>, <<"json end">>>>]
          /\ unwritten' = <<<<text>>>> \o Blank \o response'.body
  BY DEF Answer
<1>2. /\ server = "handle" /\ server' = "answer"
      /\ UNCHANGED <<exchange, caller, got, header, frame, events, toClient, died>>
  BY DEF Answer, clientVars
<1>3. Fresh
  BY <1>2 DEF AnswerInv
<1> DEFINE body == <<<<"json", text>>, <<"json end">>>>
<1>4. body \in Json
  BY DEF Json
<1> HIDE DEF body
<1>5. body \in Seq(Piece) /\ body # <<>>
  BY <1>4, JsonIs
<1>6. response' = [body |-> body, frames |-> <<>>]
  BY <1>1, <1>3 DEF Fresh, body
<1>7. Given' = <<>> /\ Content' = body /\ response'.body = body
  BY <1>5, <1>6 DEF Given, Content
<1>8. unwritten' = Message(text, body)
  BY <1>1, <1>7 DEF Message
<1>9. text \in Lines
  BY DEF Lines
<1>10. Message(text, body) \in Seq(Piece)
  BY <1>5, <1>9, MessageIs
<1>11. got = <<>> /\ toClient = <<>> /\ header = "open"
  BY <1>3 DEF Fresh
<1>12. Pending' = Message(text, Content')
  <2>1. JoinOf(<<>>, <<>>, Message(text, body)) = Message(text, body)
    BY <1>10, JoinEnds
  <2> QED BY <1>2, <1>7, <1>8, <1>11, <2>1 DEF Pending
<1>13. AnswerTypes'
  <2>1. response' \in [body : Seq(Piece), frames : Seq(CallFrame)]
    BY <1>5, <1>6, NothingIs
  <2> QED BY <1>2, <1>8, <1>10, <2>1 DEF AnswerTypes
<1>14. GivenInv'
  BY <1>2, <1>4, <1>7, NothingIs DEF GivenInv
<1>15. exchange'.kind = "stream" => Len(got') < 3
  BY <1>2, <1>11, NothingIs
<1>16. events' = <<>> /\ frame' = NoFrame /\ caller' # "lines" /\ header' = "open"
  BY <1>2, <1>11 DEF AnswerInv
<1>17. IsPrefix(events', Given')
  <2>1. IsPrefix(<<>>, <<>>)
    BY NothingIs
  <2> QED BY <1>7, <1>16, <2>1
<1>18. \E t \in {"ok", "error"} : Pending' = Message(t, Content')
  BY <1>12
<1> QED BY <1>2, <1>13, <1>14, <1>15, <1>16, <1>17, <1>18 DEF AnswerInv

LEMMA OpenOpens ==
  ASSUME AnswerTypes, ControlTypes, GivenInv, AnswerInv, OpenStream
  PROVE  AnswerTypes' /\ GivenInv' /\ AnswerInv'
<1>1. /\ server = "handle" /\ exchange.kind = "stream"
      /\ unwritten' = <<<<"ok">>>> \o Blank
      /\ server' = "stream"
      /\ UNCHANGED <<exchange, caller, got, header, frame, events, response, toClient, died>>
  BY DEF OpenStream, clientVars
<1>2. Fresh
  BY <1>1 DEF AnswerInv
<1>3. got = <<>> /\ toClient = <<>> /\ header = "open" /\ response.body = <<>> /\ Given = <<>>
  BY <1>2 DEF Fresh, Given
<1>4. Given' = <<>> /\ Content' = <<>> /\ response'.body = <<>>
  BY <1>1, <1>3, NothingIs DEF Given, Content
<1>5. "ok" \in Lines
  BY DEF Lines
<1>6. <<<<"ok">>>> \o Blank \in Seq(Piece)
  <2>1. PICK a \in Piece : a = <<"ok">>
    BY PiecesAre
  <2>2. <<a>> \o Blank \in Seq(Piece)
    BY <2>1, NothingIs, HeadLineIs
  <2> QED BY <2>1, <2>2
<1>7. PICK u \in Seq(Piece) : u = <<<<"ok">>>> \o Blank
  BY <1>6
<1>8. u \o <<>> = u
  BY ConcatEmptySeq
<1>9. Message("ok", <<>>) = u
  BY <1>7, <1>8 DEF Message
<1>10. Pending' = Message("ok", Content')
  <2>1. JoinOf(<<>>, <<>>, u) = u
    BY JoinEnds
  <2> QED BY <1>1, <1>3, <1>4, <1>7, <1>9, <2>1 DEF Pending
<1>11. AnswerTypes'
  BY <1>1, <1>6 DEF AnswerTypes
<1>12. GivenInv'
  BY <1>1, <1>4, NothingIs DEF GivenInv
<1>13. exchange'.kind = "stream" => Len(got') < 3
  BY <1>1, <1>3, NothingIs
<1>14. events' = <<>> /\ frame' = NoFrame /\ caller' # "lines" /\ header' = "open"
  BY <1>1, <1>3 DEF AnswerInv
<1>15. IsPrefix(events', Given')
  <2>1. IsPrefix(<<>>, <<>>)
    BY NothingIs
  <2> QED BY <1>4, <1>14, <2>1
<1>16. \E t \in {"ok", "error"} : Pending' = Message(t, Content')
  BY <1>10
<1> QED BY <1>1, <1>11, <1>12, <1>13, <1>14, <1>15, <1>16 DEF AnswerInv

LEMMA WriteWrites ==
  ASSUME AnswerTypes, ControlTypes, GivenInv, AnswerInv, CoreWrites
  PROVE  AnswerTypes' /\ GivenInv' /\ AnswerInv'
<1>0. /\ server \in {"answer", "stream"}
      /\ UNCHANGED <<exchange, caller, got, header, frame, events, response, died>>
  BY DEF CoreWrites, clientVars
<1>1. CASE /\ ClientGone \/ (server = "answer" /\ unwritten = <<>>)
           /\ server' = "closed"
           /\ UNCHANGED <<toClient, unwritten>>
  <2>1. DataSame
    BY <1>0, <1>1 DEF DataSame
  <2>2. DataFits
    BY <1>0, <1>1 DEF DataFits, ClientGone, Early
  <2> QED BY <2>1, <2>2, DataStays
<1>2. CASE \E n \in 1..Len(unwritten) :
             /\ ~ClientGone /\ Len(toClient) + n <= Room
             /\ toClient' = toClient \o SubSeq(unwritten, 1, n)
             /\ unwritten' = SubSeq(unwritten, n + 1, Len(unwritten))
             /\ UNCHANGED server
  <2>1. PICK n \in 1..Len(unwritten) :
             /\ ~ClientGone /\ Len(toClient) + n <= Room
             /\ toClient' = toClient \o SubSeq(unwritten, 1, n)
             /\ unwritten' = SubSeq(unwritten, n + 1, Len(unwritten))
             /\ UNCHANGED server
    BY <1>2
  <2>2. got \in Seq(Piece) /\ toClient \in Seq(Piece) /\ unwritten \in Seq(Piece)
    BY DEF AnswerTypes
  <2>3. n \in Nat /\ n <= Len(unwritten)
    BY <2>2, LenProperties
  <2>4. /\ toClient' \in Seq(Piece) /\ Len(toClient') = Len(toClient) + n
        /\ unwritten' \in Seq(Piece)
    BY <2>1, <2>2, <2>3, Flows
  <2>5. JoinOf(got, toClient', unwritten') = JoinOf(got, toClient, unwritten)
    BY <2>1, <2>2, <2>3, Flows
  <2>6. Given' = Given /\ Content' = Content /\ Pending' = Pending
    BY <1>0, <2>5 DEF Given, Content, Pending
  <2>7. AnswerTypes'
    BY <1>0, <2>1, <2>4 DEF AnswerTypes
  <2>8. GivenInv'
    BY <1>0, <2>1, <2>6 DEF GivenInv
  <2>9. \A q : Position(q)' <=> Position(q)
    BY <1>0, <2>6 DEF Position
  <2>10. header' = "open" =>
            /\ \E text \in {"ok", "error"} : Pending' = Message(text, Content')
            /\ exchange'.kind = "stream" => Len(got') < 3
    BY <1>0, <2>6 DEF AnswerInv
  <2>11. header' # "open" =>
          /\ exchange'.kind = "stream"
          /\ \E q \in 0..Size(Given') : Position(q)' /\ Pending' = From(Content', q)
    BY <1>0, <2>6, <2>9 DEF AnswerInv
  <2>12. /\ IsPrefix(events', Given')
         /\ caller' \in {"connect", "write"} => header' = "open"
         /\ header' # "past" => events' = <<>> /\ frame' = NoFrame /\ caller' # "lines"
         /\ caller' = "read" /\ header' = "past" => \A i \in DOMAIN got' : got'[i] # LineFeed
    BY <1>0, <2>6 DEF AnswerInv
  <2> QED BY <1>0, <2>1, <2>7, <2>8, <2>10, <2>11, <2>12 DEF AnswerInv
<1> QED BY <1>1, <1>2 DEF CoreWrites

LEMMA ReadReads ==
  ASSUME AnswerTypes, ControlTypes, GivenInv, AnswerInv, ClientReads
  PROVE  AnswerTypes' /\ GivenInv' /\ AnswerInv'
<1>1. PICK n \in 1..Len(toClient) :
          /\ toClient' = SubSeq(toClient, n + 1, Len(toClient))
          /\ IF exchange.kind = "stream"
             THEN StreamReads(SubSeq(toClient, 1, n))
             ELSE got' = got \o SubSeq(toClient, 1, n) /\ UNCHANGED <<caller, header>>
  BY DEF ClientReads
<1>2. /\ caller = "read"
      /\ UNCHANGED <<exchange, frame, events, server, unwritten, response, died>>
  BY DEF ClientReads, serverVars
<1>3. got \in Seq(Piece) /\ toClient \in Seq(Piece) /\ unwritten \in Seq(Piece)
  BY DEF AnswerTypes
<1>4. n \in Nat /\ n <= Len(toClient) /\ Len(toClient) \in Nat /\ toClient # <<>>
  BY <1>3, LenProperties, EmptySeq
<1> DEFINE s == got \o SubSeq(toClient, 1, n)
<1>5. /\ s \in Seq(Piece) /\ toClient' \in Seq(Piece) /\ Len(toClient') = Len(toClient) - n
      /\ JoinOf(s, toClient', unwritten) = JoinOf(got, toClient, unwritten)
  BY <1>1, <1>3, <1>4, Arrives
<1> HIDE DEF s
<1>6. Given' = Given /\ Content' = Content
  BY <1>2 DEF Given, Content
<1>7. \A q : Position(q)' <=> Position(q)
  BY <1>2, <1>6 DEF Position
<1>8. GivenInv'
  BY <1>2, <1>6 DEF GivenInv
<1>9. Len(toClient') <= Room
  <2>1. Len(toClient) <= Room /\ Room \in Nat
    BY ConnectionAssumption DEF AnswerTypes
  <2> QED BY <1>4, <1>5, <2>1
<1>10. ASSUME got' \in Seq(Piece) PROVE AnswerTypes'
  BY <1>2, <1>5, <1>9, <1>10 DEF AnswerTypes
<1>11. IsPrefix(events', Given') /\ (server' = "closed" /\ ~ClientGone' => unwritten' = <<>>)
  BY <1>2, <1>6 DEF AnswerInv, ClientGone
<1>12. ~Fresh /\ server \notin {"up", "head", "body", "handle"} /\ ~(server = "down" /\ ~died)
  <2>1. ~Fresh
    BY <1>4 DEF Fresh
  <2> QED BY <2>1 DEF AnswerInv
<1>13. CASE exchange.kind # "stream"
  <2>1. header = "open" /\ got' = s /\ caller' = caller /\ header' = header
    BY <1>1, <1>13 DEF AnswerInv, s
  <2>2. \E text \in {"ok", "error"} : Pending = Message(text, Content)
    BY <1>12, <2>1 DEF AnswerInv
  <2>3. Pending' = Pending
    BY <1>2, <1>5, <2>1 DEF Pending
  <2>4. events' = <<>> /\ frame' = NoFrame
    BY <1>2, <2>1 DEF AnswerInv
  <2>5. AnswerTypes'
    BY <1>5, <1>10, <2>1
  <2> QED BY <1>2, <1>6, <1>8, <1>11, <1>12, <1>13, <2>1, <2>2, <2>3, <2>4, <2>5 DEF AnswerInv
<1>14. CASE exchange.kind = "stream" /\ header # "open"
  <2>1. got' = s /\ caller' = "lines" /\ header' = "past"
    BY <1>1, <1>14 DEF StreamReads, s
  <2>2. Pending' = Pending
    BY <1>2, <1>5, <2>1 DEF Pending
  <2>3. \E q \in 0..Size(Given') : Position(q)' /\ Pending' = From(Content', q)
    BY <1>6, <1>7, <1>14, <2>2 DEF AnswerInv
  <2>4. AnswerTypes'
    BY <1>5, <1>10, <2>1
  <2> QED BY <1>2, <1>8, <1>11, <1>12, <1>14, <2>1, <2>3, <2>4 DEF AnswerInv
<1>15. CASE exchange.kind = "stream" /\ header = "open"
  <2>1. /\ header' = IF HeaderEnd(s) = 0 THEN "open" ELSE "read"
        /\ got' = Behind(s) /\ caller' = caller
    BY <1>1, <1>15 DEF StreamReads, s
  <2>2. PICK text \in {"ok", "error"} : Pending = Message(text, Content)
    BY <1>12, <1>15 DEF AnswerInv
  <2>3. Content \in Seq(Piece) /\ Len(Content) \in Nat /\ Size(Given) \in Nat
    BY ContentIs
  <2>4. text \in Lines
    BY DEF Lines
  <2>5. JoinOf(s, toClient', unwritten) = Message(text, Content)
    BY <1>5, <2>2 DEF Pending
  <2>6. /\ Behind(s) \in Seq(Piece)
        /\ HeaderEnd(s) = 0 <=> Len(s) < 3
        /\ HeaderEnd(s) = 0 => Behind(s) = s
        /\ HeaderEnd(s) # 0 => JoinOf(Behind(s), toClient', unwritten) = Content
    <3>1. PICK t \in Seq(Piece), b \in Seq(Piece) : t = toClient' /\ b = Content
      BY <1>5, <2>3
    <3>2. JoinOf(s, t, unwritten) = Message(text, b)
      BY <2>5, <3>1
    <3>3. /\ Behind(s) \in Seq(Piece)
          /\ HeaderEnd(s) = 0 <=> Len(s) < 3
          /\ HeaderEnd(s) = 0 => Behind(s) = s
          /\ HeaderEnd(s) # 0 => JoinOf(Behind(s), t, unwritten) = b
      BY <1>3, <1>5, <2>4, <3>2, FrontIs
    <3> QED BY <3>1, <3>3
  <2>7. AnswerTypes'
    BY <1>10, <2>1, <2>6
  <2>8. events' = <<>> /\ frame' = NoFrame
    BY <1>2, <1>15 DEF AnswerInv
  <2>9. CASE HeaderEnd(s) = 0
    <3>1. got' = s /\ Len(got') < 3 /\ header' = "open"
      BY <2>1, <2>6, <2>9
    <3>2. Pending' = Message(text, Content')
      BY <1>2, <1>6, <2>5, <3>1 DEF Pending
    <3> QED BY <1>2, <1>8, <1>11, <1>12, <2>1, <2>7, <2>8, <3>1, <3>2 DEF AnswerInv
  <2>10. CASE HeaderEnd(s) # 0
    <3>1. header' = "read" /\ caller' = "read"
      BY <1>2, <2>1, <2>10
    <3>2. Pending' = Content
      BY <1>2, <2>1, <2>6, <2>10 DEF Pending
    <3>3. From(Content, 0) = Content
      <4>1. 0 + 1 = 1
        OBVIOUS
      <4> QED BY <2>3, <4>1, SubSeqFull DEF From
    <3>4. Position(0)
      <4>1. events = <<>> /\ frame = NoFrame /\ Len(events) = 0 /\ Len(Given) \in Nat
        BY <1>15, ContentIs, NothingIs, LenProperties DEF AnswerInv
      <4>2. Len(Given) = 0 => Size(Given) = 0
        BY ContentIs, SizeIs
      <4> QED BY <4>1, <4>2 DEF Position
    <3>5. 0 \in 0..Size(Given') /\ Position(0)' /\ Pending' = From(Content', 0)
      BY <1>6, <1>7, <2>3, <3>2, <3>3, <3>4
    <3>6. \E q \in 0..Size(Given') : Position(q)' /\ Pending' = From(Content', q)
      BY <3>5
    <3> QED BY <1>2, <1>8, <1>11, <1>12, <1>15, <2>7, <2>8, <3>1, <3>6 DEF AnswerInv
  <2> QED BY <2>9, <2>10
<1> QED BY <1>13, <1>14, <1>15

LEMMA TwoMore ==
  ASSUME NEW S, NEW F \in Seq(S), NEW a \in S, NEW b \in S
  PROVE  F \o <<a, b>> = Append(Append(F, a), b)
<1>0. <<a, b>> \in Seq(S) /\ Len(<<a, b>>) = 2 /\ <<a, b>>[1] = a /\ <<a, b>>[2] = b
  BY TwoAre
<1>1. PICK g \in Seq(S) : g = <<a, b>> /\ Len(g) = 2 /\ g[1] = a /\ g[2] = b
  BY <1>0
<1>2. /\ F \o g \in Seq(S) /\ Len(F) \in Nat /\ Len(F \o g) = Len(F) + Len(g)
      /\ \A i \in 1..Len(F) : (F \o g)[i] = F[i]
      /\ \A i \in 1..Len(g) : (F \o g)[Len(F) + i] = g[i]
  BY JoinIs
<1>3. PICK h \in Seq(S) : /\ h = Append(F, a) /\ Len(h) = Len(F) + 1
                         /\ \A i \in 1..Len(F) : h[i] = F[i]
                         /\ h[Len(F) + 1] = a
  BY LongerIs
<1>4. /\ Append(h, b) \in Seq(S) /\ Len(Append(h, b)) = Len(h) + 1
      /\ \A i \in 1..Len(h) : Append(h, b)[i] = h[i]
      /\ Append(h, b)[Len(h) + 1] = b
  BY LongerIs
<1>5. PICK x \in Seq(S), y \in Seq(S) : x = F \o g /\ y = Append(h, b)
  BY <1>2, <1>4
<1>6. Len(x) = Len(F) + 2 /\ Len(y) = Len(F) + 2
  BY <1>1, <1>2, <1>3, <1>4, <1>5
<1>7. ASSUME NEW i \in 1..(Len(F) + 2) PROVE x[i] = y[i]
  <2>1. i \in 1..Len(F) \/ i = Len(F) + 1 \/ i = Len(F) + 2
    BY <1>2
  <2>2. CASE i \in 1..Len(F)
    <3>1. i \in 1..Len(h)
      BY <1>2, <1>3, <2>2
    <3> QED BY <1>2, <1>3, <1>4, <1>5, <2>2, <3>1
  <2>3. CASE i = Len(F) + 1
    <3>1. Len(F) + 1 \in 1..Len(h) /\ 1 \in 1..Len(g)
      BY <1>1, <1>2, <1>3
    <3>2. x[Len(F) + 1] = a
      BY <1>1, <1>2, <1>5, <3>1
    <3>3. y[Len(F) + 1] = a
      BY <1>3, <1>4, <1>5, <3>1
    <3> QED BY <2>3, <3>2, <3>3
  <2>4. CASE i = Len(F) + 2
    <3>1. 2 \in 1..Len(g) /\ Len(h) + 1 = Len(F) + 2
      BY <1>1, <1>2, <1>3
    <3>2. x[Len(F) + 2] = b
      BY <1>1, <1>2, <1>5, <3>1
    <3>3. y[Len(F) + 2] = b
      BY <1>4, <1>5, <3>1
    <3> QED BY <2>4, <3>2, <3>3
  <2> QED BY <2>1, <2>2, <2>3, <2>4
<1>8. x = y
  BY <1>6, <1>7, SeqEqual
<1> QED BY <1>1, <1>3, <1>5, <1>8

LEMMA MessageGrows ==
  ASSUME NEW text \in Lines, NEW rest \in Seq(Piece), NEW more \in Seq(Piece)
  PROVE  Message(text, Cat(rest, more)) = Cat(Message(text, rest), more)
<1>1. PICK h \in Seq(Piece) : h = <<<<text>>>> \o Blank
  <2>1. PICK a \in Piece : a = <<text>>
    BY MessageIs
  <2>2. <<a>> \o Blank \in Seq(Piece)
    BY NothingIs, HeadLineIs
  <2> QED BY <2>1, <2>2
<1>2. \A r : Message(text, r) = Cat(h, r)
  BY <1>1 DEF Message, Cat
<1>3. Cat(Cat(h, rest), more) = Cat(h, Cat(rest, more))
  BY Regroup
<1> QED BY <1>2, <1>3

\* The stream goes on by some frames, with the bytes W.
GrowsBy(W) ==
    /\ Given' \in Seq(CallFrame) /\ Shaped(Given') /\ Len(Given') > Len(Given)
    /\ \A i \in 1..Len(Given) : Given'[i] = Given[i]
    /\ Bytes(Given') = Cat(Bytes(Given), W)
    /\ unwritten' = W /\ response'.body = response.body

LEMMA StreamGrows ==
  ASSUME AnswerTypes, ControlTypes, GivenInv, AnswerInv, server = "stream", unwritten = <<>>,
         UNCHANGED <<exchange, caller, got, header, frame, events, toClient, died>>,
         server' \in {"stream", "answer"},
         response' \in [body : Seq(Piece), frames : Seq(CallFrame)],
         server' = "stream" => \A i \in DOMAIN Given' : Named(Given'[i]),
         Size(Given) = 5 * Len(Given), NEW W \in Seq(Piece), GrowsBy(W)
  PROVE  AnswerTypes' /\ GivenInv' /\ AnswerInv'
<1>1. /\ Given' \in Seq(CallFrame) /\ Shaped(Given') /\ Len(Given') > Len(Given)
      /\ \A i \in 1..Len(Given) : Given'[i] = Given[i]
      /\ Bytes(Given') = Cat(Bytes(Given), W)
      /\ unwritten' = W /\ response'.body = response.body
  BY DEF GrowsBy
<1>2. response.body = <<>> /\ exchange.kind = "stream"
  BY DEF GivenInv
<1>3. Content = Bytes(Given) /\ Content' = Bytes(Given')
  BY <1>1, <1>2 DEF Content
<1>4. /\ Content \in Seq(Piece) /\ Given \in Seq(CallFrame) /\ Size(Given) \in Nat
      /\ Len(Content) = Size(Given)
  BY <1>2, ContentIs
<1>5. Content' = Cat(Content, W) /\ Len(Content') = Len(Content) + Len(W)
  BY <1>1, <1>3, <1>4, CatIs
<1>6. Size(Given') \in Nat /\ Size(Given) <= Size(Given')
  <2>1. Len(Content') = Size(Given') /\ Size(Given') \in Nat
    <3>1. PICK G \in Seq(CallFrame) : G = Given'
      BY <1>1
    <3>2. Len(Bytes(G)) = Size(G) /\ Size(G) \in Nat
      BY <1>1, <3>1, BytesAre, SizeIs
    <3> QED BY <1>3, <3>1, <3>2
  <2>2. Len(W) \in Nat
    BY LenProperties
  <2> QED BY <1>4, <1>5, <2>1, <2>2
<1>7. Pending' = Cat(Pending, W)
  <2>1. got \in Seq(Piece) /\ toClient \in Seq(Piece)
    BY DEF AnswerTypes
  <2>2. JoinOf(got, toClient, W) = Cat(JoinOf(got, toClient, <<>>), W)
    BY <2>1, JoinEnds
  <2> QED BY <1>1, <2>2 DEF Pending
<1>8. AnswerTypes'
  BY <1>1 DEF AnswerTypes
<1>9. GivenInv'
  BY <1>1, <1>2 DEF GivenInv
<1>10. header' = "open" =>
          /\ \E text \in {"ok", "error"} : Pending' = Message(text, Content')
          /\ exchange'.kind = "stream" => Len(got') < 3
  <2>1. ASSUME header = "open"
        PROVE  \E text \in {"ok", "error"} : Pending' = Message(text, Content')
    <3>1. PICK text \in {"ok", "error"} : Pending = Message(text, Content)
      BY <2>1 DEF AnswerInv
    <3>2. text \in Lines
      BY DEF Lines
    <3>3. Message(text, Cat(Content, W)) = Cat(Message(text, Content), W)
      BY <1>4, <3>2, MessageGrows
    <3>4. Pending' = Message(text, Content')
      BY <1>5, <1>7, <3>1, <3>3
    <3> QED BY <3>4
  <2> QED BY <2>1 DEF AnswerInv
<1>11. header' # "open" =>
          /\ exchange'.kind = "stream"
          /\ \E q \in 0..Size(Given') : Position(q)' /\ Pending' = From(Content', q)
  <2>1. ASSUME header # "open"
        PROVE  \E q \in 0..Size(Given') : Position(q)' /\ Pending' = From(Content', q)
    <3>1. PICK q \in 0..Size(Given) : Position(q) /\ Pending = From(Content, q)
      BY <2>1 DEF AnswerInv
    <3>2. q \in Nat /\ q <= Len(Content) /\ q \in 0..Size(Given')
      BY <1>4, <1>6
    <3>3. From(Cat(Content, W), q) = Cat(From(Content, q), W)
      BY <1>4, <3>2, FromCat
    <3>4. Pending' = From(Content', q)
      BY <1>5, <1>7, <3>1, <3>3
    <3>5. Position(q)'
      <4> DEFINE k == Len(events)
      <4>0. k \in Nat /\ Len(Given) \in Nat /\ Len(Given') \in Nat
        BY <1>1, <1>4, LenProperties DEF AnswerTypes
      <4>1. CASE k = Len(Given) /\ q = Size(Given) /\ frame = NoFrame
        <5>1. k < Len(Given') /\ q = 5 * k
          BY <1>1, <4>0, <4>1
        <5> QED BY <4>1, <5>1 DEF Position
      <4>2. CASE /\ k < Len(Given)
                 /\ \/ q = 5 * k /\ frame = NoFrame
                    \/ /\ q = 5 * k + 2
                       /\ frame = IF Given[k + 1].event = "message" THEN Given[k + 1]
                                  ELSE [event |-> Given[k + 1].event, data |-> <<>>]
                    \/ q = 5 * k + 4 /\ frame = Given[k + 1] /\ Given[k + 1].event # "message"
        <5>1. k < Len(Given') /\ k + 1 \in 1..Len(Given)
          BY <1>1, <4>0, <4>2
        <5>2. Given'[k + 1] = Given[k + 1]
          BY <1>1, <5>1
        <5> QED BY <4>2, <5>1, <5>2 DEF Position
      <4> QED BY <3>1, <4>1, <4>2 DEF Position
    <3> QED BY <3>2, <3>4, <3>5
  <2> QED BY <1>2, <2>1
<1>12. IsPrefix(events', Given')
  <2>1. events \in Seq(CallFrame) /\ IsPrefix(events, Given)
    BY DEF AnswerTypes, AnswerInv
  <2>2. Len(events) <= Len(Given) /\ \A i \in 1..Len(events) : events[i] = Given[i]
    <3>1. PICK s \in Seq(CallFrame), t \in Seq(CallFrame) : s = events /\ t = Given
      BY <1>4, <2>1
    <3>2. IsPrefix(s, t)
      BY <2>1, <3>1
    <3>3. Len(s) <= Len(t) /\ \A i \in 1..Len(s) : s[i] = t[i]
      BY <3>2, PrefixIs
    <3> QED BY <3>1, <3>3
  <2>3. PICK G \in Seq(CallFrame) : G = Given'
    BY <1>1
  <2>4. Len(events) <= Len(G) /\ \A i \in 1..Len(events) : events[i] = G[i]
    <3>1. Len(events) \in Nat /\ Len(Given) \in Nat /\ Len(G) \in Nat
      BY <1>4, <2>1, LenProperties
    <3> QED BY <1>1, <2>2, <2>3, <3>1
  <2>5. IsPrefix(events, G)
    BY <2>1, <2>4, PrefixIs
  <2> QED BY <2>3, <2>5
<1>13. /\ caller' \in {"connect", "write"} => header' = "open"
       /\ header' # "past" => events' = <<>> /\ frame' = NoFrame /\ caller' # "lines"
       /\ caller' = "read" /\ header' = "past" => \A i \in DOMAIN got' : got'[i] # LineFeed
  BY DEF AnswerInv
<1> QED BY <1>8, <1>9, <1>10, <1>11, <1>12, <1>13 DEF AnswerInv

\* A frame the core writes, other than the end mark.
LEMMA FrameIs ==
  ASSUME NEW name \in {"token", "done"}, NEW value \in Payload
  PROVE  /\ [event |-> name, data |-> <<value>>] \in CallFrame
         /\ Named([event |-> name, data |-> <<value>>])
<1>1. <<value>> \in Seq(Payload) /\ <<value>>[1] = value
  BY OneIs
<1> QED BY <1>1 DEF CallFrame, Named

LEMMA NextFrameKeeps ==
  ASSUME AnswerTypes, ControlTypes, GivenInv, AnswerInv, NextFrame
  PROVE  AnswerTypes' /\ GivenInv' /\ AnswerInv'
<1>1. /\ server = "stream" /\ unwritten = <<>>
      /\ UNCHANGED <<exchange, caller, got, header, frame, events, toClient, died>>
  BY DEF NextFrame, clientVars
<1>2. /\ Given \in Seq(CallFrame) /\ response.body = <<>> /\ \A i \in DOMAIN Given : Named(Given[i])
      /\ response \in [body : Seq(Piece), frames : Seq(CallFrame)]
  BY <1>1, ContentIs DEF GivenInv, AnswerTypes
<1>3. Shaped(Given) /\ Len(Given) \in Nat /\ DOMAIN Given = 1..Len(Given)
  BY <1>2, ContentIs, LenProperties
<1>4. ASSUME NEW f \in CallFrame, Named(f), Len(Given) < MaxPushed,
             response' = [response EXCEPT !.frames = Append(@, f)],
             unwritten' = Wire(f), server' = server
      PROVE  AnswerTypes' /\ GivenInv' /\ AnswerInv'
  <2>1. /\ Shaped(Append(Given, f)) /\ Append(Given, f) \in Seq(CallFrame)
        /\ Bytes(Append(Given, f)) = Cat(Bytes(Given), Wire(f)) /\ Size(Given) = 5 * Len(Given)
    BY <1>2, <1>4, BytesGrow DEF Cat
  <2>2. PICK G \in Seq(CallFrame) : G = Append(Given, f)
    BY <2>1
  <2>3. /\ Len(G) = Len(Given) + 1 /\ \A i \in 1..Len(Given) : G[i] = Given[i]
        /\ DOMAIN G = 1..(Len(Given) + 1) /\ G[Len(Given) + 1] = f
    BY <1>2, <2>2, LongerIs
  <2>4. response' = [response EXCEPT !.frames = G]
    BY <1>4, <2>2 DEF Given
  <2>5. Given' = G /\ response'.body = response.body
        /\ response' \in [body : Seq(Piece), frames : Seq(CallFrame)]
    BY <1>2, <2>4 DEF Given
  <2>6. Wire(f) \in Seq(Piece)
    BY <1>4, WireIs
  <2>7. PICK W \in Seq(Piece) : W = Wire(f)
    BY <2>6
  <2>8. GrowsBy(W)
    BY <1>3, <1>4, <2>1, <2>2, <2>3, <2>5, <2>7 DEF GrowsBy
  <2>9. \A i \in DOMAIN Given' : Named(Given'[i])
    <3>1. \A i \in 1..(Len(Given) + 1) : i \in 1..Len(Given) \/ i = Len(Given) + 1
      BY <1>3
    <3> QED BY <1>2, <1>3, <1>4, <2>3, <2>5, <3>1
  <2> QED BY <1>1, <1>4, <2>1, <2>5, <2>8, <2>9, StreamGrows
<1>5. ASSUME NEW f \in CallFrame, Named(f),
             response' = [response EXCEPT !.frames = @ \o <<f, EndMarkFrame>>],
             unwritten' = Wire(f) \o Wire(EndMarkFrame), server' = "answer"
      PROVE  AnswerTypes' /\ GivenInv' /\ AnswerInv'
  <2>0. EndMarkFrame \in CallFrame
    BY EndMarkIs
  <2>1. /\ Shaped(Append(Given, f)) /\ Append(Given, f) \in Seq(CallFrame)
        /\ Bytes(Append(Given, f)) = Cat(Bytes(Given), Wire(f)) /\ Size(Given) = 5 * Len(Given)
    BY <1>2, <1>5, BytesGrow DEF Cat
  <2>2. PICK H \in Seq(CallFrame) : H = Append(Given, f)
    BY <2>1
  <2>3. /\ Len(H) = Len(Given) + 1 /\ \A i \in 1..Len(Given) : H[i] = Given[i]
        /\ DOMAIN H = 1..(Len(Given) + 1) /\ H[Len(Given) + 1] = f
    BY <1>2, <2>2, LongerIs
  <2>4. \A i \in DOMAIN H : Named(H[i])
    <3>1. \A i \in 1..(Len(Given) + 1) : i \in 1..Len(Given) \/ i = Len(Given) + 1
      BY <1>3
    <3> QED BY <1>2, <1>3, <1>5, <2>3, <3>1
  <2>5. /\ Shaped(Append(H, EndMarkFrame)) /\ Append(H, EndMarkFrame) \in Seq(CallFrame)
        /\ Bytes(Append(H, EndMarkFrame)) = Cat(Bytes(H), Wire(EndMarkFrame))
    BY <2>0, <2>4, BytesGrow DEF Cat
  <2>6. PICK G \in Seq(CallFrame) : G = Append(H, EndMarkFrame)
    BY <2>5
  <2>7. Len(G) = Len(H) + 1 /\ \A i \in 1..Len(H) : G[i] = H[i]
    BY <2>0, <2>6, LongerIs
  <2>8. G = Given \o <<f, EndMarkFrame>>
    <3>1. Given \o <<f, EndMarkFrame>> = Append(Append(Given, f), EndMarkFrame)
      BY <1>2, <1>5, <2>0, TwoMore
    <3> QED BY <2>2, <2>6, <3>1
  <2>9. response' = [response EXCEPT !.frames = G]
    BY <1>5, <2>8 DEF Given
  <2>10. Given' = G /\ response'.body = response.body
        /\ response' \in [body : Seq(Piece), frames : Seq(CallFrame)]
    BY <1>2, <2>9 DEF Given
  <2>11. PICK v \in Seq(Piece), w \in Seq(Piece) : v = Wire(f) /\ w = Wire(EndMarkFrame)
    BY <1>5, WireIs
  <2>12. PICK W \in Seq(Piece) : W = Cat(v, w)
    BY CatIs
  <2>13. Bytes(G) = Cat(Bytes(Given), W)
    <3>1. PICK b \in Seq(Piece) : b = Bytes(Given)
      BY <1>2, <1>3, BytesAre
    <3>2. Cat(Cat(b, v), w) = Cat(b, Cat(v, w))
      BY Regroup
    <3> QED BY <2>1, <2>2, <2>5, <2>6, <2>11, <2>12, <3>1, <3>2
  <2>14. unwritten' = W
    BY <1>5, <2>11, <2>12 DEF Cat
  <2>15. Len(Given') > Len(Given) /\ \A i \in 1..Len(Given) : Given'[i] = Given[i]
    <3>1. Len(H) \in Nat /\ 1..Len(Given) \subseteq 1..Len(H)
      BY <1>3, <2>3
    <3> QED BY <1>3, <2>3, <2>7, <2>10, <3>1
  <2>16. GrowsBy(W)
    BY <2>5, <2>6, <2>10, <2>13, <2>14, <2>15 DEF GrowsBy
  <2> QED BY <1>1, <1>5, <2>1, <2>10, <2>16, StreamGrows
<1>6. CASE LET f == [event |-> "token", data |-> <<ToString(Len(response.frames))>>] IN
           /\ Len(response.frames) < MaxPushed
           /\ response' = [response EXCEPT !.frames = Append(@, f)]
           /\ unwritten' = Wire(f) /\ UNCHANGED server
  <2> DEFINE value == ToString(Len(response.frames))
  <2>1. value \in Payload
    <3>1. Len(response.frames) \in 0..MaxPushed
      BY <1>3, <1>6, ConnectionAssumption DEF Given
    <3> QED BY <3>1 DEF Payload
  <2> HIDE DEF value
  <2>2. PICK f \in CallFrame : Named(f) /\ f = [event |-> "token", data |-> <<value>>]
    BY <2>1, FrameIs
  <2>3. /\ response' = [response EXCEPT !.frames = Append(@, f)]
        /\ unwritten' = Wire(f) /\ server' = server /\ Len(Given) < MaxPushed
    BY <1>6, <2>2 DEF value, Given
  <2> QED BY <1>4, <2>2, <2>3
<1>7. CASE LET f == [event |-> "done", data |-> <<"final">>] IN
           /\ response' = [response EXCEPT !.frames = @ \o <<f, EndMarkFrame>>]
           /\ unwritten' = Wire(f) \o Wire(EndMarkFrame) /\ server' = "answer"
  <2>1. "final" \in Payload
    BY DEF Payload
  <2>2. PICK f \in CallFrame : Named(f) /\ f = [event |-> "done", data |-> <<"final">>]
    BY <2>1, FrameIs
  <2> QED BY <1>5, <1>7, <2>2
<1> QED BY <1>6, <1>7 DEF NextFrame

\* What the caller has are the next bytes.
LEMMA NextAre ==
  ASSUME NEW S, NEW s \in Seq(S), NEW a \in Seq(S), NEW b \in Seq(S), NEW c \in Seq(S),
         NEW q \in Nat, q <= Len(c), JoinOf(s, a, b) = From(c, q)
  PROVE  /\ Len(s) \in Nat /\ Len(c) \in Nat /\ q + Len(s) <= Len(c)
         /\ Len(c) - q = Len(s) + Len(a) + Len(b)
         /\ \A i \in 1..Len(s) : s[i] = c[q + i]
<1>1. PICK v \in Seq(S) : v = Cat(a, b) /\ Len(v) = Len(a) + Len(b)
  BY CatIs
<1>2. /\ Len(s) \in Nat /\ Len(c) \in Nat /\ Len(v) \in Nat /\ Len(a) \in Nat /\ Len(b) \in Nat
      /\ q + 1 \in Nat \ {0} /\ Len(c) <= Len(c)
  BY LenProperties
<1>3. PICK m : m = From(c, q)
  OBVIOUS
<1>4. /\ m \in Seq(S) /\ Len(m) = IF q + 1 <= Len(c) THEN Len(c) - (q + 1) + 1 ELSE 0
      /\ \A i \in 1..(Len(c) - (q + 1) + 1) : m[i] = c[(q + 1) + i - 1]
  BY <1>2, <1>3, PartIs DEF From
<1>5. m = Cat(s, v)
  <2>1. Cat(Cat(s, a), b) = Cat(s, Cat(a, b))
    BY Regroup
  <2> QED BY <1>1, <1>3, <2>1 DEF JoinOf
<1>6. Len(m) = Len(s) + Len(v) /\ \A i \in 1..Len(s) : m[i] = s[i]
  BY <1>5, JoinIs DEF Cat
<1>7. Len(m) = Len(c) - q
  BY <1>2, <1>4
<1>8. ASSUME NEW i \in 1..Len(s) PROVE s[i] = c[q + i]
  <2>1. i \in 1..(Len(c) - (q + 1) + 1) /\ (q + 1) + i - 1 = q + i
    BY <1>2, <1>6, <1>7
  <2> QED BY <1>4, <1>6, <2>1
<1>9. q + Len(s) <= Len(c) /\ Len(c) - q = Len(s) + Len(a) + Len(b)
  <2>1. Len(s) + Len(v) = Len(c) - q
    BY <1>6, <1>7
  <2>2. Len(v) = Len(a) + Len(b)
    BY <1>1
  <2> QED BY <1>2, <2>1, <2>2
<1> QED BY <1>2, <1>8, <1>9

\* A line off what the caller has.
LEMMA LineTaken ==
  ASSUME AnswerTypes, ControlTypes, GivenInv, AnswerInv, caller = "lines",
         UNCHANGED <<exchange, caller, header, server, unwritten, response, died, toClient>>,
         NEW q \in Nat, NEW n \in Nat, n <= Len(got), Pending = From(Content, q),
         got' = From(got, n), q + n \in 0..Size(Given), Position(q + n)',
         frame' \in CallFrame, events' \in Seq(CallFrame), IsPrefix(events', Given)
  PROVE  AnswerTypes' /\ GivenInv' /\ AnswerInv'
<1>1. got \in Seq(Piece) /\ toClient \in Seq(Piece) /\ unwritten \in Seq(Piece)
  BY DEF AnswerTypes
<1>2. /\ got' \in Seq(Piece)
      /\ JoinOf(From(got, n), toClient, unwritten) = From(JoinOf(got, toClient, unwritten), n)
  BY <1>1, Taken
<1>3. Given' = Given /\ Content' = Content
  BY DEF Given, Content
<1>4. /\ Content \in Seq(Piece) /\ Size(Given) \in Nat /\ Size(Given) <= Len(Content)
      /\ Len(Content) \in Nat
  BY ContentIs
<1>5. Pending' = From(Content, q + n)
  <2>1. From(From(Content, q), n) = From(Content, q + n)
    <3>1. q + n <= Len(Content)
      BY <1>4
    <3> QED BY <1>4, <3>1, FromFrom
  <2> QED BY <1>2, <2>1 DEF Pending
<1>6. AnswerTypes'
  BY <1>2 DEF AnswerTypes
<1>7. GivenInv'
  BY <1>3 DEF GivenInv
<1>8. header = "past" /\ ~Early /\ exchange.kind = "stream"
  BY DEF AnswerInv, Early, Fresh
<1>9. q + n \in 0..Size(Given') /\ Position(q + n)' /\ Pending' = From(Content', q + n)
  BY <1>3, <1>5
<1>10. \E p \in 0..Size(Given') : Position(p)' /\ Pending' = From(Content', p)
  BY <1>9
<1>11. server' = "closed" /\ ~ClientGone' => unwritten' = <<>>
  BY DEF AnswerInv, ClientGone
<1> QED BY <1>3, <1>6, <1>7, <1>8, <1>10, <1>11 DEF AnswerInv, Early

LEMMA TakeLineKeeps ==
  ASSUME AnswerTypes, ControlTypes, GivenInv, AnswerInv, TakeLine
  PROVE  AnswerTypes' /\ GivenInv' /\ AnswerInv'
<1>0. /\ caller = "lines" /\ got \in Seq(Piece) /\ toClient \in Seq(Piece) /\ unwritten \in Seq(Piece)
      /\ frame \in CallFrame /\ events \in Seq(CallFrame)
      /\ UNCHANGED <<exchange, header, server, unwritten, response, died, toClient>>
  BY DEF TakeLine, serverVars, AnswerTypes
<1>1. header = "past" /\ ~Early /\ exchange.kind = "stream" /\ Len(got) \in Nat /\ DOMAIN got = 1..Len(got)
  BY <1>0, LenProperties DEF AnswerInv, Early, Fresh
<1>2. CASE LineFeed \notin Range(got)
  <2>1. caller' = "read" /\ UNCHANGED <<got, frame, events>>
    BY <1>2 DEF TakeLine
  <2>2. Given' = Given /\ Content' = Content /\ Pending' = Pending
    BY <1>0, <2>1 DEF Given, Content, Pending
  <2>3. \A q : Position(q)' <=> Position(q)
    BY <2>1, <2>2 DEF Position
  <2>4. AnswerTypes'
    BY <1>0, <2>1 DEF AnswerTypes
  <2>5. GivenInv'
    BY <1>0, <2>2 DEF GivenInv
  <2>6. \A i \in DOMAIN got' : got'[i] # LineFeed
    BY <1>2, <2>1 DEF Range
  <2>7. \E q \in 0..Size(Given') : Position(q)' /\ Pending' = From(Content', q)
    BY <1>1, <2>2, <2>3 DEF AnswerInv
  <2>8. server' = "closed" /\ ~ClientGone' => unwritten' = <<>>
    BY <1>0, <2>1 DEF AnswerInv, ClientGone
  <2>9. IsPrefix(events', Given')
    BY <2>1, <2>2 DEF AnswerInv
  <2> QED BY <1>0, <1>1, <2>1, <2>2, <2>4, <2>5, <2>6, <2>7, <2>8, <2>9 DEF AnswerInv, Early
<1>3. CASE LineFeed \in Range(got)
  <2> DEFINE at == FirstLine(got)
             line == SubSeq(got, 1, at - 1)
             k == Len(events)
  <2>1. /\ got' = From(got, at) /\ caller' = caller
        /\ frame' = IF line = <<>> THEN NoFrame
                    ELSE IF line[1][1] = "event" THEN [frame EXCEPT !.event = line[1][2]]
                    ELSE [frame EXCEPT !.data = Append(@, line[1][2])]
        /\ events' = IF line = <<>> /\ frame # NoFrame THEN Append(events, frame) ELSE events
    BY <1>3 DEF TakeLine, FirstLine, From
  <2>2. PICK q \in 0..Size(Given) : Position(q) /\ Pending = From(Content, q)
    BY <1>1 DEF AnswerInv
  <2>3. /\ Content \in Seq(Piece) /\ Given \in Seq(CallFrame) /\ Shaped(Given)
        /\ Size(Given) \in Nat /\ Size(Given) <= Len(Content) /\ Len(Content) \in Nat
    BY ContentIs
  <2>4. q \in Nat /\ q <= Len(Content)
    BY <2>2, <2>3
  <2>5. q + Len(got) <= Len(Content) /\ \A i \in 1..Len(got) : got[i] = Content[q + i]
    BY <1>0, <2>2, <2>3, <2>4, NextAre DEF Pending
  <2>6. PICK j \in 1..Len(got) : got[j] = LineFeed
    BY <1>1, <1>3 DEF Range
  <2>7. response.body = <<>>
    <3>1. ASSUME response.body # <<>> PROVE FALSE
      <4>1. response.body \in Json /\ Content = response.body /\ Size(Given) = 0
        BY <3>1, ContentIs
      <4>2. Len(Content) = 2 /\ Content[1] # LineFeed /\ Content[2] # LineFeed
        BY <4>1, JsonIs
      <4>3. q = 0 /\ q + j = j /\ (j = 1 \/ j = 2)
        BY <1>1, <2>2, <2>5, <4>1, <4>2
      <4> QED BY <2>5, <2>6, <4>2, <4>3
    <3> QED BY <3>1, Zenon
  <2>8. Content = Bytes(Given) /\ Len(Content) = Size(Given)
    BY <2>7, ContentIs
  <2>9. k \in Nat /\ Len(Given) \in Nat /\ k < Len(Given)
    <3>1. q # Size(Given)
      BY <1>1, <2>3, <2>4, <2>5, <2>6, <2>8
    <3> QED BY <1>0, <2>2, <2>3, <3>1, LenProperties DEF Position
  <2>10. PICK g \in CallFrame : g = Given[k + 1]
    <3>1. k + 1 \in 1..Len(Given)
      BY <2>9
    <3> QED BY <2>3, <3>1, ElementOfSeq
  <2>11. \/ q = 5 * k /\ frame = NoFrame
         \/ /\ q = 5 * k + 2
            /\ frame = IF g.event = "message" THEN g ELSE [event |-> g.event, data |-> <<>>]
         \/ q = 5 * k + 4 /\ frame = g /\ g.event # "message"
    BY <2>2, <2>9, <2>10 DEF Position
  <2>12. /\ Named(g) \/ (g = EndMarkFrame /\ k + 1 = Len(Given))
         /\ Len(Given) > k + 1 => Named(g)
    <3>1. k + 1 \in DOMAIN Given
      BY <2>3, <2>9, LenProperties
    <3>2. Named(Given[k + 1]) \/ (Given[k + 1] = EndMarkFrame /\ k + 1 = Len(Given))
      BY <2>3, <3>1 DEF Shaped
    <3>3. Named(g) \/ (g = EndMarkFrame /\ k + 1 = Len(Given))
      BY <2>10, <3>2
    <3> HIDE DEF k
    <3> QED BY <2>9, <3>3
  <2>13. \A o \in 0..(Width(g) - 1) :
            /\ Bytes(Given)[5 * k + o + 1] = AtomOf(g, o)
            /\ 5 * k + o + 1 \in 1..Size(Given)
    <3>1. k + 1 \in 1..Len(Given) /\ (k + 1) - 1 = k
      BY <2>9
    <3> HIDE DEF k
    <3> QED BY <2>3, <2>10, <3>1, BytesAre, SizeIs
  <2>14. k + 1 = Len(Given) => Size(Given) = 5 * k + Width(g)
    <3>1. Len(Given) > 0 => Size(Given) = 5 * (Len(Given) - 1) + Width(Given[Len(Given)])
      BY <2>3, SizeIs
    <3>2. k + 1 = Len(Given) => Len(Given) - 1 = k /\ Given[Len(Given)] = g /\ Len(Given) > 0
      BY <2>9, <2>10
    <3> QED BY <3>1, <3>2
  <2>15. Width(g) = IF g.event = "message" THEN 3 ELSE 5
    BY DEF Width
  <2>16. /\ LineFeed[1] = "nl"
         /\ \A a, b : <<a, b>>[1] = a /\ <<a, b>>[2] = b
    BY PiecesAre
  <2>17. /\ got[1] = Bytes(Given)[q + 1] /\ Len(got) >= 1
         /\ Len(got) >= 2 => got[2] = Bytes(Given)[q + 2]
    BY <1>1, <2>5, <2>6, <2>8
  <2>18. IsPrefix(events, Given)
    BY DEF AnswerInv
  <2> HIDE DEF k
  <2>19. /\ got[1] = LineFeed => /\ at = 1 /\ line = <<>>
         /\ got[1] # LineFeed /\ (Len(got) >= 2 => got[2] = LineFeed) =>
               at = 2 /\ line = <<got[1]>> /\ Len(got) >= 2
    BY <1>0, <1>3, FirstLineIs
  <2> HIDE DEF at, line
  <2>20. ASSUME NEW n \in Nat, at = n, n <= Len(got), q + n \in 0..Size(Given), Position(q + n)',
                frame' \in CallFrame, events' \in Seq(CallFrame), IsPrefix(events', Given)
         PROVE  AnswerTypes' /\ GivenInv' /\ AnswerInv'
    <3>1. got' = From(got, n)
      BY <2>1, <2>20
    <3> QED BY <1>0, <2>1, <2>2, <2>4, <2>20, <3>1, LineTaken
  <2>21. Given' = Given
    BY <1>0 DEF Given
  \* a line with a field of the frame
  <2>22. ASSUME NEW a \in Piece, got[1] = a, a # LineFeed, Len(got) >= 2 => got[2] = LineFeed,
                NEW f \in CallFrame,
                f = IF a[1] = "event" THEN [frame EXCEPT !.event = a[2]]
                    ELSE [frame EXCEPT !.data = Append(@, a[2])],
                q + 2 \in 0..Size(Given),
                \/ /\ q + 2 = 5 * k + 2
                   /\ f = IF g.event = "message" THEN g ELSE [event |-> g.event, data |-> <<>>]
                \/ q + 2 = 5 * k + 4 /\ f = g /\ g.event # "message"
         PROVE  AnswerTypes' /\ GivenInv' /\ AnswerInv'
    <3>1. at = 2 /\ line = <<a>> /\ Len(got) >= 2
      BY <2>19, <2>22
    <3>2. line # <<>> /\ line[1] = a
      <4>1. Len(<<a>>) = 1 /\ <<a>>[1] = a
        BY OneIs
      <4>2. ASSUME line = <<>> PROVE FALSE
        <5>1. Len(line) = 0
          BY <4>2
        <5> QED BY <3>1, <4>1, <5>1
      <4> QED BY <3>1, <4>1, <4>2, Zenon
    <3>3. frame' = f /\ events' = events
      BY <2>1, <2>22, <3>2
    <3>4. Position(q + 2)'
      <4>1. Len(events') = k
        BY <3>3 DEF k
      <4> QED BY <2>9, <2>10, <2>21, <2>22, <3>3, <4>1 DEF Position
    <3> QED BY <1>0, <2>18, <2>20, <2>22, <3>1, <3>3, <3>4
  \* the blank line behind the frame
  <2>23. ASSUME got[1] = LineFeed, frame = g, g # NoFrame, q + 1 \in 0..Size(Given),
                k + 1 < Len(Given) => q + 1 = 5 * (k + 1), k + 1 = Len(Given) => q + 1 = Size(Given)
         PROVE  AnswerTypes' /\ GivenInv' /\ AnswerInv'
    <3>1. at = 1 /\ line = <<>>
      BY <2>19, <2>23
    <3>2. frame' = NoFrame /\ events' = Append(events, g)
      BY <2>1, <2>23, <3>1
    <3>3. PICK e \in Seq(CallFrame) : e = Append(events, g)
      BY <1>0, LongerIs
    <3>4. Len(e) = k + 1 /\ \A i \in 1..k : e[i] = events[i] /\ e[k + 1] = g
      BY <1>0, <3>3, LongerIs DEF k
    <3>5. IsPrefix(e, Given)
      <4>1. k <= Len(Given) /\ \A i \in 1..k : events[i] = Given[i]
        <5>1. Len(events) <= Len(Given) /\ \A i \in 1..Len(events) : events[i] = Given[i]
          <6>1. PICK s \in Seq(CallFrame), t \in Seq(CallFrame) : s = events /\ t = Given
            BY <1>0, <2>3
          <6>2. IsPrefix(s, t)
            BY <2>18, <6>1
          <6>3. Len(s) <= Len(t) /\ \A i \in 1..Len(s) : s[i] = t[i]
            BY <6>2, PrefixIs
          <6> QED BY <6>1, <6>3
        <5> QED BY <5>1 DEF k
      <4>2. ASSUME NEW i \in 1..Len(e) PROVE e[i] = Given[i]
        <5>1. i \in 1..k \/ i = k + 1
          BY <2>9, <3>4
        <5> QED BY <2>10, <3>3, <3>4, <4>1, <5>1, <1>0, LongerIs DEF k
      <4>3. Len(e) <= Len(Given)
        BY <2>9, <3>4
      <4> QED BY <2>3, <4>2, <4>3, PrefixIs
    <3>6. Position(q + 1)'
      <4>1. Len(events') = k + 1
        BY <3>2, <3>3, <3>4
      <4>2. k + 1 = Len(Given) \/ k + 1 < Len(Given)
        BY <2>9
      <4> QED BY <2>21, <2>23, <3>2, <4>1, <4>2 DEF Position
    <3>7. NoFrame \in CallFrame
      BY EndMarkIs
    <3> QED BY <2>17, <2>20, <2>23, <3>1, <3>2, <3>3, <3>5, <3>6, <3>7
  <2>24. CASE Named(g)
    <3>1. /\ g.event \in {"token", "done"} /\ g.event # "message" /\ Width(g) = 5
          /\ g.data = <<g.data[1]>> /\ g.data[1] \in Payload
      BY <2>15, <2>24 DEF Named
    <3>2. g = [event |-> g.event, data |-> <<g.data[1]>>]
      BY <3>1 DEF CallFrame
    <3>3. PICK v \in Payload : v = g.data[1]
      BY <3>1
    <3>4. PICK x \in Piece, y \in Piece : x = <<"event", g.event>> /\ y = <<"data", v>>
      BY <3>1, PiecesAre
    <3>5. /\ x[1] = "event" /\ x[2] = g.event /\ y[1] = "data" /\ y[2] = v
          /\ x # LineFeed /\ y # LineFeed
      BY <2>16, <3>4
    <3>6. /\ AtomOf(g, 0) = x /\ AtomOf(g, 1) = LineFeed /\ AtomOf(g, 2) = y
          /\ AtomOf(g, 3) = LineFeed /\ AtomOf(g, 4) = LineFeed
      BY <3>1, <3>3, <3>4 DEF AtomOf
    <3>7. /\ 0 \in 0..(Width(g) - 1) /\ 1 \in 0..(Width(g) - 1) /\ 2 \in 0..(Width(g) - 1)
          /\ 3 \in 0..(Width(g) - 1) /\ 4 \in 0..(Width(g) - 1)
      BY <3>1
    <3>8. /\ Bytes(Given)[5 * k + 0 + 1] = x /\ Bytes(Given)[5 * k + 1 + 1] = LineFeed
          /\ Bytes(Given)[5 * k + 2 + 1] = y /\ Bytes(Given)[5 * k + 3 + 1] = LineFeed
          /\ Bytes(Given)[5 * k + 4 + 1] = LineFeed /\ 5 * k + 4 + 1 <= Size(Given)
      BY <2>13, <3>6, <3>7
    <3>9. CASE q = 5 * k /\ frame = NoFrame
      <4>1. q + 1 = 5 * k + 0 + 1 /\ q + 2 = 5 * k + 1 + 1 /\ q + 2 \in 0..Size(Given) /\ q + 2 = 5 * k + 2
        BY <2>3, <2>9, <3>8, <3>9
      <4>2. got[1] = x /\ (Len(got) >= 2 => got[2] = LineFeed)
        BY <2>17, <3>8, <4>1
      <4>3. [frame EXCEPT !.event = x[2]] = [event |-> g.event, data |-> <<>>]
        BY <3>5, <3>9 DEF NoFrame
      <4>4. [event |-> g.event, data |-> <<>>] \in CallFrame
        <5>1. <<>> \in Seq(Payload)
          BY EmptySeq
        <5> QED BY <3>1, <5>1 DEF CallFrame
      <4>5. PICK f \in CallFrame : f = [event |-> g.event, data |-> <<>>]
        BY <4>4
      <4> QED BY <2>22, <3>1, <3>5, <4>1, <4>2, <4>3, <4>5
    <3>10. CASE q = 5 * k + 2 /\ frame = [event |-> g.event, data |-> <<>>]
      <4>1. q + 1 = 5 * k + 2 + 1 /\ q + 2 = 5 * k + 3 + 1 /\ q + 2 \in 0..Size(Given) /\ q + 2 = 5 * k + 4
        BY <2>3, <2>9, <3>8, <3>10
      <4>2. got[1] = y /\ (Len(got) >= 2 => got[2] = LineFeed)
        BY <2>17, <3>8, <4>1
      <4>3. [frame EXCEPT !.data = Append(@, y[2])] = g
        <5>1. Append(<<>>, v) = <<v>>
          OBVIOUS
        <5> QED BY <3>2, <3>3, <3>5, <3>10, <5>1
      <4> QED BY <2>22, <3>1, <3>5, <4>1, <4>2, <4>3
    <3>11. CASE q = 5 * k + 4 /\ frame = g
      <4>1. q + 1 = 5 * k + 4 + 1 /\ q + 1 \in 0..Size(Given) /\ q + 1 = 5 * (k + 1)
        BY <2>3, <2>9, <3>8, <3>11
      <4>2. got[1] = LineFeed
        BY <2>17, <3>8, <4>1
      <4>3. g # NoFrame
        BY <3>1, EndMarkIs
      <4>4. k + 1 = Len(Given) => q + 1 = Size(Given)
        BY <2>9, <2>14, <3>1, <3>11
      <4> QED BY <2>23, <3>11, <4>1, <4>2, <4>3, <4>4
    <3> QED BY <2>11, <3>1, <3>9, <3>10, <3>11
  <2>25. CASE g = EndMarkFrame /\ k + 1 = Len(Given)
    <3>1. g.event = "message" /\ Width(g) = 3 /\ g.data = <<"[DONE]">> /\ g.data[1] = "[DONE]"
      BY <2>15, <2>25, EndMarkIs
    <3>2. PICK y \in Piece : y = <<"data", "[DONE]">>
      BY EndMarkIs, PiecesAre
    <3>3. y[1] = "data" /\ y[2] = "[DONE]" /\ y # LineFeed
      BY <2>16, <3>2
    <3>4. AtomOf(g, 0) = y /\ AtomOf(g, 1) = LineFeed /\ AtomOf(g, 2) = LineFeed
      BY <3>1, <3>2 DEF AtomOf
    <3>5. 0 \in 0..(Width(g) - 1) /\ 1 \in 0..(Width(g) - 1) /\ 2 \in 0..(Width(g) - 1)
      BY <3>1
    <3>6. /\ Bytes(Given)[5 * k + 0 + 1] = y /\ Bytes(Given)[5 * k + 1 + 1] = LineFeed
          /\ Bytes(Given)[5 * k + 2 + 1] = LineFeed /\ 5 * k + 2 + 1 <= Size(Given)
      BY <2>13, <3>4, <3>5
    <3>7. g # NoFrame
      <4>1. ASSUME g = NoFrame PROVE FALSE
        <5>1. <<"[DONE]">> = <<>>
          BY <3>1, <4>1, EndMarkIs
        <5>2. Len(<<"[DONE]">>) = 1 /\ Len(<<>>) = 0
          OBVIOUS
        <5> QED BY <5>1, <5>2
      <4> QED BY <4>1, Zenon
    <3>8. CASE q = 5 * k /\ frame = NoFrame
      <4>1. q + 1 = 5 * k + 0 + 1 /\ q + 2 = 5 * k + 1 + 1 /\ q + 2 \in 0..Size(Given) /\ q + 2 = 5 * k + 2
        BY <2>3, <2>9, <3>6, <3>8
      <4>2. got[1] = y /\ (Len(got) >= 2 => got[2] = LineFeed)
        BY <2>17, <3>6, <4>1
      <4>3. [frame EXCEPT !.data = Append(@, y[2])] = g
        <5>1. Append(<<>>, "[DONE]") = <<"[DONE]">>
          OBVIOUS
        <5> QED BY <2>25, <3>3, <3>8, <5>1 DEF NoFrame, EndMarkFrame
      <4> QED BY <2>22, <3>1, <3>3, <4>1, <4>2, <4>3
    <3>9. CASE q = 5 * k + 2 /\ frame = g
      <4>1. q + 1 = 5 * k + 2 + 1 /\ q + 1 \in 0..Size(Given) /\ q + 1 = Size(Given)
        BY <2>3, <2>9, <2>14, <2>25, <3>1, <3>6, <3>9
      <4>2. got[1] = LineFeed
        BY <2>17, <3>6, <4>1
      <4> QED BY <2>9, <2>23, <2>25, <3>7, <3>9, <4>1, <4>2
    <3> QED BY <2>11, <3>1, <3>8, <3>9
  <2> QED BY <2>12, <2>24, <2>25
<1> QED BY <1>2, <1>3

\* The answer is kept whole by every step.
LEMMA AnswerKeeps ==
  ASSUME ConnIInv, [ConnNext]_connVars
  PROVE  AnswerTypes' /\ GivenInv' /\ AnswerInv'
<1>0. AnswerTypes /\ ControlTypes /\ GivenInv /\ AnswerInv
  BY ConnTypes DEF ConnIInv
<1>1. CASE ClientReads
  BY <1>0, <1>1, ReadReads
<1>2. CASE TakeLine
  BY <1>0, <1>2, TakeLineKeeps
<1>3. CASE Answer
  BY <1>0, <1>3, AnswerAnswers
<1>4. CASE OpenStream
  BY <1>0, <1>4, OpenOpens
<1>5. CASE NextFrame
  BY <1>0, <1>5, NextFrameKeeps
<1>6. CASE CoreWrites
  BY <1>0, <1>6, WriteWrites
<1>7. ASSUME DataSame, DataFits PROVE AnswerTypes' /\ GivenInv' /\ AnswerInv'
  BY <1>0, <1>7, DataStays
<1> USE DEF DataSame, DataFits, ClientGone, Early
<1>8. CASE Connect
  <2>1. DataSame /\ DataFits
    BY <1>0, <1>8 DEF Connect, ReturnWith, AnswerInv, Fresh
  <2> QED BY <1>7, <2>1
<1>9. CASE ClientWrite
  <2>1. DataSame /\ DataFits
    BY <1>0, <1>9 DEF ClientWrite, ReturnWith, serverVars, AnswerInv
  <2> QED BY <1>7, <2>1
<1>10. CASE ClientSeesEnd
  <2>1. DataSame /\ DataFits
    BY <1>0, <1>10 DEF ClientSeesEnd, ReturnWith, serverVars, AnswerInv
  <2> QED BY <1>7, <2>1
<1>11. CASE AppQuits
  <2>1. DataSame /\ DataFits
    BY <1>0, <1>11 DEF AppQuits, serverVars, AnswerInv
  <2> QED BY <1>7, <2>1
<1>12. CASE CoreBoots \/ CoreStops
  <2>1. DataSame /\ DataFits
    BY <1>0, <1>12 DEF CoreBoots, CoreStops, clientVars, AnswerInv
  <2> QED BY <1>7, <2>1
<1>13. CASE CoreReads
  <2>1. DataSame /\ server \in {"head", "body"} /\ server' \in {"head", "body", "closed"}
        /\ caller' = caller
    BY <1>13 DEF CoreReads, ReadHead, ReadBody, clientVars
  <2>2. unwritten = <<>>
    BY <1>0, <2>1 DEF AnswerInv, Fresh
  <2>3. DataFits
    BY <2>1, <2>2
  <2> QED BY <1>7, <2>1, <2>3
<1>14. CASE HeadCut \/ Handle
  <2>1. DataSame /\ DataFits
    BY <1>0, <1>14 DEF HeadCut, Handle, clientVars, AnswerInv
  <2> QED BY <1>7, <2>1
<1>15. CASE UNCHANGED connVars
  <2>1. DataSame /\ DataFits
    BY <1>0, <1>15 DEF connVars, clientVars, serverVars, AnswerInv
  <2> QED BY <1>7, <2>1
<1> QED BY <1>1, <1>2, <1>3, <1>4, <1>5, <1>6, <1>8, <1>9, <1>10, <1>11, <1>12, <1>13, <1>14, <1>15
        DEF ConnNext, ClientStep, CoreStep

(***************************************************************************)
(* Calls: what they return                                                 *)
(***************************************************************************)

\* What `parse` makes of a part of the answer.
LEMMA ParsedIs ==
  ASSUME ConnIInv, exchange.kind = "request"
  PROVE  \/ Parsed(got) = Failed("parse")
         \/ /\ Parsed(got).is \in {"ok", "error"} /\ Parsed(got).body \in Seq(Piece)
            /\ JoinOf(Parsed(got).body, toClient, unwritten) = response.body
<1>0. AnswerTypes /\ GivenInv /\ AnswerInv /\ ControlTypes
  BY ConnTypes DEF ConnIInv
<1>1. got \in Seq(Piece) /\ toClient \in Seq(Piece) /\ unwritten \in Seq(Piece)
  BY <1>0 DEF AnswerTypes
<1>2. header = "open" /\ Given = <<>>
  BY <1>0 DEF AnswerInv, GivenInv
<1>3. Content = response.body /\ Content \in Seq(Piece)
  BY <1>0, <1>2, ContentIs, NothingIs
<1>4. CASE Fresh
  <2>1. got = <<>> /\ Len(got) = 0
    BY <1>4, NothingIs DEF Fresh
  <2>2. Headed(got)
    BY <2>1 DEF Headed
  <2>3. HeaderEnd(got) = 0
    <3>1. HeaderEnd(got) = IF Len(got) < 3 THEN 0 ELSE 3
      BY <1>1, <2>2, HeaderIs
    <3>2. Len(got) < 3
      BY <2>1
    <3> QED BY <3>1, <3>2
  <2> QED BY <2>3 DEF Parsed
<1>5. CASE \E text \in {"ok", "error"} : Pending = Message(text, Content)
  <2>1. PICK text \in {"ok", "error"} : Pending = Message(text, Content)
    BY <1>5
  <2>2. text \in Lines
    BY DEF Lines
  <2>3. /\ Behind(got) \in Seq(Piece)
        /\ HeaderEnd(got) # 0 => JoinOf(Behind(got), toClient, unwritten) = Content /\ got[1] = <<text>>
    BY <1>1, <1>3, <2>1, <2>2, FrontIs DEF Pending
  <2>4. <<text>>[1] = text
    BY PiecesAre
  <2> QED BY <1>3, <2>3, <2>4 DEF Parsed
<1> QED BY <1>0, <1>2, <1>4, <1>5 DEF AnswerInv

\* A call that has read all there is has the whole answer.
LEMMA EndSeen ==
  ASSUME ConnIInv, caller = "read", ServerGone, ~died, toClient = <<>>
  PROVE  /\ server = "closed"
         /\ exchange.kind = "request" =>
               \/ Parsed(got) = Failed("parse")
               \/ /\ Parsed(got).is \in {"ok", "error"} /\ Parsed(got).body = response.body
                  /\ response.body \in Seq(Piece)
         /\ exchange.kind = "stream" /\ header # "read" => events = Given
<1>0. AnswerTypes /\ RequestInv /\ GivenInv /\ AnswerInv /\ ControlTypes
  BY ConnTypes DEF ConnIInv
<1>1. server = "closed" /\ unwritten = <<>>
  <2>1. server # "down"
    BY <1>0 DEF RequestInv
  <2>2. server = "closed"
    BY <2>1 DEF ServerGone
  <2> QED BY <1>0, <2>2 DEF AnswerInv, ClientGone
<1>2. /\ got \in Seq(Piece) /\ Len(got) \in Nat /\ DOMAIN got = 1..Len(got)
      /\ events \in Seq(CallFrame) /\ response.body \in Seq(Piece)
  BY <1>0, LenProperties DEF AnswerTypes
<1>3. Pending = got
  BY <1>1, <1>2, JoinEnds DEF Pending
<1>4. /\ Content \in Seq(Piece) /\ Given \in Seq(CallFrame) /\ Shaped(Given)
      /\ Size(Given) \in Nat /\ Size(Given) <= Len(Content) /\ Len(Content) \in Nat
      /\ response.body # <<>> => Content = response.body /\ Given = <<>>
      /\ response.body = <<>> => Content = Bytes(Given) /\ Len(Content) = Size(Given)
  BY <1>0, ContentIs
<1>5. ASSUME header = "open"
      PROVE  Fresh \/ \E text \in {"ok", "error"} : got = Message(text, Content)
  BY <1>0, <1>3, <1>5 DEF AnswerInv
<1>6. ASSUME exchange.kind = "request"
      PROVE  \/ Parsed(got) = Failed("parse")
             \/ Parsed(got).is \in {"ok", "error"} /\ Parsed(got).body = response.body
  <2>1. \/ Parsed(got) = Failed("parse")
        \/ /\ Parsed(got).is \in {"ok", "error"} /\ Parsed(got).body \in Seq(Piece)
           /\ JoinOf(Parsed(got).body, toClient, unwritten) = response.body
    BY <1>6, ParsedIs
  <2>2. \A b \in Seq(Piece) : JoinOf(b, toClient, unwritten) = b
    BY <1>1, JoinEnds
  <2> QED BY <2>1, <2>2
<1>7. ASSUME exchange.kind = "stream", header # "read" PROVE events = Given
  <2>1. CASE header = "open"
    <3>1. Len(got) < 3 /\ events = <<>>
      BY <1>0, <1>7, <2>1 DEF AnswerInv
    <3>2. ASSUME NEW text \in {"ok", "error"} PROVE got # Message(text, Content)
      <4>1. text \in Lines
        BY DEF Lines
      <4>2. Len(Message(text, Content)) = Len(Content) + 3
        BY <1>4, <4>1, MessageIs
      <4> QED BY <1>2, <1>4, <3>1, <4>2
    <3>3. Fresh
      BY <1>5, <2>1, <3>2
    <3> QED BY <3>1, <3>3 DEF Fresh, Given
  <2>2. CASE header # "open"
    <3> DEFINE k == Len(events)
    <3>1. \A i \in DOMAIN got : got[i] # LineFeed
      BY <1>0, <1>7, <2>2 DEF AnswerInv, ControlTypes
    <3>2. PICK q \in 0..Size(Given) : Position(q) /\ got = From(Content, q)
      BY <1>0, <1>3, <2>2 DEF AnswerInv
    <3>3. /\ k \in Nat /\ Len(Given) \in Nat /\ k <= Len(Given)
          /\ \A i \in 1..k : events[i] = Given[i]
      <4>1. IsPrefix(events, Given)
        BY <1>0 DEF AnswerInv
      <4> QED BY <1>2, <1>4, <4>1, PrefixIs, LenProperties
    <3>4. ASSUME k # Len(Given) PROVE FALSE
      <4>1. k < Len(Given) /\ k + 1 \in 1..Len(Given) /\ (k + 1) - 1 = k /\ Len(Given) > 0
        BY <3>3, <3>4
      <4>2. \/ q = 5 * k
            \/ q = 5 * k + 2
            \/ q = 5 * k + 4 /\ Given[k + 1].event # "message"
        BY <3>2, <4>1 DEF Position
      <4>3. \A o \in 0..(Width(Given[k + 1]) - 1) : 5 * ((k + 1) - 1) + o + 1 \in 1..Size(Given)
        BY <1>4, <4>1, SizeIs
      <4>4. /\ 0 \in 0..(Width(Given[k + 1]) - 1) /\ 2 \in 0..(Width(Given[k + 1]) - 1)
            /\ Given[k + 1].event # "message" => 4 \in 0..(Width(Given[k + 1]) - 1)
        BY DEF Width
      <4>5. q < Size(Given)
        <5>1. 5 * k + 0 + 1 <= Size(Given) /\ 5 * k + 2 + 1 <= Size(Given)
              /\ (Given[k + 1].event # "message" => 5 * k + 4 + 1 <= Size(Given))
          BY <1>4, <4>1, <4>3, <4>4
        <5> QED BY <1>4, <3>3, <4>2, <5>1
      <4>6. response.body = <<>>
        <5>1. Len(Given) # 0
          BY <4>1
        <5> QED BY <1>4, <5>1, NothingIs
      <4>7. Bytes(Given)[Size(Given)] = LineFeed
        BY <1>4, <4>1, LastIs
      <4>8. PICK e \in Seq(Piece) : e = <<>> /\ Len(e) = 0
        BY NothingIs
      <4>9. JoinOf(got, e, e) = From(Content, q)
        BY <1>2, <3>2, <4>8, JoinEnds
      <4>10. /\ Len(Content) - q = Len(got) + Len(e) + Len(e)
             /\ \A i \in 1..Len(got) : got[i] = Content[q + i]
        <5>1. q \in Nat /\ q <= Len(Content)
          BY <1>4, <3>2
        <5>2. PICK c \in Seq(Piece) : c = Content
          BY <1>4
        <5>4. JoinOf(got, e, e) = From(c, q) /\ q \in Nat /\ q <= Len(c)
          BY <4>9, <5>1, <5>2
        <5>3. /\ Len(c) - q = Len(got) + Len(e) + Len(e)
              /\ \A i \in 1..Len(got) : got[i] = c[q + i]
          BY <1>2, <5>4, NextAre
        <5> QED BY <5>2, <5>3
      <4>11. Len(got) \in 1..Len(got) /\ q + Len(got) = Size(Given)
        <5>1. Len(Content) = Size(Given) /\ Len(e) = 0 /\ q \in Nat /\ Size(Given) \in Nat
          BY <1>4, <3>2, <4>6, <4>8
        <5>2. Len(Content) - q = Len(got) + Len(e) + Len(e)
          BY <4>10
        <5>3. Size(Given) - q = Len(got)
          BY <1>2, <5>1, <5>2
        <5>4. Len(got) >= 1 /\ q + Len(got) = Size(Given)
          BY <4>5, <5>1, <5>3
        <5> QED BY <1>2, <5>4
      <4>12. got[Len(got)] = LineFeed
        BY <1>4, <4>6, <4>7, <4>10, <4>11
      <4> QED BY <1>2, <3>1, <4>11, <4>12
    <3>5. Len(events) = Len(Given) /\ \A i \in 1..Len(events) : events[i] = Given[i]
      BY <3>3, <3>4
    <3> QED BY <1>2, <1>4, <3>5, SeqEqual
  <2> QED BY <2>1, <2>2
<1> QED BY <1>1, <1>2, <1>6, <1>7 DEF ControlTypes

LEMMA ResultKeeps ==
  ASSUME ConnIInv, [ConnNext]_connVars
  PROVE  ResultTypes' /\ ResultInv'
<1>0. ResultTypes /\ ResultInv /\ ControlTypes
  BY ConnTypes DEF ConnIInv
<1> DEFINE Stays ==
      /\ died => died'
      /\ caller = "back" => caller' = "back" /\ result' = result
      /\ server = "closed" /\ caller = "back" => UNCHANGED <<server, response, header, events>>
      /\ result' = result \/ Connect \/ ClientWrite \/ ClientSeesEnd
<1>1. Stays
  <2>1. CASE Connect \/ ClientWrite \/ ClientSeesEnd
    BY <2>1 DEF Connect, ClientWrite, ClientSeesEnd, serverVars
  <2>2. CASE ClientReads \/ AppQuits
    BY <2>2 DEF ClientReads, AppQuits, serverVars
  <2>6. CASE TakeLine
    <3>1. caller = "lines" /\ result' = result /\ died' = died
      BY <2>6 DEF TakeLine, serverVars
    <3> QED BY <3>1
  <2>3. CASE CoreBoots \/ CoreStops \/ CoreReads \/ HeadCut \/ Handle
    BY <2>3 DEF CoreBoots, CoreStops, CoreReads, ReadHead, ReadBody, HeadCut, Handle, clientVars
  <2>4. CASE Answer \/ OpenStream \/ NextFrame \/ CoreWrites
    <3>1. CASE OpenStream \/ CoreWrites
      BY <3>1 DEF OpenStream, CoreWrites, clientVars
    <3>2. CASE Answer
      <4>1. server # "closed" /\ UNCHANGED <<caller, result, died>>
        BY <3>2 DEF Answer, clientVars
      <4> QED BY <4>1
    <3>3. CASE NextFrame
      <4>1. server # "closed" /\ UNCHANGED <<caller, result, died>>
        BY <3>3 DEF NextFrame, clientVars
      <4> QED BY <4>1
    <3> QED BY <2>4, <3>1, <3>2, <3>3
  <2>5. CASE UNCHANGED connVars
    BY <2>5 DEF connVars, clientVars, serverVars
  <2> HIDE DEF Stays
  <2> QED BY <2>1, <2>2, <2>3, <2>4, <2>5, <2>6 DEF ConnNext, ClientStep, CoreStep
<1>2. CASE result' = result
  <2>1. Given' = Given \/ ~(server = "closed" /\ caller = "back")
    BY <1>1 DEF Given
  <2> QED BY <1>0, <1>1, <1>2, <2>1 DEF ResultTypes, ResultInv
<1>3. ASSUME NEW at \in {"connect", "io"}, result' = Failed(at), caller' = "back"
      PROVE  ResultTypes' /\ ResultInv'
  <2>1. <<>> \in Seq(Piece)
    BY NothingIs
  <2> QED BY <1>3, <2>1 DEF Failed, ResultTypes, ResultInv
<1>4. CASE Connect /\ result' # result
  BY <1>3, <1>4 DEF Connect, ReturnWith
<1>5. CASE ClientWrite /\ result' # result
  BY <1>3, <1>5 DEF ClientWrite, ReturnWith
<1>6. CASE ClientSeesEnd
  <2>1. /\ caller = "read" /\ ServerGone /\ caller' = "back"
        /\ UNCHANGED <<server, response, died, header, events>>
        /\ \/ /\ toClient = <<>>
              /\ result' = IF exchange.kind = "stream" THEN Success ELSE Parsed(got)
           \/ died /\ result' = Failed("io")
    BY <1>6 DEF ClientSeesEnd, ReturnWith, serverVars
  <2>2. Given' = Given
    BY <2>1 DEF Given
  <2>3. CASE died /\ result' = Failed("io")
    BY <1>3, <2>1, <2>3
  <2>4. <<>> \in Seq(Piece)
    BY NothingIs
  <2>5. CASE toClient = <<>> /\ exchange.kind = "stream"
                             /\ result' = IF exchange.kind = "stream" THEN Success ELSE Parsed(got)
    <3>1. result'.is = "success" /\ result'.body = <<>>
      BY <2>5 DEF Success
    <3>2. ~died => server = "closed" /\ (header # "read" => events = Given)
      BY <2>1, <2>5, EndSeen
    <3> QED BY <2>1, <2>2, <2>4, <3>1, <3>2 DEF ResultTypes, ResultInv
  <2>6. CASE toClient = <<>> /\ exchange.kind # "stream"
                             /\ result' = IF exchange.kind = "stream" THEN Success ELSE Parsed(got)
    <3>1. result' = Parsed(got) /\ exchange.kind = "request"
      BY <1>0, <2>6 DEF ControlTypes
    <3>2. ~died => /\ server = "closed"
                   /\ \/ result' = Failed("parse")
                      \/ /\ result'.is \in {"ok", "error"} /\ result'.body = response.body
                         /\ response.body \in Seq(Piece)
      BY <2>1, <2>6, <3>1, EndSeen
    <3>5. Failed("parse").is = "parse" /\ Failed("parse").body = <<>>
      BY DEF Failed
    <3>3. CASE ~died
      <4>1. /\ result'.body \in Seq(Piece)
            /\ \/ result'.is = "parse"
               \/ result'.is \in {"ok", "error"} /\ result'.body = response.body
        BY <2>4, <3>2, <3>3, <3>5
      <4> QED BY <2>1, <2>2, <3>2, <3>3, <4>1 DEF ResultTypes, ResultInv
    <3>4. CASE died
      <4>1. \/ result' = Failed("parse")
            \/ result'.is \in {"ok", "error"} /\ result'.body \in Seq(Piece)
        BY <3>1, ParsedIs
      <4>2. ResultTypes'
        BY <2>4, <3>5, <4>1 DEF ResultTypes
      <4> QED BY <2>1, <3>4, <3>5, <4>1, <4>2 DEF ResultInv
    <3> QED BY <3>3, <3>4
  <2> QED BY <2>1, <2>3, <2>5, <2>6
<1> QED BY <1>1, <1>2, <1>4, <1>5, <1>6

(***************************************************************************)
(* Calls: every reachable state                                            *)
(***************************************************************************)

LEMMA ConnBegins == ConnInit => ConnIInv
<1> SUFFICES ASSUME ConnInit PROVE ConnIInv
  OBVIOUS
<1>1. /\ exchange \in [kind : {"request", "stream"}, length : Bodies]
      /\ caller = "connect" /\ tries = 0 /\ unsent = Request
      /\ got = <<>> /\ header = "open" /\ frame = NoFrame /\ events = <<>> /\ result = NoResult
      /\ server \in {"down", "up"} /\ buf = <<>> /\ handled = Unhandled /\ unwritten = <<>>
      /\ toServer = <<>> /\ toClient = <<>>
      /\ response = [body |-> <<>>, frames |-> <<>>] /\ died = FALSE
  BY DEF ConnInit
<1>2. /\ <<>> \in Seq(Piece) /\ <<>> \in Seq(CallFrame) /\ Len(<<>>) = 0 /\ Shaped(<<>>)
      /\ IsPrefix(<<>>, <<>>) /\ NoFrame \in CallFrame
  BY NothingIs, EndMarkIs
<1>3. exchange.length \in Bodies
  BY <1>1
<1>4. Request \in Seq(Piece)
  BY <1>3, RequestIs
<1>5. Tries \in Nat \ {0} /\ Room \in Nat \ {0}
  BY ConnectionAssumption
<1>6. ControlTypes
  <2>1. tries \in 0..Tries
    BY <1>1, <1>5
  <2>2. died \in BOOLEAN
    BY <1>1
  <2> QED BY <1>1, <2>1, <2>2 DEF ControlTypes
<1>7. RequestTypes
  BY <1>1, <1>2, <1>4, <1>5 DEF RequestTypes
<1>8. Given = <<>> /\ response.body = <<>>
  BY <1>1 DEF Given
<1>9. AnswerTypes
  BY <1>1, <1>2, <1>5 DEF AnswerTypes
<1>10. ResultTypes
  BY <1>1, <1>2 DEF ResultTypes, NoResult
<1>11. RequestInv
  BY <1>1, <1>5 DEF RequestInv
<1>12. GivenInv
  BY <1>1, <1>2, <1>8 DEF GivenInv
<1>13. Fresh
  BY <1>1 DEF Fresh
<1>14. AnswerInv
  BY <1>1, <1>2, <1>8, <1>13 DEF AnswerInv
<1>15. ResultInv
  BY <1>1 DEF ResultInv, NoResult
<1> QED BY <1>6, <1>7, <1>9, <1>10, <1>11, <1>12, <1>14, <1>15, ConnTypes DEF ConnIInv

LEMMA ConnInductive == ConnIInv /\ [ConnNext]_connVars => ConnIInv'
<1> SUFFICES ASSUME ConnIInv, [ConnNext]_connVars PROVE ConnIInv'
  OBVIOUS
<1>1. ControlTypes'
  BY ControlKeeps DEF ConnIInv
<1>2. RequestTypes' /\ RequestInv'
  BY RequestKeeps
<1>3. AnswerTypes' /\ GivenInv' /\ AnswerInv'
  BY AnswerKeeps
<1>4. ResultTypes' /\ ResultInv'
  BY ResultKeeps
<1>5. ConnTypeOK'
  BY <1>1, <1>2, <1>3, <1>4 DEF ConnTypeOK, ControlTypes, RequestTypes, AnswerTypes, ResultTypes
<1> QED BY <1>2, <1>3, <1>4, <1>5 DEF ConnIInv

LEMMA ConnInvariant == ConnSpec => []ConnIInv
BY ConnBegins, ConnInductive, PTL DEF ConnSpec

\* The two sides of a call and the two buffers hold what their types allow, and the
\* buffers never more than they have room for.
THEOREM ConnTypeCorrect == ConnSpec => []ConnTypeOK
<1>1. ConnIInv => ConnTypeOK
  BY DEF ConnIInv
<1> QED BY <1>1, ConnInvariant, PTL

\* However the bytes of a call are cut by the reads and writes of `UDSClient` and
\* `handle_conn`, with whatever room the buffers have: the handler is run on the whole
\* body or on none, an answer that is returned is the one that was given, and the
\* frames handed over are those of the stream, in their order and all of them.
THEOREM ExchangeStaysWhole == ConnSpec => []ExchangeWhole
<1>1. ConnIInv => ExchangeWhole
  BY DEF ConnIInv, RequestInv, AnswerInv, ResultInv, ExchangeWhole, Given
<1> QED BY <1>1, ConnInvariant, PTL
==============================================================================
