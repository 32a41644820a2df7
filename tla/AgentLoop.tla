----------------------------- MODULE AgentLoop ------------------------------
(***************************************************************************)
(* The agent loop (ginexus-agent/loop_.rs) as the server drives it:        *)
(* several requests run at once against one approval verifier, each a loop *)
(* of model turns and tool calls that may fan out into read-only workers.  *)
(*                                                                         *)
(* Agent <<r, 0>> is the loop of request r; <<r, k>> is its worker k,      *)
(* alive while a delegate or deep_research call is being joined.  What the *)
(* model answers is arbitrary: a final answer or any turn of Turns.  A     *)
(* model call costs one unit of usage.                                     *)
(***************************************************************************)
EXTENDS ApprovalVerifier, Sequences

CONSTANTS
    Runs,               \* requests that may be served at the same time
    Irreversible,       \* calls of tools that change something
    HardGated,          \* calls of tools gated in every mode
    Unregistered,       \* calls of tools no registry holds
    AllowListed,        \* HitlPolicy.allow; the server's is empty
    Turns,              \* the model's non-empty tool-call turns
    Modes,              \* autonomy modes requests ask for
    GrantCounts,        \* bound: how many grants a request carries
    MaxIters,           \* AgentLoop.max_iters of a request
    MaxWorkerIters,     \* the cap of max_iters for a worker (4 in the code)
    MaxSubtasks,        \* MAX_SUBTASKS
    MaxCouncil,         \* MAX_COUNCIL
    MaxSyntheticCalls,  \* MAX_SYNTHETIC_CALLS
    NoToken             \* an execution that needed no approval

Synthetic == {"delegate", "deep_research", "council"}

ASSUME CallAssumption ==
    /\ HardGated \subseteq Irreversible
    /\ Irreversible \subseteq Calls
    /\ Unregistered \subseteq Calls
    /\ Unregistered \cap Irreversible = {}
    /\ AllowListed \subseteq Calls
    /\ Calls \cap Synthetic = {}
    /\ Turns \subseteq Seq(Calls \cup Synthetic) \ {<<>>}
    /\ Modes \subseteq {"hitl", "autonomous"}

ASSUME LoopBoundAssumption ==
    /\ GrantCounts \subseteq Nat
    /\ MaxIters \in Nat
    /\ MaxWorkerIters \in Nat
    /\ MaxSubtasks \in Nat
    /\ MaxCouncil \in Nat
    /\ MaxSyntheticCalls \in Nat

ASSUME NoTokenAssumption == NoToken \notin Token

VARIABLES
    req,        \* per run: the request's mode and grants, and its now_ms
    synth,      \* per run: synthetic_used
    tok,        \* per run: the token the call being run was approved with
    pc,         \* per agent: where its loop is
    iter,       \* per agent: model turns taken
    queue,      \* per agent: calls of the turn not yet handled
    usage,      \* per agent: total_usage of its result so far
    spent,      \* history, per run: model calls made on its behalf
    effects,    \* history: the executions of irreversible tools
    uses        \* history, per nonce: executions approved with it

loopVars == <<req, synth, tok, pc, iter, queue, usage, spent, effects, uses>>
vars == <<approvalVars, loopVars>>

Agents == Runs \X (0..MaxSubtasks)
Top(r) == <<r, 0>>
IsTop(a) == a[2] = 0
Workers(r) == {a \in Agents : a[1] = r /\ ~IsTop(a)}

Ended == {"final", "pending_approval", "max_iters"}
PCs == {"idle", "model", "calls", "run", "delegate", "deep_research"} \cup Ended

Request == [mode : {"hitl", "autonomous"}, grants : Seq(Token), now : Nat]
Effect == [call : Calls, tok : Token \cup {NoToken}, mode : {"hitl", "autonomous"},
           top : BOOLEAN, now : Nat, at : Nat, boot : Nat]

GateTypeOK ==
    /\ ApprovalTypeOK
    /\ req \in [Runs -> Request]
    /\ tok \in [Runs -> Token \cup {NoToken}]
    /\ pc \in [Agents -> PCs]
    /\ queue \in [Agents -> Seq(Calls \cup Synthetic)]
    /\ effects \in SUBSET Effect
    /\ uses \in [Nonces -> Nat]

CostTypeOK ==
    /\ synth \in [Runs -> 0..MaxSyntheticCalls]
    /\ iter \in [Agents -> 0..MaxIters]
    /\ \A a \in Agents : ~IsTop(a) => iter[a] <= MaxWorkerIters
    /\ usage \in [Agents -> Nat]
    /\ spent \in [Runs -> Nat]

TypeOK == GateTypeOK /\ CostTypeOK

NoRequest == [mode |-> "hitl", grants |-> <<>>, now |-> 0]

Init ==
    /\ ApprovalInit
    /\ req = [r \in Runs |-> NoRequest]
    /\ synth = [r \in Runs |-> 0]
    /\ tok = [r \in Runs |-> NoToken]
    /\ pc = [a \in Agents |-> "idle"]
    /\ iter = [a \in Agents |-> 0]
    /\ queue = [a \in Agents |-> <<>>]
    /\ usage = [a \in Agents |-> 0]
    /\ spent = [r \in Runs |-> 0]
    /\ effects = {}
    /\ uses = [n \in Nonces |-> 0]

-----------------------------------------------------------------------------
(* The app and the clock *)

AppMint == \E c \in Irreversible, b \in 0..boot : Mint(c, b) /\ UNCHANGED loopVars

Time == Tick /\ UNCHANGED loopVars

-----------------------------------------------------------------------------
(* One request: POST /v1/agent and /v1/agent/stream *)

\* The handler parses the grants and reads the clock once for the whole run.
Begin(r) ==
    /\ pc[Top(r)] = "idle"
    /\ \E m \in Modes, n \in GrantCounts : \E gs \in [1..n -> Presented] :
         req' = [req EXCEPT ![r] = [mode |-> m, grants |-> gs, now |-> clock]]
    /\ pc' = [pc EXCEPT ![Top(r)] = "model"]
    /\ UNCHANGED <<approvalVars, synth, tok, iter, queue, usage, spent, effects, uses>>

\* The answer is written, the connection closed and the run's locals dropped.
Reply(r) ==
    /\ pc[Top(r)] \in Ended
    /\ pc' = [pc EXCEPT ![Top(r)] = "idle"]
    /\ queue' = [queue EXCEPT ![Top(r)] = <<>>]
    /\ req' = [req EXCEPT ![r] = NoRequest]
    /\ iter' = [iter EXCEPT ![Top(r)] = 0]
    /\ usage' = [usage EXCEPT ![Top(r)] = 0]
    /\ synth' = [synth EXCEPT ![r] = 0]
    /\ spent' = [spent EXCEPT ![r] = 0]
    /\ UNCHANGED <<approvalVars, tok, effects, uses>>

WorkerIters == IF MaxIters < MaxWorkerIters THEN MaxIters ELSE MaxWorkerIters
Limit(a) == IF IsTop(a) THEN MaxIters ELSE WorkerIters

\* One model call: a final answer, or a turn of tool calls.
ModelTurn(a) ==
    /\ pc[a] = "model"
    /\ iter[a] < Limit(a)
    /\ iter' = [iter EXCEPT ![a] = @ + 1]
    /\ usage' = [usage EXCEPT ![a] = @ + 1]
    /\ spent' = [spent EXCEPT ![a[1]] = @ + 1]
    /\ \/ /\ pc' = [pc EXCEPT ![a] = "final"]
          /\ UNCHANGED queue
       \/ \E t \in Turns :
            /\ queue' = [queue EXCEPT ![a] = t]
            /\ pc' = [pc EXCEPT ![a] = "calls"]
    /\ UNCHANGED <<approvalVars, req, synth, tok, effects, uses>>

OutOfIters(a) ==
    /\ pc[a] = "model"
    /\ iter[a] >= Limit(a)
    /\ pc' = [pc EXCEPT ![a] = "max_iters"]
    /\ UNCHANGED <<approvalVars, req, synth, tok, iter, queue, usage, spent, effects, uses>>

-----------------------------------------------------------------------------
(* The calls of a turn, one after the other *)

AtCall(a) == pc[a] = "calls"
Call(a) == Head(queue[a])

\* Drop the handled call; after the last one the loop asks the model again.
NextCall(a) ==
    /\ queue' = [queue EXCEPT ![a] = Tail(@)]
    /\ pc' = [pc EXCEPT ![a] = IF Len(queue[a]) > 1 THEN "calls" ELSE "model"]

\* Synthetic tools exist for the top loop only.
IsSynthetic(a) == IsTop(a) /\ Call(a) \in Synthetic

SyntheticRefused(r) ==
    /\ AtCall(Top(r))
    /\ IsSynthetic(Top(r))
    /\ synth[r] >= MaxSyntheticCalls
    /\ NextCall(Top(r))
    /\ UNCHANGED <<approvalVars, req, synth, tok, iter, usage, spent, effects, uses>>

StartSyntheticUnbudgeted(r, name) ==
    /\ AtCall(Top(r))
    /\ Call(Top(r)) = name
    /\ UNCHANGED synth

StartSynthetic(r, name) ==
    /\ AtCall(Top(r))
    /\ Call(Top(r)) = name
    /\ synth[r] < MaxSyntheticCalls
    /\ synth' = [synth EXCEPT ![r] = @ + 1]

\* A missing task, question or persona list: an error, no model call.
SyntheticError(r, name) ==
    /\ StartSynthetic(r, name)
    /\ NextCall(Top(r))
    /\ UNCHANGED <<approvalVars, req, tok, iter, usage, spent, effects, uses>>

\* N opinions and one synthesis, all calls of the bound model.
Council(r) ==
    /\ StartSynthetic(r, "council")
    /\ \E n \in 1..MaxCouncil :
         /\ usage' = [usage EXCEPT ![Top(r)] = @ + n + 1]
         /\ spent' = [spent EXCEPT ![r] = @ + n + 1]
    /\ NextCall(Top(r))
    /\ UNCHANGED <<approvalVars, req, tok, iter, effects, uses>>

\* run_workers: one fresh loop per task, all running together.
StartWorkers(r, name) ==
    \E n \in 1..MaxSubtasks :
      LET started == {a \in Workers(r) : a[2] <= n} IN
        /\ pc' = [a \in Agents |-> IF a \in started THEN "model"
                                   ELSE IF a = Top(r) THEN name ELSE pc[a]]

Delegate(r) ==
    /\ StartSynthetic(r, "delegate")
    /\ StartWorkers(r, "delegate")
    /\ UNCHANGED <<approvalVars, req, tok, iter, queue, usage, spent, effects, uses>>

\* The decomposition is a model call of its own.
DeepResearch(r) ==
    /\ StartSynthetic(r, "deep_research")
    /\ StartWorkers(r, "deep_research")
    /\ usage' = [usage EXCEPT ![Top(r)] = @ + 1]
    /\ spent' = [spent EXCEPT ![r] = @ + 1]
    /\ UNCHANGED <<approvalVars, req, tok, iter, queue, effects, uses>>

RolledUpWithout(r) == usage[Top(r)]
\* join_all: when every worker has ended, their usage rolls up into the run, one
\* result after the other; deep_research then makes its synthesis call.
Total(u, r) ==
    LET upTo[k \in 0..MaxSubtasks] ==
          IF k = 0 THEN u[Top(r)] ELSE upTo[k - 1] + u[<<r, k>>]
    IN  upTo[MaxSubtasks]
RolledUp(r) == Total(usage, r)

JoinableFinalOnly(r) == \A a \in Workers(r) : pc[a] \in {"final", "idle"}
Joinable(r) == \A a \in Workers(r) : pc[a] \in Ended \cup {"idle"}

Join(r) ==
    /\ pc[Top(r)] \in {"delegate", "deep_research"}
    /\ Joinable(r)
    /\ LET report == IF pc[Top(r)] = "deep_research" THEN 1 ELSE 0 IN
         /\ usage' = [a \in Agents |->
                        IF a = Top(r) THEN RolledUp(r) + report
                        ELSE IF a[1] = r THEN 0 ELSE usage[a]]
         /\ spent' = [spent EXCEPT ![r] = @ + report]
    /\ queue' = [a \in Agents |-> IF a = Top(r) THEN Tail(queue[a])
                                  ELSE IF a[1] = r THEN <<>> ELSE queue[a]]
    /\ pc' = [a \in Agents |->
                IF a = Top(r) THEN IF Len(queue[a]) > 1 THEN "calls" ELSE "model"
                ELSE IF a[1] = r THEN "idle" ELSE pc[a]]
    /\ iter' = [a \in Agents |-> IF a \in Workers(r) THEN 0 ELSE iter[a]]
    /\ UNCHANGED <<approvalVars, req, synth, tok, effects, uses>>

\* registry.get; a worker's registry keeps the read-only tools only.
RegistryFull(a) == Calls \ Unregistered
Registry(a) == IF IsTop(a) THEN Calls \ Unregistered
               ELSE Calls \ (Unregistered \cup Irreversible)

UnknownTool(a) ==
    /\ AtCall(a)
    /\ ~IsSynthetic(a)
    /\ Call(a) \notin Registry(a)
    /\ NextCall(a)
    /\ UNCHANGED <<approvalVars, req, synth, tok, iter, usage, spent, effects, uses>>

\* Workers run in mode Hitl.
Mode(a) == IF IsTop(a) THEN req[a[1]].mode ELSE "hitl"

NeedsApprovalHitl(a) ==
    /\ Call(a) \in Irreversible
    /\ Call(a) \notin AllowListed
    /\ Mode(a) = "hitl"

NeedsApproval(a) ==
    /\ Call(a) \in Irreversible
    /\ Call(a) \notin AllowListed
    /\ Mode(a) = "hitl" \/ Call(a) \in HardGated

\* The first grant for this very call, if any, is the one that is verified.
\* A worker has neither grants nor a verifier.
Matching(r) == {i \in DOMAIN req[r].grants : req[r].grants[i].call = Call(Top(r))}
FirstMatching(r) == {i \in Matching(r) : \A j \in Matching(r) : i <= j}
Granted(r) == \E i \in FirstMatching(r) : Verifies(req[r].grants[i], req[r].now)

Approved(r) ==
    /\ AtCall(Top(r))
    /\ ~IsSynthetic(Top(r))
    /\ Call(Top(r)) \in Registry(Top(r))
    /\ NeedsApproval(Top(r))
    /\ \E i \in FirstMatching(r) :
         /\ Verifies(req[r].grants[i], req[r].now)
         /\ Burn(req[r].grants[i])
         /\ tok' = [tok EXCEPT ![r] = req[r].grants[i]]
    /\ pc' = [pc EXCEPT ![Top(r)] = "run"]
    /\ UNCHANGED <<clock, boot, minted, req, synth, iter, queue, usage, spent, effects, uses>>

\* No grant, or one that does not verify: the run ends here and the app is
\* asked for the approval.
PendBurning(a) ==
    /\ AtCall(a)
    /\ ~IsSynthetic(a)
    /\ Call(a) \in Registry(a)
    /\ NeedsApproval(a)
    /\ ~(IsTop(a) /\ Granted(a[1]))
    /\ pc' = [pc EXCEPT ![a] = "pending_approval"]
    /\ seen' = seen \cup {req[a[1]].grants[i].nonce : i \in FirstMatching(a[1])}
    /\ UNCHANGED <<clock, boot, minted, req, synth, tok, iter, queue, usage, spent, effects, uses>>

Pend(a) ==
    /\ AtCall(a)
    /\ ~IsSynthetic(a)
    /\ Call(a) \in Registry(a)
    /\ NeedsApproval(a)
    /\ ~(IsTop(a) /\ Granted(a[1]))
    /\ pc' = [pc EXCEPT ![a] = "pending_approval"]
    /\ UNCHANGED <<approvalVars, req, synth, tok, iter, queue, usage, spent, effects, uses>>

Ungated(a) ==
    /\ AtCall(a)
    /\ ~IsSynthetic(a)
    /\ Call(a) \in Registry(a)
    /\ ~NeedsApproval(a)
    /\ tok' = IF IsTop(a) THEN [tok EXCEPT ![a[1]] = NoToken] ELSE tok
    /\ pc' = [pc EXCEPT ![a] = "run"]
    /\ UNCHANGED <<approvalVars, req, synth, iter, queue, usage, spent, effects, uses>>

\* The tool runs on the blocking pool; whatever it returns, the loop goes on.
RunTool(a) ==
    /\ pc[a] = "run"
    /\ LET t == IF IsTop(a) THEN tok[a[1]] ELSE NoToken IN
         /\ effects' =
              IF Call(a) \notin Irreversible THEN effects
              ELSE effects \cup
                     {[call |-> Call(a), tok |-> t, mode |-> Mode(a), top |-> IsTop(a),
                       now |-> req[a[1]].now, at |-> clock, boot |-> boot]}
         /\ uses' = IF t = NoToken THEN uses ELSE [uses EXCEPT ![t.nonce] = @ + 1]
    /\ tok' = IF IsTop(a) THEN [tok EXCEPT ![a[1]] = NoToken] ELSE tok
    /\ NextCall(a)
    /\ UNCHANGED <<approvalVars, req, synth, iter, usage, spent>>

\* The core is stopped and started again: every run dies with it.
Restart ==
    /\ NewVerifier
    /\ req' = [r \in Runs |-> NoRequest]
    /\ synth' = [r \in Runs |-> 0]
    /\ tok' = [r \in Runs |-> NoToken]
    /\ pc' = [a \in Agents |-> "idle"]
    /\ iter' = [a \in Agents |-> 0]
    /\ queue' = [a \in Agents |-> <<>>]
    /\ usage' = [a \in Agents |-> 0]
    /\ spent' = [r \in Runs |-> 0]
    /\ UNCHANGED <<effects, uses>>

RunStep(r) ==
    \/ Reply(r)
    \/ SyntheticRefused(r)
    \/ \E name \in Synthetic : SyntheticError(r, name)
    \/ Council(r)
    \/ Delegate(r)
    \/ DeepResearch(r)
    \/ Join(r)
    \/ Approved(r)

AgentStep(a) ==
    \/ ModelTurn(a)
    \/ OutOfIters(a)
    \/ UnknownTool(a)
    \/ Pend(a)
    \/ Ungated(a)
    \/ RunTool(a)

Next ==
    \/ AppMint
    \/ Time
    \/ \E r \in Runs : Begin(r) \/ RunStep(r)
    \/ \E a \in Agents : AgentStep(a)
    \/ Restart

Spec == Init /\ [][Next]_vars

\* The runtime polls every ready task, and the model server and the tools
\* answer: each loop that can move does.
Fairness ==
    /\ \A r \in Runs : WF_vars(RunStep(r))
    /\ \A a \in Agents : WF_vars(AgentStep(a))

FairSpec == Spec /\ Fairness

-----------------------------------------------------------------------------
(* Properties *)

Gated(e) == /\ e.call \notin AllowListed
            /\ e.mode = "hitl" \/ e.call \in HardGated

\* An irreversible tool ran under HITL, or a hard-gated one in any mode, only
\* with a token the app minted for that very call, for the boot it ran in,
\* still valid and within the maximal TTL at the request's own time.
OnlyApprovedEffects ==
    \A e \in effects : Gated(e) =>
      /\ e.tok \in minted
      /\ e.tok.call = e.call
      /\ e.tok.boot = e.boot
      /\ e.tok.expiry > e.now
      /\ e.tok.expiry - e.now <= MaxTTL

\* One approval, at most one execution: over concurrent requests carrying the
\* same grant, retried requests, and restarts of the core.
SingleUse == \A n \in Nonces : uses[n] <= 1

\* A burnt nonce is never lost while the core lives: its call ran, or is
\* about to run in the one request that burnt it.
BurntMeansRun ==
    \A n \in seen : \/ uses[n] = 1
                    \/ \E r \in Runs : pc[Top(r)] = "run" /\ tok[r] # NoToken
                                         /\ tok[r].nonce = n

\* A worker is given nothing that needs a human: it never executes an
\* irreversible tool and never ends in PendingApproval, where its pending call
\* would be dropped (run_workers keeps only the answer).
WorkersReadOnly ==
    /\ \A e \in effects : e.top
    /\ \A a \in Agents : ~IsTop(a) => pc[a] # "pending_approval"

\* The approval boundary implements the abstract promise: every execution that
\* carries a token is the one use of an approval of that very call.
Promise == INSTANCE SingleUseApproval WITH
    Approvals <- Nonces,
    approved <- {<<t.nonce, t.call>> : t \in minted},
    count <- uses,
    performed <- {<<e.tok.nonce, e.call>> : e \in {f \in effects : f.tok # NoToken}}

ImplementsPromise == Promise!Spec

\* The usage a run reports counts every model call made on its behalf: its
\* own, its council's, and those of all its workers.
UsageIsExact ==
    \A r \in Runs : pc[Top(r)] \in Ended => usage[Top(r)] = spent[r]

\* The per-run budget bounds the model calls of a whole run.
CostBound ==
    LET fanout == MaxSubtasks * WorkerIters + 2
        panel == MaxCouncil + 1
        worst == IF fanout > panel THEN fanout ELSE panel
    IN  MaxIters + MaxSyntheticCalls * worst

CostBounded == \A r \in Runs : spent[r] <= CostBound

\* Every run that was begun ends.
RunsEnd == \A r \in Runs : pc[Top(r)] = "model" ~> pc[Top(r)] = "idle"

=============================================================================
