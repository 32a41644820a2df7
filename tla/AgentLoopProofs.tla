-------------------------- MODULE AgentLoopProofs --------------------------
(***************************************************************************)
(* Proofs about the approval gate of AgentLoop, for every number of        *)
(* concurrent requests, workers, grants, calls and boots.                  *)
(***************************************************************************)
EXTENDS AgentLoop, SequenceTheorems, WellFoundedInduction, TLAPS

\* A nonce names one token.
NoncesUnique == \A t, u \in minted : t.nonce = u.nonce => t = u

\* The token a request is about to use: minted for this call and this boot,
\* valid at the request's time, burnt, and not used yet.
HeldToken(r) ==
    /\ pc[Top(r)] = "run"
    /\ tok[r] \in minted
    /\ tok[r].call = Call(Top(r))
    /\ tok[r].boot = boot
    /\ tok[r].expiry > req[r].now
    /\ tok[r].expiry - req[r].now <= MaxTTL
    /\ tok[r].nonce \in seen
    /\ uses[tok[r].nonce] = 0

TokensHeld == \A r \in Runs : tok[r] # NoToken => HeldToken(r)

TokensDistinct ==
    \A r, s \in Runs :
      tok[r] # NoToken /\ tok[s] # NoToken /\ tok[r].nonce = tok[s].nonce => r = s

\* A used nonce belongs to a minted token, whose boot is over unless the
\* nonce is burnt.
UsedAreBurnt ==
    \A n \in Nonces : uses[n] > 0 =>
      \E t \in minted : t.nonce = n /\ t.boot <= boot /\ (t.boot = boot => n \in seen)

\* Whatever runs came out of the agent's registry, and holds a token if it
\* needs one.
RunningIsCleared ==
    \A a \in Agents : pc[a] = "run" =>
      /\ Call(a) \in Registry(a)
      /\ IsTop(a) /\ NeedsApproval(a) => tok[a[1]] # NoToken

\* A token is only ever used for the call it was minted for.
TokenEffects == \A e \in effects : e.tok # NoToken => e.tok \in minted /\ e.tok.call = e.call

TopEffects == \A e \in effects : e.top

\* A loop that handles calls has one at the head of its queue.
Busy == {"calls", "run", "delegate", "deep_research"}
BusyHasCall == \A a \in Agents : pc[a] \in Busy => queue[a] # <<>>

IInv ==
    /\ GateTypeOK
    /\ BusyHasCall
    /\ NoncesUnique
    /\ TokensHeld
    /\ TokensDistinct
    /\ UsedAreBurnt
    /\ RunningIsCleared
    /\ TokenEffects
    /\ TopEffects
    /\ OnlyApprovedEffects
    /\ SingleUse
    /\ BurntMeansRun

-----------------------------------------------------------------------------
(* Agents *)

LEMMA TopFacts ==
  /\ \A r \in Runs : Top(r) \in Agents /\ IsTop(Top(r)) /\ Top(r)[1] = r
  /\ \A a \in Agents : a[1] \in Runs /\ (IsTop(a) => a = Top(a[1]))
  /\ \A r, s \in Runs : Top(r) = Top(s) => r = s
<1>1. 0 \in 0..MaxSubtasks
  BY LoopBoundAssumption
<1>2. ASSUME NEW r \in Runs PROVE Top(r) \in Agents /\ IsTop(Top(r)) /\ Top(r)[1] = r
  BY <1>1 DEF Agents, Top, IsTop
<1>3. ASSUME NEW a \in Agents PROVE a[1] \in Runs /\ (IsTop(a) => a = Top(a[1]))
  BY DEF Agents, Top, IsTop
<1>4. ASSUME NEW r \in Runs, NEW s \in Runs, Top(r) = Top(s) PROVE r = s
  BY <1>4 DEF Top
<1> QED
  BY <1>2, <1>3, <1>4

-----------------------------------------------------------------------------
(* Steps that do not touch the gate *)

\* Nothing is minted, burnt or executed, no agent starts running a tool, and
\* no request stops running one.
Quiet ==
    /\ UNCHANGED <<boot, minted, seen, tok, effects, uses>>
    /\ BusyHasCall'
    /\ \A a \in Agents : pc'[a] = "run" =>
         /\ pc[a] = "run"
         /\ queue'[a] = queue[a]
         /\ IsTop(a) => req'[a[1]] = req[a[1]]
    /\ \A r \in Runs : pc[Top(r)] = "run" => pc'[Top(r)] = "run"

LEMMA QuietKeeps ==
  ASSUME IInv, GateTypeOK', Quiet
  PROVE  IInv'
<1> USE DEF IInv, Quiet
<1>1. NoncesUnique' /\ UsedAreBurnt' /\ TokenEffects' /\ TopEffects' /\ SingleUse'
  BY DEF NoncesUnique, UsedAreBurnt, TokenEffects, TopEffects, SingleUse
<1>2. ASSUME NEW r \in Runs, tok[r] # NoToken PROVE HeldToken(r)'
  <2>1. HeldToken(r)
    BY <1>2 DEF TokensHeld
  <2>2. pc'[Top(r)] = "run" /\ queue'[Top(r)] = queue[Top(r)] /\ req'[r] = req[r]
    BY <2>1, TopFacts DEF HeldToken
  <2> QED
    BY <2>1, <2>2 DEF HeldToken, Call
<1>3. TokensHeld' /\ TokensDistinct'
  BY <1>2 DEF TokensHeld, TokensDistinct
<1>4. ASSUME NEW a \in Agents, pc'[a] = "run"
      PROVE  /\ Call(a)' \in Registry(a)'
             /\ IsTop(a) /\ NeedsApproval(a)' => tok'[a[1]] # NoToken
  <2>1. pc[a] = "run" /\ queue'[a] = queue[a] /\ (IsTop(a) => req'[a[1]] = req[a[1]])
    BY <1>4
  <2>2. Call(a)' = Call(a) /\ Mode(a)' = Mode(a)
    BY <2>1 DEF Call, Mode
  <2> QED
    BY <2>1, <2>2 DEF RunningIsCleared, Registry, NeedsApproval
<1>5. RunningIsCleared'
  BY <1>4 DEF RunningIsCleared
<1>6. OnlyApprovedEffects'
  BY DEF OnlyApprovedEffects, Gated
<1>7. BurntMeansRun'
  BY TopFacts DEF BurntMeansRun
<1> QED
  BY <1>1, <1>3, <1>5, <1>6, <1>7

LEMMA TailFacts ==
  ASSUME NEW S, NEW q \in Seq(S), q # <<>>
  PROVE  Tail(q) \in Seq(S) /\ (Len(q) > 1 => Tail(q) # <<>>)
<1>1. Tail(q) \in Seq(S) /\ Len(Tail(q)) = Len(q) - 1
  BY HeadTailProperties
<1>2. Len(q) \in Nat
  BY LenProperties
<1>3. Len(<<>>) = 0
  BY EmptySeq
<1>4. ASSUME Len(q) > 1, Tail(q) = <<>> PROVE FALSE
  <2>1. Len(q) - 1 = 0
    BY <1>1, <1>3, <1>4, Zenon
  <2>2. \A n \in Nat : n > 1 => n - 1 # 0
    OBVIOUS
  <2> QED
    BY <2>1, <2>2, <1>2, <1>4, Zenon
<1> QED
  BY <1>1, <1>4

\* Handling a call without running a tool is quiet.
LEMMA NextCallQuiet ==
  ASSUME IInv, NEW a \in Agents, pc[a] \in Busy, pc[a] # "run" \/ ~IsTop(a), NextCall(a),
         UNCHANGED <<clock, boot, minted, seen, req, tok, effects, uses>>
  PROVE  GateTypeOK' /\ Quiet
<1> USE DEF IInv
<1>1. queue[a] \in Seq(Calls \cup Synthetic) /\ queue[a] # <<>>
  BY DEF GateTypeOK, BusyHasCall
<1>2. /\ Tail(queue[a]) \in Seq(Calls \cup Synthetic)
      /\ Len(queue[a]) > 1 => Tail(queue[a]) # <<>>
  BY <1>1, TailFacts
<1>3. GateTypeOK'
  BY <1>2 DEF GateTypeOK, ApprovalTypeOK, NextCall, PCs, Ended
<1>5. BusyHasCall'
  BY <1>2 DEF BusyHasCall, Busy, NextCall, GateTypeOK
<1>6. \A r \in Runs : pc[Top(r)] = "run" => pc'[Top(r)] = "run"
  BY TopFacts DEF NextCall, GateTypeOK
<1> QED
  BY <1>3, <1>5, <1>6 DEF Quiet, NextCall, GateTypeOK

LEMMA TimeQuiet == ASSUME IInv, Time PROVE GateTypeOK' /\ Quiet
<1> USE DEF IInv, Time, Tick, loopVars
<1>1. GateTypeOK'
  BY DEF GateTypeOK, ApprovalTypeOK
<1> QED
  BY <1>1 DEF Quiet, BusyHasCall

LEMMA BeginQuiet == ASSUME IInv, NEW r \in Runs, Begin(r) PROVE GateTypeOK' /\ Quiet
<1> USE DEF IInv
<1>1. PICK m \in Modes, n \in GrantCounts : \E gs \in [1..n -> Presented] :
        req' = [req EXCEPT ![r] = [mode |-> m, grants |-> gs, now |-> clock]]
  BY DEF Begin
<1>2. PICK gs \in [1..n -> Presented] :
        req' = [req EXCEPT ![r] = [mode |-> m, grants |-> gs, now |-> clock]]
  BY <1>1
<1>3. gs \in Seq(Token) /\ DOMAIN gs = 1..n
  <2>1. ASSUME NEW g \in Presented PROVE g \in Token
    <3>1. PICK t \in minted : \/ g = t
                              \/ \E c \in Calls : g = [t EXCEPT !.call = c]
                              \/ \E x \in Nonces : g = [t EXCEPT !.nonce = x]
                              \/ \E b \in 0..boot : g = [t EXCEPT !.boot = b]
      BY DEF Presented
    <3>2. t \in Token /\ boot \in Nat
      BY DEF GateTypeOK, ApprovalTypeOK
    <3> QED
      BY <3>1, <3>2 DEF Token
  <2> QED
    BY <2>1, LoopBoundAssumption
<1>4. [mode |-> m, grants |-> gs, now |-> clock] \in Request
  BY <1>3, CallAssumption DEF Request, GateTypeOK, ApprovalTypeOK
<1>5. req' \in [Runs -> Request]
  BY <1>2, <1>4 DEF GateTypeOK
<1>6. pc' \in [Agents -> PCs]
  BY TopFacts DEF Begin, PCs, GateTypeOK
<1>7. GateTypeOK'
  BY <1>5, <1>6 DEF GateTypeOK, ApprovalTypeOK, Begin, approvalVars
<1>9. BusyHasCall'
  BY TopFacts DEF BusyHasCall, Busy, Begin, GateTypeOK
<1>10. ASSUME NEW a \in Agents, pc[a] = "run", IsTop(a) PROVE req'[a[1]] = req[a[1]]
  BY <1>2, <1>10, TopFacts DEF Begin, GateTypeOK
<1> QED
  BY <1>7, <1>9, <1>10, TopFacts DEF Quiet, Begin, approvalVars, GateTypeOK

LEMMA ReplyQuiet == ASSUME IInv, NEW r \in Runs, Reply(r) PROVE GateTypeOK' /\ Quiet
<1> USE DEF IInv
<1>1. NoRequest \in Request /\ DOMAIN NoRequest.grants = {}
  BY DEF NoRequest, Request
<1>2. GateTypeOK'
  BY <1>1, TopFacts, EmptySeq DEF Reply, GateTypeOK, ApprovalTypeOK, approvalVars, PCs
<1>4. BusyHasCall'
  BY TopFacts DEF BusyHasCall, Busy, Reply, GateTypeOK
<1>5. pc[Top(r)] # "run" /\ pc'[Top(r)] = "idle"
  BY TopFacts DEF Reply, Ended, GateTypeOK
<1>6. ASSUME NEW a \in Agents, pc'[a] = "run"
      PROVE  /\ pc[a] = "run" /\ queue'[a] = queue[a]
             /\ IsTop(a) => req'[a[1]] = req[a[1]]
  BY <1>5, <1>6, TopFacts DEF Reply, GateTypeOK
<1>7. ASSUME NEW s \in Runs, pc[Top(s)] = "run" PROVE pc'[Top(s)] = "run"
  BY <1>5, <1>7, TopFacts DEF Reply, GateTypeOK
<1> QED
  BY <1>2, <1>4, <1>6, <1>7 DEF Quiet, Reply, approvalVars, GateTypeOK

LEMMA ModelTurnQuiet ==
  ASSUME IInv, NEW a \in Agents, ModelTurn(a) PROVE GateTypeOK' /\ Quiet
<1> USE DEF IInv
<1>1. GateTypeOK'
  BY CallAssumption DEF ModelTurn, GateTypeOK, ApprovalTypeOK, approvalVars, PCs, Ended
<1>2. BusyHasCall'
  BY CallAssumption DEF BusyHasCall, Busy, ModelTurn, GateTypeOK
<1>3. UNCHANGED <<boot, minted, seen, req, tok, effects, uses>>
  BY DEF ModelTurn, approvalVars
<1>4. pc[a] = "model" /\ pc'[a] # "run"
  BY DEF ModelTurn, GateTypeOK
<1>5. \A b \in Agents \ {a} : pc'[b] = pc[b] /\ queue'[b] = queue[b]
  BY DEF ModelTurn, GateTypeOK
<1> QED
  BY <1>1, <1>2, <1>3, <1>4, <1>5, TopFacts DEF Quiet

LEMMA EndQuiet ==
  ASSUME IInv, NEW a \in Agents, pc[a] # "run", NEW e \in Ended,
         pc' = [pc EXCEPT ![a] = e],
         UNCHANGED <<clock, boot, minted, seen, req, tok, queue, effects, uses>>
  PROVE  GateTypeOK' /\ Quiet
<1> USE DEF IInv, Ended
<1>1. GateTypeOK'
  BY DEF GateTypeOK, ApprovalTypeOK, PCs
<1>2. BusyHasCall'
  BY DEF BusyHasCall, Busy, GateTypeOK
<1> QED
  BY <1>1, <1>2 DEF Quiet, GateTypeOK

LEMMA StartWorkersQuiet ==
  ASSUME IInv, NEW r \in Runs, NEW name \in {"delegate", "deep_research"},
         AtCall(Top(r)), StartWorkers(r, name),
         UNCHANGED <<clock, boot, minted, seen, req, tok, queue, effects, uses>>
  PROVE  GateTypeOK' /\ Quiet
<1> USE DEF IInv
<1>1. PICK n \in 1..MaxSubtasks :
        pc' = [a \in Agents |-> IF a \in {b \in Workers(r) : b[2] <= n} THEN "model"
                               ELSE IF a = Top(r) THEN name ELSE pc[a]]
  BY DEF StartWorkers
<1>2. GateTypeOK'
  BY <1>1 DEF GateTypeOK, ApprovalTypeOK, PCs
<1>3. BusyHasCall'
  BY <1>1 DEF BusyHasCall, Busy, AtCall
<1>4. /\ \A a \in Agents : pc'[a] = "run" => pc[a] = "run"
      /\ \A s \in Runs : pc[Top(s)] = "run" => pc'[Top(s)] = "run"
  BY <1>1, TopFacts DEF AtCall, Workers
<1> QED
  BY <1>2, <1>3, <1>4 DEF Quiet

LEMMA JoinQuiet == ASSUME IInv, NEW r \in Runs, Join(r) PROVE GateTypeOK' /\ Quiet
<1> USE DEF IInv
<1>1. UNCHANGED <<clock, boot, minted, seen, req, tok, effects, uses>>
  BY DEF Join, approvalVars
<1>2. queue[Top(r)] \in Seq(Calls \cup Synthetic) /\ queue[Top(r)] # <<>>
  BY TopFacts DEF Join, GateTypeOK, BusyHasCall, Busy
<1>3. /\ Tail(queue[Top(r)]) \in Seq(Calls \cup Synthetic)
      /\ Len(queue[Top(r)]) > 1 => Tail(queue[Top(r)]) # <<>>
  BY <1>2, TailFacts
<1>4. pc' \in [Agents -> PCs] /\ queue' \in [Agents -> Seq(Calls \cup Synthetic)]
  BY <1>3, EmptySeq DEF Join, GateTypeOK, PCs
<1>5. BusyHasCall'
  BY <1>3 DEF BusyHasCall, Busy, Join
<1>6. ASSUME NEW a \in Agents, pc'[a] = "run" PROVE pc[a] = "run" /\ queue'[a] = queue[a]
  BY <1>6 DEF Join
<1>7. ASSUME NEW s \in Runs, pc[Top(s)] = "run" PROVE pc'[Top(s)] = "run"
  BY <1>7, TopFacts DEF Join
<1> QED
  BY <1>1, <1>4, <1>5, <1>6, <1>7 DEF Quiet, GateTypeOK, ApprovalTypeOK

-----------------------------------------------------------------------------
(* Steps that do *)

LEMMA MintKeeps ==
  ASSUME IInv, NEW c \in Irreversible, NEW b \in 0..boot, Mint(c, b), UNCHANGED loopVars
  PROVE  IInv'
<1> USE DEF IInv, loopVars
<1>1. PICK n \in Nonces \ {t.nonce : t \in minted} :
        minted' = minted \cup
          {[call |-> c, nonce |-> n, expiry |-> clock + MintTTL, boot |-> b]}
  BY DEF Mint
<1> DEFINE new == [call |-> c, nonce |-> n, expiry |-> clock + MintTTL, boot |-> b]
<1>2. new \in Token
  BY CallAssumption, TTLAssumption DEF Token, GateTypeOK, ApprovalTypeOK
<1>3. UNCHANGED <<clock, boot, seen>> /\ minted \subseteq minted'
  BY <1>1 DEF Mint
<1>4. GateTypeOK'
  BY <1>1, <1>2, <1>3 DEF GateTypeOK, ApprovalTypeOK
<1>5. NoncesUnique'
  BY <1>1 DEF NoncesUnique
<1>6. BusyHasCall'
  BY <1>3 DEF BusyHasCall
<1>7. TokensHeld' /\ TokensDistinct'
  BY <1>3 DEF TokensHeld, TokensDistinct, HeldToken, Call
<1>8. UsedAreBurnt'
  BY <1>3 DEF UsedAreBurnt
<1>9. RunningIsCleared'
  BY DEF RunningIsCleared, Call, NeedsApproval, Mode
<1>10. TokenEffects' /\ TopEffects' /\ OnlyApprovedEffects'
  BY <1>3 DEF TokenEffects, TopEffects, OnlyApprovedEffects
<1>11. SingleUse' /\ BurntMeansRun'
  BY <1>3 DEF SingleUse, BurntMeansRun
<1> QED
  BY <1>4, <1>5, <1>6, <1>7, <1>8, <1>9, <1>10, <1>11

\* Approving a call burns a nonce that was never used, since a used one would
\* be burnt or belong to an earlier boot.
LEMMA ApprovedKeeps == ASSUME IInv, NEW r \in Runs, Approved(r) PROVE IInv'
<1> USE DEF IInv
<1>1. PICK i \in FirstMatching(r) :
        /\ Verifies(req[r].grants[i], req[r].now)
        /\ Burn(req[r].grants[i])
        /\ tok' = [tok EXCEPT ![r] = req[r].grants[i]]
  BY DEF Approved
<1> DEFINE g == req[r].grants[i]
<1>2. /\ g \in minted /\ g \in Token /\ g.call = Call(Top(r)) /\ g.boot = boot
      /\ g.expiry > req[r].now /\ g.expiry - req[r].now <= MaxTTL
      /\ g.nonce \notin seen /\ seen' = seen \cup {g.nonce}
  BY <1>1 DEF Verifies, Burn, FirstMatching, Matching, GateTypeOK, ApprovalTypeOK
<1>3. g.nonce \in Nonces /\ g # NoToken
  BY <1>2, NoTokenAssumption DEF Token
<1>4. UNCHANGED <<clock, boot, minted, req, queue, effects, uses>>
  BY DEF Approved
<1>5. tok' = [tok EXCEPT ![r] = g] /\ pc' = [pc EXCEPT ![Top(r)] = "run"]
  BY <1>1 DEF Approved
<1>6. pc[Top(r)] = "calls"
  BY DEF Approved, AtCall
<1>7. tok[r] = NoToken
  BY <1>6 DEF TokensHeld, HeldToken
<1>8. uses[g.nonce] = 0
  <2>1. ASSUME uses[g.nonce] > 0 PROVE FALSE
    <3>1. PICK t \in minted : t.nonce = g.nonce /\ (t.boot = boot => g.nonce \in seen)
      BY <1>3, <2>1 DEF UsedAreBurnt
    <3> QED
      BY <3>1, <1>2 DEF NoncesUnique
  <2> QED
    BY <2>1, <1>3 DEF GateTypeOK
<1>9. GateTypeOK'
  BY <1>2, <1>3, <1>4, <1>5, TopFacts DEF GateTypeOK, ApprovalTypeOK, PCs
<1>10. NoncesUnique' /\ SingleUse' /\ TokenEffects' /\ TopEffects'
       /\ OnlyApprovedEffects'
  BY <1>4 DEF NoncesUnique, SingleUse, TokenEffects, TopEffects,
              OnlyApprovedEffects, Gated
<1>11. BusyHasCall'
  BY <1>4, <1>5, <1>6, TopFacts DEF BusyHasCall, Busy, GateTypeOK
<1>12. ASSUME NEW s \in Runs, tok'[s] # NoToken PROVE HeldToken(s)'
  <2>1. CASE s = r
    BY <2>1, <1>2, <1>4, <1>5, <1>8, TopFacts DEF HeldToken, Call, GateTypeOK
  <2>2. CASE s # r
    <3>1. HeldToken(s) /\ tok'[s] = tok[s] /\ pc'[Top(s)] = pc[Top(s)]
      BY <1>5, <1>12, <2>2, TopFacts DEF TokensHeld, GateTypeOK
    <3> QED
      BY <3>1, <1>2, <1>4 DEF HeldToken, Call
  <2> QED
    BY <2>1, <2>2
<1>13. TokensHeld'
  BY <1>12 DEF TokensHeld
<1>14. TokensDistinct'
  <2>1. ASSUME NEW s \in Runs, s # r, tok[s] # NoToken PROVE tok[s].nonce # g.nonce
    BY <2>1, <1>2 DEF TokensHeld, HeldToken
  <2> QED
    BY <2>1, <1>5 DEF TokensDistinct, GateTypeOK
<1>15. UsedAreBurnt'
  BY <1>2, <1>4 DEF UsedAreBurnt
<1>16. RunningIsCleared'
  <2> SUFFICES ASSUME NEW a \in Agents, pc'[a] = "run"
               PROVE  /\ Call(a)' \in Registry(a)'
                      /\ IsTop(a) /\ NeedsApproval(a)' => tok'[a[1]] # NoToken
    BY DEF RunningIsCleared
  <2>1. Call(a)' = Call(a) /\ Registry(a)' = Registry(a) /\ NeedsApproval(a)' = NeedsApproval(a)
    BY <1>4 DEF Call, Registry, NeedsApproval, Mode
  <2>2. CASE a = Top(r)
    BY <2>1, <2>2, <1>3, <1>5, TopFacts DEF Approved, GateTypeOK
  <2>3. CASE a # Top(r)
    <3>1. pc[a] = "run"
      BY <2>3, <1>5 DEF GateTypeOK
    <3>2. IsTop(a) => a[1] # r /\ tok'[a[1]] = tok[a[1]]
      BY <2>3, <1>5, TopFacts DEF GateTypeOK
    <3> QED
      BY <3>1, <3>2, <2>1 DEF RunningIsCleared
  <2> QED
    BY <2>2, <2>3
<1>17. BurntMeansRun'
  <2> SUFFICES ASSUME NEW n \in seen'
               PROVE  \/ uses'[n] = 1
                      \/ \E s \in Runs : pc'[Top(s)] = "run" /\ tok'[s] # NoToken
                                           /\ tok'[s].nonce = n
    BY DEF BurntMeansRun
  <2>1. CASE n = g.nonce
    BY <2>1, <1>3, <1>5, TopFacts DEF GateTypeOK
  <2>2. CASE n \in seen
    <3>1. CASE uses[n] = 1
      BY <3>1, <1>4
    <3>2. CASE uses[n] # 1
      <4>1. PICK s \in Runs : pc[Top(s)] = "run" /\ tok[s] # NoToken /\ tok[s].nonce = n
        BY <2>2, <3>2 DEF BurntMeansRun
      <4>2. s # r
        BY <4>1, <1>7
      <4> QED
        BY <4>1, <4>2, <1>5, TopFacts DEF GateTypeOK
    <3> QED
      BY <3>1, <3>2
  <2> QED
    BY <2>1, <2>2, <1>2
<1> QED
  BY <1>9, <1>10, <1>11, <1>13, <1>14, <1>15, <1>16, <1>17

LEMMA UngatedKeeps == ASSUME IInv, NEW a \in Agents, Ungated(a) PROVE IInv'
<1> USE DEF IInv
<1>1. pc[a] = "calls" /\ pc' = [pc EXCEPT ![a] = "run"]
  BY DEF Ungated, AtCall
<1>2. tok' = tok
  <2>1. IsTop(a) => tok[a[1]] = NoToken
    BY <1>1, TopFacts DEF TokensHeld, HeldToken
  <2> QED
    BY <2>1, TopFacts DEF Ungated, GateTypeOK
<1>3. UNCHANGED <<clock, boot, minted, seen, req, queue, effects, uses>>
  BY DEF Ungated, approvalVars
<1>4. GateTypeOK'
  BY <1>1, <1>2, <1>3 DEF GateTypeOK, ApprovalTypeOK, PCs
<1>5. BusyHasCall'
  BY <1>1, <1>3 DEF BusyHasCall, Busy, GateTypeOK
<1>6. NoncesUnique' /\ SingleUse' /\ TokenEffects' /\ TopEffects'
      /\ OnlyApprovedEffects' /\ UsedAreBurnt'
  BY <1>3 DEF NoncesUnique, SingleUse, TokenEffects, TopEffects,
              OnlyApprovedEffects, Gated, UsedAreBurnt
<1>7. \A r \in Runs : pc[Top(r)] = "run" => pc'[Top(r)] = "run"
  BY <1>1, TopFacts DEF GateTypeOK
<1>8. TokensHeld' /\ TokensDistinct' /\ BurntMeansRun'
  BY <1>2, <1>3, <1>7 DEF TokensHeld, TokensDistinct, HeldToken, Call, BurntMeansRun
<1>9. RunningIsCleared'
  <2> SUFFICES ASSUME NEW b \in Agents, pc'[b] = "run"
               PROVE  /\ Call(b)' \in Registry(b)'
                      /\ IsTop(b) /\ NeedsApproval(b)' => tok'[b[1]] # NoToken
    BY DEF RunningIsCleared
  <2>1. Call(b)' = Call(b) /\ Registry(b)' = Registry(b) /\ NeedsApproval(b)' = NeedsApproval(b)
    BY <1>3 DEF Call, Registry, NeedsApproval, Mode
  <2>2. CASE b = a
    BY <2>1, <2>2 DEF Ungated
  <2>3. CASE b # a
    BY <2>1, <2>3, <1>1, <1>2 DEF RunningIsCleared, GateTypeOK
  <2> QED
    BY <2>2, <2>3
<1> QED
  BY <1>4, <1>5, <1>6, <1>8, <1>9

LEMMA WorkerRunKeeps ==
  ASSUME IInv, NEW a \in Agents, ~IsTop(a), RunTool(a) PROVE IInv'
<1> USE DEF IInv
<1>1. Call(a) \notin Irreversible
  BY DEF RunTool, RunningIsCleared, Registry
<1>2. UNCHANGED <<clock, boot, minted, seen, req, tok, effects, uses>>
  BY <1>1 DEF RunTool, approvalVars
<1>3. GateTypeOK' /\ Quiet
  BY <1>2, NextCallQuiet DEF RunTool, Busy
<1> QED
  BY <1>3, QuietKeeps

\* Running the call of a request: the one step that executes something.
LEMMA TopRunKeeps == ASSUME IInv, NEW r \in Runs, RunTool(Top(r)) PROVE IInv'
<1> USE DEF IInv
<1> DEFINE a == Top(r)
           t == tok[r]
           e == [call |-> Call(a), tok |-> t, mode |-> Mode(a), top |-> IsTop(a),
                 now |-> req[r].now, at |-> clock, boot |-> boot]
<1>1. pc[a] = "run" /\ a \in Agents /\ IsTop(a) /\ a[1] = r
  BY TopFacts DEF RunTool
<1>2. /\ effects' = IF Call(a) \notin Irreversible THEN effects ELSE effects \cup {e}
      /\ uses' = IF t = NoToken THEN uses ELSE [uses EXCEPT ![t.nonce] = @ + 1]
      /\ tok' = [tok EXCEPT ![r] = NoToken]
      /\ NextCall(a)
      /\ UNCHANGED <<clock, boot, minted, seen, req>>
  BY <1>1 DEF RunTool, approvalVars
<1>3. Call(a) \in Calls /\ (NeedsApproval(a) => t # NoToken)
  BY <1>1 DEF RunningIsCleared, Registry
<1>4. t # NoToken => HeldToken(r) /\ t \in Token /\ t.nonce \in Nonces
  BY DEF TokensHeld, HeldToken, GateTypeOK, ApprovalTypeOK, Token
<1>5. queue[a] \in Seq(Calls \cup Synthetic) /\ queue[a] # <<>>
  BY <1>1 DEF GateTypeOK, BusyHasCall, Busy
<1>6. /\ Tail(queue[a]) \in Seq(Calls \cup Synthetic)
      /\ Len(queue[a]) > 1 => Tail(queue[a]) # <<>>
  BY <1>5, TailFacts
<1>7. e \in Effect
  BY <1>1, <1>3, <1>4 DEF Effect, Mode, GateTypeOK, ApprovalTypeOK, Request
<1>8. GateTypeOK'
  <2>1. tok' \in [Runs -> Token \cup {NoToken}] /\ effects' \in SUBSET Effect
    BY <1>2, <1>7 DEF GateTypeOK
  <2>2. uses' \in [Nonces -> Nat]
    BY <1>2, <1>4 DEF GateTypeOK
  <2>3. pc' \in [Agents -> PCs] /\ queue' \in [Agents -> Seq(Calls \cup Synthetic)]
    BY <1>2, <1>6 DEF GateTypeOK, NextCall, PCs
  <2> QED
    BY <2>1, <2>2, <2>3, <1>2 DEF GateTypeOK, ApprovalTypeOK
<1>9. BusyHasCall'
  BY <1>2, <1>6 DEF BusyHasCall, Busy, NextCall, GateTypeOK
<1>10. NoncesUnique'
  BY <1>2 DEF NoncesUnique
<1>11. pc'[a] # "run" /\ \A b \in Agents \ {a} : pc'[b] = pc[b] /\ queue'[b] = queue[b]
  BY <1>1, <1>2 DEF NextCall, GateTypeOK
<1>12. ASSUME NEW s \in Runs, tok'[s] # NoToken
       PROVE  s # r /\ tok'[s] = tok[s] /\ Top(s) # a /\ uses'[tok[s].nonce] = uses[tok[s].nonce]
  <2>1. s # r /\ tok'[s] = tok[s] /\ Top(s) # a
    BY <1>12, <1>2, TopFacts DEF GateTypeOK
  <2>2. t # NoToken => tok[s].nonce # t.nonce
    BY <2>1, <1>12 DEF TokensDistinct
  <2>3. tok[s].nonce \in Nonces
    BY <2>1, <1>12 DEF TokensHeld, HeldToken, GateTypeOK, ApprovalTypeOK, Token
  <2> QED
    BY <2>1, <2>2, <2>3, <1>2, <1>4 DEF GateTypeOK
<1>13. TokensHeld'
  <2> SUFFICES ASSUME NEW s \in Runs, tok'[s] # NoToken PROVE HeldToken(s)'
    BY DEF TokensHeld
  <2>1. HeldToken(s)
    BY <1>12 DEF TokensHeld
  <2> QED
    BY <2>1, <1>2, <1>11, <1>12, TopFacts DEF HeldToken, Call
<1>14. TokensDistinct'
  BY <1>12 DEF TokensDistinct
<1>15. UsedAreBurnt'
  <2> SUFFICES ASSUME NEW n \in Nonces, uses'[n] > 0
               PROVE  \E u \in minted : u.nonce = n /\ u.boot <= boot /\ (u.boot = boot => n \in seen)
    BY <1>2 DEF UsedAreBurnt
  <2>1. CASE t # NoToken /\ n = t.nonce
    BY <2>1, <1>4 DEF HeldToken, GateTypeOK, ApprovalTypeOK
  <2>2. CASE ~(t # NoToken /\ n = t.nonce)
    BY <2>2, <1>2, <1>4 DEF UsedAreBurnt, GateTypeOK
  <2> QED
    BY <2>1, <2>2
<1>16. RunningIsCleared'
  <2> SUFFICES ASSUME NEW b \in Agents, pc'[b] = "run"
               PROVE  /\ Call(b)' \in Registry(b)'
                      /\ IsTop(b) /\ NeedsApproval(b)' => tok'[b[1]] # NoToken
    BY DEF RunningIsCleared
  <2>1. b # a /\ pc[b] = "run"
    BY <1>11
  <2>2. Call(b)' = Call(b) /\ Registry(b)' = Registry(b) /\ NeedsApproval(b)' = NeedsApproval(b)
    BY <1>2, <1>11, <2>1 DEF Call, Registry, NeedsApproval, Mode
  <2>3. IsTop(b) => tok'[b[1]] = tok[b[1]]
    BY <2>1, <1>2, TopFacts DEF GateTypeOK
  <2> QED
    BY <2>1, <2>2, <2>3 DEF RunningIsCleared
<1>17. TokenEffects' /\ TopEffects'
  <2>1. e.tok # NoToken => e.tok \in minted /\ e.tok.call = e.call
    BY <1>4 DEF HeldToken
  <2> QED
    BY <2>1, <1>1, <1>2 DEF TokenEffects, TopEffects
<1>18. OnlyApprovedEffects'
  <2>1. Call(a) \in Irreversible /\ Gated(e) => NeedsApproval(a)
    BY DEF Gated, NeedsApproval
  <2>2. Call(a) \in Irreversible /\ Gated(e) =>
          /\ e.tok \in minted /\ e.tok.call = e.call /\ e.tok.boot = e.boot
          /\ e.tok.expiry > e.now /\ e.tok.expiry - e.now <= MaxTTL
    BY <2>1, <1>3, <1>4 DEF HeldToken
  <2> QED
    BY <2>2, <1>2 DEF OnlyApprovedEffects, Gated
<1>19. SingleUse'
  BY <1>2, <1>4 DEF SingleUse, HeldToken, GateTypeOK
<1>20. BurntMeansRun'
  <2> SUFFICES ASSUME NEW n \in seen, uses'[n] # 1
               PROVE  \E s \in Runs : pc'[Top(s)] = "run" /\ tok'[s] # NoToken
                                      /\ tok'[s].nonce = n
    BY <1>2 DEF BurntMeansRun
  <2>1. n \in Nonces
    BY DEF GateTypeOK, ApprovalTypeOK
  <2>2. ~(t # NoToken /\ t.nonce = n)
    BY <1>2, <1>4, <2>1 DEF HeldToken, GateTypeOK
  <2>3. uses[n] # 1
    BY <2>1, <2>2, <1>2, <1>4 DEF GateTypeOK
  <2>4. PICK s \in Runs : pc[Top(s)] = "run" /\ tok[s] # NoToken /\ tok[s].nonce = n
    BY <2>3 DEF BurntMeansRun
  <2>5. s # r /\ Top(s) # a
    BY <2>2, <2>4, TopFacts
  <2> QED
    BY <2>4, <2>5, <1>2, <1>11, TopFacts DEF GateTypeOK
<1> QED
  BY <1>8, <1>9, <1>10, <1>13, <1>14, <1>15, <1>16, <1>17, <1>18, <1>19, <1>20

\* A restart empties the nonce set, but every used nonce is then of an
\* earlier boot.
LEMMA RestartKeeps == ASSUME IInv, Restart PROVE IInv'
<1> USE DEF IInv
<1>1. boot' = boot + 1 /\ seen' = {} /\ UNCHANGED <<clock, minted, effects, uses>>
  BY DEF Restart, NewVerifier
<1>2. /\ req' = [r \in Runs |-> NoRequest] /\ tok' = [r \in Runs |-> NoToken]
      /\ pc' = [a \in Agents |-> "idle"] /\ queue' = [a \in Agents |-> <<>>]
  BY DEF Restart
<1>3. NoRequest \in Request /\ DOMAIN NoRequest.grants = {}
  BY DEF NoRequest, Request
<1>4. GateTypeOK'
  BY <1>1, <1>2, <1>3, EmptySeq DEF GateTypeOK, ApprovalTypeOK, PCs
<1>5. BusyHasCall' /\ RunningIsCleared'
  BY <1>2 DEF BusyHasCall, Busy, RunningIsCleared
<1>7. TokensHeld' /\ TokensDistinct' /\ BurntMeansRun'
  BY <1>1, <1>2 DEF TokensHeld, TokensDistinct, BurntMeansRun
<1>8. UsedAreBurnt'
  <2> SUFFICES ASSUME NEW n \in Nonces, uses[n] > 0
               PROVE  \E t \in minted : t.nonce = n /\ t.boot <= boot + 1 /\ t.boot # boot + 1
    BY <1>1 DEF UsedAreBurnt
  <2>1. PICK t \in minted : t.nonce = n /\ t.boot <= boot
    BY DEF UsedAreBurnt
  <2>2. t.boot \in Nat /\ boot \in Nat
    BY DEF GateTypeOK, ApprovalTypeOK, Token
  <2> QED
    BY <2>1, <2>2
<1>9. NoncesUnique' /\ SingleUse' /\ TokenEffects' /\ TopEffects' /\ OnlyApprovedEffects'
  BY <1>1 DEF NoncesUnique, SingleUse, TokenEffects, TopEffects, OnlyApprovedEffects, Gated
<1> QED
  BY <1>4, <1>5, <1>7, <1>8, <1>9

-----------------------------------------------------------------------------
(* The inductive invariant *)

LEMMA InitIInv == Init => IInv
<1> SUFFICES ASSUME Init PROVE IInv
  OBVIOUS
<1> USE DEF Init, ApprovalInit
<1>1. NoRequest \in Request /\ DOMAIN NoRequest.grants = {}
  BY DEF NoRequest, Request
<1>2. GateTypeOK
  BY <1>1, EmptySeq DEF GateTypeOK, ApprovalTypeOK, PCs
<1>3. BusyHasCall /\ RunningIsCleared
  BY DEF BusyHasCall, Busy, RunningIsCleared
<1>5. TokensHeld /\ TokensDistinct /\ BurntMeansRun /\ UsedAreBurnt /\ SingleUse
  BY DEF TokensHeld, TokensDistinct, BurntMeansRun, UsedAreBurnt, SingleUse
<1>6. NoncesUnique /\ TokenEffects /\ TopEffects /\ OnlyApprovedEffects
  BY DEF NoncesUnique, TokenEffects, TopEffects, OnlyApprovedEffects
<1> QED
  BY <1>2, <1>3, <1>5, <1>6 DEF IInv

\* The steps of a request other than approving and running a call.
LEMMA RunStepKeeps == ASSUME IInv, NEW r \in Runs, RunStep(r) PROVE IInv'
<1>1. CASE Reply(r)
  BY <1>1, ReplyQuiet, QuietKeeps
<1>2. CASE SyntheticRefused(r)
  <2>1. GateTypeOK' /\ Quiet
    BY <1>2, NextCallQuiet, TopFacts DEF SyntheticRefused, AtCall, Busy, approvalVars
  <2> QED
    BY <2>1, QuietKeeps
<1>3. ASSUME NEW name \in Synthetic, SyntheticError(r, name) PROVE IInv'
  <2>1. GateTypeOK' /\ Quiet
    BY <1>3, NextCallQuiet, TopFacts
       DEF SyntheticError, StartSynthetic, AtCall, Busy, approvalVars
  <2> QED
    BY <2>1, QuietKeeps
<1>4. CASE Council(r)
  <2>1. GateTypeOK' /\ Quiet
    BY <1>4, NextCallQuiet, TopFacts DEF Council, StartSynthetic, AtCall, Busy, approvalVars
  <2> QED
    BY <2>1, QuietKeeps
<1>5. CASE Delegate(r)
  <2>1. GateTypeOK' /\ Quiet
    BY <1>5, StartWorkersQuiet DEF Delegate, StartSynthetic, approvalVars
  <2> QED
    BY <2>1, QuietKeeps
<1>6. CASE DeepResearch(r)
  <2>1. GateTypeOK' /\ Quiet
    BY <1>6, StartWorkersQuiet DEF DeepResearch, StartSynthetic, approvalVars
  <2> QED
    BY <2>1, QuietKeeps
<1>7. CASE Join(r)
  BY <1>7, JoinQuiet, QuietKeeps
<1>8. CASE Approved(r)
  BY <1>8, ApprovedKeeps
<1> QED
  BY <1>1, <1>2, <1>3, <1>4, <1>5, <1>6, <1>7, <1>8 DEF RunStep

LEMMA AgentStepKeeps == ASSUME IInv, NEW a \in Agents, AgentStep(a) PROVE IInv'
<1>1. CASE ModelTurn(a)
  BY <1>1, ModelTurnQuiet, QuietKeeps
<1>2. CASE OutOfIters(a)
  <2>1. GateTypeOK' /\ Quiet
    BY <1>2, EndQuiet DEF OutOfIters, Ended, approvalVars
  <2> QED
    BY <2>1, QuietKeeps
<1>3. CASE UnknownTool(a)
  <2>1. GateTypeOK' /\ Quiet
    BY <1>3, NextCallQuiet DEF UnknownTool, AtCall, Busy, approvalVars
  <2> QED
    BY <2>1, QuietKeeps
<1>4. CASE Pend(a)
  <2>1. GateTypeOK' /\ Quiet
    BY <1>4, EndQuiet DEF Pend, AtCall, Ended, approvalVars
  <2> QED
    BY <2>1, QuietKeeps
<1>5. CASE Ungated(a)
  BY <1>5, UngatedKeeps
<1>6. CASE RunTool(a)
  <2>1. CASE ~IsTop(a)
    BY <1>6, <2>1, WorkerRunKeeps
  <2>2. CASE IsTop(a)
    BY <1>6, <2>2, TopRunKeeps, TopFacts
  <2> QED
    BY <2>1, <2>2
<1> QED
  BY <1>1, <1>2, <1>3, <1>4, <1>5, <1>6 DEF AgentStep

LEMMA NextIInv == IInv /\ [Next]_vars => IInv'
<1> SUFFICES ASSUME IInv, [Next]_vars PROVE IInv'
  OBVIOUS
<1>1. CASE AppMint
  BY <1>1, MintKeeps DEF AppMint
<1>2. CASE Time
  BY <1>2, TimeQuiet, QuietKeeps
<1>3. ASSUME NEW r \in Runs, Begin(r) PROVE IInv'
  BY <1>3, BeginQuiet, QuietKeeps
<1>4. ASSUME NEW r \in Runs, RunStep(r) PROVE IInv'
  BY <1>4, RunStepKeeps
<1>5. ASSUME NEW a \in Agents, AgentStep(a) PROVE IInv'
  BY <1>5, AgentStepKeeps
<1>6. CASE Restart
  BY <1>6, RestartKeeps
<1>7. CASE UNCHANGED vars
  <2>1. UNCHANGED <<clock, boot, minted, seen, req, tok, pc, queue, effects, uses>>
    BY <1>7 DEF vars, approvalVars, loopVars
  <2>2. GateTypeOK'
    BY <2>1 DEF IInv, GateTypeOK, ApprovalTypeOK
  <2>3. Quiet
    BY <2>1 DEF IInv, Quiet, BusyHasCall
  <2> QED
    BY <2>2, <2>3, QuietKeeps
<1> QED
  BY <1>1, <1>2, <1>3, <1>4, <1>5, <1>6, <1>7 DEF Next

THEOREM SpecIInv == Spec => []IInv
  BY InitIInv, NextIInv, PTL DEF Spec

-----------------------------------------------------------------------------
(* The results *)

\* The variables of the approval gate keep their types.
THEOREM GateTypeCorrect == Spec => []GateTypeOK
<1>1. IInv => GateTypeOK
  BY DEF IInv
<1> QED
  BY <1>1, SpecIInv, PTL

\* Every gated execution had a token minted for that call and that boot,
\* valid at the request's time (loop_.rs:378-407, approval.rs:98-123).
THEOREM EffectsAreApproved == Spec => []OnlyApprovedEffects
<1>1. IInv => OnlyApprovedEffects
  BY DEF IInv
<1> QED
  BY <1>1, SpecIInv, PTL

\* One approval, at most one execution (approval.rs:111-121).
THEOREM ApprovalIsSingleUse == Spec => []SingleUse
<1>1. IInv => SingleUse
  BY DEF IInv
<1> QED
  BY <1>1, SpecIInv, PTL

\* A burnt nonce's call ran or is about to (loop_.rs:382-413).
THEOREM BurntApprovalsRun == Spec => []BurntMeansRun
<1>1. IInv => BurntMeansRun
  BY DEF IInv
<1> QED
  BY <1>1, SpecIInv, PTL

-----------------------------------------------------------------------------
(* Workers *)

WorkersUnpended == \A a \in Agents : ~IsTop(a) => pc[a] # "pending_approval"

\* Only Pend ends an agent in PendingApproval, and a worker's registry holds
\* no call that Pend could stop at.
LEMMA WorkersUnpendedStep == IInv /\ WorkersUnpended /\ [Next]_vars => WorkersUnpended'
<1> SUFFICES ASSUME IInv, WorkersUnpended, [Next]_vars, NEW a \in Agents, ~IsTop(a)
             PROVE  pc'[a] # "pending_approval"
  BY DEF WorkersUnpended
<1>1. pc[a] # "pending_approval" /\ pc \in [Agents -> PCs]
  BY DEF WorkersUnpended, IInv, GateTypeOK
<1>2. ASSUME NEW r \in Runs, Begin(r) \/ Reply(r) \/ Approved(r) \/ Join(r)
      PROVE  pc'[a] # "pending_approval"
  BY <1>1, <1>2, TopFacts DEF Begin, Reply, Approved, Join
<1>3. ASSUME NEW r \in Runs, SyntheticRefused(r) \/ Council(r)
                              \/ \E name \in Synthetic : SyntheticError(r, name)
      PROVE  pc'[a] # "pending_approval"
  BY <1>1, <1>3, TopFacts DEF SyntheticRefused, Council, SyntheticError, NextCall
<1>4. ASSUME NEW r \in Runs, Delegate(r) \/ DeepResearch(r)
      PROVE  pc'[a] # "pending_approval"
  BY <1>1, <1>4, TopFacts DEF Delegate, DeepResearch, StartWorkers
<1>5. ASSUME NEW b \in Agents, ModelTurn(b) \/ OutOfIters(b) \/ Ungated(b)
      PROVE  pc'[a] # "pending_approval"
  BY <1>1, <1>5 DEF ModelTurn, OutOfIters, Ungated
<1>6. ASSUME NEW b \in Agents, UnknownTool(b) \/ RunTool(b)
      PROVE  pc'[a] # "pending_approval"
  BY <1>1, <1>6 DEF UnknownTool, RunTool, NextCall
<1>7. ASSUME NEW b \in Agents, Pend(b) PROVE pc'[a] # "pending_approval"
  <2>1. b # a
    BY <1>7 DEF Pend, Registry, NeedsApproval
  <2> QED
    BY <2>1, <1>1, <1>7 DEF Pend
<1>8. CASE AppMint \/ Time \/ Restart \/ UNCHANGED vars
  BY <1>1, <1>8 DEF AppMint, Time, Restart, loopVars, vars
<1> QED
  BY <1>2, <1>3, <1>4, <1>5, <1>6, <1>7, <1>8 DEF Next, RunStep, AgentStep

\* A worker never runs an irreversible tool and never waits for a human
\* (loop_.rs:440-478, tools.rs:86-97).
THEOREM WorkersAreReadOnly == Spec => []WorkersReadOnly
<1>1. Init => WorkersUnpended
  BY DEF Init, WorkersUnpended
<1>2. IInv /\ WorkersUnpended => WorkersReadOnly
  BY DEF IInv, TopEffects, WorkersUnpended, WorkersReadOnly
<1> QED
  BY <1>1, <1>2, WorkersUnpendedStep, SpecIInv, PTL DEF Spec

-----------------------------------------------------------------------------
(* The approval gate implements SingleUseApproval *)

LEMMA PromiseInit == Init => Promise!Init
  BY DEF Init, ApprovalInit, Promise!Init

LEMMA PromiseMint ==
  ASSUME IInv, NEW c \in Irreversible, NEW b \in 0..boot, Mint(c, b), UNCHANGED loopVars
  PROVE  Promise!Next
<1>1. PICK n \in Nonces \ {t.nonce : t \in minted} :
        minted' = minted \cup
          {[call |-> c, nonce |-> n, expiry |-> clock + MintTTL, boot |-> b]}
  BY DEF Mint
<1> DEFINE new == [call |-> c, nonce |-> n, expiry |-> clock + MintTTL, boot |-> b]
<1> HIDE DEF new
<1>2. {<<t.nonce, t.call>> : t \in minted}' = {<<t.nonce, t.call>> : t \in minted} \cup {<<n, c>>}
  <2>1. minted' = minted \cup {new} /\ new.nonce = n /\ new.call = c
    BY <1>1 DEF new
  <2> QED
    BY <2>1
<1>3. UNCHANGED <<uses, effects>>
  BY DEF loopVars
<1>4. Promise!Approve(n, c)
  BY <1>1, <1>2, <1>3 DEF Promise!Approve
<1> QED
  BY <1>4, CallAssumption DEF Promise!Next

\* Only irreversible calls are ever minted for.
MintedIrreversible == \A t \in minted : t.call \in Irreversible

LEMMA MintedIrreversibleStep == MintedIrreversible /\ [Next]_vars => MintedIrreversible'
<1> SUFFICES ASSUME MintedIrreversible, [Next]_vars PROVE MintedIrreversible'
  OBVIOUS
<1>1. CASE AppMint
  BY <1>1 DEF AppMint, Mint, MintedIrreversible
<1>2. CASE ~AppMint
  <2>1. UNCHANGED minted
    BY <1>2 DEF Next, Time, Tick, Begin, RunStep, AgentStep, Restart, NewVerifier, Reply,
       SyntheticRefused, SyntheticError, Council, Delegate, DeepResearch, Join, Approved,
       ModelTurn, OutOfIters, UnknownTool, Pend, Ungated, RunTool, approvalVars, vars
  <2> QED
    BY <2>1 DEF MintedIrreversible
<1> QED
  BY <1>1, <1>2

\* Running an approved call performs that call with its approval.
LEMMA PromiseRun ==
  ASSUME IInv, MintedIrreversible, NEW r \in Runs, RunTool(Top(r)), tok[r] # NoToken
  PROVE  Promise!Next
<1> DEFINE e == [call |-> Call(Top(r)), tok |-> tok[r], mode |-> Mode(Top(r)),
                 top |-> IsTop(Top(r)), now |-> req[r].now, at |-> clock, boot |-> boot]
<1>1. PICK t \in Token : t = tok[r]
  BY DEF IInv, GateTypeOK
<1>2. HeldToken(r) /\ t.nonce \in Nonces /\ t.call \in Calls
  BY <1>1 DEF IInv, TokensHeld, Token
<1>3. uses' = [uses EXCEPT ![t.nonce] = @ + 1] /\ UNCHANGED minted
  BY <1>1, TopFacts DEF RunTool, approvalVars
<1>4. uses[t.nonce] = 0 /\ uses' = [uses EXCEPT ![t.nonce] = 1]
  <2>1. uses[t.nonce] = 0
    BY <1>1, <1>2 DEF HeldToken
  <2> QED
    BY <2>1, <1>2, <1>3 DEF IInv, GateTypeOK
<1>5. t \in minted /\ Call(Top(r)) = t.call /\ t.call \in Irreversible
  BY <1>1, <1>2 DEF HeldToken, MintedIrreversible
<1>6. effects' = effects \cup {e} /\ e.tok = t /\ e.call = t.call
  BY <1>1, <1>5, TopFacts DEF RunTool
<1> HIDE DEF e
<1>7. {<<f.tok.nonce, f.call>> : f \in {h \in effects : h.tok # NoToken}}'
        = {<<f.tok.nonce, f.call>> : f \in {h \in effects : h.tok # NoToken}}
            \cup {<<t.nonce, t.call>>}
  BY <1>1, <1>6
<1>8. <<t.nonce, t.call>> \in {<<u.nonce, u.call>> : u \in minted}
  BY <1>5
<1>9. Promise!Perform(t.nonce, t.call)
  BY <1>3, <1>4, <1>7, <1>8 DEF Promise!Perform
<1> QED
  BY <1>2, <1>9 DEF Promise!Next

\* Every other step leaves approvals, counts and effects alone.
LEMMA PromiseOther ==
  ASSUME IInv, [Next]_vars, ~AppMint,
         \A r \in Runs : ~(RunTool(Top(r)) /\ tok[r] # NoToken)
  PROVE  UNCHANGED Promise!vars
<1>1. UNCHANGED minted
  BY DEF Next, Time, Tick, Begin, RunStep, AgentStep, Restart, NewVerifier, Reply,
     SyntheticRefused, SyntheticError, Council, Delegate, DeepResearch, Join, Approved,
     ModelTurn, OutOfIters, UnknownTool, Pend, Ungated, RunTool, approvalVars, vars
<1>2. CASE \E a \in Agents : RunTool(a)
  <2>1. PICK a \in Agents : RunTool(a)
    BY <1>2
  <2>2. IsTop(a) => tok[a[1]] = NoToken
    BY <2>1, TopFacts
  <2>3. uses' = uses
    BY <2>1, <2>2 DEF RunTool
  <2>4. {f \in effects' : f.tok # NoToken} = {f \in effects : f.tok # NoToken}
    BY <2>1, <2>2 DEF RunTool
  <2> QED
    BY <1>1, <2>3, <2>4 DEF Promise!vars
<1>3. CASE ~ \E a \in Agents : RunTool(a)
  <2>1. UNCHANGED <<effects, uses>>
    BY <1>3 DEF Next, Time, Begin, RunStep, AgentStep, Restart, Reply, loopVars,
       SyntheticRefused, SyntheticError, Council, Delegate, DeepResearch, Join, Approved,
       ModelTurn, OutOfIters, UnknownTool, Pend, Ungated, vars
  <2> QED
    BY <1>1, <2>1 DEF Promise!vars
<1> QED
  BY <1>2, <1>3

LEMMA PromiseStep ==
  IInv /\ MintedIrreversible /\ [Next]_vars => [Promise!Next]_Promise!vars
<1> SUFFICES ASSUME IInv, MintedIrreversible, [Next]_vars PROVE [Promise!Next]_Promise!vars
  OBVIOUS
<1>1. CASE AppMint
  BY <1>1, PromiseMint DEF AppMint
<1>2. CASE \E r \in Runs : RunTool(Top(r)) /\ tok[r] # NoToken
  BY <1>2, PromiseRun
<1>3. CASE ~AppMint /\ \A r \in Runs : ~(RunTool(Top(r)) /\ tok[r] # NoToken)
  BY <1>3, PromiseOther
<1> QED
  BY <1>1, <1>2, <1>3

\* The approval gate, with its tokens, clocks, restarts and concurrent
\* requests, implements the single-use promise (approval.rs:3-9).
THEOREM RefinesPromise == Spec => ImplementsPromise
<1>1. Init => MintedIrreversible
  BY DEF Init, ApprovalInit, MintedIrreversible
<1> QED
  BY <1>1, PromiseInit, PromiseStep, MintedIrreversibleStep, SpecIInv, PTL
     DEF Spec, ImplementsPromise, Promise!Spec

-----------------------------------------------------------------------------
(* What a run costs *)

\* A set of numbers that is not empty has a least one.
LEMMA LeastOf ==
  ASSUME NEW T, T \subseteq Nat, T # {}
  PROVE  \E m \in T : \A n \in T : m <= n
<1> DEFINE R == {p \in Nat \X Nat : p[1] < p[2]}
<1>1. IsWellFoundedOn(R, Nat)
  BY NatLessThanWellFounded DEF OpToRel
<1>2. \A m, n \in Nat : n < m => <<n, m>> \in R
  OBVIOUS
<1> HIDE DEF R
<1>3. PICK m \in T : \A n \in T : ~(<<n, m>> \in R)
  BY <1>1, WFMin
<1>4. ASSUME NEW n \in T PROVE m <= n
  <2>1. m \in Nat /\ n \in Nat /\ ~(n < m)
    BY <1>2, <1>3
  <2> QED
    BY <2>1
<1> QED
  BY <1>4

\* g adds up, up to the worker m, what Total returns.
Adds(g, u, r, m) ==
    g = [k \in 0..m |-> IF k = 0 THEN u[Top(r)] ELSE g[k - 1] + u[<<r, k>>]]

LEMMA AddsExists ==
  ASSUME NEW u, NEW r, NEW m \in Nat
  PROVE  \E g : Adds(g, u, r, m)
<1> DEFINE Bad == {n \in Nat : ~\E g : Adds(g, u, r, n)}
<1>1. SUFFICES ASSUME Bad # {} PROVE FALSE
  OBVIOUS
<1>2. PICK b \in Bad : \A n \in Bad : b <= n
  <2>1. Bad \subseteq Nat
    OBVIOUS
  <2> QED
    BY <1>1, <2>1, LeastOf
<1>3. b # 0
  <2> DEFINE z == [k \in 0..0 |-> u[Top(r)]]
  <2>1. z = [k \in 0..0 |-> IF k = 0 THEN u[Top(r)] ELSE z[k - 1] + u[<<r, k>>]]
    OBVIOUS
  <2>2. Adds(z, u, r, 0)
    BY <2>1 DEF Adds
  <2> QED
    BY <2>2
<1>4. b \in Nat \ {0} /\ b - 1 \in Nat /\ ~(b <= b - 1)
  BY <1>3
<1>5. PICK g : Adds(g, u, r, b - 1)
  BY <1>2, <1>4
<1> DEFINE h == [k \in 0..b |-> IF k = b THEN g[b - 1] + u[<<r, b>>] ELSE g[k]]
<1>6. ASSUME NEW k \in 0..b
      PROVE  h[k] = IF k = 0 THEN u[Top(r)] ELSE h[k - 1] + u[<<r, k>>]
  <2>1. CASE k = b
    BY <2>1, <1>4
  <2>2. CASE k # b
    <3>1. k \in 0..(b - 1)
      BY <2>2, <1>4
    <3>2. g[k] = IF k = 0 THEN u[Top(r)] ELSE g[k - 1] + u[<<r, k>>]
      BY <1>5, <3>1 DEF Adds
    <3>3. h[k] = g[k] /\ (k # 0 => h[k - 1] = g[k - 1])
      BY <2>2, <3>1, <1>4
    <3> QED
      BY <3>2, <3>3
  <2> QED
    BY <2>1, <2>2
<1>7. h = [k \in 0..b |-> h[k]]
  OBVIOUS
<1> HIDE DEF h
<1>8. Adds(h, u, r, b)
  BY <1>6, <1>7 DEF Adds
<1> QED
  BY <1>8

LEMMA EndOf == ASSUME NEW m \in Nat PROVE m \in 0..m
  OBVIOUS

\* The sum, step by step; what holds of every step holds of the total.
LEMMA TotalIs ==
  ASSUME NEW u \in [Agents -> Nat], NEW r \in Runs
  PROVE  \E g \in [0..MaxSubtasks -> Nat] :
            /\ g[0] = u[Top(r)] /\ g[MaxSubtasks] = Total(u, r)
            /\ \A k \in 1..MaxSubtasks : <<r, k>> \in Agents /\ g[k] = g[k - 1] + u[<<r, k>>]
<1>1. MaxSubtasks \in Nat
  BY LoopBoundAssumption
<1> DEFINE g == CHOOSE f : Adds(f, u, r, MaxSubtasks)
<1>2. Adds(g, u, r, MaxSubtasks)
  BY <1>1, AddsExists
<1>3. Total(u, r) = g[MaxSubtasks]
  BY DEF Total, Adds
<1> HIDE DEF g
<1>4. /\ \A k \in 0..MaxSubtasks : g[k] = IF k = 0 THEN u[Top(r)] ELSE g[k - 1] + u[<<r, k>>]
      /\ g = [k \in 0..MaxSubtasks |-> g[k]]
  BY <1>2 DEF Adds
<1>5. \A k \in 1..MaxSubtasks : <<r, k>> \in Agents
  BY DEF Agents
<1>6. Top(r) \in Agents
  BY TopFacts
<1> DEFINE Bad == {k \in 0..MaxSubtasks : g[k] \notin Nat}
<1>7. Bad = {}
  <2>1. SUFFICES ASSUME Bad # {} PROVE FALSE
    OBVIOUS
  <2>2. Bad \subseteq Nat
    BY <1>1
  <2>3. PICK b \in Bad : \A n \in Bad : b <= n
    <3> HIDE DEF Bad
    <3> QED
      BY <2>1, <2>2, LeastOf
  <2>4. b # 0
    BY <1>1, <1>4, <1>6
  <2>5. b - 1 \in 0..MaxSubtasks /\ ~(b <= b - 1) /\ b \in 1..MaxSubtasks
    BY <1>1, <2>4
  <2>6. g[b - 1] \in Nat /\ u[<<r, b>>] \in Nat
    BY <2>3, <2>5, <1>5
  <2>7. g[b] = g[b - 1] + u[<<r, b>>]
    BY <1>4, <2>4
  <2> QED
    BY <2>6, <2>7
<1>8. \A k \in 0..MaxSubtasks : g[k] \in Nat
  BY <1>7
<1>9. g \in [0..MaxSubtasks -> Nat]
  BY <1>4, <1>8
<1>10. g[0] = u[Top(r)]
  <2>1. 0 \in 0..MaxSubtasks
    BY <1>1
  <2> QED
    BY <1>4, <2>1
<1>11. ASSUME NEW k \in 1..MaxSubtasks PROVE <<r, k>> \in Agents /\ g[k] = g[k - 1] + u[<<r, k>>]
  BY <1>1, <1>4, <1>5, <1>11
<1> QED
  BY <1>3, <1>9, <1>10, <1>11

\* v is u with d more for the agent j of the run.
Added(u, v, r, j, d) ==
    \A k \in 0..MaxSubtasks : v[<<r, k>>] = IF k = j THEN u[<<r, k>>] + d ELSE u[<<r, k>>]

\* When one agent of the run has used d more, so has the run.
LEMMA TotalGrows ==
  ASSUME NEW u \in [Agents -> Nat], NEW v \in [Agents -> Nat], NEW r \in Runs,
         NEW j \in 0..MaxSubtasks, NEW d \in Nat, Added(u, v, r, j, d)
  PROVE  Total(v, r) = Total(u, r) + d
<1>1. MaxSubtasks \in Nat
  BY LoopBoundAssumption
<1>2. PICK g \in [0..MaxSubtasks -> Nat] :
            /\ g[0] = u[Top(r)] /\ g[MaxSubtasks] = Total(u, r)
            /\ \A k \in 1..MaxSubtasks : <<r, k>> \in Agents /\ g[k] = g[k - 1] + u[<<r, k>>]
  BY TotalIs
<1>3. PICK h \in [0..MaxSubtasks -> Nat] :
            /\ h[0] = v[Top(r)] /\ h[MaxSubtasks] = Total(v, r)
            /\ \A k \in 1..MaxSubtasks : <<r, k>> \in Agents /\ h[k] = h[k - 1] + v[<<r, k>>]
  BY TotalIs
<1> DEFINE Bad == {k \in 0..MaxSubtasks : h[k] # g[k] + (IF j <= k THEN d ELSE 0)}
<1>4. Bad = {}
  <2>1. SUFFICES ASSUME Bad # {} PROVE FALSE
    OBVIOUS
  <2>2. Bad \subseteq Nat
    BY <1>1
  <2>3. PICK b \in Bad : \A n \in Bad : b <= n
    <3> HIDE DEF Bad
    <3> QED
      BY <2>1, <2>2, LeastOf
  <2>4. b # 0
    <3>1. Top(r) = <<r, 0>> /\ Top(r) \in Agents /\ 0 \in 0..MaxSubtasks
      BY <1>1, TopFacts DEF Top
    <3>2. v[Top(r)] = IF 0 = j THEN u[Top(r)] + d ELSE u[Top(r)]
      BY <3>1 DEF Added
    <3>3. h[0] = g[0] + (IF j <= 0 THEN d ELSE 0)
      BY <1>1, <1>2, <1>3, <3>1, <3>2
    <3> QED
      BY <3>3
  <2>5. b - 1 \in 0..MaxSubtasks /\ ~(b <= b - 1) /\ b \in 1..MaxSubtasks
    BY <1>1, <2>4
  <2>6. h[b - 1] = g[b - 1] + (IF j <= b - 1 THEN d ELSE 0)
    BY <2>3, <2>5
  <2>7. v[<<r, b>>] = IF b = j THEN u[<<r, b>>] + d ELSE u[<<r, b>>]
    BY DEF Added
  <2>8. g[b] = g[b - 1] + u[<<r, b>>] /\ h[b] = h[b - 1] + v[<<r, b>>]
    BY <1>2, <1>3, <2>5
  <2>9. g[b - 1] \in Nat /\ u[<<r, b>>] \in Nat /\ j \in Nat /\ b \in Nat
    BY <1>1, <1>2, <2>5
  <2>10. h[b] = g[b] + (IF j <= b THEN d ELSE 0)
    BY <2>6, <2>7, <2>8, <2>9
  <2> QED
    BY <2>10
<1>5. h[MaxSubtasks] = g[MaxSubtasks] + d
  <2>1. MaxSubtasks \in 0..MaxSubtasks /\ MaxSubtasks \notin Bad
    BY <1>1, <1>4, EndOf, Zenon
  <2>2. h[MaxSubtasks] = g[MaxSubtasks] + (IF j <= MaxSubtasks THEN d ELSE 0)
    BY <2>1, Zenon
  <2>3. j <= MaxSubtasks
    OBVIOUS
  <2> QED
    BY <2>2, <2>3
<1> QED
  BY <1>2, <1>3, <1>5

\* Workers that have used at most w each.
LEMMA TotalBounded ==
  ASSUME NEW u \in [Agents -> Nat], NEW r \in Runs, NEW w \in Nat,
         \A k \in 1..MaxSubtasks : u[<<r, k>>] <= w
  PROVE  /\ Total(u, r) \in Nat /\ Total(u, r) >= u[Top(r)]
         /\ Total(u, r) <= u[Top(r)] + MaxSubtasks * w
<1>1. MaxSubtasks \in Nat
  BY LoopBoundAssumption
<1>2. PICK g \in [0..MaxSubtasks -> Nat] :
            /\ g[0] = u[Top(r)] /\ g[MaxSubtasks] = Total(u, r)
            /\ \A k \in 1..MaxSubtasks : <<r, k>> \in Agents /\ g[k] = g[k - 1] + u[<<r, k>>]
  BY TotalIs
<1> DEFINE Bad == {k \in 0..MaxSubtasks : ~(g[0] <= g[k] /\ g[k] <= g[0] + k * w)}
<1>3. Bad = {}
  <2>1. SUFFICES ASSUME Bad # {} PROVE FALSE
    OBVIOUS
  <2>2. Bad \subseteq Nat
    BY <1>1
  <2>3. PICK b \in Bad : \A n \in Bad : b <= n
    <3> HIDE DEF Bad
    <3> QED
      BY <2>1, <2>2, LeastOf
  <2>4. b # 0
    <3>1. g[0] \in Nat /\ 0 * w = 0
      BY <1>1
    <3> QED
      BY <3>1
  <2>5. b - 1 \in 0..MaxSubtasks /\ ~(b <= b - 1) /\ b \in 1..MaxSubtasks
    BY <1>1, <2>4
  <2>6. g[0] <= g[b - 1] /\ g[b - 1] <= g[0] + (b - 1) * w
    BY <2>3, <2>5
  <2>7. /\ g[b] = g[b - 1] + u[<<r, b>>] /\ u[<<r, b>>] <= w /\ u[<<r, b>>] \in Nat
        /\ g[b - 1] \in Nat /\ g[0] \in Nat /\ b \in Nat
    BY <1>1, <1>2, <2>5
  <2>8. (b - 1) * w + w = b * w
    BY <2>7
  <2>9. (b - 1) * w \in Int /\ b * w \in Int
    BY <2>7
  <2>10. g[0] <= g[b] /\ g[b] <= g[0] + b * w
    BY <2>6, <2>7, <2>8, <2>9
  <2> QED
    BY <2>10
<1>4. g[0] <= g[MaxSubtasks] /\ g[MaxSubtasks] <= g[0] + MaxSubtasks * w
  <2>1. MaxSubtasks \in 0..MaxSubtasks /\ MaxSubtasks \notin Bad
    BY <1>1, <1>3, EndOf, Zenon
  <2> QED
    BY <2>1, Zenon
<1> QED
  BY <1>1, <1>2, <1>4

-----------------------------------------------------------------------------
(* Every synthetic call pays for the largest fan-out beforehand *)

Worst ==
    LET fanout == MaxSubtasks * WorkerIters + 2
        panel == MaxCouncil + 1
    IN  IF fanout > panel THEN fanout ELSE panel

LEMMA WorstIs ==
  /\ WorkerIters \in Nat /\ WorkerIters <= MaxIters /\ WorkerIters <= MaxWorkerIters
  /\ MaxSubtasks * WorkerIters \in Nat
  /\ Worst \in Nat /\ Worst >= MaxSubtasks * WorkerIters + 2 /\ Worst >= MaxCouncil + 1
  /\ CostBound = MaxIters + MaxSyntheticCalls * Worst
<1>1. WorkerIters \in Nat /\ WorkerIters <= MaxIters /\ WorkerIters <= MaxWorkerIters
  BY LoopBoundAssumption DEF WorkerIters
<1>2. MaxSubtasks * WorkerIters \in Nat
  <2>1. \A m, n \in Nat : m * n \in Nat
    OBVIOUS
  <2> QED
    BY <1>1, <2>1, LoopBoundAssumption
<1>3. Worst \in Nat /\ Worst >= MaxSubtasks * WorkerIters + 2 /\ Worst >= MaxCouncil + 1
  BY <1>2, LoopBoundAssumption DEF Worst
<1> QED
  BY <1>1, <1>2, <1>3 DEF CostBound, Worst

LEMMA Times ==
  ASSUME NEW m \in Nat, NEW n \in Nat, m <= n, NEW w \in Nat
  PROVE  m * w \in Nat /\ n * w \in Nat /\ m * w <= n * w /\ (m + 1) * w = m * w + w
<1>1. m * w \in Nat /\ n * w \in Nat
  OBVIOUS
<1>2. (n - m) * w >= 0 /\ n * w = m * w + (n - m) * w
  OBVIOUS
<1>3. (m + 1) * w = m * w + w
  OBVIOUS
<1> QED
  BY <1>1, <1>2, <1>3

\* A request is waiting for its workers.
Joining(r) == pc[Top(r)] \in {"delegate", "deep_research"}

\* Workers live while they are waited for, and cost what they iterate.
WorkersInv ==
    \A a \in Agents : ~IsTop(a) =>
      /\ pc[a] # "idle" => Joining(a[1])
      /\ pc[a] = "idle" => usage[a] = 0
      /\ usage[a] <= iter[a]

\* At every moment, not only at the end, the usage of a run's agents adds up to
\* the calls made on its behalf.
ExactInv == \A r \in Runs : spent[r] = RolledUp(r)

\* What the fan-out being waited for may still cost.
Reserve(r) == IF pc[Top(r)] = "delegate" THEN Worst
              ELSE IF pc[Top(r)] = "deep_research" THEN Worst - 1 ELSE 0

BudgetInv ==
    \A r \in Runs : usage[Top(r)] + Reserve(r) <= iter[Top(r)] + synth[r] * Worst

CostIInv == CostTypeOK /\ WorkersInv /\ ExactInv /\ BudgetInv

\* The sum depends on the run's own agents only.
LEMMA TotalSame ==
  ASSUME NEW u \in [Agents -> Nat], NEW v \in [Agents -> Nat], NEW r \in Runs,
         \A a \in Agents : a[1] = r => v[a] = u[a]
  PROVE  Total(v, r) = Total(u, r)
<1>1. 0 \in 0..MaxSubtasks
  BY LoopBoundAssumption
<1>2. ASSUME NEW k \in 0..MaxSubtasks PROVE v[<<r, k>>] = u[<<r, k>>]
  BY DEF Agents
<1>3. \A k \in 0..MaxSubtasks : u[<<r, k>>] \in Nat
  BY DEF Agents
<1>4. Added(u, v, r, 0, 0)
  BY <1>2, <1>3 DEF Added
<1>5. Total(v, r) = Total(u, r) + 0
  BY <1>1, <1>4, TotalGrows
<1>6. Total(u, r) \in Nat
  BY TotalIs, LoopBoundAssumption
<1> QED
  BY <1>5, <1>6

\* One agent of the run has used d more.
LEMMA TotalAdds ==
  ASSUME NEW u \in [Agents -> Nat], NEW v \in [Agents -> Nat], NEW a \in Agents,
         NEW d \in Nat, \A b \in Agents : v[b] = IF b = a THEN u[b] + d ELSE u[b]
  PROVE  /\ Total(v, a[1]) = Total(u, a[1]) + d
         /\ \A r \in Runs \ {a[1]} : Total(v, r) = Total(u, r)
<1>1. a[1] \in Runs /\ a[2] \in 0..MaxSubtasks /\ a = <<a[1], a[2]>>
  BY DEF Agents
<1>2. Added(u, v, a[1], a[2], d)
  BY <1>1 DEF Added, Agents
<1>3. Total(v, a[1]) = Total(u, a[1]) + d
  BY <1>1, <1>2, TotalGrows
<1>4. ASSUME NEW r \in Runs \ {a[1]} PROVE Total(v, r) = Total(u, r)
  <2>1. r \in Runs /\ \A b \in Agents : b[1] = r => v[b] = u[b]
    BY <1>4
  <2> QED
    BY <2>1, TotalSame
<1> QED
  BY <1>3, <1>4

\* With idle workers the top loop's usage is the run's.
LEMMA TotalAlone ==
  ASSUME NEW u \in [Agents -> Nat], NEW r \in Runs,
         \A a \in Agents : a[1] = r /\ ~IsTop(a) => u[a] = 0
  PROVE  Total(u, r) = u[Top(r)]
<1>1. ASSUME NEW k \in 1..MaxSubtasks PROVE u[<<r, k>>] <= 0
  BY LoopBoundAssumption DEF Agents, IsTop
<1>2. Total(u, r) \in Nat /\ Total(u, r) >= u[Top(r)] /\ Total(u, r) <= u[Top(r)] + MaxSubtasks * 0
  BY <1>1, TotalBounded
<1>3. MaxSubtasks * 0 = 0 /\ u[Top(r)] \in Nat
  BY LoopBoundAssumption, TopFacts
<1> QED
  BY <1>2, <1>3

-----------------------------------------------------------------------------
(* Steps that cost nothing *)

CostQuiet ==
    /\ UNCHANGED <<iter, usage, spent>>
    /\ synth' \in [Runs -> 0..MaxSyntheticCalls]
    /\ \A r \in Runs : synth'[r] >= synth[r]
    /\ \A a \in Agents : \/ pc'[a] = pc[a]
                         \/ /\ pc[a] \notin {"delegate", "deep_research"}
                            /\ pc'[a] \notin {"delegate", "deep_research"}
                            /\ ~IsTop(a) => pc[a] # "idle" /\ pc'[a] # "idle"

LEMMA CostQuietKeeps == ASSUME CostIInv, CostQuiet PROVE CostIInv'
<1>1. UNCHANGED <<iter, usage, spent>>
  BY DEF CostQuiet
<1>2. CostTypeOK'
  BY <1>1 DEF CostIInv, CostTypeOK, CostQuiet
<1>3. ASSUME NEW r \in Runs PROVE Joining(r)' = Joining(r) /\ Reserve(r)' = Reserve(r)
  <2>1. \/ pc'[Top(r)] = pc[Top(r)]
        \/ /\ pc[Top(r)] \notin {"delegate", "deep_research"}
           /\ pc'[Top(r)] \notin {"delegate", "deep_research"}
    BY TopFacts DEF CostQuiet
  <2> QED
    BY <2>1 DEF Joining, Reserve
<1>4. WorkersInv'
  <2> SUFFICES ASSUME NEW a \in Agents, ~IsTop(a)
               PROVE  /\ pc'[a] # "idle" => Joining(a[1])'
                      /\ pc'[a] = "idle" => usage'[a] = 0
                      /\ usage'[a] <= iter'[a]
    BY DEF WorkersInv
  <2>1. pc'[a] = "idle" <=> pc[a] = "idle"
    BY DEF CostQuiet
  <2>2. a[1] \in Runs
    BY TopFacts
  <2>3. Joining(a[1])' = Joining(a[1])
    BY <1>3, <2>2
  <2>4. /\ pc[a] # "idle" => Joining(a[1])
        /\ pc[a] = "idle" => usage[a] = 0
        /\ usage[a] <= iter[a]
    BY DEF CostIInv, WorkersInv
  <2> QED
    BY <1>1, <2>1, <2>3, <2>4
<1>5. ExactInv'
  BY <1>1 DEF CostIInv, ExactInv, RolledUp
<1>6. BudgetInv'
  <2> SUFFICES ASSUME NEW r \in Runs
               PROVE  usage'[Top(r)] + Reserve(r)' <= iter'[Top(r)] + synth'[r] * Worst
    BY DEF BudgetInv
  <2>1. usage[Top(r)] + Reserve(r) <= iter[Top(r)] + synth[r] * Worst
    BY DEF CostIInv, BudgetInv
  <2>2. synth[r] \in Nat /\ synth'[r] \in Nat /\ synth[r] <= synth'[r]
    BY LoopBoundAssumption DEF CostIInv, CostTypeOK, CostQuiet
  <2>3. /\ synth[r] * Worst \in Nat /\ synth'[r] * Worst \in Nat
        /\ synth[r] * Worst <= synth'[r] * Worst
    BY <2>2, Times, WorstIs
  <2>4. usage[Top(r)] \in Nat /\ iter[Top(r)] \in Nat /\ Reserve(r) \in Int
    BY TopFacts, WorstIs, LoopBoundAssumption DEF CostIInv, CostTypeOK, Reserve
  <2> QED
    BY <1>1, <1>3, <2>1, <2>3, <2>4
<1> QED
  BY <1>2, <1>4, <1>5, <1>6 DEF CostIInv

LEMMA NextCallCostQuiet ==
  ASSUME GateTypeOK, CostIInv, NEW a \in Agents, pc[a] \in {"calls", "run"}, NextCall(a),
         UNCHANGED <<synth, iter, usage, spent>>
  PROVE  CostIInv'
<1>1. \A b \in Agents : b # a => pc'[b] = pc[b]
  BY DEF NextCall, GateTypeOK
<1>2. pc'[a] \in {"calls", "model"}
  BY DEF NextCall, GateTypeOK
<1>3. synth' \in [Runs -> 0..MaxSyntheticCalls] /\ \A r \in Runs : synth'[r] >= synth[r]
  BY DEF CostIInv, CostTypeOK
<1>4. CostQuiet
  BY <1>1, <1>2, <1>3 DEF CostQuiet
<1> QED
  BY <1>4, CostQuietKeeps

LEMMA MoveCostQuiet ==
  ASSUME GateTypeOK, CostIInv, NEW a \in Agents, NEW to \in PCs \ {"idle", "delegate", "deep_research"},
         pc[a] \notin {"idle", "delegate", "deep_research"} \/ (IsTop(a) /\ pc[a] = "idle"),
         pc' = [pc EXCEPT ![a] = to],
         UNCHANGED <<synth, iter, usage, spent>>
  PROVE  CostIInv'
<1>1. \A b \in Agents : b # a => pc'[b] = pc[b]
  BY DEF GateTypeOK
<1>2. pc'[a] = to
  BY DEF GateTypeOK
<1>3. synth' \in [Runs -> 0..MaxSyntheticCalls] /\ \A r \in Runs : synth'[r] >= synth[r]
  BY DEF CostIInv, CostTypeOK
<1>4. CostQuiet
  BY <1>1, <1>2, <1>3 DEF CostQuiet
<1> QED
  BY <1>4, CostQuietKeeps

LEMMA SyntheticErrorCost ==
  ASSUME GateTypeOK, CostIInv, NEW r \in Runs, NEW name \in Synthetic, SyntheticError(r, name)
  PROVE  CostIInv'
<1>1. Top(r) \in Agents
  BY TopFacts
<1>2. pc[Top(r)] = "calls" /\ synth[r] < MaxSyntheticCalls
      /\ synth' = [synth EXCEPT ![r] = @ + 1] /\ NextCall(Top(r))
      /\ UNCHANGED <<iter, usage, spent>>
  BY DEF SyntheticError, StartSynthetic, AtCall
<1>3. \A b \in Agents : b # Top(r) => pc'[b] = pc[b]
  BY <1>2 DEF NextCall, GateTypeOK
<1>4. pc'[Top(r)] \in {"calls", "model"}
  BY <1>1, <1>2 DEF NextCall, GateTypeOK
<1>5. synth' \in [Runs -> 0..MaxSyntheticCalls] /\ \A s \in Runs : synth'[s] >= synth[s]
  BY <1>2, LoopBoundAssumption DEF CostIInv, CostTypeOK
<1>6. CostQuiet
  BY <1>2, <1>3, <1>4, <1>5 DEF CostQuiet
<1> QED
  BY <1>6, CostQuietKeeps

-----------------------------------------------------------------------------
(* Steps that cost something *)

\* d model calls counted by an agent and by its run.
LEMMA ExactKept ==
  ASSUME CostTypeOK, CostTypeOK', ExactInv, NEW a \in Agents, NEW d \in Nat,
         \A b \in Agents : usage'[b] = IF b = a THEN usage[b] + d ELSE usage[b],
         \A r \in Runs : spent'[r] = IF r = a[1] THEN spent[r] + d ELSE spent[r]
  PROVE  ExactInv'
<1>1. usage \in [Agents -> Nat] /\ usage' \in [Agents -> Nat]
  BY DEF CostTypeOK
<1>2. /\ Total(usage', a[1]) = Total(usage, a[1]) + d
      /\ \A r \in Runs \ {a[1]} : Total(usage', r) = Total(usage, r)
  BY <1>1, TotalAdds
<1>3. ASSUME NEW r \in Runs PROVE spent'[r] = Total(usage', r)
  <2>1. spent[r] = Total(usage, r)
    BY DEF ExactInv, RolledUp
  <2> QED
    BY <1>2, <2>1
<1> QED
  BY <1>3 DEF ExactInv, RolledUp

LEMMA ModelTurnCost ==
  ASSUME GateTypeOK, CostIInv, NEW a \in Agents, ModelTurn(a)
  PROVE  CostIInv'
<1>1. pc[a] = "model" /\ pc'[a] \in {"final", "calls"}
  BY DEF ModelTurn, GateTypeOK
<1>2. \A b \in Agents : b # a => pc'[b] = pc[b]
  BY DEF ModelTurn, GateTypeOK
<1>3. /\ iter[a] < Limit(a) /\ UNCHANGED synth
      /\ \A b \in Agents : iter'[b] = IF b = a THEN iter[b] + 1 ELSE iter[b]
      /\ \A b \in Agents : usage'[b] = IF b = a THEN usage[b] + 1 ELSE usage[b]
      /\ \A r \in Runs : spent'[r] = IF r = a[1] THEN spent[r] + 1 ELSE spent[r]
  BY DEF ModelTurn, CostIInv, CostTypeOK
<1>4. CostTypeOK'
  <2>1. iter[a] + 1 \in 0..MaxIters /\ (~IsTop(a) => iter[a] + 1 <= MaxWorkerIters)
    BY <1>3, WorstIs, LoopBoundAssumption DEF Limit, CostIInv, CostTypeOK
  <2>2. iter' \in [Agents -> 0..MaxIters] /\ \A b \in Agents : ~IsTop(b) => iter'[b] <= MaxWorkerIters
    BY <1>3, <2>1 DEF ModelTurn, CostIInv, CostTypeOK
  <2>3. usage' \in [Agents -> Nat] /\ spent' \in [Runs -> Nat]
    BY TopFacts DEF ModelTurn, CostIInv, CostTypeOK
  <2> QED
    BY <1>3, <2>2, <2>3 DEF CostIInv, CostTypeOK
<1>5. ExactInv'
  BY <1>3, <1>4, ExactKept DEF CostIInv
<1>6. ASSUME NEW r \in Runs PROVE Joining(r)' = Joining(r) /\ Reserve(r)' = Reserve(r)
  <2>1. \/ pc'[Top(r)] = pc[Top(r)]
        \/ /\ pc[Top(r)] \notin {"delegate", "deep_research"}
           /\ pc'[Top(r)] \notin {"delegate", "deep_research"}
    BY <1>1, <1>2, TopFacts
  <2> QED
    BY <2>1 DEF Joining, Reserve
<1>7. WorkersInv'
  <2> SUFFICES ASSUME NEW b \in Agents, ~IsTop(b)
               PROVE  /\ pc'[b] # "idle" => Joining(b[1])'
                      /\ pc'[b] = "idle" => usage'[b] = 0
                      /\ usage'[b] <= iter'[b]
    BY DEF WorkersInv
  <2>1. Joining(b[1])' = Joining(b[1])
    BY <1>6, TopFacts
  <2>2. /\ pc[b] # "idle" => Joining(b[1])
        /\ pc[b] = "idle" => usage[b] = 0
        /\ usage[b] <= iter[b]
    BY DEF CostIInv, WorkersInv
  <2>3. usage[b] \in Nat /\ iter[b] \in Nat
    BY LoopBoundAssumption DEF CostIInv, CostTypeOK
  <2>4. CASE b = a
    BY <1>1, <1>3, <2>1, <2>2, <2>3, <2>4
  <2>5. CASE b # a
    BY <1>2, <1>3, <2>1, <2>2, <2>5
  <2> QED
    BY <2>4, <2>5
<1>8. BudgetInv'
  <2> SUFFICES ASSUME NEW r \in Runs
               PROVE  usage'[Top(r)] + Reserve(r)' <= iter'[Top(r)] + synth'[r] * Worst
    BY DEF BudgetInv
  <2>1. usage[Top(r)] + Reserve(r) <= iter[Top(r)] + synth[r] * Worst
    BY DEF CostIInv, BudgetInv
  <2>2. synth[r] \in Nat /\ synth[r] * Worst \in Nat
    BY Times, WorstIs, LoopBoundAssumption DEF CostIInv, CostTypeOK
  <2>3. usage[Top(r)] \in Nat /\ iter[Top(r)] \in Nat /\ Reserve(r) \in Int
    BY TopFacts, WorstIs, LoopBoundAssumption DEF CostIInv, CostTypeOK, Reserve
  <2>4. \/ usage'[Top(r)] = usage[Top(r)] + 1 /\ iter'[Top(r)] = iter[Top(r)] + 1
        \/ usage'[Top(r)] = usage[Top(r)] /\ iter'[Top(r)] = iter[Top(r)]
    BY <1>3, TopFacts
  <2>5. synth'[r] = synth[r] /\ Reserve(r)' = Reserve(r)
    BY <1>3, <1>6
  <2> HIDE DEF Worst
  <2> QED
    BY <2>1, <2>2, <2>3, <2>4, <2>5
<1> QED
  BY <1>4, <1>5, <1>7, <1>8 DEF CostIInv

\* A synthetic call was counted before it started, and d calls of it were made.
LEMMA SyntheticBudget ==
  ASSUME CostIInv, NEW r \in Runs, NEW d \in Nat,
         ~Joining(r), synth'[r] = synth[r] + 1,
         usage'[Top(r)] = usage[Top(r)] + d, iter'[Top(r)] = iter[Top(r)],
         d + Reserve(r)' <= Worst
  PROVE  usage'[Top(r)] + Reserve(r)' <= iter'[Top(r)] + synth'[r] * Worst
<1>1. usage[Top(r)] + Reserve(r) <= iter[Top(r)] + synth[r] * Worst
  BY DEF CostIInv, BudgetInv
<1>2. Reserve(r) = 0
  BY DEF Joining, Reserve
<1>3. synth[r] \in Nat /\ usage[Top(r)] \in Nat /\ iter[Top(r)] \in Nat
  BY TopFacts, LoopBoundAssumption DEF CostIInv, CostTypeOK
<1>4. synth[r] * Worst \in Nat /\ (synth[r] + 1) * Worst = synth[r] * Worst + Worst
  BY <1>3, Times, WorstIs
<1>5. Reserve(r)' \in Int /\ Worst \in Nat
  BY WorstIs DEF Reserve
<1>6. synth'[r] * Worst = synth[r] * Worst + Worst
  BY <1>4
<1> QED
  BY <1>1, <1>2, <1>3, <1>4, <1>5, <1>6

\* The other runs' budgets are not touched.
LEMMA OthersBudget ==
  ASSUME CostIInv, NEW r \in Runs, pc'[Top(r)] = pc[Top(r)], synth'[r] = synth[r],
         usage'[Top(r)] = usage[Top(r)], iter'[Top(r)] = iter[Top(r)]
  PROVE  usage'[Top(r)] + Reserve(r)' <= iter'[Top(r)] + synth'[r] * Worst
<1>1. usage[Top(r)] + Reserve(r) <= iter[Top(r)] + synth[r] * Worst
  BY DEF CostIInv, BudgetInv
<1>2. Reserve(r)' = Reserve(r)
  BY DEF Reserve
<1> QED
  BY <1>1, <1>2

LEMMA CouncilCost ==
  ASSUME GateTypeOK, CostIInv, NEW r \in Runs, Council(r)
  PROVE  CostIInv'
<1>1. Top(r) \in Agents /\ IsTop(Top(r)) /\ Top(r)[1] = r
  BY TopFacts
<1>2. PICK n \in 1..MaxCouncil :
         /\ usage' = [usage EXCEPT ![Top(r)] = @ + n + 1]
         /\ spent' = [spent EXCEPT ![r] = @ + n + 1]
  BY DEF Council
<1>3. /\ pc[Top(r)] = "calls" /\ synth[r] < MaxSyntheticCalls
      /\ synth' = [synth EXCEPT ![r] = @ + 1] /\ NextCall(Top(r)) /\ UNCHANGED iter
  BY DEF Council, StartSynthetic, AtCall
<1>4. pc'[Top(r)] \in {"calls", "model"} /\ \A b \in Agents : b # Top(r) => pc'[b] = pc[b]
  BY <1>1, <1>3 DEF NextCall, GateTypeOK
<1>5. n + 1 \in Nat /\ n + 1 <= MaxCouncil + 1
  BY LoopBoundAssumption
<1>6. CostTypeOK'
  BY <1>1, <1>2, <1>3, <1>5, LoopBoundAssumption DEF CostIInv, CostTypeOK
<1>7. /\ \A b \in Agents : usage'[b] = IF b = Top(r) THEN usage[b] + (n + 1) ELSE usage[b]
      /\ \A s \in Runs : spent'[s] = IF s = r THEN spent[s] + (n + 1) ELSE spent[s]
  BY <1>2, <1>5 DEF CostIInv, CostTypeOK
<1>8. ExactInv'
  BY <1>1, <1>5, <1>6, <1>7, ExactKept DEF CostIInv
<1>9. ASSUME NEW s \in Runs PROVE Joining(s)' = Joining(s)
  BY <1>3, <1>4, TopFacts DEF Joining
<1>10. WorkersInv'
  <2> SUFFICES ASSUME NEW b \in Agents, ~IsTop(b)
               PROVE  /\ pc'[b] # "idle" => Joining(b[1])'
                      /\ pc'[b] = "idle" => usage'[b] = 0
                      /\ usage'[b] <= iter'[b]
    BY DEF WorkersInv
  <2>1. b # Top(r) /\ b[1] \in Runs
    BY <1>1, TopFacts
  <2> QED
    BY <1>3, <1>4, <1>7, <1>9, <2>1 DEF CostIInv, WorkersInv
<1>11. BudgetInv'
  <2>1. ASSUME NEW s \in Runs
        PROVE  usage'[Top(s)] + Reserve(s)' <= iter'[Top(s)] + synth'[s] * Worst
    <3>1. CASE s = r
      <4>1. ~Joining(r) /\ Reserve(r)' = 0
        BY <1>3, <1>4 DEF Joining, Reserve
      <4>2. synth'[r] = synth[r] + 1
        BY <1>3 DEF CostIInv, CostTypeOK
      <4>3. (n + 1) + Reserve(r)' <= Worst
        BY <4>1, <1>5, WorstIs, LoopBoundAssumption
      <4> QED
        BY <1>1, <1>3, <1>5, <1>7, <3>1, <4>1, <4>2, <4>3, SyntheticBudget
    <3>2. CASE s # r
      <4>1. Top(s) \in Agents /\ Top(s) # Top(r)
        BY <3>2, TopFacts
      <4>2. synth'[s] = synth[s]
        BY <1>3, <3>2 DEF CostIInv, CostTypeOK
      <4> QED
        BY <1>3, <1>4, <1>7, <4>1, <4>2, OthersBudget
    <3> QED
      BY <3>1, <3>2
  <2> QED
    BY <2>1 DEF BudgetInv
<1> QED
  BY <1>6, <1>8, <1>10, <1>11 DEF CostIInv

\* Starting the workers of a run, d model calls having been made for it.
LEMMA StartWorkersCost ==
  ASSUME GateTypeOK, CostIInv, CostTypeOK', NEW r \in Runs, pc[Top(r)] = "calls",
         NEW name \in {"delegate", "deep_research"}, StartWorkers(r, name),
         NEW d \in Nat, d + (IF name = "delegate" THEN Worst ELSE Worst - 1) <= Worst,
         \A s \in Runs : synth'[s] = IF s = r THEN synth[s] + 1 ELSE synth[s],
         \A b \in Agents : usage'[b] = IF b = Top(r) THEN usage[b] + d ELSE usage[b],
         \A s \in Runs : spent'[s] = IF s = r THEN spent[s] + d ELSE spent[s],
         UNCHANGED iter
  PROVE  CostIInv'
<1>1. Top(r) \in Agents /\ IsTop(Top(r)) /\ Top(r)[1] = r
  BY TopFacts
<1>2. PICK m \in 1..MaxSubtasks :
        pc' = [a \in Agents |-> IF a \in {b \in Workers(r) : b[2] <= m} THEN "model"
                               ELSE IF a = Top(r) THEN name ELSE pc[a]]
  BY DEF StartWorkers
<1>3. /\ pc'[Top(r)] = name
      /\ \A s \in Runs : s # r => pc'[Top(s)] = pc[Top(s)]
      /\ \A b \in Agents : pc'[b] = pc[b] \/ (b[1] = r /\ pc'[b] # "idle")
  BY <1>1, <1>2, TopFacts DEF Workers
<1>4. ExactInv'
  <2>1. \A s \in Runs : spent'[s] = IF s = Top(r)[1] THEN spent[s] + d ELSE spent[s]
    BY <1>1
  <2>2. CostTypeOK /\ ExactInv
    BY DEF CostIInv
  <2> HIDE DEF Top
  <2> QED
    BY <1>1, <2>1, <2>2, ExactKept
<1>5. WorkersInv'
  <2> SUFFICES ASSUME NEW b \in Agents, ~IsTop(b)
               PROVE  /\ pc'[b] # "idle" => Joining(b[1])'
                      /\ pc'[b] = "idle" => usage'[b] = 0
                      /\ usage'[b] <= iter'[b]
    BY DEF WorkersInv
  <2>1. b # Top(r) /\ b[1] \in Runs
    BY <1>1, TopFacts
  <2>2. usage'[b] = usage[b] /\ iter'[b] = iter[b]
    BY <2>1
  <2>3. /\ pc[b] # "idle" => Joining(b[1])
        /\ pc[b] = "idle" => usage[b] = 0
        /\ usage[b] <= iter[b]
    BY DEF CostIInv, WorkersInv
  <2>4. b[1] = r => Joining(b[1])'
    BY <1>3 DEF Joining
  <2>5. b[1] # r => Joining(b[1])' = Joining(b[1]) /\ pc'[b] = pc[b]
    BY <1>3, <2>1 DEF Joining
  <2> QED
    BY <1>3, <2>2, <2>3, <2>4, <2>5
<1>6. BudgetInv'
  <2>1. ASSUME NEW s \in Runs
        PROVE  usage'[Top(s)] + Reserve(s)' <= iter'[Top(s)] + synth'[s] * Worst
    <3>1. CASE s = r
      <4>1. ~Joining(r) /\ Reserve(r)' = IF name = "delegate" THEN Worst ELSE Worst - 1
        BY <1>3 DEF Joining, Reserve
      <4>2. synth'[r] = synth[r] + 1 /\ usage'[Top(r)] = usage[Top(r)] + d
        BY <1>1
      <4> QED
        BY <3>1, <4>1, <4>2, SyntheticBudget
    <3>2. CASE s # r
      <4>1. Top(s) \in Agents /\ Top(s) # Top(r)
        BY <3>2, TopFacts
      <4>2. synth'[s] = synth[s] /\ usage'[Top(s)] = usage[Top(s)] /\ pc'[Top(s)] = pc[Top(s)]
        BY <1>3, <3>2, <4>1
      <4> QED
        BY <4>2, OthersBudget
    <3> QED
      BY <3>1, <3>2
  <2> QED
    BY <2>1 DEF BudgetInv
<1> QED
  BY <1>4, <1>5, <1>6 DEF CostIInv

LEMMA DelegateCost ==
  ASSUME GateTypeOK, CostIInv, NEW r \in Runs, Delegate(r)
  PROVE  CostIInv'
<1>1. /\ pc[Top(r)] = "calls" /\ synth[r] < MaxSyntheticCalls
      /\ synth' = [synth EXCEPT ![r] = @ + 1] /\ StartWorkers(r, "delegate")
      /\ UNCHANGED <<iter, usage, spent>>
  BY DEF Delegate, StartSynthetic, AtCall
<1>2. CostTypeOK'
  BY <1>1, LoopBoundAssumption DEF CostIInv, CostTypeOK
<1>3. /\ \A s \in Runs : synth'[s] = IF s = r THEN synth[s] + 1 ELSE synth[s]
      /\ \A b \in Agents : usage'[b] = IF b = Top(r) THEN usage[b] + 0 ELSE usage[b]
      /\ \A s \in Runs : spent'[s] = IF s = r THEN spent[s] + 0 ELSE spent[s]
  BY <1>1 DEF CostIInv, CostTypeOK
<1>4. 0 + Worst <= Worst
  BY WorstIs
<1> QED
  BY <1>1, <1>2, <1>3, <1>4, StartWorkersCost

LEMMA DeepResearchCost ==
  ASSUME GateTypeOK, CostIInv, NEW r \in Runs, DeepResearch(r)
  PROVE  CostIInv'
<1>1. /\ pc[Top(r)] = "calls" /\ synth[r] < MaxSyntheticCalls
      /\ synth' = [synth EXCEPT ![r] = @ + 1] /\ StartWorkers(r, "deep_research")
      /\ usage' = [usage EXCEPT ![Top(r)] = @ + 1]
      /\ spent' = [spent EXCEPT ![r] = @ + 1] /\ UNCHANGED iter
  BY DEF DeepResearch, StartSynthetic, AtCall
<1>2. CostTypeOK'
  BY <1>1, TopFacts, LoopBoundAssumption DEF CostIInv, CostTypeOK
<1>3. /\ \A s \in Runs : synth'[s] = IF s = r THEN synth[s] + 1 ELSE synth[s]
      /\ \A b \in Agents : usage'[b] = IF b = Top(r) THEN usage[b] + 1 ELSE usage[b]
      /\ \A s \in Runs : spent'[s] = IF s = r THEN spent[s] + 1 ELSE spent[s]
  BY <1>1 DEF CostIInv, CostTypeOK
<1>4. 1 + (Worst - 1) <= Worst
  BY WorstIs
<1> QED
  BY <1>1, <1>2, <1>3, <1>4, StartWorkersCost

\* Where the loop of a request waits for nobody its workers are idle and have
\* cost nothing; the usage of the run is then the top loop's.
LEMMA AloneCost ==
  ASSUME CostIInv, NEW r \in Runs, ~Joining(r)
  PROVE  RolledUp(r) = usage[Top(r)]
<1>1. usage \in [Agents -> Nat]
  BY DEF CostIInv, CostTypeOK
<1>2. \A a \in Agents : a[1] = r /\ ~IsTop(a) => usage[a] = 0
  BY DEF CostIInv, WorkersInv
<1> QED
  BY <1>1, <1>2, TotalAlone DEF RolledUp

\* The workers being waited for have used what is reserved for them at most.
LEMMA JoinedCost ==
  ASSUME CostIInv, NEW r \in Runs
  PROVE  /\ RolledUp(r) \in Nat
         /\ RolledUp(r) <= usage[Top(r)] + MaxSubtasks * WorkerIters
<1>1. usage \in [Agents -> Nat] /\ WorkerIters \in Nat
  BY WorstIs DEF CostIInv, CostTypeOK
<1>2. ASSUME NEW k \in 1..MaxSubtasks PROVE usage[<<r, k>>] <= WorkerIters
  <2>1. <<r, k>> \in Agents /\ ~IsTop(<<r, k>>)
    BY DEF Agents, IsTop
  <2>2. usage[<<r, k>>] <= iter[<<r, k>>] /\ iter[<<r, k>>] <= MaxWorkerIters
    BY <2>1 DEF CostIInv, WorkersInv, CostTypeOK
  <2>3. iter[<<r, k>>] \in 0..MaxIters /\ usage[<<r, k>>] \in Nat
    BY <2>1 DEF CostIInv, CostTypeOK
  <2> QED
    BY <2>2, <2>3, LoopBoundAssumption DEF WorkerIters
<1> QED
  BY <1>1, <1>2, TotalBounded DEF RolledUp

\* No agent of the run but the top loop is at work.
LEMMA TopOnly ==
  ASSUME CostTypeOK', NEW r \in Runs, \A a \in Workers(r) : usage'[a] = 0
  PROVE  RolledUp(r)' = usage'[Top(r)]
<1>1. usage' \in [Agents -> Nat]
  BY DEF CostTypeOK
<1>2. \A a \in Agents : a[1] = r /\ ~IsTop(a) => usage'[a] = 0
  BY DEF Workers
<1> QED
  BY <1>1, <1>2, TotalAlone DEF RolledUp

\* And what the other runs use does not change.
LEMMA OthersExact ==
  ASSUME CostIInv, CostTypeOK', NEW r \in Runs, spent'[r] = spent[r],
         \A a \in Agents : a[1] = r => usage'[a] = usage[a]
  PROVE  spent'[r] = RolledUp(r)'
<1>1. usage \in [Agents -> Nat] /\ usage' \in [Agents -> Nat]
  BY DEF CostIInv, CostTypeOK
<1>2. Total(usage', r) = Total(usage, r)
  BY <1>1, TotalSame
<1> QED
  BY <1>2 DEF RolledUp, CostIInv, ExactInv

LEMMA JoinCost ==
  ASSUME GateTypeOK, CostIInv, NEW r \in Runs, Join(r)
  PROVE  CostIInv'
<1> DEFINE report == IF pc[Top(r)] = "deep_research" THEN 1 ELSE 0
<1>1. Top(r) \in Agents /\ IsTop(Top(r)) /\ Top(r)[1] = r
  BY TopFacts
<1>2. report \in Nat /\ RolledUp(r) \in Nat
  BY JoinedCost
<1>3. /\ Joining(r) /\ UNCHANGED synth
      /\ spent' = [spent EXCEPT ![r] = @ + report]
      /\ usage' = [a \in Agents |-> IF a = Top(r) THEN RolledUp(r) + report
                                    ELSE IF a[1] = r THEN 0 ELSE usage[a]]
      /\ iter' = [a \in Agents |-> IF a \in Workers(r) THEN 0 ELSE iter[a]]
  BY DEF Join, Joining
<1>4. /\ pc'[Top(r)] \in {"calls", "model"}
      /\ \A a \in Agents : a # Top(r) => pc'[a] = IF a[1] = r THEN "idle" ELSE pc[a]
  BY <1>1 DEF Join
<1> HIDE DEF report
<1>5. CostTypeOK'
  BY <1>1, <1>2, <1>3, LoopBoundAssumption DEF CostIInv, CostTypeOK, Workers
<1>6. /\ usage'[Top(r)] = RolledUp(r) + report /\ iter'[Top(r)] = iter[Top(r)]
      /\ \A a \in Workers(r) : usage'[a] = 0 /\ iter'[a] = 0
      /\ \A a \in Agents : a[1] # r => usage'[a] = usage[a] /\ iter'[a] = iter[a]
  BY <1>1, <1>3 DEF Workers
<1>7. ExactInv'
  <2>1. ASSUME NEW s \in Runs PROVE spent'[s] = RolledUp(s)'
    <3>1. CASE s = r
      <4>1. RolledUp(r)' = usage'[Top(r)]
        BY <1>5, <1>6, TopOnly
      <4>2. spent'[r] = spent[r] + report
        BY <1>3 DEF CostIInv, CostTypeOK
      <4> QED
        BY <1>6, <3>1, <4>1, <4>2 DEF CostIInv, ExactInv
    <3>2. CASE s # r
      <4>1. spent'[s] = spent[s]
        BY <1>3, <3>2 DEF CostIInv, CostTypeOK
      <4> QED
        BY <1>5, <1>6, <3>2, <4>1, OthersExact
    <3> QED
      BY <3>1, <3>2
  <2> QED
    BY <2>1 DEF ExactInv
<1>8. WorkersInv'
  <2> SUFFICES ASSUME NEW b \in Agents, ~IsTop(b)
               PROVE  /\ pc'[b] # "idle" => Joining(b[1])'
                      /\ pc'[b] = "idle" => usage'[b] = 0
                      /\ usage'[b] <= iter'[b]
    BY DEF WorkersInv
  <2>1. b # Top(r) /\ b[1] \in Runs
    BY <1>1, TopFacts
  <2>2. CASE b[1] = r
    BY <1>4, <1>6, <2>1, <2>2 DEF Workers
  <2>3. CASE b[1] # r
    <3>1. Joining(b[1])' = Joining(b[1])
      BY <1>4, <2>1, <2>3, TopFacts DEF Joining
    <3> QED
      BY <1>4, <1>6, <2>1, <2>3, <3>1 DEF CostIInv, WorkersInv
  <2> QED
    BY <2>2, <2>3
<1>9. BudgetInv'
  <2>1. ASSUME NEW s \in Runs
        PROVE  usage'[Top(s)] + Reserve(s)' <= iter'[Top(s)] + synth'[s] * Worst
    <3>1. CASE s = r
      <4>1. Reserve(r)' = 0
        BY <1>4 DEF Reserve
      <4>2. usage[Top(r)] + Reserve(r) <= iter[Top(r)] + synth[r] * Worst
        BY DEF CostIInv, BudgetInv
      <4>3. RolledUp(r) <= usage[Top(r)] + MaxSubtasks * WorkerIters
        BY JoinedCost
      <4>4. MaxSubtasks * WorkerIters + report <= Reserve(r)
        BY <1>3, WorstIs DEF Joining, Reserve, report
      <4>5. /\ usage[Top(r)] \in Nat /\ iter[Top(r)] \in Nat /\ Reserve(r) \in Int
            /\ synth[r] * Worst \in Nat /\ MaxSubtasks * WorkerIters \in Nat
        BY <1>1, Times, WorstIs, LoopBoundAssumption DEF CostIInv, CostTypeOK, Reserve
      <4> HIDE DEF Worst
      <4> QED
        BY <1>2, <1>3, <1>6, <3>1, <4>1, <4>2, <4>3, <4>4, <4>5
    <3>2. CASE s # r
      <4>1. Top(s) \in Agents /\ Top(s) # Top(r) /\ Top(s)[1] = s
        BY <3>2, TopFacts
      <4>2. synth'[s] = synth[s] /\ pc'[Top(s)] = pc[Top(s)]
        BY <1>3, <1>4, <3>2, <4>1
      <4>3. usage'[Top(s)] = usage[Top(s)] /\ iter'[Top(s)] = iter[Top(s)]
        BY <1>6, <3>2, <4>1
      <4> QED
        BY <4>2, <4>3, OthersBudget
    <3> QED
      BY <3>1, <3>2
  <2> QED
    BY <2>1 DEF BudgetInv
<1> QED
  BY <1>5, <1>7, <1>8, <1>9 DEF CostIInv

\* A run that has ended waits for nobody: all it cost is written off with it.
LEMMA ReplyCost ==
  ASSUME GateTypeOK, CostIInv, NEW r \in Runs, Reply(r)
  PROVE  CostIInv'
<1>1. Top(r) \in Agents /\ IsTop(Top(r)) /\ Top(r)[1] = r
  BY TopFacts
<1>2. ~Joining(r) /\ pc'[Top(r)] = "idle" /\ \A a \in Agents : a # Top(r) => pc'[a] = pc[a]
  BY <1>1 DEF Reply, Joining, Ended, GateTypeOK
<1>3. CostTypeOK'
  BY <1>1, LoopBoundAssumption DEF Reply, CostIInv, CostTypeOK
<1>4. /\ usage'[Top(r)] = 0 /\ iter'[Top(r)] = 0 /\ synth'[r] = 0 /\ spent'[r] = 0
      /\ \A a \in Agents : a # Top(r) => usage'[a] = usage[a] /\ iter'[a] = iter[a]
      /\ \A s \in Runs : s # r => synth'[s] = synth[s] /\ spent'[s] = spent[s]
  BY <1>1 DEF Reply, CostIInv, CostTypeOK
<1>5. ExactInv'
  <2>1. ASSUME NEW s \in Runs PROVE spent'[s] = RolledUp(s)'
    <3>1. CASE s = r
      <4>1. \A a \in Workers(r) : usage'[a] = 0
        BY <1>1, <1>2, <1>4 DEF Workers, CostIInv, WorkersInv
      <4>2. RolledUp(r)' = usage'[Top(r)]
        BY <1>3, <4>1, TopOnly
      <4> QED
        BY <1>4, <3>1, <4>2
    <3>2. CASE s # r
      <4>1. spent'[s] = spent[s] /\ \A a \in Agents : a[1] = s => usage'[a] = usage[a]
        BY <1>1, <1>4, <3>2
      <4> QED
        BY <1>3, <4>1, OthersExact
    <3> QED
      BY <3>1, <3>2
  <2> QED
    BY <2>1 DEF ExactInv
<1>6. WorkersInv'
  <2> SUFFICES ASSUME NEW b \in Agents, ~IsTop(b)
               PROVE  /\ pc'[b] # "idle" => Joining(b[1])'
                      /\ pc'[b] = "idle" => usage'[b] = 0
                      /\ usage'[b] <= iter'[b]
    BY DEF WorkersInv
  <2>1. b # Top(r) /\ b[1] \in Runs
    BY <1>1, TopFacts
  <2>2. /\ pc[b] # "idle" => Joining(b[1])
        /\ pc[b] = "idle" => usage[b] = 0
        /\ usage[b] <= iter[b]
    BY DEF CostIInv, WorkersInv
  <2>3. b[1] # r => Joining(b[1])' = Joining(b[1])
    BY <1>2, <2>1, TopFacts DEF Joining
  <2> QED
    BY <1>2, <1>4, <2>1, <2>2, <2>3
<1>7. BudgetInv'
  <2>1. ASSUME NEW s \in Runs
        PROVE  usage'[Top(s)] + Reserve(s)' <= iter'[Top(s)] + synth'[s] * Worst
    <3>1. CASE s = r
      <4>1. Reserve(r)' = 0 /\ 0 * Worst = 0
        BY <1>2, WorstIs DEF Reserve
      <4> QED
        BY <1>4, <3>1, <4>1
    <3>2. CASE s # r
      <4>1. Top(s) \in Agents /\ Top(s) # Top(r)
        BY <3>2, TopFacts
      <4> QED
        BY <1>2, <1>4, <3>2, <4>1, OthersBudget
    <3> QED
      BY <3>1, <3>2
  <2> QED
    BY <2>1 DEF BudgetInv
<1> QED
  BY <1>3, <1>5, <1>6, <1>7 DEF CostIInv

\* Nothing has been spent.
CostZero ==
    /\ synth = [r \in Runs |-> 0]
    /\ pc = [a \in Agents |-> "idle"]
    /\ iter = [a \in Agents |-> 0]
    /\ usage = [a \in Agents |-> 0]
    /\ spent = [r \in Runs |-> 0]

LEMMA CostZeroInv == CostZero => CostIInv
<1> SUFFICES ASSUME CostZero PROVE CostIInv
  OBVIOUS
<1>1. CostTypeOK
  BY LoopBoundAssumption DEF CostZero, CostTypeOK
<1>2. WorkersInv
  BY DEF CostZero, WorkersInv
<1>3. ASSUME NEW r \in Runs
      PROVE  /\ spent[r] = RolledUp(r)
             /\ usage[Top(r)] + Reserve(r) <= iter[Top(r)] + synth[r] * Worst
  <2>1. usage \in [Agents -> Nat] /\ \A a \in Agents : usage[a] = 0 /\ iter[a] = 0
    BY DEF CostZero
  <2>2. Total(usage, r) = usage[Top(r)]
    BY <2>1, TotalAlone
  <2>3. Top(r) \in Agents /\ 0 * Worst = 0
    BY TopFacts, WorstIs
  <2>4. spent[r] = 0 /\ synth[r] = 0 /\ pc[Top(r)] = "idle"
    BY <2>3 DEF CostZero
  <2>5. Reserve(r) = 0
    BY <2>4 DEF Reserve
  <2> QED
    BY <2>1, <2>2, <2>3, <2>4, <2>5 DEF RolledUp
<1> QED
  BY <1>1, <1>2, <1>3 DEF CostIInv, ExactInv, BudgetInv

LEMMA CostZeroNext == CostZero' => CostIInv'
  BY CostZeroInv, PTL

LEMMA CostRunStep ==
  ASSUME GateTypeOK, CostIInv, NEW r \in Runs, RunStep(r) PROVE CostIInv'
<1>1. Top(r) \in Agents /\ IsTop(Top(r))
  BY TopFacts
<1>2. CASE Reply(r)
  BY <1>2, ReplyCost
<1>3. CASE SyntheticRefused(r)
  BY <1>1, <1>3, NextCallCostQuiet DEF SyntheticRefused, AtCall
<1>4. CASE \E name \in Synthetic : SyntheticError(r, name)
  BY <1>4, SyntheticErrorCost
<1>5. CASE Council(r)
  BY <1>5, CouncilCost
<1>6. CASE Delegate(r)
  BY <1>6, DelegateCost
<1>7. CASE DeepResearch(r)
  BY <1>7, DeepResearchCost
<1>8. CASE Join(r)
  BY <1>8, JoinCost
<1>9. CASE Approved(r)
  <2>1. pc[Top(r)] = "calls" /\ pc' = [pc EXCEPT ![Top(r)] = "run"]
        /\ UNCHANGED <<synth, iter, usage, spent>>
    BY <1>9 DEF Approved, AtCall
  <2>2. "run" \in PCs \ {"idle", "delegate", "deep_research"}
    BY DEF PCs
  <2> QED
    BY <1>1, <2>1, <2>2, MoveCostQuiet
<1> QED
  BY <1>2, <1>3, <1>4, <1>5, <1>6, <1>7, <1>8, <1>9 DEF RunStep

LEMMA CostAgentStep ==
  ASSUME GateTypeOK, CostIInv, NEW a \in Agents, AgentStep(a) PROVE CostIInv'
<1>1. CASE ModelTurn(a)
  BY <1>1, ModelTurnCost
<1>2. CASE OutOfIters(a)
  BY <1>2, MoveCostQuiet DEF OutOfIters, PCs, Ended
<1>3. CASE UnknownTool(a)
  BY <1>3, NextCallCostQuiet DEF UnknownTool, AtCall
<1>4. CASE Pend(a)
  BY <1>4, MoveCostQuiet DEF Pend, AtCall, PCs, Ended
<1>5. CASE Ungated(a)
  BY <1>5, MoveCostQuiet DEF Ungated, AtCall, PCs
<1>6. CASE RunTool(a)
  BY <1>6, NextCallCostQuiet DEF RunTool
<1> QED
  BY <1>1, <1>2, <1>3, <1>4, <1>5, <1>6 DEF AgentStep

LEMMA CostNext == GateTypeOK /\ CostIInv /\ [Next]_vars => CostIInv'
<1> SUFFICES ASSUME GateTypeOK, CostIInv, [Next]_vars PROVE CostIInv'
  OBVIOUS
<1>1. CASE AppMint \/ Time \/ UNCHANGED vars
  <2>1. UNCHANGED <<synth, pc, iter, usage, spent>>
    BY <1>1 DEF AppMint, Time, vars, loopVars
  <2>2. CostQuiet
    BY <2>1 DEF CostQuiet, CostIInv, CostTypeOK
  <2> QED
    BY <2>2, CostQuietKeeps
<1>2. ASSUME NEW r \in Runs, Begin(r) PROVE CostIInv'
  <2>1. Top(r) \in Agents /\ IsTop(Top(r)) /\ "model" \in PCs \ {"idle", "delegate", "deep_research"}
    BY TopFacts DEF PCs
  <2> QED
    BY <1>2, <2>1, MoveCostQuiet DEF Begin
<1>3. ASSUME NEW r \in Runs, RunStep(r) PROVE CostIInv'
  BY <1>3, CostRunStep
<1>4. ASSUME NEW a \in Agents, AgentStep(a) PROVE CostIInv'
  BY <1>4, CostAgentStep
<1>5. CASE Restart
  BY <1>5, CostZeroNext DEF Restart, CostZero
<1> QED
  BY <1>1, <1>2, <1>3, <1>4, <1>5 DEF Next

THEOREM SpecCostIInv == Spec => []CostIInv
<1>1. Init => CostIInv
  BY CostZeroInv DEF Init, CostZero
<1>2. IInv => GateTypeOK
  BY DEF IInv
<1> QED
  BY <1>1, <1>2, CostNext, SpecIInv, PTL DEF Spec

\* All the variables keep their types.
THEOREM TypeCorrect == Spec => []TypeOK
<1>1. IInv /\ CostIInv => TypeOK
  BY DEF IInv, CostIInv, TypeOK
<1> QED
  BY <1>1, SpecIInv, SpecCostIInv, PTL

\* When a run has ended, the usage it reports is every model call made on its
\* behalf (loop_.rs:471-478, 530-601).
THEOREM UsageExact == Spec => []UsageIsExact
<1>1. CostIInv => UsageIsExact
  <2> SUFFICES ASSUME CostIInv, NEW r \in Runs, pc[Top(r)] \in Ended
               PROVE  usage[Top(r)] = spent[r]
    BY DEF UsageIsExact
  <2>1. ~Joining(r)
    BY DEF Ended, Joining
  <2> QED
    BY <2>1, AloneCost DEF CostIInv, ExactInv
<1> QED
  BY <1>1, SpecCostIInv, PTL

\* A run makes at most MaxIters model calls and, for each of its synthetic
\* calls, those of the largest fan-out (loop_.rs:36-44, 245-259).
THEOREM CostIsBounded == Spec => []CostBounded
<1>1. CostIInv => CostBounded
  <2> SUFFICES ASSUME CostIInv, NEW r \in Runs PROVE spent[r] <= CostBound
    BY DEF CostBounded
  <2>1. /\ iter[Top(r)] \in Nat /\ iter[Top(r)] <= MaxIters /\ usage[Top(r)] \in Nat
        /\ synth[r] \in Nat /\ synth[r] <= MaxSyntheticCalls /\ MaxSyntheticCalls \in Nat
        /\ MaxIters \in Nat
    BY TopFacts, LoopBoundAssumption DEF CostIInv, CostTypeOK
  <2>2. /\ synth[r] * Worst \in Nat /\ MaxSyntheticCalls * Worst \in Nat
        /\ synth[r] * Worst <= MaxSyntheticCalls * Worst
    BY <2>1, Times, WorstIs
  <2>3. usage[Top(r)] + Reserve(r) <= iter[Top(r)] + synth[r] * Worst
    BY DEF CostIInv, BudgetInv
  <2>4. spent[r] \in Nat /\ spent[r] <= usage[Top(r)] + Reserve(r) /\ Reserve(r) \in Int
    <3>1. spent[r] = RolledUp(r) /\ spent[r] \in Nat
      BY DEF CostIInv, ExactInv, CostTypeOK
    <3>2. CASE Joining(r)
      <4>1. RolledUp(r) <= usage[Top(r)] + MaxSubtasks * WorkerIters
        BY JoinedCost
      <4>2. MaxSubtasks * WorkerIters <= Reserve(r) /\ Reserve(r) \in Int
        BY <3>2, WorstIs DEF Joining, Reserve
      <4> QED
        BY <2>1, <3>1, <4>1, <4>2, WorstIs
    <3>3. CASE ~Joining(r)
      <4>1. RolledUp(r) = usage[Top(r)] /\ Reserve(r) = 0
        BY <3>3, AloneCost DEF Joining, Reserve
      <4> QED
        BY <2>1, <3>1, <4>1
    <3> QED
      BY <3>2, <3>3
  <2> HIDE DEF Worst
  <2> QED
    BY <2>1, <2>2, <2>3, <2>4, WorstIs
<1> QED
  BY <1>1, SpecCostIInv, PTL

=============================================================================
