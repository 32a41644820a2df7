-------------------------- MODULE AppSessionProofs --------------------------
(***************************************************************************)
(* Theorems about the app's session: what was approved, and for which core. *)
(***************************************************************************)
EXTENDS AppSession, TLAPS

-----------------------------------------------------------------------------
(* The inductive invariant *)

Approved == [shown : 0..MaxPends, action : 1..MaxPends, key : 1..MaxCores, boot : 1..MaxCores]

SessionTyped == SessionTypeOK /\ minted \in Seq(Approved)

\* A core tells its own boot id, and to the holder of its own token.
PollInv ==
    \A q \in Polls :
        poll[q].got # NoCore => poll[q].at = "fetched" /\ poll[q].got = poll[q].tok

\* The boot id is that of the core whose secrets the app holds.
BootInv == ~stale => bootId \in {NoCore, spawned}

\* An action has waited before it was approved or refused, and the one that
\* waits is neither.
ActionInv ==
    /\ pending <= pends
    /\ \A a \in refused : a <= pends /\ a # pending
    /\ \A i \in DOMAIN minted :
          minted[i].action \in 1..pends /\ minted[i].action # pending

SessionIInv == SessionTyped /\ PollInv /\ BootInv /\ ActionInv /\ ConsentHolds

-----------------------------------------------------------------------------
(* Type correctness *)

LEMMA SessionInitially == SessionInit => SessionIInv
<1> SUFFICES ASSUME SessionInit PROVE SessionIInv
  OBVIOUS
<1> USE SessionAssumption
<1>1. poll \in [Polls -> [at : {"idle", "health", "healthy", "fetch", "fetched"},
                          conn : 0..MaxCores, tok : 0..MaxCores, got : 0..MaxCores]]
  BY DEF SessionInit, NoPoll, NoCore
<1>2. cores \in [1..MaxCores -> {"none", "starting", "up", "down"}]
  BY DEF SessionInit
<1>3. {connected, sending, stale, hasty} \subseteq BOOLEAN
  BY DEF SessionInit
<1>4. SessionTyped
  BY <1>1, <1>2, <1>3 DEF SessionInit, SessionTyped, SessionTypeOK, NoCore, NoPrev, NoAction
<1>5. PollInv
  BY DEF SessionInit, PollInv, NoPoll, NoCore
<1>6. BootInv /\ ActionInv /\ ConsentHolds
  BY DEF SessionInit, BootInv, ActionInv, ConsentHolds, NoAction
<1> QED
  BY <1>4, <1>5, <1>6 DEF SessionIInv

\* The type invariant, by the parts of the state that change together.
PollRecord == [at : {"idle", "health", "healthy", "fetch", "fetched"},
               conn : 0..MaxCores, tok : 0..MaxCores, got : 0..MaxCores]
CoresTyped ==
    /\ spawned \in 1..MaxCores /\ socket \in 0..MaxCores
    /\ cores \in [1..MaxCores -> {"none", "starting", "up", "down"}]
LinkTyped == bootId \in 0..MaxCores /\ prevBoot \in 0..NoPrev /\ poll \in [Polls -> PollRecord]
FlagsTyped ==
    connected \in BOOLEAN /\ sending \in BOOLEAN /\ stale \in BOOLEAN /\ hasty \in BOOLEAN
ConsentTyped ==
    /\ pends \in 0..MaxPends /\ pending \in 0..MaxPends /\ refused \subseteq 1..MaxPends
    /\ prompts \in Seq(0..MaxPends) /\ minted \in Seq(Approved)

LEMMA TypedParts == SessionTyped <=> CoresTyped /\ LinkTyped /\ FlagsTyped /\ ConsentTyped
  BY DEF SessionTyped, SessionTypeOK, CoresTyped, LinkTyped, PollRecord, FlagsTyped, ConsentTyped

LEMMA CoresTypedNext == SessionTyped /\ [SessionNext]_sessionVars => CoresTyped'
<1> SUFFICES ASSUME SessionTyped, [SessionNext]_sessionVars PROVE CoresTyped'
  OBVIOUS
<1>1. CoresTyped /\ MaxCores \in Nat \ {0}
  BY TypedParts, SessionAssumption
<1>2. ASSUME NEW c \in 1..MaxCores, Binds(c) \/ Dies(c) PROVE CoresTyped'
  BY <1>1, <1>2 DEF Binds, Dies, CoresTyped, NoCore
<1>3. CASE RestartCore
  BY <1>1, <1>3 DEF RestartCore, CoresTyped, NoCore
<1>4. CASE UNCHANGED coreVars
  BY <1>1, <1>4 DEF CoresTyped, coreVars
<1> QED
  BY <1>2, <1>3, <1>4, Zenon
  DEF SessionNext, PollStart, PollStep, HealthAnswered, HealthSeen, FetchAnswered, FetchSeen, Send,
      RunPends, StreamCloses, LeavesChat, Deny, Approve, PromptPassed, PromptFailed, sessionVars

LEMMA LinkTypedNext == SessionTyped /\ [SessionNext]_sessionVars => LinkTyped'
<1> SUFFICES ASSUME SessionTyped, [SessionNext]_sessionVars PROVE LinkTyped'
  OBVIOUS
<1>1. CoresTyped /\ LinkTyped /\ MaxCores \in Nat \ {0} /\ NoPrev = MaxCores + 1
  BY TypedParts, SessionAssumption DEF NoPrev
<1>2. NoPoll \in PollRecord
  BY <1>1 DEF NoPoll, NoCore, PollRecord
<1>3. \A q \in Polls : poll[q] \in PollRecord
  BY <1>1 DEF LinkTyped
<1>4. ASSUME NEW q \in Polls, PollStart(q) PROVE LinkTyped'
  <2>1. [poll[q] EXCEPT !.at = "health", !.conn = socket] \in PollRecord
    BY <1>1, <1>3 DEF PollRecord, CoresTyped
  <2>2. poll' = [poll EXCEPT ![q] = [poll[q] EXCEPT !.at = "health", !.conn = socket]]
    BY <1>1, <1>4 DEF PollStart, LinkTyped
  <2> QED
    BY <1>1, <1>4, <2>1, <2>2 DEF PollStart, LinkTyped
<1>5. ASSUME NEW q \in Polls, HealthAnswered(q) PROVE LinkTyped'
  <2>1. [poll[q] EXCEPT !.at = "healthy"] \in PollRecord
    BY <1>3 DEF PollRecord
  <2>2. \/ poll' = [poll EXCEPT ![q] = [poll[q] EXCEPT !.at = "healthy"]]
        \/ poll' = [poll EXCEPT ![q] = NoPoll]
    BY <1>1, <1>5 DEF HealthAnswered, LinkTyped
  <2> QED
    BY <1>1, <1>2, <1>5, <2>1, <2>2 DEF HealthAnswered, LinkTyped
<1>6. ASSUME NEW q \in Polls, HealthSeen(q) PROVE LinkTyped'
  <2>a. socket \in 0..MaxCores /\ spawned \in 0..MaxCores
    BY <1>1 DEF CoresTyped
  <2>1. [poll[q] EXCEPT !.at = "fetch", !.conn = socket, !.tok = spawned] \in PollRecord
    BY <2>a, <1>3 DEF PollRecord
  <2>2. \/ poll' = [poll EXCEPT ![q] =
                      [poll[q] EXCEPT !.at = "fetch", !.conn = socket, !.tok = spawned]]
        \/ poll' = [poll EXCEPT ![q] = NoPoll]
    BY <1>1, <1>6 DEF HealthSeen, LinkTyped
  <2> QED
    BY <1>1, <1>2, <1>6, <2>1, <2>2 DEF HealthSeen, LinkTyped
<1>7. ASSUME NEW q \in Polls, FetchAnswered(q) PROVE LinkTyped'
  <2>1. \A g \in 0..MaxCores : [poll[q] EXCEPT !.at = "fetched", !.got = g] \in PollRecord
    BY <1>3 DEF PollRecord
  <2>2. poll[q].conn \in 0..MaxCores /\ NoCore \in 0..MaxCores
    BY <1>1, <1>3 DEF PollRecord, NoCore
  <2>3. \E g \in 0..MaxCores :
          poll' = [poll EXCEPT ![q] = [poll[q] EXCEPT !.at = "fetched", !.got = g]]
    BY <1>1, <1>7, <2>2 DEF FetchAnswered, LinkTyped
  <2> QED
    BY <1>1, <1>7, <2>1, <2>3 DEF FetchAnswered, LinkTyped
<1>8. ASSUME NEW q \in Polls, FetchSeen(q) PROVE LinkTyped'
  <2>1. bootId' \in 0..MaxCores /\ (prevBoot' = NoPrev \/ prevBoot' = prevBoot)
    BY <1>1, <1>3, <1>8 DEF FetchSeen, LinkTyped, PollRecord
  <2>2. poll' = [poll EXCEPT ![q] = NoPoll]
    BY <1>8 DEF FetchSeen
  <2> QED
    BY <1>1, <1>2, <2>1, <2>2 DEF LinkTyped
<1>9. CASE RestartCore
  BY <1>1, <1>9 DEF RestartCore, LinkTyped, NoCore
<1>10. CASE UNCHANGED <<bootId, prevBoot, poll>>
  BY <1>1, <1>10 DEF LinkTyped
<1> QED
  BY <1>4, <1>5, <1>6, <1>7, <1>8, <1>9, <1>10, Zenon
  DEF SessionNext, PollStep, Binds, Dies, Send, RunPends, StreamCloses, LeavesChat, Deny, Approve,
      PromptPassed, PromptFailed, sessionVars, linkVars

LEMMA FlagsTypedNext == SessionTyped /\ [SessionNext]_sessionVars => FlagsTyped'
<1> SUFFICES ASSUME SessionTyped, [SessionNext]_sessionVars PROVE FlagsTyped'
  OBVIOUS
<1>1. FlagsTyped
  BY TypedParts
<1>2. connected' \in BOOLEAN
  BY <1>1, Zenon
  DEF FlagsTyped, SessionNext, PollStart, PollStep, HealthAnswered, HealthSeen, FetchAnswered,
      FetchSeen, Send, RunPends, StreamCloses, LeavesChat, Deny, Approve, PromptPassed,
      PromptFailed, Binds, Dies, RestartCore, sessionVars, linkVars
<1>3. sending' \in BOOLEAN
  BY <1>1, Zenon
  DEF FlagsTyped, SessionNext, PollStart, PollStep, HealthAnswered, HealthSeen, FetchAnswered,
      FetchSeen, Send, RunPends, StreamCloses, LeavesChat, Deny, Approve, PromptPassed, MintAndRun,
      PromptFailed, Binds, Dies, RestartCore, sessionVars, consentVars
<1>4. stale' \in BOOLEAN
  BY <1>1, Zenon
  DEF FlagsTyped, SessionNext, PollStart, PollStep, HealthAnswered, HealthSeen, FetchAnswered,
      FetchSeen, Send, RunPends, StreamCloses, LeavesChat, Deny, Approve, PromptPassed,
      PromptFailed, Binds, Dies, RestartCore, sessionVars, linkVars
<1>5. hasty' \in BOOLEAN
  BY <1>1, Zenon
  DEF FlagsTyped, SessionNext, PollStart, PollStep, HealthAnswered, HealthSeen, FetchAnswered,
      FetchSeen, Send, RunPends, StreamCloses, LeavesChat, Deny, Approve, PromptPassed,
      PromptFailed, Binds, Dies, RestartCore, sessionVars, linkVars
<1> QED
  BY <1>2, <1>3, <1>4, <1>5, Zenon DEF FlagsTyped

\* What becomes of the action that waits and of the tokens.
LEMMA DroppedTyped ==
  ASSUME ConsentTyped, Dropped
  PROVE  pending' \in 0..MaxPends /\ refused' \subseteq 1..MaxPends
BY SessionAssumption DEF ConsentTyped, Dropped, NoAction

LEMMA ConsentTypedNext == SessionTyped /\ [SessionNext]_sessionVars => ConsentTyped'
<1> SUFFICES ASSUME SessionTyped, [SessionNext]_sessionVars PROVE ConsentTyped'
  OBVIOUS
<1>1. CoresTyped /\ LinkTyped /\ ConsentTyped /\ MaxPends \in Nat
  BY TypedParts, SessionAssumption
<1>2. CASE RestartCore
  BY <1>1, <1>2, DroppedTyped DEF RestartCore, ConsentTyped
<1>3. CASE RunPends
  BY <1>1, <1>3 DEF RunPends, ConsentTyped, NoAction
<1>4. CASE LeavesChat
  BY <1>1, <1>4, DroppedTyped DEF LeavesChat, ConsentTyped
<1>5. CASE Deny
  BY <1>1, <1>5, DroppedTyped DEF Deny, ConsentTyped
<1>6. CASE Approve
  <2>1. CASE Len(prompts) < MaxPrompts /\ prompts' = Append(prompts, pending)
             /\ UNCHANGED <<pending, refused>>
    BY <1>1, <1>6, <2>1 DEF Approve, ConsentTyped
  <2>2. CASE prompts = <<>> /\ Dropped /\ UNCHANGED prompts
    BY <1>1, <1>6, <2>2, DroppedTyped DEF Approve, ConsentTyped
  <2> QED
    BY <1>6, <2>1, <2>2 DEF Approve
<1>7. ASSUME NEW i \in DOMAIN prompts, PromptPassed(i) \/ PromptFailed(i) PROVE ConsentTyped'
  <2>1. prompts' \in Seq(0..MaxPends)
    <3>1. prompts \in Seq(0..MaxPends) /\ 0 \in 0..MaxPends
      BY <1>1 DEF ConsentTyped
    <3>2. prompts' = [prompts EXCEPT ![i] = 0]
      BY <1>7 DEF PromptPassed, PromptFailed, Answered, NoAction
    <3> QED
      BY <3>1, <3>2
  <2>2. UNCHANGED pends
    BY <1>7 DEF PromptPassed, PromptFailed
  <2>3. CASE Dropped /\ UNCHANGED minted
    BY <1>1, <2>1, <2>2, <2>3, DroppedTyped DEF ConsentTyped
  <2>4. CASE /\ pending # NoAction /\ bootId # NoCore
             /\ minted' = Append(minted, Token(prompts[i])) /\ pending' = NoAction
             /\ UNCHANGED refused
    <3>1. prompts[i] \in 0..MaxPends
      BY <1>1 DEF ConsentTyped
    <3>2. Token(prompts[i]) \in Approved
      BY <1>1, <2>4, <3>1
      DEF Token, Approved, ConsentTyped, CoresTyped, LinkTyped, NoAction, NoCore
    <3> QED
      BY <1>1, <2>1, <2>2, <2>4, <3>2 DEF ConsentTyped, NoAction
  <2> QED
    BY <1>7, <2>3, <2>4 DEF PromptPassed, PromptFailed, MintAndRun
<1>8. CASE UNCHANGED <<pending, pends, prompts, minted, refused>>
  BY <1>1, <1>8 DEF ConsentTyped
<1> QED
  BY <1>2, <1>3, <1>4, <1>5, <1>6, <1>7, <1>8, Zenon
  DEF SessionNext, PollStart, PollStep, HealthAnswered, HealthSeen, FetchAnswered, FetchSeen,
      Binds, Dies, Send, StreamCloses, sessionVars, consentVars

LEMMA SessionTypedNext == SessionTyped /\ [SessionNext]_sessionVars => SessionTyped'
<1>1. SessionTyped' <=> (CoresTyped /\ LinkTyped /\ FlagsTyped /\ ConsentTyped)'
  BY TypedParts, PTL
<1> QED
  BY <1>1, CoresTypedNext, LinkTypedNext, FlagsTypedNext, ConsentTypedNext

-----------------------------------------------------------------------------
(* The invariant is kept *)

LEMMA PollNext == SessionIInv /\ [SessionNext]_sessionVars => PollInv'
<1> SUFFICES ASSUME SessionIInv, [SessionNext]_sessionVars, NEW p \in Polls
             PROVE  poll'[p].got # NoCore =>
                       poll'[p].at = "fetched" /\ poll'[p].got = poll'[p].tok
  BY DEF PollInv
<1> DEFINE Goal == poll'[p].got # NoCore =>
                       poll'[p].at = "fetched" /\ poll'[p].got = poll'[p].tok
<1>1. /\ poll \in [Polls -> PollRecord] /\ poll[p] \in PollRecord
      /\ poll[p].got # NoCore => poll[p].at = "fetched" /\ poll[p].got = poll[p].tok
  BY TypedParts DEF SessionIInv, PollInv, LinkTyped
<1>2. CASE poll'[p] = NoPoll
  BY <1>2 DEF NoPoll
<1>3. CASE poll'[p] = poll[p]
  BY <1>1, <1>3
<1>4. ASSUME NEW q \in Polls, PollStart(q) PROVE Goal
  <2>1. poll[q].got = NoCore
    BY <1>4 DEF PollStart, NoPoll
  <2> QED
    BY <1>1, <1>4, <2>1 DEF PollStart, PollRecord
<1>5. ASSUME NEW q \in Polls, HealthAnswered(q) PROVE Goal
  <2>1. poll[q].at # "fetched"
    BY <1>5 DEF HealthAnswered
  <2>2. poll'[p] \in {poll[p], NoPoll, [poll[p] EXCEPT !.at = "healthy"]}
        /\ (poll'[p] = [poll[p] EXCEPT !.at = "healthy"] => p = q \/ poll'[p] = poll[p])
    BY <1>1, <1>5 DEF HealthAnswered
  <2> QED
    BY <1>1, <1>2, <1>3, <2>1, <2>2 DEF PollRecord
<1>6. ASSUME NEW q \in Polls, HealthSeen(q) PROVE Goal
  <2>1. poll[q].at # "fetched"
    BY <1>6 DEF HealthSeen
  <2> DEFINE r == [poll[p] EXCEPT !.at = "fetch", !.conn = socket, !.tok = spawned]
  <2>2. poll'[p] \in {poll[p], NoPoll, r} /\ (poll'[p] = r => p = q \/ poll'[p] = poll[p])
    BY <1>1, <1>6 DEF HealthSeen
  <2> QED
    BY <1>1, <1>2, <1>3, <2>1, <2>2 DEF PollRecord
<1>7. ASSUME NEW q \in Polls, FetchAnswered(q) PROVE Goal
  <2>1. CASE p = q
    BY <1>1, <1>7, <2>1 DEF FetchAnswered, PollRecord
  <2>2. CASE p # q
    BY <1>1, <1>3, <1>7, <2>2 DEF FetchAnswered
  <2> QED
    BY <2>1, <2>2
<1>8. ASSUME NEW q \in Polls, FetchSeen(q) PROVE Goal
  BY <1>1, <1>2, <1>3, <1>8 DEF FetchSeen
<1>9. CASE UNCHANGED poll
  BY <1>3, <1>9
<1> QED
  BY <1>4, <1>5, <1>6, <1>7, <1>8, <1>9, Zenon
  DEF SessionNext, PollStep, Binds, Dies, Send, RestartCore, RunPends, StreamCloses, LeavesChat,
      Deny, Approve, PromptPassed, PromptFailed, sessionVars, linkVars

LEMMA BootNext == SessionIInv /\ [SessionNext]_sessionVars => BootInv'
<1> SUFFICES ASSUME SessionIInv, [SessionNext]_sessionVars, ~stale'
             PROVE  bootId' \in {NoCore, spawned'}
  BY DEF BootInv
<1>1. ASSUME NEW q \in Polls, FetchSeen(q) PROVE bootId' \in {NoCore, spawned'}
  <2>1. /\ ~stale /\ spawned' = spawned
        /\ poll[q].got = NoCore \/ poll[q].tok = spawned
        /\ bootId' = IF poll[q].got = NoCore THEN bootId ELSE poll[q].got
    BY <1>1, Zenon DEF FetchSeen, coreVars
  <2> QED
    BY <2>1 DEF SessionIInv, BootInv, PollInv
<1>2. CASE RestartCore
  BY <1>2 DEF RestartCore
<1>3. CASE UNCHANGED <<bootId, spawned, stale>>
  BY <1>3 DEF SessionIInv, BootInv
<1> QED
  BY <1>1, <1>2, <1>3, Zenon
  DEF SessionNext, PollStart, PollStep, HealthAnswered, HealthSeen, FetchAnswered, Binds, Dies,
      Send, RunPends, StreamCloses, LeavesChat, Deny, Approve, PromptPassed, PromptFailed,
      sessionVars, linkVars, coreVars

\* What is known of the action that waits, of the refused and of the approved ones.
ConsentInv == ActionInv /\ ConsentHolds

LEMMA DroppedKeeps ==
  ASSUME SessionIInv, Dropped, UNCHANGED <<minted, pends>>, stale' = stale
  PROVE  ConsentInv'
<1>1. /\ refused' = refused \cup ({pending} \ {NoAction}) /\ pending' = NoAction
      /\ pends \in Nat /\ pending \in Nat /\ refused \subseteq Nat \ {0} /\ minted \in Seq(Approved)
  BY TypedParts, SessionAssumption DEF SessionIInv, ConsentTyped, Dropped
<1>2. ActionInv /\ ConsentHolds
  BY DEF SessionIInv
<1>3. ActionInv'
  BY <1>1, <1>2 DEF ActionInv, NoAction
<1>4. ConsentHolds'
  BY <1>1, <1>2, Zenon DEF ActionInv, ConsentHolds
<1> QED
  BY <1>3, <1>4 DEF ConsentInv

LEMMA ConsentNext == SessionIInv /\ [SessionNext]_sessionVars => ConsentInv'
<1> SUFFICES ASSUME SessionIInv, [SessionNext]_sessionVars PROVE ConsentInv'
  OBVIOUS
<1>1. /\ pends \in Nat /\ pending \in Nat /\ refused \subseteq Nat \ {0} /\ minted \in Seq(Approved)
      /\ ActionInv /\ ConsentHolds
  BY TypedParts, SessionAssumption DEF SessionIInv, ConsentTyped
<1>2. CASE RunPends
  <2>1. /\ pends' = pends + 1 /\ pending' = pends + 1 /\ UNCHANGED <<minted, stale>>
        /\ refused' = refused \cup ({pending} \ {NoAction})
    BY <1>2 DEF RunPends, linkVars
  <2>2. ActionInv'
    BY <1>1, <2>1 DEF ActionInv
  <2>3. ConsentHolds'
    BY <1>1, <2>1, Zenon DEF ActionInv, ConsentHolds
  <2> QED
    BY <2>2, <2>3 DEF ConsentInv
<1>3. CASE RestartCore \/ LeavesChat \/ Deny
  <2>1. Dropped /\ UNCHANGED <<minted, pends, stale>>
    BY <1>3 DEF RestartCore, LeavesChat, Deny, linkVars
  <2> QED
    BY <2>1, DroppedKeeps
<1>4. CASE UNCHANGED <<pending, pends, minted, refused>> /\ (~stale' => ~stale)
  <2>1. ActionInv'
    BY <1>1, <1>4 DEF ActionInv
  <2>2. ConsentHolds'
    BY <1>1, <1>4, Zenon DEF ConsentHolds
  <2> QED
    BY <2>1, <2>2 DEF ConsentInv
<1>5. CASE Approve
  <2>1. UNCHANGED <<pends, minted, stale>>
    BY <1>5 DEF Approve, linkVars
  <2>2. CASE UNCHANGED <<pending, refused>>
    BY <1>4, <2>1, <2>2
  <2>3. CASE Dropped
    BY <2>1, <2>3, DroppedKeeps
  <2> QED
    BY <1>5, <2>2, <2>3 DEF Approve
<1>6. ASSUME NEW i \in DOMAIN prompts, PromptPassed(i) PROVE ConsentInv'
  <2>1. UNCHANGED <<pends, stale, spawned, bootId>>
    BY <1>6 DEF PromptPassed, linkVars, coreVars
  <2>2. CASE Dropped /\ UNCHANGED minted
    BY <2>1, <2>2, DroppedKeeps
  <2>3. CASE /\ pending # NoAction /\ bootId # NoCore
             /\ minted' = Append(minted, Token(prompts[i])) /\ pending' = NoAction
             /\ UNCHANGED refused
    <3> DEFINE n == Len(minted) + 1
    <3>1. /\ DOMAIN minted' = DOMAIN minted \cup {n} /\ n \notin DOMAIN minted
          /\ minted'[n] = Token(prompts[i])
          /\ \A k \in DOMAIN minted : minted'[k] = minted[k]
      BY <1>1, <2>3
    <3> HIDE DEF n
    <3>2. /\ minted'[n].action = pending /\ minted'[n].key = spawned
          /\ minted'[n].boot = bootId
      BY <3>1 DEF Token
    <3>3. pending \in 1..pends
      BY <1>1, <2>3 DEF ActionInv, NoAction
    <3>4. ActionInv'
      <4>1. pending' <= pends'
        BY <1>1, <2>1, <2>3 DEF NoAction
      <4>2. \A a \in refused' : a <= pends' /\ a # pending'
        BY <1>1, <2>1, <2>3 DEF NoAction, ActionInv
      <4>3. \A k \in DOMAIN minted' :
              minted'[k].action \in 1..pends' /\ minted'[k].action # pending'
        BY <1>1, <2>1, <2>3, <3>1, <3>2, <3>3 DEF NoAction, ActionInv
      <4> QED
        BY <4>1, <4>2, <4>3, Zenon DEF ActionInv
    <3>5. \A k, l \in DOMAIN minted' : minted'[k].action = minted'[l].action => k = l
      <4>1. \A k, l \in DOMAIN minted : minted[k].action = minted[l].action => k = l
        BY <1>1 DEF ConsentHolds
      <4>2. \A k \in DOMAIN minted : minted[k].action # pending
        BY <1>1 DEF ActionInv
      <4> QED
        BY <3>1, <3>2, <4>1, <4>2
    <3>6. \A k \in DOMAIN minted' : minted'[k].action \notin refused'
      BY <1>1, <2>3, <3>1, <3>2 DEF ConsentHolds, ActionInv
    <3>7. ASSUME ~stale', NEW k \in DOMAIN minted' PROVE minted'[k].key = minted'[k].boot
      <4>1. ~stale
        BY <2>1, <3>7
      <4>2. bootId = spawned
        BY <2>3, <4>1 DEF SessionIInv, BootInv
      <4> QED
        BY <1>1, <3>1, <3>2, <4>1, <4>2 DEF ConsentHolds
    <3> QED
      BY <3>4, <3>5, <3>6, <3>7, Zenon DEF ConsentInv, ConsentHolds
  <2> QED
    BY <1>6, <2>2, <2>3 DEF PromptPassed, MintAndRun
<1>7. ASSUME NEW i \in DOMAIN prompts, PromptFailed(i) PROVE ConsentInv'
  <2>1. Dropped /\ UNCHANGED <<minted, pends, stale>>
    BY <1>7 DEF PromptFailed, linkVars
  <2> QED
    BY <2>1, DroppedKeeps
<1>8. ASSUME NEW q \in Polls, FetchSeen(q) PROVE ConsentInv'
  <2>1. UNCHANGED <<pending, pends, minted, refused>>
    BY <1>8 DEF FetchSeen, consentVars
  <2>2. ~stale' => ~stale
    BY <1>8, Zenon DEF FetchSeen
  <2> QED
    BY <1>4, <2>1, <2>2
<1>9. CASE UNCHANGED <<pending, pends, minted, refused, stale>>
  BY <1>4, <1>9
<1> QED
  BY <1>2, <1>3, <1>5, <1>6, <1>7, <1>8, <1>9, Zenon
  DEF SessionNext, PollStart, PollStep, HealthAnswered, HealthSeen, FetchAnswered,
      Binds, Dies, Send, StreamCloses, sessionVars, consentVars, linkVars

-----------------------------------------------------------------------------
(* The theorems *)

LEMMA SessionIInvAlways == SessionSpec => []SessionIInv
<1>1. SessionInit => SessionIInv
  BY SessionInitially
<1>2. SessionIInv /\ [SessionNext]_sessionVars => SessionIInv'
  BY SessionTypedNext, PollNext, BootNext, ConsentNext DEF SessionIInv, ConsentInv
<1> QED
  BY <1>1, <1>2, PTL DEF SessionSpec

\* Type correctness of the app's session.
THEOREM SessionTypeCorrect == SessionSpec => []SessionTypeOK
<1>1. SessionIInv => SessionTypeOK
  BY DEF SessionIInv, SessionTyped
<1> QED
  BY <1>1, SessionIInvAlways, PTL

\* However many prompts, polls, cores and runs there are: an action that waits is
\* approved at most once and never after it was refused, and its token names the
\* core it is signed for, unless a boot id came late (approve, mintAndRun, deny,
\* restartCore, fetchBootId).
THEOREM ConsentAlwaysHolds == SessionSpec => []ConsentHolds
<1>1. SessionIInv => ConsentHolds
  BY DEF SessionIInv
<1> QED
  BY <1>1, SessionIInvAlways, PTL

=============================================================================
