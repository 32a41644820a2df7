-------------------------- MODULE ApprovalVerifier --------------------------
(***************************************************************************)
(* Approval tokens (ginexus-security/approval.rs and, on the app's side,   *)
(* GinexusCore/Approval.swift).                                            *)
(*                                                                         *)
(* The app mints a token for one exact call after the user's approval; the *)
(* verifier of the running core accepts it at most once.  A call is the    *)
(* triple (action, args, target) that the token's HMAC covers, so the HMAC *)
(* of a grant matches exactly when the grant, field for field, was minted. *)
(* Other modules extend this one and fire its operators in their actions.  *)
(***************************************************************************)
EXTENDS Integers, FiniteSets

CONSTANTS
    Calls,      \* tool calls: tool, arguments and target together
    Nonces,     \* nonces the app can draw
    MintTTL,    \* Approval.defaultTTLms
    MaxTTL,     \* DEFAULT_MAX_TTL_MS
    MaxClock,   \* bound on the clock
    MaxBoot     \* bound on the boots of the core

ASSUME TTLAssumption == MintTTL \in Nat /\ MaxTTL \in Nat

ASSUME BoundAssumption == MaxClock \in Nat /\ MaxBoot \in Nat

VARIABLES
    clock,      \* the system clock (both processes read the same one)
    boot,       \* boot_id of the running core; boots are never repeated
    minted,     \* every token the app has minted
    seen        \* nonces burnt by the running core

approvalVars == <<clock, boot, minted, seen>>

Token == [call : Calls, nonce : Nonces, expiry : Int, boot : Nat]

ApprovalTypeOK ==
    /\ clock \in Nat
    /\ boot \in Nat
    /\ minted \in SUBSET Token
    /\ seen \in SUBSET Nonces

ApprovalInit ==
    /\ clock = 0
    /\ boot = 0
    /\ minted = {}
    /\ seen = {}

Tick ==
    /\ clock < MaxClock
    /\ clock' = clock + 1
    /\ UNCHANGED <<boot, minted, seen>>

\* The app mints for the boot it last asked the core about, perhaps an
\* earlier one.  A nonce is 16 random bytes: never drawn twice.
Mint(c, b) ==
    /\ b \in 0..boot
    /\ \E n \in Nonces \ {t.nonce : t \in minted} :
         minted' = minted \cup
           {[call |-> c, nonce |-> n, expiry |-> clock + MintTTL, boot |-> b]}
    /\ UNCHANGED <<clock, boot, seen>>

\* What a request may present as a grant: a minted token, or one of whose
\* fields differs from what its HMAC covers.
Presented ==
    UNION {{t} \cup {[t EXCEPT !.call = c] : c \in Calls}
               \cup {[t EXCEPT !.nonce = n] : n \in Nonces}
               \cup {[t EXCEPT !.boot = b] : b \in 0..boot} : t \in minted}

\* ApprovalVerifier::verify at time `now`: Ok.  Every other outcome is an
\* error that leaves the verifier as it was.
VerifiesAnyBoot(g, now) ==
    /\ g.expiry > now
    /\ g.expiry - now <= MaxTTL
    /\ g.nonce \notin seen
    /\ g \in minted

Verifies(g, now) ==
    /\ g.boot = boot
    /\ g.expiry > now
    /\ g.expiry - now <= MaxTTL
    /\ g.nonce \notin seen
    /\ g \in minted

\* The nonce is burnt under the same lock as the check.
BurnNothing(g) == seen' = seen
Burn(g) == seen' = seen \cup {g.nonce}

\* A new core process: a new boot id and an empty nonce set.
NewVerifier ==
    /\ boot < MaxBoot
    /\ boot' = boot + 1
    /\ seen' = {}
    /\ UNCHANGED <<clock, minted>>

=============================================================================
