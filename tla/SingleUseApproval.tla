------------------------- MODULE SingleUseApproval -------------------------
(***************************************************************************)
(* What the approval boundary promises, with no tokens, clocks, boots or   *)
(* concurrent requests: the user approves calls one by one, and each       *)
(* approval lets the approved call, and no other, be performed once.       *)
(***************************************************************************)
EXTENDS Integers

CONSTANTS Calls, Approvals

VARIABLES
    approved,   \* the approvals given, with the call each one is for
    count,      \* per approval: how often it was used
    performed   \* the calls performed, with the approval each one used

vars == <<approved, count, performed>>

Init ==
    /\ approved = {}
    /\ count = [n \in Approvals |-> 0]
    /\ performed = {}

Approve(n, c) ==
    /\ \A p \in approved : p[1] # n
    /\ approved' = approved \cup {<<n, c>>}
    /\ UNCHANGED <<count, performed>>

Perform(n, c) ==
    /\ <<n, c>> \in approved
    /\ count[n] = 0
    /\ count' = [count EXCEPT ![n] = 1]
    /\ performed' = performed \cup {<<n, c>>}
    /\ UNCHANGED approved

Next == \E n \in Approvals, c \in Calls : Approve(n, c) \/ Perform(n, c)

Spec == Init /\ [][Next]_vars

=============================================================================
