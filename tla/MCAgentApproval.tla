-------------------------- MODULE MCAgentApproval --------------------------
(***************************************************************************)
(* AgentLoop with two requests in flight and no workers: grants shared by  *)
(* concurrent requests, retried, expired, or minted for an earlier boot.   *)
(***************************************************************************)
EXTENDS AgentLoop

CONSTANTS
    write, shell, r1, r2, n1, n2

MCTurns == {<<write, write>>, <<shell>>}
MCModes == {"hitl"}

=============================================================================
