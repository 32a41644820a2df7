--------------------------- MODULE MCAgentFanout ---------------------------
(***************************************************************************)
(* AgentLoop with one request at a time and two workers: every tool kind,  *)
(* both autonomy modes, the synthetic budget and the roll-up of usage.     *)
(***************************************************************************)
EXTENDS AgentLoop

CONSTANTS read, write, shell, ghost, r1, n1

MCTurns == {<<write>>, <<shell, read>>, <<ghost>>,
            <<"delegate", "council">>, <<"deep_research">>}
MCModes == {"hitl", "autonomous"}

=============================================================================
