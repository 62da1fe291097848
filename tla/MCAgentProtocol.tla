-------------------------- MODULE MCAgentProtocol --------------------------
(* A validator with a window of two seconds for TLC.                       *)
EXTENDS AgentProtocol, TLC

HandlerSymmetry == Permutations(Handler)
=============================================================================
