--------------------------- MODULE MCAgentRuntime ---------------------------
(* One session; the ids of turn threads are interchangeable.                 *)
EXTENDS AgentRuntime, TLC

Symmetry == Permutations(TurnIds) \cup Permutations(ChatMsgs)
=============================================================================
