----------------------------- MODULE MCAgentLoop -----------------------------
(* Values of the constants for model checking AgentLoop.                   *)
EXTENDS AgentLoop

\* What a call answered does not matter to the loop, only that it did.
OneAnswer == {"answer"}
=============================================================================
