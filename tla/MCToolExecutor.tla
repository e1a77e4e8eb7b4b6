--------------------------- MODULE MCToolExecutor ---------------------------
(* Values of the constants for model checking ToolExecutor.                *)
EXTENDS ToolExecutor

Safe       == [known |-> TRUE, safety |-> "safe", aborts |-> FALSE]
Serial     == [known |-> TRUE, safety |-> "raises", aborts |-> FALSE]
SafeAborts == [known |-> TRUE, safety |-> "safe", aborts |-> TRUE]
Shell      == [known |-> TRUE, safety |-> "unsafe", aborts |-> TRUE]
Unknown    == [known |-> FALSE, safety |-> "unsafe", aborts |-> FALSE]

\* Three calls of two tools: one safe, one not, either may abort its siblings.
TwoKinds == {SafeAborts, Serial}
\* Two calls, every way to end before the body.
MixedKinds == {Safe, Shell, Unknown}
=============================================================================
