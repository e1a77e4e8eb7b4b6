--------------------------- MODULE MCMcpConnection ---------------------------
(* Values of the constants for model checking McpConnection.               *)
EXTENDS McpConnection

\* Each transport, with a handler of one kind.
OneHandlerEach ==
  {<<"memory", {"elicitation"}>>, <<"stdio", {"sampling"}>>, <<"http", {"sampling"}>>,
   <<"sse", {"elicitation"}>>}

\* Two questions in process, so that the second has the id of the tool call it belongs to.
\* One on the other transports, which number them no differently.
QuestionsOn == [w \in {"memory", "stdio", "http", "sse"} |-> IF w = "memory" THEN 2 ELSE 1]
NoQuestions == [w \in {"memory", "stdio", "http", "sse"} |-> 0]
=============================================================================
