-------------------------- MODULE MCStreamPipeline --------------------------
(* Responses for model checking StreamPipeline.                            *)
EXTENDS StreamPipeline

Words == {"a", "<", "think", "/think", "thought", "tool", "json", "/tool"}

\* Every short response, and longer ones in which tags of both kinds meet.
Responses ==
  UNION {[1 .. n -> Words] : n \in 0 .. 3} \cup
  {<<"a", "tool", "json", "/tool", "a">>, <<"tool", "json", "/tool", "tool", "json", "/tool">>,
   <<"think", "tool", "json", "/tool", "/think", "a">>,
   <<"tool", "think", "a", "/think", "json", "/tool", "<">>,
   <<"a", "think", "<", "/thought", "/think", "tool", "json", "/tool">>,
   <<"thought", "a", "/think", "/thought", "a", "<", "think", "a">>}

Setup(adapter, native, thinks, words) ==
  [adapter |-> adapter, native |-> native, thinks |-> thinks, words |-> words]

Every ==
  {Setup(adapter, FALSE, thinks, words) :
     adapter \in {"openai", "ollama"}, thinks \in BOOLEAN, words \in Responses} \cup
  {Setup(adapter, TRUE, FALSE, <<"a", "<">>) : adapter \in {"openai", "ollama"}} \cup
  {Setup(adapter, TRUE, TRUE, <<"a", "think", "a", "/think", "<">>) :
     adapter \in {"openai", "ollama"}} \cup
  {Setup("anthropic", TRUE, FALSE, <<>>)}
=============================================================================
