---------------------------- MODULE WireMessages -----------------------------
(***************************************************************************)
(* What a provider adapter sends: the messages of the conversation in the   *)
(* shape of its backend.  Text, image and thinking are kept as blocks in    *)
(* the order they are sent; a part of a wire message stands for the string  *)
(* or the object it is written as.                                         *)
(***************************************************************************)
EXTENDS Integers, Sequences, SequencesExt

Text     == [kind |-> "text"]
Image    == [kind |-> "image"]
Thinking == [kind |-> "thinking"]
ToolUse(id, tool, input) == [kind |-> "use", id |-> id, tool |-> tool, input |-> input]
ToolResult(id, error)    == [kind |-> "result", id |-> id, error |-> error]

Message(role, content) == [role |-> role, content |-> content]
Wire(role, parts)      == [role |-> role, parts |-> parts]

\* The blocks of some kinds, in their order.
Of(kinds, content) ==
  LET kept[n \in 0 .. Len(content)] ==
        IF n = 0 THEN <<>>
        ELSE IF content[n].kind \in kinds THEN Append(kept[n - 1], content[n]) ELSE kept[n - 1]
  IN kept[Len(content)]

\* _split_system: the text of the system messages, and the conversation without them.
SplitSystem(history) ==
  LET upto[n \in 0 .. Len(history)] ==
        IF n = 0 THEN [system |-> <<>>, body |-> <<>>]
        ELSE IF history[n].role = "system"
        THEN [upto[n - 1] EXCEPT !.system = @ \o history[n].content]
        ELSE [upto[n - 1] EXCEPT !.body = Append(@, history[n])]
  IN upto[Len(history)]

SystemMessage(parts) == IF parts = <<>> THEN <<>> ELSE <<Wire("system", parts)>>

\* The description of the tools in the prompt, where they are not sent as such.
Protocol == [kind |-> "protocol"]
ToolProtocol(path, tools) == IF path \in {"B", "C"} /\ tools # {} THEN <<Protocol>> ELSE <<>>

-----------------------------------------------------------------------------
(* openai_compat.py                                                        *)

\* [seeded fault] Only one result of a message gets a message of its own.
ToolMessagesFirst(results) ==
  IF results = <<>> THEN <<>> ELSE <<Wire("tool", <<Head(results)>>)>>

\* Natively, every result is a message of its own.
ToolMessages(results) == [i \in DOMAIN results |-> Wire("tool", <<results[i]>>)]

\* _encode_user_blocks: natively the results, then the rest; otherwise the results
\* come as text in front, the last one first.
OpenaiUser(content, path) ==
  LET results == Of({"result"}, content)
      rest == Of({"text"}, content) \o Of({"image"}, content)
      parts == IF path = "A" THEN rest ELSE Reverse(results) \o rest
  IN (IF path = "A" THEN ToolMessages(results) ELSE <<>>)
     \o (IF parts = <<>> THEN <<>> ELSE <<Wire("user", parts)>>)

\* _encode_assistant_blocks: thinking is only sent back where calls are text.
OpenaiAssistant(content, path) ==
  <<Wire("assistant", (IF path = "A" THEN <<>> ELSE Of({"thinking"}, content))
                      \o Of({"text"}, content) \o Of({"use"}, content))>>

OpenaiMessage(m, path) ==
  IF m.role = "assistant" THEN OpenaiAssistant(m.content, path) ELSE OpenaiUser(m.content, path)

OpenaiMessages(body, path) ==
  LET sent[n \in 0 .. Len(body)] ==
        IF n = 0 THEN <<>> ELSE sent[n - 1] \o OpenaiMessage(body[n], path)
  IN sent[Len(body)]

\* _build_payload: the description of the tools comes behind the system text.
OpenaiRequest(system, history, tools, path) ==
  LET split == SplitSystem(history) IN
  [messages |-> SystemMessage(system \o split.system \o ToolProtocol(path, tools))
                \o OpenaiMessages(split.body, path),
   tools |-> IF path = "A" THEN tools ELSE {}]

-----------------------------------------------------------------------------
(* ollama.py                                                               *)

\* _encode_messages: one wire message each; results become text of the user.
OllamaMessage(m) ==
  IF m.role = "assistant"
  THEN Wire("assistant", Of({"text"}, m.content) \o Of({"use"}, m.content))
  ELSE Wire(m.role, m.content)

OllamaRequest(system, history, tools, path) ==
  [messages |-> SystemMessage(system \o ToolProtocol(path, tools))
                \o [i \in DOMAIN history |-> OllamaMessage(history[i])],
   tools |-> IF path = "A" THEN tools ELSE {}]

-----------------------------------------------------------------------------
(* anthropic_passthrough.py                                                *)

\* _split_system: an explicit prompt keeps out the one in the messages.
AnthropicSystem(system, split) == IF system # <<>> THEN system ELSE split.system

\* The blocks are sent as they are.
AnthropicMessage(m) == Wire(m.role, m.content)

AnthropicRequest(system, history, tools) ==
  LET split == SplitSystem(history) IN
  [system |-> AnthropicSystem(system, split),
   messages |-> [i \in DOMAIN split.body |-> AnthropicMessage(split.body[i])],
   tools |-> tools]

-----------------------------------------------------------------------------
\* The request of an agent; llamacpp and tgi hand over to openai_compat.
Request(agent, history) ==
  CASE agent.provider = "ollama" ->
         OllamaRequest(agent.system, history, agent.tools, agent.path)
    [] agent.provider = "anthropic_passthrough" ->
         AnthropicRequest(agent.system, history, agent.tools)
    [] OTHER -> OpenaiRequest(agent.system, history, agent.tools, agent.path)
==============================================================================
