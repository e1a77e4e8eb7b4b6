--------------------------- MODULE StreamPipeline ---------------------------
(***************************************************************************)
(* One response of a model, from the chunks an adapter reads off the wire  *)
(* to the blocks that the agent loop assembles.  The adapters: openai with *)
(* native tool calls (_translate_native) or with calls written in the text *)
(* (_translate_prompt_engineered), ollama either way, and anthropic, which *)
(* passes events on.  llamacpp, tgi and modal are openai at another URL.   *)
(*                                                                         *)
(* A chunk of the wire that has several fields stands for several chunks,  *)
(* in the order in which the code looks at the fields.  Ids, names, models *)
(* and token counts pass through and are left out.                         *)
(***************************************************************************)
EXTENDS TextParsers

CONSTANTS
  Setups,        \* what a response may be: records [adapter, native, thinks, words]
  MaxPiece,      \* bound on the symbols of one content chunk
  MaxReasoning,  \* bound on the chunks of out-of-band reasoning
  MaxArgs,       \* bound on the chunks of arguments of a native call
  MaxFrames      \* bound on the blocks of an anthropic response

ASSUME StreamAssumption ==
  /\ MaxPiece \in Nat /\ MaxReasoning \in Nat /\ MaxArgs \in Nat /\ MaxFrames \in Nat
  /\ \A r \in Setups : r.native \in BOOLEAN /\ r.words \in Seq(STRING)
  \* The symbol within the tags of calls, and the one for reasoning out of band, are no words.
  /\ \A r \in Setups : \A i \in DOMAIN r.words : r.words[i] \notin {"tool_call", "reason"}

VARIABLES
  setup,   \* adapter, native: tool calls have a field of their own; thinks: the model
           \* writes thinking tags in its text; words: what it writes
  pos,     \* symbols of it that came over the wire
  s,       \* the adapter and the blocks it has emitted, see Fresh
  calls,   \* openai native: tool_state, [at, named, pending] for each index
  args,    \* openai native: the arguments sent for each index
  reasons, \* chunks of reasoning so far
  started, \* was message_start emitted?
  frame,   \* anthropic, where the server is: "outside" of the blocks, within a "block", or
           \* within a "foreign" one, of a type the adapter does not know
  ended    \* "no", "complete", "noDone", "providerError", "protocolError" or "typeError";
           \* "noDone": the wire ended early, and the message was finalized all the same

vars == <<setup, pos, s, calls, args, reasons, started, frame, ended>>

\* A word is what a model writes as a whole: a tag, a symbol, or the body of a call.
Symbols(w) ==
  CASE w = "think"   -> <<"<", "think", ">">>   [] w = "/think"   -> <<"</", "think", ">">>
    [] w = "thought" -> <<"<", "thought", ">">> [] w = "/thought" -> <<"</", "thought", ">">>
    [] w = "tool"    -> OpenTag                 [] w = "/tool"    -> CloseTag
    [] OTHER         -> <<w>>

Spelled(words) ==
  LET text[n \in 0 .. Len(words)] == IF n = 0 THEN <<>> ELSE text[n - 1] \o Symbols(words[n])
  IN text[Len(words)]
Text == Spelled(setup.words)

CallIndexes == {0, 1}

\* The blocks emitted, the open text and thinking blocks (0: none), whether an event went
\* to a block that was not open, and the two parsers.
Fresh == [blocks |-> <<>>, text |-> 0, think |-> 0, astray |-> FALSE,
          thinking |-> NewThinking, tool |-> NewToolText]

Init ==
  /\ setup \in Setups /\ pos = 0 /\ s = Fresh
  /\ calls = [i \in CallIndexes |-> [at |-> 0, named |-> FALSE, pending |-> <<>>]]
  /\ args = [i \in CallIndexes |-> <<>>]
  /\ reasons = 0 /\ started = FALSE /\ frame = "outside" /\ ended = "no"

Openai == setup.adapter = "openai"
Ollama == setup.adapter = "ollama"
Reading == ended = "no"

-----------------------------------------------------------------------------
(* Events.  The assembler keys blocks by index, and so does this list.     *)

BlockStart(t, kind) ==
  [t EXCEPT !.blocks = Append(@, [kind |-> kind, body |-> <<>>, open |-> TRUE])]

BlockDelta(t, i, body) ==
  IF t.blocks[i].open THEN [t EXCEPT !.blocks[i].body = @ \o body]
  ELSE [t EXCEPT !.astray = TRUE]

BlockStop(t, i) ==
  IF t.blocks[i].open THEN [t EXCEPT !.blocks[i].open = FALSE] ELSE [t EXCEPT !.astray = TRUE]

CloseText(t) == IF t.text = 0 THEN t ELSE [BlockStop(t, t.text) EXCEPT !.text = 0]
CloseThinking(t) == IF t.think = 0 THEN t ELSE [BlockStop(t, t.think) EXCEPT !.think = 0]

\* A delta for the open text block, which is opened first if need be.
AddText(t, body) ==
  LET o == IF t.text # 0 THEN t ELSE [BlockStart(t, "text") EXCEPT !.text = Len(t.blocks) + 1]
  IN BlockDelta(o, o.text, body)

AddThinking(t, body) ==
  LET o == IF t.think # 0 THEN t
           ELSE [BlockStart(t, "thinking") EXCEPT !.think = Len(t.blocks) + 1]
  IN BlockDelta(o, o.think, body)

\* A call that comes whole: start, delta and stop.
AddCall(t, kind, body) ==
  LET o == BlockStart(t, kind) IN BlockStop(BlockDelta(o, Len(o.blocks), body), Len(o.blocks))

-----------------------------------------------------------------------------
(* openai.                                                                 *)

\* [seeded fault] A text block stays open while reasoning comes, and is lost sight of.
OpenaiThinkingForgets(t, body) == AddThinking([t EXCEPT !.text = 0], body)

OpenaiThinking(t, body) == AddThinking(CloseText(t), body)

\* Content of the native path, and the text events of the other.
OpenaiText(t, body) == AddText(CloseThinking(t), body)

\* _emit_parser_event: a bad call has no block, so that it leaves nothing.
OpenaiParserEvent(t, e) ==
  CASE e.kind = "text"    -> OpenaiText(t, e.body)
    [] e.kind = "call"    -> AddCall(CloseThinking(CloseText(t)), "call", e.body)
    [] e.kind = "badCall" -> t

\* The events of the parser, one after the other.
OpenaiEvents(t, events) ==
  LET upto[n \in 0 .. Len(events)] ==
        IF n = 0 THEN t ELSE OpenaiParserEvent(upto[n - 1], events[n])
  IN upto[Len(events)]

OpenaiToolText(t, body) ==
  LET fed == FeedToolText(t.tool, body) IN OpenaiEvents([t EXCEPT !.tool = fed.parser], fed.events)

\* [seeded fault] Arguments that come before the name are forgotten.
OpenCallForgets(t, i) ==
  [s |-> BlockStart(CloseThinking(CloseText(t)), "native"),
   call |-> [at |-> Len(t.blocks) + 1, named |-> TRUE, pending |-> <<>>]]

\* The block of a native call starts when its name is there, and takes with it the
\* arguments that came before.
OpenCall(t, i) ==
  LET o == BlockStart(CloseThinking(CloseText(t)), "native") IN
  [s |-> IF calls[i].pending = <<>> THEN o ELSE BlockDelta(o, Len(o.blocks), calls[i].pending),
   call |-> [at |-> Len(o.blocks), named |-> TRUE, pending |-> <<>>]]

\* A delta of tool call i, with a name or a chunk of arguments or both.
ToolCallDelta(i, name, chunk) ==
  /\ Openai /\ setup.native /\ Reading
  /\ name => ~calls[i].named
  /\ Len(args[i]) + Len(chunk) <= MaxArgs
  /\ LET opened == IF name THEN OpenCall(s, i) ELSE [s |-> s, call |-> calls[i]] IN
     IF opened.call.named
     THEN /\ s' = IF chunk = <<>> THEN opened.s ELSE BlockDelta(opened.s, opened.call.at, chunk)
          /\ calls' = [calls EXCEPT ![i] = opened.call]
     ELSE s' = s /\ calls' = [calls EXCEPT ![i].pending = @ \o chunk]
  /\ args' = [args EXCEPT ![i] = @ \o chunk]
  /\ started' = TRUE
  /\ UNCHANGED <<setup, frame, pos, reasons, ended>>

\* reasoning_content or reasoning.
OpenaiReasoning ==
  /\ Openai /\ Reading /\ reasons < MaxReasoning
  /\ reasons' = reasons + 1 /\ started' = TRUE
  /\ s' = OpenaiThinking(s, <<"reason">>)
  /\ UNCHANGED <<setup, frame, pos, calls, args, ended>>

\* The next piece of content, cut anywhere.
Piece(k) == SubSeq(Text, pos + 1, pos + k)

Content(k) ==
  /\ Reading /\ k <= Len(Text) - pos
  /\ pos' = pos + k /\ started' = TRUE
  /\ UNCHANGED <<setup, frame, calls, args, reasons>>

OpenaiContent(k) ==
  /\ Openai /\ (setup.native \/ ~setup.thinks) /\ Content(k)
  /\ s' = IF setup.native THEN OpenaiText(s, Piece(k)) ELSE OpenaiToolText(s, Piece(k))
  /\ UNCHANGED ended

\* With inline thinking the events of the ThinkingParser are unpacked as pairs, which they
\* are not: the first event raises.
OpenaiThinkingContent(k) ==
  /\ Openai /\ ~setup.native /\ setup.thinks /\ Content(k)
  /\ LET fed == FeedThinking(s.thinking, Piece(k)) IN
     /\ s' = [s EXCEPT !.thinking = fed.parser]
     /\ ended' = IF fed.events = <<>> THEN "no" ELSE "typeError"

\* A chunk that is an error or that cannot be decoded, at any time.
ProviderError ==
  /\ setup.adapter # "anthropic" /\ Reading /\ ended' = "providerError"
  /\ UNCHANGED <<setup, frame, pos, s, calls, args, reasons, started>>

\* Every native call that was opened is closed at the end.
CloseCall(t, i) == IF calls[i].named THEN BlockStop(t, calls[i].at) ELSE t
CloseCalls(t) == CloseCall(CloseCall(t, 0), 1)

\* The stream ends, with [DONE] or without, and may have been cut anywhere: the adapter ends
\* the message in the same way.  One with no chunk at all has no message_start, which the
\* assembler refuses.
OpenaiEnds ==
  /\ Openai /\ Reading
  /\ LET flushed == IF setup.native THEN s
                    ELSE OpenaiEvents(s, FinalizeToolText(s.tool)) IN
     s' = CloseCalls(CloseThinking(CloseText(flushed)))
  /\ ended' = CASE ~setup.native /\ setup.thinks /\ FinalizeThinking(s.thinking) # <<>> -> "typeError"
                [] ~started -> "protocolError"
                [] OTHER -> IF pos = Len(Text) THEN "complete" ELSE "noDone"
  /\ UNCHANGED <<setup, frame, pos, calls, args, reasons, started>>

-----------------------------------------------------------------------------
(* ollama.                                                                 *)

\* _from_parser_event: only the text block gives way to a call.
OllamaParserEvent(t, e) ==
  CASE e.kind = "text"    -> AddText(t, e.body)
    [] e.kind = "call"    -> AddCall(CloseText(t), "call", e.body)
    [] e.kind = "badCall" -> t

OllamaEvents(t, events) ==
  LET upto[n \in 0 .. Len(events)] ==
        IF n = 0 THEN t ELSE OllamaParserEvent(upto[n - 1], events[n])
  IN upto[Len(events)]

OllamaText(t, body) ==
  LET u   == CloseThinking(t)
      fed == FeedToolText(u.tool, body)
  IN IF setup.native THEN AddText(u, body)
     ELSE OllamaEvents([u EXCEPT !.tool = fed.parser], fed.events)

\* _emit_thinking leaves the text block open.
OllamaPiece(t, e) == IF e.kind = "thinking" THEN AddThinking(t, e.body) ELSE OllamaText(t, e.body)

OllamaPieces(t, pieces) ==
  LET upto[n \in 0 .. Len(pieces)] == IF n = 0 THEN t ELSE OllamaPiece(upto[n - 1], pieces[n])
  IN upto[Len(pieces)]

\* _pipe_content
PipeContent(t, body) ==
  LET fed == FeedThinking(t.thinking, body) IN
  IF setup.thinks THEN [s |-> [t EXCEPT !.thinking = fed.parser], pieces |-> fed.events]
  ELSE [s |-> t, pieces |-> Chunk("text", body)]

OllamaContent(k) ==
  /\ Ollama /\ Content(k)
  /\ LET piped == PipeContent(s, Piece(k)) IN s' = OllamaPieces(piped.s, piped.pieces)
  /\ UNCHANGED ended

\* The thinking field of a chunk.
OllamaReasoning ==
  /\ Ollama /\ Reading /\ reasons < MaxReasoning
  /\ reasons' = reasons + 1 /\ started' = TRUE
  /\ s' = AddThinking(s, <<"reason">>)
  /\ UNCHANGED <<setup, frame, pos, calls, args, ended>>

\* A native call comes whole; one without a name is passed over.
OllamaCall(i, named) ==
  /\ Ollama /\ setup.native /\ Reading /\ args[i] = <<>> /\ MaxArgs > 0
  /\ args' = [args EXCEPT ![i] = <<"arg">>] /\ started' = TRUE
  /\ IF named
     THEN /\ s' = AddCall(s, "native", <<"arg">>)
          /\ calls' = [calls EXCEPT ![i].named = TRUE, ![i].at = Len(s.blocks) + 1]
     ELSE UNCHANGED <<s, calls>>
  /\ UNCHANGED <<setup, frame, pos, reasons, ended>>

\* At the end the thinking parser is flushed into the other, and that one then.
OllamaFlush(t) ==
  LET u == IF setup.thinks THEN OllamaPieces(t, FinalizeThinking(t.thinking)) ELSE t
  IN IF setup.native THEN u ELSE OllamaEvents(u, FinalizeToolText(u.tool))

\* The chunk that says done.
OllamaDone ==
  /\ Ollama /\ Reading /\ pos = Len(Text)
  /\ s' = CloseText(CloseThinking(OllamaFlush(s)))
  /\ ended' = "complete" /\ started' = TRUE
  /\ UNCHANGED <<setup, frame, pos, calls, args, reasons>>

\* The stream stops without it, anywhere: what the thinking parser holds is lost, its block is
\* left open, and the message is ended as if it were complete.
OllamaCutShort ==
  /\ Ollama /\ Reading
  /\ IF started
     THEN /\ s' = CloseText(IF setup.native THEN s
                            ELSE OllamaEvents(s, FinalizeToolText(s.tool)))
          /\ ended' = "noDone"
     ELSE ended' = "providerError" /\ UNCHANGED s
  /\ UNCHANGED <<setup, frame, pos, calls, args, reasons, started>>

-----------------------------------------------------------------------------
(* anthropic: the server numbers the blocks and sends one after the other. *)

Anthropic == setup.adapter = "anthropic" /\ Reading
Latest == Len(s.blocks)
Within == frame \in {"block", "foreign"}

AnthropicMessageStart ==
  /\ Anthropic /\ ~started /\ started' = TRUE
  /\ UNCHANGED <<setup, pos, s, calls, args, reasons, frame, ended>>

\* A block of a type the adapter does not know is not started for the assembler.
AnthropicBlockStart(kind) ==
  /\ Anthropic /\ started /\ ~Within /\ Latest < MaxFrames
  /\ IF kind = "unknown"
     THEN frame' = "foreign" /\ UNCHANGED s
     ELSE frame' = "block" /\ s' = BlockStart(s, kind)
  /\ UNCHANGED <<setup, pos, calls, args, reasons, started, ended>>

\* A delta of a known type is passed on, and the assembler raises if its block was not started.
AnthropicDelta(known) ==
  /\ Anthropic /\ Within
  /\ \/ ~known /\ UNCHANGED <<s, ended>>
     \/ known /\ frame = "foreign" /\ ended' = "protocolError" /\ UNCHANGED s
     \/ /\ known /\ frame = "block" /\ Len(s.blocks[Latest].body) < MaxArgs
        /\ s' = BlockDelta(s, Latest, <<"arg">>) /\ UNCHANGED ended
  /\ UNCHANGED <<setup, pos, calls, args, reasons, started, frame>>

\* A stop is always passed on, that of a foreign block too.  The assembler looks at none.
AnthropicBlockStop ==
  /\ Anthropic /\ Within
  /\ IF frame = "block" THEN s' = BlockStop(s, Latest) ELSE UNCHANGED s
  /\ frame' = "outside"
  /\ UNCHANGED <<setup, pos, calls, args, reasons, started, ended>>

AnthropicMessageStop ==
  /\ Anthropic /\ started /\ ~Within /\ ended' = "complete"
  /\ UNCHANGED <<setup, pos, s, calls, args, reasons, started, frame>>

AnthropicError ==
  /\ Anthropic /\ ended' = "providerError"
  /\ UNCHANGED <<setup, pos, s, calls, args, reasons, started, frame>>

\* The connection ends before message_stop, and the message is finalized with what was
\* emitted, an open block too; without a message_start the assembler refuses it.
AnthropicCutShort ==
  /\ Anthropic /\ ended' = IF started THEN "noDone" ELSE "protocolError"
  /\ UNCHANGED <<setup, pos, s, calls, args, reasons, started, frame>>

-----------------------------------------------------------------------------
Next ==
  \/ OpenaiReasoning \/ ProviderError \/ OpenaiEnds
  \/ OllamaReasoning \/ OllamaDone \/ OllamaCutShort
  \/ \E k \in 1 .. MaxPiece : OpenaiContent(k) \/ OpenaiThinkingContent(k) \/ OllamaContent(k)
  \/ \E i \in CallIndexes, b \in BOOLEAN :
       \/ \E chunk \in {<<>>, <<Len(args[i])>>} : ToolCallDelta(i, b, chunk)
       \/ OllamaCall(i, b)
  \/ AnthropicMessageStart \/ AnthropicBlockStop \/ AnthropicMessageStop \/ AnthropicError
  \/ AnthropicCutShort
  \/ \E kind \in {"text", "native", "unknown"} : AnthropicBlockStart(kind)
  \/ \E known \in BOOLEAN : AnthropicDelta(known)

Spec == Init /\ [][Next]_vars

-----------------------------------------------------------------------------
(* What the model wrote, word by word, wherever the stream was cut.        *)

Inside(mode, w) ==
  CASE mode = "out" -> IF w \in {"think", "thought"} THEN w ELSE "out"
    [] mode = "think" -> IF w = "/think" THEN "out" ELSE mode
    [] OTHER -> IF w = "/thought" THEN "out" ELSE mode

\* The words outside of the thinking tags, and those within.
Sort(acc, w) ==
  LET mode == Inside(acc.mode, w) IN
  IF mode # acc.mode THEN [acc EXCEPT !.mode = mode]
  ELSE IF mode = "out" THEN [acc EXCEPT !.outer = Append(@, w)]
  ELSE [acc EXCEPT !.inner = Append(@, w)]

Split(words) ==
  LET upto[n \in 0 .. Len(words)] ==
        IF n = 0 THEN [mode |-> "out", outer |-> <<>>, inner |-> <<>>]
        ELSE Sort(upto[n - 1], words[n])
  IN upto[Len(words)]

\* A word at the end of a list of visible events, text next to text.
AddVisible(events, kind, body) ==
  IF body = <<>> THEN events
  ELSE IF kind = "text" /\ events # <<>> /\ events[Len(events)].kind = "text"
  THEN [events EXCEPT ![Len(events)].body = @ \o body]
  ELSE Append(events, Event(kind, body))

\* The text and the calls of words: a call that is not closed, or is no JSON, is gone.
Write(acc, w) ==
  IF ~acc.inCall
  THEN IF w = "tool" THEN [acc EXCEPT !.inCall = TRUE]
       ELSE [acc EXCEPT !.out = AddVisible(@, "text", Symbols(w))]
  ELSE IF w # "/tool" THEN [acc EXCEPT !.body = @ \o Symbols(w)]
  ELSE [inCall |-> FALSE, body |-> <<>>,
        out |-> IF acc.body = <<"json">> THEN AddVisible(acc.out, "call", acc.body) ELSE acc.out]

Written(words) ==
  LET upto[n \in 0 .. Len(words)] ==
        IF n = 0 THEN [inCall |-> FALSE, body |-> <<>>, out |-> <<>>]
        ELSE Write(upto[n - 1], words[n])
  IN upto[Len(words)].out

\* A thinking block without the reasoning that came out of band.
Spoken(body) ==
  LET upto[n \in 0 .. Len(body)] ==
        IF n = 0 THEN <<>>
        ELSE IF body[n] = "reason" THEN upto[n - 1] ELSE Append(upto[n - 1], body[n])
  IN upto[Len(body)]

\* What a reader of the blocks sees: text and calls, and the thoughts.
See(seen, block) ==
  CASE block.kind \in {"text", "call"} ->
         [seen EXCEPT !.visible = AddVisible(@, block.kind, block.body)]
    [] block.kind = "thinking" -> [seen EXCEPT !.thoughts = @ \o Spoken(block.body)]
    [] OTHER -> seen

SeenIn(blocks) ==
  LET upto[n \in 0 .. Len(blocks)] ==
        IF n = 0 THEN [visible |-> <<>>, thoughts |-> <<>>] ELSE See(upto[n - 1], blocks[n])
  IN upto[Len(blocks)]

\* Does anything look for thinking tags?  The native path of openai does not: there they are text.
Tagged == setup.thinks /\ ~(Openai /\ setup.native)

-----------------------------------------------------------------------------
\* Types, and live streaming: outside of a call a parser never holds back as much as a tag.
TypeOK ==
  /\ setup \in Setups /\ pos \in 0 .. Len(Text) /\ started \in BOOLEAN
  /\ ended \in {"no", "complete", "noDone", "providerError", "protocolError", "typeError"}
  /\ {s.text, s.think} \subseteq 0 .. Len(s.blocks)
  /\ reasons \in 0 .. MaxReasoning /\ frame \in {"outside", "block", "foreign"}
  /\ Len(s.thinking.buf) < Len(OpenTag)
  /\ ~s.tool.inCall => Len(s.tool.buf) < Len(OpenTag)

\* The protocol of blocks, on which the dispatch of calls in mid-stream rests: no delta goes to
\* a block that is not open, no block that was started is stopped twice, and whether the wire says that it is
\* done or just ends, a message that is finalized has no open block.  There are two
\* exceptions, both of a wire that just ends: the thinking block of ollama, and the block the
\* server of anthropic was within.
BlockProtocol ==
  /\ ~s.astray
  /\ ended \in {"complete", "noDone"} =>
       \A i \in DOMAIN s.blocks : s.blocks[i].open =>
         /\ ended = "noDone"
         /\ \/ Ollama /\ i = s.think
            \/ setup.adapter = "anthropic" /\ frame = "block" /\ i = Latest

\* Whatever the cuts, a complete response of openai or ollama has in its blocks the text and the
\* calls, in their order, and in its thinking blocks the thoughts, in theirs, that the model
\* wrote: no part of a tag is shown, and nothing is lost or doubled.
AsWritten ==
  (ended = "complete" /\ setup.adapter # "anthropic") =>
    LET outer == IF Tagged THEN Split(setup.words).outer ELSE setup.words
        inner == IF Tagged THEN Split(setup.words).inner ELSE <<>>
    IN SeenIn(s.blocks) =
         [visible  |-> IF setup.native THEN AddVisible(<<>>, "text", Spelled(outer))
                       ELSE Written(outer),
          thoughts |-> Spelled(inner)]

\* The arguments of a native call all reach its block, in order, also those that came before
\* the name and those between the deltas of another call.
ArgumentsReachTheirCall ==
  \A i \in CallIndexes : calls[i].named => s.blocks[calls[i].at].body = args[i]
=============================================================================
