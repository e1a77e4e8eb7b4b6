----------------------------- MODULE TextParsers -----------------------------
(***************************************************************************)
(* ThinkingParser and ToolCallTextParser, which look for tags in text that *)
(* arrives in pieces.  A parser keeps what it cannot decide yet: the tail  *)
(* of its buffer that may be the beginning of a tag, or the body of a tool *)
(* call whose closing tag has not come.                                    *)
(*                                                                         *)
(* Text is a sequence of symbols.  A tag is three of them, so that it can  *)
(* be cut in two places; none begins inside another.  An event is a record *)
(* with a kind, "text", "thinking", "call" or "badCall", and a body.       *)
(***************************************************************************)
EXTENDS Integers, Sequences

\* Two of the pairs a ThinkingParser knows; case is not told apart.
ThinkingTags == {[open |-> <<"<", "think", ">">>, close |-> <<"</", "think", ">">>],
                 [open |-> <<"<", "thought", ">">>, close |-> <<"</", "thought", ">">>]}
OpenTag  == <<"<", "tool_call", ">">>
CloseTag == <<"</", "tool_call", ">">>
NoTag    == <<>>

Event(kind, body) == [kind |-> kind, body |-> body]
\* A run of no text makes no event.
Chunk(kind, body) == IF body = <<>> THEN <<>> ELSE <<Event(kind, body)>>

\* str.find: the first place where the tag begins, or 0.
Places(buf, tag) == {i \in DOMAIN buf : /\ i + Len(tag) - 1 <= Len(buf)
                                        /\ SubSeq(buf, i, i + Len(tag) - 1) = tag}
Find(buf, tag) == LET at == Places(buf, tag) IN
  IF at = {} THEN 0 ELSE CHOOSE i \in at : \A j \in at : i <= j

Before(buf, i) == SubSeq(buf, 1, i - 1)
After(buf, n)  == SubSeq(buf, n + 1, Len(buf))

\* The lengths of the tails of buf that a later piece may complete to the tag.
Partial(buf, tag) ==
  {k \in 0 .. (Len(tag) - 1) :
     k <= Len(buf) /\ SubSeq(buf, Len(buf) - k + 1, Len(buf)) = SubSeq(tag, 1, k)}

\* [seeded fault] Only the last symbol is held back.
SafeFlushOne(buf, tag) ==
  LET held == {k \in Partial(buf, tag) : k <= 1} IN
  Len(buf) - (CHOOSE k \in held : \A j \in held : j <= k)

\* [seeded fault] Nothing is decided before a tag or the end has come.
SafeFlushLenNever(buf, tag) == 0

\* _safe_flush_len: how much of buf is decided.
SafeFlushLen(buf, tag) ==
  Len(buf) - (CHOOSE k \in Partial(buf, tag) : \A j \in Partial(buf, tag) : j <= k)

-----------------------------------------------------------------------------
(* ThinkingParser: close is the tag that ends the block it is in, if any.  *)

NewThinking == [close |-> NoTag, buf |-> <<>>]

\* _find_earliest_open
EarliestOpen(buf) ==
  LET found == {t \in ThinkingTags : Find(buf, t.open) # 0} IN
  IF found = {} THEN [open |-> NoTag, close |-> NoTag]
  ELSE CHOOSE t \in found : \A u \in found : Find(buf, t.open) <= Find(buf, u.open)

\* _safe_flush_len_any_open: the opening tag with the longest beginning at the end decides.
SafeFlushLenAnyOpen(buf) ==
  LET lens == {SafeFlushLen(buf, t.open) : t \in ThinkingTags} IN
  CHOOSE n \in lens : \A m \in lens : n <= m

\* A drain goes over the buffer until a pass finds no tag: [parser, events, over].
Pass(parser, events, over) == [parser |-> parser, events |-> events, over |-> over]

\* One pass of _drain.
ThinkingPass(x) ==
  LET close == x.parser.close
      buf  == x.parser.buf
      tag  == IF close = NoTag THEN EarliestOpen(buf).open ELSE close
      kind == IF close = NoTag THEN "text" ELSE "thinking"
      at   == IF tag = NoTag THEN 0 ELSE Find(buf, tag)
      safe == IF close = NoTag THEN SafeFlushLenAnyOpen(buf) ELSE SafeFlushLen(buf, close)
  IN IF x.over THEN x
     ELSE IF at = 0
     THEN Pass([close |-> close, buf |-> After(buf, safe)],
               x.events \o Chunk(kind, SubSeq(buf, 1, safe)), TRUE)
     ELSE Pass([close |-> IF close = NoTag THEN EarliestOpen(buf).close ELSE NoTag,
                buf |-> After(buf, at + Len(tag) - 1)],
               x.events \o Chunk(kind, Before(buf, at)), FALSE)

\* _drain: each pass but the last takes a tag out of the buffer.
DrainThinking(p) ==
  LET passes[n \in 0 .. Len(p.buf) + 1] ==
        IF n = 0 THEN Pass(p, <<>>, FALSE) ELSE ThinkingPass(passes[n - 1])
  IN passes[Len(p.buf) + 1]

FeedThinking(p, text) == DrainThinking([p EXCEPT !.buf = @ \o text])

\* finalize: an unterminated block is still reasoning.
FinalizeThinking(p) == Chunk(IF p.close = NoTag THEN "text" ELSE "thinking", p.buf)

-----------------------------------------------------------------------------
(* ToolCallTextParser: buf is the text buffer, or the body of a call.      *)

NewToolText == [inCall |-> FALSE, buf |-> <<>>]

\* _emit_tool_call: a body is taken as JSON at once, and is good or not.
EmitToolCall(body) == <<Event(IF body = <<"json">> THEN "call" ELSE "badCall", body)>>

\* _drain_tool: the closing tag, if it is there.
ToolPass(x) ==
  LET buf == x.parser.buf
      at  == Find(buf, CloseTag)
  IN IF at = 0 THEN Pass(x.parser, x.events, TRUE)
     ELSE Pass([inCall |-> FALSE, buf |-> After(buf, at + Len(CloseTag) - 1)],
               x.events \o EmitToolCall(Before(buf, at)), FALSE)

\* _drain_text: the opening tag, if it is there.
TextPass(x) ==
  LET buf  == x.parser.buf
      at   == Find(buf, OpenTag)
      safe == SafeFlushLen(buf, OpenTag)
  IN IF at = 0
     THEN Pass([inCall |-> FALSE, buf |-> After(buf, safe)],
               x.events \o Chunk("text", SubSeq(buf, 1, safe)), TRUE)
     ELSE Pass([inCall |-> TRUE, buf |-> After(buf, at + Len(OpenTag) - 1)],
               x.events \o Chunk("text", Before(buf, at)), FALSE)

\* Back and forth between the two.
DrainText(p) ==
  LET passes[n \in 0 .. Len(p.buf) + 1] ==
        IF n = 0 THEN Pass(p, <<>>, FALSE)
        ELSE LET x == passes[n - 1] IN
             IF x.over THEN x ELSE IF x.parser.inCall THEN ToolPass(x) ELSE TextPass(x)
  IN passes[Len(p.buf) + 1]

FeedToolText(p, text) == DrainText([p EXCEPT !.buf = @ \o text])

\* finalize: held text is text, a call that was never closed is a bad one.
FinalizeToolText(p) ==
  IF p.inCall THEN <<Event("badCall", p.buf)>> ELSE Chunk("text", p.buf)
=============================================================================
