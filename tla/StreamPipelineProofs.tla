------------------------ MODULE StreamPipelineProofs -------------------------
(* Theorems about StreamPipeline, for every set of responses and every     *)
(* bound: the types with the promise of live streaming, the protocol of    *)
(* blocks, and the arguments of native calls.                              *)
EXTENDS StreamPipeline, SequenceTheorems, WellFoundedInduction, TLAPS

-----------------------------------------------------------------------------
(* Lists and positions.                                                    *)

\* A sequence, whatever it holds.
IsList(x) == \E S : x \in Seq(S)

LEMMA ListFacts ==
  ASSUME NEW x, IsList(x)
  PROVE  Len(x) \in Nat /\ DOMAIN x = 1 .. Len(x)
BY LenProperties DEF IsList

LEMMA EmptyIsList ==
  IsList(<<>>) /\ Len(<<>>) = 0 /\ DOMAIN <<>> = {}
<1>1. <<>> \in Seq({}) /\ Len(<<>>) = 0 /\ DOMAIN <<>> = {}
  OBVIOUS
<1>2. QED
  BY <1>1 DEF IsList

\* Two lists over one set.
LEMMA Together ==
  ASSUME NEW a, NEW b, IsList(a), IsList(b)
  PROVE  \E S : a \in Seq(S) /\ b \in Seq(S)
<1>1. PICK A, B : a \in Seq(A) /\ b \in Seq(B)
  BY DEF IsList
<1>2. a \in Seq(A \cup B) /\ b \in Seq(A \cup B)
  BY <1>1, SeqMonotonic
<1>3. QED
  BY <1>2

LEMMA Joins ==
  ASSUME NEW a, NEW b, IsList(a), IsList(b)
  PROVE  /\ IsList(a \o b) /\ Len(a) \in Nat /\ Len(b) \in Nat /\ Len(a \o b) = Len(a) + Len(b)
         /\ \A i \in 1 .. Len(a) + Len(b) :
              (a \o b)[i] = IF i <= Len(a) THEN a[i] ELSE b[i - Len(a)]
<1>1. PICK S : a \in Seq(S) /\ b \in Seq(S)
  BY Together
<1>2. /\ a \o b \in Seq(S) /\ Len(a \o b) = Len(a) + Len(b)
      /\ \A i \in 1 .. Len(a) + Len(b) :
           (a \o b)[i] = IF i <= Len(a) THEN a[i] ELSE b[i - Len(a)]
  BY <1>1, ConcatProperties
<1>3. QED
  BY <1>1, <1>2, ListFacts DEF IsList

LEMMA JoinsEmpty ==
  ASSUME NEW a, IsList(a)
  PROVE  a \o <<>> = a /\ <<>> \o a = a
BY ConcatEmptySeq DEF IsList

LEMMA Grows ==
  ASSUME NEW x, NEW y, IsList(x)
  PROVE  /\ IsList(Append(x, y)) /\ Len(x) \in Nat /\ Len(Append(x, y)) = Len(x) + 1
         /\ DOMAIN x = 1 .. Len(x) /\ DOMAIN Append(x, y) = 1 .. Len(x) + 1
         /\ \A i \in 1 .. Len(x) : Append(x, y)[i] = x[i]
         /\ Append(x, y)[Len(x) + 1] = y
<1>1. PICK S : x \in Seq(S)
  BY DEF IsList
<1>2. x \in Seq(S \cup {y})
  BY <1>1, SeqMonotonic
<1>3. /\ Append(x, y) \in Seq(S \cup {y}) /\ Len(Append(x, y)) = Len(x) + 1
      /\ \A i \in 1 .. Len(x) : Append(x, y)[i] = x[i]
      /\ Append(x, y)[Len(x) + 1] = y
  BY <1>2, AppendProperties
<1>4. DOMAIN x = 1 .. Len(x) /\ Len(x) \in Nat /\ DOMAIN Append(x, y) = 1 .. Len(x) + 1
  BY <1>1, <1>3, LenProperties
<1>5. IsList(Append(x, y))
  BY <1>3 DEF IsList
<1>6. QED
  BY <1>3, <1>4, <1>5

LEMMA Changes ==
  ASSUME NEW x, NEW i, NEW y, IsList(x), i \in DOMAIN x
  PROVE  /\ IsList([x EXCEPT ![i] = y]) /\ Len([x EXCEPT ![i] = y]) = Len(x)
         /\ DOMAIN [x EXCEPT ![i] = y] = DOMAIN x
<1>1. PICK S : x \in Seq(S)
  BY DEF IsList
<1>2. x \in Seq(S \cup {y}) /\ i \in 1 .. Len(x)
  BY <1>1, SeqMonotonic, LenProperties
<1>3. [x EXCEPT ![i] = y] \in Seq(S \cup {y}) /\ Len([x EXCEPT ![i] = y]) = Len(x)
  BY <1>2, ExceptSeq
<1>4. QED
  BY <1>3 DEF IsList

LEMMA Cuts ==
  ASSUME NEW x, IsList(x), NEW m \in Int, NEW n \in Int, 1 <= m, n <= Len(x)
  PROVE  /\ IsList(SubSeq(x, m, n))
         /\ Len(SubSeq(x, m, n)) = IF m <= n THEN n - m + 1 ELSE 0
<1>1. PICK S : x \in Seq(S)
  BY DEF IsList
<1>2. \A i \in m .. n : x[i] \in S
  <2>1. Len(x) \in Nat
    BY <1>1, LenProperties
  <2>2. \A i \in m .. n : i \in 1 .. Len(x)
    BY <2>1
  <2>3. QED
    BY <1>1, <2>2, ElementOfSeq
<1>3. QED
  BY <1>2, SubSeqProperties DEF IsList

\* A set of numbers has a least one.
LEMMA Least ==
  ASSUME NEW T \in SUBSET Nat, T # {}
  PROVE  (CHOOSE i \in T : \A j \in T : i <= j) \in T
<1> DEFINE Less == {ss \in Nat \X Nat : ss[1] < ss[2]}
<1>1. PICK x \in T : \A y \in T : ~(<<y, x>> \in Less)
  <2>1. IsWellFoundedOn(Less, Nat)
    BY NatLessThanWellFounded DEF OpToRel
  <2> HIDE DEF Less
  <2>2. QED
    BY <2>1, WFMin
<1>2. ASSUME NEW y \in T PROVE x <= y
  <2>1. x \in Nat /\ y \in Nat
    OBVIOUS
  <2>2. ~(y < x)
    BY <1>1, <2>1
  <2>3. QED
    BY <2>1, <2>2
<1>3. QED
  BY <1>2

-----------------------------------------------------------------------------
(* Where a parser finds a tag, and what it holds back.                     *)

LEMMA FindFacts ==
  ASSUME NEW buf, IsList(buf), NEW tag, Len(tag) = 3
  PROVE  /\ Find(buf, tag) \in 0 .. Len(buf) /\ Len(buf) \in Nat
         /\ Find(buf, tag) # 0 => Find(buf, tag) + 2 <= Len(buf)
<1> DEFINE at == Places(buf, tag)
<1>1. Len(buf) \in Nat /\ DOMAIN buf = 1 .. Len(buf)
  BY ListFacts
<1>2. at \in SUBSET Nat /\ \A i \in at : i \in 1 .. Len(buf) /\ i + 2 <= Len(buf)
  BY <1>1 DEF Places
<1>3. CASE at = {}
  BY <1>1, <1>3 DEF Find
<1>4. CASE at # {}
  <2>1. Find(buf, tag) \in at
    <3> HIDE DEF at
    <3>1. (CHOOSE i \in at : \A j \in at : i <= j) \in at
      BY <1>2, <1>4, Least
    <3>2. QED
      BY <1>4, <3>1 DEF Find, at
  <2> HIDE DEF at
  <2>2. PICK i \in at : i = Find(buf, tag)
    BY <2>1
  <2>3. i \in 1 .. Len(buf) /\ i + 2 <= Len(buf)
    BY <1>2
  <2>4. QED
    BY <1>1, <2>2, <2>3
<1>5. QED
  BY <1>3, <1>4

LEMMA FoundFacts ==
  ASSUME NEW buf, IsList(buf), NEW tag, Len(tag) = 3, Find(buf, tag) # 0
  PROVE  /\ Find(buf, tag) \in 1 .. Len(buf) /\ Find(buf, tag) + 2 \in 0 .. Len(buf)
         /\ Find(buf, tag) + Len(tag) - 1 = Find(buf, tag) + 2
<1> DEFINE at == Find(buf, tag)
<1>1. at \in 0 .. Len(buf) /\ Len(buf) \in Nat /\ at + 2 <= Len(buf) /\ at # 0
  BY FindFacts
<1> HIDE DEF at
<1>2. at \in 1 .. Len(buf) /\ at + 2 \in 0 .. Len(buf) /\ at + Len(tag) - 1 = at + 2
  BY <1>1
<1>3. QED
  BY <1>2 DEF at

LEMMA Longest ==
  ASSUME NEW K \in SUBSET (0 .. 2), K # {}
  PROVE  (CHOOSE k \in K : \A j \in K : j <= k) \in K
<1>1. \E k \in K : \A j \in K : j <= k
  <2>1. CASE 2 \in K
    BY <2>1
  <2>2. CASE 2 \notin K /\ 1 \in K
    BY <2>2
  <2>3. CASE 2 \notin K /\ 1 \notin K
    <3>1. \A k \in K : k = 0
      BY <2>3
    <3>2. PICK k \in K : TRUE
      OBVIOUS
    <3>3. k = 0
      BY <3>1
    <3>4. 0 \in K
      BY <3>3
    <3>5. \A j \in K : j <= 0
      BY <3>1
    <3>6. QED
      BY <3>4, <3>5
  <2>4. QED
    BY <2>1, <2>2, <2>3
<1>2. QED
  BY <1>1

\* Less than a tag is held back.
LEMMA FlushFacts ==
  ASSUME NEW buf, IsList(buf), NEW tag, Len(tag) = 3
  PROVE  SafeFlushLen(buf, tag) \in 0 .. Len(buf) /\ Len(buf) - SafeFlushLen(buf, tag) <= 2
<1> DEFINE K == Partial(buf, tag)
           k == CHOOSE i \in K : \A j \in K : j <= i
<1>1. Len(buf) \in Nat
  BY ListFacts
<1>2. 0 \in K
  <2>1. SubSeq(buf, Len(buf) - 0 + 1, Len(buf)) = <<>> /\ SubSeq(tag, 1, 0) = <<>>
    BY <1>1, SubSeqEmpty
  <2>2. QED
    BY <1>1, <2>1 DEF Partial
<1>3. K \in SUBSET (0 .. 2) /\ \A i \in K : i <= Len(buf)
  BY DEF Partial
<1>4. k \in K
  <2> HIDE DEF K
  <2>1. QED
    BY <1>2, <1>3, Longest
<1>5. SafeFlushLen(buf, tag) = Len(buf) - k
  BY DEF SafeFlushLen
<1> HIDE DEF k, K
<1>6. QED
  BY <1>1, <1>3, <1>4, <1>5

Think1 == [open |-> <<"<", "think", ">">>, close |-> <<"</", "think", ">">>]
Think2 == [open |-> <<"<", "thought", ">">>, close |-> <<"</", "thought", ">">>]

LEMMA Tags ==
  /\ ThinkingTags = {Think1, Think2}
  /\ \A t \in ThinkingTags : Len(t.open) = 3 /\ Len(t.close) = 3 /\ t.open # NoTag /\ t.close # NoTag
  /\ Len(OpenTag) = 3 /\ Len(CloseTag) = 3
<1>1. ThinkingTags = {Think1, Think2}
  BY DEF ThinkingTags, Think1, Think2
<1>2. /\ Len(Think1.open) = 3 /\ Len(Think1.close) = 3
      /\ Len(Think2.open) = 3 /\ Len(Think2.close) = 3
  BY DEF Think1, Think2
<1>3. Len(NoTag) = 0
  BY DEF NoTag
<1>4. Len(OpenTag) = 3 /\ Len(CloseTag) = 3
  BY DEF OpenTag, CloseTag
<1>5. QED
  BY <1>1, <1>2, <1>3, <1>4

LEMMA FlushAnyFacts ==
  ASSUME NEW buf, IsList(buf)
  PROVE  SafeFlushLenAnyOpen(buf) \in 0 .. Len(buf) /\ Len(buf) - SafeFlushLenAnyOpen(buf) <= 2
<1> DEFINE lens == {SafeFlushLen(buf, t.open) : t \in ThinkingTags}
           n == CHOOSE i \in lens : \A j \in lens : i <= j
<1>1. \A i \in lens : i \in 0 .. Len(buf) /\ Len(buf) - i <= 2
  BY Tags, FlushFacts
<1>2. lens # {} /\ lens \in SUBSET Nat
  <2>1. Think1 \in ThinkingTags
    BY Tags
  <2>2. QED
    BY <1>1, <2>1
<1>3. n \in lens
  <2> HIDE DEF lens
  <2>1. QED
    BY <1>2, Least
<1>4. SafeFlushLenAnyOpen(buf) = n
  BY DEF SafeFlushLenAnyOpen
<1> HIDE DEF n, lens
<1>5. QED
  BY <1>1, <1>3, <1>4

LEMMA EarliestFacts ==
  ASSUME NEW buf, IsList(buf), EarliestOpen(buf).open # NoTag
  PROVE  EarliestOpen(buf) \in ThinkingTags /\ Find(buf, EarliestOpen(buf).open) # 0
<1> DEFINE found == {t \in ThinkingTags : Find(buf, t.open) # 0}
           e == CHOOSE t \in found : \A u \in found : Find(buf, t.open) <= Find(buf, u.open)
<1>1. found # {}
  BY DEF EarliestOpen
<1>2. \A t \in found : t \in {Think1, Think2} /\ Find(buf, t.open) \in Nat
  BY Tags, FindFacts
<1>3. \E t \in found : \A u \in found : Find(buf, t.open) <= Find(buf, u.open)
  <2> HIDE DEF found
  <2>1. CASE Think1 \in found /\ Think2 \in found
    BY <1>2, <2>1
  <2>2. CASE Think1 \notin found
    BY <1>1, <1>2, <2>2
  <2>3. CASE Think2 \notin found
    BY <1>1, <1>2, <2>3
  <2>4. QED
    BY <2>1, <2>2, <2>3
<1>4. e \in found
  <2> HIDE DEF found
  <2>1. QED
    BY <1>3
<1>5. EarliestOpen(buf) = e
  <2>1. EarliestOpen(buf) = IF found = {} THEN [open |-> NoTag, close |-> NoTag] ELSE e
    BY DEF EarliestOpen
  <2> HIDE DEF found, e
  <2>2. QED
    BY <1>1, <2>1
<1> HIDE DEF e
<1>6. QED
  BY <1>4, <1>5

-----------------------------------------------------------------------------
(* The parsers: what they keep, and what they give out.                    *)

EventsOK(events, kinds) ==
  IsList(events) /\ \A i \in DOMAIN events : events[i].kind \in kinds /\ IsList(events[i].body)

ThinkingKinds == {"text", "thinking"}
ToolKinds == {"text", "call", "badCall"}

ThinkingParser(p) ==
  /\ p = [close |-> p.close, buf |-> p.buf] /\ IsList(p.buf)
  /\ p.close # NoTag => Len(p.close) = 3
ThinkingHeld(p) == ThinkingParser(p) /\ Len(p.buf) < 3

ToolParser(p) == p = [inCall |-> p.inCall, buf |-> p.buf] /\ IsList(p.buf) /\ p.inCall \in BOOLEAN
ToolHeld(p) ==
  /\ ToolParser(p) /\ (~p.inCall => Len(p.buf) < 3)
  /\ p.inCall => Find(p.buf, CloseTag) = 0

LEMMA OneEvent ==
  ASSUME NEW kinds, NEW kind \in kinds, NEW body, IsList(body)
  PROVE  EventsOK(<<Event(kind, body)>>, kinds) /\ EventsOK(Chunk(kind, body), kinds)
<1> DEFINE e == Event(kind, body)
<1>1. e.kind = kind /\ e.body = body
  BY DEF Event
<1> HIDE DEF e
<1>2. <<e>> \in Seq({e}) /\ DOMAIN <<e>> = {1} /\ <<e>>[1] = e
  OBVIOUS
<1>3. EventsOK(<<e>>, kinds)
  BY <1>1, <1>2 DEF EventsOK, IsList
<1>4. EventsOK(<<>>, kinds)
  BY EmptyIsList DEF EventsOK
<1>5. QED
  BY <1>3, <1>4 DEF Chunk, e

LEMMA MoreEvents ==
  ASSUME NEW kinds, NEW a, NEW b, EventsOK(a, kinds), EventsOK(b, kinds)
  PROVE  EventsOK(a \o b, kinds)
<1>1. IsList(a) /\ IsList(b)
  BY DEF EventsOK
<1>2. /\ IsList(a \o b) /\ Len(a \o b) = Len(a) + Len(b) /\ Len(a) \in Nat /\ Len(b) \in Nat
      /\ \A i \in 1 .. Len(a) + Len(b) :
           (a \o b)[i] = IF i <= Len(a) THEN a[i] ELSE b[i - Len(a)]
  BY <1>1, Joins
<1>3. DOMAIN (a \o b) = 1 .. Len(a) + Len(b) /\ DOMAIN a = 1 .. Len(a) /\ DOMAIN b = 1 .. Len(b)
  BY <1>1, <1>2, ListFacts
<1>4. ASSUME NEW i \in DOMAIN (a \o b)
      PROVE  (a \o b)[i].kind \in kinds /\ IsList((a \o b)[i].body)
  <2>1. CASE i <= Len(a)
    <3>1. (a \o b)[i] = a[i] /\ i \in DOMAIN a
      BY <1>2, <1>3, <2>1
    <3>2. QED
      BY <3>1 DEF EventsOK
  <2>2. CASE ~(i <= Len(a))
    <3>1. (a \o b)[i] = b[i - Len(a)] /\ i - Len(a) \in DOMAIN b
      BY <1>2, <1>3, <2>2
    <3>2. QED
      BY <3>1 DEF EventsOK
  <2>3. QED
    BY <2>1, <2>2
<1>5. QED
  BY <1>2, <1>4 DEF EventsOK

\* The cuts of a buffer that a pass makes.
LEMMA PassCuts ==
  ASSUME NEW buf, IsList(buf), NEW n \in 0 .. Len(buf)
  PROVE  /\ IsList(After(buf, n)) /\ Len(After(buf, n)) = Len(buf) - n
         /\ IsList(SubSeq(buf, 1, n)) /\ (n # 0 => IsList(Before(buf, n)))
<1>1. Len(buf) \in Nat
  BY ListFacts
<1>2. IsList(SubSeq(buf, n + 1, Len(buf))) /\ Len(SubSeq(buf, n + 1, Len(buf))) = Len(buf) - n
  <2>1. n + 1 \in Int /\ Len(buf) \in Int /\ 1 <= n + 1 /\ Len(buf) <= Len(buf)
    BY <1>1
  <2>2. IsList(SubSeq(buf, n + 1, Len(buf)))
        /\ Len(SubSeq(buf, n + 1, Len(buf)))
             = IF n + 1 <= Len(buf) THEN Len(buf) - (n + 1) + 1 ELSE 0
    BY <2>1, Cuts
  <2>3. QED
    BY <1>1, <2>2
<1>3. IsList(SubSeq(buf, 1, n))
  BY <1>1, Cuts
<1>4. n # 0 => IsList(SubSeq(buf, 1, n - 1))
  <2>1. n - 1 \in Int /\ n - 1 <= Len(buf)
    BY <1>1
  <2>2. QED
    BY <2>1, Cuts
<1>5. QED
  BY <1>2, <1>3, <1>4 DEF After, Before

\* What holds between two passes: n of them have not been enough to empty the buffer, and a
\* drain that is over holds back less than a tag.
Passed(x, n, total, kinds, Parser(_), Held(_)) ==
  /\ x = Pass(x.parser, x.events, x.over) /\ x.over \in BOOLEAN
  /\ Parser(x.parser) /\ EventsOK(x.events, kinds)
  /\ x.over => Held(x.parser)
  /\ ~x.over => Len(x.parser.buf) + n <= total

LEMMA ThinkingPasses ==
  ASSUME NEW x, NEW n \in Nat, NEW total \in Nat,
         Passed(x, n, total, ThinkingKinds, ThinkingParser, ThinkingHeld)
  PROVE  Passed(ThinkingPass(x), n + 1, total, ThinkingKinds, ThinkingParser, ThinkingHeld)
<1>1. CASE x.over
  BY <1>1 DEF Passed, ThinkingPass
<1>2. CASE ~x.over
  <2> DEFINE close == x.parser.close
             buf  == x.parser.buf
             tag  == IF close = NoTag THEN EarliestOpen(buf).open ELSE close
             kind == IF close = NoTag THEN "text" ELSE "thinking"
             at   == IF tag = NoTag THEN 0 ELSE Find(buf, tag)
             safe == IF close = NoTag THEN SafeFlushLenAnyOpen(buf) ELSE SafeFlushLen(buf, close)
             next == IF close = NoTag THEN EarliestOpen(buf).close ELSE NoTag
             last == Pass([close |-> close, buf |-> After(buf, safe)],
                          x.events \o Chunk(kind, SubSeq(buf, 1, safe)), TRUE)
             more == Pass([close |-> next, buf |-> After(buf, at + Len(tag) - 1)],
                          x.events \o Chunk(kind, Before(buf, at)), FALSE)
  <2>1. ThinkingPass(x) = IF at = 0 THEN last ELSE more
    BY <1>2 DEF ThinkingPass
  <2>2. /\ IsList(buf) /\ Len(buf) \in Nat /\ EventsOK(x.events, ThinkingKinds)
        /\ Len(buf) + n <= total /\ kind \in ThinkingKinds
        /\ close # NoTag => Len(close) = 3
    BY <1>2, ListFacts DEF Passed, ThinkingParser, ThinkingKinds
  <2>3. safe \in 0 .. Len(buf) /\ Len(buf) - safe <= 2
    BY <2>2, FlushFacts, FlushAnyFacts
  <2>4. CASE at = 0
    <3> HIDE DEF close, buf, kind, safe
    <3>1. /\ IsList(After(buf, safe)) /\ Len(After(buf, safe)) = Len(buf) - safe
          /\ IsList(SubSeq(buf, 1, safe))
      BY <2>2, <2>3, PassCuts
    <3>2. EventsOK(x.events \o Chunk(kind, SubSeq(buf, 1, safe)), ThinkingKinds)
      BY <2>2, <3>1, OneEvent, MoreEvents
    <3>3. Len(After(buf, safe)) < 3
      BY <2>2, <2>3, <3>1
    <3>4. ThinkingHeld(last.parser) /\ EventsOK(last.events, ThinkingKinds) /\ last.over
          /\ last = Pass(last.parser, last.events, last.over)
      BY <2>2, <3>1, <3>2, <3>3 DEF ThinkingHeld, ThinkingParser, Pass
    <3> HIDE DEF last
    <3>5. QED
      BY <2>1, <2>4, <3>4 DEF Passed, ThinkingHeld
  <2>5. CASE at # 0
    <3>1. tag # NoTag /\ at = Find(buf, tag) /\ Len(tag) = 3 /\ (next # NoTag => Len(next) = 3)
      BY <2>2, <2>5, EarliestFacts, Tags
    <3> HIDE DEF close, buf, tag, kind, next
    <3>2. at \in 1 .. Len(buf) /\ at + 2 \in 0 .. Len(buf) /\ at + Len(tag) - 1 = at + 2
      BY <2>2, <2>5, <3>1, FindFacts
    <3> HIDE DEF at
    <3>3. /\ IsList(After(buf, at + 2)) /\ Len(After(buf, at + 2)) = Len(buf) - (at + 2)
          /\ IsList(Before(buf, at))
      BY <2>2, <2>5, <3>2, PassCuts
    <3>4. EventsOK(x.events \o Chunk(kind, Before(buf, at)), ThinkingKinds)
      BY <2>2, <3>3, OneEvent, MoreEvents
    <3>5. ThinkingParser(more.parser) /\ EventsOK(more.events, ThinkingKinds)
          /\ more = Pass(more.parser, more.events, more.over) /\ more.over = FALSE
          /\ more.parser.buf = After(buf, at + 2)
      BY <3>1, <3>2, <3>3, <3>4 DEF ThinkingParser, Pass
    <3> HIDE DEF more
    <3>6. Len(more.parser.buf) + (n + 1) <= total
      <4>1. Len(more.parser.buf) = Len(buf) - (at + 2)
        BY <3>3, <3>5
      <4>2. QED
        BY <2>2, <3>2, <4>1
    <3>7. QED
      BY <2>1, <2>5, <3>5, <3>6 DEF Passed
  <2>6. QED
    BY <2>4, <2>5
<1>3. QED
  BY <1>1, <1>2 DEF Passed

LEMMA CallEvents ==
  ASSUME NEW body, IsList(body)
  PROVE  EventsOK(EmitToolCall(body), ToolKinds)
<1> DEFINE kind == IF body = <<"json">> THEN "call" ELSE "badCall"
<1>1. kind \in ToolKinds /\ EmitToolCall(body) = <<Event(kind, body)>>
  BY DEF ToolKinds, EmitToolCall
<1> HIDE DEF kind
<1>2. QED
  BY <1>1, OneEvent

\* One pass of DrainText.
EitherPass(x) == IF x.over THEN x ELSE IF x.parser.inCall THEN ToolPass(x) ELSE TextPass(x)

LEMMA ToolPasses ==
  ASSUME NEW x, NEW n \in Nat, NEW total \in Nat,
         Passed(x, n, total, ToolKinds, ToolParser, ToolHeld)
  PROVE  Passed(EitherPass(x), n + 1, total, ToolKinds, ToolParser, ToolHeld)
<1> DEFINE buf == x.parser.buf
<1>1. CASE x.over
  BY <1>1 DEF Passed, EitherPass
<1>2. CASE ~x.over
  <2>1. /\ IsList(buf) /\ Len(buf) \in Nat /\ EventsOK(x.events, ToolKinds)
        /\ Len(buf) + n <= total /\ x.parser.inCall \in BOOLEAN /\ "text" \in ToolKinds
    BY <1>2, ListFacts DEF Passed, ToolParser, ToolKinds
  <2>2. CASE x.parser.inCall
    <3> DEFINE at == Find(buf, CloseTag)
               more == Pass([inCall |-> FALSE, buf |-> After(buf, at + Len(CloseTag) - 1)],
                            x.events \o EmitToolCall(Before(buf, at)), FALSE)
    <3>1. EitherPass(x) = IF at = 0 THEN Pass(x.parser, x.events, TRUE) ELSE more
      BY <1>2, <2>2 DEF EitherPass, ToolPass
    <3>2. CASE at = 0
      <4> DEFINE y == Pass(x.parser, x.events, TRUE)
      <4>1. ToolHeld(x.parser) /\ EventsOK(x.events, ToolKinds)
        BY <2>2, <3>2 DEF Passed, ToolHeld
      <4>2. /\ y.parser = x.parser /\ y.events = x.events /\ y.over = TRUE
            /\ y = Pass(y.parser, y.events, y.over)
        BY DEF Pass
      <4> HIDE DEF y
      <4>3. QED
        BY <3>1, <3>2, <4>1, <4>2 DEF Passed, ToolHeld
    <3>3. CASE at # 0
      <4>1. at \in 1 .. Len(buf) /\ at + 2 \in 0 .. Len(buf) /\ at + Len(CloseTag) - 1 = at + 2
        BY <2>1, <3>3, FoundFacts, Tags
      <4> HIDE DEF at, buf
      <4>2. /\ IsList(After(buf, at + 2)) /\ Len(After(buf, at + 2)) = Len(buf) - (at + 2)
            /\ IsList(Before(buf, at))
        BY <2>1, <3>3, <4>1, PassCuts
      <4>3. EventsOK(x.events \o EmitToolCall(Before(buf, at)), ToolKinds)
        BY <2>1, <4>2, CallEvents, MoreEvents
      <4>4. ToolParser(more.parser) /\ EventsOK(more.events, ToolKinds)
            /\ more = Pass(more.parser, more.events, more.over) /\ more.over = FALSE
            /\ more.parser.buf = After(buf, at + 2)
        BY <4>1, <4>2, <4>3 DEF ToolParser, Pass
      <4> HIDE DEF more
      <4>5. Len(more.parser.buf) + (n + 1) <= total
        <5>1. Len(more.parser.buf) = Len(buf) - (at + 2)
          BY <4>2, <4>4
        <5>2. QED
          BY <2>1, <4>1, <5>1
      <4>6. QED
        BY <3>1, <3>3, <4>4, <4>5 DEF Passed
    <3>4. QED
      BY <3>2, <3>3
  <2>3. CASE ~x.parser.inCall
    <3> DEFINE at == Find(buf, OpenTag)
               safe == SafeFlushLen(buf, OpenTag)
               last == Pass([inCall |-> FALSE, buf |-> After(buf, safe)],
                            x.events \o Chunk("text", SubSeq(buf, 1, safe)), TRUE)
               more == Pass([inCall |-> TRUE, buf |-> After(buf, at + Len(OpenTag) - 1)],
                            x.events \o Chunk("text", Before(buf, at)), FALSE)
    <3>1. EitherPass(x) = IF at = 0 THEN last ELSE more
      BY <1>2, <2>3 DEF EitherPass, TextPass
    <3>2. CASE at = 0
      <4>1. safe \in 0 .. Len(buf) /\ Len(buf) - safe <= 2
        BY <2>1, FlushFacts, Tags
      <4> HIDE DEF safe, buf
      <4>2. /\ IsList(After(buf, safe)) /\ Len(After(buf, safe)) = Len(buf) - safe
            /\ IsList(SubSeq(buf, 1, safe))
        BY <2>1, <4>1, PassCuts
      <4>3. EventsOK(x.events \o Chunk("text", SubSeq(buf, 1, safe)), ToolKinds)
        BY <2>1, <4>2, OneEvent, MoreEvents
      <4>4. Len(After(buf, safe)) < 3
        BY <2>1, <4>1, <4>2
      <4>5. ToolHeld(last.parser) /\ EventsOK(last.events, ToolKinds) /\ last.over
            /\ last = Pass(last.parser, last.events, last.over)
        BY <4>2, <4>3, <4>4 DEF ToolHeld, ToolParser, Pass
      <4> HIDE DEF last
      <4>6. QED
        BY <3>1, <3>2, <4>5 DEF Passed, ToolHeld
    <3>3. CASE at # 0
      <4>1. at \in 1 .. Len(buf) /\ at + 2 \in 0 .. Len(buf) /\ at + Len(OpenTag) - 1 = at + 2
        BY <2>1, <3>3, FoundFacts, Tags
      <4> HIDE DEF at, buf
      <4>2. /\ IsList(After(buf, at + 2)) /\ Len(After(buf, at + 2)) = Len(buf) - (at + 2)
            /\ IsList(Before(buf, at))
        BY <2>1, <3>3, <4>1, PassCuts
      <4>3. EventsOK(x.events \o Chunk("text", Before(buf, at)), ToolKinds)
        BY <2>1, <4>2, OneEvent, MoreEvents
      <4>4. ToolParser(more.parser) /\ EventsOK(more.events, ToolKinds)
            /\ more = Pass(more.parser, more.events, more.over) /\ more.over = FALSE
            /\ more.parser.buf = After(buf, at + 2)
        BY <4>1, <4>2, <4>3 DEF ToolParser, Pass
      <4> HIDE DEF more
      <4>5. Len(more.parser.buf) + (n + 1) <= total
        <5>1. Len(more.parser.buf) = Len(buf) - (at + 2)
          BY <4>2, <4>4
        <5>2. QED
          BY <2>1, <4>1, <5>1
      <4>6. QED
        BY <3>1, <3>3, <4>4, <4>5 DEF Passed
    <3>4. QED
      BY <3>2, <3>3
  <2>4. QED
    BY <2>1, <2>2, <2>3
<1>3. QED
  BY <1>1, <1>2 DEF Passed

\* A drain has passes enough: it ends with less than a tag held back.
ThinkingSteps(p) == Len(p.buf) + 1
ThinkingStart(p) == Pass(p, <<>>, FALSE)
ThinkingStep(p, x, n) == ThinkingPass(x)
ThinkingHolds(p, x, n) == Passed(x, n, Len(p.buf), ThinkingKinds, ThinkingParser, ThinkingHeld)
ThinkingDrain == INSTANCE Unfolding
  WITH Steps <- ThinkingSteps, Start <- ThinkingStart, Step <- ThinkingStep, Holds <- ThinkingHolds

LEMMA DrainThinkingFacts ==
  ASSUME NEW p, ThinkingParser(p)
  PROVE  /\ ThinkingHeld(DrainThinking(p).parser)
         /\ EventsOK(DrainThinking(p).events, ThinkingKinds)
<1> DEFINE N == Len(p.buf) + 1
           m == CHOOSE f : f = [n \in 0 .. N |-> IF n = 0 THEN Pass(p, <<>>, FALSE)
                                                 ELSE ThinkingPass(f[n - 1])]
<1>1. Len(p.buf) \in Nat /\ N \in Nat /\ ThinkingSteps(p) = N
  BY ListFacts DEF ThinkingParser, ThinkingSteps
<1>2. m = [n \in 0 .. ThinkingSteps(p) |-> ThinkingDrain!Value(p, m, n)]
  BY <1>1, ThinkingDrain!Exists DEF ThinkingDrain!Value, ThinkingStart, ThinkingStep, ThinkingSteps
<1>3. DrainThinking(p) = m[N]
  BY DEF DrainThinking
<1>4. ThinkingHolds(p, ThinkingStart(p), 0)
  BY <1>1, EmptyIsList DEF ThinkingHolds, ThinkingStart, Passed, EventsOK, Pass
<1>5. \A x, n : n \in 1 .. ThinkingSteps(p) /\ ThinkingHolds(p, x, n - 1)
                  => ThinkingHolds(p, ThinkingStep(p, x, n), n)
  <2> TAKE x, n
  <2> HAVE n \in 1 .. ThinkingSteps(p) /\ ThinkingHolds(p, x, n - 1)
  <2>1. n - 1 \in Nat /\ (n - 1) + 1 = n
    BY <1>1
  <2>2. Passed(x, n - 1, Len(p.buf), ThinkingKinds, ThinkingParser, ThinkingHeld)
    BY DEF ThinkingHolds
  <2>3. Passed(ThinkingPass(x), (n - 1) + 1, Len(p.buf), ThinkingKinds, ThinkingParser, ThinkingHeld)
    BY <1>1, <2>1, <2>2, ThinkingPasses
  <2>4. QED
    BY <2>1, <2>3 DEF ThinkingHolds, ThinkingStep
<1> HIDE DEF m
<1>6. ThinkingHolds(p, m[N], N)
  BY <1>1, <1>2, <1>4, <1>5, ThinkingDrain!Holding
<1>7. Passed(m[N], N, Len(p.buf), ThinkingKinds, ThinkingParser, ThinkingHeld)
  BY <1>6 DEF ThinkingHolds
<1>8. m[N].over
  <2>1. ThinkingParser(m[N].parser) /\ (~m[N].over => Len(m[N].parser.buf) + N <= Len(p.buf))
        /\ m[N].over \in BOOLEAN
    BY <1>7, Zenon DEF Passed
  <2>2. Len(m[N].parser.buf) \in Nat
    BY <2>1, ListFacts DEF ThinkingParser
  <2> HIDE DEF N
  <2>3. ~(Len(m[N].parser.buf) + N <= Len(p.buf))
    <3> DEFINE l == Len(m[N].parser.buf)
    <3>1. l \in Nat /\ N = Len(p.buf) + 1
      BY <2>2 DEF N
    <3> HIDE DEF l
    <3>2. ~(l + N <= Len(p.buf))
      BY <1>1, <3>1
    <3>3. QED
      BY <3>2 DEF l
  <2>4. QED
    BY <2>1, <2>3, Zenon
<1>9. QED
  BY <1>3, <1>7, <1>8 DEF Passed

ToolSteps(p) == Len(p.buf) + 1
ToolStart(p) == Pass(p, <<>>, FALSE)
ToolStep(p, x, n) == EitherPass(x)
ToolHolds(p, x, n) == Passed(x, n, Len(p.buf), ToolKinds, ToolParser, ToolHeld)
ToolDrain == INSTANCE Unfolding
  WITH Steps <- ToolSteps, Start <- ToolStart, Step <- ToolStep, Holds <- ToolHolds

LEMMA DrainTextFacts ==
  ASSUME NEW p, ToolParser(p)
  PROVE  ToolHeld(DrainText(p).parser) /\ EventsOK(DrainText(p).events, ToolKinds)
<1> DEFINE N == Len(p.buf) + 1
           m == CHOOSE f : f = [n \in 0 .. N |->
                  IF n = 0 THEN Pass(p, <<>>, FALSE)
                  ELSE IF f[n - 1].over THEN f[n - 1]
                  ELSE IF f[n - 1].parser.inCall THEN ToolPass(f[n - 1]) ELSE TextPass(f[n - 1])]
<1>1. Len(p.buf) \in Nat /\ N \in Nat /\ ToolSteps(p) = N
  BY ListFacts DEF ToolParser, ToolSteps
<1>2. m = [n \in 0 .. ToolSteps(p) |-> ToolDrain!Value(p, m, n)]
  <2> DEFINE Value(f, n) ==
                  IF n = 0 THEN Pass(p, <<>>, FALSE)
                  ELSE IF f[n - 1].over THEN f[n - 1]
                  ELSE IF f[n - 1].parser.inCall THEN ToolPass(f[n - 1]) ELSE TextPass(f[n - 1])
  <2>1. \E f : f = [n \in 0 .. ToolSteps(p) |-> ToolDrain!Value(p, f, n)]
    BY <1>1, ToolDrain!Exists
  <2>2. ASSUME NEW f, NEW n PROVE ToolDrain!Value(p, f, n) = Value(f, n)
    BY DEF ToolDrain!Value, ToolStart, ToolStep, EitherPass
  <2>3. m = CHOOSE f : f = [n \in 0 .. N |-> Value(f, n)]
    OBVIOUS
  <2> HIDE DEF m, Value
  <2>4. \E f : f = [n \in 0 .. N |-> Value(f, n)]
    BY <1>1, <2>1, <2>2
  <2>5. m = [n \in 0 .. N |-> Value(m, n)]
    BY <2>3, <2>4
  <2>6. QED
    BY <1>1, <2>2, <2>5
<1>3. DrainText(p) = m[N]
  BY DEF DrainText
<1>4. ToolHolds(p, ToolStart(p), 0)
  BY <1>1, EmptyIsList DEF ToolHolds, ToolStart, Passed, EventsOK, Pass
<1>5. \A x, n : n \in 1 .. ToolSteps(p) /\ ToolHolds(p, x, n - 1)
                  => ToolHolds(p, ToolStep(p, x, n), n)
  <2> TAKE x, n
  <2> HAVE n \in 1 .. ToolSteps(p) /\ ToolHolds(p, x, n - 1)
  <2>1. n - 1 \in Nat /\ (n - 1) + 1 = n
    BY <1>1
  <2>2. Passed(x, n - 1, Len(p.buf), ToolKinds, ToolParser, ToolHeld)
    BY DEF ToolHolds
  <2>3. Passed(EitherPass(x), (n - 1) + 1, Len(p.buf), ToolKinds, ToolParser, ToolHeld)
    BY <1>1, <2>1, <2>2, ToolPasses
  <2>4. QED
    BY <2>1, <2>3 DEF ToolHolds, ToolStep
<1> HIDE DEF m
<1>6. ToolHolds(p, m[N], N)
  BY <1>1, <1>2, <1>4, <1>5, ToolDrain!Holding
<1>7. Passed(m[N], N, Len(p.buf), ToolKinds, ToolParser, ToolHeld)
  BY <1>6 DEF ToolHolds
<1>8. m[N].over
  <2>1. ToolParser(m[N].parser) /\ (~m[N].over => Len(m[N].parser.buf) + N <= Len(p.buf))
        /\ m[N].over \in BOOLEAN
    BY <1>7, Zenon DEF Passed
  <2>2. Len(m[N].parser.buf) \in Nat
    BY <2>1, ListFacts DEF ToolParser
  <2> HIDE DEF N
  <2>3. ~(Len(m[N].parser.buf) + N <= Len(p.buf))
    <3> DEFINE l == Len(m[N].parser.buf)
    <3>1. l \in Nat /\ N = Len(p.buf) + 1
      BY <2>2 DEF N
    <3> HIDE DEF l
    <3>2. ~(l + N <= Len(p.buf))
      BY <1>1, <3>1
    <3>3. QED
      BY <3>2 DEF l
  <2>4. QED
    BY <2>1, <2>3, Zenon
<1>9. QED
  BY <1>3, <1>7, <1>8 DEF Passed

LEMMA Feeding ==
  ASSUME NEW p, NEW text, IsList(text)
  PROVE  /\ ThinkingHeld(p) => /\ ThinkingHeld(FeedThinking(p, text).parser)
                               /\ EventsOK(FeedThinking(p, text).events, ThinkingKinds)
         /\ ToolHeld(p) => /\ ToolHeld(FeedToolText(p, text).parser)
                           /\ EventsOK(FeedToolText(p, text).events, ToolKinds)
<1>1. ASSUME ThinkingHeld(p)
      PROVE  /\ ThinkingHeld(FeedThinking(p, text).parser)
             /\ EventsOK(FeedThinking(p, text).events, ThinkingKinds)
  <2> DEFINE q == [p EXCEPT !.buf = @ \o text]
  <2>1. p = [close |-> p.close, buf |-> p.buf] /\ IsList(p.buf) /\ (p.close # NoTag => Len(p.close) = 3)
    BY <1>1 DEF ThinkingHeld, ThinkingParser
  <2>2. IsList(p.buf \o text)
    BY <2>1, Joins
  <2>3. q = [close |-> p.close, buf |-> p.buf \o text]
    <3> DEFINE x == p.buf \o text
    <3> HIDE DEF x
    <3>1. [[close |-> p.close, buf |-> p.buf] EXCEPT !.buf = x] = [close |-> p.close, buf |-> x]
      OBVIOUS
    <3>2. QED
      BY <2>1, <3>1 DEF x
  <2>4. ThinkingParser(q)
    BY <2>1, <2>2, <2>3 DEF ThinkingParser
  <2> HIDE DEF q
  <2>5. QED
    BY <2>4, DrainThinkingFacts DEF FeedThinking, q
<1>2. ASSUME ToolHeld(p)
      PROVE  /\ ToolHeld(FeedToolText(p, text).parser)
             /\ EventsOK(FeedToolText(p, text).events, ToolKinds)
  <2> DEFINE q == [p EXCEPT !.buf = @ \o text]
  <2>1. p = [inCall |-> p.inCall, buf |-> p.buf] /\ IsList(p.buf) /\ p.inCall \in BOOLEAN
    BY <1>2 DEF ToolHeld, ToolParser
  <2>2. IsList(p.buf \o text)
    BY <2>1, Joins
  <2>3. q = [inCall |-> p.inCall, buf |-> p.buf \o text]
    <3> DEFINE x == p.buf \o text
    <3> HIDE DEF x
    <3>1. [[inCall |-> p.inCall, buf |-> p.buf] EXCEPT !.buf = x] = [inCall |-> p.inCall, buf |-> x]
      OBVIOUS
    <3>2. QED
      BY <2>1, <3>1 DEF x
  <2>4. ToolParser(q)
    BY <2>1, <2>2, <2>3 DEF ToolParser
  <2> HIDE DEF q
  <2>5. QED
    BY <2>4, DrainTextFacts DEF FeedToolText, q
<1>3. QED
  BY <1>1, <1>2

LEMMA Finalizing ==
  ASSUME NEW p
  PROVE  /\ ThinkingHeld(p) => EventsOK(FinalizeThinking(p), ThinkingKinds)
         /\ ToolHeld(p) => EventsOK(FinalizeToolText(p), ToolKinds)
<1>1. ASSUME ThinkingHeld(p) PROVE EventsOK(FinalizeThinking(p), ThinkingKinds)
  <2> DEFINE kind == IF p.close = NoTag THEN "text" ELSE "thinking"
  <2>1. IsList(p.buf) /\ kind \in ThinkingKinds /\ FinalizeThinking(p) = Chunk(kind, p.buf)
    BY <1>1 DEF ThinkingHeld, ThinkingParser, ThinkingKinds, FinalizeThinking
  <2> HIDE DEF kind
  <2>2. QED
    BY <2>1, OneEvent
<1>2. ASSUME ToolHeld(p) PROVE EventsOK(FinalizeToolText(p), ToolKinds)
  <2>1. IsList(p.buf) /\ "text" \in ToolKinds /\ "badCall" \in ToolKinds
    BY <1>2 DEF ToolHeld, ToolParser, ToolKinds
  <2>2. QED
    BY <2>1, OneEvent DEF FinalizeToolText
<1>3. QED
  BY <1>1, <1>2

-----------------------------------------------------------------------------
(* What the model writes.                                                  *)

SpelledSteps(words) == Len(words)
SpelledStart(words) == <<>>
SpelledStep(words, x, n) == x \o Symbols(words[n])
SpelledHolds(words, x, n) == IsList(x)
Spelling == INSTANCE Unfolding
  WITH Steps <- SpelledSteps, Start <- SpelledStart, Step <- SpelledStep, Holds <- SpelledHolds

LEMMA SymbolsAreList ==
  ASSUME NEW w
  PROVE  IsList(Symbols(w))
<1>1. ASSUME NEW a, NEW b, NEW c PROVE IsList(<<a, b, c>>)
  <2>1. <<a, b, c>> \in Seq({a, b, c})
    OBVIOUS
  <2>2. QED
    BY <2>1, Zenon DEF IsList
<1>2. ASSUME NEW a PROVE IsList(<<a>>)
  <2>1. <<a>> \in Seq({a})
    OBVIOUS
  <2>2. QED
    BY <2>1, Zenon DEF IsList
<1>3. \/ \E a, b, c : Symbols(w) = <<a, b, c>>
      \/ Symbols(w) = <<w>>
  BY Zenon DEF Symbols, OpenTag, CloseTag
<1>4. QED
  BY <1>1, <1>2, <1>3, Zenon

LEMMA SpelledIsList ==
  ASSUME NEW words, Len(words) \in Nat
  PROVE  IsList(Spelled(words))
<1> DEFINE m == CHOOSE f : f = [n \in 0 .. Len(words) |->
                  IF n = 0 THEN <<>> ELSE f[n - 1] \o Symbols(words[n])]
<1>1. m = [n \in 0 .. SpelledSteps(words) |-> Spelling!Value(words, m, n)]
  <2>1. SpelledSteps(words) \in Nat /\ SpelledSteps(words) = Len(words)
    BY DEF SpelledSteps
  <2> DEFINE Value(f, n) == IF n = 0 THEN <<>> ELSE f[n - 1] \o Symbols(words[n])
  <2>2. \E f : f = [n \in 0 .. SpelledSteps(words) |-> Spelling!Value(words, f, n)]
    BY <2>1, Spelling!Exists
  <2>3. ASSUME NEW f, NEW n PROVE Spelling!Value(words, f, n) = Value(f, n)
    BY DEF Spelling!Value, SpelledStart, SpelledStep
  <2>4. m = CHOOSE f : f = [n \in 0 .. Len(words) |-> Value(f, n)]
    OBVIOUS
  <2> HIDE DEF m, Value
  <2>5. \E f : f = [n \in 0 .. Len(words) |-> Value(f, n)]
    BY <2>1, <2>2, <2>3
  <2>6. m = [n \in 0 .. Len(words) |-> Value(m, n)]
    BY <2>4, <2>5
  <2>7. QED
    BY <2>1, <2>3, <2>6
<1>2. Spelled(words) = m[Len(words)]
  BY DEF Spelled
<1> HIDE DEF m
<1>3. SpelledHolds(words, SpelledStart(words), 0)
  BY EmptyIsList DEF SpelledHolds, SpelledStart
<1>4. \A x, n : n \in 1 .. SpelledSteps(words) /\ SpelledHolds(words, x, n - 1)
                  => SpelledHolds(words, SpelledStep(words, x, n), n)
  BY Joins, SymbolsAreList DEF SpelledHolds, SpelledStep
<1>5. SpelledHolds(words, m[SpelledSteps(words)], SpelledSteps(words))
  BY <1>1, <1>3, <1>4, Spelling!Holding DEF SpelledSteps
<1>6. QED
  BY <1>2, <1>5 DEF SpelledHolds, SpelledSteps

LEMMA PiecesAreLists ==
  ASSUME setup \in Setups, pos \in Nat, NEW k \in Nat, pos + k <= Len(Text)
  PROVE  IsList(Text) /\ Len(Text) \in Nat /\ IsList(Piece(k))
<1>1. IsList(Text)
  <2>1. setup.words \in Seq(STRING)
    BY StreamAssumption
  <2>2. Len(setup.words) \in Nat
    BY <2>1, LenProperties
  <2>3. QED
    BY <2>2, SpelledIsList DEF Text
<1>2. Len(Text) \in Nat
  BY <1>1, ListFacts
<1>3. pos + 1 \in Int /\ pos + k \in Int /\ 1 <= pos + 1
  OBVIOUS
<1>4. QED
  BY <1>1, <1>2, <1>3, Cuts DEF Piece

-----------------------------------------------------------------------------
(* The state of an adapter and the blocks it has emitted.                  *)

State(b, x, h, a, p, q) ==
  [blocks |-> b, text |-> x, think |-> h, astray |-> a, thinking |-> p, tool |-> q]
Block(kind, body, open) == [kind |-> kind, body |-> body, open |-> open]

BlocksOK(b) ==
  /\ IsList(b)
  /\ \A i \in DOMAIN b : b[i] = Block(b[i].kind, b[i].body, b[i].open) /\ b[i].open \in BOOLEAN

Shape(t) ==
  /\ t = State(t.blocks, t.text, t.think, t.astray, t.thinking, t.tool) /\ t.astray = FALSE
  /\ BlocksOK(t.blocks)
  /\ t.text \in 0 .. Len(t.blocks) /\ t.think \in 0 .. Len(t.blocks)
  /\ ThinkingHeld(t.thinking) /\ ToolHeld(t.tool)

LEMMA StateFields ==
  ASSUME NEW t, NEW b, NEW x, NEW h, NEW a, NEW p, NEW q, t = State(b, x, h, a, p, q)
  PROVE  /\ t.blocks = b /\ t.text = x /\ t.think = h /\ t.astray = a
         /\ t.thinking = p /\ t.tool = q
BY DEF State

LEMMA BlockFields ==
  ASSUME NEW c, NEW kind, NEW body, NEW open, c = Block(kind, body, open)
  PROVE  c.kind = kind /\ c.body = body /\ c.open = open /\ c = Block(c.kind, c.body, c.open)
<1>1. c.kind = kind /\ c.body = body /\ c.open = open
  BY DEF Block
<1>2. QED
  BY <1>1

LEMMA BlockChanges ==
  ASSUME NEW c, c = Block(c.kind, c.body, c.open), NEW y
  PROVE  /\ [c EXCEPT !.body = y] = Block(c.kind, y, c.open)
         /\ [c EXCEPT !.open = y] = Block(c.kind, c.body, y)
BY DEF Block

\* t with other blocks.
LEMMA OtherBlocks ==
  ASSUME NEW t, Shape(t), NEW b, BlocksOK(b), Len(t.blocks) <= Len(b)
  PROVE  LET u == [t EXCEPT !.blocks = b] IN
         /\ Shape(u) /\ u.blocks = b /\ u.text = t.text /\ u.think = t.think
         /\ u.thinking = t.thinking /\ u.tool = t.tool
<1> DEFINE u == [t EXCEPT !.blocks = b]
<1>1. t = State(t.blocks, t.text, t.think, t.astray, t.thinking, t.tool) /\ t.astray = FALSE
  BY DEF Shape
<1>2. [State(t.blocks, t.text, t.think, t.astray, t.thinking, t.tool) EXCEPT !.blocks = b]
        = State(b, t.text, t.think, t.astray, t.thinking, t.tool)
  BY DEF State
<1>3. u = State(b, t.text, t.think, t.astray, t.thinking, t.tool)
  BY <1>1, <1>2
<1> HIDE DEF u
<1>4. /\ u.blocks = b /\ u.text = t.text /\ u.think = t.think /\ u.astray = t.astray
      /\ u.thinking = t.thinking /\ u.tool = t.tool
  BY <1>3, StateFields
<1>5. Len(t.blocks) \in Nat /\ Len(b) \in Nat
  BY ListFacts DEF Shape, BlocksOK
<1>6. u.text \in 0 .. Len(b) /\ u.think \in 0 .. Len(b)
  BY <1>4, <1>5 DEF Shape
<1>7. Shape(u)
  BY <1>1, <1>3, <1>4, <1>6 DEF Shape
<1>8. QED
  BY <1>4, <1>7 DEF u

LEMMA Started ==
  ASSUME NEW t, Shape(t), NEW kind
  PROVE  LET u == BlockStart(t, kind)
             n == Len(t.blocks) + 1
         IN /\ Shape(u) /\ u.text = t.text /\ u.think = t.think
            /\ u.thinking = t.thinking /\ u.tool = t.tool
            /\ n \in Nat /\ Len(u.blocks) = n
            /\ DOMAIN t.blocks = 1 .. Len(t.blocks) /\ DOMAIN u.blocks = 1 .. n
            /\ \A i \in DOMAIN t.blocks : u.blocks[i] = t.blocks[i]
            /\ u.blocks[n] = Block(kind, <<>>, TRUE)
<1> DEFINE c == Block(kind, <<>>, TRUE)
           b == Append(t.blocks, c)
           n == Len(t.blocks) + 1
<1>1. BlockStart(t, kind) = [t EXCEPT !.blocks = b]
  BY DEF BlockStart, Block
<1>2. BlocksOK(t.blocks)
  BY DEF Shape
<1> HIDE DEF c
<1>3. c = Block(c.kind, c.body, c.open) /\ c.open \in BOOLEAN
  <2> DEFINE open == TRUE
  <2>1. c = Block(kind, <<>>, open) /\ open \in BOOLEAN
    BY DEF c
  <2> HIDE DEF open
  <2>2. QED
    BY <2>1, BlockFields
<1>4. /\ IsList(b) /\ Len(t.blocks) \in Nat /\ Len(b) = n
      /\ DOMAIN t.blocks = 1 .. Len(t.blocks) /\ DOMAIN b = 1 .. n
      /\ \A i \in 1 .. Len(t.blocks) : b[i] = t.blocks[i]
      /\ b[n] = c
  BY <1>2, Grows DEF BlocksOK
<1> HIDE DEF b
<1>5. BlocksOK(b)
  <2>1. ASSUME NEW i \in DOMAIN b
        PROVE  b[i] = Block(b[i].kind, b[i].body, b[i].open) /\ b[i].open \in BOOLEAN
    <3>1. CASE i = n
      BY <1>3, <1>4, <3>1
    <3>2. CASE i # n
      <4>1. i \in 1 .. Len(t.blocks) /\ b[i] = t.blocks[i]
        BY <1>4, <3>2
      <4>2. QED
        BY <1>2, <1>4, <4>1 DEF BlocksOK
    <3>3. QED
      BY <3>1, <3>2
  <2>2. QED
    BY <1>4, <2>1 DEF BlocksOK
<1>6. Len(t.blocks) <= Len(b)
  BY <1>4
<1> DEFINE u == BlockStart(t, kind)
<1>7. /\ Shape(u) /\ u.blocks = b /\ u.text = t.text /\ u.think = t.think
      /\ u.thinking = t.thinking /\ u.tool = t.tool
  BY <1>1, <1>5, <1>6, OtherBlocks
<1> HIDE DEF u
<1>8. /\ n \in Nat /\ Len(u.blocks) = n
      /\ DOMAIN t.blocks = 1 .. Len(t.blocks) /\ DOMAIN u.blocks = 1 .. n
      /\ \A i \in DOMAIN t.blocks : u.blocks[i] = t.blocks[i]
      /\ u.blocks[n] = c
  BY <1>4, <1>7
<1>9. QED
  BY <1>7, <1>8 DEF u, c

\* u is t with the block c in place of block i.
Swapped(t, u, i, c) ==
  /\ Shape(u) /\ u.text = t.text /\ u.think = t.think
  /\ u.thinking = t.thinking /\ u.tool = t.tool
  /\ Len(u.blocks) = Len(t.blocks) /\ DOMAIN u.blocks = DOMAIN t.blocks
  /\ \A j \in DOMAIN t.blocks : j # i => u.blocks[j] = t.blocks[j]
  /\ u.blocks[i] = c

LEMMA Replaced ==
  ASSUME NEW t, Shape(t), NEW i \in DOMAIN t.blocks, NEW kind, NEW body, NEW open \in BOOLEAN
  PROVE  Swapped(t, [t EXCEPT !.blocks = [t.blocks EXCEPT ![i] = Block(kind, body, open)]],
                 i, Block(kind, body, open))
<1> DEFINE c == Block(kind, body, open)
           b == [t.blocks EXCEPT ![i] = c]
<1>1. BlocksOK(t.blocks) /\ IsList(t.blocks)
  BY DEF Shape, BlocksOK
<1> HIDE DEF c
<1>2. c = Block(c.kind, c.body, c.open) /\ c.open \in BOOLEAN
  BY BlockFields DEF c
<1>3. /\ IsList(b) /\ Len(b) = Len(t.blocks) /\ DOMAIN b = DOMAIN t.blocks
      /\ b[i] = c /\ \A j \in DOMAIN t.blocks : j # i => b[j] = t.blocks[j]
  BY <1>1, Changes
<1> HIDE DEF b
<1>4. BlocksOK(b)
  BY <1>1, <1>2, <1>3 DEF BlocksOK
<1>5. Len(t.blocks) <= Len(b)
  BY <1>1, <1>3, ListFacts
<1> DEFINE u == [t EXCEPT !.blocks = b]
<1>6. /\ Shape(u) /\ u.blocks = b /\ u.text = t.text /\ u.think = t.think
      /\ u.thinking = t.thinking /\ u.tool = t.tool
  BY <1>4, <1>5, OtherBlocks
<1> HIDE DEF u
<1>7. Swapped(t, u, i, c)
  BY <1>3, <1>6 DEF Swapped
<1>8. QED
  BY <1>7 DEF u, b, c

LEMMA Extended ==
  ASSUME NEW t, Shape(t), NEW i \in DOMAIN t.blocks, t.blocks[i].open, NEW body
  PROVE  Swapped(t, BlockDelta(t, i, body), i,
                 Block(t.blocks[i].kind, t.blocks[i].body \o body, TRUE))
<1> DEFINE c == t.blocks[i]
           y == c.body \o body
<1>1. c = Block(c.kind, c.body, c.open) /\ c.open = TRUE
  BY DEF Shape, BlocksOK
<1>2. BlockDelta(t, i, body)
        = [t EXCEPT !.blocks = [t.blocks EXCEPT ![i] = [t.blocks[i] EXCEPT !.body = y]]]
  BY <1>1 DEF BlockDelta
<1> HIDE DEF y
<1>3. [c EXCEPT !.body = y] = Block(c.kind, y, TRUE)
  <2> HIDE DEF c
  <2>1. QED
    BY <1>1, BlockChanges
<1>4. BlockDelta(t, i, body)
        = [t EXCEPT !.blocks = [t.blocks EXCEPT ![i] = Block(c.kind, y, TRUE)]]
  BY <1>1, <1>2, <1>3
<1>5. TRUE \in BOOLEAN
  OBVIOUS
<1>6. Swapped(t, [t EXCEPT !.blocks = [t.blocks EXCEPT ![i] = Block(c.kind, y, TRUE)]],
              i, Block(c.kind, y, TRUE))
  BY <1>5, Replaced
<1>7. QED
  BY <1>4, <1>6 DEF y

LEMMA Stopped ==
  ASSUME NEW t, Shape(t), NEW i \in DOMAIN t.blocks, t.blocks[i].open
  PROVE  Swapped(t, BlockStop(t, i), i, Block(t.blocks[i].kind, t.blocks[i].body, FALSE))
<1> DEFINE c == t.blocks[i]
<1>1. c = Block(c.kind, c.body, c.open) /\ c.open = TRUE
  BY DEF Shape, BlocksOK
<1>2. BlockStop(t, i)
        = [t EXCEPT !.blocks = [t.blocks EXCEPT ![i] = [t.blocks[i] EXCEPT !.open = FALSE]]]
  BY <1>1 DEF BlockStop
<1>3. [c EXCEPT !.open = FALSE] = Block(c.kind, c.body, FALSE)
  <2> HIDE DEF c
  <2>1. QED
    BY <1>1, BlockChanges
<1>4. BlockStop(t, i)
        = [t EXCEPT !.blocks = [t.blocks EXCEPT ![i] = Block(c.kind, c.body, FALSE)]]
  BY <1>1, <1>2, <1>3
<1>5. FALSE \in BOOLEAN
  OBVIOUS
<1>6. Swapped(t, [t EXCEPT !.blocks = [t.blocks EXCEPT ![i] = Block(c.kind, c.body, FALSE)]],
              i, Block(c.kind, c.body, FALSE))
  BY <1>5, Replaced
<1>7. QED
  BY <1>4, <1>6

\* t with another of its other fields.
LEMMA OtherText ==
  ASSUME NEW t, Shape(t), NEW x, x \in 0 .. Len(t.blocks)
  PROVE  LET u == [t EXCEPT !.text = x] IN
         /\ Shape(u) /\ u.text = x
         /\ u.blocks = t.blocks /\ u.think = t.think /\ u.thinking = t.thinking /\ u.tool = t.tool
<1> DEFINE u == [t EXCEPT !.text = x]
<1>1. t = State(t.blocks, t.text, t.think, t.astray, t.thinking, t.tool) /\ t.astray = FALSE
  BY DEF Shape
<1>2. [State(t.blocks, t.text, t.think, t.astray, t.thinking, t.tool) EXCEPT !.text = x]
        = State(t.blocks, x, t.think, t.astray, t.thinking, t.tool)
  BY DEF State
<1>3. u = State(t.blocks, x, t.think, t.astray, t.thinking, t.tool)
  BY <1>1, <1>2
<1> HIDE DEF u
<1>4. u.text = x /\ u.astray = t.astray /\ u.blocks = t.blocks /\ u.think = t.think /\ u.thinking = t.thinking /\ u.tool = t.tool
  BY <1>3, StateFields
<1>5. Shape(u)
  BY <1>1, <1>3, <1>4 DEF Shape
<1>6. QED
  BY <1>4, <1>5 DEF u

LEMMA OtherThink ==
  ASSUME NEW t, Shape(t), NEW x, x \in 0 .. Len(t.blocks)
  PROVE  LET u == [t EXCEPT !.think = x] IN
         /\ Shape(u) /\ u.think = x
         /\ u.blocks = t.blocks /\ u.text = t.text /\ u.thinking = t.thinking /\ u.tool = t.tool
<1> DEFINE u == [t EXCEPT !.think = x]
<1>1. t = State(t.blocks, t.text, t.think, t.astray, t.thinking, t.tool) /\ t.astray = FALSE
  BY DEF Shape
<1>2. [State(t.blocks, t.text, t.think, t.astray, t.thinking, t.tool) EXCEPT !.think = x]
        = State(t.blocks, t.text, x, t.astray, t.thinking, t.tool)
  BY DEF State
<1>3. u = State(t.blocks, t.text, x, t.astray, t.thinking, t.tool)
  BY <1>1, <1>2
<1> HIDE DEF u
<1>4. u.think = x /\ u.astray = t.astray /\ u.blocks = t.blocks /\ u.text = t.text /\ u.thinking = t.thinking /\ u.tool = t.tool
  BY <1>3, StateFields
<1>5. Shape(u)
  BY <1>1, <1>3, <1>4 DEF Shape
<1>6. QED
  BY <1>4, <1>5 DEF u

LEMMA OtherThinking ==
  ASSUME NEW t, Shape(t), NEW x, ThinkingHeld(x)
  PROVE  LET u == [t EXCEPT !.thinking = x] IN
         /\ Shape(u) /\ u.thinking = x
         /\ u.blocks = t.blocks /\ u.text = t.text /\ u.think = t.think /\ u.tool = t.tool
<1> DEFINE u == [t EXCEPT !.thinking = x]
<1>1. t = State(t.blocks, t.text, t.think, t.astray, t.thinking, t.tool) /\ t.astray = FALSE
  BY DEF Shape
<1>2. [State(t.blocks, t.text, t.think, t.astray, t.thinking, t.tool) EXCEPT !.thinking = x]
        = State(t.blocks, t.text, t.think, t.astray, x, t.tool)
  BY DEF State
<1>3. u = State(t.blocks, t.text, t.think, t.astray, x, t.tool)
  BY <1>1, <1>2
<1> HIDE DEF u
<1>4. u.thinking = x /\ u.astray = t.astray /\ u.blocks = t.blocks /\ u.text = t.text /\ u.think = t.think /\ u.tool = t.tool
  BY <1>3, StateFields
<1>5. Shape(u)
  BY <1>1, <1>3, <1>4 DEF Shape
<1>6. QED
  BY <1>4, <1>5 DEF u

LEMMA OtherTool ==
  ASSUME NEW t, Shape(t), NEW x, ToolHeld(x)
  PROVE  LET u == [t EXCEPT !.tool = x] IN
         /\ Shape(u) /\ u.tool = x
         /\ u.blocks = t.blocks /\ u.text = t.text /\ u.think = t.think /\ u.thinking = t.thinking
<1> DEFINE u == [t EXCEPT !.tool = x]
<1>1. t = State(t.blocks, t.text, t.think, t.astray, t.thinking, t.tool) /\ t.astray = FALSE
  BY DEF Shape
<1>2. [State(t.blocks, t.text, t.think, t.astray, t.thinking, t.tool) EXCEPT !.tool = x]
        = State(t.blocks, t.text, t.think, t.astray, t.thinking, x)
  BY DEF State
<1>3. u = State(t.blocks, t.text, t.think, t.astray, t.thinking, x)
  BY <1>1, <1>2
<1> HIDE DEF u
<1>4. u.tool = x /\ u.astray = t.astray /\ u.blocks = t.blocks /\ u.text = t.text /\ u.think = t.think /\ u.thinking = t.thinking
  BY <1>3, StateFields
<1>5. Shape(u)
  BY <1>1, <1>3, <1>4 DEF Shape
<1>6. QED
  BY <1>4, <1>5 DEF u

-----------------------------------------------------------------------------
(* What the operations on blocks preserve.  N: the blocks of native calls  *)
(* that are open, which neither text nor reasoning closes.                 *)

Holder(t, i, kind) == i \in DOMAIN t.blocks /\ t.blocks[i].open /\ t.blocks[i].kind = kind

Sound(t, N) ==
  /\ t.text # 0 => Holder(t, t.text, "text")
  /\ t.think # 0 => Holder(t, t.think, "thinking")
  /\ \A i \in N : Holder(t, i, "native")
  /\ \A i \in DOMAIN t.blocks : t.blocks[i].open => i \in N \/ i = t.text \/ i = t.think

\* What was emitted is still there, and the arguments of native calls are as they were.
Keeps(t, u) ==
  \A i \in DOMAIN t.blocks :
     /\ i \in DOMAIN u.blocks /\ u.blocks[i].kind = t.blocks[i].kind
     /\ t.blocks[i].kind = "native" => u.blocks[i].body = t.blocks[i].body

Good(t, N) == Shape(t) /\ Sound(t, N)
Turns(t, u, N) == Good(u, N) /\ Keeps(t, u) /\ u.thinking = t.thinking /\ u.tool = t.tool

LEMMA Turning ==
  ASSUME NEW t, NEW u, NEW v, NEW N
  PROVE  /\ Good(t, N) => Turns(t, t, N)
         /\ Turns(t, u, N) /\ Turns(u, v, N) => Turns(t, v, N)
         /\ Keeps(t, u) /\ Keeps(u, v) => Keeps(t, v)
BY DEF Turns, Keeps

LEMMA ClosingText ==
  ASSUME NEW t, NEW N, Good(t, N)
  PROVE  LET u == CloseText(t) IN Turns(t, u, N) /\ u.text = 0 /\ u.think = t.think
<1>1. CASE t.text = 0
  BY <1>1, Turning DEF CloseText
<1>2. CASE t.text # 0
  <2> DEFINE v == BlockStop(t, t.text)
             x == 0
             w == [v EXCEPT !.text = x]
  <2>1. Shape(t) /\ Holder(t, t.text, "text")
    BY <1>2 DEF Good, Sound
  <2>2. Swapped(t, v, t.text, Block(t.blocks[t.text].kind, t.blocks[t.text].body, FALSE))
    BY <2>1, Stopped DEF Holder
  <2>3. CloseText(t) = w
    BY <1>2 DEF CloseText
  <2> HIDE DEF v
  <2>4. /\ v.blocks[t.text].kind = "text" /\ v.blocks[t.text].body = t.blocks[t.text].body
        /\ ~v.blocks[t.text].open
    BY <2>1, <2>2 DEF Holder, Block, Swapped
  <2>5. x \in 0 .. Len(v.blocks)
    BY <2>2, ListFacts DEF Shape, BlocksOK, Swapped
  <2> HIDE DEF x
  <2>6. /\ Shape(w) /\ w.text = x /\ w.blocks = v.blocks /\ w.think = t.think
        /\ w.thinking = t.thinking /\ w.tool = t.tool
    BY <2>2, <2>5, OtherText DEF Swapped
  <2> HIDE DEF w
  <2>7. Keeps(t, w)
    BY <2>1, <2>2, <2>4, <2>6 DEF Keeps, Holder, Swapped
  <2>8. Sound(w, N)
    <3>1. w.think # 0 => Holder(w, w.think, "thinking")
      BY <2>1, <2>2, <2>6 DEF Good, Sound, Holder, Swapped
    <3>2. \A i \in N : Holder(w, i, "native")
      BY <2>1, <2>2, <2>6 DEF Good, Sound, Holder, Swapped
    <3>3. \A i \in DOMAIN w.blocks : w.blocks[i].open => i \in N \/ i = w.think
      BY <2>2, <2>4, <2>6 DEF Good, Sound, Swapped
    <3>4. QED
      BY <2>6, <3>1, <3>2, <3>3 DEF Sound, x
  <2>9. QED
    BY <2>3, <2>6, <2>7, <2>8 DEF Turns, Good, x
<1>3. QED
  BY <1>1, <1>2

LEMMA ClosingThinking ==
  ASSUME NEW t, NEW N, Good(t, N)
  PROVE  LET u == CloseThinking(t) IN Turns(t, u, N) /\ u.think = 0 /\ u.text = t.text
<1>1. CASE t.think = 0
  BY <1>1, Turning DEF CloseThinking
<1>2. CASE t.think # 0
  <2> DEFINE v == BlockStop(t, t.think)
             x == 0
             w == [v EXCEPT !.think = x]
  <2>1. Shape(t) /\ Holder(t, t.think, "thinking")
    BY <1>2 DEF Good, Sound
  <2>2. Swapped(t, v, t.think, Block(t.blocks[t.think].kind, t.blocks[t.think].body, FALSE))
    BY <2>1, Stopped DEF Holder
  <2>3. CloseThinking(t) = w
    BY <1>2 DEF CloseThinking
  <2> HIDE DEF v
  <2>4. /\ v.blocks[t.think].kind = "thinking" /\ v.blocks[t.think].body = t.blocks[t.think].body
        /\ ~v.blocks[t.think].open
    BY <2>1, <2>2 DEF Holder, Block, Swapped
  <2>5. x \in 0 .. Len(v.blocks)
    BY <2>2, ListFacts DEF Shape, BlocksOK, Swapped
  <2> HIDE DEF x
  <2>6. /\ Shape(w) /\ w.think = x /\ w.blocks = v.blocks /\ w.text = t.text
        /\ w.thinking = t.thinking /\ w.tool = t.tool
    BY <2>2, <2>5, OtherThink DEF Swapped
  <2> HIDE DEF w
  <2>7. Keeps(t, w)
    BY <2>1, <2>2, <2>4, <2>6 DEF Keeps, Holder, Swapped
  <2>8. Sound(w, N)
    <3>1. w.text # 0 => Holder(w, w.text, "text")
      BY <2>1, <2>2, <2>6 DEF Good, Sound, Holder, Swapped
    <3>2. \A i \in N : Holder(w, i, "native")
      BY <2>1, <2>2, <2>6 DEF Good, Sound, Holder, Swapped
    <3>3. \A i \in DOMAIN w.blocks : w.blocks[i].open => i \in N \/ i = w.text
      BY <2>2, <2>4, <2>6 DEF Good, Sound, Swapped
    <3>4. QED
      BY <2>6, <3>1, <3>2, <3>3 DEF Sound, x
  <2>9. QED
    BY <2>3, <2>6, <2>7, <2>8 DEF Turns, Good, x
<1>3. QED
  BY <1>1, <1>2

\* u is t with more in block i.
Fed(t, u, N, i, body) ==
  /\ Good(u, N) /\ u.thinking = t.thinking /\ u.tool = t.tool
  /\ DOMAIN u.blocks = DOMAIN t.blocks
  /\ \A j \in DOMAIN t.blocks : u.blocks[j].kind = t.blocks[j].kind
  /\ \A j \in DOMAIN t.blocks : j # i => u.blocks[j].body = t.blocks[j].body
  /\ u.blocks[i].body = t.blocks[i].body \o body

LEMMA Extending ==
  ASSUME NEW t, NEW N, Good(t, N), NEW i \in DOMAIN t.blocks, t.blocks[i].open, NEW body
  PROVE  Fed(t, BlockDelta(t, i, body), N, i, body)
<1> DEFINE u == BlockDelta(t, i, body)
<1>1. Shape(t)
  BY DEF Good
<1>2. Swapped(t, u, i, Block(t.blocks[i].kind, t.blocks[i].body \o body, TRUE))
  BY <1>1, Extended
<1> HIDE DEF u
<1>3. /\ u.blocks[i].kind = t.blocks[i].kind /\ u.blocks[i].open
      /\ u.blocks[i].body = t.blocks[i].body \o body
  BY <1>2 DEF Block, Swapped
<1>4. \A j \in DOMAIN t.blocks : /\ u.blocks[j].kind = t.blocks[j].kind
                                 /\ u.blocks[j].open <=> t.blocks[j].open
  BY <1>2, <1>3, Zenon DEF Swapped
<1>5. Sound(u, N)
  BY <1>2, <1>4 DEF Good, Sound, Holder, Swapped
<1>6. Good(u, N)
  BY <1>2, <1>5 DEF Good, Swapped
<1>7. Fed(t, u, N, i, body)
  BY <1>2, <1>3, <1>4, <1>6 DEF Swapped, Fed
<1>8. QED
  BY <1>7 DEF u

\* One for a block that is no native call.
LEMMA Showing ==
  ASSUME NEW t, NEW N, Good(t, N), NEW i, NEW kind, Holder(t, i, kind), kind # "native", NEW body
  PROVE  Turns(t, BlockDelta(t, i, body), N)
<1> DEFINE u == BlockDelta(t, i, body)
<1>1. i \in DOMAIN t.blocks /\ t.blocks[i].open /\ t.blocks[i].kind # "native"
  BY DEF Holder
<1>2. Fed(t, u, N, i, body)
  BY <1>1, Extending
<1> HIDE DEF u
<1>3. Keeps(t, u)
  BY <1>1, <1>2 DEF Fed, Keeps
<1>4. Turns(t, u, N)
  BY <1>2, <1>3 DEF Fed, Turns
<1>5. QED
  BY <1>4 DEF u

LEMMA AddingText ==
  ASSUME NEW t, NEW N, Good(t, N), NEW body
  PROVE  Turns(t, AddText(t, body), N)
<1> DEFINE n == Len(t.blocks) + 1
           v == BlockStart(t, "text")
           o == IF t.text # 0 THEN t ELSE [v EXCEPT !.text = n]
<1>1. Turns(t, o, N) /\ Holder(o, o.text, "text")
  <2>1. CASE t.text # 0
    BY <2>1, Turning DEF Good, Sound
  <2>2. CASE t.text = 0
    <3> DEFINE w == [v EXCEPT !.text = n]
    <3>1. /\ Shape(v) /\ v.text = t.text /\ v.think = t.think
          /\ v.thinking = t.thinking /\ v.tool = t.tool
          /\ n \in Nat /\ Len(v.blocks) = n
          /\ DOMAIN t.blocks = 1 .. Len(t.blocks) /\ DOMAIN v.blocks = 1 .. n
          /\ \A i \in DOMAIN t.blocks : v.blocks[i] = t.blocks[i]
          /\ v.blocks[n] = Block("text", <<>>, TRUE)
      BY Started DEF Good
    <3>2. Len(t.blocks) \in Nat
      BY ListFacts DEF Good, Shape, BlocksOK
    <3>3. n \in DOMAIN v.blocks /\ \A i \in DOMAIN v.blocks : i = n \/ i \in DOMAIN t.blocks
      BY <3>1, <3>2
    <3>4. \A i \in DOMAIN t.blocks : i \in DOMAIN v.blocks
      BY <3>1, <3>2
    <3>5. n \in 0 .. Len(v.blocks) /\ n # 0
      BY <3>1, <3>2
    <3> HIDE DEF v, n
    <3>6. v.blocks[n].kind = "text" /\ v.blocks[n].open
      BY <3>1 DEF Block
    <3>7. /\ Shape(w) /\ w.text = n /\ w.blocks = v.blocks /\ w.think = t.think
          /\ w.thinking = t.thinking /\ w.tool = t.tool
      BY <3>1, <3>5, OtherText
    <3> HIDE DEF w
    <3>8. Keeps(t, w)
      BY <3>1, <3>4, <3>7 DEF Keeps
    <3>9. Sound(w, N)
      <4>1. Holder(w, w.text, "text")
        BY <3>3, <3>6, <3>7 DEF Holder
      <4>2. w.think # 0 => Holder(w, w.think, "thinking")
        BY <3>1, <3>4, <3>7 DEF Good, Sound, Holder
      <4>3. \A i \in N : Holder(w, i, "native")
        BY <3>1, <3>4, <3>7 DEF Good, Sound, Holder
      <4>4. \A i \in DOMAIN w.blocks : w.blocks[i].open => i \in N \/ i = w.text \/ i = w.think
        <5> TAKE i \in DOMAIN w.blocks
        <5>1. CASE i = n
          BY <3>7, <5>1
        <5>2. CASE i \in DOMAIN t.blocks
          <6>1. i # 0
            BY <3>1, <3>2, <5>2
          <6>2. QED
            BY <2>2, <3>1, <3>7, <5>2, <6>1 DEF Good, Sound
        <5>3. QED
          BY <3>3, <3>7, <5>1, <5>2
      <4>5. QED
        BY <4>1, <4>2, <4>3, <4>4 DEF Sound
    <3>10. Holder(w, w.text, "text")
      BY <3>3, <3>6, <3>7 DEF Holder
    <3>11. QED
      BY <2>2, <3>7, <3>8, <3>9, <3>10 DEF Turns, Good, w
  <2>3. QED
    BY <2>1, <2>2
<1>2. AddText(t, body) = BlockDelta(o, o.text, body)
  BY DEF AddText
<1> HIDE DEF o
<1>3. Turns(o, BlockDelta(o, o.text, body), N)
  <2>1. Good(o, N) /\ "text" # "native"
    BY <1>1 DEF Turns
  <2>2. QED
    BY <1>1, <2>1, Showing
<1>4. QED
  BY <1>1, <1>2, <1>3, Turning

LEMMA AddingThinking ==
  ASSUME NEW t, NEW N, Good(t, N), NEW body
  PROVE  Turns(t, AddThinking(t, body), N)
<1> DEFINE n == Len(t.blocks) + 1
           v == BlockStart(t, "thinking")
           o == IF t.think # 0 THEN t ELSE [v EXCEPT !.think = n]
<1>1. Turns(t, o, N) /\ Holder(o, o.think, "thinking")
  <2>1. CASE t.think # 0
    BY <2>1, Turning DEF Good, Sound
  <2>2. CASE t.think = 0
    <3> DEFINE w == [v EXCEPT !.think = n]
    <3>1. /\ Shape(v) /\ v.text = t.text /\ v.think = t.think
          /\ v.thinking = t.thinking /\ v.tool = t.tool
          /\ n \in Nat /\ Len(v.blocks) = n
          /\ DOMAIN t.blocks = 1 .. Len(t.blocks) /\ DOMAIN v.blocks = 1 .. n
          /\ \A i \in DOMAIN t.blocks : v.blocks[i] = t.blocks[i]
          /\ v.blocks[n] = Block("thinking", <<>>, TRUE)
      BY Started DEF Good
    <3>2. Len(t.blocks) \in Nat
      BY ListFacts DEF Good, Shape, BlocksOK
    <3>3. n \in DOMAIN v.blocks /\ \A i \in DOMAIN v.blocks : i = n \/ i \in DOMAIN t.blocks
      BY <3>1, <3>2
    <3>4. \A i \in DOMAIN t.blocks : i \in DOMAIN v.blocks
      BY <3>1, <3>2
    <3>5. n \in 0 .. Len(v.blocks) /\ n # 0
      BY <3>1, <3>2
    <3> HIDE DEF v, n
    <3>6. v.blocks[n].kind = "thinking" /\ v.blocks[n].open
      BY <3>1 DEF Block
    <3>7. /\ Shape(w) /\ w.think = n /\ w.blocks = v.blocks /\ w.text = t.text
          /\ w.thinking = t.thinking /\ w.tool = t.tool
      BY <3>1, <3>5, OtherThink
    <3> HIDE DEF w
    <3>8. Keeps(t, w)
      BY <3>1, <3>4, <3>7 DEF Keeps
    <3>9. Sound(w, N)
      <4>1. Holder(w, w.think, "thinking")
        BY <3>3, <3>6, <3>7 DEF Holder
      <4>2. w.text # 0 => Holder(w, w.text, "text")
        BY <3>1, <3>4, <3>7 DEF Good, Sound, Holder
      <4>3. \A i \in N : Holder(w, i, "native")
        BY <3>1, <3>4, <3>7 DEF Good, Sound, Holder
      <4>4. \A i \in DOMAIN w.blocks : w.blocks[i].open => i \in N \/ i = w.text \/ i = w.think
        <5> TAKE i \in DOMAIN w.blocks
        <5>1. CASE i = n
          BY <3>7, <5>1
        <5>2. CASE i \in DOMAIN t.blocks
          <6>1. i # 0
            BY <3>1, <3>2, <5>2
          <6>2. QED
            BY <2>2, <3>1, <3>7, <5>2, <6>1 DEF Good, Sound
        <5>3. QED
          BY <3>3, <3>7, <5>1, <5>2
      <4>5. QED
        BY <4>1, <4>2, <4>3, <4>4 DEF Sound
    <3>10. Holder(w, w.think, "thinking")
      BY <3>3, <3>6, <3>7 DEF Holder
    <3>11. QED
      BY <2>2, <3>7, <3>8, <3>9, <3>10 DEF Turns, Good, w
  <2>3. QED
    BY <2>1, <2>2
<1>2. AddThinking(t, body) = BlockDelta(o, o.think, body)
  BY DEF AddThinking
<1> HIDE DEF o
<1>3. Turns(o, BlockDelta(o, o.think, body), N)
  <2>1. Good(o, N) /\ "thinking" # "native"
    BY <1>1 DEF Turns
  <2>2. QED
    BY <1>1, <2>1, Showing
<1>4. QED
  BY <1>1, <1>2, <1>3, Turning

\* A call that comes whole is a block of its own.
LEMMA AddingCall ==
  ASSUME NEW t, NEW N, Good(t, N), NEW kind, NEW body, IsList(body)
  PROVE  /\ Turns(t, AddCall(t, kind, body), N)
         /\ Len(t.blocks) + 1 \in DOMAIN AddCall(t, kind, body).blocks
         /\ AddCall(t, kind, body).blocks[Len(t.blocks) + 1].kind = kind
         /\ AddCall(t, kind, body).blocks[Len(t.blocks) + 1].body = body
<1> DEFINE n == Len(t.blocks) + 1
           o == BlockStart(t, kind)
           v == BlockDelta(o, n, body)
           u == BlockStop(v, n)
<1>1. /\ Shape(o) /\ o.text = t.text /\ o.think = t.think
      /\ o.thinking = t.thinking /\ o.tool = t.tool
      /\ n \in Nat /\ Len(o.blocks) = n
      /\ DOMAIN t.blocks = 1 .. Len(t.blocks) /\ DOMAIN o.blocks = 1 .. n
      /\ \A i \in DOMAIN t.blocks : o.blocks[i] = t.blocks[i]
      /\ o.blocks[n] = Block(kind, <<>>, TRUE)
  BY Started DEF Good
<1>2. Len(t.blocks) \in Nat
  BY ListFacts DEF Good, Shape, BlocksOK
<1>3. /\ n \in DOMAIN o.blocks /\ \A i \in DOMAIN o.blocks : i = n \/ i \in DOMAIN t.blocks
      /\ \A i \in DOMAIN t.blocks : i \in DOMAIN o.blocks /\ i # n
  BY <1>1, <1>2
<1>4. AddCall(t, kind, body) = u
  BY <1>1 DEF AddCall
<1> HIDE DEF n, o
<1>5. o.blocks[n].kind = kind /\ o.blocks[n].body = <<>> /\ o.blocks[n].open
  BY <1>1 DEF Block
<1>6. Swapped(o, v, n, Block(kind, body, TRUE))
  <2>1. Swapped(o, v, n, Block(o.blocks[n].kind, o.blocks[n].body \o body, TRUE))
    BY <1>1, <1>3, <1>5, Extended
  <2>2. <<>> \o body = body
    BY JoinsEmpty
  <2>3. QED
    BY <1>5, <2>1, <2>2
<1> HIDE DEF v
<1>7. v.blocks[n].kind = kind /\ v.blocks[n].body = body /\ v.blocks[n].open
  BY <1>6 DEF Block, Swapped
<1>8. Swapped(v, u, n, Block(kind, body, FALSE))
  <2>1. Shape(v) /\ n \in DOMAIN v.blocks
    BY <1>3, <1>6 DEF Swapped
  <2>2. Swapped(v, u, n, Block(v.blocks[n].kind, v.blocks[n].body, FALSE))
    BY <1>7, <2>1, Stopped
  <2>3. QED
    BY <1>7, <2>2
<1> HIDE DEF u
<1>9. u.blocks[n].kind = kind /\ u.blocks[n].body = body /\ ~u.blocks[n].open
  BY <1>8 DEF Block, Swapped
<1>10. /\ Shape(u) /\ u.text = t.text /\ u.think = t.think
       /\ u.thinking = t.thinking /\ u.tool = t.tool /\ DOMAIN u.blocks = DOMAIN o.blocks
  BY <1>1, <1>6, <1>8 DEF Swapped
<1>11. \A i \in DOMAIN t.blocks : u.blocks[i] = t.blocks[i]
  BY <1>1, <1>3, <1>6, <1>8 DEF Swapped
<1>12. Keeps(t, u)
  BY <1>3, <1>10, <1>11 DEF Keeps
<1>13. Sound(u, N)
  <2>1. \A i, k : Holder(t, i, k) => Holder(u, i, k)
    BY <1>3, <1>10, <1>11 DEF Holder
  <2>2. \A i \in DOMAIN u.blocks : u.blocks[i].open => i \in DOMAIN t.blocks
    BY <1>3, <1>9, <1>10
  <2>3. QED
    BY <1>10, <1>11, <2>1, <2>2 DEF Good, Sound
<1>14. QED
  BY <1>3, <1>4, <1>9, <1>10, <1>12, <1>13 DEF Turns, Good, n

\* The block of a native call that stays open.
LEMMA OpeningCall ==
  ASSUME NEW t, NEW N, Good(t, N)
  PROVE  LET u == BlockStart(t, "native")
             n == Len(u.blocks)
         IN /\ Good(u, N \cup {n}) /\ Keeps(t, u) /\ u.thinking = t.thinking /\ u.tool = t.tool
            /\ n \notin DOMAIN t.blocks /\ n \in DOMAIN u.blocks
            /\ u.blocks[n].kind = "native" /\ u.blocks[n].body = <<>> /\ u.blocks[n].open
<1> DEFINE n == Len(t.blocks) + 1
           u == BlockStart(t, "native")
<1>1. /\ Shape(u) /\ u.text = t.text /\ u.think = t.think
      /\ u.thinking = t.thinking /\ u.tool = t.tool
      /\ n \in Nat /\ Len(u.blocks) = n
      /\ DOMAIN t.blocks = 1 .. Len(t.blocks) /\ DOMAIN u.blocks = 1 .. n
      /\ \A i \in DOMAIN t.blocks : u.blocks[i] = t.blocks[i]
      /\ u.blocks[n] = Block("native", <<>>, TRUE)
  BY Started DEF Good
<1>2. Len(t.blocks) \in Nat
  BY ListFacts DEF Good, Shape, BlocksOK
<1>3. /\ n \in DOMAIN u.blocks /\ \A i \in DOMAIN u.blocks : i = n \/ i \in DOMAIN t.blocks
      /\ \A i \in DOMAIN t.blocks : i \in DOMAIN u.blocks
      /\ n \notin DOMAIN t.blocks
  BY <1>1, <1>2
<1> HIDE DEF n, u
<1>4. u.blocks[n].kind = "native" /\ u.blocks[n].body = <<>> /\ u.blocks[n].open
  BY <1>1 DEF Block
<1>5. Keeps(t, u)
  BY <1>1, <1>3 DEF Keeps
<1>6. Sound(u, N \cup {n})
  <2>1. \A i, k : Holder(t, i, k) => Holder(u, i, k)
    BY <1>1, <1>3 DEF Holder
  <2>2. Holder(u, n, "native")
    BY <1>3, <1>4 DEF Holder
  <2>3. \A i \in DOMAIN u.blocks : u.blocks[i].open =>
          i \in N \cup {n} \/ i = u.text \/ i = u.think
    BY <1>1, <1>3 DEF Good, Sound
  <2>4. QED
    BY <1>1, <2>1, <2>2, <2>3 DEF Good, Sound
<1>7. QED
  BY <1>1, <1>3, <1>4, <1>5, <1>6 DEF Good, u

-----------------------------------------------------------------------------
(* The events of the parsers, one after the other.                         *)

LEMMA OpenaiTextTurns ==
  ASSUME NEW t, NEW N, Good(t, N), NEW body
  PROVE  Turns(t, OpenaiText(t, body), N) /\ Turns(t, OpenaiThinking(t, body), N)
<1>1. Turns(t, CloseText(t), N) /\ Turns(t, CloseThinking(t), N)
  BY ClosingText, ClosingThinking
<1>2. /\ Turns(CloseThinking(t), AddText(CloseThinking(t), body), N)
      /\ Turns(CloseText(t), AddThinking(CloseText(t), body), N)
  BY <1>1, AddingText, AddingThinking DEF Turns
<1>3. QED
  BY <1>1, <1>2, Turning DEF OpenaiText, OpenaiThinking

\* Both blocks are closed before a call.
LEMMA ClosingBoth ==
  ASSUME NEW t, NEW N, Good(t, N)
  PROVE  LET u == CloseThinking(CloseText(t)) IN Turns(t, u, N) /\ u.text = 0 /\ u.think = 0
<1>1. Turns(t, CloseText(t), N) /\ CloseText(t).text = 0
  BY ClosingText
<1>2. Good(CloseText(t), N)
  BY <1>1 DEF Turns
<1>3. LET u == CloseThinking(CloseText(t)) IN
      Turns(CloseText(t), u, N) /\ u.think = 0 /\ u.text = CloseText(t).text
  BY <1>2, ClosingThinking
<1>4. QED
  BY <1>1, <1>3, Turning

LEMMA OpenaiEventTurns ==
  ASSUME NEW t, NEW N, Good(t, N), NEW e, e.kind \in ToolKinds, IsList(e.body)
  PROVE  Turns(t, OpenaiParserEvent(t, e), N)
<1>1. CASE e.kind = "text"
  BY <1>1, OpenaiTextTurns DEF OpenaiParserEvent
<1>2. CASE e.kind = "call"
  <2> DEFINE u == CloseThinking(CloseText(t))
  <2>1. Turns(t, u, N)
    BY ClosingBoth
  <2> HIDE DEF u
  <2>2. Turns(u, AddCall(u, "call", e.body), N)
    BY <2>1, AddingCall DEF Turns
  <2>3. OpenaiParserEvent(t, e) = AddCall(u, "call", e.body)
    BY <1>2 DEF OpenaiParserEvent, u
  <2>4. QED
    BY <2>1, <2>2, <2>3, Turning
<1>3. CASE e.kind = "badCall"
  BY <1>3, Turning DEF OpenaiParserEvent
<1>4. QED
  BY <1>1, <1>2, <1>3 DEF ToolKinds

LEMMA OllamaEventTurns ==
  ASSUME NEW t, NEW N, Good(t, N), NEW e, e.kind \in ToolKinds, IsList(e.body)
  PROVE  Turns(t, OllamaParserEvent(t, e), N)
<1>1. CASE e.kind = "text"
  BY <1>1, AddingText DEF OllamaParserEvent
<1>2. CASE e.kind = "call"
  <2> DEFINE u == CloseText(t)
  <2>1. Turns(t, u, N)
    BY ClosingText
  <2> HIDE DEF u
  <2>2. Turns(u, AddCall(u, "call", e.body), N)
    BY <2>1, AddingCall DEF Turns
  <2>3. OllamaParserEvent(t, e) = AddCall(u, "call", e.body)
    BY <1>2 DEF OllamaParserEvent, u
  <2>4. QED
    BY <2>1, <2>2, <2>3, Turning
<1>3. CASE e.kind = "badCall"
  BY <1>3, Turning DEF OllamaParserEvent
<1>4. QED
  BY <1>1, <1>2, <1>3 DEF ToolKinds

\* x: what n of the events have made of t.
EventSteps(c) == Len(c.events)
EventStart(c) == c.t
OpenaiStep(c, x, n) == OpenaiParserEvent(x, c.events[n])
OllamaStep(c, x, n) == OllamaParserEvent(x, c.events[n])
EventHolds(c, x, n) == Turns(c.t, x, c.N)
OpenaiFold == INSTANCE Unfolding
  WITH Steps <- EventSteps, Start <- EventStart, Step <- OpenaiStep, Holds <- EventHolds
OllamaFold == INSTANCE Unfolding
  WITH Steps <- EventSteps, Start <- EventStart, Step <- OllamaStep, Holds <- EventHolds

LEMMA OpenaiEventsTurn ==
  ASSUME NEW t, NEW N, Good(t, N), NEW events, EventsOK(events, ToolKinds)
  PROVE  Turns(t, OpenaiEvents(t, events), N)
<1> DEFINE m == CHOOSE f : f = [n \in 0 .. Len(events) |->
                  IF n = 0 THEN t ELSE OpenaiParserEvent(f[n - 1], events[n])]
           c == [t |-> t, events |-> events, N |-> N]
<1>1. c.t = t /\ c.events = events /\ c.N = N
  OBVIOUS
<1>2. Len(events) \in Nat /\ DOMAIN events = 1 .. Len(events)
  BY ListFacts DEF EventsOK
<1> HIDE DEF c
<1>3. m = [n \in 0 .. EventSteps(c) |-> OpenaiFold!Value(c, m, n)]
  <2>1. EventSteps(c) \in Nat /\ EventSteps(c) = Len(events)
    BY <1>1, <1>2 DEF EventSteps
  <2>2. \E f : f = [n \in 0 .. EventSteps(c) |-> OpenaiFold!Value(c, f, n)]
    BY <2>1, OpenaiFold!Exists
  <2>3. ASSUME NEW f, NEW n
        PROVE  OpenaiFold!Value(c, f, n) = IF n = 0 THEN t ELSE OpenaiParserEvent(f[n - 1], events[n])
    BY <1>1 DEF OpenaiFold!Value, EventStart, OpenaiStep
  <2>4. \E f : f = [n \in 0 .. Len(events) |-> IF n = 0 THEN t ELSE OpenaiParserEvent(f[n - 1], events[n])]
    BY <2>1, <2>2, <2>3
  <2>5. m = [n \in 0 .. Len(events) |-> IF n = 0 THEN t ELSE OpenaiParserEvent(m[n - 1], events[n])]
    BY <2>4
  <2> HIDE DEF m
  <2>6. QED
    BY <2>1, <2>3, <2>5
<1>4. OpenaiEvents(t, events) = m[Len(events)]
  BY DEF OpenaiEvents
<1> HIDE DEF m
<1>5. EventHolds(c, EventStart(c), 0)
  BY <1>1, Turning DEF EventHolds, EventStart
<1>6. \A x, n : n \in 1 .. EventSteps(c) /\ EventHolds(c, x, n - 1) => EventHolds(c, OpenaiStep(c, x, n), n)
  <2> TAKE x, n
  <2> HAVE n \in 1 .. EventSteps(c) /\ EventHolds(c, x, n - 1)
  <2>1. n \in DOMAIN events /\ Turns(t, x, N)
    BY <1>1, <1>2 DEF EventSteps, EventHolds
  <2>2. Turns(x, OpenaiParserEvent(x, events[n]), N)
    BY <2>1, OpenaiEventTurns DEF EventsOK, Turns
  <2>3. Turns(t, OpenaiParserEvent(x, events[n]), N)
    BY <2>1, <2>2, Turning
  <2>4. QED
    BY <1>1, <2>3 DEF EventHolds, OpenaiStep
<1>7. EventHolds(c, m[EventSteps(c)], EventSteps(c))
  BY <1>1, <1>2, <1>3, <1>5, <1>6, OpenaiFold!Holding DEF EventSteps
<1>8. QED
  BY <1>1, <1>4, <1>7 DEF EventHolds, EventSteps

LEMMA OllamaEventsTurn ==
  ASSUME NEW t, NEW N, Good(t, N), NEW events, EventsOK(events, ToolKinds)
  PROVE  Turns(t, OllamaEvents(t, events), N)
<1> DEFINE m == CHOOSE f : f = [n \in 0 .. Len(events) |->
                  IF n = 0 THEN t ELSE OllamaParserEvent(f[n - 1], events[n])]
           c == [t |-> t, events |-> events, N |-> N]
<1>1. c.t = t /\ c.events = events /\ c.N = N
  OBVIOUS
<1>2. Len(events) \in Nat /\ DOMAIN events = 1 .. Len(events)
  BY ListFacts DEF EventsOK
<1> HIDE DEF c
<1>3. m = [n \in 0 .. EventSteps(c) |-> OllamaFold!Value(c, m, n)]
  <2>1. EventSteps(c) \in Nat /\ EventSteps(c) = Len(events)
    BY <1>1, <1>2 DEF EventSteps
  <2>2. \E f : f = [n \in 0 .. EventSteps(c) |-> OllamaFold!Value(c, f, n)]
    BY <2>1, OllamaFold!Exists
  <2>3. ASSUME NEW f, NEW n
        PROVE  OllamaFold!Value(c, f, n) = IF n = 0 THEN t ELSE OllamaParserEvent(f[n - 1], events[n])
    BY <1>1 DEF OllamaFold!Value, EventStart, OllamaStep
  <2>4. \E f : f = [n \in 0 .. Len(events) |-> IF n = 0 THEN t ELSE OllamaParserEvent(f[n - 1], events[n])]
    BY <2>1, <2>2, <2>3
  <2>5. m = [n \in 0 .. Len(events) |-> IF n = 0 THEN t ELSE OllamaParserEvent(m[n - 1], events[n])]
    BY <2>4
  <2> HIDE DEF m
  <2>6. QED
    BY <2>1, <2>3, <2>5
<1>4. OllamaEvents(t, events) = m[Len(events)]
  BY DEF OllamaEvents
<1> HIDE DEF m
<1>5. EventHolds(c, EventStart(c), 0)
  BY <1>1, Turning DEF EventHolds, EventStart
<1>6. \A x, n : n \in 1 .. EventSteps(c) /\ EventHolds(c, x, n - 1) => EventHolds(c, OllamaStep(c, x, n), n)
  <2> TAKE x, n
  <2> HAVE n \in 1 .. EventSteps(c) /\ EventHolds(c, x, n - 1)
  <2>1. n \in DOMAIN events /\ Turns(t, x, N)
    BY <1>1, <1>2 DEF EventSteps, EventHolds
  <2>2. Turns(x, OllamaParserEvent(x, events[n]), N)
    BY <2>1, OllamaEventTurns DEF EventsOK, Turns
  <2>3. Turns(t, OllamaParserEvent(x, events[n]), N)
    BY <2>1, <2>2, Turning
  <2>4. QED
    BY <1>1, <2>3 DEF EventHolds, OllamaStep
<1>7. EventHolds(c, m[EventSteps(c)], EventSteps(c))
  BY <1>1, <1>2, <1>3, <1>5, <1>6, OllamaFold!Holding DEF EventSteps
<1>8. QED
  BY <1>1, <1>4, <1>7 DEF EventHolds, EventSteps

-----------------------------------------------------------------------------
(* What goes through the parsers.                                          *)

Moves(t, u, N) == Good(u, N) /\ Keeps(t, u)

LEMMA Moving ==
  ASSUME NEW t, NEW u, NEW v, NEW N
  PROVE  /\ Good(t, N) => Moves(t, t, N)
         /\ Turns(t, u, N) => Moves(t, u, N)
         /\ Moves(t, u, N) /\ Moves(u, v, N) => Moves(t, v, N)
BY DEF Moves, Turns, Keeps

LEMMA OtherParsers ==
  ASSUME NEW t, NEW N, Good(t, N), NEW p
  PROVE  /\ ThinkingHeld(p) => Moves(t, [t EXCEPT !.thinking = p], N)
         /\ ToolHeld(p) => Moves(t, [t EXCEPT !.tool = p], N)
<1>1. Shape(t)
  BY DEF Good
<1>2. ASSUME ThinkingHeld(p) PROVE Moves(t, [t EXCEPT !.thinking = p], N)
  <2> DEFINE u == [t EXCEPT !.thinking = p]
  <2>1. Shape(u) /\ u.blocks = t.blocks /\ u.text = t.text /\ u.think = t.think
    BY <1>1, <1>2, OtherThinking
  <2> HIDE DEF u
  <2>2. Good(u, N) /\ Keeps(t, u)
    BY <2>1 DEF Good, Sound, Holder, Keeps
  <2>3. QED
    BY <2>2 DEF Moves, u
<1>3. ASSUME ToolHeld(p) PROVE Moves(t, [t EXCEPT !.tool = p], N)
  <2> DEFINE u == [t EXCEPT !.tool = p]
  <2>1. Shape(u) /\ u.blocks = t.blocks /\ u.text = t.text /\ u.think = t.think
    BY <1>1, <1>3, OtherTool
  <2> HIDE DEF u
  <2>2. Good(u, N) /\ Keeps(t, u)
    BY <2>1 DEF Good, Sound, Holder, Keeps
  <2>3. QED
    BY <2>2 DEF Moves, u
<1>4. QED
  BY <1>2, <1>3

LEMMA OpenaiToolTextMoves ==
  ASSUME NEW t, NEW N, Good(t, N), NEW body, IsList(body)
  PROVE  Moves(t, OpenaiToolText(t, body), N)
<1> DEFINE fed == FeedToolText(t.tool, body)
           u == [t EXCEPT !.tool = fed.parser]
<1>1. ToolHeld(fed.parser) /\ EventsOK(fed.events, ToolKinds)
  BY Feeding DEF Good, Shape
<1>2. OpenaiToolText(t, body) = OpenaiEvents(u, fed.events)
  BY DEF OpenaiToolText
<1> HIDE DEF fed
<1>3. Moves(t, u, N)
  BY <1>1, OtherParsers
<1> HIDE DEF u
<1>4. Turns(u, OpenaiEvents(u, fed.events), N)
  BY <1>1, <1>3, OpenaiEventsTurn DEF Moves
<1>5. QED
  BY <1>2, <1>3, <1>4, Moving

LEMMA OllamaTextMoves ==
  ASSUME NEW t, NEW N, Good(t, N), NEW body, IsList(body)
  PROVE  Moves(t, OllamaText(t, body), N)
<1> DEFINE u == CloseThinking(t)
           fed == FeedToolText(u.tool, body)
           v == [u EXCEPT !.tool = fed.parser]
<1>1. Moves(t, u, N) /\ Good(u, N)
  BY ClosingThinking, Moving DEF Turns
<1>2. OllamaText(t, body) = IF setup.native THEN AddText(u, body) ELSE OllamaEvents(v, fed.events)
  BY DEF OllamaText
<1> HIDE DEF u
<1>3. ToolHeld(fed.parser) /\ EventsOK(fed.events, ToolKinds)
  BY <1>1, Feeding DEF Good, Shape
<1> HIDE DEF fed
<1>4. Moves(u, v, N)
  BY <1>1, <1>3, OtherParsers
<1> HIDE DEF v
<1>5. Moves(u, OllamaEvents(v, fed.events), N)
  <2>1. Turns(v, OllamaEvents(v, fed.events), N)
    BY <1>3, <1>4, OllamaEventsTurn DEF Moves
  <2>2. QED
    BY <1>4, <2>1, Moving
<1>6. Moves(u, AddText(u, body), N)
  BY <1>1, AddingText, Moving
<1>7. QED
  BY <1>1, <1>2, <1>5, <1>6, Moving

LEMMA OllamaPieceMoves ==
  ASSUME NEW t, NEW N, Good(t, N), NEW e, IsList(e.body)
  PROVE  Moves(t, OllamaPiece(t, e), N)
BY AddingThinking, OllamaTextMoves, Moving DEF OllamaPiece

PieceStep(c, x, n) == OllamaPiece(x, c.events[n])
PieceHolds(c, x, n) == Moves(c.t, x, c.N)
PieceFold == INSTANCE Unfolding
  WITH Steps <- EventSteps, Start <- EventStart, Step <- PieceStep, Holds <- PieceHolds

LEMMA OllamaPiecesMove ==
  ASSUME NEW t, NEW N, Good(t, N), NEW events, EventsOK(events, ThinkingKinds)
  PROVE  Moves(t, OllamaPieces(t, events), N)
<1> DEFINE m == CHOOSE f : f = [n \in 0 .. Len(events) |->
                  IF n = 0 THEN t ELSE OllamaPiece(f[n - 1], events[n])]
           c == [t |-> t, events |-> events, N |-> N]
<1>1. c.t = t /\ c.events = events /\ c.N = N
  OBVIOUS
<1>2. Len(events) \in Nat /\ DOMAIN events = 1 .. Len(events)
  BY ListFacts DEF EventsOK
<1> HIDE DEF c
<1>3. m = [n \in 0 .. EventSteps(c) |-> PieceFold!Value(c, m, n)]
  <2>1. EventSteps(c) \in Nat /\ EventSteps(c) = Len(events)
    BY <1>1, <1>2 DEF EventSteps
  <2>2. \E f : f = [n \in 0 .. EventSteps(c) |-> PieceFold!Value(c, f, n)]
    BY <2>1, PieceFold!Exists
  <2>3. ASSUME NEW f, NEW n
        PROVE  PieceFold!Value(c, f, n) = IF n = 0 THEN t ELSE OllamaPiece(f[n - 1], events[n])
    BY <1>1 DEF PieceFold!Value, EventStart, PieceStep
  <2>4. \E f : f = [n \in 0 .. Len(events) |-> IF n = 0 THEN t ELSE OllamaPiece(f[n - 1], events[n])]
    BY <2>1, <2>2, <2>3
  <2>5. m = [n \in 0 .. Len(events) |-> IF n = 0 THEN t ELSE OllamaPiece(m[n - 1], events[n])]
    BY <2>4
  <2> HIDE DEF m
  <2>6. QED
    BY <2>1, <2>3, <2>5
<1>4. OllamaPieces(t, events) = m[Len(events)]
  BY DEF OllamaPieces
<1> HIDE DEF m
<1>5. PieceHolds(c, EventStart(c), 0)
  BY <1>1, Moving DEF PieceHolds, EventStart
<1>6. \A x, n : n \in 1 .. EventSteps(c) /\ PieceHolds(c, x, n - 1) => PieceHolds(c, PieceStep(c, x, n), n)
  <2> TAKE x, n
  <2> HAVE n \in 1 .. EventSteps(c) /\ PieceHolds(c, x, n - 1)
  <2>1. n \in DOMAIN events /\ Moves(t, x, N)
    BY <1>1, <1>2 DEF EventSteps, PieceHolds
  <2>2. Moves(x, OllamaPiece(x, events[n]), N)
    BY <2>1, OllamaPieceMoves DEF EventsOK, Moves
  <2>3. Moves(t, OllamaPiece(x, events[n]), N)
    BY <2>1, <2>2, Moving
  <2>4. QED
    BY <1>1, <2>3 DEF PieceHolds, PieceStep
<1>7. PieceHolds(c, m[EventSteps(c)], EventSteps(c))
  BY <1>1, <1>2, <1>3, <1>5, <1>6, PieceFold!Holding DEF EventSteps
<1>8. QED
  BY <1>1, <1>4, <1>7 DEF PieceHolds, EventSteps

LEMMA OllamaContentMoves ==
  ASSUME NEW t, NEW N, Good(t, N), NEW body, IsList(body)
  PROVE  Moves(t, OllamaPieces(PipeContent(t, body).s, PipeContent(t, body).pieces), N)
<1> DEFINE piped == PipeContent(t, body)
           fed == FeedThinking(t.thinking, body)
           u == [t EXCEPT !.thinking = fed.parser]
<1>1. ThinkingHeld(fed.parser) /\ EventsOK(fed.events, ThinkingKinds)
  BY Feeding DEF Good, Shape
<1>2. /\ setup.thinks => piped.s = u /\ piped.pieces = fed.events
      /\ ~setup.thinks => piped.s = t /\ piped.pieces = Chunk("text", body)
  BY DEF PipeContent
<1> HIDE DEF fed, piped
<1>3. Moves(t, u, N)
  BY <1>1, OtherParsers
<1> HIDE DEF u
<1>4. EventsOK(Chunk("text", body), ThinkingKinds)
  BY OneEvent DEF ThinkingKinds
<1>5. Moves(t, piped.s, N) /\ EventsOK(piped.pieces, ThinkingKinds)
  BY <1>1, <1>2, <1>3, <1>4, Moving
<1>6. Moves(piped.s, OllamaPieces(piped.s, piped.pieces), N)
  BY <1>5, OllamaPiecesMove DEF Moves
<1>7. QED
  BY <1>5, <1>6, Moving DEF piped

LEMMA OllamaFlushMoves ==
  ASSUME NEW t, NEW N, Good(t, N)
  PROVE  Moves(t, OllamaFlush(t), N)
<1> DEFINE u == IF setup.thinks THEN OllamaPieces(t, FinalizeThinking(t.thinking)) ELSE t
<1>1. EventsOK(FinalizeThinking(t.thinking), ThinkingKinds)
  BY Finalizing DEF Good, Shape
<1>2. Moves(t, u, N)
  BY <1>1, OllamaPiecesMove, Moving
<1>3. OllamaFlush(t) = IF setup.native THEN u ELSE OllamaEvents(u, FinalizeToolText(u.tool))
  BY DEF OllamaFlush
<1> HIDE DEF u
<1>4. EventsOK(FinalizeToolText(u.tool), ToolKinds)
  BY <1>2, Finalizing DEF Moves, Good, Shape
<1>5. Moves(u, OllamaEvents(u, FinalizeToolText(u.tool)), N)
  BY <1>2, <1>4, OllamaEventsTurn, Moving DEF Moves
<1>6. QED
  BY <1>2, <1>3, <1>5, Moving

\* A native call that was open is closed.
LEMMA ClosingCall ==
  ASSUME NEW t, NEW N, Good(t, N), NEW i \in N
  PROVE  LET u == BlockStop(t, i) IN
         Good(u, N \ {i}) /\ Keeps(t, u) /\ u.text = t.text /\ u.think = t.think
<1> DEFINE u == BlockStop(t, i)
<1>1. Shape(t) /\ Holder(t, i, "native")
  BY DEF Good, Sound
<1>2. Swapped(t, u, i, Block(t.blocks[i].kind, t.blocks[i].body, FALSE))
  BY <1>1, Stopped DEF Holder
<1> HIDE DEF u
<1>3. /\ u.blocks[i].kind = "native" /\ u.blocks[i].body = t.blocks[i].body
      /\ ~u.blocks[i].open
  BY <1>1, <1>2 DEF Holder, Block, Swapped
<1>4. Keeps(t, u)
  BY <1>1, <1>2, <1>3 DEF Keeps, Holder, Swapped
<1>5. \A j, k : Holder(t, j, k) /\ j # i => Holder(u, j, k)
  BY <1>2 DEF Holder, Swapped
<1>6. Sound(u, N \ {i})
  <2>1. (u.text # 0 => Holder(u, u.text, "text")) /\ (u.think # 0 => Holder(u, u.think, "thinking"))
    BY <1>1, <1>2, <1>5 DEF Good, Sound, Holder, Swapped
  <2>2. \A j \in N \ {i} : Holder(u, j, "native")
    BY <1>5 DEF Good, Sound
  <2>3. \A j \in DOMAIN u.blocks : u.blocks[j].open => j \in N \ {i} \/ j = u.text \/ j = u.think
    BY <1>2, <1>3 DEF Good, Sound, Swapped
  <2>4. QED
    BY <2>1, <2>2, <2>3 DEF Sound
<1>7. QED
  BY <1>2, <1>4, <1>6 DEF Good, Swapped, u

-----------------------------------------------------------------------------
(* The invariant.                                                          *)

Frames == {"outside", "block", "foreign"}

TypesInv ==
  /\ setup \in Setups /\ pos \in 0 .. Len(Text) /\ started \in BOOLEAN /\ frame \in Frames
  /\ ended \in {"no", "complete", "noDone", "providerError", "protocolError", "typeError"}
  /\ reasons \in 0 .. MaxReasoning

\* The native calls of openai, which are open until the end.
Lasting ==
  IF Openai THEN {calls[i].at : i \in {j \in CallIndexes : calls[j].named}} ELSE {}

Final == {"complete", "noDone"}

\* A block that is open in a message that was finalized.
MayStayOpen(i) ==
  /\ ended = "noDone"
  /\ \/ Ollama /\ i = s.think
     \/ setup.adapter = "anthropic" /\ frame = "block" /\ i = Latest

FinalInv == ended \in Final => \A i \in DOMAIN s.blocks : s.blocks[i].open => MayStayOpen(i)

BlocksInv ==
  /\ Shape(s)
  /\ Reading /\ setup.adapter # "anthropic" => Sound(s, Lasting)
  /\ setup.adapter = "anthropic" =>
       /\ s.text = 0 /\ s.think = 0
       /\ \A i \in DOMAIN s.blocks : s.blocks[i].open => frame = "block" /\ i = Latest
       /\ frame = "block" => Latest \in DOMAIN s.blocks /\ s.blocks[Latest].open
  /\ FinalInv

\* A call that has its name has a block of its own, with all of its arguments; one that has
\* not has them waiting.
CallsInv ==
  /\ calls \in [CallIndexes -> [at : Nat, named : BOOLEAN, pending : Seq(Nat)]]
  /\ DOMAIN args = CallIndexes /\ \A i \in CallIndexes : IsList(args[i])
  /\ \A i \in CallIndexes :
       /\ calls[i].named => /\ calls[i].at \in DOMAIN s.blocks
                            /\ s.blocks[calls[i].at].kind = "native"
                            /\ s.blocks[calls[i].at].body = args[i]
       /\ Openai /\ ~calls[i].named => calls[i].pending = args[i]
  /\ Openai => \A i, j \in CallIndexes :
                 calls[i].named /\ calls[j].named /\ calls[i].at = calls[j].at => i = j
  /\ setup.adapter = "ollama" => \A i \in CallIndexes : calls[i].named => args[i] # <<>>
  /\ setup.adapter = "anthropic" => \A i \in CallIndexes : ~calls[i].named

\* The calls are as they were, and what they have in their blocks too.
LEMMA CallsKept ==
  ASSUME CallsInv, Keeps(s, s'), UNCHANGED <<setup, calls, args>>
  PROVE  CallsInv' /\ Lasting' = Lasting
<1>1. setup' = setup /\ calls' = calls /\ args' = args
  OBVIOUS
<1>2. Lasting' = Lasting
  BY <1>1 DEF Lasting, Openai
<1>3. \A i \in CallIndexes : calls[i].named =>
        /\ calls[i].at \in DOMAIN s'.blocks
        /\ s'.blocks[calls[i].at].kind = "native"
        /\ s'.blocks[calls[i].at].body = args[i]
  BY DEF CallsInv, Keeps
<1>4. QED
  BY <1>1, <1>2, <1>3 DEF CallsInv, Openai

\* A step of openai or ollama with which the response goes on.
LEMMA Moved ==
  ASSUME BlocksInv, CallsInv, setup.adapter # "anthropic",
         Moves(s, s', Lasting), UNCHANGED <<setup, calls, args>>, ended' \notin Final
  PROVE  BlocksInv' /\ CallsInv'
<1>1. CallsInv' /\ Lasting' = Lasting
  BY CallsKept DEF Moves
<1>2. QED
  BY <1>1 DEF Moves, Good, BlocksInv, FinalInv

\* One with which it ends.
LEMMA Finished ==
  ASSUME BlocksInv, CallsInv, setup.adapter # "anthropic", Shape(s'), Keeps(s, s'),
         UNCHANGED <<setup, calls, args>>, ended' # "no", FinalInv'
  PROVE  BlocksInv' /\ CallsInv'
BY CallsKept DEF BlocksInv, Reading

LEMMA Standing ==
  ASSUME BlocksInv, CallsInv, UNCHANGED <<setup, s, calls, args, frame>>,
         ended' = ended \/ (ended' # "no" /\ FinalInv')
  PROVE  BlocksInv' /\ CallsInv'
<1>1. Keeps(s, s')
  BY DEF Keeps
<1>2. CallsInv' /\ Lasting' = Lasting
  BY <1>1, CallsKept
<1>3. QED
  BY <1>2 DEF BlocksInv, Reading, Latest, FinalInv, MayStayOpen, Ollama

LEMMA InitTypes == Init => TypesInv
<1> SUFFICES ASSUME Init PROVE TypesInv
  OBVIOUS
<1>1. Len(Text) \in Nat
  <2>1. setup.words \in Seq(STRING)
    BY StreamAssumption DEF Init
  <2>2. Len(setup.words) \in Nat
    BY <2>1, LenProperties
  <2>3. QED
    BY <2>2, SpelledIsList, ListFacts DEF Text
<1>2. MaxReasoning \in Nat
  BY StreamAssumption
<1>3. /\ setup \in Setups /\ pos = 0 /\ reasons = 0 /\ started = FALSE /\ ended = "no"
      /\ frame \in Frames
  BY DEF Init, Frames
<1>4. pos \in 0 .. Len(Text) /\ reasons \in 0 .. MaxReasoning
  BY <1>1, <1>2, <1>3
<1>5. QED
  BY <1>3, <1>4 DEF TypesInv

LEMMA InitBlocks == Init => BlocksInv /\ CallsInv
<1> SUFFICES ASSUME Init PROVE BlocksInv /\ CallsInv
  OBVIOUS
<1>1. s = State(<<>>, 0, 0, FALSE, NewThinking, NewToolText)
  BY DEF Init, Fresh, State
<1>2. /\ s.blocks = <<>> /\ s.text = 0 /\ s.think = 0 /\ s.astray = FALSE
      /\ s.thinking = NewThinking /\ s.tool = NewToolText
  BY <1>1 DEF State
<1>3. ThinkingHeld(NewThinking) /\ ToolHeld(NewToolText)
  BY EmptyIsList DEF ThinkingHeld, ThinkingParser, ToolHeld, ToolParser, NewThinking, NewToolText
<1>4. Shape(s)
  <2>1. s = State(s.blocks, s.text, s.think, s.astray, s.thinking, s.tool) /\ s.astray = FALSE
    BY <1>1, <1>2
  <2>2. BlocksOK(s.blocks) /\ Len(s.blocks) = 0
    BY <1>2, EmptyIsList DEF BlocksOK
  <2>3. s.text \in 0 .. Len(s.blocks) /\ s.think \in 0 .. Len(s.blocks)
    BY <1>2, <2>2
  <2>4. QED
    BY <1>2, <1>3, <2>1, <2>2, <2>3 DEF Shape
<1>5. /\ calls = [i \in CallIndexes |-> [at |-> 0, named |-> FALSE, pending |-> <<>>]]
      /\ args = [i \in CallIndexes |-> <<>>] /\ ended = "no" /\ frame # "block"
  BY DEF Init
<1>6. \A i \in CallIndexes : ~calls[i].named /\ calls[i].pending = <<>> /\ args[i] = <<>>
  BY <1>5
<1>7. Lasting = {}
  BY <1>6 DEF Lasting
<1>8. BlocksInv
  BY <1>2, <1>4, <1>5, <1>7, EmptyIsList DEF BlocksInv, Sound, FinalInv, Final
<1>9. calls \in [CallIndexes -> [at : Nat, named : BOOLEAN, pending : Seq(Nat)]]
  BY <1>5
<1>10. CallsInv
  BY <1>5, <1>6, <1>9, EmptyIsList DEF CallsInv
<1>11. QED
  BY <1>8, <1>10

Inv == TypesInv /\ BlocksInv /\ CallsInv

-----------------------------------------------------------------------------
(* openai.                                                                 *)

\* A block of a native call gets its chunk.
LEMMA Arguing ==
  ASSUME NEW t, NEW N, Good(t, N), NEW j \in N, NEW chunk, IsList(t.blocks[j].body)
  PROVE  Fed(t, IF chunk = <<>> THEN t ELSE BlockDelta(t, j, chunk), N, j, chunk)
<1>1. j \in DOMAIN t.blocks /\ t.blocks[j].open
  BY DEF Good, Sound, Holder
<1>2. CASE chunk = <<>>
  <2>1. t.blocks[j].body \o chunk = t.blocks[j].body
    BY <1>2, JoinsEmpty
  <2>2. QED
    BY <1>2, <2>1 DEF Fed
<1>3. CASE chunk # <<>>
  BY <1>1, <1>3, Extending
<1>4. QED
  BY <1>2, <1>3

LEMMA ReadingOn ==
  ASSUME Inv, Reading, setup.adapter # "anthropic"
  PROVE  Good(s, Lasting)
BY DEF Inv, BlocksInv, Good

LEMMA OpeningItsBlock ==
  ASSUME Inv, Openai, Reading, NEW i \in CallIndexes, ~calls[i].named
  PROVE  LET o == OpenCall(s, i)
             n == o.call.at
         IN /\ Good(o.s, Lasting \cup {n}) /\ Keeps(s, o.s) /\ n \notin DOMAIN s.blocks
            /\ n \in Nat /\ n \in DOMAIN o.s.blocks /\ o.s.blocks[n].kind = "native"
            /\ o.s.blocks[n].body = args[i]
            /\ o.call = [at |-> n, named |-> TRUE, pending |-> <<>>]
<1> DEFINE w == CloseThinking(CloseText(s))
           o == BlockStart(w, "native")
           n == Len(o.blocks)
           p == IF args[i] = <<>> THEN o ELSE BlockDelta(o, n, args[i])
<1>1. calls[i].pending = args[i] /\ IsList(args[i]) /\ setup.adapter # "anthropic"
  BY DEF Inv, CallsInv, Openai
<1>2. OpenCall(s, i) = [s |-> p, call |-> [at |-> n, named |-> TRUE, pending |-> <<>>]]
  BY <1>1 DEF OpenCall
<1>3. Turns(s, w, Lasting)
  BY <1>1, ReadingOn, ClosingBoth
<1> HIDE DEF w
<1>4. /\ Good(o, Lasting \cup {n}) /\ Keeps(w, o)
      /\ n \notin DOMAIN w.blocks /\ n \in DOMAIN o.blocks
      /\ o.blocks[n].kind = "native" /\ o.blocks[n].body = <<>> /\ o.blocks[n].open
  BY <1>3, OpeningCall DEF Turns
<1>5. n \in Nat
  BY <1>4, ListFacts DEF Good, Shape, BlocksOK
<1> HIDE DEF o, n
<1>6. Fed(o, p, Lasting \cup {n}, n, args[i])
  <2>1. n \in Lasting \cup {n} /\ IsList(o.blocks[n].body)
    BY <1>4, EmptyIsList
  <2>2. QED
    BY <1>4, <2>1, Arguing
<1> HIDE DEF p
<1>7. p.blocks[n].body = args[i]
  BY <1>1, <1>4, <1>6, JoinsEmpty DEF Fed
<1>8. Keeps(w, p)
  BY <1>4, <1>6 DEF Keeps, Fed
<1>9. Keeps(s, p) /\ n \notin DOMAIN s.blocks
  BY <1>3, <1>4, <1>8, Turning DEF Turns, Keeps
<1> DEFINE r == OpenCall(s, i)
<1>10. r.s = p /\ r.call = [at |-> n, named |-> TRUE, pending |-> <<>>] /\ r.call.at = n
  BY <1>2
<1> HIDE DEF r
<1>11. QED
  BY <1>4, <1>5, <1>6, <1>7, <1>9, <1>10 DEF Fed, r

LEMMA ToolCallDeltaStep ==
  ASSUME Inv, NEW i \in CallIndexes, NEW name \in BOOLEAN, NEW chunk \in {<<>>, <<Len(args[i])>>},
         ToolCallDelta(i, name, chunk)
  PROVE  BlocksInv' /\ CallsInv'
<1>1. /\ Openai /\ Reading /\ (name => ~calls[i].named)
      /\ args' = [args EXCEPT ![i] = args[i] \o chunk]
      /\ setup' = setup /\ ended' = ended /\ Good(s, Lasting)
      /\ setup.adapter = "openai"
  BY ReadingOn DEF ToolCallDelta, Openai
<1>2. IsList(args[i]) /\ Len(args[i]) \in Nat /\ DOMAIN args = CallIndexes
  BY ListFacts DEF Inv, CallsInv
<1>3. chunk \in Seq(Nat)
  <2>1. \A n \in Nat : <<n>> \in Seq(Nat)
    OBVIOUS
  <2>2. <<>> \in Seq(Nat)
    OBVIOUS
  <2>3. QED
    BY <1>2, <2>1, <2>2
<1>4. /\ IsList(args[i] \o chunk)
      /\ args'[i] = args[i] \o chunk /\ DOMAIN args' = CallIndexes
      /\ \A j \in CallIndexes : j # i => args'[j] = args[j]
  BY <1>1, <1>2, <1>3, Joins DEF IsList
<1>5. \A j \in CallIndexes : IsList(args'[j])
  BY <1>4 DEF Inv, CallsInv
<1>6. calls \in [CallIndexes -> [at : Nat, named : BOOLEAN, pending : Seq(Nat)]]
  BY DEF Inv, CallsInv
\* c: the call as it is then, o: the blocks when it is open.
<1>7. ASSUME NEW c \in [at : Nat, named : BOOLEAN, pending : Seq(Nat)], NEW o, c.named,
             c.at \in Lasting \cup {c.at}, Good(o, Lasting \cup {c.at}), Keeps(s, o),
             c.at \in DOMAIN o.blocks, o.blocks[c.at].kind = "native",
             o.blocks[c.at].body = args[i],
             \A j \in CallIndexes : j # i /\ calls[j].named => calls[j].at # c.at,
             calls[i].named => calls[i].at = c.at,
             s' = IF chunk = <<>> THEN o ELSE BlockDelta(o, c.at, chunk),
             calls' = [calls EXCEPT ![i] = c]
      PROVE  BlocksInv' /\ CallsInv'
  <2>1. Fed(o, s', Lasting \cup {c.at}, c.at, chunk)
    BY <1>2, <1>7, Arguing
  <2>2. calls'[i] = c /\ \A j \in CallIndexes : j # i => calls'[j] = calls[j]
    BY <1>6, <1>7
  <2>3. Lasting' = Lasting \cup {c.at}
    BY <1>1, <1>7, <2>2 DEF Lasting, Openai
  <2>4. calls' \in [CallIndexes -> [at : Nat, named : BOOLEAN, pending : Seq(Nat)]]
    BY <1>6, <1>7
  <2>5. BlocksInv'
    BY <1>1, <2>1, <2>3 DEF Good, BlocksInv, FinalInv, Final, Reading, Fed
  <2>6. \A j \in CallIndexes : calls'[j].named =>
          /\ calls'[j].at \in DOMAIN s'.blocks
          /\ s'.blocks[calls'[j].at].kind = "native"
          /\ s'.blocks[calls'[j].at].body = args'[j]
    <3> TAKE j \in CallIndexes
    <3> HAVE calls'[j].named
    <3>1. CASE j = i
      <4>1. calls'[j] = c /\ args'[j] = args[i] \o chunk
        BY <1>4, <2>2, <3>1
      <4>2. /\ c.at \in DOMAIN s'.blocks /\ s'.blocks[c.at].kind = "native"
            /\ s'.blocks[c.at].body = args[i] \o chunk
        BY <1>7, <2>1 DEF Fed
      <4>3. QED
        BY <4>1, <4>2
    <3>2. CASE j # i
      <4>1. /\ calls[j].at \in DOMAIN s.blocks /\ s.blocks[calls[j].at].kind = "native"
            /\ s.blocks[calls[j].at].body = args[j] /\ calls[j].at # c.at
        BY <1>7, <2>2, <3>2 DEF Inv, CallsInv
      <4>2. /\ calls[j].at \in DOMAIN o.blocks /\ o.blocks[calls[j].at].kind = "native"
            /\ o.blocks[calls[j].at].body = args[j]
        BY <1>7, <4>1 DEF Keeps
      <4>3. QED
        BY <1>4, <2>1, <2>2, <3>2, <4>1, <4>2 DEF Fed
    <3>3. QED
      BY <3>1, <3>2
  <2>7. \A j \in CallIndexes : ~calls'[j].named => calls'[j].pending = args'[j]
    BY <1>1, <1>4, <1>7, <2>2 DEF Inv, CallsInv
  <2>8. \A j, k \in CallIndexes :
          calls'[j].named /\ calls'[k].named /\ calls'[j].at = calls'[k].at => j = k
    BY <1>1, <1>7, <2>2 DEF Inv, CallsInv
  <2>9. QED
    BY <1>1, <1>4, <1>5, <2>4, <2>5, <2>6, <2>7, <2>8 DEF CallsInv
<1>8. CASE name
  <2> DEFINE o == OpenCall(s, i)
             c == o.call
             t == o.s
  <2>1. /\ Good(t, Lasting \cup {c.at}) /\ Keeps(s, t) /\ c.at \notin DOMAIN s.blocks
        /\ c.at \in Nat /\ c.at \in DOMAIN t.blocks /\ t.blocks[c.at].kind = "native"
        /\ t.blocks[c.at].body = args[i]
        /\ c = [at |-> c.at, named |-> TRUE, pending |-> <<>>]
    BY <1>1, <1>8, OpeningItsBlock
  <2>2. c \in [at : Nat, named : BOOLEAN, pending : Seq(Nat)] /\ c.named
    <3> HIDE DEF c
    <3>1. PICK n \in Nat : c = [at |-> n, named |-> TRUE, pending |-> <<>>]
      BY <2>1
    <3>2. QED
      BY <3>1
  <2>3. /\ s' = IF chunk = <<>> THEN t ELSE BlockDelta(t, c.at, chunk)
        /\ calls' = [calls EXCEPT ![i] = c]
    BY <1>8, <2>2 DEF ToolCallDelta
  <2> HIDE DEF t, c
  <2>4. \A j \in CallIndexes : j # i /\ calls[j].named => calls[j].at # c.at
    BY <2>1 DEF Inv, CallsInv
  <2>5. ~calls[i].named
    BY <1>1, <1>8
  <2>6. QED
    BY <1>7, <2>1, <2>2, <2>3, <2>4, <2>5
<1>9. CASE ~name /\ calls[i].named
  <2> DEFINE c == calls[i]
  <2>1. s' = (IF chunk = <<>> THEN s ELSE BlockDelta(s, c.at, chunk)) /\ calls' = [calls EXCEPT ![i] = c]
    BY <1>9 DEF ToolCallDelta
  <2>2. c \in [at : Nat, named : BOOLEAN, pending : Seq(Nat)] /\ c.named
    BY <1>6, <1>9
  <2>3. c.at \in Lasting /\ Lasting \cup {c.at} = Lasting
    BY <1>1, <1>9 DEF Lasting
  <2>4. /\ c.at \in DOMAIN s.blocks /\ s.blocks[c.at].kind = "native" /\ s.blocks[c.at].body = args[i]
        /\ \A j \in CallIndexes : j # i /\ calls[j].named => calls[j].at # c.at
    BY <1>1, <1>9 DEF Inv, CallsInv
  <2>5. Keeps(s, s)
    BY DEF Keeps
  <2> HIDE DEF c
  <2>6. QED
    BY <1>1, <1>7, <2>1, <2>2, <2>3, <2>4, <2>5 DEF c
<1>10. CASE ~name /\ ~calls[i].named
  <2>1. s' = s /\ calls' = [calls EXCEPT ![i].pending = calls[i].pending \o chunk]
    BY <1>10 DEF ToolCallDelta
  <2>2. /\ calls'[i].named = calls[i].named /\ calls'[i].at = calls[i].at
        /\ calls'[i].pending = calls[i].pending \o chunk
        /\ \A j \in CallIndexes : j # i => calls'[j] = calls[j]
    BY <1>6, <2>1
  <2>3. calls' \in [CallIndexes -> [at : Nat, named : BOOLEAN, pending : Seq(Nat)]]
    <3>1. calls[i].pending \o chunk \in Seq(Nat)
      BY <1>3, <1>6, ConcatProperties
    <3>2. QED
      BY <1>6, <2>1, <3>1
  <2>4. Lasting' = Lasting
    BY <1>1, <1>10, <2>2 DEF Lasting, Openai
  <2>5. BlocksInv'
    BY <1>1, <2>1, <2>4 DEF Inv, BlocksInv, FinalInv, Final, Reading
  <2>6. \A j \in CallIndexes :
          /\ calls'[j].named => /\ j # i /\ calls[j].named /\ calls'[j].at = calls[j].at
                                /\ args'[j] = args[j]
          /\ ~calls'[j].named => calls'[j].pending = args'[j]
    BY <1>1, <1>4, <1>10, <2>2 DEF Inv, CallsInv
  <2>7. QED
    BY <1>1, <1>4, <1>5, <2>1, <2>3, <2>5, <2>6 DEF Inv, CallsInv
<1>11. QED
  BY <1>8, <1>9, <1>10

\* The next piece of content is a list.
LEMMA PieceIsList ==
  ASSUME Inv, NEW k \in 1 .. MaxPiece, Content(k)
  PROVE  IsList(Piece(k)) /\ pos' \in 0 .. Len(Text)
<1>1. MaxPiece \in Nat
  BY StreamAssumption
<1>2. setup \in Setups /\ pos \in 0 .. Len(Text) /\ pos' = pos + k /\ k <= Len(Text) - pos
  BY DEF Inv, TypesInv, Content
<1>3. setup.words \in Seq(STRING)
  BY <1>2, StreamAssumption
<1>4. Len(setup.words) \in Nat
  BY <1>3, LenProperties
<1>5. Len(Text) \in Nat
  BY <1>4, SpelledIsList, ListFacts DEF Text
<1> HIDE DEF Text
<1>6. pos \in Nat /\ k \in Nat /\ pos + k <= Len(Text) /\ pos + k \in 0 .. Len(Text)
  BY <1>1, <1>2, <1>5
<1>7. QED
  BY <1>2, <1>6, PiecesAreLists

LEMMA OpenaiContentStep ==
  ASSUME Inv, NEW k \in 1 .. MaxPiece, OpenaiContent(k) \/ OpenaiThinkingContent(k)
  PROVE  BlocksInv' /\ CallsInv'
<1>1. /\ Reading /\ setup.adapter = "openai" /\ Content(k)
      /\ setup' = setup /\ calls' = calls /\ args' = args
  BY DEF OpenaiContent, OpenaiThinkingContent, Content, Openai
<1>2. BlocksInv /\ CallsInv /\ Good(s, Lasting) /\ IsList(Piece(k)) /\ setup.adapter # "anthropic"
  BY <1>1, ReadingOn, PieceIsList DEF Inv
<1>3. CASE OpenaiContent(k)
  <2>1. Moves(s, OpenaiText(s, Piece(k)), Lasting) /\ Moves(s, OpenaiToolText(s, Piece(k)), Lasting)
    BY <1>2, OpenaiTextTurns, OpenaiToolTextMoves, Moving
  <2>2. s' = OpenaiText(s, Piece(k)) \/ s' = OpenaiToolText(s, Piece(k))
    BY <1>3 DEF OpenaiContent
  <2>3. Moves(s, s', Lasting)
    BY <2>1, <2>2
  <2>4. ended' \notin Final
    BY <1>1, <1>3 DEF OpenaiContent, Reading, Final
  <2>5. QED
    BY <1>1, <1>2, <2>3, <2>4, Moved
<1>4. CASE OpenaiThinkingContent(k)
  <2> DEFINE p == FeedThinking(s.thinking, Piece(k)).parser
  <2>1. ThinkingHeld(p)
    BY <1>2, Feeding DEF Good, Shape
  <2>2. s' = [s EXCEPT !.thinking = p] /\ ended' \in {"no", "typeError"}
    BY <1>4 DEF OpenaiThinkingContent
  <2> HIDE DEF p
  <2>3. Moves(s, s', Lasting)
    BY <1>2, <2>1, <2>2, OtherParsers
  <2>4. ended' \notin Final
    BY <2>2 DEF Final
  <2>5. QED
    BY <1>1, <1>2, <2>3, <2>4, Moved
<1>5. QED
  BY <1>3, <1>4

\* The end of an openai response closes both blocks and then each native call.
LEMMA ClosingCalls ==
  ASSUME CallsInv, Openai, NEW t, Good(t, Lasting), t.text = 0, t.think = 0
  PROVE  LET u == CloseCalls(t) IN
         Shape(u) /\ Keeps(t, u) /\ \A i \in DOMAIN u.blocks : ~u.blocks[i].open
<1> DEFINE L(i) == IF calls[i].named THEN {calls[i].at} ELSE {}
           v == CloseCall(t, 0)
           u == CloseCall(v, 1)
<1>1. Lasting = L(0) \cup L(1)
  BY DEF Lasting, CallIndexes
<1>2. calls[0].named /\ calls[1].named => calls[0].at # calls[1].at
  BY DEF CallsInv, CallIndexes
<1>3. Good(v, L(1)) /\ Keeps(t, v) /\ v.text = 0 /\ v.think = 0
  <2>1. CASE calls[0].named
    <3>1. v = BlockStop(t, calls[0].at) /\ calls[0].at \in Lasting
      BY <1>1, <2>1 DEF CloseCall
    <3>2. Lasting \ {calls[0].at} = L(1)
      BY <1>1, <1>2, <2>1
    <3> HIDE DEF v, L
    <3>3. QED
      BY <3>1, <3>2, ClosingCall
  <2>2. CASE ~calls[0].named
    BY <1>1, <2>2 DEF CloseCall, Keeps
  <2>3. QED
    BY <2>1, <2>2
<1> HIDE DEF v
<1>4. Good(u, {}) /\ Keeps(v, u) /\ u.text = 0 /\ u.think = 0
  <2>1. CASE calls[1].named
    <3>1. u = BlockStop(v, calls[1].at) /\ L(1) = {calls[1].at}
      BY <2>1 DEF CloseCall
    <3>2. L(1) \ {calls[1].at} = {} /\ calls[1].at \in L(1)
      BY <3>1
    <3> HIDE DEF u, L
    <3>3. QED
      BY <1>3, <3>1, <3>2, ClosingCall
  <2>2. CASE ~calls[1].named
    BY <1>3, <2>2 DEF CloseCall, Keeps
  <2>3. QED
    BY <2>1, <2>2
<1> HIDE DEF u
<1>5. \A i \in DOMAIN u.blocks : ~u.blocks[i].open
  <2>1. \A i \in DOMAIN u.blocks : i # 0
    BY <1>4, ListFacts DEF Good, Shape, BlocksOK
  <2>2. QED
    BY <1>4, <2>1 DEF Good, Sound
<1>6. QED
  BY <1>3, <1>4, <1>5, Turning DEF Good, CloseCalls, u, v

LEMMA OpenaiEndsStep ==
  ASSUME Inv, OpenaiEnds
  PROVE  BlocksInv' /\ CallsInv'
<1> DEFINE e == IF setup.native THEN s ELSE OpenaiEvents(s, FinalizeToolText(s.tool))
           w == CloseThinking(CloseText(e))
<1>1. /\ Reading /\ Openai /\ setup.adapter # "anthropic"
      /\ setup' = setup /\ calls' = calls /\ args' = args
      /\ s' = CloseCalls(w)
      /\ ended' \in {"typeError", "protocolError", "complete", "noDone"}
  BY DEF OpenaiEnds, Openai
<1>2. Good(s, Lasting) /\ BlocksInv /\ CallsInv
  BY <1>1, ReadingOn DEF Inv
<1>3. EventsOK(FinalizeToolText(s.tool), ToolKinds)
  BY <1>2, Finalizing DEF Good, Shape
<1>4. Turns(s, e, Lasting)
  BY <1>2, <1>3, OpenaiEventsTurn, Turning
<1> HIDE DEF e
<1>5. Turns(e, w, Lasting) /\ w.text = 0 /\ w.think = 0
  BY <1>4, ClosingBoth DEF Turns
<1> HIDE DEF w
<1>6. Shape(s') /\ Keeps(w, s') /\ \A i \in DOMAIN s'.blocks : ~s'.blocks[i].open
  BY <1>1, <1>2, <1>5, ClosingCalls DEF Turns
<1>7. Keeps(s, s')
  BY <1>4, <1>5, <1>6, Turning DEF Turns
<1>8. FinalInv'
  BY <1>6 DEF FinalInv
<1>9. QED
  BY <1>1, <1>2, <1>6, <1>7, <1>8, Finished

-----------------------------------------------------------------------------
(* ollama.                                                                 *)

LEMMA OllamaContentStep ==
  ASSUME Inv, NEW k \in 1 .. MaxPiece, OllamaContent(k)
  PROVE  BlocksInv' /\ CallsInv'
<1>1. /\ Reading /\ setup.adapter # "anthropic" /\ Content(k) /\ ended' = ended
      /\ setup' = setup /\ calls' = calls /\ args' = args
      /\ s' = OllamaPieces(PipeContent(s, Piece(k)).s, PipeContent(s, Piece(k)).pieces)
  BY DEF OllamaContent, Content, Ollama
<1>2. BlocksInv /\ CallsInv /\ Good(s, Lasting) /\ IsList(Piece(k))
  BY <1>1, ReadingOn, PieceIsList DEF Inv
<1>3. Moves(s, s', Lasting)
  BY <1>1, <1>2, OllamaContentMoves
<1>4. ended' \notin Final
  BY <1>1 DEF Reading, Final
<1>5. QED
  BY <1>1, <1>2, <1>3, <1>4, Moved

LEMMA OllamaCallStep ==
  ASSUME Inv, NEW i \in CallIndexes, NEW named \in BOOLEAN, OllamaCall(i, named)
  PROVE  BlocksInv' /\ CallsInv'
<1> DEFINE n == Len(s.blocks) + 1
           body == <<"arg">>
           u == AddCall(s, "native", body)
<1>1. /\ Reading /\ setup.adapter = "ollama" /\ setup' = setup /\ ended' = ended
      /\ args[i] = <<>> /\ args' = [args EXCEPT ![i] = body]
      /\ named => s' = u /\ calls' = [calls EXCEPT ![i].named = TRUE, ![i].at = n]
      /\ ~named => s' = s /\ calls' = calls
  BY DEF OllamaCall, Ollama
<1>2. Good(s, Lasting) /\ Lasting = {}
  BY <1>1, ReadingOn DEF Lasting, Openai
<1>3. IsList(body)
  <2>1. body \in Seq({"arg"})
    OBVIOUS
  <2>2. QED
    BY <2>1 DEF IsList
<1>4. /\ Turns(s, u, Lasting)
      /\ n \in DOMAIN u.blocks /\ u.blocks[n].kind = "native" /\ u.blocks[n].body = body
  BY <1>2, <1>3, AddingCall
<1>5. n \in Nat /\ DOMAIN s.blocks = 1 .. Len(s.blocks) /\ n \notin DOMAIN s.blocks
  <2>1. Len(s.blocks) \in Nat /\ DOMAIN s.blocks = 1 .. Len(s.blocks)
    BY <1>2, ListFacts DEF Good, Shape, BlocksOK
  <2>2. QED
    BY <2>1
<1> HIDE DEF n, u, body
<1>6. /\ calls \in [CallIndexes -> [at : Nat, named : BOOLEAN, pending : Seq(Nat)]]
      /\ DOMAIN args = CallIndexes
  BY DEF Inv, CallsInv
<1>7. args'[i] = body /\ DOMAIN args' = CallIndexes /\ \A j \in CallIndexes : j # i => args'[j] = args[j]
  BY <1>1, <1>6
<1>8. \A j \in CallIndexes : IsList(args'[j])
  BY <1>3, <1>7 DEF Inv, CallsInv
<1>9. Lasting' = {}
  BY <1>1 DEF Lasting, Openai
<1>10. body # <<>>
  <2>1. Len(<<"arg">>) = 1 /\ Len(<<>>) = 0
    OBVIOUS
  <2>2. QED
    BY <2>1 DEF body
<1>11. CASE named
  <2>1. calls' \in [CallIndexes -> [at : Nat, named : BOOLEAN, pending : Seq(Nat)]]
    <3> DEFINE c == [calls[i] EXCEPT !.named = TRUE, !.at = n]
    <3>1. calls' = [calls EXCEPT ![i] = c]
      BY <1>1, <1>6, <1>11
    <3>2. c \in [at : Nat, named : BOOLEAN, pending : Seq(Nat)]
      BY <1>5, <1>6
    <3> HIDE DEF c
    <3>3. QED
      BY <1>6, <3>1, <3>2
  <2>2. calls'[i].at = n /\ calls'[i].named /\ \A j \in CallIndexes : j # i => calls'[j] = calls[j]
    BY <1>1, <1>6, <1>11
  <2>3. s' = u
    BY <1>1, <1>11
  <2>4. BlocksInv'
    BY <1>1, <1>2, <1>4, <1>9, <2>3 DEF Turns, Good, BlocksInv, FinalInv, Final, Reading
  <2>5. \A j \in CallIndexes : calls'[j].named =>
          /\ calls'[j].at \in DOMAIN s'.blocks
          /\ s'.blocks[calls'[j].at].kind = "native"
          /\ s'.blocks[calls'[j].at].body = args'[j]
    <3> TAKE j \in CallIndexes
    <3> HAVE calls'[j].named
    <3>1. CASE j = i
      BY <1>4, <1>7, <2>2, <2>3, <3>1
    <3>2. CASE j # i
      <4>1. /\ calls[j].at \in DOMAIN s.blocks /\ s.blocks[calls[j].at].kind = "native"
            /\ s.blocks[calls[j].at].body = args[j]
        BY <2>2, <3>2 DEF Inv, CallsInv
      <4>2. /\ calls[j].at \in DOMAIN u.blocks /\ u.blocks[calls[j].at].kind = "native"
            /\ u.blocks[calls[j].at].body = args[j]
        BY <1>4, <4>1 DEF Turns, Keeps
      <4>3. QED
        BY <1>7, <2>2, <2>3, <3>2, <4>2
    <3>3. QED
      BY <3>1, <3>2
  <2>6. QED
    BY <1>1, <1>7, <1>8, <1>10, <2>1, <2>2, <2>4, <2>5 DEF Inv, CallsInv, Openai
<1>12. CASE ~named
  <2>1. s' = s /\ calls' = calls
    BY <1>1, <1>12
  <2>2. BlocksInv'
    BY <1>1, <1>2, <1>9, <2>1 DEF Inv, BlocksInv, FinalInv, Final, Reading
  <2>3. ~calls[i].named
    BY <1>1 DEF Inv, CallsInv
  <2>4. QED
    BY <1>1, <1>7, <1>8, <2>1, <2>2, <2>3 DEF Inv, CallsInv, Openai
<1>13. QED
  BY <1>11, <1>12

LEMMA OllamaDoneStep ==
  ASSUME Inv, OllamaDone
  PROVE  BlocksInv' /\ CallsInv'
<1> DEFINE e == OllamaFlush(s)
           v == CloseThinking(e)
           w == CloseText(v)
<1>1. /\ Reading /\ setup.adapter = "ollama" /\ setup' = setup /\ calls' = calls /\ args' = args
      /\ s' = w /\ ended' = "complete"
  BY DEF OllamaDone, Ollama
<1>2. Good(s, Lasting) /\ Lasting = {} /\ BlocksInv /\ CallsInv
  BY <1>1, ReadingOn DEF Inv, Lasting, Openai
<1>3. Moves(s, e, Lasting)
  BY <1>2, OllamaFlushMoves
<1> HIDE DEF e
<1>4. Turns(e, v, Lasting) /\ v.think = 0
  BY <1>3, ClosingThinking DEF Moves
<1> HIDE DEF v
<1>5. Turns(v, w, Lasting) /\ w.text = 0 /\ w.think = v.think
  BY <1>4, ClosingText DEF Turns
<1> HIDE DEF w
<1>6. Shape(w) /\ Keeps(s, w)
  BY <1>3, <1>4, <1>5, Turning DEF Moves, Turns, Good
<1>7. \A i \in DOMAIN w.blocks : ~w.blocks[i].open
  <2>1. \A i \in DOMAIN w.blocks : i # 0
    BY <1>6, ListFacts DEF Shape, BlocksOK
  <2>2. QED
    BY <1>2, <1>4, <1>5, <2>1 DEF Turns, Good, Sound
<1>8. FinalInv'
  BY <1>1, <1>7 DEF FinalInv
<1>9. QED
  BY <1>1, <1>2, <1>6, <1>8, Finished

LEMMA OllamaCutShortStep ==
  ASSUME Inv, OllamaCutShort
  PROVE  BlocksInv' /\ CallsInv'
<1> DEFINE e == IF setup.native THEN s ELSE OllamaEvents(s, FinalizeToolText(s.tool))
           w == CloseText(e)
<1>1. /\ Reading /\ setup.adapter = "ollama" /\ setup' = setup /\ calls' = calls /\ args' = args
      /\ \/ s' = w /\ ended' = "noDone"
         \/ s' = s /\ ended' = "providerError"
  BY DEF OllamaCutShort, Ollama
<1>2. Good(s, Lasting) /\ Lasting = {} /\ BlocksInv /\ CallsInv
  BY <1>1, ReadingOn DEF Inv, Lasting, Openai
<1>3. EventsOK(FinalizeToolText(s.tool), ToolKinds)
  BY <1>2, Finalizing DEF Good, Shape
<1>4. Turns(s, e, Lasting)
  BY <1>2, <1>3, OllamaEventsTurn, Turning
<1> HIDE DEF e
<1>5. Turns(e, w, Lasting) /\ w.text = 0
  BY <1>4, ClosingText DEF Turns
<1> HIDE DEF w
<1>6. Turns(s, w, Lasting) /\ Turns(s, s, Lasting)
  BY <1>2, <1>4, <1>5, Turning
<1>7. Shape(s') /\ Keeps(s, s')
  BY <1>1, <1>6 DEF Turns, Good
<1>8. ASSUME s' = w PROVE \A i \in DOMAIN s'.blocks : s'.blocks[i].open => i = s'.think
  <2>1. \A i \in DOMAIN w.blocks : i # 0
    BY <1>7, <1>8, ListFacts DEF Shape, BlocksOK
  <2>2. QED
    BY <1>2, <1>5, <1>8, <2>1 DEF Turns, Good, Sound
<1>9. FinalInv'
  BY <1>1, <1>8 DEF FinalInv, Final, MayStayOpen, Ollama
<1>10. QED
  BY <1>1, <1>2, <1>7, <1>9, Finished

-----------------------------------------------------------------------------
(* anthropic.                                                              *)

\* What a step of anthropic has to keep: one block at a time.
LEMMA OneAtATime ==
  ASSUME Inv, setup.adapter = "anthropic", UNCHANGED <<setup, calls, args>>,
         Shape(s'), s'.text = s.text, s'.think = s.think,
         frame' # "block" => \A i \in DOMAIN s'.blocks : ~s'.blocks[i].open,
         frame' = "block" => /\ Len(s'.blocks) \in DOMAIN s'.blocks
                             /\ \A i \in DOMAIN s'.blocks :
                                  s'.blocks[i].open <=> i = Len(s'.blocks),
         ended' \notin Final
  PROVE  BlocksInv' /\ CallsInv'
<1>1. BlocksInv'
  BY DEF Inv, BlocksInv, Latest, FinalInv
<1>2. CallsInv'
  BY DEF Inv, CallsInv, Openai
<1>3. QED
  BY <1>1, <1>2

LEMMA AnthropicSteps ==
  ASSUME Inv, \/ AnthropicMessageStart \/ AnthropicBlockStop \/ AnthropicMessageStop
              \/ AnthropicError \/ AnthropicCutShort
              \/ \E kind \in {"text", "native", "unknown"} : AnthropicBlockStart(kind)
              \/ \E known \in BOOLEAN : AnthropicDelta(known)
  PROVE  BlocksInv' /\ CallsInv'
<1>1. /\ Reading /\ setup.adapter = "anthropic" /\ setup' = setup /\ calls' = calls /\ args' = args
  BY DEF AnthropicMessageStart, AnthropicBlockStop, AnthropicMessageStop, AnthropicError,
         AnthropicCutShort, AnthropicBlockStart, AnthropicDelta, Anthropic
<1>2. /\ BlocksInv /\ CallsInv /\ Shape(s)
      /\ \A i \in DOMAIN s.blocks : s.blocks[i].open => frame = "block" /\ i = Latest
      /\ frame = "block" => Latest \in DOMAIN s.blocks /\ s.blocks[Latest].open
      /\ Len(s.blocks) \in Nat /\ DOMAIN s.blocks = 1 .. Len(s.blocks) /\ ended \notin Final
  BY <1>1, ListFacts DEF Inv, BlocksInv, Shape, BlocksOK, Reading, Final
<1>3. frame \in Frames
  BY DEF Inv, TypesInv
<1>4. CASE AnthropicMessageStart \/ AnthropicError \/ AnthropicCutShort \/ AnthropicMessageStop
  <2>1. s' = s /\ frame' = frame /\ (ended' = ended \/ ended' # "no")
    BY <1>4 DEF AnthropicMessageStart, AnthropicError, AnthropicCutShort, AnthropicMessageStop
  <2>2. ended' \notin Final \/ ended' = "noDone" \/ frame # "block"
    BY <1>2, <1>4 DEF AnthropicMessageStart, AnthropicError, AnthropicCutShort,
                      AnthropicMessageStop, Within, Final
  <2>3. FinalInv'
    BY <1>1, <1>2, <2>1, <2>2 DEF FinalInv, MayStayOpen, Latest
  <2>4. QED
    BY <1>1, <1>2, <2>1, <2>3, Standing
<1>5. ASSUME s' = s, ended' = ended, frame # "block", frame' # "block"
      PROVE  BlocksInv' /\ CallsInv'
  BY <1>1, <1>2, <1>5, OneAtATime
<1>6. CASE AnthropicBlockStop
  <2>1. CASE frame # "block"
    BY <1>5, <1>6, <2>1 DEF AnthropicBlockStop
  <2>2. CASE frame = "block"
    <3>1. /\ s' = BlockStop(s, Latest) /\ ended' = ended /\ frame' = "outside"
          /\ Latest \in DOMAIN s.blocks /\ s.blocks[Latest].open
      BY <1>2, <1>6, <2>2 DEF AnthropicBlockStop
    <3>2. Swapped(s, s', Latest, Block(s.blocks[Latest].kind, s.blocks[Latest].body, FALSE))
      BY <1>2, <3>1, Stopped
    <3>3. \A i \in DOMAIN s'.blocks : ~s'.blocks[i].open
      BY <1>2, <3>2 DEF Swapped, Block
    <3>4. QED
      BY <1>1, <1>2, <3>1, <3>2, <3>3, OneAtATime DEF Swapped
  <2>3. QED
    BY <2>1, <2>2
<1>7. CASE \E known \in BOOLEAN : AnthropicDelta(known)
  <2>1. PICK known \in BOOLEAN : AnthropicDelta(known)
    BY <1>7
  <2>2. CASE s' = s
    <3>1. frame' = frame /\ (ended' = ended \/ ended' = "protocolError")
      BY <2>1 DEF AnthropicDelta
    <3>2. ended' = ended \/ (ended' # "no" /\ FinalInv')
      BY <3>1 DEF FinalInv, Final
    <3>3. QED
      BY <1>1, <1>2, <2>2, <3>1, <3>2, Standing
  <2>3. CASE s' # s
    <3> DEFINE body == <<"arg">>
    <3>1. s' = BlockDelta(s, Latest, body) /\ ended' = ended /\ frame = "block" /\ frame' = frame
      BY <2>1, <2>3 DEF AnthropicDelta
    <3> HIDE DEF body
    <3>2. Swapped(s, s', Latest, Block(s.blocks[Latest].kind, s.blocks[Latest].body \o body, TRUE))
      BY <1>2, <3>1, Extended
    <3>3. /\ Len(s'.blocks) \in DOMAIN s'.blocks
          /\ \A i \in DOMAIN s'.blocks : s'.blocks[i].open <=> i = Len(s'.blocks)
      BY <1>2, <3>1, <3>2 DEF Swapped, Latest, Block
    <3>4. QED
      BY <1>1, <1>2, <3>1, <3>2, <3>3, OneAtATime DEF Swapped
  <2>4. QED
    BY <2>2, <2>3
<1>8. CASE \E kind \in {"text", "native", "unknown"} : AnthropicBlockStart(kind)
  <2>1. PICK kind \in {"text", "native", "unknown"} : AnthropicBlockStart(kind)
    BY <1>8
  <2>2. frame # "block" /\ ended' = ended
    BY <2>1 DEF AnthropicBlockStart, Within
  <2>3. CASE kind = "unknown"
    BY <1>5, <2>1, <2>2, <2>3 DEF AnthropicBlockStart
  <2>4. CASE kind # "unknown"
    <3> DEFINE n == Len(s.blocks) + 1
               u == BlockStart(s, kind)
    <3>1. s' = u /\ frame' = "block"
      BY <2>1, <2>4 DEF AnthropicBlockStart
    <3>2. /\ Shape(u) /\ u.text = s.text /\ u.think = s.think
          /\ u.thinking = s.thinking /\ u.tool = s.tool
          /\ n \in Nat /\ Len(u.blocks) = n
          /\ DOMAIN s.blocks = 1 .. Len(s.blocks) /\ DOMAIN u.blocks = 1 .. n
          /\ \A i \in DOMAIN s.blocks : u.blocks[i] = s.blocks[i]
          /\ u.blocks[n] = Block(kind, <<>>, TRUE)
      BY <1>2, Started
    <3> HIDE DEF u
    <3>3. \A i \in DOMAIN s.blocks : ~u.blocks[i].open
      BY <1>2, <2>2, <3>2
    <3>4. \A i \in DOMAIN u.blocks : i \in DOMAIN s.blocks \/ i = n
      BY <1>2, <3>2
    <3>5. u.blocks[n].open /\ n \in DOMAIN u.blocks /\ n \notin DOMAIN s.blocks
      <4>1. u.blocks[n].open
        <5> DEFINE c == u.blocks[n]
                   yes == TRUE
        <5>1. c = Block(kind, <<>>, yes)
          BY <3>2
        <5> HIDE DEF c, yes
        <5>2. c.open = yes
          BY <5>1 DEF Block
        <5>3. QED
          BY <5>2 DEF c, yes
      <4>2. n \in 1 .. n /\ n \notin 1 .. Len(s.blocks)
        BY <1>2
      <4>3. QED
        BY <3>2, <4>1, <4>2, Zenon
    <3>6. /\ Len(s'.blocks) \in DOMAIN s'.blocks
          /\ \A i \in DOMAIN s'.blocks : s'.blocks[i].open <=> i = Len(s'.blocks)
      BY <3>1, <3>2, <3>3, <3>4, <3>5
    <3>7. QED
      BY <1>1, <1>2, <2>2, <3>1, <3>2, <3>6, OneAtATime
  <2>5. QED
    BY <2>3, <2>4
<1>9. QED
  BY <1>4, <1>6, <1>7, <1>8

-----------------------------------------------------------------------------
(* The theorems.                                                           *)

LEMMA TypesNext == Inv /\ [Next]_vars => TypesInv'
<1> SUFFICES ASSUME Inv, [Next]_vars PROVE TypesInv'
  OBVIOUS
<1>1. /\ setup \in Setups /\ pos \in 0 .. Len(Text) /\ started \in BOOLEAN
      /\ ended \in {"no", "complete", "noDone", "providerError", "protocolError", "typeError"}
      /\ reasons \in 0 .. MaxReasoning /\ MaxReasoning \in Nat /\ frame \in Frames
  BY StreamAssumption DEF Inv, TypesInv
<1>2. ASSUME setup' = setup, pos' \in 0 .. Len(Text), started' \in BOOLEAN,
             ended' \in {"no", "complete", "noDone", "providerError", "protocolError", "typeError"},
             reasons' \in 0 .. MaxReasoning, frame' \in Frames
      PROVE  TypesInv'
  BY <1>1, <1>2 DEF TypesInv, Text
<1> HIDE DEF Text
<1>3. CASE UNCHANGED vars
  BY <1>1, <1>2, <1>3 DEF vars
<1>4. CASE OpenaiReasoning \/ OllamaReasoning
  <2>1. /\ reasons' = reasons + 1 /\ reasons < MaxReasoning /\ started' = TRUE
        /\ setup' = setup /\ pos' = pos /\ ended' = ended /\ frame' = frame
    BY <1>4 DEF OpenaiReasoning, OllamaReasoning
  <2>2. QED
    BY <1>1, <1>2, <2>1
<1>5. CASE ProviderError \/ OpenaiEnds \/ OllamaDone \/ OllamaCutShort
  <2>1. /\ reasons' = reasons /\ setup' = setup /\ pos' = pos /\ frame' = frame
        /\ started' = started \/ started' = TRUE
        /\ ended' \in {"complete", "noDone", "providerError", "protocolError", "typeError"}
    BY <1>5 DEF ProviderError, OpenaiEnds, OllamaDone, OllamaCutShort
  <2>2. QED
    BY <1>1, <1>2, <2>1
<1>6. ASSUME NEW k \in 1 .. MaxPiece, OpenaiContent(k) \/ OpenaiThinkingContent(k) \/ OllamaContent(k)
      PROVE  TypesInv'
  <2>1. /\ Content(k) /\ ended' \in {ended, "no", "typeError"}
    BY <1>6 DEF OpenaiContent, OpenaiThinkingContent, OllamaContent
  <2>2. started' = TRUE /\ setup' = setup /\ reasons' = reasons /\ frame' = frame
    BY <2>1 DEF Content
  <2>3. QED
    BY <1>1, <1>2, <2>1, <2>2, PieceIsList
<1>7. ASSUME NEW i \in CallIndexes, NEW b \in BOOLEAN,
             OllamaCall(i, b) \/ \E chunk \in {<<>>, <<Len(args[i])>>} : ToolCallDelta(i, b, chunk)
      PROVE  TypesInv'
  <2>1. /\ started' = TRUE /\ setup' = setup /\ reasons' = reasons /\ pos' = pos
        /\ ended' = ended /\ frame' = frame
    BY <1>7 DEF OllamaCall, ToolCallDelta
  <2>2. QED
    BY <1>1, <1>2, <2>1
<1>8. CASE \/ AnthropicMessageStart \/ AnthropicBlockStop \/ AnthropicMessageStop
           \/ AnthropicError \/ AnthropicCutShort
           \/ \E kind \in {"text", "native", "unknown"} : AnthropicBlockStart(kind)
           \/ \E known \in BOOLEAN : AnthropicDelta(known)
  <2>1. /\ setup' = setup /\ pos' = pos /\ reasons' = reasons
        /\ started' = started \/ started' = TRUE
    BY <1>8 DEF AnthropicMessageStart, AnthropicBlockStop, AnthropicMessageStop, AnthropicError,
                AnthropicCutShort, AnthropicBlockStart, AnthropicDelta
  <2>2. frame' \in {frame, "block", "foreign", "outside"}
    BY <1>8 DEF AnthropicMessageStart, AnthropicBlockStop, AnthropicMessageStop, AnthropicError,
                AnthropicCutShort, AnthropicBlockStart, AnthropicDelta
  <2>3. ended' \in {ended, "complete", "noDone", "providerError", "protocolError"}
    BY <1>8 DEF AnthropicMessageStart, AnthropicBlockStop, AnthropicMessageStop, AnthropicError,
                AnthropicCutShort, AnthropicBlockStart, AnthropicDelta
  <2>4. QED
    BY <1>1, <1>2, <2>1, <2>2, <2>3 DEF Frames
<1>9. QED
  BY <1>3, <1>4, <1>5, <1>6, <1>7, <1>8 DEF Next

LEMMA BlocksNext == Inv /\ [Next]_vars => BlocksInv' /\ CallsInv'
<1> SUFFICES ASSUME Inv, [Next]_vars PROVE BlocksInv' /\ CallsInv'
  OBVIOUS
<1>1. BlocksInv /\ CallsInv
  BY DEF Inv
<1>2. CASE UNCHANGED vars
  BY <1>1, <1>2, Standing DEF vars
<1>3. CASE OpenaiReasoning
  <2>1. /\ Reading /\ setup.adapter # "anthropic" /\ ended' = ended
        /\ setup' = setup /\ calls' = calls /\ args' = args
        /\ s' = OpenaiThinking(s, <<"reason">>)
    BY <1>3 DEF OpenaiReasoning, Openai
  <2>2. Good(s, Lasting)
    BY <2>1, ReadingOn
  <2>3. Moves(s, s', Lasting) /\ ended' \notin Final
    BY <2>1, <2>2, OpenaiTextTurns, Moving DEF Reading, Final
  <2>4. QED
    BY <1>1, <2>1, <2>3, Moved
<1>4. CASE OllamaReasoning
  <2>1. /\ Reading /\ setup.adapter # "anthropic" /\ ended' = ended
        /\ setup' = setup /\ calls' = calls /\ args' = args
        /\ s' = AddThinking(s, <<"reason">>)
    BY <1>4 DEF OllamaReasoning, Ollama
  <2>2. Good(s, Lasting)
    BY <2>1, ReadingOn
  <2>3. Moves(s, s', Lasting) /\ ended' \notin Final
    BY <2>1, <2>2, AddingThinking, Moving DEF Reading, Final
  <2>4. QED
    BY <1>1, <2>1, <2>3, Moved
<1>5. CASE ProviderError
  <2>1. UNCHANGED <<setup, s, calls, args, frame>> /\ ended' # "no" /\ FinalInv'
    BY <1>5 DEF ProviderError, FinalInv, Final
  <2>2. QED
    BY <1>1, <2>1, Standing
<1>6. CASE OpenaiEnds \/ OllamaDone \/ OllamaCutShort
  BY <1>6, OpenaiEndsStep, OllamaDoneStep, OllamaCutShortStep
<1>7. ASSUME NEW k \in 1 .. MaxPiece, OpenaiContent(k) \/ OpenaiThinkingContent(k) \/ OllamaContent(k)
      PROVE  BlocksInv' /\ CallsInv'
  BY <1>7, OpenaiContentStep, OllamaContentStep
<1>8. ASSUME NEW i \in CallIndexes, NEW b \in BOOLEAN,
             OllamaCall(i, b) \/ \E chunk \in {<<>>, <<Len(args[i])>>} : ToolCallDelta(i, b, chunk)
      PROVE  BlocksInv' /\ CallsInv'
  BY <1>8, OllamaCallStep, ToolCallDeltaStep
<1>9. CASE \/ AnthropicMessageStart \/ AnthropicBlockStop \/ AnthropicMessageStop
           \/ AnthropicError \/ AnthropicCutShort
           \/ \E kind \in {"text", "native", "unknown"} : AnthropicBlockStart(kind)
           \/ \E known \in BOOLEAN : AnthropicDelta(known)
  BY <1>9, AnthropicSteps
<1>10. QED
  BY <1>2, <1>3, <1>4, <1>5, <1>6, <1>7, <1>8, <1>9 DEF Next

LEMMA Invariance == Spec => []Inv
<1>1. Init => Inv
  BY InitTypes, InitBlocks DEF Inv
<1>2. Inv /\ [Next]_vars => Inv'
  BY TypesNext, BlocksNext DEF Inv
<1>3. QED
  BY <1>1, <1>2, PTL DEF Spec

\* The state of every adapter is well formed and, outside of a block or a call, a parser holds
\* back less than a tag, however the text is cut (_drain, _drain_text, _safe_flush_len).
THEOREM TypesHold == Spec => []TypeOK
<1>1. Inv => TypeOK
  <2> SUFFICES ASSUME Inv PROVE TypeOK
    OBVIOUS
  <2>1. Len(OpenTag) = 3
    BY Tags
  <2>2. TypesInv /\ Shape(s)
    BY DEF Inv, BlocksInv
  <2>3. QED
    BY <2>1, <2>2 DEF TypesInv, Shape, ThinkingHeld, ToolHeld, TypeOK, Frames
<1>2. QED
  BY <1>1, Invariance, PTL

\* Whatever the model writes and wherever the wire ends, no delta goes to a block that is not
\* open and none is stopped twice; a message that is finalized, after "done" or after a wire
\* that just ended, has no open block but the two of BlockProtocol.
THEOREM BlocksOpenAndClose == Spec => []BlockProtocol
<1>1. Inv => BlockProtocol
  BY DEF Inv, BlocksInv, Shape, FinalInv, Final, MayStayOpen, BlockProtocol
<1>2. QED
  BY <1>1, Invariance, PTL

\* The arguments of a native call are all in its block, in order, however its deltas mix with
\* those of another call and whether they come before the name or after it (tool_state).
THEOREM ArgumentsArrive == Spec => []ArgumentsReachTheirCall
<1>1. Inv => ArgumentsReachTheirCall
  BY DEF Inv, CallsInv, ArgumentsReachTheirCall
<1>2. QED
  BY <1>1, Invariance, PTL
==============================================================================
