------------------------- MODULE StreamReadingProofs -------------------------
(* That a complete response has in its blocks what the model wrote, for    *)
(* every response and wherever the stream is cut.                          *)
(*                                                                         *)
(* A reader who sees all of a text decides of each symbol at once whether  *)
(* a tag begins there.  A parser, which sees a piece at a time, has always *)
(* read some first part of the text as this reader does, and holds back    *)
(* the rest of what came.  The reader in turn goes over the symbols as     *)
(* Split and Written go over the words, for a tag is always a word.        *)
EXTENDS StreamPipelineProofs

-----------------------------------------------------------------------------
(* Parts of a list.                                                        *)

LEMMA SameList ==
  ASSUME NEW a, NEW b, IsList(a), IsList(b), Len(a) = Len(b),
         \A i \in 1 .. Len(a) : a[i] = b[i]
  PROVE  a = b
<1>1. PICK S : a \in Seq(S) /\ b \in Seq(S)
  BY Together
<1>2. QED
  BY <1>1, SeqEqual

\* The part of T after its first a symbols, up to the b-th.
Win(T, a, b) == SubSeq(T, a + 1, b)

LEMMA WinFacts ==
  ASSUME NEW T, IsList(T), NEW a \in Nat, NEW b \in Nat, a <= b, b <= Len(T)
  PROVE  /\ IsList(Win(T, a, b)) /\ Len(Win(T, a, b)) = b - a /\ Len(T) \in Nat
         /\ \A i \in 1 .. b - a : Win(T, a, b)[i] = T[a + i]
<1>1. PICK S : T \in Seq(S)
  BY DEF IsList
<1>2. Len(T) \in Nat
  BY ListFacts
<1>3. \A i \in a + 1 .. b : T[i] \in S
  <2>1. \A i \in a + 1 .. b : i \in 1 .. Len(T)
    BY <1>2
  <2>2. QED
    BY <1>1, <2>1, ElementOfSeq
<1>4. a + 1 \in Int /\ b \in Int
  OBVIOUS
<1>5. /\ Win(T, a, b) \in Seq(S)
      /\ Len(Win(T, a, b)) = IF a + 1 <= b THEN b - (a + 1) + 1 ELSE 0
      /\ \A i \in 1 .. b - (a + 1) + 1 : Win(T, a, b)[i] = T[(a + 1) + i - 1]
  BY <1>3, <1>4, SubSeqProperties DEF Win
<1>6. Len(Win(T, a, b)) = b - a
  BY <1>5
<1>7. ASSUME NEW i \in 1 .. b - a PROVE Win(T, a, b)[i] = T[a + i]
  <2>1. i \in 1 .. b - (a + 1) + 1 /\ (a + 1) + i - 1 = a + i
    OBVIOUS
  <2>2. QED
    BY <1>5, <2>1
<1>8. QED
  BY <1>2, <1>5, <1>6, <1>7 DEF IsList

LEMMA WinAll ==
  ASSUME NEW T, IsList(T)
  PROVE  Win(T, 0, Len(T)) = T
<1>1. PICK S : T \in Seq(S)
  BY DEF IsList
<1>2. QED
  BY <1>1, SubSeqFull DEF Win

LEMMA WinNone ==
  ASSUME NEW T, NEW a \in Nat
  PROVE  Win(T, a, a) = <<>>
BY SubSeqEmpty DEF Win

\* A part of a part.
LEMMA WinWin ==
  ASSUME NEW T, IsList(T), NEW a \in Nat, NEW b \in Nat, a <= b, b <= Len(T),
         NEW c \in Nat, NEW d \in Nat, c <= d, d <= b - a
  PROVE  Win(Win(T, a, b), c, d) = Win(T, a + c, a + d)
<1> DEFINE W == Win(T, a, b)
           V == Win(W, c, d)
           U == Win(T, a + c, a + d)
<1>1. IsList(W) /\ Len(W) = b - a /\ \A i \in 1 .. b - a : W[i] = T[a + i]
  BY WinFacts
<1> HIDE DEF W
<1>2. IsList(V) /\ Len(V) = d - c /\ \A i \in 1 .. d - c : V[i] = W[c + i]
  <2>1. IsList(W) /\ d <= Len(W)
    BY <1>1
  <2> HIDE DEF W
  <2>2. QED
    BY <2>1, WinFacts
<1>3. Len(T) \in Nat /\ a + c \in Nat /\ a + d \in Nat /\ a + c <= a + d
  BY ListFacts
<1>4. a + d <= Len(T) /\ (a + d) - (a + c) = d - c
  BY <1>3
<1>5. IsList(U) /\ Len(U) = d - c /\ \A i \in 1 .. d - c : U[i] = T[(a + c) + i]
  <2> DEFINE p == a + c
             q == a + d
  <2>1. p \in Nat /\ q \in Nat /\ p <= q /\ q <= Len(T) /\ q - p = d - c
    BY <1>3, <1>4
  <2> HIDE DEF p, q
  <2>2. /\ IsList(Win(T, p, q)) /\ Len(Win(T, p, q)) = q - p
        /\ \A i \in 1 .. q - p : Win(T, p, q)[i] = T[p + i]
    BY <2>1, WinFacts
  <2>3. QED
    BY <2>1, <2>2 DEF p, q
<1> HIDE DEF V, U
<1>6. ASSUME NEW i \in 1 .. Len(V) PROVE V[i] = U[i]
  <2>1. i \in 1 .. d - c /\ c + i \in 1 .. b - a /\ a + (c + i) = (a + c) + i
    BY <1>2
  <2>2. QED
    BY <1>1, <1>2, <1>5, <2>1
<1>7. V = U
  BY <1>2, <1>5, <1>6, SameList
<1>8. QED
  BY <1>7 DEF V, U, W

\* Two parts that meet.
LEMMA WinJoin ==
  ASSUME NEW T, IsList(T), NEW a \in Nat, NEW b \in Nat, NEW c \in Nat,
         a <= b, b <= c, c <= Len(T)
  PROVE  Win(T, a, b) \o Win(T, b, c) = Win(T, a, c)
<1>1. PICK S : T \in Seq(S)
  BY DEF IsList
<1>2. Len(T) \in Nat
  BY ListFacts
<1>3. a + 1 \in 1 .. Len(T) + 1 /\ b \in (a + 1) - 1 .. Len(T) /\ c \in b .. Len(T)
  BY <1>2
<1>4. QED
  BY <1>1, <1>3, ConcatAdjacentSubSeq DEF Win

\* A part and the symbol after it.
LEMMA WinNext ==
  ASSUME NEW T, IsList(T), NEW a \in Nat, NEW b \in Nat, a <= b, b + 1 <= Len(T)
  PROVE  /\ Win(T, b, b + 1) = <<T[b + 1]>>
         /\ Win(T, a, b + 1) = Append(Win(T, a, b), T[b + 1])
<1>1. b + 1 \in Nat /\ b <= b + 1 /\ b <= Len(T) /\ a <= b + 1 /\ Len(T) \in Nat
  BY ListFacts
<1>2. /\ IsList(Win(T, b, b + 1)) /\ Len(Win(T, b, b + 1)) = 1
      /\ Win(T, b, b + 1)[1] = T[b + 1]
  <2> DEFINE c == b + 1
  <2>1. c \in Nat /\ b <= c /\ c <= Len(T) /\ c - b = 1 /\ 1 \in 1 .. c - b
    BY <1>1
  <2> HIDE DEF c
  <2>2. /\ IsList(Win(T, b, c)) /\ Len(Win(T, b, c)) = c - b
        /\ \A i \in 1 .. c - b : Win(T, b, c)[i] = T[b + i]
    BY <2>1, WinFacts
  <2>3. QED
    BY <2>1, <2>2 DEF c
<1>3. IsList(<<T[b + 1]>>) /\ Len(<<T[b + 1]>>) = 1 /\ <<T[b + 1]>>[1] = T[b + 1]
  <2>1. <<T[b + 1]>> \in Seq({T[b + 1]})
    OBVIOUS
  <2>2. QED
    BY <2>1 DEF IsList
<1>4. Win(T, b, b + 1) = <<T[b + 1]>>
  <2> DEFINE A == Win(T, b, b + 1)
             B == <<T[b + 1]>>
  <2> HIDE DEF A, B
  <2>1. /\ IsList(A) /\ IsList(B) /\ Len(A) = 1 /\ Len(B) = 1 /\ A[1] = B[1]
    BY <1>2, <1>3 DEF A, B
  <2>2. A = B
    BY <2>1, SameList
  <2>3. QED
    BY <2>2 DEF A, B
<1>5. Win(T, a, b) \o Win(T, b, b + 1) = Win(T, a, b + 1)
  BY <1>1, WinJoin
<1>6. Win(T, a, b) \o <<T[b + 1]>> = Append(Win(T, a, b), T[b + 1])
  <2>1. IsList(Win(T, a, b))
    BY <1>1, WinFacts
  <2>2. PICK S : Win(T, a, b) \in Seq(S)
    BY <2>1 DEF IsList
  <2>3. Win(T, a, b) \in Seq(S \cup {T[b + 1]})
    BY <2>2, SeqMonotonic
  <2>4. QED
    BY <2>3, AppendIsConcat
<1>7. QED
  BY <1>4, <1>5, <1>6

-----------------------------------------------------------------------------
(* Where a tag is, and where it may begin.                                 *)

TagAt(T, n, tag) == n + 2 <= Len(T) /\ T[n] = tag[1] /\ T[n + 1] = tag[2] /\ T[n + 2] = tag[3]

\* As far as T goes, a tag is at n.
Begins(T, n, tag) ==
  /\ T[n] = tag[1]
  /\ n + 1 <= Len(T) => T[n + 1] = tag[2]
  /\ n + 2 <= Len(T) => T[n + 2] = tag[3]

LEMMA LeastIsLeast ==
  ASSUME NEW T \in SUBSET Nat, NEW i \in T
  PROVE  (CHOOSE k \in T : \A j \in T : k <= j) <= i
<1> DEFINE P(k) == \A j \in T : k <= j
           Less == {ss \in Nat \X Nat : ss[1] < ss[2]}
<1>1. PICK x \in T : \A y \in T : ~(<<y, x>> \in Less)
  <2>1. IsWellFoundedOn(Less, Nat)
    BY NatLessThanWellFounded DEF OpToRel
  <2> HIDE DEF Less
  <2>2. QED
    BY <2>1, WFMin
<1>2. P(x)
  <2> SUFFICES ASSUME NEW y \in T PROVE x <= y
    OBVIOUS
  <2>1. x \in Nat /\ y \in Nat
    OBVIOUS
  <2>2. ~(y < x)
    BY <1>1, <2>1
  <2>3. QED
    BY <2>1, <2>2
<1>3. QED
  BY <1>2

\* A tag as a list.
IsTag(tag) == IsList(tag) /\ Len(tag) = 3

LEMMA TagThere ==
  ASSUME NEW T, IsList(T), NEW tag, IsTag(tag), NEW n \in 1 .. Len(T), n + 2 <= Len(T)
  PROVE  SubSeq(T, n, n + 2) = tag <=> TagAt(T, n, tag)
<1> DEFINE W == Win(T, n - 1, n + 2)
<1>1. Len(T) \in Nat /\ IsList(tag) /\ Len(tag) = 3
  BY ListFacts DEF IsTag
<1>2. SubSeq(T, n, n + 2) = W
  <2>1. (n - 1) + 1 = n
    BY <1>1
  <2>2. QED
    BY <2>1 DEF Win
<1>3. IsList(W) /\ Len(W) = 3 /\ W[1] = T[n] /\ W[2] = T[n + 1] /\ W[3] = T[n + 2]
  <2> DEFINE a == n - 1
             b == n + 2
  <2>1. a \in Nat /\ b \in Nat /\ a <= b /\ b <= Len(T) /\ b - a = 3
        /\ 1 \in 1 .. b - a /\ 2 \in 1 .. b - a /\ 3 \in 1 .. b - a
        /\ a + 1 = n /\ a + 2 = n + 1 /\ a + 3 = n + 2
    BY <1>1
  <2> HIDE DEF a, b
  <2>2. /\ IsList(Win(T, a, b)) /\ Len(Win(T, a, b)) = b - a
        /\ \A i \in 1 .. b - a : Win(T, a, b)[i] = T[a + i]
    BY <2>1, WinFacts
  <2>3. /\ IsList(Win(T, a, b)) /\ Len(Win(T, a, b)) = 3
        /\ Win(T, a, b)[1] = T[n] /\ Win(T, a, b)[2] = T[n + 1] /\ Win(T, a, b)[3] = T[n + 2]
    BY <2>1, <2>2
  <2>4. QED
    BY <2>3 DEF a, b
<1> HIDE DEF W
<1>4. ASSUME W[1] = tag[1], W[2] = tag[2], W[3] = tag[3] PROVE W = tag
  <2>1. \A i \in 1 .. Len(W) : i = 1 \/ i = 2 \/ i = 3
    BY <1>3
  <2>2. QED
    BY <1>1, <1>3, <1>4, <2>1, SameList
<1>5. QED
  BY <1>2, <1>3, <1>4 DEF TagAt

LEMMA Finds ==
  ASSUME NEW buf, IsList(buf), NEW tag, IsTag(tag)
  PROVE  /\ Find(buf, tag) # 0 => TagAt(buf, Find(buf, tag), tag)
         /\ \A i \in 1 .. Len(buf) : TagAt(buf, i, tag) => Find(buf, tag) # 0 /\ Find(buf, tag) <= i
<1> DEFINE at == Places(buf, tag)
<1>1. Len(buf) \in Nat /\ DOMAIN buf = 1 .. Len(buf) /\ Len(tag) = 3
  BY ListFacts DEF IsTag
<1>2. \A i : i \in at <=> /\ i \in 1 .. Len(buf) /\ i + 2 <= Len(buf)
                          /\ SubSeq(buf, i, i + 2) = tag
  <2> TAKE i
  <2>1. ASSUME i \in 1 .. Len(buf) PROVE i + Len(tag) - 1 = i + 2
    BY <1>1, <2>1
  <2>2. QED
    BY <1>1, <2>1 DEF Places
<1>3. \A i : i \in at <=> i \in 1 .. Len(buf) /\ TagAt(buf, i, tag)
  <2> TAKE i
  <2>1. CASE i \in 1 .. Len(buf) /\ i + 2 <= Len(buf)
    BY <1>2, <2>1, TagThere
  <2>2. CASE ~(i \in 1 .. Len(buf) /\ i + 2 <= Len(buf))
    BY <1>2, <2>2 DEF TagAt
  <2>3. QED
    BY <2>1, <2>2
<1> HIDE DEF at
<1>4. at \in SUBSET Nat
  BY <1>1, <1>3
<1>5. Find(buf, tag) = IF at = {} THEN 0 ELSE CHOOSE i \in at : \A j \in at : i <= j
  BY DEF Find, at
<1>6. Find(buf, tag) # 0 => Find(buf, tag) \in at
  BY <1>4, <1>5, Least
<1>7. \A i \in at : Find(buf, tag) # 0 /\ Find(buf, tag) <= i
  <2> TAKE i \in at
  <2> DEFINE k == CHOOSE m \in at : \A j \in at : m <= j
  <2>1. Find(buf, tag) = k
    BY <1>5
  <2>2. k <= i /\ k \in at
    BY <1>4, LeastIsLeast, Least
  <2> HIDE DEF k
  <2>3. k # 0
    BY <1>3, <2>2
  <2>4. QED
    BY <2>1, <2>2, <2>3
<1>8. QED
  BY <1>3, <1>6, <1>7

LEMMA LongestIsLongest ==
  ASSUME NEW K \in SUBSET (0 .. 2), NEW i \in K
  PROVE  i <= (CHOOSE k \in K : \A j \in K : j <= k)
<1>1. \E k \in K : \A j \in K : j <= k
  <2>1. CASE 2 \in K
    BY <2>1
  <2>2. CASE 2 \notin K /\ 1 \in K
    BY <2>2
  <2>3. CASE 2 \notin K /\ 1 \notin K
    <3>1. \A k \in K : k = 0
      BY <2>3
    <3>2. QED
      BY <3>1
  <2>4. QED
    BY <2>1, <2>2, <2>3
<1>2. QED
  BY <1>1

\* What is not held back begins no tag.
LEMMA Flushes ==
  ASSUME NEW buf, IsList(buf), NEW tag, IsTag(tag), Find(buf, tag) = 0,
         NEW i \in 1 .. Len(buf), i <= SafeFlushLen(buf, tag)
  PROVE  ~Begins(buf, i, tag)
<1> SUFFICES ASSUME Begins(buf, i, tag) PROVE FALSE
  OBVIOUS
<1>1. Len(buf) \in Nat /\ IsList(tag) /\ Len(tag) = 3
  BY ListFacts DEF IsTag
<1>2. ~(i + 2 <= Len(buf))
  <2>1. ASSUME i + 2 <= Len(buf) PROVE TagAt(buf, i, tag)
    <3>1. i + 1 <= Len(buf)
      BY <1>1, <2>1
    <3>2. QED
      BY <2>1, <3>1 DEF Begins, TagAt
  <2>2. QED
    BY <2>1, Finds
<1> DEFINE j == Len(buf) - i + 1
           K == Partial(buf, tag)
           k == CHOOSE m \in K : \A n \in K : n <= m
<1>3. j \in 1 .. 2 /\ j <= Len(buf) /\ Len(buf) - j + 1 = i
  BY <1>1, <1>2
<1>4. SubSeq(buf, Len(buf) - j + 1, Len(buf)) = SubSeq(tag, 1, j)
  <2> DEFINE A == Win(buf, i - 1, Len(buf))
             B == Win(tag, 0, j)
  <2>1. A = SubSeq(buf, i, Len(buf)) /\ B = SubSeq(tag, 1, j)
    <3>1. (i - 1) + 1 = i /\ 0 + 1 = 1
      OBVIOUS
    <3>2. QED
      BY <3>1 DEF Win
  <2>2. IsList(A) /\ Len(A) = j /\ A[1] = buf[i] /\ (j = 2 => A[2] = buf[i + 1])
    <3> DEFINE a == i - 1
               b == Len(buf)
    <3>1. a \in Nat /\ b \in Nat /\ a <= b /\ b <= Len(buf) /\ b - a = j
          /\ 1 \in 1 .. b - a /\ (j = 2 => 2 \in 1 .. b - a)
          /\ a + 1 = i /\ a + 2 = i + 1
      BY <1>1, <1>3
    <3> HIDE DEF a, b, j
    <3>2. /\ IsList(Win(buf, a, b)) /\ Len(Win(buf, a, b)) = b - a
          /\ \A n \in 1 .. b - a : Win(buf, a, b)[n] = buf[a + n]
      BY <3>1, WinFacts, ZenonT(40)
    <3>3. /\ IsList(Win(buf, a, b)) /\ Len(Win(buf, a, b)) = j
          /\ Win(buf, a, b)[1] = buf[i] /\ (j = 2 => Win(buf, a, b)[2] = buf[i + 1])
      BY <3>1, <3>2
    <3>4. QED
      BY <3>3 DEF a, b
  <2>3. IsList(B) /\ Len(B) = j /\ B[1] = tag[1] /\ (j = 2 => B[2] = tag[2])
    <3> HIDE DEF j
    <3> DEFINE z == 0
    <3>1. j \in Nat /\ z \in Nat /\ z <= j /\ j <= Len(tag) /\ j - z = j
          /\ 1 \in 1 .. j - z /\ (j = 2 => 2 \in 1 .. j - z) /\ z + 1 = 1 /\ z + 2 = 2
          /\ IsList(tag)
      BY <1>1, <1>3
    <3> HIDE DEF z
    <3>2. /\ IsList(Win(tag, z, j)) /\ Len(Win(tag, z, j)) = j - z
          /\ \A n \in 1 .. j - z : Win(tag, z, j)[n] = tag[z + n]
      BY <3>1, WinFacts, ZenonT(40)
    <3>3. QED
      BY <3>1, <3>2 DEF z
  <2>4. j = 2 => i + 1 <= Len(buf)
    BY <1>1
  <2>5. A[1] = B[1] /\ (j = 2 => A[2] = B[2])
    BY <2>2, <2>3, <2>4 DEF Begins
  <2> HIDE DEF A, B
  <2>6. \A n \in 1 .. Len(A) : n = 1 \/ (j = 2 /\ n = 2)
    BY <1>3, <2>2
  <2> HIDE DEF j
  <2>7. A = B
    BY <2>2, <2>3, <2>5, <2>6, SameList
  <2>8. QED
    BY <1>3, <2>1, <2>7
<1>5. j \in K
  <2>1. j \in 0 .. Len(tag) - 1
    BY <1>1, <1>3
  <2> HIDE DEF j
  <2>2. QED
    BY <1>3, <1>4, <2>1 DEF Partial
<1>6. K \in SUBSET (0 .. 2)
  BY <1>1 DEF Partial
<1>7. SafeFlushLen(buf, tag) = Len(buf) - k
  BY DEF SafeFlushLen
<1> HIDE DEF K
<1>8. j <= k /\ k \in K
  <2> HIDE DEF j
  <2>1. QED
    BY <1>5, <1>6, LongestIsLongest, Longest
<1> HIDE DEF k
<1>9. k \in 0 .. 2
  BY <1>6, <1>8
<1>10. QED
  BY <1>1, <1>3, <1>7, <1>8, <1>9

-----------------------------------------------------------------------------
(* The reader of thinking tags.                                            *)

Heard(close, skip, outer, inner) ==
  [close |-> close, skip |-> skip, outer |-> outer, inner |-> inner]

\* What the n-th symbol of T makes of r: skip is how much of a tag is still to come.
Hears(T, r, n) ==
  IF r.skip # 0 THEN Heard(r.close, r.skip - 1, r.outer, r.inner)
  ELSE IF r.close = NoTag
  THEN IF TagAt(T, n, Think1.open) THEN Heard(Think1.close, 2, r.outer, r.inner)
       ELSE IF TagAt(T, n, Think2.open) THEN Heard(Think2.close, 2, r.outer, r.inner)
       ELSE Heard(NoTag, 0, Append(r.outer, T[n]), r.inner)
  ELSE IF TagAt(T, n, r.close) THEN Heard(NoTag, 2, r.outer, r.inner)
  ELSE Heard(r.close, 0, r.outer, Append(r.inner, T[n]))

HeardOK(r) ==
  /\ r = Heard(r.close, r.skip, r.outer, r.inner)
  /\ r.close \in {NoTag, Think1.close, Think2.close} /\ r.skip \in 0 .. 2
  /\ IsList(r.outer) /\ IsList(r.inner)

HearSteps(T) == Len(T)
HearStart(T) == Heard(NoTag, 0, <<>>, <<>>)
HearStep(T, r, n) == Hears(T, r, n)
HearHolds(T, r, n) == HeardOK(r)
Hearing == INSTANCE Unfolding
  WITH Steps <- HearSteps, Start <- HearStart, Step <- HearStep, Holds <- HearHolds

\* What has been heard after n symbols of T.
HeardAt(T, n) == Hearing!At(T)[n]

LEMMA HeardFields ==
  ASSUME NEW close, NEW skip, NEW outer, NEW inner
  PROVE  LET r == Heard(close, skip, outer, inner) IN
         r.close = close /\ r.skip = skip /\ r.outer = outer /\ r.inner = inner
BY DEF Heard

LEMMA HearingOn ==
  ASSUME NEW T, IsList(T)
  PROVE  /\ HeardAt(T, 0) = Heard(NoTag, 0, <<>>, <<>>)
         /\ \A n \in 1 .. Len(T) : HeardAt(T, n) = Hears(T, HeardAt(T, n - 1), n)
<1>1. HearSteps(T) \in Nat
  BY ListFacts DEF HearSteps
<1>2. QED
  BY <1>1, Hearing!Unfolds DEF HeardAt, HearSteps, HearStart, HearStep

LEMMA TagLists ==
  /\ \A t \in ThinkingTags : IsTag(t.open) /\ IsTag(t.close) /\ t.open # NoTag /\ t.close # NoTag
  /\ IsTag(OpenTag) /\ IsTag(CloseTag)
  /\ Think1 \in ThinkingTags /\ Think2 \in ThinkingTags
<1>1. ASSUME NEW a, NEW b, NEW c PROVE IsTag(<<a, b, c>>)
  <2>1. <<a, b, c>> \in Seq({a, b, c}) /\ Len(<<a, b, c>>) = 3
    OBVIOUS
  <2>2. IsList(<<a, b, c>>)
    BY <2>1, Zenon DEF IsList
  <2>3. QED
    BY <2>1, <2>2 DEF IsTag
<1>2. IsTag(OpenTag) /\ IsTag(CloseTag)
  BY <1>1 DEF OpenTag, CloseTag
<1>3. IsTag(Think1.open) /\ IsTag(Think1.close) /\ IsTag(Think2.open) /\ IsTag(Think2.close)
  BY <1>1 DEF Think1, Think2
<1>4. QED
  BY <1>2, <1>3, Tags

LEMMA HeardIsOK ==
  ASSUME NEW T, IsList(T), NEW n \in 0 .. Len(T)
  PROVE  HeardOK(HeardAt(T, n))
<1>1. HearSteps(T) \in Nat /\ HearSteps(T) = Len(T)
  BY ListFacts DEF HearSteps
<1>2. HearHolds(T, HearStart(T), 0)
  BY EmptyIsList, HeardFields DEF HearHolds, HearStart, HeardOK
<1>3. ASSUME NEW r, HeardOK(r), NEW k PROVE HeardOK(Hears(T, r, k))
  <2>1. IsList(Append(r.outer, T[k])) /\ IsList(Append(r.inner, T[k]))
    BY <1>3, Grows DEF HeardOK
  <2>2. r.skip # 0 => r.skip - 1 \in 0 .. 2
    BY <1>3 DEF HeardOK
  <2>3. ASSUME NEW close \in {NoTag, Think1.close, Think2.close}, NEW skip \in 0 .. 2,
               NEW outer, NEW inner, IsList(outer), IsList(inner)
        PROVE  HeardOK(Heard(close, skip, outer, inner))
    BY <2>3, HeardFields DEF HeardOK
  <2>4. IsList(r.outer) /\ IsList(r.inner) /\ r.close \in {NoTag, Think1.close, Think2.close}
    BY <1>3 DEF HeardOK
  <2>5. 0 \in 0 .. 2 /\ 2 \in 0 .. 2
    OBVIOUS
  <2>6. CASE r.skip # 0
    BY <2>2, <2>3, <2>4, <2>6 DEF Hears
  <2>7. CASE r.skip = 0
    BY <2>1, <2>3, <2>4, <2>5, <2>7 DEF Hears
  <2>8. QED
    BY <2>6, <2>7
<1>4. \A r, k : k \in 1 .. HearSteps(T) /\ HearHolds(T, r, k - 1) => HearHolds(T, HearStep(T, r, k), k)
  BY <1>3 DEF HearHolds, HearStep
<1>5. \A k \in 0 .. HearSteps(T) : HearHolds(T, Hearing!At(T)[k], k)
  BY <1>1, <1>2, <1>4, Hearing!Keeping
<1>6. QED
  BY <1>1, <1>5 DEF HearHolds, HeardAt

LEMMA JoinAppend ==
  ASSUME NEW a, NEW b, IsList(a), IsList(b), NEW x
  PROVE  a \o Append(b, x) = Append(a \o b, x)
<1>1. PICK S : a \in Seq(S) /\ b \in Seq(S)
  BY Together
<1> DEFINE U == S \cup {x}
<1>2. a \in Seq(U) /\ b \in Seq(U) /\ <<x>> \in Seq(U)
  BY <1>1, SeqMonotonic
<1> HIDE DEF U
<1>3. Append(b, x) = b \o <<x>> /\ a \o b \in Seq(U)
  BY <1>2, AppendIsConcat, ConcatProperties
<1>4. Append(a \o b, x) = (a \o b) \o <<x>>
  <2>1. x \in U
    BY DEF U
  <2>2. QED
    BY <1>3, <2>1, AppendIsConcat
<1>5. QED
  BY <1>2, <1>3, <1>4, ConcatAssociative

LEMMA JoinJoin ==
  ASSUME NEW a, NEW b, NEW c, IsList(a), IsList(b), IsList(c)
  PROVE  (a \o b) \o c = a \o (b \o c)
<1>1. PICK S : a \in Seq(S) /\ b \in Seq(S)
  BY Together
<1>2. PICK U : c \in Seq(U)
  BY DEF IsList
<1>3. a \in Seq(S \cup U) /\ b \in Seq(S \cup U) /\ c \in Seq(S \cup U)
  BY <1>1, <1>2, SeqMonotonic
<1>4. QED
  BY <1>3, ConcatAssociative

\* Symbols q + 1 to e, at which no tag begins that would matter.
LEMMA HearRun ==
  ASSUME NEW T, IsList(T), NEW q \in Nat, NEW e \in Nat, q <= e, e <= Len(T),
         NEW r, r = HeardAt(T, q), r.skip = 0,
         \A n \in q + 1 .. e :
           IF r.close = NoTag THEN ~TagAt(T, n, Think1.open) /\ ~TagAt(T, n, Think2.open)
           ELSE ~TagAt(T, n, r.close)
  PROVE  HeardAt(T, e) = IF r.close = NoTag
                         THEN Heard(r.close, 0, r.outer \o Win(T, q, e), r.inner)
                         ELSE Heard(r.close, 0, r.outer, r.inner \o Win(T, q, e))
<1> DEFINE W(j) == Win(T, q, q + j)
           R(j) == IF r.close = NoTag THEN Heard(r.close, 0, r.outer \o W(j), r.inner)
                   ELSE Heard(r.close, 0, r.outer, r.inner \o W(j))
           S == {j \in Nat : q + j <= e => HeardAt(T, q + j) = R(j)}
<1>1. Len(T) \in Nat /\ q \in 0 .. Len(T)
  BY ListFacts
<1>2. HeardOK(r)
  BY <1>1, HeardIsOK
<1>3. 0 \in S
  <2>1. W(0) = <<>>
    BY WinNone
  <2>2. r.outer \o <<>> = r.outer /\ r.inner \o <<>> = r.inner
    BY <1>2, JoinsEmpty DEF HeardOK
  <2>3. R(0) = Heard(r.close, 0, r.outer, r.inner)
    BY <2>1, <2>2
  <2> HIDE DEF R
  <2>4. R(0) = r /\ q + 0 = q
    BY <1>2, <2>3 DEF HeardOK
  <2>5. QED
    BY <2>4
<1>4. ASSUME NEW j \in S PROVE j + 1 \in S
  <2>1. CASE q + (j + 1) <= e
    <3> DEFINE n == q + j
    <3>1. /\ n \in Nat /\ q <= n /\ n + 1 <= e /\ n <= e /\ n + 1 <= Len(T) /\ j \in Nat
          /\ q + (j + 1) = n + 1 /\ n + 1 \in q + 1 .. e /\ n + 1 \in 1 .. Len(T)
          /\ (n + 1) - 1 = n
      BY <1>1, <2>1
    <3>2. HeardAt(T, n) = R(j)
      BY <3>1
    <3>3. W(j + 1) = Append(W(j), T[n + 1])
      <4>1. Win(T, q, n + 1) = Append(Win(T, q, n), T[n + 1])
        BY <3>1, WinNext
      <4>2. QED
        BY <3>1, <4>1
    <3>4. IsList(W(j))
      BY <1>1, <3>1, WinFacts
    <3>5. HeardAt(T, n + 1) = Hears(T, R(j), n + 1)
      BY <3>1, <3>2, HearingOn
    <3> DEFINE outer == r.outer \o W(j)
               inner == r.inner \o W(j)
    <3>6. /\ r.outer \o W(j + 1) = Append(outer, T[n + 1])
          /\ r.inner \o W(j + 1) = Append(inner, T[n + 1])
      <4>1. IsList(r.outer) /\ IsList(r.inner)
        BY <1>2 DEF HeardOK
      <4> DEFINE w == W(j)
                 c == T[n + 1]
                 a == r.outer
                 b == r.inner
      <4>2. W(j + 1) = Append(w, c) /\ IsList(w)
        BY <3>3, <3>4
      <4> HIDE DEF w, c, a, b, R, S, W
      <4>3. IsList(a) /\ IsList(b)
        BY <4>1 DEF a, b
      <4>4. a \o Append(w, c) = Append(a \o w, c)
        BY <4>2, <4>3, JoinAppend
      <4>5. b \o Append(w, c) = Append(b \o w, c)
        BY <4>2, <4>3, JoinAppend
      <4>6. QED
        BY <4>2, <4>4, <4>5 DEF w, c, a, b
    <3>7. Hears(T, R(j), n + 1) = R(j + 1)
      <4>1. CASE r.close = NoTag
        <5>1. ~TagAt(T, n + 1, Think1.open) /\ ~TagAt(T, n + 1, Think2.open)
          BY <3>1, <4>1
        <5> DEFINE x == Heard(r.close, 0, outer, r.inner)
        <5>2. R(j) = x /\ R(j + 1) = Heard(NoTag, 0, Append(outer, T[n + 1]), r.inner)
          BY <3>6, <4>1
        <5> HIDE DEF outer, R, n
        <5>3. x.close = NoTag /\ x.skip = 0 /\ x.outer = outer /\ x.inner = r.inner
          BY <4>1, HeardFields
        <5> HIDE DEF x
        <5>4. Hears(T, x, n + 1) = Heard(NoTag, 0, Append(x.outer, T[n + 1]), x.inner)
          BY <5>1, <5>3 DEF Hears
        <5>5. QED
          BY <5>2, <5>3, <5>4
      <4>2. CASE r.close # NoTag
        <5>1. ~TagAt(T, n + 1, r.close)
          BY <3>1, <4>2
        <5> DEFINE x == Heard(r.close, 0, r.outer, inner)
        <5>2. R(j) = x /\ R(j + 1) = Heard(r.close, 0, r.outer, Append(inner, T[n + 1]))
          BY <3>6, <4>2
        <5> HIDE DEF inner, R, n
        <5>3. x.close = r.close /\ x.skip = 0 /\ x.outer = r.outer /\ x.inner = inner
          BY HeardFields
        <5> HIDE DEF x
        <5>4. Hears(T, x, n + 1) = Heard(r.close, 0, x.outer, Append(x.inner, T[n + 1]))
          BY <4>2, <5>1, <5>3 DEF Hears
        <5>5. QED
          BY <5>2, <5>3, <5>4
      <4>3. QED
        BY <4>1, <4>2
    <3> HIDE DEF R
    <3>8. QED
      BY <3>1, <3>5, <3>7
  <2>2. CASE ~(q + (j + 1) <= e)
    BY <2>2
  <2>3. QED
    BY <2>1, <2>2
<1>5. S \in SUBSET Nat
  OBVIOUS
<1>6. e - q \in S
  <2> HIDE DEF S
  <2>1. e - q \in Nat
    OBVIOUS
  <2>2. QED
    BY <1>3, <1>4, <1>5, <2>1, Hearing!Stepwise
<1>7. q + (e - q) = e /\ e - q \in Nat
  OBVIOUS
<1> HIDE DEF R
<1>8. HeardAt(T, e) = R(e - q)
  BY <1>6, <1>7
<1>9. QED
  BY <1>7, <1>8 DEF R

LEMMA TagsDiffer ==
  /\ \A T, n : ~(TagAt(T, n, Think1.open) /\ TagAt(T, n, Think2.open))
  /\ Think1.open # Think2.open
<1>1. Think1.open[2] = "think" /\ Think2.open[2] = "thought"
  BY DEF Think1, Think2
<1>2. QED
  BY <1>1 DEF TagAt

\* A tag after the first q symbols.
LEMMA HearTag ==
  ASSUME NEW T, IsList(T), NEW q \in Nat, q + 3 <= Len(T),
         NEW r, r = HeardAt(T, q), r.skip = 0
  PROVE  /\ \A t \in ThinkingTags : r.close = NoTag /\ TagAt(T, q + 1, t.open)
              => HeardAt(T, q + 3) = Heard(t.close, 0, r.outer, r.inner)
         /\ r.close # NoTag /\ TagAt(T, q + 1, r.close)
              => HeardAt(T, q + 3) = Heard(NoTag, 0, r.outer, r.inner)
<1>1. /\ Len(T) \in Nat /\ q \in 0 .. Len(T)
      /\ q + 1 \in 1 .. Len(T) /\ q + 2 \in 1 .. Len(T) /\ q + 3 \in 1 .. Len(T)
      /\ (q + 1) - 1 = q /\ (q + 2) - 1 = q + 1 /\ (q + 3) - 1 = q + 2
  BY ListFacts
<1>2. /\ HeardAt(T, q + 1) = Hears(T, r, q + 1)
      /\ HeardAt(T, q + 2) = Hears(T, HeardAt(T, q + 1), q + 2)
      /\ HeardAt(T, q + 3) = Hears(T, HeardAt(T, q + 2), q + 3)
  BY <1>1, HearingOn
<1>3. ASSUME NEW close, HeardAt(T, q + 1) = Heard(close, 2, r.outer, r.inner)
      PROVE  HeardAt(T, q + 3) = Heard(close, 0, r.outer, r.inner)
  <2>1. HeardAt(T, q + 2) = Heard(close, 1, r.outer, r.inner)
    <3> DEFINE x == Heard(close, 2, r.outer, r.inner)
    <3>1. x.close = close /\ x.skip = 2 /\ x.outer = r.outer /\ x.inner = r.inner
      BY HeardFields
    <3>2. HeardAt(T, q + 2) = Hears(T, x, q + 2)
      BY <1>2, <1>3
    <3> HIDE DEF x
    <3>3. QED
      BY <3>1, <3>2 DEF Hears
  <2> DEFINE x == Heard(close, 1, r.outer, r.inner)
  <2>2. x.close = close /\ x.skip = 1 /\ x.outer = r.outer /\ x.inner = r.inner
    BY HeardFields
  <2>3. HeardAt(T, q + 3) = Hears(T, x, q + 3)
    BY <1>2, <2>1
  <2> HIDE DEF x
  <2>4. QED
    BY <2>2, <2>3 DEF Hears
<1>4. ASSUME NEW t \in ThinkingTags, r.close = NoTag, TagAt(T, q + 1, t.open)
      PROVE  Hears(T, r, q + 1) = Heard(t.close, 2, r.outer, r.inner)
  <2>1. CASE t = Think1
    BY <1>4, <2>1 DEF Hears
  <2>2. CASE t = Think2
    BY <1>4, <2>2, TagsDiffer DEF Hears
  <2>3. QED
    BY <2>1, <2>2, Tags
<1>5. ASSUME r.close # NoTag, TagAt(T, q + 1, r.close)
      PROVE  Hears(T, r, q + 1) = Heard(NoTag, 2, r.outer, r.inner)
  BY <1>5 DEF Hears
<1>6. QED
  BY <1>2, <1>3, <1>4, <1>5
-----------------------------------------------------------------------------
(* A buffer: the part of T that has come, up to e, and is not yet read.    *)

LEMMA InBuffer ==
  ASSUME NEW T, IsList(T), NEW q \in Nat, NEW e \in Nat, q <= e, e <= Len(T), NEW tag,
         NEW i \in 1 .. e - q
  PROVE  /\ TagAt(Win(T, q, e), i, tag) <=> i + 2 <= e - q /\ TagAt(T, q + i, tag)
         /\ TagAt(T, q + i, tag) => Begins(Win(T, q, e), i, tag)
<1> DEFINE W == Win(T, q, e)
<1>1. Len(W) = e - q /\ Len(T) \in Nat /\ \A j \in 1 .. e - q : W[j] = T[q + j]
  BY WinFacts
<1> HIDE DEF W
<1>2. W[i] = T[q + i]
  BY <1>1
<1>3. i + 1 <= e - q => W[i + 1] = T[(q + i) + 1]
  <2>1. i + 1 <= e - q => i + 1 \in 1 .. e - q /\ q + (i + 1) = (q + i) + 1
    OBVIOUS
  <2>2. QED
    BY <1>1, <2>1
<1>4. i + 2 <= e - q => W[i + 2] = T[(q + i) + 2]
  <2>1. i + 2 <= e - q => i + 2 \in 1 .. e - q /\ q + (i + 2) = (q + i) + 2
    OBVIOUS
  <2>2. QED
    BY <1>1, <2>1
<1>5. i + 2 <= e - q => i + 1 <= e - q /\ (q + i) + 2 <= Len(T)
  BY <1>1
<1>6. TagAt(W, i, tag) <=> i + 2 <= e - q /\ TagAt(T, q + i, tag)
  BY <1>1, <1>2, <1>3, <1>4, <1>5 DEF TagAt
<1>7. TagAt(T, q + i, tag) => Begins(W, i, tag)
  BY <1>1, <1>2, <1>3, <1>4 DEF TagAt, Begins
<1>8. QED
  BY <1>6, <1>7 DEF W

\* Symbols q + 1 to e, cut after the first n.
CutAfter(T, q, e, n) ==
  After(Win(T, q, e), n) = Win(T, q + n, e) /\ SubSeq(Win(T, q, e), 1, n) = Win(T, q, q + n)

\* How a pass cuts it.
LEMMA BufferCuts ==
  ASSUME NEW T, IsList(T), NEW q \in Nat, NEW e \in Nat, q <= e, e <= Len(T), NEW n \in 0 .. e - q
  PROVE  /\ CutAfter(T, q, e, n)
         /\ n # 0 => Before(Win(T, q, e), n) = Win(T, q, q + (n - 1))
<1> DEFINE W == Win(T, q, e)
<1>1. IsList(W) /\ Len(W) = e - q
  BY WinFacts
<1>2. ASSUME NEW a \in Nat, NEW b \in Nat, a <= b, b <= e - q
      PROVE  SubSeq(W, a + 1, b) = Win(T, q + a, q + b)
  <2>1. Win(W, a, b) = Win(T, q + a, q + b)
    BY <1>2, WinWin
  <2> HIDE DEF W
  <2>2. QED
    BY <2>1 DEF Win
<1>3. After(W, n) = Win(T, q + n, e)
  <2> DEFINE b == e - q
  <2>1. n \in Nat /\ b \in Nat /\ n <= b /\ b <= e - q /\ q + b = e
    OBVIOUS
  <2>2. After(W, n) = SubSeq(W, n + 1, b)
    BY <1>1 DEF After
  <2> HIDE DEF W, b
  <2>3. QED
    BY <1>2, <2>1, <2>2
<1>4. ASSUME NEW k \in Nat, k <= e - q PROVE SubSeq(W, 1, k) = Win(T, q, q + k)
  <2> DEFINE z == 0
  <2>1. z \in Nat /\ z <= k /\ z + 1 = 1 /\ q + z = q
    OBVIOUS
  <2> HIDE DEF W, z
  <2>2. SubSeq(W, z + 1, k) = Win(T, q + z, q + k)
    BY <1>2, <1>4, <2>1
  <2>3. QED
    BY <2>1, <2>2
<1>5. n # 0 => n - 1 \in Nat /\ n - 1 <= e - q
  OBVIOUS
<1> HIDE DEF W
<1>6. n # 0 => Before(W, n) = Win(T, q, q + (n - 1))
  BY <1>4, <1>5 DEF Before
<1>7. After(W, n) = Win(T, q + n, e) /\ SubSeq(W, 1, n) = Win(T, q, q + n)
  BY <1>3, <1>4
<1>8. QED
  BY <1>6, <1>7 DEF W, CutAfter

\* The tag that is found is there, and no other before it.
LEMMA BufferFinds ==
  ASSUME NEW T, IsList(T), NEW q \in Nat, NEW e \in Nat, q <= e, e <= Len(T), NEW tag, IsTag(tag)
  PROVE  LET at == Find(Win(T, q, e), tag) IN
         /\ at \in 0 .. e - q
         /\ at # 0 => at + 2 <= e - q /\ TagAt(T, q + at, tag)
         /\ \A i \in 1 .. e - q : i + 2 <= e - q /\ TagAt(T, q + i, tag) => at # 0 /\ at <= i
<1> DEFINE W == Win(T, q, e)
           at == Find(W, tag)
<1>1. IsList(W) /\ Len(W) = e - q /\ Len(tag) = 3
  BY WinFacts DEF IsTag
<1> HIDE DEF W
<1>2. at \in 0 .. e - q /\ (at # 0 => at + 2 <= e - q)
  BY <1>1, FindFacts
<1>3. at # 0 => TagAt(W, at, tag)
  BY <1>1, Finds
<1>4. \A i \in 1 .. e - q : TagAt(W, i, tag) => at # 0 /\ at <= i
  BY <1>1, Finds
<1> HIDE DEF at
<1>5. at # 0 => TagAt(T, q + at, tag)
  <2>1. at # 0 => at \in 1 .. e - q
    BY <1>2
  <2>2. QED
    BY <1>3, <2>1, InBuffer DEF W
<1>6. \A i \in 1 .. e - q : i + 2 <= e - q /\ TagAt(T, q + i, tag) => at # 0 /\ at <= i
  BY <1>4, InBuffer DEF W
<1>7. QED
  BY <1>2, <1>5, <1>6 DEF at, W

\* No tag begins in what a pass gives out.
LEMMA BufferFlushes ==
  ASSUME NEW T, IsList(T), NEW q \in Nat, NEW e \in Nat, q <= e, e <= Len(T), NEW tag, IsTag(tag),
         Find(Win(T, q, e), tag) = 0,
         NEW n \in 0 .. e - q, n <= SafeFlushLen(Win(T, q, e), tag)
  PROVE  \A i \in q + 1 .. q + n : ~TagAt(T, i, tag)
<1> DEFINE W == Win(T, q, e)
<1>1. IsList(W) /\ Len(W) = e - q
  BY WinFacts
<1> SUFFICES ASSUME NEW i \in q + 1 .. q + n PROVE ~TagAt(T, i, tag)
  OBVIOUS
<1> DEFINE j == i - q
<1>2. j \in 1 .. e - q /\ j \in 1 .. Len(W) /\ q + j = i /\ j <= n
  BY <1>1
<1>3. Len(tag) = 3
  BY DEF IsTag
<1> HIDE DEF j
<1>4. j <= SafeFlushLen(W, tag)
  <2>1. SafeFlushLen(W, tag) \in 0 .. Len(W)
    BY <1>1, <1>3, FlushFacts
  <2> HIDE DEF W
  <2>2. n <= SafeFlushLen(W, tag)
    BY DEF W
  <2> DEFINE f == SafeFlushLen(W, tag)
  <2> HIDE DEF f
  <2>3. f \in Nat /\ n <= f
    BY <1>1, <2>1, <2>2 DEF f
  <2>4. j <= f
    BY <1>2, <2>3
  <2>5. QED
    BY <2>4 DEF f
<1>5. ~Begins(W, j, tag)
  <2>1. Find(W, tag) = 0
    OBVIOUS
  <2> HIDE DEF W
  <2>2. QED
    BY <1>1, <1>2, <1>4, <2>1, Flushes
<1>6. QED
  BY <1>2, <1>5, InBuffer

\* The tag that opens a block of thinking is the first of them.
LEMMA OpensFirst ==
  ASSUME NEW buf, IsList(buf)
  PROVE  /\ EarliestOpen(buf).open = NoTag => \A t \in ThinkingTags : Find(buf, t.open) = 0
         /\ EarliestOpen(buf).open # NoTag =>
              /\ EarliestOpen(buf) \in ThinkingTags /\ Find(buf, EarliestOpen(buf).open) # 0
              /\ \A t \in ThinkingTags : Find(buf, t.open) # 0
                   => Find(buf, EarliestOpen(buf).open) <= Find(buf, t.open)
<1> DEFINE found == {t \in ThinkingTags : Find(buf, t.open) # 0}
           Is(t) == \A u \in found : Find(buf, t.open) <= Find(buf, u.open)
           e == CHOOSE t \in found : Is(t)
<1>1. EarliestOpen(buf) = IF found = {} THEN [open |-> NoTag, close |-> NoTag] ELSE e
  BY DEF EarliestOpen
<1>2. \A t \in found : t \in {Think1, Think2} /\ Find(buf, t.open) \in Nat
  BY Tags, FindFacts
<1>3. CASE found = {}
  <2> HIDE DEF e
  <2>1. EarliestOpen(buf).open = NoTag
    BY <1>1, <1>3
  <2>2. QED
    BY <1>3, <2>1
<1>4. CASE found # {}
  <2>1. \E t \in found : Is(t)
    <3> HIDE DEF found
    <3>1. CASE Think1 \in found /\ Think2 \in found
      <4>1. Find(buf, Think1.open) <= Find(buf, Think2.open) \/ Find(buf, Think2.open) <= Find(buf, Think1.open)
        BY <1>2, <3>1
      <4>2. Find(buf, Think1.open) <= Find(buf, Think1.open) /\ Find(buf, Think2.open) <= Find(buf, Think2.open)
        BY <1>2, <3>1
      <4>3. QED
        BY <1>2, <3>1, <4>1, <4>2
    <3>2. CASE Think1 \notin found
      BY <1>2, <1>4, <3>2
    <3>3. CASE Think2 \notin found
      BY <1>2, <1>4, <3>3
    <3>4. QED
      BY <3>1, <3>2, <3>3
  <2>2. e \in found /\ Is(e)
    <3> HIDE DEF found, Is
    <3>1. QED
      BY <2>1
  <2> HIDE DEF e
  <2>3. EarliestOpen(buf) = e
    BY <1>1, <1>4
  <2>4. e.open # NoTag
    BY <2>2, Tags
  <2>5. QED
    BY <2>2, <2>3, <2>4
<1>5. QED
  BY <1>3, <1>4

LEMMA FlushesLeast ==
  ASSUME NEW buf, IsList(buf), NEW t \in ThinkingTags
  PROVE  SafeFlushLenAnyOpen(buf) <= SafeFlushLen(buf, t.open)
<1> DEFINE lens == {SafeFlushLen(buf, u.open) : u \in ThinkingTags}
<1>1. \A i \in lens : i \in 0 .. Len(buf)
  BY Tags, FlushFacts
<1>2. lens \in SUBSET Nat /\ SafeFlushLen(buf, t.open) \in lens
  BY <1>1
<1>3. SafeFlushLenAnyOpen(buf) = CHOOSE n \in lens : \A m \in lens : n <= m
  BY DEF SafeFlushLenAnyOpen
<1> DEFINE i == SafeFlushLen(buf, t.open)
           least == CHOOSE n \in lens : \A m \in lens : n <= m
<1>4. i \in lens
  BY <1>2
<1> HIDE DEF lens, i
<1>5. least <= i
  BY <1>2, <1>4, LeastIsLeast
<1>6. QED
  BY <1>3, <1>5 DEF i
-----------------------------------------------------------------------------
(* A ThinkingParser has read the first q of e symbols as the reader does,  *)
(* and has the others in its buffer.                                       *)

ReadTo(T, p, q, e) ==
  /\ q \in Nat /\ q <= e /\ HeardAt(T, q).skip = 0
  /\ p.close = HeardAt(T, q).close /\ p.buf = Win(T, q, e)

PartOf(T, body) == \E a, b \in Nat : a <= b /\ b <= Len(T) /\ body = Win(T, a, b)

\* What the reader hears from the q-th symbol to the k-th is body, and nothing else.
Tells(T, q, k, kind, body) ==
  /\ PartOf(T, body)
  /\ \/ /\ kind = "text" /\ HeardAt(T, k).outer = HeardAt(T, q).outer \o body
        /\ HeardAt(T, k).inner = HeardAt(T, q).inner
     \/ /\ kind = "thinking" /\ HeardAt(T, k).inner = HeardAt(T, q).inner \o body
        /\ HeardAt(T, k).outer = HeardAt(T, q).outer

LEMMA PartsAreLists ==
  ASSUME NEW T, IsList(T), NEW body, PartOf(T, body)
  PROVE  IsList(body)
BY WinFacts DEF PartOf

\* No tag is there that the reader looks for.
NoneIn(T, close, q, m) ==
  \A n \in q + 1 .. m :
    IF close = NoTag THEN ~TagAt(T, n, Think1.open) /\ ~TagAt(T, n, Think2.open)
    ELSE ~TagAt(T, n, close)

LEMMA TellsRun ==
  ASSUME NEW T, IsList(T), NEW q \in Nat, NEW m \in Nat, q <= m, m <= Len(T),
         HeardAt(T, q).skip = 0,
         NoneIn(T, HeardAt(T, q).close, q, m)
  PROVE  /\ HeardAt(T, m).skip = 0 /\ HeardAt(T, m).close = HeardAt(T, q).close
         /\ Tells(T, q, m, IF HeardAt(T, q).close = NoTag THEN "text" ELSE "thinking", Win(T, q, m))
<1> DEFINE r == HeardAt(T, q)
           body == Win(T, q, m)
<1>1. HeardAt(T, m) = IF r.close = NoTag THEN Heard(r.close, 0, r.outer \o body, r.inner)
                      ELSE Heard(r.close, 0, r.outer, r.inner \o body)
  BY HearRun DEF NoneIn
<1>2. PartOf(T, body)
  BY DEF PartOf
<1> HIDE DEF r, body
<1>3. CASE r.close = NoTag
  <2> DEFINE x == Heard(r.close, 0, r.outer \o body, r.inner)
  <2>1. x.close = r.close /\ x.skip = 0 /\ x.outer = r.outer \o body /\ x.inner = r.inner
    BY DEF Heard
  <2>2. HeardAt(T, m) = x
    BY <1>1, <1>3
  <2> HIDE DEF x
  <2>3. QED
    BY <1>2, <1>3, <2>1, <2>2 DEF Tells, r, body
<1>4. CASE r.close # NoTag
  <2> DEFINE x == Heard(r.close, 0, r.outer, r.inner \o body)
  <2>1. x.close = r.close /\ x.skip = 0 /\ x.outer = r.outer /\ x.inner = r.inner \o body
    BY DEF Heard
  <2>2. HeardAt(T, m) = x
    BY <1>1, <1>4
  <2> HIDE DEF x
  <2>3. QED
    BY <1>2, <1>4, <2>1, <2>2 DEF Tells, r, body
<1>5. QED
  BY <1>3, <1>4

\* A run and the tag after it.
LEMMA TellsTag ==
  ASSUME NEW T, IsList(T), NEW q \in Nat, NEW m \in Nat, q <= m, m + 3 <= Len(T),
         HeardAt(T, q).skip = 0,
         NoneIn(T, HeardAt(T, q).close, q, m),
         NEW next,
         \/ /\ HeardAt(T, q).close = NoTag
            /\ \E t \in ThinkingTags : TagAt(T, m + 1, t.open) /\ next = t.close
         \/ /\ HeardAt(T, q).close # NoTag /\ TagAt(T, m + 1, HeardAt(T, q).close) /\ next = NoTag
  PROVE  /\ HeardAt(T, m + 3).skip = 0 /\ HeardAt(T, m + 3).close = next
         /\ Tells(T, q, m + 3, IF HeardAt(T, q).close = NoTag THEN "text" ELSE "thinking", Win(T, q, m))
<1> DEFINE r == HeardAt(T, m)
           kind == IF HeardAt(T, q).close = NoTag THEN "text" ELSE "thinking"
<1>0. m <= Len(T)
  BY ListFacts
<1>1. /\ r.skip = 0 /\ r.close = HeardAt(T, q).close
      /\ Tells(T, q, m, kind, Win(T, q, m))
  BY <1>0, TellsRun
<1>2. HeardAt(T, m + 3) = Heard(next, 0, r.outer, r.inner)
  <2>1. /\ \A t \in ThinkingTags : r.close = NoTag /\ TagAt(T, m + 1, t.open)
             => HeardAt(T, m + 3) = Heard(t.close, 0, r.outer, r.inner)
        /\ r.close # NoTag /\ TagAt(T, m + 1, r.close)
             => HeardAt(T, m + 3) = Heard(NoTag, 0, r.outer, r.inner)
    BY <1>1, HearTag
  <2> HIDE DEF r
  <2>2. QED
    BY <1>1, <2>1
<1> DEFINE x == Heard(next, 0, r.outer, r.inner)
<1> HIDE DEF r
<1>3. x.close = next /\ x.skip = 0 /\ x.outer = r.outer /\ x.inner = r.inner
  BY HeardFields
<1> HIDE DEF x
<1>4. HeardAt(T, m + 3).outer = r.outer /\ HeardAt(T, m + 3).inner = r.inner
      /\ HeardAt(T, m + 3).skip = 0 /\ HeardAt(T, m + 3).close = next
  BY <1>2, <1>3 DEF x
<1> HIDE DEF kind
<1>5. Tells(T, q, m + 3, kind, Win(T, q, m))
  BY <1>1, <1>4 DEF Tells, r
<1>6. QED
  BY <1>4, <1>5 DEF kind

\* Where a tag at a place of the buffer ends, and what is before it.
LEMMA TagEnds ==
  ASSUME NEW q \in Nat, NEW e \in Nat, NEW l \in Nat, q <= e, e <= l,
         NEW at \in 1 .. e - q, at + 2 <= e - q
  PROVE  LET m == q + (at - 1) IN
         /\ m \in Nat /\ q <= m /\ m + 3 <= e /\ m + 3 <= l /\ m + 3 \in Nat /\ q <= m + 3
         /\ m + 1 = q + at /\ m + 3 = q + (at + 2) /\ at + 2 \in 0 .. e - q /\ at \in 0 .. e - q
         /\ at + 3 - 1 = at + 2
         /\ \A n \in q + 1 .. m :
              n - q \in 1 .. e - q /\ (n - q) + 2 <= e - q /\ q + (n - q) = n /\ ~(at <= n - q)
<1> DEFINE m == q + (at - 1)
<1>1. /\ m \in Nat /\ q <= m /\ m + 3 <= e /\ m + 3 <= l /\ m + 3 \in Nat /\ q <= m + 3
  OBVIOUS
<1>2. /\ m + 1 = q + at /\ m + 3 = q + (at + 2) /\ at + 2 \in 0 .. e - q /\ at \in 0 .. e - q
      /\ at + 3 - 1 = at + 2
  OBVIOUS
<1>3. ASSUME NEW n \in q + 1 .. m
      PROVE  n - q \in 1 .. e - q /\ (n - q) + 2 <= e - q /\ q + (n - q) = n /\ ~(at <= n - q)
  OBVIOUS
<1>4. QED
  BY <1>1, <1>2, <1>3

\* A pass makes y of x, and with it the reader goes on from the q-th symbol.
PassHears(T, x, y, q, e) ==
  \E k, kind, body :
    /\ k \in Nat /\ q <= k /\ ReadTo(T, y.parser, k, e)
    /\ kind \in ThinkingKinds /\ Tells(T, q, k, kind, body)
    /\ y.events = x.events \o Chunk(kind, body)

\* One pass over the buffer.
LEMMA ThinkingPassReads ==
  ASSUME NEW T, IsList(T), NEW e \in Nat, e <= Len(T), NEW x, ~x.over,
         NEW q, ReadTo(T, x.parser, q, e)
  PROVE  PassHears(T, x, ThinkingPass(x), q, e)
<1> SUFFICES \E k, kind, body :
                /\ k \in Nat /\ q <= k /\ ReadTo(T, ThinkingPass(x).parser, k, e)
                /\ kind \in ThinkingKinds /\ Tells(T, q, k, kind, body)
                /\ ThinkingPass(x).events = x.events \o Chunk(kind, body)
  BY DEF PassHears
<1> DEFINE close == HeardAt(T, q).close
           buf  == Win(T, q, e)
           tag  == IF close = NoTag THEN EarliestOpen(buf).open ELSE close
           kind == IF close = NoTag THEN "text" ELSE "thinking"
           at   == IF tag = NoTag THEN 0 ELSE Find(buf, tag)
           safe == IF close = NoTag THEN SafeFlushLenAnyOpen(buf) ELSE SafeFlushLen(buf, close)
           next == IF close = NoTag THEN EarliestOpen(buf).close ELSE NoTag
           last == Pass([close |-> close, buf |-> After(buf, safe)],
                        x.events \o Chunk(kind, SubSeq(buf, 1, safe)), TRUE)
           more == Pass([close |-> next, buf |-> After(buf, at + Len(tag) - 1)],
                        x.events \o Chunk(kind, Before(buf, at)), FALSE)
<1>1. /\ q \in Nat /\ q <= e /\ HeardAt(T, q).skip = 0 /\ x.parser.close = close
      /\ x.parser.buf = buf /\ q \in 0 .. Len(T) /\ Len(T) \in Nat
  BY ListFacts DEF ReadTo
<1>2. ThinkingPass(x) = IF at = 0 THEN last ELSE more
  BY <1>1 DEF ThinkingPass
<1>3. IsList(buf) /\ Len(buf) = e - q
  BY <1>1, WinFacts
<1>4. close \in {NoTag, Think1.close, Think2.close}
  BY <1>1, HeardIsOK DEF HeardOK
<1>5. (close # NoTag => IsTag(close)) /\ \A t \in ThinkingTags : IsTag(t.open)
  BY <1>4, TagLists
<1>6. safe \in 0 .. e - q
  <2>1. close # NoTag => Len(close) = 3
    BY <1>5 DEF IsTag
  <2>2. (close # NoTag => SafeFlushLen(buf, close) \in 0 .. Len(buf)) /\ SafeFlushLenAnyOpen(buf) \in 0 .. Len(buf)
    BY <1>3, <2>1, FlushFacts, FlushAnyFacts
  <2>3. QED
    BY <1>3, <2>2
<1>7. Think1 \in ThinkingTags /\ Think2 \in ThinkingTags
  BY TagLists
<1>8. kind \in ThinkingKinds
  BY DEF ThinkingKinds
<1>9. CASE at = 0
  <2> DEFINE m == q + safe
  <2>1. NoneIn(T, close, q, m)
    <3>1. CASE close = NoTag
      <4>1. \A t \in ThinkingTags : Find(buf, t.open) = 0
        <5>1. EarliestOpen(buf).open = NoTag
          <6>1. EarliestOpen(buf).open # NoTag => Find(buf, EarliestOpen(buf).open) # 0
            BY <1>3, OpensFirst
          <6>2. QED
            BY <1>9, <3>1, <6>1
        <5>2. QED
          BY <1>3, <5>1, OpensFirst
      <4>2. \A t \in ThinkingTags : safe <= SafeFlushLen(buf, t.open)
        BY <1>3, <3>1, FlushesLeast
      <4>3. ASSUME NEW t \in ThinkingTags PROVE \A n \in q + 1 .. q + safe : ~TagAt(T, n, t.open)
        <5> DEFINE f == safe
                   o == t.open
        <5>1. f \in 0 .. e - q /\ f <= SafeFlushLen(Win(T, q, e), o) /\ Find(Win(T, q, e), o) = 0 /\ IsTag(o)
          BY <1>5, <1>6, <4>1, <4>2
        <5> HIDE DEF f, o
        <5>2. \A n \in q + 1 .. q + f : ~TagAt(T, n, o)
          BY <1>1, <5>1, BufferFlushes
        <5>3. QED
          BY <5>2 DEF f, o
      <4>4. QED
        BY <1>7, <3>1, <4>3 DEF NoneIn
    <3>2. CASE close # NoTag
      <4> DEFINE f == safe
                 o == close
      <4>1. f <= SafeFlushLen(Win(T, q, e), o)
        <5>1. SafeFlushLen(buf, close) = safe /\ safe \in Nat
          BY <1>6, <3>2
        <5>2. QED
          BY <5>1
      <4>2. f \in 0 .. e - q /\ Find(Win(T, q, e), o) = 0 /\ IsTag(o)
        BY <1>5, <1>6, <1>9, <3>2
      <4> HIDE DEF f, o
      <4>3. \A n \in q + 1 .. q + f : ~TagAt(T, n, o)
        BY <1>1, <4>1, <4>2, BufferFlushes
      <4>4. QED
        BY <3>2, <4>3 DEF f, o, NoneIn
    <3>3. QED
      BY <3>1, <3>2
  <2>2. m \in Nat /\ q <= m /\ m <= e /\ m <= Len(T)
    BY <1>1, <1>6
  <2> DEFINE body == Win(T, q, m)
  <2>3. /\ HeardAt(T, m).skip = 0 /\ HeardAt(T, m).close = close
        /\ Tells(T, q, m, kind, body)
    <3> HIDE DEF m, safe
    <3>1. QED
      BY <1>1, <2>1, <2>2, TellsRun
  <2>4. After(buf, safe) = Win(T, m, e) /\ SubSeq(buf, 1, safe) = body
    <3> HIDE DEF safe
    <3>1. IsList(T) /\ e \in Nat /\ e <= Len(T) /\ q \in Nat /\ q <= e /\ safe \in 0 .. e - q
      BY <1>1, <1>6
    <3>2. After(Win(T, q, e), safe) = Win(T, q + safe, e) /\ SubSeq(Win(T, q, e), 1, safe) = Win(T, q, q + safe)
      <4>1. CutAfter(T, q, e, safe)
        BY <3>1, BufferCuts
      <4>2. QED
        BY <4>1 DEF CutAfter
    <3>3. QED
      BY <3>2
  <2>5. last.parser.close = close /\ last.parser.buf = Win(T, m, e) /\ last.events = x.events \o Chunk(kind, body)
    <3> HIDE DEF m, body, kind, close, safe
    <3>1. QED
      BY <2>4 DEF Pass
  <2>6. ThinkingPass(x) = last
    BY <1>2, <1>9
  <2> HIDE DEF last, m, body, kind, close
  <2>7. ReadTo(T, last.parser, m, e)
    BY <2>2, <2>3, <2>5 DEF ReadTo
  <2>8. QED
    BY <1>8, <2>2, <2>3, <2>5, <2>6, <2>7
<1>10. CASE at # 0
  <2>1. tag # NoTag /\ at = Find(buf, tag) /\ IsTag(tag)
    <3>1. CASE close = NoTag
      <4>1. EarliestOpen(buf).open # NoTag => EarliestOpen(buf) \in ThinkingTags
        BY <1>3, OpensFirst
      <4>2. QED
        BY <1>5, <1>10, <3>1, <4>1
    <3>2. CASE close # NoTag
      BY <1>5, <1>10, <3>2
    <3>3. QED
      BY <3>1, <3>2
  <2>2. /\ at \in 1 .. e - q /\ at + 2 <= e - q /\ TagAt(T, q + at, tag) /\ Len(tag) = 3
        /\ \A i \in 1 .. e - q : i + 2 <= e - q /\ TagAt(T, q + i, tag) => at <= i
    <3> HIDE DEF tag
    <3>1. LET at_ == Find(Win(T, q, e), tag) IN
            /\ at_ \in 0 .. e - q
            /\ at_ # 0 => at_ + 2 <= e - q /\ TagAt(T, q + at_, tag)
            /\ \A i \in 1 .. e - q : i + 2 <= e - q /\ TagAt(T, q + i, tag) => at_ # 0 /\ at_ <= i
      BY <1>1, <2>1, BufferFinds
    <3> DEFINE a == Find(Win(T, q, e), tag)
    <3>2. at = a
      BY <2>1
    <3> HIDE DEF a, at
    <3>3. QED
      BY <1>10, <2>1, <3>1, <3>2 DEF IsTag, a
  <2>3. close = NoTag => /\ EarliestOpen(buf) \in ThinkingTags /\ tag = EarliestOpen(buf).open
                         /\ \A t \in ThinkingTags, i \in 1 .. e - q :
                              i + 2 <= e - q /\ TagAt(T, q + i, t.open) => at <= i
    <3> SUFFICES ASSUME close = NoTag
                 PROVE  /\ EarliestOpen(buf) \in ThinkingTags /\ tag = EarliestOpen(buf).open
                        /\ \A t \in ThinkingTags, i \in 1 .. e - q :
                             i + 2 <= e - q /\ TagAt(T, q + i, t.open) => at <= i
      OBVIOUS
    <3>1. tag = EarliestOpen(buf).open /\ EarliestOpen(buf).open # NoTag
      BY <2>1
    <3>2. /\ EarliestOpen(buf) \in ThinkingTags
          /\ \A t \in ThinkingTags : Find(buf, t.open) # 0 => at <= Find(buf, t.open)
      BY <1>3, <2>1, <3>1, OpensFirst
    <3>3. ASSUME NEW t \in ThinkingTags, NEW i \in 1 .. e - q, i + 2 <= e - q, TagAt(T, q + i, t.open)
          PROVE  at <= i
      <4> DEFINE o == t.open
                 a == Find(Win(T, q, e), o)
      <4>1. IsTag(o)
        BY <1>5
      <4> HIDE DEF o
      <4>2. a \in 0 .. e - q /\ a # 0 /\ a <= i
        BY <1>1, <3>3, <4>1, BufferFinds DEF o
      <4>3. at <= a
        BY <3>2, <4>2 DEF o
      <4> HIDE DEF a, at
      <4>4. QED
        BY <1>1, <2>2, <4>2, <4>3
    <3>4. QED
      BY <3>1, <3>2, <3>3
  <2> DEFINE m == q + (at - 1)
             k == m + 3
             body == Win(T, q, m)
  <2>0. at \in 1 .. e - q /\ at + 2 <= e - q /\ Len(tag) = 3
    BY <2>2
  <2>4. /\ m \in Nat /\ q <= m /\ m + 3 <= e /\ m + 3 <= Len(T) /\ k \in Nat /\ q <= k /\ k <= e
        /\ m + 1 = q + at /\ k = q + (at + 2) /\ at + 2 \in 0 .. e - q /\ at \in 0 .. e - q
        /\ at + Len(tag) - 1 = at + 2
    <3> HIDE DEF at, tag
    <3>1. QED
      BY <1>1, <2>0, TagEnds
  <2>5. NoneIn(T, close, q, m)
    <3> SUFFICES ASSUME NEW n \in q + 1 .. m
                 PROVE  IF close = NoTag
                        THEN ~TagAt(T, n, Think1.open) /\ ~TagAt(T, n, Think2.open)
                        ELSE ~TagAt(T, n, close)
      BY DEF NoneIn
    <3> DEFINE i == n - q
    <3>1. i \in 1 .. e - q /\ i + 2 <= e - q /\ q + i = n /\ ~(at <= i)
      <4> HIDE DEF at, tag
      <4>1. QED
        BY <1>1, <2>0, TagEnds
    <3> HIDE DEF i, at
    <3>2. QED
      BY <1>7, <2>2, <2>3, <3>1
  <2>6. \/ close = NoTag /\ \E t \in ThinkingTags : TagAt(T, m + 1, t.open) /\ next = t.close
        \/ close # NoTag /\ TagAt(T, m + 1, close) /\ next = NoTag
    <3> HIDE DEF at
    <3>1. TagAt(T, m + 1, tag)
      BY <2>2, <2>4
    <3> HIDE DEF m
    <3>2. QED
      BY <2>3, <3>1
  <2>7. /\ HeardAt(T, k).skip = 0 /\ HeardAt(T, k).close = next
        /\ Tells(T, q, k, kind, body)
    <3>0. m \in Nat /\ q <= m /\ m + 3 <= Len(T)
      BY <2>4
    <3> HIDE DEF m, next, at, tag
    <3>1. QED
      BY <1>1, <3>0, <2>5, <2>6, TellsTag
  <2>8. After(buf, at + Len(tag) - 1) = Win(T, k, e) /\ Before(buf, at) = body
    <3> DEFINE l == at + 2
    <3>1. l \in 0 .. e - q /\ k = q + l
      BY <2>4
    <3> HIDE DEF at, l
    <3>2. After(buf, l) = Win(T, q + l, e)
      BY <1>1, <3>1, BufferCuts DEF CutAfter
    <3>3. Before(buf, at) = Win(T, q, q + (at - 1))
      BY <1>1, <1>10, <2>4, BufferCuts DEF CutAfter
    <3>4. QED
      BY <2>4, <3>1, <3>2, <3>3 DEF l
  <2>9. more.parser.close = next /\ more.parser.buf = Win(T, k, e) /\ more.events = x.events \o Chunk(kind, body)
    <3> HIDE DEF at, tag, m, k, body, kind, next
    <3>1. QED
      BY <2>8 DEF Pass
  <2>10. ThinkingPass(x) = more
    BY <1>2, <1>10
  <2> HIDE DEF more, k, m, body, kind, next, at, tag
  <2>11. ReadTo(T, more.parser, k, e)
    BY <2>4, <2>7, <2>9 DEF ReadTo
  <2>12. QED
    BY <1>8, <2>4, <2>7, <2>9, <2>10, <2>11
<1>11. QED
  BY <1>9, <1>10
-----------------------------------------------------------------------------
(* What has been heard is the first part of what will be.                  *)

LEMMA FirstPart ==
  ASSUME NEW a, NEW c, IsList(a), IsList(c)
  PROVE  Win(a \o c, 0, Len(a)) = a
<1> DEFINE b == a \o c
           n == Len(a)
           z == 0
           w == Win(b, z, n)
<1>1. /\ IsList(b) /\ n \in Nat /\ Len(c) \in Nat /\ Len(b) = n + Len(c)
      /\ \A i \in 1 .. n + Len(c) : b[i] = IF i <= n THEN a[i] ELSE c[i - n]
  BY Joins
<1>2. z \in Nat /\ z <= n /\ n <= Len(b) /\ n - z = n
  BY <1>1
<1> HIDE DEF b, n, z
<1>3. IsList(w) /\ Len(w) = n /\ \A i \in 1 .. n : w[i] = b[z + i]
  <2>1. IsList(w) /\ Len(w) = n - z /\ \A i \in 1 .. n - z : w[i] = b[z + i]
    BY <1>1, <1>2, WinFacts, Zenon
  <2> HIDE DEF w
  <2>2. QED
    BY <1>2, <2>1
<1>4. ASSUME NEW i \in 1 .. Len(w) PROVE w[i] = a[i]
  <2>1. i \in 1 .. n /\ z + i = i /\ i \in 1 .. n + Len(c) /\ i <= n
    BY <1>1, <1>3 DEF z
  <2>2. QED
    BY <1>1, <1>3, <2>1
<1> HIDE DEF w
<1>5. w = a
  BY <1>3, <1>4, SameList DEF n
<1>6. QED
  BY <1>5 DEF w, b, n, z

LEMMA HearsMore ==
  ASSUME NEW T, NEW r, HeardOK(r), NEW n
  PROVE  Hears(T, r, n).outer = r.outer \/ Hears(T, r, n).outer = Append(r.outer, T[n])
BY DEF Hears, Heard

LEMMA OuterGrows ==
  ASSUME NEW T, IsList(T), NEW n \in 0 .. Len(T)
  PROVE  LET all == HeardAt(T, Len(T)).outer
             part == HeardAt(T, n).outer
         IN /\ IsList(all) /\ IsList(part) /\ Len(part) \in Nat /\ Len(all) \in Nat
            /\ Len(part) <= Len(all) /\ part = Win(all, 0, Len(part))
<1> DEFINE part == HeardAt(T, n).outer
           S == {j \in Nat : n + j <= Len(T)
                   => \E c : IsList(c) /\ HeardAt(T, n + j).outer = part \o c}
<1>1. Len(T) \in Nat /\ n \in Nat /\ \A k \in 0 .. Len(T) : HeardOK(HeardAt(T, k))
  BY ListFacts, HeardIsOK
<1>2. IsList(part)
  BY <1>1 DEF HeardOK
<1> HIDE DEF part
<1>3. 0 \in S
  <2>1. IsList(<<>>) /\ part \o <<>> = part /\ n + 0 = n
    BY <1>1, <1>2, EmptyIsList, JoinsEmpty
  <2>2. HeardAt(T, n + 0).outer = part \o <<>>
    BY <2>1 DEF part
  <2>3. QED
    BY <2>1, <2>2
<1>4. ASSUME NEW j \in S PROVE j + 1 \in S
  <2> SUFFICES ASSUME n + (j + 1) <= Len(T)
               PROVE  \E c : IsList(c) /\ HeardAt(T, n + (j + 1)).outer = part \o c
    OBVIOUS
  <2> DEFINE k == n + j
  <2>1. k \in 0 .. Len(T) /\ k + 1 \in 1 .. Len(T) /\ (k + 1) - 1 = k /\ n + (j + 1) = k + 1
    BY <1>1
  <2>2. PICK c : IsList(c) /\ HeardAt(T, k).outer = part \o c
    BY <2>1
  <2> HIDE DEF k
  <2>3. HeardAt(T, k + 1) = Hears(T, HeardAt(T, k), k + 1)
    BY <2>1, HearingOn
  <2> DEFINE y == T[k + 1]
             r == HeardAt(T, k)
  <2> HIDE DEF y, S
  <2>4. HeardAt(T, k + 1).outer = r.outer \/ HeardAt(T, k + 1).outer = Append(r.outer, y)
    BY <1>1, <2>1, <2>3, HearsMore DEF y
  <2>5. Append(part \o c, y) = part \o Append(c, y) /\ IsList(Append(c, y))
    <3>1. IsList(c)
      BY <2>2
    <3>2. Append(part \o c, y) = part \o Append(c, y)
      BY <1>2, <3>1, JoinAppend
    <3>3. QED
      BY <3>1, <3>2, Grows
  <2>6. HeardAt(T, k + 1).outer = part \o c \/ HeardAt(T, k + 1).outer = part \o Append(c, y)
    BY <2>2, <2>4, <2>5
  <2>7. QED
    BY <2>1, <2>2, <2>5, <2>6
<1>5. S \in SUBSET Nat
  OBVIOUS
<1>6. Len(T) - n \in S
  <2> HIDE DEF S
  <2>1. Len(T) - n \in Nat
    BY <1>1
  <2>2. QED
    BY <1>3, <1>4, <1>5, <2>1, Hearing!Stepwise
<1>7. n + (Len(T) - n) = Len(T)
  BY <1>1
<1>8. PICK c : IsList(c) /\ HeardAt(T, Len(T)).outer = part \o c
  BY <1>1, <1>6, <1>7
<1> DEFINE all == HeardAt(T, Len(T)).outer
<1>9. Win(all, 0, Len(part)) = part
  BY <1>2, <1>8, FirstPart
<1>10. IsList(all) /\ Len(part) \in Nat /\ Len(c) \in Nat /\ Len(all) = Len(part) + Len(c)
  BY <1>2, <1>8, Joins
<1>11. Len(part) <= Len(all) /\ Len(all) \in Nat
  BY <1>10
<1>12. QED
  BY <1>2, <1>9, <1>10, <1>11 DEF part
-----------------------------------------------------------------------------
(* Lists of visible events.                                                *)

EventsSeen(v) ==
  IsList(v) /\ \A i \in DOMAIN v : v[i] = Event(v[i].kind, v[i].body) /\ IsList(v[i].body)

LEMMA EmptyHasNone ==
  ASSUME NEW x, IsList(x)
  PROVE  x = <<>> <=> Len(x) = 0
<1>1. PICK S : x \in Seq(S)
  BY DEF IsList
<1>2. QED
  BY <1>1, EmptySeq

LEMMA EventFields ==
  ASSUME NEW kind, NEW body
  PROVE  /\ Event(kind, body).kind = kind /\ Event(kind, body).body = body
         /\ \A y : [Event(kind, body) EXCEPT !.body = y] = Event(kind, y)
BY DEF Event

\* Text goes to the text before it, and anything else is an event of its own.
TextLast(v) == v # <<>> /\ v[Len(v)].kind = "text"

LEMMA AddsNothing ==
  ASSUME NEW v, NEW kind
  PROVE  AddVisible(v, kind, <<>>) = v
BY DEF AddVisible

LEMMA AddsEvent ==
  ASSUME NEW v, NEW kind, NEW body, body # <<>>, kind # "text" \/ ~TextLast(v)
  PROVE  AddVisible(v, kind, body) = Append(v, Event(kind, body))
BY DEF AddVisible, TextLast

LEMMA AddsText ==
  ASSUME NEW v, EventsSeen(v), TextLast(v), NEW body, body # <<>>
  PROVE  /\ Len(v) \in DOMAIN v /\ IsList(v[Len(v)].body)
         /\ v[Len(v)] = Event("text", v[Len(v)].body)
         /\ AddVisible(v, "text", body) = [v EXCEPT ![Len(v)] = Event("text", v[Len(v)].body \o body)]
<1> DEFINE n == Len(v)
           c == v[n]
           y == c.body \o body
<1>1. n \in Nat /\ DOMAIN v = 1 .. n /\ n # 0
  BY ListFacts, EmptyHasNone DEF EventsSeen, TextLast
<1>2. n \in DOMAIN v
  BY <1>1
<1>3. c = Event("text", c.body) /\ IsList(c.body)
  BY <1>2 DEF EventsSeen, TextLast
<1>4. AddVisible(v, "text", body) = [v EXCEPT ![n].body = @ \o body]
  BY DEF AddVisible, TextLast
<1>5. [v EXCEPT ![n].body = @ \o body] = [v EXCEPT ![n] = [c EXCEPT !.body = y]]
  OBVIOUS
<1> HIDE DEF y
<1>6. [c EXCEPT !.body = y] = Event("text", y)
  <2> DEFINE b == c.body
  <2>1. c = Event("text", b)
    BY <1>3
  <2> HIDE DEF b, c
  <2>2. QED
    BY <2>1, EventFields
<1>7. AddVisible(v, "text", body) = [v EXCEPT ![n] = Event("text", y)]
  BY <1>4, <1>5, <1>6
<1>8. QED
  BY <1>2, <1>3, <1>7 DEF y

LEMMA StillSeen ==
  ASSUME NEW v, EventsSeen(v), NEW kind, NEW body, IsList(body)
  PROVE  EventsSeen(AddVisible(v, kind, body))
<1> DEFINE n == Len(v)
           u == AddVisible(v, kind, body)
<1>1. IsList(v)
  BY DEF EventsSeen
<1>2. ASSUME NEW k, NEW b, IsList(b)
      PROVE  Event(k, b) = Event(Event(k, b).kind, Event(k, b).body) /\ IsList(Event(k, b).body)
  BY <1>2, EventFields
<1>3. CASE body = <<>>
  BY <1>3, AddsNothing
<1>4. CASE body # <<>> /\ kind = "text" /\ TextLast(v)
  <2> DEFINE y == v[n].body \o body
             c == Event("text", y)
  <2>1. n \in DOMAIN v /\ IsList(v[n].body) /\ u = [v EXCEPT ![n] = c]
    BY <1>4, AddsText
  <2>2. IsList(y)
    BY <2>1, Joins
  <2> HIDE DEF y, n
  <2>3. c = Event(c.kind, c.body) /\ IsList(c.body)
    BY <1>2, <2>2
  <2> HIDE DEF c, u
  <2>4. IsList(u) /\ DOMAIN u = DOMAIN v
    BY <1>1, <2>1, Changes
  <2>5. ASSUME NEW i \in DOMAIN u PROVE u[i] = Event(u[i].kind, u[i].body) /\ IsList(u[i].body)
    BY <2>1, <2>3, <2>4 DEF EventsSeen
  <2>6. EventsSeen(u)
    BY <2>4, <2>5 DEF EventsSeen
  <2>7. QED
    BY <2>6 DEF u
<1>5. CASE body # <<>> /\ (kind # "text" \/ ~TextLast(v))
  <2> DEFINE c == Event(kind, body)
  <2>1. u = Append(v, c)
    BY <1>5, AddsEvent
  <2>2. c = Event(c.kind, c.body) /\ IsList(c.body)
    BY <1>2
  <2> HIDE DEF c, u, n
  <2>3. /\ IsList(u) /\ Len(v) \in Nat /\ DOMAIN v = 1 .. Len(v) /\ DOMAIN u = 1 .. Len(v) + 1
        /\ \A i \in 1 .. Len(v) : u[i] = v[i]
        /\ u[Len(v) + 1] = c
    BY <1>1, <2>1, Grows
  <2>4. ASSUME NEW i \in DOMAIN u PROVE u[i] = Event(u[i].kind, u[i].body) /\ IsList(u[i].body)
    <3>1. i \in 1 .. Len(v) \/ i = Len(v) + 1
      BY <2>3
    <3>2. QED
      BY <2>2, <2>3, <3>1 DEF EventsSeen
  <2>5. EventsSeen(u)
    BY <2>3, <2>4 DEF EventsSeen
  <2>6. QED
    BY <2>5 DEF u
<1>6. QED
  BY <1>3, <1>4, <1>5

\* Text after text is one text.
LEMMA TextMerges ==
  ASSUME NEW v, EventsSeen(v), NEW x, IsList(x), NEW y, IsList(y)
  PROVE  AddVisible(AddVisible(v, "text", x), "text", y) = AddVisible(v, "text", x \o y)
<1> DEFINE n == Len(v)
           z == x \o y
           u == AddVisible(v, "text", x)
<1>1. IsList(v) /\ EventsSeen(u) /\ IsList(z)
  BY StillSeen, Joins DEF EventsSeen
<1>2. CASE x = <<>>
  <2>1. u = v /\ z = y
    BY <1>2, AddsNothing, JoinsEmpty
  <2>2. QED
    BY <2>1
<1>3. CASE y = <<>>
  <2>1. z = x /\ AddVisible(u, "text", y) = u
    BY <1>3, AddsNothing, JoinsEmpty
  <2>2. QED
    BY <2>1
<1>4. CASE x # <<>> /\ y # <<>>
  <2>0. z # <<>>
    <3>1. Len(x) \in Nat /\ Len(y) \in Nat /\ Len(z) = Len(x) + Len(y) /\ Len(x) # 0
      BY <1>4, Joins, EmptyHasNone
    <3>2. Len(z) # 0
      BY <3>1
    <3>3. QED
      BY <1>1, <3>2, EmptyHasNone
  <2>1. CASE TextLast(v)
    <3> DEFINE a == v[n].body
               b == a \o x
               c == Event("text", b)
    <3>1. n \in DOMAIN v /\ IsList(a) /\ u = [v EXCEPT ![n] = c]
      BY <1>4, <2>1, AddsText
    <3>2. b \o y = a \o z
      <4> HIDE DEF a
      <4>1. QED
        BY <3>1, JoinJoin
    <3> DEFINE g == a \o z
    <3>3. AddVisible(v, "text", z) = [v EXCEPT ![n] = Event("text", g)]
      <4> HIDE DEF z
      <4>1. QED
        BY <2>0, <2>1, AddsText
    <3>4. c.kind = "text" /\ c.body = b
      BY EventFields
    <3> HIDE DEF a, b, c, u
    <3>5. Len(u) = n /\ u[n] = c /\ u # <<>>
      <4>1. Len(u) = Len(v) /\ DOMAIN u = DOMAIN v
        BY <1>1, <3>1, Changes
      <4>2. u[n] = c
        BY <3>1
      <4>3. DOMAIN <<>> = {}
        BY EmptyIsList
      <4>4. QED
        BY <3>1, <4>1, <4>2, <4>3
    <3> DEFINE h == b \o y
    <3>6. AddVisible(u, "text", y) = [u EXCEPT ![n] = Event("text", h)]
      <4>1. TextLast(u)
        BY <3>4, <3>5 DEF TextLast
      <4>2. AddVisible(u, "text", y) = [u EXCEPT ![Len(u)] = Event("text", u[Len(u)].body \o y)]
        BY <1>1, <1>4, <4>1, AddsText
      <4>3. QED
        BY <3>4, <3>5, <4>2
    <3>7. [u EXCEPT ![n] = Event("text", h)] = [v EXCEPT ![n] = Event("text", g)]
      <4> DEFINE e == Event("text", g)
      <4>1. Event("text", h) = e
        BY <3>2
      <4> HIDE DEF e, n
      <4>2. [u EXCEPT ![n] = e] = [v EXCEPT ![n] = e]
        BY <3>1
      <4>3. QED
        BY <4>1, <4>2 DEF e
    <3>8. QED
      BY <3>3, <3>6, <3>7 DEF u
  <2>2. CASE ~TextLast(v)
    <3> DEFINE c == Event("text", x)
               e == Event("text", z)
    <3>1. u = Append(v, c)
      BY <1>4, <2>2, AddsEvent
    <3>11. AddVisible(v, "text", z) = Append(v, e)
      <4> HIDE DEF z
      <4>1. QED
        BY <2>0, <2>2, AddsEvent
    <3>2. c.kind = "text" /\ c.body = x
      BY EventFields
    <3> HIDE DEF c, u
    <3>3. /\ n \in Nat /\ IsList(u) /\ Len(u) = n + 1 /\ DOMAIN u = 1 .. n + 1
          /\ \A i \in 1 .. n : u[i] = v[i]
          /\ u[n + 1] = c
      BY <1>1, <3>1, Grows
    <3>4. u # <<>> /\ n + 1 \in DOMAIN u
      <4>1. DOMAIN <<>> = {} /\ n + 1 \in DOMAIN u
        BY <3>3, EmptyIsList
      <4>2. QED
        BY <4>1
    <3>5. AddVisible(u, "text", y) = [u EXCEPT ![n + 1] = e]
      <4>0. TextLast(u)
        BY <3>2, <3>3, <3>4 DEF TextLast
      <4>1. AddVisible(u, "text", y) = [u EXCEPT ![Len(u)] = Event("text", u[Len(u)].body \o y)]
        BY <1>1, <1>4, <4>0, AddsText
      <4>2. QED
        BY <3>2, <3>3, <4>1
    <3> HIDE DEF e
    <3> DEFINE w == [u EXCEPT ![n + 1] = e]
               a == Append(v, e)
    <3>6. /\ IsList(a) /\ Len(a) = n + 1 /\ \A i \in 1 .. n : a[i] = v[i]
          /\ a[n + 1] = e
      BY <1>1, Grows
    <3>7. IsList(w) /\ Len(w) = n + 1
      <4> DEFINE m == n + 1
      <4> HIDE DEF m
      <4>1. m \in DOMAIN u /\ Len(u) = m
        BY <3>3, <3>4 DEF m
      <4>2. IsList([u EXCEPT ![m] = e]) /\ Len([u EXCEPT ![m] = e]) = Len(u)
        BY <3>3, <4>1, Changes
      <4>3. QED
        BY <4>1, <4>2 DEF m
    <3>8. ASSUME NEW i \in 1 .. n + 1 PROVE w[i] = a[i]
      <4>1. i \in DOMAIN u /\ (i = n + 1 \/ (i # n + 1 /\ i \in 1 .. n))
        BY <3>3
      <4> HIDE DEF a, n
      <4>2. QED
        BY <3>3, <3>6, <4>1
    <3> HIDE DEF w, a
    <3>9. w = a
      BY <3>6, <3>7, <3>8, SameList
    <3>10. QED
      BY <3>11, <3>5, <3>9 DEF w, a, u
  <2>3. QED
    BY <2>1, <2>2
<1>5. QED
  BY <1>2, <1>3, <1>4

-----------------------------------------------------------------------------
(* The reader of calls.                                                    *)

Shown(inCall, skip, body, out) == [inCall |-> inCall, skip |-> skip, body |-> body, out |-> out]

\* What the n-th symbol of T makes of r.
Shows(T, r, n) ==
  IF r.skip # 0 THEN Shown(r.inCall, r.skip - 1, r.body, r.out)
  ELSE IF ~r.inCall
  THEN IF TagAt(T, n, OpenTag) THEN Shown(TRUE, 2, <<>>, r.out)
       ELSE Shown(FALSE, 0, <<>>, AddVisible(r.out, "text", <<T[n]>>))
  ELSE IF TagAt(T, n, CloseTag)
  THEN Shown(FALSE, 2, <<>>, IF r.body = <<"json">> THEN AddVisible(r.out, "call", r.body) ELSE r.out)
  ELSE Shown(TRUE, 0, Append(r.body, T[n]), r.out)

ShownOK(r) ==
  /\ r = Shown(r.inCall, r.skip, r.body, r.out)
  /\ r.inCall \in BOOLEAN /\ r.skip \in 0 .. 2
  /\ IsList(r.body) /\ EventsSeen(r.out) /\ (~r.inCall => r.body = <<>>)

ShowSteps(T) == Len(T)
ShowStart(T) == Shown(FALSE, 0, <<>>, <<>>)
ShowStep(T, r, n) == Shows(T, r, n)
ShowHolds(T, r, n) == ShownOK(r)
Display == INSTANCE Unfolding
  WITH Steps <- ShowSteps, Start <- ShowStart, Step <- ShowStep, Holds <- ShowHolds

\* What has been shown after n symbols of T.
ShownAt(T, n) == Display!At(T)[n]

LEMMA ShownFields ==
  ASSUME NEW inCall, NEW skip, NEW body, NEW out
  PROVE  LET r == Shown(inCall, skip, body, out) IN
         r.inCall = inCall /\ r.skip = skip /\ r.body = body /\ r.out = out
BY DEF Shown

LEMMA ShowingFirst ==
  ASSUME NEW T, IsList(T)
  PROVE  ShownAt(T, 0) = Shown(FALSE, 0, <<>>, <<>>)
<1>1. ShowSteps(T) \in Nat
  BY ListFacts DEF ShowSteps
<1>2. QED
  BY <1>1, Display!Unfolds DEF ShownAt, ShowStart

LEMMA ShowingOn ==
  ASSUME NEW T, IsList(T), NEW n \in 1 .. Len(T)
  PROVE  ShownAt(T, n) = Shows(T, ShownAt(T, n - 1), n)
<1>1. ShowSteps(T) \in Nat
  BY ListFacts DEF ShowSteps
<1>2. QED
  BY <1>1, Display!Unfolds DEF ShownAt, ShowSteps, ShowStep

LEMMA OneIsList ==
  ASSUME NEW x
  PROVE  IsList(<<x>>) /\ <<x>> # <<>> /\ Len(<<x>>) = 1
<1>1. <<x>> \in Seq({x}) /\ Len(<<x>>) = 1
  OBVIOUS
<1>2. QED
  BY <1>1, EmptyIsList DEF IsList

LEMMA NoneSeen == EventsSeen(<<>>)
BY EmptyIsList DEF EventsSeen

LEMMA ShowsOK ==
  ASSUME NEW T, NEW r, ShownOK(r), NEW n
  PROVE  ShownOK(Shows(T, r, n))
<1>1. ASSUME NEW inCall \in BOOLEAN, NEW skip \in 0 .. 2, NEW body, IsList(body),
             NEW out, EventsSeen(out), ~inCall => body = <<>>
      PROVE  ShownOK(Shown(inCall, skip, body, out))
  <2> DEFINE x == Shown(inCall, skip, body, out)
  <2>1. x.inCall = inCall /\ x.skip = skip /\ x.body = body /\ x.out = out
    BY ShownFields
  <2>2. x = Shown(x.inCall, x.skip, x.body, x.out)
    BY <2>1
  <2> HIDE DEF x
  <2>3. ShownOK(x)
    BY <1>1, <2>1, <2>2 DEF ShownOK
  <2>4. QED
    BY <2>3 DEF x
<1>2. /\ IsList(Append(r.body, T[n])) /\ IsList(<<>>)
      /\ EventsSeen(AddVisible(r.out, "text", <<T[n]>>)) /\ EventsSeen(AddVisible(r.out, "call", r.body))
  BY Grows, EmptyIsList, OneIsList, StillSeen DEF ShownOK
<1>3. r.inCall \in BOOLEAN /\ IsList(r.body) /\ EventsSeen(r.out) /\ (~r.inCall => r.body = <<>>)
  BY DEF ShownOK
<1>4. TRUE \in BOOLEAN /\ FALSE \in BOOLEAN /\ 0 \in 0 .. 2 /\ 2 \in 0 .. 2
  OBVIOUS
<1>5. CASE r.skip # 0
  <2>1. r.skip - 1 \in 0 .. 2
    BY <1>5 DEF ShownOK
  <2>2. Shows(T, r, n) = Shown(r.inCall, r.skip - 1, r.body, r.out)
    BY <1>5 DEF Shows
  <2>3. QED
    BY <1>1, <1>3, <2>1, <2>2
<1>6. CASE r.skip = 0 /\ ~r.inCall
  <2>1. \/ Shows(T, r, n) = Shown(TRUE, 2, <<>>, r.out)
        \/ Shows(T, r, n) = Shown(FALSE, 0, <<>>, AddVisible(r.out, "text", <<T[n]>>))
    BY <1>6, Zenon DEF Shows
  <2>2. QED
    BY <1>1, <1>2, <1>3, <1>4, <2>1, Zenon
<1>7. CASE r.skip = 0 /\ r.inCall
  <2> DEFINE out == IF r.body = <<"json">> THEN AddVisible(r.out, "call", r.body) ELSE r.out
  <2>1. \/ Shows(T, r, n) = Shown(FALSE, 2, <<>>, out)
        \/ Shows(T, r, n) = Shown(TRUE, 0, Append(r.body, T[n]), r.out)
    BY <1>7, Zenon DEF Shows
  <2>2. EventsSeen(out)
    BY <1>2, <1>3
  <2> HIDE DEF out
  <2>3. QED
    BY <1>1, <1>2, <1>3, <1>4, <2>1, <2>2, Zenon
<1>8. QED
  BY <1>5, <1>6, <1>7

LEMMA ShownIsOK ==
  ASSUME NEW T, IsList(T), NEW n \in 0 .. Len(T)
  PROVE  ShownOK(ShownAt(T, n))
<1>1. ShowSteps(T) \in Nat /\ ShowSteps(T) = Len(T)
  BY ListFacts DEF ShowSteps
<1>2. ShowHolds(T, ShowStart(T), 0)
  <2> DEFINE no == FALSE
             z == 0
             x == Shown(no, z, <<>>, <<>>)
  <2>0. no \in BOOLEAN /\ z \in 0 .. 2
    OBVIOUS
  <2> HIDE DEF no, z
  <2>1. x.inCall = no /\ x.skip = z /\ x.body = <<>> /\ x.out = <<>>
    BY ShownFields
  <2>2. x = Shown(x.inCall, x.skip, x.body, x.out)
    BY <2>1
  <2> HIDE DEF x
  <2>3. ShownOK(x)
    BY EmptyIsList, NoneSeen, <2>0, <2>1, <2>2 DEF ShownOK
  <2>4. QED
    BY <2>3 DEF x, no, z, ShowHolds, ShowStart
<1>3. \A r, k : k \in 1 .. ShowSteps(T) /\ ShowHolds(T, r, k - 1) => ShowHolds(T, ShowStep(T, r, k), k)
  BY ShowsOK DEF ShowHolds, ShowStep
<1>4. \A k \in 0 .. ShowSteps(T) : ShowHolds(T, Display!At(T)[k], k)
  BY <1>1, <1>2, <1>3, Display!Keeping
<1>5. QED
  BY <1>1, <1>4 DEF ShowHolds, ShownAt

\* No tag is there that the reader looks for.
NoneOf(T, tag, q, m) == \A n \in q + 1 .. m : ~TagAt(T, n, tag)

\* Of a parser or of what is shown.
InCall(x) == x.inCall

\* Symbols q + 1 to e of text.
LEMMA ShowRun ==
  ASSUME NEW T, IsList(T), NEW q \in Nat, NEW e \in Nat, q <= e, e <= Len(T),
         NEW r, r = ShownAt(T, q), r.skip = 0, ~InCall(r), NoneOf(T, OpenTag, q, e)
  PROVE  ShownAt(T, e) = Shown(FALSE, 0, <<>>, AddVisible(r.out, "text", Win(T, q, e)))
<1> DEFINE no == FALSE
           W(j) == Win(T, q, q + j)
           R(j) == Shown(no, 0, <<>>, AddVisible(r.out, "text", W(j)))
           S == {j \in Nat : q + j <= e => ShownAt(T, q + j) = R(j)}
<1>0. ~no
  BY DEF no
<1> HIDE DEF no
<1>1. Len(T) \in Nat /\ q \in 0 .. Len(T)
  BY ListFacts
<1>2. ShownOK(r)
  BY <1>1, ShownIsOK
<1>3. 0 \in S
  <2>1. W(0) = <<>>
    BY WinNone
  <2>2. R(0) = Shown(no, 0, <<>>, r.out)
    BY <2>1, AddsNothing
  <2> HIDE DEF R
  <2>3. r.inCall = no /\ r.body = <<>> /\ r = Shown(r.inCall, r.skip, r.body, r.out)
    BY <1>2 DEF ShownOK, InCall, no
  <2>4. R(0) = r
    BY <2>2, <2>3
  <2>6. q + 0 = q
    OBVIOUS
  <2>5. QED
    BY <2>4, <2>6
<1>4. ASSUME NEW j \in S PROVE j + 1 \in S
  <2>1. CASE q + (j + 1) <= e
    <3> DEFINE n == q + j
    <3>1. /\ n \in Nat /\ q <= n /\ n + 1 <= e /\ n <= e /\ n + 1 <= Len(T) /\ n <= Len(T) /\ j \in Nat
          /\ q + (j + 1) = n + 1 /\ n + 1 \in q + 1 .. e /\ n + 1 \in 1 .. Len(T)
          /\ (n + 1) - 1 = n
      BY <1>1, <2>1
    <3>2. ShownAt(T, n) = R(j)
      BY <3>1
    <3> DEFINE c == T[n + 1]
               w == W(j)
    <3>3. W(j + 1) = w \o <<c>>
      <4>1. Win(T, q, n) \o Win(T, n, n + 1) = Win(T, q, n + 1)
        <5> DEFINE m == n + 1
        <5>1. m \in Nat /\ n <= m /\ m <= Len(T)
          BY <3>1
        <5> HIDE DEF m, n
        <5>2. Win(T, q, n) \o Win(T, n, m) = Win(T, q, m)
          BY <3>1, <5>1, WinJoin
        <5>3. QED
          BY <5>2 DEF m
      <4>2. Win(T, n, n + 1) = <<c>>
        BY <3>1, WinNext
      <4>3. QED
        BY <3>1, <4>1, <4>2
    <3>4. IsList(w)
      BY <1>1, <3>1, WinFacts
    <3> HIDE DEF R
    <3>5. ShownAt(T, n + 1) = Shows(T, R(j), n + 1)
      BY <3>1, <3>2, ShowingOn
    <3>6. Shows(T, R(j), n + 1) = R(j + 1)
      <4> DEFINE out == AddVisible(r.out, "text", w)
                 x == Shown(no, 0, <<>>, out)
                 m == n + 1
      <4>1. R(j) = x
        BY DEF R
      <4>2. AddVisible(out, "text", <<c>>) = AddVisible(r.out, "text", W(j + 1))
        <5>1. EventsSeen(r.out) /\ IsList(<<c>>)
          BY <1>2, OneIsList DEF ShownOK
        <5> DEFINE y == <<c>>
        <5> HIDE DEF w, y, c
        <5>2. AddVisible(AddVisible(r.out, "text", w), "text", y) = AddVisible(r.out, "text", w \o y)
          BY <3>4, <5>1, TextMerges DEF y
        <5>3. QED
          BY <3>3, <5>2 DEF y
      <4>3. R(j + 1) = Shown(no, 0, <<>>, AddVisible(out, "text", <<c>>))
        BY <4>2 DEF R
      <4>4. ~TagAt(T, m, OpenTag)
        BY <3>1 DEF NoneOf
      <4>6. c = T[m]
        OBVIOUS
      <4> HIDE DEF out, c, m, R
      <4>5. x.inCall = no /\ x.skip = 0 /\ x.out = out
        BY ShownFields
      <4> HIDE DEF x
      <4>7. Shows(T, x, m) = Shown(no, 0, <<>>, AddVisible(x.out, "text", <<T[m]>>))
        BY <4>4, <4>5 DEF Shows, no
      <4>8. QED
        BY <4>1, <4>3, <4>5, <4>6, <4>7 DEF m
    <3> HIDE DEF R
    <3>7. QED
      BY <3>1, <3>5, <3>6
  <2>2. CASE ~(q + (j + 1) <= e)
    <3> HIDE DEF R
    <3>1. QED
      BY <2>2
  <2>3. QED
    BY <2>1, <2>2
<1>5. S \in SUBSET Nat
  OBVIOUS
<1>6. e - q \in S
  <2> HIDE DEF S
  <2>1. e - q \in Nat
    OBVIOUS
  <2>2. QED
    BY <1>3, <1>4, <1>5, <2>1, Display!Stepwise
<1>7. q + (e - q) = e /\ e - q \in Nat
  OBVIOUS
<1> HIDE DEF R
<1>8. ShownAt(T, e) = R(e - q)
  BY <1>6, <1>7
<1>9. QED
  BY <1>7, <1>8 DEF R, no

\* The text shown at q and, in one piece, the symbols from there to e.
RunShown(T, q, e) ==
  ShownAt(T, e) = Shown(FALSE, 0, <<>>, AddVisible(ShownAt(T, q).out, "text", Win(T, q, e)))

\* ShowRun, of the positions alone.
LEMMA ShowRunAt ==
  ASSUME NEW T, IsList(T), NEW q \in Nat, NEW e \in Nat, q <= e, e <= Len(T),
         ShownAt(T, q).skip = 0, ~InCall(ShownAt(T, q)), NoneOf(T, OpenTag, q, e)
  PROVE  RunShown(T, q, e)
<1> DEFINE r == ShownAt(T, q)
<1>1. r = ShownAt(T, q) /\ r.skip = 0 /\ ~InCall(r)
  OBVIOUS
<1> HIDE DEF r
<1>2. ShownAt(T, e) = Shown(FALSE, 0, <<>>, AddVisible(r.out, "text", Win(T, q, e)))
  BY <1>1, ShowRun, Zenon
<1>3. QED
  BY <1>1, <1>2 DEF RunShown

\* The same within a call.
LEMMA ShowBody ==
  ASSUME NEW T, IsList(T), NEW q \in Nat, NEW e \in Nat, q <= e, e <= Len(T),
         ShownAt(T, q).skip = 0, InCall(ShownAt(T, q)), NoneOf(T, CloseTag, q, e)
  PROVE  /\ ShownAt(T, e).skip = 0 /\ InCall(ShownAt(T, e))
         /\ ShownAt(T, e).body = ShownAt(T, q).body \o Win(T, q, e)
         /\ ShownAt(T, e).out = ShownAt(T, q).out
<1> DEFINE r == ShownAt(T, q)
           yes == TRUE
           W(j) == Win(T, q, q + j)
           R(j) == Shown(yes, 0, r.body \o W(j), r.out)
           S == {j \in Nat : q + j <= e => ShownAt(T, q + j) = R(j)}
<1>0. yes
  BY DEF yes
<1>20. r.skip = 0 /\ InCall(r) /\ r = ShownAt(T, q)
  OBVIOUS
<1> HIDE DEF yes, r
<1>1. Len(T) \in Nat /\ q \in 0 .. Len(T)
  BY ListFacts
<1>2. ShownOK(r)
  BY <1>1, <1>20, ShownIsOK
<1>3. 0 \in S
  <2>1. W(0) = <<>> /\ r.body \o <<>> = r.body
    BY <1>2, WinNone, JoinsEmpty DEF ShownOK
  <2>2. R(0) = Shown(yes, 0, r.body, r.out)
    BY <2>1
  <2> HIDE DEF R
  <2>3. r.inCall = yes /\ r = Shown(r.inCall, r.skip, r.body, r.out)
    BY <1>2, <1>20 DEF ShownOK, InCall, yes
  <2>4. R(0) = r
    BY <1>20, <2>2, <2>3
  <2>6. q + 0 = q
    OBVIOUS
  <2>5. QED
    BY <1>20, <2>4, <2>6
<1>4. ASSUME NEW j \in S PROVE j + 1 \in S
  <2>1. CASE q + (j + 1) <= e
    <3> DEFINE n == q + j
    <3>1. /\ n \in Nat /\ q <= n /\ n + 1 <= e /\ n <= e /\ n + 1 <= Len(T) /\ n <= Len(T) /\ j \in Nat
          /\ q + (j + 1) = n + 1 /\ n + 1 \in q + 1 .. e /\ n + 1 \in 1 .. Len(T)
          /\ (n + 1) - 1 = n
      BY <1>1, <2>1
    <3>2. ShownAt(T, n) = R(j)
      BY <3>1
    <3> DEFINE c == T[n + 1]
               w == W(j)
               b == r.body
    <3>3. W(j + 1) = Append(w, c)
      <4>1. Win(T, q, n + 1) = Append(Win(T, q, n), T[n + 1])
        BY <3>1, WinNext
      <4>2. QED
        BY <3>1, <4>1
    <3>4. IsList(w) /\ IsList(b)
      BY <1>1, <1>2, <3>1, WinFacts DEF ShownOK
    <3> HIDE DEF R
    <3>5. ShownAt(T, n + 1) = Shows(T, R(j), n + 1)
      BY <3>1, <3>2, ShowingOn
    <3>6. Shows(T, R(j), n + 1) = R(j + 1)
      <4> DEFINE body == b \o w
                 x == Shown(yes, 0, body, r.out)
                 m == n + 1
      <4>1. R(j) = x
        BY DEF R
      <4>2. b \o W(j + 1) = Append(body, c)
        <5> HIDE DEF w, c, b, W
        <5>1. b \o Append(w, c) = Append(b \o w, c)
          BY <3>4, JoinAppend
        <5>2. QED
          BY <3>3, <5>1
      <4>3. R(j + 1) = Shown(yes, 0, Append(body, c), r.out)
        BY <4>2 DEF R
      <4>4. ~TagAt(T, m, CloseTag)
        BY <3>1 DEF NoneOf
      <4>6. c = T[m]
        OBVIOUS
      <4> HIDE DEF body, c, m, R
      <4>5. x.inCall = yes /\ x.skip = 0 /\ x.out = r.out /\ x.body = body
        BY ShownFields
      <4> HIDE DEF x
      <4>7. Shows(T, x, m) = Shown(yes, 0, Append(x.body, T[m]), x.out)
        BY <4>4, <4>5 DEF Shows, yes
      <4>8. QED
        BY <4>1, <4>3, <4>5, <4>6, <4>7 DEF m
    <3> HIDE DEF R
    <3>7. QED
      BY <3>1, <3>5, <3>6
  <2>2. CASE ~(q + (j + 1) <= e)
    <3> HIDE DEF R
    <3>1. QED
      BY <2>2
  <2>3. QED
    BY <2>1, <2>2
<1>5. S \in SUBSET Nat
  OBVIOUS
<1>6. e - q \in S
  <2> HIDE DEF S
  <2>1. e - q \in Nat
    OBVIOUS
  <2>2. QED
    BY <1>3, <1>4, <1>5, <2>1, Display!Stepwise
<1>7. q + (e - q) = e /\ e - q \in Nat
  OBVIOUS
<1> DEFINE all == r.body \o Win(T, q, e)
<1> HIDE DEF R
<1>8. ShownAt(T, e) = R(e - q)
  BY <1>6, <1>7
<1>9. R(e - q) = Shown(yes, 0, all, r.out)
  BY <1>7 DEF R
<1> HIDE DEF all
<1> DEFINE y == Shown(yes, 0, all, r.out)
<1>10. y.skip = 0 /\ y.inCall = yes /\ y.body = all /\ y.out = r.out
  BY ShownFields
<1> HIDE DEF y
<1>11. QED
  BY <1>0, <1>8, <1>9, <1>10 DEF InCall, all, r, y

\* A tag after the first q symbols.
LEMMA ShowTag ==
  ASSUME NEW T, IsList(T), NEW q \in Nat, q + 3 <= Len(T),
         NEW r, r = ShownAt(T, q), r.skip = 0,
         NEW out, out = IF r.body = <<"json">> THEN AddVisible(r.out, "call", r.body) ELSE r.out
  PROVE  /\ ~InCall(r) /\ TagAt(T, q + 1, OpenTag)
              => ShownAt(T, q + 3) = Shown(TRUE, 0, <<>>, r.out)
         /\ InCall(r) /\ TagAt(T, q + 1, CloseTag)
              => ShownAt(T, q + 3) = Shown(FALSE, 0, <<>>, out)
<1>1. /\ Len(T) \in Nat /\ q \in 0 .. Len(T)
      /\ q + 1 \in 1 .. Len(T) /\ q + 2 \in 1 .. Len(T) /\ q + 3 \in 1 .. Len(T)
      /\ (q + 1) - 1 = q /\ (q + 2) - 1 = q + 1 /\ (q + 3) - 1 = q + 2
  BY ListFacts
<1>2. /\ ShownAt(T, q + 1) = Shows(T, r, q + 1)
      /\ ShownAt(T, q + 2) = Shows(T, ShownAt(T, q + 1), q + 2)
      /\ ShownAt(T, q + 3) = Shows(T, ShownAt(T, q + 2), q + 3)
  BY <1>1, ShowingOn
<1>3. ASSUME NEW inCall, NEW o, ShownAt(T, q + 1) = Shown(inCall, 2, <<>>, o)
      PROVE  ShownAt(T, q + 3) = Shown(inCall, 0, <<>>, o)
  <2>1. ShownAt(T, q + 2) = Shown(inCall, 1, <<>>, o)
    <3> DEFINE x == Shown(inCall, 2, <<>>, o)
    <3>1. x.inCall = inCall /\ x.skip = 2 /\ x.body = <<>> /\ x.out = o
      BY ShownFields
    <3>2. ShownAt(T, q + 2) = Shows(T, x, q + 2)
      BY <1>2, <1>3
    <3> HIDE DEF x
    <3>3. QED
      BY <3>1, <3>2 DEF Shows
  <2> DEFINE x == Shown(inCall, 1, <<>>, o)
  <2>2. x.inCall = inCall /\ x.skip = 1 /\ x.body = <<>> /\ x.out = o
    BY ShownFields
  <2>3. ShownAt(T, q + 3) = Shows(T, x, q + 3)
    BY <1>2, <2>1
  <2> HIDE DEF x
  <2>4. QED
    BY <2>2, <2>3 DEF Shows
<1>4. ASSUME ~r.inCall, TagAt(T, q + 1, OpenTag)
      PROVE  ShownAt(T, q + 3) = Shown(TRUE, 0, <<>>, r.out)
  <2>1. Shows(T, r, q + 1) = Shown(TRUE, 2, <<>>, r.out)
    BY <1>4, Zenon DEF Shows
  <2> DEFINE yes == TRUE
  <2> HIDE DEF yes
  <2>2. ShownAt(T, q + 1) = Shown(yes, 2, <<>>, r.out)
    BY <1>2, <2>1 DEF yes
  <2>3. ShownAt(T, q + 3) = Shown(yes, 0, <<>>, r.out)
    BY <1>3, <2>2
  <2>4. QED
    BY <2>3 DEF yes
<1>5. ASSUME r.inCall, TagAt(T, q + 1, CloseTag)
      PROVE  ShownAt(T, q + 3) = Shown(FALSE, 0, <<>>, out)
  <2> DEFINE no == FALSE
  <2>1. Shows(T, r, q + 1) = Shown(no, 2, <<>>, out)
    BY <1>5, Zenon DEF Shows
  <2> HIDE DEF no
  <2>2. ShownAt(T, q + 1) = Shown(no, 2, <<>>, out)
    BY <1>2, <2>1
  <2>3. ShownAt(T, q + 3) = Shown(no, 0, <<>>, out)
    BY <1>3, <2>2
  <2>4. QED
    BY <2>3 DEF no
<1>6. QED
  BY <1>4, <1>5, Zenon DEF InCall

LEMMA CallOpens ==
  ASSUME NEW T, IsList(T), NEW q \in Nat, q + 3 <= Len(T),
         ShownAt(T, q).skip = 0, ~InCall(ShownAt(T, q)), TagAt(T, q + 1, OpenTag)
  PROVE  /\ ShownAt(T, q + 3).skip = 0 /\ ShownAt(T, q + 3).inCall = TRUE
         /\ ShownAt(T, q + 3).body = <<>> /\ ShownAt(T, q + 3).out = ShownAt(T, q).out
<1> DEFINE yes == TRUE
           y == Shown(yes, 0, <<>>, ShownAt(T, q).out)
<1>1. ShownAt(T, q + 3) = y
  BY ShowTag, Zenon
<1> HIDE DEF yes
<1>2. y.skip = 0 /\ y.inCall = yes /\ y.body = <<>> /\ y.out = ShownAt(T, q).out
  BY ShownFields
<1> HIDE DEF y
<1>3. QED
  BY <1>1, <1>2 DEF yes

LEMMA CallCloses ==
  ASSUME NEW T, IsList(T), NEW q \in Nat, q + 3 <= Len(T),
         ShownAt(T, q).skip = 0, InCall(ShownAt(T, q)), TagAt(T, q + 1, CloseTag)
  PROVE  /\ ShownAt(T, q + 3).skip = 0 /\ ShownAt(T, q + 3).inCall = FALSE
         /\ ShownAt(T, q + 3).body = <<>>
         /\ ShownAt(T, q + 3).out = IF ShownAt(T, q).body = <<"json">>
                                    THEN AddVisible(ShownAt(T, q).out, "call", ShownAt(T, q).body)
                                    ELSE ShownAt(T, q).out
<1> DEFINE no == FALSE
           out == IF ShownAt(T, q).body = <<"json">>
                  THEN AddVisible(ShownAt(T, q).out, "call", ShownAt(T, q).body)
                  ELSE ShownAt(T, q).out
           y == Shown(no, 0, <<>>, out)
<1>0. out = IF ShownAt(T, q).body = <<"json">>
            THEN AddVisible(ShownAt(T, q).out, "call", ShownAt(T, q).body)
            ELSE ShownAt(T, q).out
  OBVIOUS
<1>1. ShownAt(T, q + 3) = y
  <2> DEFINE r == ShownAt(T, q)
  <2> HIDE DEF out, r
  <2>1. /\ r = ShownAt(T, q) /\ r.skip = 0 /\ InCall(r) /\ TagAt(T, q + 1, CloseTag)
        /\ out = IF r.body = <<"json">> THEN AddVisible(r.out, "call", r.body) ELSE r.out
    BY <1>0 DEF r
  <2>2. QED
    BY <2>1, ShowTag, Zenon
<1> HIDE DEF no, out
<1>2. y.skip = 0 /\ y.inCall = no /\ y.body = <<>> /\ y.out = out
  BY ShownFields
<1> HIDE DEF y
<1>3. QED
  BY <1>1, <1>2 DEF no, out

-----------------------------------------------------------------------------
(* A ToolCallTextParser has read the first q of e symbols as the reader    *)
(* does, up to the beginning of a call if it is in one, and has the others *)
(* in its buffer.                                                          *)

CallsTo(T, p, q, e) ==
  /\ q \in Nat /\ q <= e /\ ShownAt(T, q).skip = 0 /\ ShownAt(T, q).body = <<>>
  /\ p.inCall = ShownAt(T, q).inCall /\ p.buf = Win(T, q, e)

\* What the reader is shown from the q-th symbol to the k-th: a bad call is not.
ShowsFrom(T, q, k, kind, body) ==
  /\ PartOf(T, body)
  /\ ShownAt(T, k).out = IF kind = "badCall" THEN ShownAt(T, q).out
                         ELSE AddVisible(ShownAt(T, q).out, kind, body)

\* The events a pass gives out.
Given(kind, body) == IF kind = "text" THEN Chunk(kind, body) ELSE <<Event(kind, body)>>

\* A pass makes y of x, and with it the reader goes on from the q-th symbol.
PassReads(T, x, y, q, e) ==
  \E k, kind, body :
    /\ k \in Nat /\ q <= k /\ CallsTo(T, y.parser, k, e)
    /\ kind \in ToolKinds /\ ShowsFrom(T, q, k, kind, body)
    /\ y.events = x.events \o Given(kind, body)

\* A tag that is in the buffer, after the m-th symbol.
LEMMA BufferTag ==
  ASSUME NEW T, IsList(T), NEW q \in Nat, NEW e \in Nat, q <= e, e <= Len(T), NEW tag, IsTag(tag),
         Find(Win(T, q, e), tag) # 0
  PROVE  \E m \in Nat :
           /\ q <= m /\ m <= Len(T) /\ m + 3 <= e /\ m + 3 <= Len(T) /\ TagAt(T, m + 1, tag) /\ NoneOf(T, tag, q, m)
           /\ Before(Win(T, q, e), Find(Win(T, q, e), tag)) = Win(T, q, m)
           /\ After(Win(T, q, e), Find(Win(T, q, e), tag) + Len(tag) - 1) = Win(T, m + 3, e)
<1> DEFINE buf == Win(T, q, e)
           at == Find(buf, tag)
           m == q + (at - 1)
           l == at + 2
<1>1. Len(tag) = 3 /\ Len(T) \in Nat
  BY ListFacts DEF IsTag
<1>2. /\ at \in 0 .. e - q /\ at # 0 /\ at + 2 <= e - q /\ TagAt(T, q + at, tag)
      /\ \A i \in 1 .. e - q : i + 2 <= e - q /\ TagAt(T, q + i, tag) => at <= i
  BY BufferFinds
<1> HIDE DEF at
<1>3. at \in 1 .. e - q /\ at + 2 <= e - q
  BY <1>2
<1>4. /\ m \in Nat /\ q <= m /\ m + 3 <= e /\ m + 3 <= Len(T) /\ m + 3 \in Nat /\ q <= m + 3
      /\ m + 1 = q + at /\ m + 3 = q + (at + 2) /\ at + 2 \in 0 .. e - q /\ at \in 0 .. e - q
      /\ at + 3 - 1 = at + 2
  BY <1>1, <1>3, TagEnds
<1>5. NoneOf(T, tag, q, m)
  <2> SUFFICES ASSUME NEW n \in q + 1 .. m, TagAt(T, n, tag) PROVE FALSE
    BY DEF NoneOf
  <2> DEFINE i == n - q
  <2>1. i \in 1 .. e - q /\ i + 2 <= e - q /\ q + i = n /\ ~(at <= i)
    BY <1>1, <1>3, TagEnds
  <2> HIDE DEF i
  <2>2. QED
    BY <1>2, <2>1
<1>6. TagAt(T, m + 1, tag)
  BY <1>2, <1>4
<1>7. After(buf, l) = Win(T, q + l, e)
  <2> HIDE DEF l
  <2>1. l \in 0 .. e - q
    BY <1>4 DEF l
  <2>2. QED
    BY <2>1, BufferCuts DEF CutAfter
<1>8. Before(buf, at) = Win(T, q, m)
  BY <1>2, <1>4, BufferCuts DEF CutAfter
<1>9. at + Len(tag) - 1 = l /\ m + 3 = q + l /\ m <= Len(T)
  BY <1>1, <1>4
<1> HIDE DEF m, l
<1>10. /\ q <= m /\ m <= Len(T) /\ m + 3 <= e /\ m + 3 <= Len(T) /\ TagAt(T, m + 1, tag)
       /\ NoneOf(T, tag, q, m)
       /\ Before(buf, at) = Win(T, q, m) /\ After(buf, at + Len(tag) - 1) = Win(T, m + 3, e)
  BY <1>4, <1>5, <1>6, <1>7, <1>8, <1>9
<1>11. QED
  BY <1>4, <1>10 DEF at

\* One pass over the buffer outside of a call.
LEMMA TextPassReads ==
  ASSUME NEW T, IsList(T), NEW e \in Nat, e <= Len(T), NEW x,
         NEW q, CallsTo(T, x.parser, q, e), ~InCall(x.parser)
  PROVE  PassReads(T, x, TextPass(x), q, e)
<1> DEFINE buf  == Win(T, q, e)
           at   == Find(buf, OpenTag)
           safe == SafeFlushLen(buf, OpenTag)
           out  == ShownAt(T, q).out
           no   == FALSE
           yes  == TRUE
           last == Pass([inCall |-> no, buf |-> After(buf, safe)],
                        x.events \o Chunk("text", SubSeq(buf, 1, safe)), yes)
           more == Pass([inCall |-> yes, buf |-> After(buf, at + Len(OpenTag) - 1)],
                        x.events \o Chunk("text", Before(buf, at)), no)
<1>1. /\ q \in Nat /\ q <= e /\ ShownAt(T, q).skip = 0 /\ ~InCall(ShownAt(T, q))
      /\ x.parser.buf = buf /\ q \in 0 .. Len(T) /\ Len(T) \in Nat
  BY ListFacts DEF CallsTo, InCall
<1>2. TextPass(x) = IF at = 0 THEN last ELSE more
  BY <1>1, Zenon DEF TextPass
<1>3. IsList(buf) /\ Len(buf) = e - q /\ IsTag(OpenTag)
  BY <1>1, WinFacts, TagLists
<1>4. EventsSeen(out)
  BY <1>1, ShownIsOK DEF ShownOK
<1>5. ~no /\ yes
  OBVIOUS
<1>9. \A b : Chunk("text", b) = Given("text", b)
  BY DEF Given
<1>10. "text" \in ToolKinds
  BY DEF ToolKinds
<1> HIDE DEF no, yes
<1>6. CASE at = 0
  <2> DEFINE m == q + safe
             body == Win(T, q, m)
             y == Shown(no, 0, <<>>, AddVisible(out, "text", body))
  <2>1. safe \in 0 .. e - q
    BY <1>3, FlushFacts DEF IsTag
  <2>2. NoneOf(T, OpenTag, q, m)
    <3> DEFINE o == OpenTag
               f == safe
    <3> HIDE DEF o
    <3>0. f <= SafeFlushLen(Win(T, q, e), o)
      BY <1>3, <2>1 DEF o
    <3> HIDE DEF f
    <3>1. \A i \in q + 1 .. q + f : ~TagAt(T, i, o)
      BY <1>1, <1>3, <1>6, <2>1, <3>0, BufferFlushes DEF o, f
    <3>2. QED
      BY <3>1 DEF NoneOf, f, o
  <2>3. m \in Nat /\ q <= m /\ m <= e /\ m <= Len(T)
    BY <1>1, <2>1
  <2>4. ShownAt(T, m) = y
    <3> HIDE DEF m
    <3>1. ShownAt(T, m) = Shown(FALSE, 0, <<>>, AddVisible(out, "text", body))
      <4> HIDE DEF buf, last, more, y
      <4>1. RunShown(T, q, m)
        BY <1>1, <2>2, <2>3, ShowRunAt
      <4>2. QED
        BY <4>1 DEF RunShown, body, out
    <3>2. QED
      BY <3>1 DEF no
  <2>5. After(buf, safe) = Win(T, m, e) /\ SubSeq(buf, 1, safe) = body
    <3> HIDE DEF safe, last, more, y, out
    <3>0. q \in Nat /\ q <= e /\ safe \in 0 .. e - q
      BY <1>1, <2>1
    <3>1. After(Win(T, q, e), safe) = Win(T, q + safe, e) /\ SubSeq(Win(T, q, e), 1, safe) = Win(T, q, q + safe)
      <4>1. CutAfter(T, q, e, safe)
        BY <3>0, BufferCuts
      <4>2. QED
        BY <4>1 DEF CutAfter
    <3>2. QED
      BY <3>1
  <2>6. y.skip = 0 /\ y.body = <<>> /\ y.inCall = no /\ y.out = AddVisible(out, "text", body)
    <3> DEFINE z == AddVisible(out, "text", body)
    <3> HIDE DEF z
    <3>1. QED
      BY ShownFields
  <2>7. last.parser.inCall = no /\ last.parser.buf = Win(T, m, e) /\ last.events = x.events \o Chunk("text", body)
    <3> HIDE DEF m, body, safe
    <3>1. QED
      BY <2>5 DEF Pass
  <2>8. PartOf(T, body)
    <3> HIDE DEF m
    <3>1. QED
      BY <1>1, <2>3 DEF PartOf
  <2>9. TextPass(x) = last
    BY <1>2, <1>6
  <2> HIDE DEF last, m, body, out, y
  <2>10. CallsTo(T, last.parser, m, e)
    BY <2>3, <2>4, <2>6, <2>7 DEF CallsTo
  <2>11. ShowsFrom(T, q, m, "text", body)
    BY <2>4, <2>6, <2>8 DEF ShowsFrom, out
  <2>12. QED
    BY <1>9, <1>10, <2>3, <2>7, <2>9, <2>10, <2>11 DEF PassReads
<1>7. CASE at # 0
  <2>1. PICK m \in Nat :
           /\ q <= m /\ m <= Len(T) /\ m + 3 <= e /\ m + 3 <= Len(T)
           /\ TagAt(T, m + 1, OpenTag) /\ NoneOf(T, OpenTag, q, m)
           /\ Before(buf, at) = Win(T, q, m) /\ After(buf, at + Len(OpenTag) - 1) = Win(T, m + 3, e)
    BY <1>1, <1>3, <1>7, BufferTag
  <2> DEFINE k == m + 3
             body == Win(T, q, m)
             z == AddVisible(out, "text", body)
             y == Shown(no, 0, <<>>, z)
  <2>2. k \in Nat /\ q <= k /\ k <= e
    BY <1>1, <2>1
  <2>3. ShownAt(T, m) = y
    <3>1. ShownAt(T, m) = Shown(FALSE, 0, <<>>, z)
      <4> HIDE DEF buf, last, more, y
      <4>1. RunShown(T, q, m)
        BY <1>1, <2>1, ShowRunAt
      <4>2. QED
        BY <4>1 DEF RunShown, body, out, z
    <3>2. QED
      BY <3>1 DEF no
  <2> HIDE DEF z
  <2>4. y.skip = 0 /\ y.inCall = no /\ y.out = z
    BY ShownFields
  <2>5. /\ ShownAt(T, k).skip = 0 /\ ShownAt(T, k).inCall = yes /\ ShownAt(T, k).body = <<>>
        /\ ShownAt(T, k).out = z
    <3> HIDE DEF y
    <3>1. ShownAt(T, m).skip = 0 /\ ~InCall(ShownAt(T, m)) /\ ShownAt(T, m).out = z
      BY <1>5, <2>3, <2>4 DEF InCall
    <3>2. QED
      BY <2>1, <3>1, CallOpens DEF yes
  <2>6. more.parser.inCall = yes /\ more.parser.buf = Win(T, k, e) /\ more.events = x.events \o Chunk("text", body)
    <3> HIDE DEF body, k, at
    <3>1. After(buf, at + Len(OpenTag) - 1) = Win(T, k, e) /\ Before(buf, at) = body
      BY <2>1 DEF k, body
    <3>2. QED
      BY <3>1 DEF Pass
  <2>7. PartOf(T, body)
    BY <1>1, <2>1 DEF PartOf
  <2>8. TextPass(x) = more
    BY <1>2, <1>7
  <2> HIDE DEF more, k, body, out, y
  <2>9. CallsTo(T, more.parser, k, e)
    BY <2>2, <2>4, <2>5, <2>6 DEF CallsTo
  <2>10. ShowsFrom(T, q, k, "text", body)
    BY <2>4, <2>5, <2>7 DEF ShowsFrom, out, z
  <2>11. QED
    BY <1>9, <1>10, <2>2, <2>6, <2>8, <2>9, <2>10 DEF PassReads
<1>8. QED
  BY <1>6, <1>7

\* A pass in which nothing is given out.
LEMMA NothingShown ==
  ASSUME NEW T, IsList(T), NEW q \in 0 .. Len(T)
  PROVE  ShowsFrom(T, q, q, "text", <<>>)
<1>1. PartOf(T, <<>>)
  <2> DEFINE z == 0
  <2> HIDE DEF z
  <2>1. z \in Nat /\ Win(T, z, z) = <<>> /\ Len(T) \in Nat /\ z <= z /\ z <= Len(T)
    BY WinNone, ListFacts DEF z
  <2>2. QED
    BY <2>1 DEF PartOf
<1>2. AddVisible(ShownAt(T, q).out, "text", <<>>) = ShownAt(T, q).out
  BY AddsNothing
<1>3. QED
  BY <1>1, <1>2 DEF ShowsFrom

\* One pass within a call.
LEMMA ToolPassReads ==
  ASSUME NEW T, IsList(T), NEW e \in Nat, e <= Len(T), NEW x, IsList(x.events),
         NEW q, CallsTo(T, x.parser, q, e), InCall(x.parser)
  PROVE  PassReads(T, x, ToolPass(x), q, e)
<1> DEFINE buf  == Win(T, q, e)
           at   == Find(buf, CloseTag)
           out  == ShownAt(T, q).out
           no   == FALSE
           yes  == TRUE
           last == Pass(x.parser, x.events, yes)
           more == Pass([inCall |-> no, buf |-> After(buf, at + Len(CloseTag) - 1)],
                        x.events \o EmitToolCall(Before(buf, at)), no)
<1>1. /\ q \in Nat /\ q <= e /\ ShownAt(T, q).skip = 0 /\ InCall(ShownAt(T, q)) /\ ShownAt(T, q).body = <<>>
      /\ x.parser.buf = buf /\ q \in 0 .. Len(T) /\ Len(T) \in Nat
  BY ListFacts DEF CallsTo, InCall
<1>2. ToolPass(x) = IF at = 0 THEN last ELSE more
  BY <1>1, Zenon DEF ToolPass
<1>3. IsList(buf) /\ IsTag(CloseTag)
  BY <1>1, WinFacts, TagLists
<1>5. ~no /\ yes
  OBVIOUS
<1> HIDE DEF no, yes
<1>6. CASE at = 0
  <2>1. last.parser = x.parser /\ last.events = x.events
    BY DEF Pass
  <2>2. ToolPass(x) = last
    BY <1>2, <1>6
  <2>3. x.events \o Given("text", <<>>) = x.events
    BY JoinsEmpty DEF Given, Chunk
  <2>4. ShowsFrom(T, q, q, "text", <<>>)
    BY <1>1, NothingShown
  <2> HIDE DEF last
  <2>5. CallsTo(T, ToolPass(x).parser, q, e) /\ ToolPass(x).events = x.events \o Given("text", <<>>)
    BY <2>1, <2>2, <2>3
  <2>6. "text" \in ToolKinds /\ q <= q
    BY <1>1 DEF ToolKinds
  <2>7. QED
    BY <1>1, <2>4, <2>5, <2>6 DEF PassReads
<1>7. CASE at # 0
  <2>1. PICK m \in Nat :
           /\ q <= m /\ m <= Len(T) /\ m + 3 <= e /\ m + 3 <= Len(T)
           /\ TagAt(T, m + 1, CloseTag) /\ NoneOf(T, CloseTag, q, m)
           /\ Before(buf, at) = Win(T, q, m) /\ After(buf, at + Len(CloseTag) - 1) = Win(T, m + 3, e)
    BY <1>1, <1>3, <1>7, BufferTag
  <2> DEFINE k == m + 3
             body == Win(T, q, m)
             kind == IF body = <<"json">> THEN "call" ELSE "badCall"
             shown == IF body = <<"json">> THEN AddVisible(out, "call", body) ELSE out
  <2>2. k \in Nat /\ q <= k /\ k <= e
    BY <1>1, <2>1
  <2>3. /\ ShownAt(T, m).skip = 0 /\ InCall(ShownAt(T, m)) /\ ShownAt(T, m).body = body
        /\ ShownAt(T, m).out = out
    <3>1. <<>> \o body = body
      BY <1>1, <2>1, WinFacts, JoinsEmpty
    <3> DEFINE b == ShownAt(T, m).body
    <3>2. /\ ShownAt(T, m).skip = 0 /\ InCall(ShownAt(T, m)) /\ b = ShownAt(T, q).body \o Win(T, q, m)
          /\ ShownAt(T, m).out = ShownAt(T, q).out
      BY <1>1, <2>1, ShowBody
    <3> HIDE DEF b
    <3>3. b = body
      BY <1>1, <3>1, <3>2
    <3>4. QED
      BY <3>2, <3>3 DEF b
  <2> HIDE DEF body
  <2>5. /\ ShownAt(T, k).skip = 0 /\ ShownAt(T, k).inCall = no /\ ShownAt(T, k).body = <<>>
        /\ ShownAt(T, k).out = shown
    BY <2>1, <2>3, CallCloses DEF no
  <2> HIDE DEF shown
  <2>6. /\ more.parser.inCall = no /\ more.parser.buf = Win(T, k, e)
        /\ more.events = x.events \o EmitToolCall(body)
    <3> HIDE DEF k, at
    <3>1. After(buf, at + Len(CloseTag) - 1) = Win(T, k, e) /\ Before(buf, at) = body
      BY <2>1 DEF k, body
    <3>2. QED
      BY <3>1 DEF Pass
  <2>7. PartOf(T, body)
    BY <1>1, <2>1 DEF PartOf, body
  <2>8. ToolPass(x) = more
    BY <1>2, <1>7
  <2>9. EmitToolCall(body) = Given(kind, body) /\ kind \in ToolKinds
    BY DEF EmitToolCall, Given, ToolKinds
  <2>10. shown = IF kind = "badCall" THEN out ELSE AddVisible(out, kind, body)
    BY DEF shown
  <2> HIDE DEF more, k, out, kind
  <2>11. CallsTo(T, more.parser, k, e)
    BY <2>2, <2>5, <2>6 DEF CallsTo
  <2>12. ShowsFrom(T, q, k, kind, body)
    BY <2>5, <2>7, <2>10 DEF ShowsFrom, out
  <2>13. QED
    BY <2>2, <2>6, <2>8, <2>9, <2>11, <2>12 DEF PassReads
<1>8. QED
  BY <1>6, <1>7

\* One pass over the buffer: the reader goes on from q to k.
LEMMA EitherPassReads ==
  ASSUME NEW T, IsList(T), NEW e \in Nat, e <= Len(T), NEW x, ~x.over, IsList(x.events),
         NEW q, CallsTo(T, x.parser, q, e)
  PROVE  PassReads(T, x, EitherPass(x), q, e)
<1>1. CASE InCall(x.parser)
  <2>1. EitherPass(x) = ToolPass(x)
    BY <1>1, Zenon DEF EitherPass, InCall
  <2>2. PassReads(T, x, ToolPass(x), q, e)
    BY <1>1, ToolPassReads
  <2>3. QED
    BY <2>1, <2>2
<1>2. CASE ~InCall(x.parser)
  <2>1. EitherPass(x) = TextPass(x)
    BY <1>2, Zenon DEF EitherPass, InCall
  <2>2. PassReads(T, x, TextPass(x), q, e)
    BY <1>2, TextPassReads
  <2>3. QED
    BY <2>1, <2>2
<1>3. QED
  BY <1>1, <1>2


-----------------------------------------------------------------------------
(* The events of the parsers, one more at a time.                          *)

Adds(events, e) == events \o <<e>>
FoldOf(t, events) == [t |-> t, events |-> events, N |-> {}]

LEMMA OneMore ==
  ASSUME NEW events, IsList(events), NEW e, NEW all, all = Adds(events, e)
  PROVE  /\ IsList(all) /\ Len(events) \in Nat /\ Len(all) = Len(events) + 1
         /\ \A n \in 1 .. Len(events) : all[n] = events[n]
         /\ all[Len(all)] = e
<1>1. IsList(<<e>>) /\ Len(<<e>>) = 1 /\ <<e>>[1] = e
  BY OneIsList
<1> DEFINE y == <<e>>
<1> HIDE DEF y
<1>2. /\ IsList(events \o y) /\ Len(events) \in Nat /\ Len(y) \in Nat
      /\ Len(events \o y) = Len(events) + Len(y)
      /\ \A i \in 1 .. Len(events) + Len(y) :
           (events \o y)[i] = IF i <= Len(events) THEN events[i] ELSE y[i - Len(events)]
  BY <1>1, Joins DEF y
<1>3. all = events \o y /\ Len(y) = 1 /\ y[1] = e
  BY <1>1 DEF y, Adds
<1> DEFINE l == Len(events)
<1> HIDE DEF l
<1>4. l \in Nat /\ Len(all) = l + 1 /\ \A i \in 1 .. l + 1 : all[i] = IF i <= l THEN events[i] ELSE y[i - l]
  BY <1>2, <1>3 DEF l
<1>5. \A n \in 1 .. l : all[n] = events[n]
  BY <1>4
<1>6. all[l + 1] = y[1]
  <2>1. l + 1 \in 1 .. l + 1 /\ ~(l + 1 <= l) /\ (l + 1) - l = 1
    BY <1>4
  <2>2. QED
    BY <1>4, <2>1
<1>7. QED
  BY <1>2, <1>3, <1>4, <1>5, <1>6 DEF l

LEMMA OpenaiUnfolds ==
  ASSUME NEW t, NEW events, Len(events) \in Nat
  PROVE  OpenaiEvents(t, events) = OpenaiFold!At(FoldOf(t, events))[Len(events)]
<1> DEFINE m == CHOOSE f : f = [n \in 0 .. Len(events) |->
                  IF n = 0 THEN t ELSE OpenaiParserEvent(f[n - 1], events[n])]
           c == FoldOf(t, events)
<1>1. c.t = t /\ c.events = events
  BY DEF FoldOf
<1> HIDE DEF c
<1>2. m = [n \in 0 .. EventSteps(c) |-> OpenaiFold!Value(c, m, n)]
  <2>1. EventSteps(c) \in Nat /\ EventSteps(c) = Len(events)
    BY <1>1 DEF EventSteps
  <2>2. \E f : f = [n \in 0 .. EventSteps(c) |-> OpenaiFold!Value(c, f, n)]
    BY <2>1, OpenaiFold!Exists
  <2>3. ASSUME NEW f, NEW n
        PROVE  OpenaiFold!Value(c, f, n) = IF n = 0 THEN t ELSE OpenaiParserEvent(f[n - 1], events[n])
    BY <1>1 DEF OpenaiFold!Value, EventStart, OpenaiStep
  <2>4. \E f : f = [n \in 0 .. Len(events) |-> IF n = 0 THEN t ELSE OpenaiParserEvent(f[n - 1], events[n])]
    BY <2>1, <2>2, <2>3
  <2>5. m = [n \in 0 .. Len(events) |-> IF n = 0 THEN t ELSE OpenaiParserEvent(m[n - 1], events[n])]
    BY <2>4
  <2> HIDE DEF m
  <2>6. QED
    BY <2>1, <2>3, <2>5
<1>3. OpenaiEvents(t, events) = m[Len(events)]
  BY DEF OpenaiEvents
<1> HIDE DEF m
<1>4. EventSteps(c) = Len(events)
  BY <1>1 DEF EventSteps
<1>5. \A n \in 0 .. EventSteps(c) : m[n] = OpenaiFold!At(c)[n]
  BY <1>2, <1>4, OpenaiFold!Same
<1>6. QED
  BY <1>3, <1>4, <1>5 DEF c

LEMMA OpenaiNone ==
  ASSUME NEW t
  PROVE  OpenaiEvents(t, <<>>) = t
<1>1. FoldOf(t, <<>>).t = t /\ FoldOf(t, <<>>).events = <<>> /\ Len(<<>>) = 0
  BY EmptyIsList DEF FoldOf
<1>2. OpenaiEvents(t, <<>>) = OpenaiFold!At(FoldOf(t, <<>>))[0]
  BY <1>1, OpenaiUnfolds
<1>3. EventSteps(FoldOf(t, <<>>)) = 0
  BY <1>1 DEF EventSteps
<1>4. OpenaiFold!At(FoldOf(t, <<>>))[0] = EventStart(FoldOf(t, <<>>))
  BY <1>3, OpenaiFold!Unfolds
<1>5. QED
  BY <1>1, <1>2, <1>4 DEF EventStart

LEMMA OpenaiMore ==
  ASSUME NEW t, NEW events, IsList(events), NEW e
  PROVE  OpenaiEvents(t, Adds(events, e)) = OpenaiParserEvent(OpenaiEvents(t, events), e)
<1> DEFINE all == Adds(events, e)
           c == FoldOf(t, events)
           d == FoldOf(t, all)
<1>1. c.t = t /\ c.events = events /\ d.t = t /\ d.events = all
  BY DEF FoldOf
<1>2. /\ IsList(all) /\ Len(events) \in Nat /\ Len(all) = Len(events) + 1
      /\ \A n \in 1 .. Len(events) : all[n] = events[n]
      /\ all[Len(all)] = e
  BY OneMore
<1> HIDE DEF c, d, all
<1>3. EventSteps(c) = Len(events) /\ EventSteps(d) = Len(all) /\ EventStart(c) = EventStart(d)
  BY <1>1 DEF EventSteps, EventStart
<1>4. \A x : \A n \in 1 .. EventSteps(c) : OpenaiStep(c, x, n) = OpenaiStep(d, x, n)
  BY <1>1, <1>2, <1>3 DEF OpenaiStep
<1>5. EventSteps(c) \in Nat /\ EventSteps(d) = EventSteps(c) + 1
  BY <1>2, <1>3
<1>6. OpenaiFold!At(d)[EventSteps(d)] = OpenaiStep(d, OpenaiFold!At(c)[EventSteps(c)], EventSteps(d))
  BY <1>3, <1>4, <1>5, OpenaiFold!Extends
<1>7. Len(all) \in Nat
  BY <1>2
<1>8. /\ OpenaiEvents(t, all) = OpenaiFold!At(d)[EventSteps(d)]
      /\ OpenaiEvents(t, events) = OpenaiFold!At(c)[EventSteps(c)]
  BY <1>2, <1>3, <1>7, OpenaiUnfolds DEF c, d
<1>9. QED
  BY <1>1, <1>2, <1>3, <1>6, <1>8 DEF OpenaiStep, all

LEMMA OllamaUnfolds ==
  ASSUME NEW t, NEW events, Len(events) \in Nat
  PROVE  OllamaEvents(t, events) = OllamaFold!At(FoldOf(t, events))[Len(events)]
<1> DEFINE m == CHOOSE f : f = [n \in 0 .. Len(events) |->
                  IF n = 0 THEN t ELSE OllamaParserEvent(f[n - 1], events[n])]
           c == FoldOf(t, events)
<1>1. c.t = t /\ c.events = events
  BY DEF FoldOf
<1> HIDE DEF c
<1>2. m = [n \in 0 .. EventSteps(c) |-> OllamaFold!Value(c, m, n)]
  <2>1. EventSteps(c) \in Nat /\ EventSteps(c) = Len(events)
    BY <1>1 DEF EventSteps
  <2>2. \E f : f = [n \in 0 .. EventSteps(c) |-> OllamaFold!Value(c, f, n)]
    BY <2>1, OllamaFold!Exists
  <2>3. ASSUME NEW f, NEW n
        PROVE  OllamaFold!Value(c, f, n) = IF n = 0 THEN t ELSE OllamaParserEvent(f[n - 1], events[n])
    BY <1>1 DEF OllamaFold!Value, EventStart, OllamaStep
  <2>4. \E f : f = [n \in 0 .. Len(events) |-> IF n = 0 THEN t ELSE OllamaParserEvent(f[n - 1], events[n])]
    BY <2>1, <2>2, <2>3
  <2>5. m = [n \in 0 .. Len(events) |-> IF n = 0 THEN t ELSE OllamaParserEvent(m[n - 1], events[n])]
    BY <2>4
  <2> HIDE DEF m
  <2>6. QED
    BY <2>1, <2>3, <2>5
<1>3. OllamaEvents(t, events) = m[Len(events)]
  BY DEF OllamaEvents
<1> HIDE DEF m
<1>4. EventSteps(c) = Len(events)
  BY <1>1 DEF EventSteps
<1>5. \A n \in 0 .. EventSteps(c) : m[n] = OllamaFold!At(c)[n]
  BY <1>2, <1>4, OllamaFold!Same
<1>6. QED
  BY <1>3, <1>4, <1>5 DEF c

LEMMA OllamaNone ==
  ASSUME NEW t
  PROVE  OllamaEvents(t, <<>>) = t
<1>1. FoldOf(t, <<>>).t = t /\ FoldOf(t, <<>>).events = <<>> /\ Len(<<>>) = 0
  BY EmptyIsList DEF FoldOf
<1>2. OllamaEvents(t, <<>>) = OllamaFold!At(FoldOf(t, <<>>))[0]
  BY <1>1, OllamaUnfolds
<1>3. EventSteps(FoldOf(t, <<>>)) = 0
  BY <1>1 DEF EventSteps
<1>4. OllamaFold!At(FoldOf(t, <<>>))[0] = EventStart(FoldOf(t, <<>>))
  BY <1>3, OllamaFold!Unfolds
<1>5. QED
  BY <1>1, <1>2, <1>4 DEF EventStart

LEMMA OllamaMore ==
  ASSUME NEW t, NEW events, IsList(events), NEW e
  PROVE  OllamaEvents(t, Adds(events, e)) = OllamaParserEvent(OllamaEvents(t, events), e)
<1> DEFINE all == Adds(events, e)
           c == FoldOf(t, events)
           d == FoldOf(t, all)
<1>1. c.t = t /\ c.events = events /\ d.t = t /\ d.events = all
  BY DEF FoldOf
<1>2. /\ IsList(all) /\ Len(events) \in Nat /\ Len(all) = Len(events) + 1
      /\ \A n \in 1 .. Len(events) : all[n] = events[n]
      /\ all[Len(all)] = e
  BY OneMore
<1> HIDE DEF c, d, all
<1>3. EventSteps(c) = Len(events) /\ EventSteps(d) = Len(all) /\ EventStart(c) = EventStart(d)
  BY <1>1 DEF EventSteps, EventStart
<1>4. \A x : \A n \in 1 .. EventSteps(c) : OllamaStep(c, x, n) = OllamaStep(d, x, n)
  BY <1>1, <1>2, <1>3 DEF OllamaStep
<1>5. EventSteps(c) \in Nat /\ EventSteps(d) = EventSteps(c) + 1
  BY <1>2, <1>3
<1>6. OllamaFold!At(d)[EventSteps(d)] = OllamaStep(d, OllamaFold!At(c)[EventSteps(c)], EventSteps(d))
  BY <1>3, <1>4, <1>5, OllamaFold!Extends
<1>7. Len(all) \in Nat
  BY <1>2
<1>8. /\ OllamaEvents(t, all) = OllamaFold!At(d)[EventSteps(d)]
      /\ OllamaEvents(t, events) = OllamaFold!At(c)[EventSteps(c)]
  BY <1>2, <1>3, <1>7, OllamaUnfolds DEF c, d
<1>9. QED
  BY <1>1, <1>2, <1>3, <1>6, <1>8 DEF OllamaStep, all

LEMMA PieceUnfolds ==
  ASSUME NEW t, NEW events, Len(events) \in Nat
  PROVE  OllamaPieces(t, events) = PieceFold!At(FoldOf(t, events))[Len(events)]
<1> DEFINE m == CHOOSE f : f = [n \in 0 .. Len(events) |->
                  IF n = 0 THEN t ELSE OllamaPiece(f[n - 1], events[n])]
           c == FoldOf(t, events)
<1>1. c.t = t /\ c.events = events
  BY DEF FoldOf
<1> HIDE DEF c
<1>2. m = [n \in 0 .. EventSteps(c) |-> PieceFold!Value(c, m, n)]
  <2>1. EventSteps(c) \in Nat /\ EventSteps(c) = Len(events)
    BY <1>1 DEF EventSteps
  <2>2. \E f : f = [n \in 0 .. EventSteps(c) |-> PieceFold!Value(c, f, n)]
    BY <2>1, PieceFold!Exists
  <2>3. ASSUME NEW f, NEW n
        PROVE  PieceFold!Value(c, f, n) = IF n = 0 THEN t ELSE OllamaPiece(f[n - 1], events[n])
    BY <1>1 DEF PieceFold!Value, EventStart, PieceStep
  <2>4. \E f : f = [n \in 0 .. Len(events) |-> IF n = 0 THEN t ELSE OllamaPiece(f[n - 1], events[n])]
    BY <2>1, <2>2, <2>3
  <2>5. m = [n \in 0 .. Len(events) |-> IF n = 0 THEN t ELSE OllamaPiece(m[n - 1], events[n])]
    BY <2>4
  <2> HIDE DEF m
  <2>6. QED
    BY <2>1, <2>3, <2>5
<1>3. OllamaPieces(t, events) = m[Len(events)]
  BY DEF OllamaPieces
<1> HIDE DEF m
<1>4. EventSteps(c) = Len(events)
  BY <1>1 DEF EventSteps
<1>5. \A n \in 0 .. EventSteps(c) : m[n] = PieceFold!At(c)[n]
  BY <1>2, <1>4, PieceFold!Same
<1>6. QED
  BY <1>3, <1>4, <1>5 DEF c

LEMMA PieceNone ==
  ASSUME NEW t
  PROVE  OllamaPieces(t, <<>>) = t
<1>1. FoldOf(t, <<>>).t = t /\ FoldOf(t, <<>>).events = <<>> /\ Len(<<>>) = 0
  BY EmptyIsList DEF FoldOf
<1>2. OllamaPieces(t, <<>>) = PieceFold!At(FoldOf(t, <<>>))[0]
  BY <1>1, PieceUnfolds
<1>3. EventSteps(FoldOf(t, <<>>)) = 0
  BY <1>1 DEF EventSteps
<1>4. PieceFold!At(FoldOf(t, <<>>))[0] = EventStart(FoldOf(t, <<>>))
  BY <1>3, PieceFold!Unfolds
<1>5. QED
  BY <1>1, <1>2, <1>4 DEF EventStart

LEMMA PieceMore ==
  ASSUME NEW t, NEW events, IsList(events), NEW e
  PROVE  OllamaPieces(t, Adds(events, e)) = OllamaPiece(OllamaPieces(t, events), e)
<1> DEFINE all == Adds(events, e)
           c == FoldOf(t, events)
           d == FoldOf(t, all)
<1>1. c.t = t /\ c.events = events /\ d.t = t /\ d.events = all
  BY DEF FoldOf
<1>2. /\ IsList(all) /\ Len(events) \in Nat /\ Len(all) = Len(events) + 1
      /\ \A n \in 1 .. Len(events) : all[n] = events[n]
      /\ all[Len(all)] = e
  BY OneMore
<1> HIDE DEF c, d, all
<1>3. EventSteps(c) = Len(events) /\ EventSteps(d) = Len(all) /\ EventStart(c) = EventStart(d)
  BY <1>1 DEF EventSteps, EventStart
<1>4. \A x : \A n \in 1 .. EventSteps(c) : PieceStep(c, x, n) = PieceStep(d, x, n)
  BY <1>1, <1>2, <1>3 DEF PieceStep
<1>5. EventSteps(c) \in Nat /\ EventSteps(d) = EventSteps(c) + 1
  BY <1>2, <1>3
<1>6. PieceFold!At(d)[EventSteps(d)] = PieceStep(d, PieceFold!At(c)[EventSteps(c)], EventSteps(d))
  BY <1>3, <1>4, <1>5, PieceFold!Extends
<1>7. Len(all) \in Nat
  BY <1>2
<1>8. /\ OllamaPieces(t, all) = PieceFold!At(d)[EventSteps(d)]
      /\ OllamaPieces(t, events) = PieceFold!At(c)[EventSteps(c)]
  BY <1>2, <1>3, <1>7, PieceUnfolds DEF c, d
<1>9. QED
  BY <1>1, <1>2, <1>3, <1>6, <1>8 DEF PieceStep, all

-----------------------------------------------------------------------------
(* What is spoken of a thinking block.                                     *)

SpokenSteps(body) == Len(body)
SpokenStart(body) == <<>>
SpokenStep(body, x, n) == IF body[n] = "reason" THEN x ELSE Append(x, body[n])
SpokenHolds(body, x, n) == IsList(x)
Speech == INSTANCE Unfolding
  WITH Steps <- SpokenSteps, Start <- SpokenStart, Step <- SpokenStep, Holds <- SpokenHolds

LEMMA SpokenUnfolds ==
  ASSUME NEW body, Len(body) \in Nat
  PROVE  Spoken(body) = Speech!At(body)[Len(body)]
<1> DEFINE m == CHOOSE f : f = [n \in 0 .. Len(body) |->
                  IF n = 0 THEN <<>>
                  ELSE IF body[n] = "reason" THEN f[n - 1] ELSE Append(f[n - 1], body[n])]
<1>1. SpokenSteps(body) \in Nat /\ SpokenSteps(body) = Len(body)
  BY DEF SpokenSteps
<1>2. m = [n \in 0 .. SpokenSteps(body) |-> Speech!Value(body, m, n)]
  <2> DEFINE Value(f, n) ==
                  IF n = 0 THEN <<>>
                  ELSE IF body[n] = "reason" THEN f[n - 1] ELSE Append(f[n - 1], body[n])
  <2>1. \E f : f = [n \in 0 .. SpokenSteps(body) |-> Speech!Value(body, f, n)]
    BY <1>1, Speech!Exists
  <2>2. ASSUME NEW f, NEW n PROVE Speech!Value(body, f, n) = Value(f, n)
    BY DEF Speech!Value, SpokenStart, SpokenStep
  <2>3. m = CHOOSE f : f = [n \in 0 .. Len(body) |-> Value(f, n)]
    OBVIOUS
  <2> HIDE DEF m, Value
  <2>4. \E f : f = [n \in 0 .. Len(body) |-> Value(f, n)]
    BY <1>1, <2>1, <2>2
  <2>5. m = [n \in 0 .. Len(body) |-> Value(m, n)]
    BY <2>3, <2>4
  <2>6. QED
    BY <1>1, <2>2, <2>5
<1>3. Spoken(body) = m[Len(body)]
  BY DEF Spoken
<1> HIDE DEF m
<1>4. \A n \in 0 .. SpokenSteps(body) : m[n] = Speech!At(body)[n]
  BY <1>1, <1>2, Speech!Same
<1>5. QED
  BY <1>1, <1>3, <1>4

LEMMA SpeakingOn ==
  ASSUME NEW body, IsList(body)
  PROVE  /\ Speech!At(body)[0] = <<>>
         /\ \A n \in 1 .. Len(body) : Speech!At(body)[n] = IF body[n] = "reason" THEN Speech!At(body)[n - 1]
                                                           ELSE Append(Speech!At(body)[n - 1], body[n])
         /\ \A n \in 0 .. Len(body) : IsList(Speech!At(body)[n])
<1>1. SpokenSteps(body) \in Nat /\ SpokenSteps(body) = Len(body)
  BY ListFacts DEF SpokenSteps
<1>2. /\ Speech!At(body)[0] = SpokenStart(body)
      /\ \A n \in 1 .. SpokenSteps(body) : Speech!At(body)[n] = SpokenStep(body, Speech!At(body)[n - 1], n)
  BY <1>1, Speech!Unfolds
<1>3. SpokenHolds(body, SpokenStart(body), 0)
  BY EmptyIsList DEF SpokenHolds, SpokenStart
<1>4. \A x, n : n \in 1 .. SpokenSteps(body) /\ SpokenHolds(body, x, n - 1)
                  => SpokenHolds(body, SpokenStep(body, x, n), n)
  BY Grows DEF SpokenHolds, SpokenStep
<1>5. \A n \in 0 .. SpokenSteps(body) : SpokenHolds(body, Speech!At(body)[n], n)
  BY <1>1, <1>3, <1>4, Speech!Keeping
<1>6. QED
  BY <1>1, <1>2, <1>5 DEF SpokenStart, SpokenStep, SpokenHolds

LEMMA SpokenIsList ==
  ASSUME NEW body, IsList(body)
  PROVE  IsList(Spoken(body))
<1>1. Len(body) \in Nat
  BY ListFacts
<1>2. QED
  BY <1>1, SpeakingOn, SpokenUnfolds

\* All of a body in which nothing came out of band.
LEMMA SpokenAll ==
  ASSUME NEW body, IsList(body), \A i \in 1 .. Len(body) : body[i] # "reason"
  PROVE  Spoken(body) = body
<1> DEFINE S == {n \in Nat : n <= Len(body) => Speech!At(body)[n] = Win(body, 0, n)}
<1>1. Len(body) \in Nat
  BY ListFacts
<1>2. 0 \in S
  <2> DEFINE z == 0
  <2> HIDE DEF z
  <2>1. Win(body, z, z) = <<>>
    BY WinNone DEF z
  <2>2. QED
    BY <2>1, SpeakingOn DEF z
<1>3. ASSUME NEW n \in S PROVE n + 1 \in S
  <2>1. CASE n + 1 <= Len(body)
    <3>1. n \in Nat /\ n <= Len(body) /\ n + 1 \in 1 .. Len(body) /\ (n + 1) - 1 = n
      BY <1>1, <2>1
    <3>2. Speech!At(body)[n] = Win(body, 0, n)
      BY <3>1
    <3>3. Speech!At(body)[n + 1] = Append(Speech!At(body)[n], body[n + 1])
      BY <3>1, SpeakingOn
    <3>4. Win(body, 0, n + 1) = Append(Win(body, 0, n), body[n + 1])
      <4> DEFINE z == 0
      <4>1. z \in Nat /\ z <= n
        BY <3>1
      <4> HIDE DEF z
      <4>2. Win(body, z, n + 1) = Append(Win(body, z, n), body[n + 1])
        BY <2>1, <3>1, <4>1, WinNext
      <4>3. QED
        BY <4>2 DEF z
    <3>5. Speech!At(body)[n + 1] = Win(body, 0, n + 1)
      BY <3>2, <3>3, <3>4
    <3>6. QED
      BY <3>1, <3>5
  <2>2. CASE ~(n + 1 <= Len(body))
    BY <2>2
  <2>3. QED
    BY <2>1, <2>2
<1>4. S \in SUBSET Nat
  OBVIOUS
<1>5. Len(body) \in S
  <2> HIDE DEF S
  <2>1. QED
    BY <1>1, <1>2, <1>3, <1>4, Speech!Stepwise
<1>6. Speech!At(body)[Len(body)] = Win(body, 0, Len(body))
  BY <1>1, <1>5
<1>7. QED
  BY <1>1, <1>6, WinAll, SpokenUnfolds

LEMMA SpokenReason == Spoken(<<"reason">>) = <<>> /\ Spoken(<<>>) = <<>>
<1> DEFINE b == <<"reason">>
<1>1. IsList(b) /\ Len(b) = 1 /\ b[1] = "reason"
  BY OneIsList
<1> HIDE DEF b
<1>2. 1 \in 1 .. Len(b) /\ 1 - 1 = 0 /\ Len(b) \in Nat
  BY <1>1
<1>3. Speech!At(b)[1] = Speech!At(b)[0] /\ Speech!At(b)[0] = <<>>
  BY <1>1, <1>2, SpeakingOn
<1>4. Spoken(b) = <<>>
  BY <1>1, <1>2, <1>3, SpokenUnfolds
<1>5. Spoken(<<>>) = <<>>
  BY EmptyIsList, SpokenAll
<1>6. QED
  BY <1>4, <1>5 DEF b

\* What is spoken of two bodies is spoken of both.
LEMMA SpokenJoin ==
  ASSUME NEW a, IsList(a), NEW b, IsList(b)
  PROVE  Spoken(a \o b) = Spoken(a) \o Spoken(b)
<1> DEFINE c == a \o b
           l == Len(a)
           S == {n \in Nat : n <= Len(b) => Speech!At(c)[l + n] = Spoken(a) \o Speech!At(b)[n]}
<1>1. /\ IsList(c) /\ l \in Nat /\ Len(b) \in Nat /\ Len(c) = l + Len(b)
      /\ \A i \in 1 .. l + Len(b) : c[i] = IF i <= l THEN a[i] ELSE b[i - l]
  BY Joins
<1>0. IsList(Spoken(a))
  BY SpokenIsList
<1> HIDE DEF c, l
<1>2. 0 \in S
  <2>1. /\ SpokenSteps(a) \in Nat /\ SpokenSteps(a) = l /\ SpokenSteps(c) \in Nat /\ l <= SpokenSteps(c)
        /\ SpokenStart(a) = SpokenStart(c) /\ l \in 0 .. l
    BY <1>1 DEF SpokenSteps, SpokenStart, l
  <2>2. \A n \in 1 .. l : c[n] = a[n]
    BY <1>1
  <2>3. \A x : \A n \in 1 .. l : SpokenStep(a, x, n) = SpokenStep(c, x, n)
    BY <2>2 DEF SpokenStep
  <2>4. \A n \in 0 .. l : Speech!At(a)[n] = Speech!At(c)[n]
    BY <1>1, <2>1, <2>3, Speech!Agrees
  <2>5. Speech!At(c)[l] = Spoken(a)
    BY <1>1, <2>1, <2>4, SpokenUnfolds DEF l
  <2>6. Speech!At(b)[0] = <<>> /\ Spoken(a) \o <<>> = Spoken(a) /\ l + 0 = l
    BY <1>0, <1>1, SpeakingOn, JoinsEmpty
  <2>7. Speech!At(c)[l + 0] = Spoken(a) \o Speech!At(b)[0]
    BY <2>5, <2>6
  <2>8. QED
    BY <2>7
<1>3. ASSUME NEW n \in S PROVE n + 1 \in S
  <2>1. CASE n + 1 <= Len(b)
    <3> DEFINE m == l + n
    <3>1. /\ n \in Nat /\ n <= Len(b) /\ n + 1 \in 1 .. Len(b) /\ (n + 1) - 1 = n /\ n \in 0 .. Len(b)
          /\ l + (n + 1) = m + 1 /\ m + 1 \in 1 .. Len(c) /\ (m + 1) - 1 = m /\ c[m + 1] = b[n + 1]
      <4>1. n \in Nat /\ n <= Len(b) /\ n + 1 \in 1 .. Len(b) /\ (n + 1) - 1 = n /\ n \in 0 .. Len(b)
        BY <1>1, <2>1
      <4>2. l + (n + 1) = m + 1 /\ m + 1 \in 1 .. l + Len(b) /\ (m + 1) - 1 = m /\ ~(m + 1 <= l) /\ (m + 1) - l = n + 1
        BY <1>1, <4>1
      <4> HIDE DEF m
      <4>3. c[m + 1] = b[n + 1]
        BY <1>1, <4>2
      <4>4. QED
        BY <1>1, <4>1, <4>2, <4>3
    <3>2. Speech!At(c)[m] = Spoken(a) \o Speech!At(b)[n]
      BY <3>1
    <3> DEFINE x == Speech!At(c)[m]
               y == Speech!At(b)[n]
               k == n + 1
    <3>3. Speech!At(c)[m + 1] = IF c[m + 1] = "reason" THEN x ELSE Append(x, c[m + 1])
      <4> HIDE DEF m
      <4>1. QED
        BY <1>1, <3>1, SpeakingOn
    <3>4. Speech!At(b)[k] = IF b[k] = "reason" THEN y ELSE Append(y, b[k])
      BY <3>1, SpeakingOn
    <3>5. IsList(y)
      BY <3>1, SpeakingOn
    <3>6. Speech!At(c)[m + 1] = Spoken(a) \o Speech!At(b)[k]
      <4> DEFINE s1 == Spoken(a)
                 e == b[k]
                 u == Speech!At(c)[m + 1]
                 w == Speech!At(b)[k]
      <4>1. /\ x = s1 \o y /\ u = (IF e = "reason" THEN x ELSE Append(x, e))
            /\ w = IF e = "reason" THEN y ELSE Append(y, e)
        BY <3>1, <3>2, <3>3, <3>4
      <4>2. IsList(s1)
        BY <1>0
      <4> HIDE DEF s1, e, u, w, x, y
      <4>3. s1 \o Append(y, e) = Append(s1 \o y, e)
        BY <3>5, <4>2, JoinAppend
      <4>4. u = s1 \o w
        BY <4>1, <4>3
      <4>5. QED
        BY <4>4 DEF u, s1, w
    <3>7. QED
      BY <3>1, <3>6
  <2>2. CASE ~(n + 1 <= Len(b))
    BY <2>2
  <2>3. QED
    BY <2>1, <2>2
<1>4. S \in SUBSET Nat
  OBVIOUS
<1>5. Len(b) \in S
  <2> HIDE DEF S
  <2>1. QED
    BY <1>1, <1>2, <1>3, <1>4, Speech!Stepwise
<1>6. Speech!At(c)[l + Len(b)] = Spoken(a) \o Speech!At(b)[Len(b)]
  BY <1>1, <1>5
<1>7. Spoken(c) = Speech!At(c)[Len(c)] /\ Spoken(b) = Speech!At(b)[Len(b)]
  <2>1. Len(c) \in Nat /\ Len(b) \in Nat
    BY <1>1
  <2>2. QED
    BY <2>1, SpokenUnfolds
<1>8. QED
  BY <1>1, <1>6, <1>7 DEF c

-----------------------------------------------------------------------------
(* What is seen in a list of blocks.                                       *)

View(visible, thoughts) == [visible |-> visible, thoughts |-> thoughts]
ViewOK(x) == x = View(x.visible, x.thoughts) /\ EventsSeen(x.visible) /\ IsList(x.thoughts)
BodiesOK(b) == \A i \in DOMAIN b : IsList(b[i].body)

SeenSteps(b) == Len(b)
SeenStart(b) == View(<<>>, <<>>)
SeenStep(b, x, n) == See(x, b[n])
SeenHolds(b, x, n) == ViewOK(x)
Sight == INSTANCE Unfolding
  WITH Steps <- SeenSteps, Start <- SeenStart, Step <- SeenStep, Holds <- SeenHolds

LEMMA ViewFields ==
  ASSUME NEW v, NEW h
  PROVE  /\ View(v, h).visible = v /\ View(v, h).thoughts = h
         /\ \A w : [View(v, h) EXCEPT !.visible = w] = View(w, h)
         /\ \A w : [View(v, h) EXCEPT !.thoughts = w] = View(v, w)
BY DEF View

LEMMA SeenUnfolds ==
  ASSUME NEW b, Len(b) \in Nat
  PROVE  SeenIn(b) = Sight!At(b)[Len(b)]
<1> DEFINE m == CHOOSE f : f = [n \in 0 .. Len(b) |->
                  IF n = 0 THEN [visible |-> <<>>, thoughts |-> <<>>] ELSE See(f[n - 1], b[n])]
<1>1. SeenSteps(b) \in Nat /\ SeenSteps(b) = Len(b)
  BY DEF SeenSteps
<1>2. m = [n \in 0 .. SeenSteps(b) |-> Sight!Value(b, m, n)]
  <2>1. \E f : f = [n \in 0 .. SeenSteps(b) |-> Sight!Value(b, f, n)]
    BY <1>1, Sight!Exists
  <2>2. ASSUME NEW f, NEW n
        PROVE  Sight!Value(b, f, n) =
                 IF n = 0 THEN [visible |-> <<>>, thoughts |-> <<>>] ELSE See(f[n - 1], b[n])
    BY DEF Sight!Value, SeenStart, SeenStep, View
  <2>3. \E f : f = [n \in 0 .. Len(b) |->
                 IF n = 0 THEN [visible |-> <<>>, thoughts |-> <<>>] ELSE See(f[n - 1], b[n])]
    BY <1>1, <2>1, <2>2
  <2>4. m = [n \in 0 .. Len(b) |->
                 IF n = 0 THEN [visible |-> <<>>, thoughts |-> <<>>] ELSE See(m[n - 1], b[n])]
    BY <2>3
  <2> HIDE DEF m
  <2>5. QED
    BY <1>1, <2>2, <2>4
<1>3. SeenIn(b) = m[Len(b)]
  BY DEF SeenIn
<1> HIDE DEF m
<1>4. \A n \in 0 .. SeenSteps(b) : m[n] = Sight!At(b)[n]
  BY <1>1, <1>2, Sight!Same
<1>5. QED
  BY <1>1, <1>3, <1>4

\* What one block adds.
LEMMA Sees ==
  ASSUME NEW x, ViewOK(x), NEW c, IsList(c.body)
  PROVE  /\ ViewOK(See(x, c))
         /\ c.kind \in {"text", "call"} => See(x, c) = View(AddVisible(x.visible, c.kind, c.body), x.thoughts)
         /\ c.kind = "thinking" => See(x, c) = View(x.visible, x.thoughts \o Spoken(c.body))
         /\ c.kind \notin {"text", "call", "thinking"} => See(x, c) = x
<1> DEFINE v == x.visible
           h == x.thoughts
           kind == c.kind
           body == c.body
<1>1. x = View(v, h) /\ EventsSeen(v) /\ IsList(h)
  BY DEF ViewOK
<1>2. /\ kind \in {"text", "call"} => See(x, c) = [x EXCEPT !.visible = AddVisible(v, kind, body)]
      /\ kind = "thinking" => See(x, c) = [x EXCEPT !.thoughts = h \o Spoken(body)]
      /\ kind \notin {"text", "call", "thinking"} => See(x, c) = x
  BY DEF See
<1> DEFINE w == AddVisible(v, kind, body)
           g == h \o Spoken(body)
<1>3. EventsSeen(w)
  BY <1>1, StillSeen
<1>4. IsList(g)
  <2>1. IsList(Spoken(body))
    BY SpokenIsList
  <2> DEFINE z == Spoken(body)
  <2> HIDE DEF z, h
  <2>2. IsList(h \o z)
    BY <1>1, <2>1, Joins DEF z
  <2>3. QED
    BY <2>2 DEF z, h
<1> HIDE DEF w, g, v, h, kind, body
<1>5. [x EXCEPT !.visible = w] = View(w, h) /\ [x EXCEPT !.thoughts = g] = View(v, g)
  BY <1>1, ViewFields
<1>6. ViewOK(View(w, h)) /\ ViewOK(View(v, g)) /\ ViewOK(View(v, h))
  BY <1>1, <1>3, <1>4, ViewFields DEF ViewOK
<1>7. /\ kind \in {"text", "call"} => See(x, c) = View(w, h)
      /\ kind = "thinking" => See(x, c) = View(v, g)
      /\ kind \notin {"text", "call", "thinking"} => See(x, c) = View(v, h)
  BY <1>1, <1>2, <1>5 DEF w, g
<1>8. ViewOK(See(x, c))
  BY <1>6, <1>7
<1>9. QED
  BY <1>1, <1>7, <1>8 DEF w, g, v, h, kind, body

LEMMA SightOn ==
  ASSUME NEW b, IsList(b), BodiesOK(b)
  PROVE  /\ Sight!At(b)[0] = View(<<>>, <<>>)
         /\ \A n \in 1 .. Len(b) : Sight!At(b)[n] = See(Sight!At(b)[n - 1], b[n])
         /\ \A n \in 0 .. Len(b) : ViewOK(Sight!At(b)[n])
         /\ ViewOK(SeenIn(b))
<1>1. SeenSteps(b) \in Nat /\ SeenSteps(b) = Len(b) /\ DOMAIN b = 1 .. Len(b)
  BY ListFacts DEF SeenSteps
<1>2. /\ Sight!At(b)[0] = SeenStart(b)
      /\ \A n \in 1 .. SeenSteps(b) : Sight!At(b)[n] = SeenStep(b, Sight!At(b)[n - 1], n)
  BY <1>1, Sight!Unfolds
<1>3. SeenHolds(b, SeenStart(b), 0)
  BY EmptyIsList, NoneSeen, ViewFields DEF SeenHolds, SeenStart, ViewOK
<1>4. \A x, n : n \in 1 .. SeenSteps(b) /\ SeenHolds(b, x, n - 1) => SeenHolds(b, SeenStep(b, x, n), n)
  BY <1>1, Sees DEF SeenHolds, SeenStep, BodiesOK
<1>5. \A n \in 0 .. SeenSteps(b) : SeenHolds(b, Sight!At(b)[n], n)
  BY <1>1, <1>3, <1>4, Sight!Keeping
<1>6. \A n \in 0 .. Len(b) : ViewOK(Sight!At(b)[n])
  BY <1>1, <1>5 DEF SeenHolds
<1>7. Len(b) \in 0 .. Len(b)
  BY <1>1
<1>8. ViewOK(SeenIn(b))
  BY <1>1, <1>6, <1>7, SeenUnfolds
<1>9. QED
  BY <1>1, <1>2, <1>6, <1>8 DEF SeenStart, SeenStep

\* Blocks of the same kinds with the same bodies look alike.
Alike(b, c) ==
  /\ IsList(b) /\ IsList(c) /\ Len(b) = Len(c)
  /\ \A i \in 1 .. Len(b) :
       /\ c[i].kind = b[i].kind
       /\ b[i].kind \in {"text", "call", "thinking"} => c[i].body = b[i].body

LEMMA SeenAlike ==
  ASSUME NEW b, NEW c, Alike(b, c)
  PROVE  SeenIn(b) = SeenIn(c)
<1> DEFINE m == Len(b)
<1>1. /\ SeenSteps(b) \in Nat /\ SeenSteps(b) = m /\ SeenSteps(c) = m /\ SeenSteps(c) \in Nat
      /\ m \in Nat /\ m <= SeenSteps(b) /\ m <= SeenSteps(c) /\ m \in 0 .. m
      /\ SeenStart(b) = SeenStart(c) /\ Len(c) = m
  BY ListFacts DEF SeenSteps, SeenStart, Alike
<1>2. ASSUME NEW x, NEW n \in 1 .. m PROVE SeenStep(b, x, n) = SeenStep(c, x, n)
  <2>1. c[n].kind = b[n].kind /\ (b[n].kind \in {"text", "call", "thinking"} => c[n].body = b[n].body)
    BY DEF Alike
  <2>2. QED
    BY <2>1 DEF SeenStep, See
<1> HIDE DEF m
<1>3. \A x : \A n \in 1 .. m : SeenStep(b, x, n) = SeenStep(c, x, n)
  BY <1>2
<1>4. \A n \in 0 .. m : Sight!At(b)[n] = Sight!At(c)[n]
  BY <1>1, <1>3, Sight!Agrees
<1>5. SeenIn(b) = Sight!At(b)[m] /\ SeenIn(c) = Sight!At(c)[m]
  BY <1>1, SeenUnfolds DEF m
<1>6. QED
  BY <1>1, <1>4, <1>5

\* One block more.
LEMMA SeenMore ==
  ASSUME NEW b, IsList(b), NEW c, IsList(c), Len(c) = Len(b) + 1,
         \A i \in 1 .. Len(b) : c[i] = b[i]
  PROVE  SeenIn(c) = See(SeenIn(b), c[Len(c)])
<1>1. Len(b) \in Nat /\ Len(c) \in Nat
  BY ListFacts
<1>2. /\ SeenSteps(b) \in Nat /\ SeenSteps(c) = SeenSteps(b) + 1 /\ SeenStart(b) = SeenStart(c)
      /\ SeenSteps(b) = Len(b) /\ SeenSteps(c) = Len(c)
  BY <1>1 DEF SeenSteps, SeenStart
<1>3. \A x : \A n \in 1 .. SeenSteps(b) : SeenStep(b, x, n) = SeenStep(c, x, n)
  BY <1>2 DEF SeenStep
<1>4. Sight!At(c)[SeenSteps(c)] = SeenStep(c, Sight!At(b)[SeenSteps(b)], SeenSteps(c))
  BY <1>2, <1>3, Sight!Extends
<1>5. QED
  BY <1>1, <1>2, <1>4, SeenUnfolds DEF SeenStep

\* What is seen when more is in the block of a kind that is seen last.
Bigger(x, kind, y) ==
  IF kind = "text" THEN View(AddVisible(x.visible, "text", y), x.thoughts)
  ELSE View(x.visible, x.thoughts \o Spoken(y))
Beside(kind) == IF kind = "text" THEN {"text", "call"} ELSE {"thinking"}

LEMMA BiggerIsOK ==
  ASSUME NEW x, ViewOK(x), NEW kind, NEW y, IsList(y)
  PROVE  ViewOK(Bigger(x, kind, y))
<1> DEFINE v == x.visible
           h == x.thoughts
           z == Spoken(y)
           w == AddVisible(v, "text", y)
           g == h \o z
<1>1. EventsSeen(v) /\ IsList(h)
  BY DEF ViewOK
<1>2. IsList(z)
  BY SpokenIsList
<1>3. EventsSeen(w)
  BY <1>1, StillSeen
<1>4. IsList(g)
  <2> HIDE DEF h, z
  <2>1. QED
    BY <1>1, <1>2, Joins
<1>5. Bigger(x, kind, y) = View(w, h) \/ Bigger(x, kind, y) = View(v, g)
  BY DEF Bigger
<1> HIDE DEF w, g, v, h, z
<1>6. QED
  BY <1>1, <1>3, <1>4, <1>5, ViewFields DEF ViewOK

\* More in the block itself.
LEMMA GrowsHere ==
  ASSUME NEW x, ViewOK(x), NEW kind \in {"text", "thinking"}, NEW c, IsList(c.body), c.kind = kind,
         NEW y, IsList(y), NEW d, d.kind = kind, d.body = c.body \o y
  PROVE  See(x, d) = Bigger(See(x, c), kind, y)
<1> DEFINE v == x.visible
           h == x.thoughts
           a == c.body
           b == a \o y
<1>1. EventsSeen(v) /\ IsList(h) /\ IsList(a)
  BY DEF ViewOK
<1>2. d.body = b
  OBVIOUS
<1>3. IsList(b)
  <2> HIDE DEF a
  <2>1. QED
    BY <1>1, Joins
<1>4. CASE kind = "text"
  <2> DEFINE u == AddVisible(v, "text", a)
             w == AddVisible(v, "text", b)
             g == AddVisible(u, "text", y)
  <2>1. See(x, c) = View(u, h)
    BY <1>4, Sees
  <2>2. See(x, d) = View(w, h)
    <3> HIDE DEF b
    <3>1. QED
      BY <1>2, <1>3, <1>4, Sees
  <2>3. g = w
    <3> HIDE DEF a, v
    <3>1. QED
      BY <1>1, TextMerges
  <2>4. Bigger(View(u, h), kind, y) = View(g, h)
    <3> HIDE DEF u, h
    <3>1. QED
      BY <1>4, ViewFields DEF Bigger
  <2> HIDE DEF u, w, g, v, h
  <2>5. QED
    BY <2>1, <2>2, <2>3, <2>4
<1>5. CASE kind = "thinking"
  <2> DEFINE u == h \o Spoken(a)
             w == h \o Spoken(b)
             g == u \o Spoken(y)
  <2>1. See(x, c) = View(v, u)
    BY <1>5, Sees
  <2>2. See(x, d) = View(v, w)
    <3> HIDE DEF b
    <3>1. QED
      BY <1>2, <1>3, <1>5, Sees
  <2>3. g = w
    <3> DEFINE p == Spoken(a)
               q == Spoken(y)
               r == Spoken(b)
    <3>1. IsList(p) /\ IsList(q) /\ IsList(h)
      BY <1>1, SpokenIsList
    <3>2. r = p \o q
      <4> HIDE DEF a
      <4>1. QED
        BY <1>1, SpokenJoin
    <3>3. (h \o p) \o q = h \o (p \o q)
      <4> HIDE DEF h, p, q
      <4>1. QED
        BY <3>1, JoinJoin, SMTT(30)
    <3> HIDE DEF h, p, q, r, b, a
    <3>4. QED
      BY <3>2, <3>3 DEF p, q, r
  <2>4. Bigger(View(v, u), kind, y) = View(v, g)
    <3> HIDE DEF u, v
    <3>1. QED
      BY <1>5, ViewFields DEF Bigger
  <2> HIDE DEF u, w, g, v, h
  <2>5. QED
    BY <2>1, <2>2, <2>3, <2>4
<1>6. QED
  BY <1>4, <1>5

\* More in a block before it.
LEMMA GrowsBefore ==
  ASSUME NEW x, ViewOK(x), NEW kind \in {"text", "thinking"}, NEW c, IsList(c.body),
         c.kind \notin Beside(kind), NEW y, IsList(y)
  PROVE  See(Bigger(x, kind, y), c) = Bigger(See(x, c), kind, y)
<1> DEFINE v == x.visible
           h == x.thoughts
           z == Spoken(y)
           w == AddVisible(v, "text", y)
           g == h \o z
           b == Bigger(x, kind, y)
           a == c.body
           k == c.kind
<1>1. x = View(v, h) /\ EventsSeen(v) /\ IsList(h) /\ ViewOK(b)
  BY BiggerIsOK DEF ViewOK
<1>2. CASE kind = "text"
  <2>1. b = View(w, h) /\ k \notin {"text", "call"}
    BY <1>2 DEF Bigger, Beside
  <2>2. b.visible = w /\ b.thoughts = h
    <3> HIDE DEF b, w, h
    <3>1. QED
      BY <2>1, ViewFields
  <2>3. CASE k = "thinking"
    <3> DEFINE f == h \o Spoken(a)
    <3>1. See(x, c) = View(v, f)
      BY <2>3, Sees
    <3>2. See(b, c) = View(b.visible, b.thoughts \o Spoken(a))
      <4> HIDE DEF b
      <4>1. QED
        BY <1>1, <2>3, Sees
    <3>3. See(b, c) = View(w, f)
      <4> HIDE DEF b, w, h
      <4>1. QED
        BY <2>2, <3>2
    <3>4. Bigger(View(v, f), kind, y) = View(w, f)
      <4> HIDE DEF f, v
      <4>1. QED
        BY <1>2, ViewFields DEF Bigger, w
    <3> HIDE DEF f, v, w, b
    <3>5. QED
      BY <3>1, <3>3, <3>4 DEF b
  <2>4. CASE k # "thinking"
    <3>1. See(x, c) = x
      BY <2>1, <2>4, Sees
    <3>2. See(b, c) = b
      <4> HIDE DEF b
      <4>1. QED
        BY <1>1, <2>1, <2>4, Sees
    <3>3. QED
      BY <3>1, <3>2
  <2>5. QED
    BY <2>3, <2>4
<1>3. CASE kind = "thinking"
  <2>1. b = View(v, g) /\ k # "thinking"
    BY <1>3 DEF Bigger, Beside
  <2>2. b.visible = v /\ b.thoughts = g
    <3> HIDE DEF b, v, g
    <3>1. QED
      BY <2>1, ViewFields
  <2>3. CASE k \in {"text", "call"}
    <3> DEFINE f == AddVisible(v, k, a)
    <3>1. See(x, c) = View(f, h)
      BY <2>3, Sees
    <3>2. See(b, c) = View(AddVisible(b.visible, k, a), b.thoughts)
      <4> HIDE DEF b
      <4>1. QED
        BY <1>1, <2>3, Sees
    <3>3. See(b, c) = View(f, g)
      <4> HIDE DEF b, v, g, k, a
      <4>1. QED
        BY <2>2, <3>2
    <3>4. Bigger(View(f, h), kind, y) = View(f, g)
      <4> HIDE DEF f, h
      <4>1. QED
        BY <1>3, ViewFields DEF Bigger, g, z
    <3> HIDE DEF f, g, h, b
    <3>5. QED
      BY <3>1, <3>3, <3>4 DEF b
  <2>4. CASE k \notin {"text", "call"}
    <3>1. See(x, c) = x
      BY <2>1, <2>4, Sees
    <3>2. See(b, c) = b
      <4> HIDE DEF b
      <4>1. QED
        BY <1>1, <2>1, <2>4, Sees
    <3>3. QED
      BY <3>1, <3>2
  <2>5. QED
    BY <2>3, <2>4
<1>4. QED
  BY <1>2, <1>3

\* c has y more than b in block i, and no block after it is of a kind that is seen beside it.
Longer(b, c, i, kind, y) ==
  /\ IsList(b) /\ IsList(c) /\ Len(c) = Len(b) /\ BodiesOK(b) /\ IsList(y)
  /\ i \in 1 .. Len(b) /\ b[i].kind = kind
  /\ \A j \in 1 .. Len(b) : /\ c[j].kind = b[j].kind /\ (j # i => c[j].body = b[j].body)
                            /\ j > i => b[j].kind \notin Beside(kind)
  /\ c[i].body = b[i].body \o y

LEMMA SameSight ==
  ASSUME NEW x, NEW c, NEW d, d.kind = c.kind, d.body = c.body
  PROVE  See(x, c) = See(x, d)
BY DEF See

SeenBigger(b, c, kind, y) == SeenIn(c) = Bigger(SeenIn(b), kind, y)

LEMMA SeenLonger ==
  ASSUME NEW b, NEW c, NEW i, NEW kind \in {"text", "thinking"}, NEW y, Longer(b, c, i, kind, y)
  PROVE  BodiesOK(c) /\ SeenBigger(b, c, kind, y)
<1>1. /\ IsList(b) /\ IsList(c) /\ Len(c) = Len(b) /\ BodiesOK(b) /\ IsList(y)
      /\ i \in 1 .. Len(b) /\ b[i].kind = kind /\ Len(b) \in Nat
      /\ DOMAIN b = 1 .. Len(b) /\ DOMAIN c = 1 .. Len(b)
  BY ListFacts DEF Longer
<1>2. \A j \in 1 .. Len(b) : c[j].kind = b[j].kind /\ (j # i => c[j].body = b[j].body)
  BY DEF Longer
<1>3. \A j \in 1 .. Len(b) : j > i => b[j].kind \notin Beside(kind)
  BY DEF Longer
<1>4. \A j \in 1 .. Len(b) : IsList(b[j].body)
  BY <1>1 DEF BodiesOK
<1>5. BodiesOK(c)
  <2> DEFINE a == b[i].body
  <2>1. IsList(a)
    BY <1>1, <1>4
  <2>2. c[i].body = a \o y
    BY DEF Longer
  <2> HIDE DEF a
  <2>3. IsList(a \o y)
    BY <1>1, <2>1, Joins
  <2>4. QED
    BY <1>1, <1>2, <1>4, <2>2, <2>3 DEF BodiesOK
<1>6. /\ Sight!At(b)[0] = View(<<>>, <<>>) /\ Sight!At(c)[0] = View(<<>>, <<>>)
      /\ \A n \in 1 .. Len(b) : Sight!At(b)[n] = See(Sight!At(b)[n - 1], b[n])
      /\ \A n \in 1 .. Len(b) : Sight!At(c)[n] = See(Sight!At(c)[n - 1], c[n])
      /\ \A n \in 0 .. Len(b) : ViewOK(Sight!At(b)[n])
  BY <1>1, <1>5, SightOn
<1> DEFINE S == {n \in Nat : n <= Len(b) =>
                   Sight!At(c)[n] = IF n < i THEN Sight!At(b)[n] ELSE Bigger(Sight!At(b)[n], kind, y)}
<1>7. 0 \in S
  BY <1>1, <1>6
<1>8. ASSUME NEW n \in S PROVE n + 1 \in S
  <2>1. CASE n + 1 <= Len(b)
    <3> DEFINE m == n + 1
               u == Sight!At(b)[n]
               w == Sight!At(c)[n]
               p == Sight!At(b)[m]
               r == Sight!At(c)[m]
    <3>1. /\ n \in Nat /\ n <= Len(b) /\ m \in 1 .. Len(b) /\ m - 1 = n /\ n \in 0 .. Len(b)
          /\ (n < i) = ((m < i) \/ m = i) /\ (m > i) = ~((m < i) \/ m = i)
      BY <1>1, <2>1
    <3>2. /\ p = See(u, b[m]) /\ r = See(w, c[m]) /\ ViewOK(u)
          /\ w = IF n < i THEN u ELSE Bigger(u, kind, y)
      BY <1>6, <3>1
    <3>3. IsList(b[m].body) /\ c[m].kind = b[m].kind /\ (m # i => c[m].body = b[m].body)
      BY <1>2, <1>4, <3>1
    <3> HIDE DEF m, u, w, p, r
    <3>4. CASE m < i
      <4>1. w = u /\ c[m].body = b[m].body
        BY <1>1, <3>1, <3>2, <3>3, <3>4
      <4>2. r = p
        BY <3>2, <3>3, <4>1, SameSight
      <4>3. QED
        BY <3>1, <3>4, <4>2 DEF m, p, r
    <3>5. CASE m = i
      <4>1. w = u /\ c[m].body = b[m].body \o y /\ b[m].kind = kind
        BY <1>1, <3>1, <3>2, <3>5 DEF Longer
      <4>2. r = Bigger(p, kind, y)
        <5> DEFINE d == c[m]
                   e == b[m]
        <5>1. d.kind = kind /\ d.body = e.body \o y /\ IsList(e.body) /\ e.kind = kind /\ IsList(y)
          BY <1>1, <3>3, <4>1
        <5>2. p = See(u, e) /\ r = See(u, d) /\ ViewOK(u)
          BY <3>2, <4>1
        <5> HIDE DEF d, e
        <5>3. See(u, d) = Bigger(See(u, e), kind, y)
          BY <5>1, <5>2, GrowsHere
        <5>4. QED
          BY <5>2, <5>3
      <4>3. ~(m < i)
        BY <1>1, <3>5
      <4>4. QED
        BY <3>1, <4>2, <4>3 DEF m, p, r
    <3>6. CASE m > i
      <4>1. ~(m < i) /\ m # i /\ ~(n < i)
        BY <1>1, <3>1, <3>6
      <4>2. w = Bigger(u, kind, y) /\ c[m].body = b[m].body /\ b[m].kind \notin Beside(kind)
        BY <1>3, <3>1, <3>2, <3>3, <3>6, <4>1
      <4>3. See(w, b[m]) = Bigger(p, kind, y)
        BY <1>1, <3>2, <3>3, <4>2, GrowsBefore
      <4>4. r = See(w, b[m])
        BY <3>2, <3>3, <4>2, SameSight
      <4>5. QED
        BY <3>1, <4>1, <4>3, <4>4 DEF m, p, r
    <3>7. QED
      BY <1>1, <3>1, <3>4, <3>5, <3>6
  <2>2. CASE ~(n + 1 <= Len(b))
    BY <2>2
  <2>3. QED
    BY <2>1, <2>2
<1>9. S \in SUBSET Nat
  OBVIOUS
<1>10. Len(b) \in S
  <2> HIDE DEF S
  <2>1. QED
    BY <1>1, <1>7, <1>8, <1>9, Sight!Stepwise
<1>11. Sight!At(c)[Len(b)] = Bigger(Sight!At(b)[Len(b)], kind, y)
  <2>1. ~(Len(b) < i)
    BY <1>1
  <2>2. QED
    BY <1>1, <1>10, <2>1
<1>12. QED
  BY <1>1, <1>5, <1>11, SeenUnfolds DEF SeenBigger

-----------------------------------------------------------------------------
(* What the operations on blocks show.                                     *)

\* What goes to an open block is seen last.
Ordered(t) ==
  /\ BodiesOK(t.blocks)
  /\ t.text # 0 => \A j \in 1 .. Len(t.blocks) : j > t.text => t.blocks[j].kind \notin Beside("text")
  /\ t.think # 0 => \A j \in 1 .. Len(t.blocks) : j > t.think => t.blocks[j].kind \notin Beside("thinking")

Unseen(kind) == kind \notin {"text", "call", "thinking"}
SeenOf(t) == SeenIn(t.blocks)
\* u shows what t does.
Calm(t, u) == Ordered(u) /\ SeenOf(u) = SeenOf(t)
\* It shows y more, in a block of that kind.
GrowsBy(t, u, kind, y) == Ordered(u) /\ SeenOf(u) = Bigger(SeenOf(t), kind, y)

LEMMA ShapeLists ==
  ASSUME NEW t, Shape(t)
  PROVE  IsList(t.blocks) /\ Len(t.blocks) \in Nat /\ DOMAIN t.blocks = 1 .. Len(t.blocks)
<1>1. IsList(t.blocks)
  BY DEF Shape, BlocksOK
<1>2. QED
  BY <1>1, ListFacts

LEMMA SwapCalm ==
  ASSUME NEW t, Shape(t), Ordered(t), NEW u, NEW i \in DOMAIN t.blocks, NEW c, Swapped(t, u, i, c),
         c.kind = t.blocks[i].kind, IsList(c.body), c.body = t.blocks[i].body \/ Unseen(c.kind)
  PROVE  Calm(t, u)
<1>1. /\ Shape(u) /\ u.text = t.text /\ u.think = t.think /\ Len(u.blocks) = Len(t.blocks)
      /\ DOMAIN u.blocks = DOMAIN t.blocks /\ u.blocks[i] = c
      /\ \A j \in DOMAIN t.blocks : j # i => u.blocks[j] = t.blocks[j]
  BY DEF Swapped
<1>2. /\ IsList(t.blocks) /\ DOMAIN t.blocks = 1 .. Len(t.blocks)
      /\ IsList(u.blocks) /\ DOMAIN u.blocks = 1 .. Len(u.blocks)
  BY <1>1, ShapeLists
<1>3. \A j \in DOMAIN t.blocks :
        /\ u.blocks[j].kind = t.blocks[j].kind
        /\ t.blocks[j].kind \in {"text", "call", "thinking"} => u.blocks[j].body = t.blocks[j].body
  BY <1>1 DEF Unseen
<1>4. Alike(t.blocks, u.blocks)
  BY <1>1, <1>2, <1>3 DEF Alike
<1>5. BodiesOK(u.blocks)
  BY <1>1 DEF Ordered, BodiesOK
<1>6. Ordered(u)
  BY <1>1, <1>2, <1>3, <1>5 DEF Ordered
<1>7. SeenIn(t.blocks) = SeenIn(u.blocks)
  BY <1>4, SeenAlike
<1>8. QED
  BY <1>6, <1>7 DEF Calm, SeenOf

LEMMA SwapLonger ==
  ASSUME NEW t, Shape(t), Ordered(t), NEW u, NEW i \in DOMAIN t.blocks, NEW c, Swapped(t, u, i, c),
         NEW kind \in {"text", "thinking"}, NEW y, IsList(y),
         c.kind = kind, t.blocks[i].kind = kind, c.body = t.blocks[i].body \o y,
         \A j \in 1 .. Len(t.blocks) : j > i => t.blocks[j].kind \notin Beside(kind)
  PROVE  GrowsBy(t, u, kind, y)
<1>1. /\ Shape(u) /\ u.text = t.text /\ u.think = t.think /\ Len(u.blocks) = Len(t.blocks)
      /\ DOMAIN u.blocks = DOMAIN t.blocks /\ u.blocks[i] = c
      /\ \A j \in DOMAIN t.blocks : j # i => u.blocks[j] = t.blocks[j]
  BY DEF Swapped
<1>2. /\ IsList(t.blocks) /\ DOMAIN t.blocks = 1 .. Len(t.blocks)
      /\ IsList(u.blocks) /\ DOMAIN u.blocks = 1 .. Len(u.blocks)
  BY <1>1, ShapeLists
<1>3. \A j \in 1 .. Len(t.blocks) : u.blocks[j].kind = t.blocks[j].kind /\ (j # i => u.blocks[j].body = t.blocks[j].body)
  BY <1>1, <1>2
<1>4. BodiesOK(t.blocks) /\ u.blocks[i].body = t.blocks[i].body \o y
  BY <1>1 DEF Ordered
<1>5. Longer(t.blocks, u.blocks, i, kind, y)
  BY <1>1, <1>2, <1>3, <1>4 DEF Longer
<1>6. BodiesOK(u.blocks) /\ SeenIn(u.blocks) = Bigger(SeenIn(t.blocks), kind, y)
  <2> DEFINE a == t.blocks
             b == u.blocks
  <2>1. Longer(a, b, i, kind, y)
    BY <1>5
  <2> HIDE DEF a, b
  <2>2. BodiesOK(b)
    BY <2>1, SeenLonger
  <2>3. SeenBigger(a, b, kind, y)
    BY <2>1, SeenLonger
  <2>4. QED
    BY <2>2, <2>3 DEF a, b, SeenBigger
<1>7. Ordered(u)
  BY <1>1, <1>2, <1>3, <1>6 DEF Ordered
<1>8. QED
  BY <1>6, <1>7 DEF SeenOf, GrowsBy

\* One block more, which is the one that is open for its kind, or of another kind than those.
Joined(t, u, n) ==
  /\ Shape(t) /\ Shape(u) /\ n = Len(t.blocks) + 1 /\ Len(u.blocks) = n
  /\ \A j \in 1 .. Len(t.blocks) : u.blocks[j] = t.blocks[j]
  /\ IsList(u.blocks[n].body)
  /\ u.text = 0 \/ u.text = n \/ (u.text = t.text /\ u.blocks[n].kind \notin Beside("text"))
  /\ u.think = 0 \/ u.think = n \/ (u.think = t.think /\ u.blocks[n].kind \notin Beside("thinking"))

LEMMA JoinsSeen ==
  ASSUME NEW t, NEW u, NEW n, Ordered(t), Joined(t, u, n)
  PROVE  Ordered(u) /\ SeenOf(u) = See(SeenOf(t), u.blocks[n])
<1>1. /\ IsList(t.blocks) /\ Len(t.blocks) \in Nat /\ DOMAIN t.blocks = 1 .. Len(t.blocks)
      /\ IsList(u.blocks) /\ DOMAIN u.blocks = 1 .. Len(u.blocks)
      /\ n = Len(t.blocks) + 1 /\ Len(u.blocks) = n
  BY ShapeLists DEF Joined
<1>2. \A j \in 1 .. Len(t.blocks) : u.blocks[j] = t.blocks[j]
  BY DEF Joined
<1>3. \A j \in 1 .. n : j = n \/ j \in 1 .. Len(t.blocks)
  BY <1>1
<1>4. BodiesOK(u.blocks)
  BY <1>1, <1>2, <1>3 DEF Joined, Ordered, BodiesOK
<1>5. u.text # 0 => \A j \in 1 .. n : j > u.text => u.blocks[j].kind \notin Beside("text")
  BY <1>1, <1>2, <1>3 DEF Joined, Ordered
<1>6. u.think # 0 => \A j \in 1 .. n : j > u.think => u.blocks[j].kind \notin Beside("thinking")
  BY <1>1, <1>2, <1>3 DEF Joined, Ordered
<1>7. SeenIn(u.blocks) = See(SeenIn(t.blocks), u.blocks[n])
  BY <1>1, <1>2, SeenMore
<1>8. QED
  BY <1>1, <1>4, <1>5, <1>6, <1>7 DEF Ordered, SeenOf

LEMMA StopCalm ==
  ASSUME NEW t, Shape(t), Ordered(t), NEW i \in DOMAIN t.blocks, t.blocks[i].open
  PROVE  Calm(t, BlockStop(t, i)) /\ Shape(BlockStop(t, i)) /\ Len(BlockStop(t, i).blocks) = Len(t.blocks)
<1> DEFINE kind == t.blocks[i].kind
           body == t.blocks[i].body
           no == FALSE
           c == Block(kind, body, no)
           u == BlockStop(t, i)
<1>1. Swapped(t, u, i, c)
  BY Stopped
<1>2. c.kind = kind /\ c.body = body
  BY DEF Block
<1>3. IsList(body)
  BY DEF Ordered, BodiesOK
<1> HIDE DEF u, c
<1>4. Calm(t, u)
  BY <1>1, <1>2, <1>3, SwapCalm
<1>5. QED
  BY <1>1, <1>4 DEF Swapped, u

\* The block that is open may be another, or none.
LEMMA OtherCalm ==
  ASSUME NEW t, Ordered(t), NEW u, u.blocks = t.blocks, u.text = t.text \/ u.text = 0,
         u.think = t.think \/ u.think = 0
  PROVE  Calm(t, u)
BY DEF Calm, Ordered, SeenOf

LEMMA CalmCalm ==
  ASSUME NEW t, NEW u, NEW v, Calm(t, u), Calm(u, v)
  PROVE  Calm(t, v)
BY DEF Calm

LEMMA ClosesText ==
  ASSUME NEW t, NEW N, Good(t, N), Ordered(t)
  PROVE  Calm(t, CloseText(t))
<1>1. CASE t.text = 0
  BY <1>1 DEF CloseText, Calm
<1>2. CASE t.text # 0
  <2> DEFINE v == BlockStop(t, t.text)
             x == 0
             w == [v EXCEPT !.text = x]
  <2>1. Shape(t) /\ t.text \in DOMAIN t.blocks /\ t.blocks[t.text].open
    BY <1>2 DEF Good, Sound, Holder
  <2>2. Calm(t, v) /\ Shape(v)
    BY <2>1, StopCalm
  <2>3. CloseText(t) = w
    BY <1>2 DEF CloseText
  <2> HIDE DEF v
  <2>4. x \in 0 .. Len(v.blocks)
    BY <2>2, ShapeLists
  <2> HIDE DEF x
  <2>5. w.text = x /\ w.blocks = v.blocks /\ w.think = v.think
    BY <2>2, <2>4, OtherText
  <2> HIDE DEF w
  <2>6. Calm(v, w)
    BY <2>2, <2>5, OtherCalm DEF x, Calm
  <2>7. QED
    BY <2>2, <2>3, <2>6, CalmCalm
<1>3. QED
  BY <1>1, <1>2

LEMMA ClosesThinking ==
  ASSUME NEW t, NEW N, Good(t, N), Ordered(t)
  PROVE  Calm(t, CloseThinking(t))
<1>1. CASE t.think = 0
  BY <1>1 DEF CloseThinking, Calm
<1>2. CASE t.think # 0
  <2> DEFINE v == BlockStop(t, t.think)
             x == 0
             w == [v EXCEPT !.think = x]
  <2>1. Shape(t) /\ t.think \in DOMAIN t.blocks /\ t.blocks[t.think].open
    BY <1>2 DEF Good, Sound, Holder
  <2>2. Calm(t, v) /\ Shape(v)
    BY <2>1, StopCalm
  <2>3. CloseThinking(t) = w
    BY <1>2 DEF CloseThinking
  <2> HIDE DEF v
  <2>4. x \in 0 .. Len(v.blocks)
    BY <2>2, ShapeLists
  <2> HIDE DEF x
  <2>5. w.think = x /\ w.blocks = v.blocks /\ w.text = v.text
    BY <2>2, <2>4, OtherThink
  <2> HIDE DEF w
  <2>6. Calm(v, w)
    BY <2>2, <2>5, OtherCalm DEF x, Calm
  <2>7. QED
    BY <2>2, <2>3, <2>6, CalmCalm
<1>3. QED
  BY <1>1, <1>2

\* A block that starts empty shows nothing.
LEMMA StartCalm ==
  ASSUME NEW x, ViewOK(x), NEW c, c.body = <<>>
  PROVE  See(x, c) = x
<1> DEFINE v == x.visible
           h == x.thoughts
           none == <<>>
<1>1. x = View(v, h) /\ IsList(h)
  BY DEF ViewOK
<1>2. /\ IsList(c.body) /\ AddVisible(v, c.kind, none) = v /\ Spoken(none) = none /\ h \o none = h
  BY <1>1, EmptyIsList, AddsNothing, SpokenReason, JoinsEmpty
<1> HIDE DEF v, h, none
<1>3. c.body = none
  BY DEF none
<1>4. CASE c.kind \in {"text", "call"}
  <2>1. See(x, c) = View(AddVisible(v, c.kind, c.body), h)
    BY <1>2, <1>4, Sees DEF v, h
  <2>2. QED
    BY <1>1, <1>2, <1>3, <2>1
<1>5. CASE c.kind = "thinking"
  <2>1. See(x, c) = View(v, h \o Spoken(c.body))
    BY <1>2, <1>5, Sees DEF v, h
  <2>2. QED
    BY <1>1, <1>2, <1>3, <2>1
<1>6. CASE Unseen(c.kind)
  BY <1>2, <1>6, Sees DEF Unseen
<1>7. QED
  BY <1>4, <1>5, <1>6 DEF Unseen

LEMMA SeenIsOK ==
  ASSUME NEW t, Shape(t), Ordered(t)
  PROVE  ViewOK(SeenOf(t))
<1>1. IsList(t.blocks) /\ BodiesOK(t.blocks)
  BY ShapeLists DEF Ordered
<1>2. QED
  BY <1>1, SightOn DEF SeenOf

\* The text block that AddText feeds, which is open or starts.
TextOpen(t) == IF t.text # 0 THEN t ELSE [BlockStart(t, "text") EXCEPT !.text = Len(t.blocks) + 1]

LEMMA TextOpens ==
  ASSUME NEW t, NEW N, Good(t, N), Ordered(t)
  PROVE  LET o == TextOpen(t) IN
         /\ Calm(t, o) /\ Shape(o) /\ o.text \in DOMAIN o.blocks /\ o.text # 0
         /\ o.blocks[o.text].open /\ o.blocks[o.text].kind = "text"
<1>1. CASE t.text # 0
  BY <1>1 DEF Calm, Good, Sound, Holder, TextOpen
<1>2. CASE t.text = 0
  <2> DEFINE n == Len(t.blocks) + 1
             v == BlockStart(t, "text")
             w == [v EXCEPT !.text = n]
             yes == TRUE
  <2>1. /\ Shape(v) /\ v.text = t.text /\ v.think = t.think
        /\ n \in Nat /\ Len(v.blocks) = n
        /\ DOMAIN t.blocks = 1 .. Len(t.blocks) /\ DOMAIN v.blocks = 1 .. n
        /\ \A i \in DOMAIN t.blocks : v.blocks[i] = t.blocks[i]
        /\ v.blocks[n] = Block("text", <<>>, yes)
    BY Started DEF Good
  <2>2. Len(t.blocks) \in Nat /\ Shape(t)
    BY ShapeLists DEF Good
  <2>3. n \in DOMAIN v.blocks /\ n \in 0 .. Len(v.blocks) /\ n # 0 /\ n = Len(t.blocks) + 1
    BY <2>1, <2>2
  <2>4. TextOpen(t) = w
    BY <1>2 DEF TextOpen
  <2>5. yes
    OBVIOUS
  <2> HIDE DEF v, n, yes
  <2>6. v.blocks[n].kind = "text" /\ v.blocks[n].open /\ v.blocks[n].body = <<>>
    BY <2>1, <2>5 DEF Block
  <2>7. Shape(w) /\ w.text = n /\ w.blocks = v.blocks /\ w.think = t.think
    <3>1. Shape(v) /\ v.think = t.think /\ n \in 0 .. Len(v.blocks)
      BY <2>1, <2>3
    <3>2. QED
      BY <3>1, OtherText
  <2> HIDE DEF w
  <2>8. "text" \notin Beside("thinking") /\ IsList(<<>>)
    BY EmptyIsList DEF Beside
  <2>9. Joined(t, w, n)
    BY <2>1, <2>2, <2>3, <2>6, <2>7, <2>8 DEF Joined
  <2>10. Ordered(w) /\ SeenOf(w) = See(SeenOf(t), w.blocks[n])
    BY <2>9, JoinsSeen
  <2>11. ViewOK(SeenOf(t))
    BY <2>2, SeenIsOK
  <2>12. w.blocks[n].body = <<>>
    BY <2>6, <2>7
  <2>13. See(SeenOf(t), w.blocks[n]) = SeenOf(t)
    BY <2>11, <2>12, StartCalm
  <2>14. Calm(t, w)
    BY <2>10, <2>13 DEF Calm
  <2>15. QED
    BY <2>3, <2>4, <2>6, <2>7, <2>14
<1>3. QED
  BY <1>1, <1>2

LEMMA TextSeen ==
  ASSUME NEW t, NEW N, Good(t, N), Ordered(t), NEW body, IsList(body)
  PROVE  GrowsBy(t, AddText(t, body), "text", body)
<1> DEFINE o == TextOpen(t)
<1>1. AddText(t, body) = BlockDelta(o, o.text, body)
  BY DEF AddText, TextOpen
<1> HIDE DEF o
<1>2. /\ Calm(t, o) /\ Shape(o) /\ o.text \in DOMAIN o.blocks /\ o.text # 0
      /\ o.blocks[o.text].open /\ o.blocks[o.text].kind = "text"
  BY TextOpens DEF o
<1> DEFINE i == o.text
           yes == TRUE
           kind == o.blocks[i].kind
           more == o.blocks[i].body \o body
           c == Block(kind, more, yes)
           u == BlockDelta(o, i, body)
<1>3. Swapped(o, u, i, c)
  BY <1>2, Extended
<1>4. c.kind = kind /\ c.body = more
  BY DEF Block
<1>5. Ordered(o) /\ \A j \in 1 .. Len(o.blocks) : j > i => o.blocks[j].kind \notin Beside("text")
  BY <1>2 DEF Calm, Ordered
<1>6. kind = "text" /\ i \in DOMAIN o.blocks
  BY <1>2
<1>7. GrowsBy(o, u, "text", body)
  <2> DEFINE it == "text"
  <2>1. it \in {"text", "thinking"} /\ c.kind = it /\ o.blocks[i].kind = it /\ c.body = o.blocks[i].body \o body
    <3> HIDE DEF c, i, more
    <3>1. kind = it
      BY <1>6
    <3> HIDE DEF kind
    <3>2. c.kind = it /\ c.body = more
      BY <1>4, <3>1
    <3>3. it \in {"text", "thinking"}
      OBVIOUS
    <3> HIDE DEF it
    <3>4. QED
      BY <3>1, <3>2, <3>3 DEF kind, more
  <2>2. \A j \in 1 .. Len(o.blocks) : j > i => o.blocks[j].kind \notin Beside(it)
    BY <1>5
  <2> HIDE DEF it, u, c, i
  <2>3. GrowsBy(o, u, it, body)
    BY <1>2, <1>3, <1>5, <1>6, <2>1, <2>2, SwapLonger
  <2>4. QED
    BY <2>3 DEF it
<1> HIDE DEF u
<1>8. QED
  BY <1>1, <1>2, <1>7 DEF Calm, GrowsBy, u

\* The thinking block that AddThinking feeds, which is open or starts.
ThinkingOpen(t) == IF t.think # 0 THEN t ELSE [BlockStart(t, "thinking") EXCEPT !.think = Len(t.blocks) + 1]

LEMMA ThinkingOpens ==
  ASSUME NEW t, NEW N, Good(t, N), Ordered(t)
  PROVE  LET o == ThinkingOpen(t) IN
         /\ Calm(t, o) /\ Shape(o) /\ o.think \in DOMAIN o.blocks /\ o.think # 0
         /\ o.blocks[o.think].open /\ o.blocks[o.think].kind = "thinking"
<1>1. CASE t.think # 0
  BY <1>1 DEF Calm, Good, Sound, Holder, ThinkingOpen
<1>2. CASE t.think = 0
  <2> DEFINE n == Len(t.blocks) + 1
             v == BlockStart(t, "thinking")
             w == [v EXCEPT !.think = n]
             yes == TRUE
  <2>1. /\ Shape(v) /\ v.think = t.think /\ v.text = t.text
        /\ n \in Nat /\ Len(v.blocks) = n
        /\ DOMAIN t.blocks = 1 .. Len(t.blocks) /\ DOMAIN v.blocks = 1 .. n
        /\ \A i \in DOMAIN t.blocks : v.blocks[i] = t.blocks[i]
        /\ v.blocks[n] = Block("thinking", <<>>, yes)
    BY Started DEF Good
  <2>2. Len(t.blocks) \in Nat /\ Shape(t)
    BY ShapeLists DEF Good
  <2>3. n \in DOMAIN v.blocks /\ n \in 0 .. Len(v.blocks) /\ n # 0 /\ n = Len(t.blocks) + 1
    BY <2>1, <2>2
  <2>4. ThinkingOpen(t) = w
    BY <1>2 DEF ThinkingOpen
  <2>5. yes
    OBVIOUS
  <2> HIDE DEF v, n, yes
  <2>6. v.blocks[n].kind = "thinking" /\ v.blocks[n].open /\ v.blocks[n].body = <<>>
    BY <2>1, <2>5 DEF Block
  <2>7. Shape(w) /\ w.think = n /\ w.blocks = v.blocks /\ w.text = t.text
    <3>1. Shape(v) /\ v.text = t.text /\ n \in 0 .. Len(v.blocks)
      BY <2>1, <2>3
    <3>2. QED
      BY <3>1, OtherThink
  <2> HIDE DEF w
  <2>8. "thinking" \notin Beside("text") /\ IsList(<<>>)
    BY EmptyIsList DEF Beside
  <2>9. Joined(t, w, n)
    BY <2>1, <2>2, <2>3, <2>6, <2>7, <2>8 DEF Joined
  <2>10. Ordered(w) /\ SeenOf(w) = See(SeenOf(t), w.blocks[n])
    BY <2>9, JoinsSeen
  <2>11. ViewOK(SeenOf(t))
    BY <2>2, SeenIsOK
  <2>12. w.blocks[n].body = <<>>
    BY <2>6, <2>7
  <2>13. See(SeenOf(t), w.blocks[n]) = SeenOf(t)
    BY <2>11, <2>12, StartCalm
  <2>14. Calm(t, w)
    BY <2>10, <2>13 DEF Calm
  <2>15. QED
    BY <2>3, <2>4, <2>6, <2>7, <2>14
<1>3. QED
  BY <1>1, <1>2

LEMMA ThinkingSeen ==
  ASSUME NEW t, NEW N, Good(t, N), Ordered(t), NEW body, IsList(body)
  PROVE  GrowsBy(t, AddThinking(t, body), "thinking", body)
<1> DEFINE o == ThinkingOpen(t)
<1>1. AddThinking(t, body) = BlockDelta(o, o.think, body)
  BY DEF AddThinking, ThinkingOpen
<1> HIDE DEF o
<1>2. /\ Calm(t, o) /\ Shape(o) /\ o.think \in DOMAIN o.blocks /\ o.think # 0
      /\ o.blocks[o.think].open /\ o.blocks[o.think].kind = "thinking"
  BY ThinkingOpens DEF o
<1> DEFINE i == o.think
           yes == TRUE
           kind == o.blocks[i].kind
           more == o.blocks[i].body \o body
           c == Block(kind, more, yes)
           u == BlockDelta(o, i, body)
<1>3. Swapped(o, u, i, c)
  BY <1>2, Extended
<1>4. c.kind = kind /\ c.body = more
  BY DEF Block
<1>5. Ordered(o) /\ \A j \in 1 .. Len(o.blocks) : j > i => o.blocks[j].kind \notin Beside("thinking")
  BY <1>2 DEF Calm, Ordered
<1>6. kind = "thinking" /\ i \in DOMAIN o.blocks
  BY <1>2
<1>7. GrowsBy(o, u, "thinking", body)
  <2> DEFINE it == "thinking"
  <2>1. it \in {"text", "thinking"} /\ c.kind = it /\ o.blocks[i].kind = it /\ c.body = o.blocks[i].body \o body
    <3> HIDE DEF c, i, more
    <3>1. kind = it
      BY <1>6
    <3> HIDE DEF kind
    <3>2. c.kind = it /\ c.body = more
      BY <1>4, <3>1
    <3>3. it \in {"text", "thinking"}
      OBVIOUS
    <3> HIDE DEF it
    <3>4. QED
      BY <3>1, <3>2, <3>3 DEF kind, more
  <2>2. \A j \in 1 .. Len(o.blocks) : j > i => o.blocks[j].kind \notin Beside(it)
    BY <1>5
  <2> HIDE DEF it, u, c, i
  <2>3. GrowsBy(o, u, it, body)
    BY <1>2, <1>3, <1>5, <1>6, <2>1, <2>2, SwapLonger
  <2>4. QED
    BY <2>3 DEF it
<1> HIDE DEF u
<1>8. QED
  BY <1>1, <1>2, <1>7 DEF Calm, GrowsBy, u

\* A call that comes whole: one that is seen, when no text block is open.
LEMMA CallSeen ==
  ASSUME NEW t, Shape(t), Ordered(t), NEW kind, t.text = 0 \/ Unseen(kind), kind # "thinking", NEW body, IsList(body)
  PROVE  LET u == AddCall(t, kind, body) IN
         /\ Ordered(u)
         /\ kind = "call" => SeenOf(u) = View(AddVisible(SeenOf(t).visible, "call", body), SeenOf(t).thoughts)
         /\ Unseen(kind) => SeenOf(u) = SeenOf(t)
<1> DEFINE n == Len(t.blocks) + 1
           o == BlockStart(t, kind)
           v == BlockDelta(o, n, body)
           u == BlockStop(v, n)
           yes == TRUE
           no == FALSE
<1>1. /\ Shape(o) /\ o.text = t.text /\ o.think = t.think
      /\ n \in Nat /\ Len(o.blocks) = n
      /\ DOMAIN t.blocks = 1 .. Len(t.blocks) /\ DOMAIN o.blocks = 1 .. n
      /\ \A i \in DOMAIN t.blocks : o.blocks[i] = t.blocks[i]
      /\ o.blocks[n] = Block(kind, <<>>, yes)
  BY Started
<1>2. Len(t.blocks) \in Nat /\ yes
  BY ShapeLists
<1>3. /\ n \in DOMAIN o.blocks /\ n = Len(t.blocks) + 1
      /\ \A i \in DOMAIN t.blocks : i \in DOMAIN o.blocks /\ i # n
  BY <1>1, <1>2
<1>4. AddCall(t, kind, body) = u
  BY <1>1 DEF AddCall
<1> HIDE DEF n, o, yes
<1>5. o.blocks[n].kind = kind /\ o.blocks[n].body = <<>> /\ o.blocks[n].open
  BY <1>1, <1>2 DEF Block
<1> DEFINE c == Block(kind, body, TRUE)
           d == Block(kind, body, no)
<1>6. Swapped(o, v, n, c)
  <2>1. Swapped(o, v, n, Block(o.blocks[n].kind, o.blocks[n].body \o body, TRUE))
    BY <1>1, <1>3, <1>5, Extended
  <2>2. <<>> \o body = body
    BY JoinsEmpty
  <2>3. QED
    BY <1>5, <2>1, <2>2
<1> HIDE DEF v
<1>7. c.kind = kind /\ c.body = body /\ c.open /\ d.kind = kind /\ d.body = body
  BY DEF Block
<1>8. Swapped(v, u, n, d)
  <2>1. Shape(v) /\ n \in DOMAIN v.blocks /\ v.blocks[n] = c
    BY <1>3, <1>6 DEF Swapped
  <2>2. Swapped(v, u, n, Block(v.blocks[n].kind, v.blocks[n].body, FALSE))
    BY <1>7, <2>1, Stopped
  <2>3. QED
    BY <1>7, <2>1, <2>2
<1> HIDE DEF u, c, d
<1>9. /\ Shape(u) /\ u.text = t.text /\ u.think = t.think /\ Len(u.blocks) = n
      /\ u.blocks[n].kind = kind /\ u.blocks[n].body = body
  BY <1>1, <1>6, <1>7, <1>8 DEF Swapped
<1>10. \A i \in 1 .. Len(t.blocks) : u.blocks[i] = t.blocks[i]
  BY <1>1, <1>3, <1>6, <1>8 DEF Swapped
<1>11. kind \notin Beside("thinking") /\ (u.text = 0 \/ kind \notin Beside("text"))
  BY <1>9 DEF Beside, Unseen
<1>12. Joined(t, u, n)
  BY <1>3, <1>9, <1>10, <1>11 DEF Joined
<1>13. Ordered(u) /\ SeenOf(u) = See(SeenOf(t), u.blocks[n])
  BY <1>12, JoinsSeen
<1> DEFINE x == SeenOf(t)
           e == u.blocks[n]
<1>14. ViewOK(x) /\ IsList(e.body) /\ e.kind = kind /\ e.body = body
  BY <1>9, SeenIsOK
<1> HIDE DEF x, e
<1>15. kind = "call" => See(x, e) = View(AddVisible(x.visible, e.kind, e.body), x.thoughts)
  BY <1>14, Sees
<1>16. Unseen(kind) => See(x, e) = x
  BY <1>14, Sees DEF Unseen
<1>17. QED
  BY <1>4, <1>13, <1>14, <1>15, <1>16 DEF x, e

-----------------------------------------------------------------------------
(* What the events of a ToolCallTextParser show.                           *)

\* A bad call is not shown.
EventView(x, kind, body) ==
  IF kind = "badCall" THEN x ELSE View(AddVisible(x.visible, kind, body), x.thoughts)
EventShown(t, u, kind, body) == Ordered(u) /\ SeenOf(u) = EventView(SeenOf(t), kind, body)

LEMMA TextShown ==
  ASSUME NEW t, NEW u, NEW w, NEW body, Calm(t, u), GrowsBy(u, w, "text", body)
  PROVE  EventShown(t, w, "text", body)
BY DEF Calm, GrowsBy, EventShown, EventView, Bigger

LEMMA CallShown ==
  ASSUME NEW t, NEW u, NEW N, Good(u, N), Calm(t, u), u.text = 0, NEW body, IsList(body)
  PROVE  EventShown(t, AddCall(u, "call", body), "call", body)
<1> DEFINE kind == "call"
<1>1. kind # "thinking" /\ kind = "call" /\ kind # "badCall"
  OBVIOUS
<1>2. Shape(u) /\ Ordered(u) /\ SeenOf(u) = SeenOf(t)
  BY DEF Good, Calm
<1> HIDE DEF kind
<1>3. LET w == AddCall(u, kind, body) IN
      /\ Ordered(w)
      /\ kind = "call" => SeenOf(w) = View(AddVisible(SeenOf(u).visible, "call", body), SeenOf(u).thoughts)
  BY <1>1, <1>2, CallSeen
<1> DEFINE w == AddCall(u, kind, body)
<1>4. Ordered(w) /\ SeenOf(w) = View(AddVisible(SeenOf(u).visible, kind, body), SeenOf(u).thoughts)
  BY <1>1, <1>3
<1> HIDE DEF w
<1>5. EventShown(t, w, kind, body)
  BY <1>1, <1>2, <1>4 DEF EventShown, EventView
<1>6. QED
  BY <1>5 DEF w, kind

LEMMA BadCallShown ==
  ASSUME NEW t, Ordered(t), NEW body
  PROVE  EventShown(t, t, "badCall", body)
BY DEF EventShown, EventView

LEMMA ClosedBoth ==
  ASSUME NEW t, NEW N, Good(t, N), Ordered(t)
  PROVE  Calm(t, CloseThinking(CloseText(t)))
<1> DEFINE v == CloseText(t)
<1>1. Turns(t, v, N) /\ Calm(t, v)
  BY ClosingText, ClosesText
<1> HIDE DEF v
<1>2. Calm(v, CloseThinking(v))
  BY <1>1, ClosesThinking DEF Turns, Calm
<1>3. Calm(t, CloseThinking(v))
  BY <1>1, <1>2, CalmCalm
<1>4. QED
  BY <1>3 DEF v

\* Text after the thinking block, if there is one, is closed.
LEMMA OpenaiTextShown ==
  ASSUME NEW t, NEW N, Good(t, N), Ordered(t), NEW body, IsList(body)
  PROVE  EventShown(t, OpenaiText(t, body), "text", body)
<1> DEFINE v == CloseThinking(t)
<1>1. Turns(t, v, N) /\ Calm(t, v)
  BY ClosingThinking, ClosesThinking
<1> HIDE DEF v
<1>2. GrowsBy(v, AddText(v, body), "text", body)
  BY <1>1, TextSeen DEF Turns, Calm
<1>3. EventShown(t, AddText(v, body), "text", body)
  BY <1>1, <1>2, TextShown
<1>4. QED
  BY <1>3 DEF v, OpenaiText

LEMMA OpenaiEventShows ==
  ASSUME NEW t, NEW N, Good(t, N), Ordered(t), NEW e, e.kind \in ToolKinds, IsList(e.body)
  PROVE  EventShown(t, OpenaiParserEvent(t, e), e.kind, e.body)
<1>1. CASE e.kind = "text"
  BY <1>1, OpenaiTextShown DEF OpenaiParserEvent
<1>2. CASE e.kind = "call"
  <2> DEFINE u == CloseThinking(CloseText(t))
  <2>1. Turns(t, u, N) /\ u.text = 0 /\ Calm(t, u)
    BY ClosingBoth, ClosedBoth
  <2>2. OpenaiParserEvent(t, e) = AddCall(u, "call", e.body)
    BY <1>2 DEF OpenaiParserEvent
  <2> HIDE DEF u
  <2>3. EventShown(t, AddCall(u, "call", e.body), "call", e.body)
    BY <2>1, CallShown DEF Turns
  <2>4. QED
    BY <1>2, <2>2, <2>3
<1>3. CASE e.kind = "badCall"
  BY <1>3, BadCallShown DEF OpenaiParserEvent
<1>4. QED
  BY <1>1, <1>2, <1>3 DEF ToolKinds

LEMMA OllamaEventShows ==
  ASSUME NEW t, NEW N, Good(t, N), Ordered(t), NEW e, e.kind \in ToolKinds, IsList(e.body)
  PROVE  EventShown(t, OllamaParserEvent(t, e), e.kind, e.body)
<1>1. CASE e.kind = "text"
  <2>1. Calm(t, t) /\ GrowsBy(t, AddText(t, e.body), "text", e.body)
    BY TextSeen DEF Calm
  <2>2. QED
    BY <1>1, <2>1, TextShown DEF OllamaParserEvent
<1>2. CASE e.kind = "call"
  <2> DEFINE u == CloseText(t)
  <2>1. Turns(t, u, N) /\ u.text = 0 /\ Calm(t, u)
    BY ClosingText, ClosesText
  <2>2. OllamaParserEvent(t, e) = AddCall(u, "call", e.body)
    BY <1>2 DEF OllamaParserEvent
  <2> HIDE DEF u
  <2>3. EventShown(t, AddCall(u, "call", e.body), "call", e.body)
    BY <2>1, CallShown DEF Turns
  <2>4. QED
    BY <1>2, <2>2, <2>3
<1>3. CASE e.kind = "badCall"
  BY <1>3, BadCallShown DEF OllamaParserEvent
<1>4. QED
  BY <1>1, <1>2, <1>3 DEF ToolKinds

\* Either adapter.
ParserEvent(t, e) == IF Openai THEN OpenaiParserEvent(t, e) ELSE OllamaParserEvent(t, e)
ParserEvents(t, events) == IF Openai THEN OpenaiEvents(t, events) ELSE OllamaEvents(t, events)

LEMMA EventTurns ==
  ASSUME NEW t, NEW N, Good(t, N), Ordered(t), NEW e, e.kind \in ToolKinds, IsList(e.body)
  PROVE  Turns(t, ParserEvent(t, e), N) /\ EventShown(t, ParserEvent(t, e), e.kind, e.body)
BY OpenaiEventTurns, OllamaEventTurns, OpenaiEventShows, OllamaEventShows DEF ParserEvent

LEMMA EventsTurn ==
  ASSUME NEW t, NEW N, Good(t, N), NEW events, EventsOK(events, ToolKinds)
  PROVE  Turns(t, ParserEvents(t, events), N)
BY OpenaiEventsTurn, OllamaEventsTurn DEF ParserEvents

LEMMA NoEvents ==
  ASSUME NEW t
  PROVE  ParserEvents(t, <<>>) = t
BY OpenaiNone, OllamaNone DEF ParserEvents

LEMMA MoreOfEvents ==
  ASSUME NEW t, NEW events, IsList(events), NEW e
  PROVE  ParserEvents(t, Adds(events, e)) = ParserEvent(ParserEvents(t, events), e)
BY OpenaiMore, OllamaMore DEF ParserEvents, ParserEvent

\* What a pass gives out shows what the reader is shown.
LEMMA GivenShows ==
  ASSUME NEW t, NEW N, Good(t, N), NEW events, EventsOK(events, ToolKinds),
         NEW u, u = ParserEvents(t, events), Ordered(u),
         NEW kind \in ToolKinds, NEW body, IsList(body),
         NEW all, all = events \o Given(kind, body)
  PROVE  EventsOK(all, ToolKinds) /\ EventShown(u, ParserEvents(t, all), kind, body)
<1>1. Turns(t, u, N)
  BY EventsTurn
<1>2. IsList(events)
  BY DEF EventsOK
<1>3. EventsOK(all, ToolKinds)
  <2> DEFINE g == Given(kind, body)
  <2>1. EventsOK(g, ToolKinds)
    BY OneEvent DEF Given
  <2> HIDE DEF g
  <2>2. QED
    BY <2>1, MoreEvents DEF g
<1>4. CASE Given(kind, body) = <<>>
  <2>1. kind = "text" /\ body = <<>>
    <3>1. <<Event(kind, body)>> # <<>>
      BY OneIsList
    <3>2. QED
      BY <1>4, <3>1 DEF Given, Chunk
  <2>2. all = events
    BY <1>2, <1>4, JoinsEmpty
  <2>3. ViewOK(SeenOf(u))
    BY <1>1, SeenIsOK DEF Turns, Good
  <2>4. AddVisible(SeenOf(u).visible, kind, body) = SeenOf(u).visible
    BY <2>1, AddsNothing
  <2>5. EventView(SeenOf(u), kind, body) = SeenOf(u)
    BY <2>1, <2>3, <2>4 DEF EventView, ViewOK
  <2>6. QED
    BY <1>3, <2>2, <2>5 DEF EventShown
<1>5. CASE Given(kind, body) # <<>>
  <2> DEFINE e == Event(kind, body)
  <2>1. Given(kind, body) = <<e>>
    BY <1>5 DEF Given, Chunk
  <2>2. e.kind = kind /\ e.body = body
    BY EventFields
  <2> HIDE DEF e
  <2>3. all = Adds(events, e)
    BY <2>1 DEF Adds
  <2>4. ParserEvents(t, all) = ParserEvent(u, e)
    BY <1>2, <2>3, MoreOfEvents
  <2>5. EventShown(u, ParserEvent(u, e), e.kind, e.body)
    BY <1>1, <2>2, EventTurns DEF Turns
  <2>6. QED
    BY <1>3, <2>2, <2>4, <2>5
<1>6. QED
  BY <1>4, <1>5

-----------------------------------------------------------------------------
(* What comes out of a ToolCallTextParser that is fed.                     *)

LEMMA DrainTextUnfolds ==
  ASSUME NEW p, ToolParser(p)
  PROVE  /\ DrainText(p) = ToolDrain!At(p)[Len(p.buf) + 1] /\ Len(p.buf) \in Nat
         /\ ToolDrain!At(p)[0] = Pass(p, <<>>, FALSE)
         /\ \A n \in 1 .. Len(p.buf) + 1 : ToolDrain!At(p)[n] = EitherPass(ToolDrain!At(p)[n - 1])
<1> DEFINE N == Len(p.buf) + 1
           m == CHOOSE f : f = [n \in 0 .. N |->
                  IF n = 0 THEN Pass(p, <<>>, FALSE)
                  ELSE IF f[n - 1].over THEN f[n - 1]
                  ELSE IF f[n - 1].parser.inCall THEN ToolPass(f[n - 1]) ELSE TextPass(f[n - 1])]
<1>1. Len(p.buf) \in Nat /\ N \in Nat /\ ToolSteps(p) = N
  BY ListFacts DEF ToolParser, ToolSteps
<1>2. m = [n \in 0 .. ToolSteps(p) |-> ToolDrain!Value(p, m, n)]
  <2> DEFINE Value(f, n) ==
                  IF n = 0 THEN Pass(p, <<>>, FALSE)
                  ELSE IF f[n - 1].over THEN f[n - 1]
                  ELSE IF f[n - 1].parser.inCall THEN ToolPass(f[n - 1]) ELSE TextPass(f[n - 1])
  <2>1. \E f : f = [n \in 0 .. ToolSteps(p) |-> ToolDrain!Value(p, f, n)]
    BY <1>1, ToolDrain!Exists
  <2>2. ASSUME NEW f, NEW n PROVE ToolDrain!Value(p, f, n) = Value(f, n)
    BY DEF ToolDrain!Value, ToolStart, ToolStep, EitherPass
  <2>3. m = CHOOSE f : f = [n \in 0 .. N |-> Value(f, n)]
    OBVIOUS
  <2> HIDE DEF m, Value
  <2>4. \E f : f = [n \in 0 .. N |-> Value(f, n)]
    BY <1>1, <2>1, <2>2
  <2>5. m = [n \in 0 .. N |-> Value(m, n)]
    BY <2>3, <2>4
  <2>6. QED
    BY <1>1, <2>2, <2>5
<1>3. DrainText(p) = m[N]
  BY DEF DrainText
<1> HIDE DEF m, N
<1>4. \A n \in 0 .. ToolSteps(p) : m[n] = ToolDrain!At(p)[n]
  BY <1>1, <1>2, ToolDrain!Same
<1>5. /\ ToolDrain!At(p)[0] = ToolStart(p)
      /\ \A n \in 1 .. ToolSteps(p) : ToolDrain!At(p)[n] = ToolStep(p, ToolDrain!At(p)[n - 1], n)
  BY <1>1, ToolDrain!Unfolds
<1>6. N \in 0 .. ToolSteps(p)
  BY <1>1
<1>7. QED
  BY <1>1, <1>3, <1>4, <1>5, <1>6 DEF ToolStart, ToolStep, N

\* The events so far show of t what the reader is shown of T, which is read up to e.
DrainTold(T, t, x, e, h) ==
  /\ EventsOK(x.events, ToolKinds) /\ Ordered(ParserEvents(t, x.events))
  /\ \E q : CallsTo(T, x.parser, q, e) /\ SeenOf(ParserEvents(t, x.events)) = View(ShownAt(T, q).out, h)

\* What the reader is shown from q to k.
LEMMA ShownFrom ==
  ASSUME NEW T, NEW q, NEW k, NEW kind, NEW body, ShowsFrom(T, q, k, kind, body),
         NEW u, NEW w, EventShown(u, w, kind, body), NEW h, SeenOf(u) = View(ShownAt(T, q).out, h)
  PROVE  SeenOf(w) = View(ShownAt(T, k).out, h)
<1> DEFINE a == ShownAt(T, q).out
           b == ShownAt(T, k).out
           x == SeenOf(u)
<1>1. x.visible = a /\ x.thoughts = h
  BY ViewFields
<1>2. b = IF kind = "badCall" THEN a ELSE AddVisible(a, kind, body)
  BY DEF ShowsFrom
<1>3. SeenOf(w) = EventView(x, kind, body) /\ x = View(a, h)
  BY DEF EventShown
<1> HIDE DEF a, b, x
<1>4. SeenOf(w) = View(b, h)
  BY <1>1, <1>2, <1>3 DEF EventView
<1>5. QED
  BY <1>4 DEF b

LEMMA PassTells ==
  ASSUME NEW T, IsList(T), NEW e \in Nat, e <= Len(T), NEW t, NEW N, Good(t, N), NEW h,
         NEW x, DrainTold(T, t, x, e, h)
  PROVE  DrainTold(T, t, EitherPass(x), e, h)
<1>1. CASE x.over
  <2>1. EitherPass(x) = x
    BY <1>1 DEF EitherPass
  <2>2. QED
    BY <2>1
<1>2. CASE ~x.over
  <2> DEFINE u == ParserEvents(t, x.events)
             y == EitherPass(x)
  <2>1. /\ EventsOK(x.events, ToolKinds) /\ IsList(x.events) /\ Ordered(u)
        /\ \E q : CallsTo(T, x.parser, q, e) /\ SeenOf(u) = View(ShownAt(T, q).out, h)
    BY DEF DrainTold, EventsOK
  <2>2. PICK q : CallsTo(T, x.parser, q, e) /\ SeenOf(u) = View(ShownAt(T, q).out, h)
    BY <2>1
  <2>3. PassReads(T, x, y, q, e)
    BY <1>2, <2>1, <2>2, EitherPassReads
  <2> HIDE DEF y
  <2>4. PICK k, kind, body :
          /\ k \in Nat /\ q <= k /\ CallsTo(T, y.parser, k, e)
          /\ kind \in ToolKinds /\ ShowsFrom(T, q, k, kind, body)
          /\ y.events = x.events \o Given(kind, body)
    BY <2>3 DEF PassReads
  <2>5. IsList(body)
    BY <2>4, PartsAreLists DEF ShowsFrom
  <2> DEFINE events == x.events
             all == y.events
             w == ParserEvents(t, all)
  <2>6. all = events \o Given(kind, body) /\ u = ParserEvents(t, events) /\ EventsOK(events, ToolKinds)
    BY <2>1, <2>4
  <2> HIDE DEF u, events, all
  <2>7. EventsOK(all, ToolKinds) /\ EventShown(u, w, kind, body)
    BY <2>1, <2>4, <2>5, <2>6, GivenShows
  <2> HIDE DEF w
  <2>8. SeenOf(w) = View(ShownAt(T, k).out, h)
    BY <2>2, <2>4, <2>7, ShownFrom
  <2>9. Ordered(w)
    BY <2>7 DEF EventShown
  <2>10. QED
    BY <2>4, <2>7, <2>8, <2>9 DEF DrainTold, w, all, y
<1>3. QED
  BY <1>1, <1>2

LEMMA DrainTells ==
  ASSUME NEW T, IsList(T), NEW e \in Nat, e <= Len(T), NEW t, NEW N, Good(t, N), NEW h,
         NEW p, ToolParser(p), DrainTold(T, t, Pass(p, <<>>, FALSE), e, h)
  PROVE  DrainTold(T, t, DrainText(p), e, h)
<1> DEFINE l == Len(p.buf) + 1
           S == {n \in Nat : n <= l => DrainTold(T, t, ToolDrain!At(p)[n], e, h)}
<1>0. Len(p.buf) \in Nat /\ l \in Nat
  BY ListFacts DEF ToolParser
<1>1. /\ DrainText(p) = ToolDrain!At(p)[l] /\ l \in Nat
      /\ ToolDrain!At(p)[0] = Pass(p, <<>>, FALSE)
      /\ \A n \in 1 .. l : ToolDrain!At(p)[n] = EitherPass(ToolDrain!At(p)[n - 1])
  BY <1>0, DrainTextUnfolds
<1> HIDE DEF l
<1>2. 0 \in S
  BY <1>1
<1>3. ASSUME NEW n \in S PROVE n + 1 \in S
  <2>1. CASE n + 1 <= l
    <3> DEFINE x == ToolDrain!At(p)[n]
               y == ToolDrain!At(p)[n + 1]
    <3>1. n \in Nat /\ n <= l /\ n + 1 \in 1 .. l /\ (n + 1) - 1 = n
      BY <1>1, <2>1
    <3>2. DrainTold(T, t, x, e, h) /\ y = EitherPass(x)
      BY <1>1, <3>1
    <3> HIDE DEF x, y
    <3>3. DrainTold(T, t, y, e, h)
      BY <3>2, PassTells
    <3>4. QED
      BY <3>1, <3>3 DEF y
  <2>2. CASE ~(n + 1 <= l)
    BY <2>2
  <2>3. QED
    BY <2>1, <2>2
<1>4. S \in SUBSET Nat
  OBVIOUS
<1>5. l \in S
  <2> HIDE DEF S
  <2>1. QED
    BY <1>1, <1>2, <1>3, <1>4, ToolDrain!Stepwise
<1>6. QED
  BY <1>1, <1>5

-----------------------------------------------------------------------------
(* An adapter has told what is in the first e symbols of the text T, as    *)
(* far as the ToolCallTextParser has not kept it, and the thoughts h.      *)

Told(T, t, e, h) ==
  /\ Ordered(t)
  /\ IF setup.native THEN SeenOf(t) = View(AddVisible(<<>>, "text", Win(T, 0, e)), h)
     ELSE \E q : CallsTo(T, t.tool, q, e) /\ SeenOf(t) = View(ShownAt(T, q).out, h)

LEMMA CalmTold ==
  ASSUME NEW T, NEW t, NEW e, NEW h, Told(T, t, e, h), NEW u, Calm(t, u), u.tool = t.tool
  PROVE  Told(T, u, e, h)
BY DEF Told, Calm

LEMMA ToldThoughts ==
  ASSUME NEW T, NEW t, NEW e, NEW h, Told(T, t, e, h), NEW N, Good(t, N)
  PROVE  ViewOK(SeenOf(t)) /\ IsList(h)
<1>1. ViewOK(SeenOf(t))
  BY SeenIsOK DEF Good, Told
<1>2. SeenOf(t).thoughts = h
  BY ViewFields DEF Told
<1>3. QED
  BY <1>1, <1>2 DEF ViewOK

\* More thoughts.
LEMMA ThinkingTold ==
  ASSUME NEW T, NEW t, NEW e, NEW h, Told(T, t, e, h), NEW N, Good(t, N),
         NEW body, IsList(body), NEW more, more = h \o Spoken(body)
  PROVE  Told(T, AddThinking(t, body), e, more)
<1> DEFINE u == AddThinking(t, body)
           x == SeenOf(t)
           it == "thinking"
<1>1. GrowsBy(t, u, it, body) /\ u.tool = t.tool
  BY ThinkingSeen, AddingThinking DEF Told, Turns
<1>2. it # "text"
  OBVIOUS
<1> HIDE DEF u, it
<1>3. Ordered(u) /\ SeenOf(u) = View(x.visible, x.thoughts \o Spoken(body))
  BY <1>1, <1>2 DEF GrowsBy, Bigger
<1>4. ASSUME NEW v, x = View(v, h)
      PROVE  SeenOf(u) = View(v, more)
  <2>1. x.visible = v /\ x.thoughts = h
    BY <1>4, ViewFields
  <2> HIDE DEF x
  <2>2. QED
    BY <1>3, <2>1
<1>5. CASE setup.native
  <2> DEFINE v == AddVisible(<<>>, "text", Win(T, 0, e))
  <2>1. x = View(v, h)
    BY <1>5 DEF Told
  <2> HIDE DEF v, x
  <2>2. SeenOf(u) = View(v, more)
    BY <1>4, <2>1
  <2>3. QED
    BY <1>3, <1>5, <2>2 DEF Told, u, v
<1>6. CASE ~setup.native
  <2>1. PICK q : CallsTo(T, t.tool, q, e) /\ x = View(ShownAt(T, q).out, h)
    BY <1>6 DEF Told
  <2> DEFINE v == ShownAt(T, q).out
  <2>2. x = View(v, h)
    BY <2>1
  <2> HIDE DEF v, x
  <2>3. SeenOf(u) = View(v, more)
    BY <1>4, <2>2
  <2>4. QED
    BY <1>1, <1>3, <1>6, <2>1, <2>3 DEF Told, u, v
<1>7. QED
  BY <1>5, <1>6

\* Reasoning that comes out of band is not among them.
LEMMA ReasonTold ==
  ASSUME NEW T, NEW t, NEW e, NEW h, Told(T, t, e, h), NEW N, Good(t, N)
  PROVE  Told(T, AddThinking(t, <<"reason">>), e, h)
<1> DEFINE body == <<"reason">>
           more == h \o Spoken(body)
<1>1. IsList(h)
  BY ToldThoughts
<1>2. IsList(body) /\ Spoken(body) = <<>>
  BY OneIsList, SpokenReason
<1> HIDE DEF body
<1>3. more = h
  <2>1. h \o <<>> = h
    BY <1>1, JoinsEmpty
  <2>2. QED
    BY <1>2, <2>1
<1>4. Told(T, AddThinking(t, body), e, more)
  <2> HIDE DEF more
  <2>1. more = h \o Spoken(body)
    BY DEF more
  <2>2. QED
    BY <1>2, <2>1, ThinkingTold
<1>5. QED
  BY <1>3, <1>4 DEF body

LEMMA OpenaiReasonTold ==
  ASSUME NEW T, NEW t, NEW e, NEW h, Told(T, t, e, h), NEW N, Good(t, N)
  PROVE  Told(T, OpenaiThinking(t, <<"reason">>), e, h)
<1> DEFINE u == CloseText(t)
<1>1. Turns(t, u, N) /\ Calm(t, u)
  BY ClosingText, ClosesText DEF Told
<1>2. OpenaiThinking(t, <<"reason">>) = AddThinking(u, <<"reason">>)
  BY DEF OpenaiThinking
<1> HIDE DEF u
<1>3. Told(T, u, e, h)
  BY <1>1, CalmTold DEF Turns
<1>4. QED
  BY <1>1, <1>2, <1>3, ReasonTold DEF Turns

\* More text, where it is shown as it is.
LEMMA NativeTold ==
  ASSUME NEW T, IsList(T), NEW e \in Nat, NEW f \in Nat, e <= f, f <= Len(T),
         NEW t, NEW h, Told(T, t, e, h), setup.native,
         NEW u, EventShown(t, u, "text", Win(T, e, f))
  PROVE  Told(T, u, f, h)
<1> DEFINE none == <<>>
           a == Win(T, 0, e)
           b == Win(T, e, f)
           c == Win(T, 0, f)
           v == AddVisible(none, "text", a)
           w == AddVisible(none, "text", c)
           x == SeenOf(t)
           kind == "text"
<1>1. x = View(v, h) /\ Ordered(u) /\ SeenOf(u) = EventView(x, kind, b)
  BY DEF Told, EventShown
<1>2. kind # "badCall" /\ kind = "text"
  OBVIOUS
<1>3. IsList(a) /\ IsList(b) /\ a \o b = c
  <2> DEFINE z == 0
  <2>1. z \in Nat /\ z <= e /\ e <= Len(T)
    BY ListFacts
  <2> HIDE DEF z
  <2>2. IsList(Win(T, z, e)) /\ IsList(b) /\ Win(T, z, e) \o Win(T, e, f) = Win(T, z, f)
    BY <2>1, WinFacts, WinJoin
  <2>3. QED
    BY <2>2 DEF z
<1>4. AddVisible(v, kind, b) = w
  <2>1. EventsSeen(none)
    BY NoneSeen
  <2> HIDE DEF none, a, b, c
  <2>2. AddVisible(AddVisible(none, "text", a), "text", b) = AddVisible(none, "text", a \o b)
    <3>1. IsList(a) /\ IsList(b)
      BY <1>3
    <3>2. QED
      BY <2>1, <3>1, TextMerges
  <2>3. QED
    BY <1>3, <2>2
<1>5. x.visible = v /\ x.thoughts = h
  <2> HIDE DEF x, v
  <2>1. QED
    BY <1>1, ViewFields
<1> HIDE DEF x, v, w, b, kind
<1>6. SeenOf(u) = View(w, h)
  BY <1>1, <1>2, <1>4, <1>5 DEF EventView
<1>7. QED
  BY <1>1, <1>6 DEF Told, w

\* The buffer with more of the text.
LEMMA CallsToMore ==
  ASSUME NEW T, IsList(T), NEW e \in Nat, NEW f \in Nat, e <= f, f <= Len(T),
         NEW p, ToolParser(p), NEW q, CallsTo(T, p, q, e), NEW buf, buf = p.buf \o Win(T, e, f),
         NEW r, r.inCall = p.inCall, r.buf = buf
  PROVE  CallsTo(T, r, q, f)
<1>1. q \in Nat /\ q <= e /\ p.buf = Win(T, q, e)
  BY DEF CallsTo
<1>2. Win(T, q, e) \o Win(T, e, f) = Win(T, q, f)
  BY <1>1, WinJoin
<1>3. q <= f
  BY <1>1
<1>4. buf = Win(T, q, f)
  BY <1>1, <1>2
<1>5. QED
  BY <1>1, <1>3, <1>4 DEF CallsTo

\* t with the parser that its events leave.
WithTool(t, p) == [t EXCEPT !.tool = p]
Feeds(t, body) == ParserEvents(WithTool(t, FeedToolText(t.tool, body).parser), FeedToolText(t.tool, body).events)

LEMMA ToolTold ==
  ASSUME NEW T, IsList(T), NEW e \in Nat, NEW f \in Nat, e <= f, f <= Len(T),
         NEW t, NEW N, Good(t, N), NEW h, Told(T, t, e, h), ~setup.native,
         NEW body, body = Win(T, e, f)
  PROVE  Told(T, Feeds(t, body), f, h) /\ Good(Feeds(t, body), N)
<1> DEFINE p == t.tool
           buf == p.buf \o body
           r == [p EXCEPT !.buf = @ \o body]
           fed == FeedToolText(p, body)
           t0 == WithTool(t, fed.parser)
<1>1. Shape(t) /\ ToolHeld(p) /\ ToolParser(p) /\ Ordered(t)
  BY DEF Good, Shape, ToolHeld, Told
<1>2. PICK q : CallsTo(T, p, q, e) /\ SeenOf(t) = View(ShownAt(T, q).out, h)
  BY DEF Told
<1>3. IsList(body)
  BY WinFacts
<1>4. fed = DrainText(r)
  BY DEF FeedToolText
<1>5. IsList(buf)
  <2>1. IsList(p.buf)
    BY <1>1 DEF ToolParser
  <2>2. QED
    BY <1>3, <2>1, Joins
<1>6. r = [inCall |-> p.inCall, buf |-> buf]
  <2>1. p = [inCall |-> p.inCall, buf |-> p.buf]
    BY <1>1 DEF ToolParser
  <2>2. r = [p EXCEPT !.buf = buf]
    OBVIOUS
  <2> HIDE DEF buf, r
  <2>3. [[inCall |-> p.inCall, buf |-> p.buf] EXCEPT !.buf = buf] = [inCall |-> p.inCall, buf |-> buf]
    OBVIOUS
  <2>4. QED
    BY <2>1, <2>2, <2>3
<1> HIDE DEF r
<1>7. r.inCall = p.inCall /\ r.buf = buf /\ ToolParser(r)
  <2>1. p.inCall \in BOOLEAN
    BY <1>1 DEF ToolParser
  <2> HIDE DEF buf
  <2>2. QED
    BY <1>5, <1>6, <2>1 DEF ToolParser
<1>8. CallsTo(T, r, q, f)
  <2> HIDE DEF p
  <2>1. buf = p.buf \o Win(T, e, f)
    OBVIOUS
  <2> HIDE DEF buf
  <2>2. QED
    BY <1>1, <1>2, <1>7, <2>1, CallsToMore
<1>9. ToolHeld(fed.parser) /\ EventsOK(fed.events, ToolKinds)
  BY <1>1, <1>3, Feeding
<1> HIDE DEF fed
<1>10. Good(t0, N) /\ Shape(t0) /\ t0.tool = fed.parser
  BY <1>1, <1>9, OtherParsers, OtherTool DEF Moves, WithTool
<1>11. t0.blocks = t.blocks /\ t0.text = t.text /\ t0.think = t.think
  BY <1>1, <1>9, OtherTool DEF WithTool
<1>12. Ordered(t0) /\ SeenOf(t0) = SeenOf(t)
  BY <1>1, <1>11 DEF Ordered, SeenOf
<1> HIDE DEF t0
<1> DEFINE x == Pass(r, <<>>, FALSE)
<1>13. x.parser = r /\ x.events = <<>>
  BY DEF Pass
<1>14. DrainTold(T, t0, x, f, h)
  <2>1. EventsOK(<<>>, ToolKinds)
    BY EmptyIsList DEF EventsOK
  <2>2. ParserEvents(t0, <<>>) = t0
    BY NoEvents
  <2> HIDE DEF x
  <2>3. QED
    BY <1>2, <1>8, <1>12, <1>13, <2>1, <2>2 DEF DrainTold
<1>15. DrainTold(T, t0, DrainText(r), f, h)
  BY <1>7, <1>10, <1>14, DrainTells
<1>16. DrainTold(T, t0, fed, f, h)
  BY <1>4, <1>15
<1> DEFINE u == ParserEvents(t0, fed.events)
<1>17. Turns(t0, u, N)
  BY <1>9, <1>10, EventsTurn
<1>18. Feeds(t, body) = u
  BY DEF Feeds, t0, fed
<1>19. Ordered(u) /\ \E k : CallsTo(T, fed.parser, k, f) /\ SeenOf(u) = View(ShownAt(T, k).out, h)
  BY <1>16 DEF DrainTold
<1> HIDE DEF u
<1>20. u.tool = fed.parser /\ Good(u, N)
  BY <1>10, <1>17 DEF Turns
<1>21. QED
  BY <1>18, <1>19, <1>20 DEF Told

LEMMA OpenaiTold ==
  ASSUME NEW T, IsList(T), NEW e \in Nat, NEW f \in Nat, e <= f, f <= Len(T),
         NEW t, NEW N, Good(t, N), NEW h, Told(T, t, e, h), Openai,
         NEW body, body = Win(T, e, f)
  PROVE  Told(T, IF setup.native THEN OpenaiText(t, body) ELSE OpenaiToolText(t, body), f, h)
<1>1. IsList(body)
  BY WinFacts
<1>2. CASE setup.native
  <2>1. EventShown(t, OpenaiText(t, body), "text", Win(T, e, f))
    BY <1>1, OpenaiTextShown DEF Told
  <2>2. QED
    BY <1>2, <2>1, NativeTold
<1>3. CASE ~setup.native
  <2>1. OpenaiToolText(t, body) = Feeds(t, body)
    BY DEF OpenaiToolText, Feeds, ParserEvents, WithTool
  <2>2. QED
    BY <1>3, <2>1, ToolTold
<1>4. QED
  BY <1>2, <1>3

LEMMA OllamaTold ==
  ASSUME NEW T, IsList(T), NEW e \in Nat, NEW f \in Nat, e <= f, f <= Len(T),
         NEW t, NEW N, Good(t, N), NEW h, Told(T, t, e, h), ~Openai,
         NEW body, body = Win(T, e, f)
  PROVE  Told(T, OllamaText(t, body), f, h)
<1> DEFINE u == CloseThinking(t)
<1>1. Turns(t, u, N) /\ Calm(t, u)
  BY ClosingThinking, ClosesThinking DEF Told
<1>2. Told(T, u, e, h) /\ Good(u, N)
  <2> HIDE DEF u
  <2>1. QED
    BY <1>1, CalmTold DEF Turns
<1>3. IsList(body)
  BY WinFacts
<1>4. OllamaText(t, body) = IF setup.native THEN AddText(u, body) ELSE Feeds(u, body)
  BY DEF OllamaText, Feeds, ParserEvents, WithTool
<1> HIDE DEF u
<1>5. CASE setup.native
  <2>1. Calm(u, u) /\ GrowsBy(u, AddText(u, body), "text", body)
    BY <1>2, <1>3, TextSeen DEF Told, Calm
  <2>2. EventShown(u, AddText(u, body), "text", Win(T, e, f))
    BY <2>1, TextShown
  <2>3. QED
    BY <1>2, <1>4, <1>5, <2>2, NativeTold
<1>6. CASE ~setup.native
  BY <1>2, <1>4, <1>6, ToolTold
<1>7. QED
  BY <1>5, <1>6

\* All of a text has been told, and there is nothing more.
LEMMA HeldBack ==
  ASSUME NEW T, IsList(T), NEW p, ToolHeld(p), NEW q, CallsTo(T, p, q, Len(T))
  PROVE  /\ ~InCall(p) => NoneOf(T, OpenTag, q, Len(T))
         /\ InCall(p) => NoneOf(T, CloseTag, q, Len(T))
<1> DEFINE l == Len(T)
<1>1. l \in Nat /\ q \in Nat /\ q <= l /\ p.buf = Win(T, q, l)
  BY ListFacts DEF CallsTo
<1>2. Len(p.buf) = l - q
  <2>1. l <= Len(T)
    BY <1>1
  <2> HIDE DEF l
  <2>2. QED
    BY <1>1, <2>1, WinFacts
<1>3. ASSUME NEW n \in q + 1 .. l, NEW tag, TagAt(T, n, tag)
      PROVE  n - q \in 1 .. l - q /\ (n - q) + 2 <= l - q /\ q + (n - q) = n /\ l - q >= 3
  BY <1>1, <1>3 DEF TagAt
<1>4. ASSUME ~InCall(p) PROVE NoneOf(T, OpenTag, q, l)
  <2>1. Len(p.buf) < 3
    BY <1>4 DEF ToolHeld, InCall
  <2>2. ~(l - q >= 3)
    BY <1>1, <1>2, <2>1
  <2>3. QED
    BY <1>3, <2>2 DEF NoneOf
<1>5. ASSUME InCall(p) PROVE NoneOf(T, CloseTag, q, l)
  <2>1. Find(Win(T, q, l), CloseTag) = 0
    BY <1>1, <1>5 DEF ToolHeld, InCall
  <2>2. \A i \in 1 .. l - q : i + 2 <= l - q /\ TagAt(T, q + i, CloseTag)
                                => Find(Win(T, q, l), CloseTag) # 0
    <3>1. IsTag(CloseTag) /\ l <= Len(T)
      BY <1>1, TagLists
    <3> HIDE DEF l
    <3>2. QED
      BY <1>1, <3>1, BufferFinds
  <2> HIDE DEF l
  <2>3. QED
    BY <1>3, <2>1, <2>2 DEF NoneOf
<1>6. QED
  BY <1>4, <1>5

LEMMA FlushTold ==
  ASSUME NEW T, IsList(T), NEW t, NEW N, Good(t, N), NEW h, Told(T, t, Len(T), h), ~setup.native,
         NEW u, u = ParserEvents(t, FinalizeToolText(t.tool))
  PROVE  /\ Good(u, N) /\ Ordered(u)
         /\ SeenOf(u) = View(ShownAt(T, Len(T)).out, h)
<1> DEFINE l == Len(T)
           p == t.tool
           kind == IF InCall(p) THEN "badCall" ELSE "text"
           body == p.buf
<1>1. ToolHeld(p) /\ l \in Nat /\ Ordered(t)
  BY ListFacts DEF Good, Shape, Told
<1>2. PICK q : CallsTo(T, p, q, l) /\ SeenOf(t) = View(ShownAt(T, q).out, h)
  BY DEF Told
<1>3. /\ q \in Nat /\ q <= l /\ ShownAt(T, q).skip = 0 /\ ShownAt(T, q).body = <<>>
      /\ p.inCall = ShownAt(T, q).inCall /\ p.buf = Win(T, q, l)
  BY <1>2 DEF CallsTo
<1>4. /\ ~InCall(p) => NoneOf(T, OpenTag, q, l)
      /\ InCall(p) => NoneOf(T, CloseTag, q, l)
  BY <1>1, <1>2, HeldBack
<1>5. InCall(p) <=> InCall(ShownAt(T, q))
  BY <1>3 DEF InCall
<1>6. FinalizeToolText(p) = Given(kind, body)
  <2>1. CASE InCall(p)
    BY <2>1 DEF FinalizeToolText, Given, InCall
  <2>2. CASE ~InCall(p)
    BY <2>2 DEF FinalizeToolText, Given, InCall
  <2>3. QED
    BY <2>1, <2>2
<1>7. IsList(body) /\ PartOf(T, body)
  <2>1. l <= Len(T)
    BY <1>1
  <2>2. IsList(Win(T, q, l))
    <3> HIDE DEF l
    <3>1. QED
      BY <1>1, <1>3, <2>1, WinFacts
  <2>3. QED
    BY <1>1, <1>3, <2>1, <2>2 DEF PartOf
<1>8. ShowsFrom(T, q, l, kind, body)
  <2> DEFINE r == ShownAt(T, q)
  <2>1. CASE InCall(p)
    <3>1. l <= Len(T) /\ InCall(r) /\ r.skip = 0 /\ NoneOf(T, CloseTag, q, l)
      BY <1>1, <1>3, <1>4, <1>5, <2>1
    <3> HIDE DEF l
    <3>2. ShownAt(T, l).out = ShownAt(T, q).out
      BY <1>1, <1>3, <3>1, ShowBody
    <3>3. QED
      BY <1>7, <2>1, <3>2 DEF ShowsFrom
  <2>2. CASE ~InCall(p)
    <3>1. l <= Len(T) /\ ~InCall(r) /\ r.skip = 0 /\ NoneOf(T, OpenTag, q, l) /\ r = ShownAt(T, q)
      BY <1>1, <1>3, <1>4, <1>5, <2>2
    <3> HIDE DEF l, r
    <3> DEFINE v == AddVisible(r.out, "text", Win(T, q, l))
               no == FALSE
    <3>2. ShownAt(T, l) = Shown(no, 0, <<>>, v)
      BY <1>1, <1>3, <3>1, ShowRun
    <3> HIDE DEF v, no
    <3>3. ShownAt(T, l).out = v
      BY <3>2, ShownFields
    <3>4. QED
      BY <1>3, <1>7, <2>2, <3>1, <3>3 DEF ShowsFrom, v
  <2>3. QED
    BY <2>1, <2>2
<1>9. kind \in ToolKinds
  BY DEF ToolKinds
<1> HIDE DEF kind, body
<1> DEFINE none == <<>>
           all == Given(kind, body)
<1>10. all = none \o Given(kind, body) /\ EventsOK(none, ToolKinds) /\ ParserEvents(t, none) = t
  <2>1. EventsOK(all, ToolKinds)
    BY <1>7, <1>9, OneEvent DEF Given
  <2>2. EventsOK(none, ToolKinds)
    BY EmptyIsList DEF EventsOK
  <2>3. none \o all = all
    <3> HIDE DEF all
    <3>1. QED
      BY <2>1, JoinsEmpty DEF EventsOK
  <2>4. QED
    BY <2>2, <2>3, NoEvents
<1> HIDE DEF none, all
<1>11. EventsOK(all, ToolKinds) /\ EventShown(t, ParserEvents(t, all), kind, body)
  BY <1>1, <1>7, <1>9, <1>10, GivenShows
<1>12. u = ParserEvents(t, all)
  BY <1>6 DEF all
<1>13. EventShown(t, u, kind, body) /\ Turns(t, u, N)
  BY <1>11, <1>12, EventsTurn
<1>14. SeenOf(u) = View(ShownAt(T, l).out, h)
  <2> HIDE DEF l
  <2>1. QED
    BY <1>2, <1>8, <1>13, ShownFrom
<1>15. QED
  BY <1>13, <1>14 DEF Turns, EventShown

-----------------------------------------------------------------------------
(* What comes out of a ThinkingParser that is fed.                         *)

LEMMA SecondPart ==
  ASSUME NEW a, NEW c, IsList(a), IsList(c), NEW b, b = a \o c
  PROVE  IsList(b) /\ Len(a) \in Nat /\ Len(a) <= Len(b) /\ Win(b, Len(a), Len(b)) = c
<1> DEFINE l == Len(a)
           m == Len(b)
           w == Win(b, l, m)
<1>1. /\ IsList(b) /\ l \in Nat /\ Len(c) \in Nat /\ m = l + Len(c)
      /\ \A i \in 1 .. l + Len(c) : b[i] = IF i <= l THEN a[i] ELSE c[i - l]
  BY Joins
<1>2. l <= m /\ m \in Nat /\ m <= Len(b) /\ m - l = Len(c)
  BY <1>1
<1>3. IsList(w) /\ Len(w) = m - l /\ \A i \in 1 .. m - l : w[i] = b[l + i]
  <2>1. IsList(b) /\ l \in Nat /\ m \in Nat /\ l <= m /\ m <= Len(b)
    BY <1>1, <1>2
  <2> HIDE DEF l, m
  <2>2. QED
    BY <2>1, WinFacts
<1> HIDE DEF w, l, m
<1>4. \A i \in 1 .. Len(c) : w[i] = c[i]
  <2> TAKE i \in 1 .. Len(c)
  <2>1. l + i \in 1 .. l + Len(c) /\ ~(l + i <= l) /\ (l + i) - l = i
    BY <1>1
  <2>2. QED
    BY <1>1, <1>2, <1>3, <2>1
<1>5. w = c
  BY <1>2, <1>3, <1>4, SameList
<1>6. QED
  BY <1>1, <1>2, <1>5 DEF w, l, m

\* The text outside of the thinking tags, and an adapter that has told the first q symbols.
OuterOf(T) == HeardAt(T, Len(T)).outer
HeardTold(T, t, q) == Told(OuterOf(T), t, Len(HeardAt(T, q).outer), HeardAt(T, q).inner)

NoReason(T) == \A i \in 1 .. Len(T) : T[i] # "reason"

LEMMA SpokenPart ==
  ASSUME NEW T, IsList(T), NoReason(T), NEW body, PartOf(T, body)
  PROVE  Spoken(body) = body
<1>1. PICK a, b \in Nat : a <= b /\ b <= Len(T) /\ body = Win(T, a, b)
  BY DEF PartOf
<1>2. /\ IsList(body) /\ Len(body) = b - a /\ Len(T) \in Nat
      /\ \A i \in 1 .. b - a : body[i] = T[a + i]
  BY <1>1, WinFacts
<1>3. ASSUME NEW i \in 1 .. Len(body) PROVE body[i] # "reason"
  <2>1. a + i \in 1 .. Len(T) /\ i \in 1 .. b - a
    BY <1>1, <1>2
  <2>2. QED
    BY <1>2, <2>1 DEF NoReason
<1>4. QED
  BY <1>2, <1>3, SpokenAll

\* The part of the text outside that comes between two of its beginnings.
OuterMore(T, q, k, body) == HeardAt(T, k).outer = HeardAt(T, q).outer \o body
IsPart(T, l, m, body) ==
  l \in Nat /\ m \in Nat /\ l <= m /\ IsList(T) /\ m <= Len(T) /\ body = Win(T, l, m)

LEMMA OuterPart ==
  ASSUME NEW T, IsList(T), NEW q \in 0 .. Len(T), NEW k \in 0 .. Len(T), NEW body, IsList(body),
         OuterMore(T, q, k, body)
  PROVE  IsPart(OuterOf(T), Len(HeardAt(T, q).outer), Len(HeardAt(T, k).outer), body)
<1> DEFINE a == HeardAt(T, q).outer
           b == HeardAt(T, k).outer
           all == OuterOf(T)
           l == Len(a)
           m == Len(b)
           z == 0
<1>1. IsList(a)
  BY OuterGrows
<1>2. /\ IsList(all) /\ IsList(b) /\ m \in Nat /\ Len(all) \in Nat /\ m <= Len(all)
      /\ b = Win(all, z, m)
  BY OuterGrows DEF OuterOf
<1>3. l \in Nat /\ l <= m /\ Win(b, l, m) = body
  <2>1. b = a \o body
    BY DEF OuterMore
  <2> HIDE DEF a, b
  <2>2. QED
    BY <1>1, <2>1, SecondPart
<1>4. z \in Nat /\ z <= m /\ m <= m - z /\ z + l = l /\ z + m = m
  BY <1>2, <1>3
<1> HIDE DEF a, b, all, l, m, z
<1>5. Win(Win(all, z, m), l, m) = Win(all, z + l, z + m)
  BY <1>2, <1>3, <1>4, WinWin
<1>6. body = Win(all, l, m)
  BY <1>2, <1>3, <1>4, <1>5
<1>7. QED
  BY <1>2, <1>3, <1>6 DEF a, b, all, l, m, IsPart

\* A run of text or of thinking, which is told.
PieceOf(t, kind, body) == IF kind = "thinking" THEN AddThinking(t, body) ELSE OllamaText(t, body)

LEMMA PieceTold ==
  ASSUME NEW T, IsList(T), NoReason(T), NEW q \in 0 .. Len(T), NEW k \in 0 .. Len(T),
         NEW kind, NEW body, Tells(T, q, k, kind, body), ~Openai,
         NEW t, NEW N, Good(t, N), HeardTold(T, t, q)
  PROVE  HeardTold(T, PieceOf(t, kind, body), k)
<1> DEFINE all == OuterOf(T)
           l == Len(HeardAt(T, q).outer)
           h == HeardAt(T, q).inner
<1>1. IsList(body) /\ PartOf(T, body) /\ Told(all, t, l, h)
  BY PartsAreLists DEF Tells, HeardTold
<1>2. CASE kind = "thinking"
  <2> DEFINE more == HeardAt(T, k).inner
  <2>1. more = h \o body /\ HeardAt(T, k).outer = HeardAt(T, q).outer
    BY <1>2 DEF Tells
  <2>2. Spoken(body) = body
    BY <1>1, SpokenPart
  <2> HIDE DEF all, l, h, more
  <2>3. more = h \o Spoken(body)
    BY <2>1, <2>2
  <2>4. Told(all, AddThinking(t, body), l, more)
    BY <1>1, <2>3, ThinkingTold
  <2>5. QED
    BY <1>2, <2>1, <2>4 DEF HeardTold, PieceOf, all, l, more
<1>3. CASE kind # "thinking"
  <2> DEFINE b == HeardAt(T, k).outer
             m == Len(b)
  <2>1. b = HeardAt(T, q).outer \o body /\ HeardAt(T, k).inner = h
    BY <1>3 DEF Tells
  <2>2. /\ l \in Nat /\ m \in Nat /\ l <= m /\ IsList(all) /\ m <= Len(all)
        /\ body = Win(all, l, m)
    <3>1. OuterMore(T, q, k, body) /\ IsList(body)
      BY <1>1, <2>1 DEF OuterMore
    <3>2. IsPart(OuterOf(T), Len(HeardAt(T, q).outer), Len(HeardAt(T, k).outer), body)
      BY <3>1, OuterPart
    <3>3. QED
      BY <3>2 DEF IsPart
  <2> HIDE DEF all, l, h, b, m
  <2>3. Told(all, OllamaText(t, body), m, h)
    BY <1>1, <2>2, OllamaTold
  <2>4. QED
    BY <1>3, <2>1, <2>3 DEF HeardTold, PieceOf, all, m, b
<1>4. QED
  BY <1>2, <1>3

\* One of no symbols is left out.
LEMMA NoPieceTold ==
  ASSUME NEW T, IsList(T), NEW q \in 0 .. Len(T), NEW k \in 0 .. Len(T),
         NEW kind, Tells(T, q, k, kind, <<>>), NEW t, HeardTold(T, t, q)
  PROVE  HeardTold(T, t, k)
<1> DEFINE a == HeardAt(T, q).outer
           b == HeardAt(T, q).inner
<1>1. IsList(a) /\ IsList(b)
  BY HeardIsOK DEF HeardOK
<1>2. a \o <<>> = a /\ b \o <<>> = b
  BY <1>1, JoinsEmpty
<1>3. HeardAt(T, k).outer = a /\ HeardAt(T, k).inner = b
  BY <1>2 DEF Tells
<1>4. QED
  BY <1>3 DEF HeardTold

LEMMA DrainThinkingUnfolds ==
  ASSUME NEW p, ThinkingParser(p)
  PROVE  /\ DrainThinking(p) = ThinkingDrain!At(p)[Len(p.buf) + 1] /\ Len(p.buf) \in Nat
         /\ ThinkingDrain!At(p)[0] = Pass(p, <<>>, FALSE)
         /\ \A n \in 1 .. Len(p.buf) + 1 : ThinkingDrain!At(p)[n] = ThinkingPass(ThinkingDrain!At(p)[n - 1])
<1> DEFINE N == Len(p.buf) + 1
           m == CHOOSE f : f = [n \in 0 .. N |->
                  IF n = 0 THEN Pass(p, <<>>, FALSE) ELSE ThinkingPass(f[n - 1])]
<1>1. Len(p.buf) \in Nat /\ N \in Nat /\ ThinkingSteps(p) = N
  BY ListFacts DEF ThinkingParser, ThinkingSteps
<1>2. m = [n \in 0 .. ThinkingSteps(p) |-> ThinkingDrain!Value(p, m, n)]
  <2> DEFINE Value(f, n) == IF n = 0 THEN Pass(p, <<>>, FALSE) ELSE ThinkingPass(f[n - 1])
  <2>1. \E f : f = [n \in 0 .. ThinkingSteps(p) |-> ThinkingDrain!Value(p, f, n)]
    BY <1>1, ThinkingDrain!Exists
  <2>2. ASSUME NEW f, NEW n PROVE ThinkingDrain!Value(p, f, n) = Value(f, n)
    BY DEF ThinkingDrain!Value, ThinkingStart, ThinkingStep
  <2>3. m = CHOOSE f : f = [n \in 0 .. N |-> Value(f, n)]
    OBVIOUS
  <2> HIDE DEF m, Value
  <2>4. \E f : f = [n \in 0 .. N |-> Value(f, n)]
    BY <1>1, <2>1, <2>2
  <2>5. m = [n \in 0 .. N |-> Value(m, n)]
    BY <2>3, <2>4
  <2>6. QED
    BY <1>1, <2>2, <2>5
<1>3. DrainThinking(p) = m[N]
  BY DEF DrainThinking
<1> HIDE DEF m, N
<1>4. \A n \in 0 .. ThinkingSteps(p) : m[n] = ThinkingDrain!At(p)[n]
  BY <1>1, <1>2, ThinkingDrain!Same
<1>5. /\ ThinkingDrain!At(p)[0] = ThinkingStart(p)
      /\ \A n \in 1 .. ThinkingSteps(p) : ThinkingDrain!At(p)[n] = ThinkingStep(p, ThinkingDrain!At(p)[n - 1], n)
  BY <1>1, ThinkingDrain!Unfolds
<1>6. N \in 0 .. ThinkingSteps(p)
  BY <1>1
<1>7. QED
  BY <1>1, <1>3, <1>4, <1>5, <1>6 DEF ThinkingStart, ThinkingStep, N

\* A piece changes nothing of the parser it comes from.
LEMMA PieceKeeps ==
  ASSUME NEW t, NEW N, Good(t, N), NEW e, IsList(e.body)
  PROVE  OllamaPiece(t, e).thinking = t.thinking
<1>1. CASE e.kind = "thinking"
  BY <1>1, AddingThinking DEF OllamaPiece, Turns
<1>2. CASE e.kind # "thinking"
  <2> DEFINE u == CloseThinking(t)
             body == e.body
             fed == FeedToolText(u.tool, body)
             v == [u EXCEPT !.tool = fed.parser]
  <2>1. Good(u, N) /\ u.thinking = t.thinking
    BY ClosingThinking DEF Turns
  <2>2. OllamaPiece(t, e) = IF setup.native THEN AddText(u, body) ELSE OllamaEvents(v, fed.events)
    BY <1>2 DEF OllamaPiece, OllamaText
  <2> HIDE DEF u
  <2>3. ToolHeld(fed.parser) /\ EventsOK(fed.events, ToolKinds) /\ Shape(u)
    BY <2>1, Feeding DEF Good, Shape
  <2> HIDE DEF fed
  <2>4. Good(v, N) /\ v.thinking = u.thinking
    BY <2>1, <2>3, OtherParsers, OtherTool DEF Moves
  <2> HIDE DEF v
  <2>5. OllamaEvents(v, fed.events).thinking = v.thinking
    BY <2>3, <2>4, OllamaEventsTurn DEF Turns
  <2>6. AddText(u, body).thinking = u.thinking
    BY <2>1, AddingText DEF Turns
  <2>7. QED
    BY <2>1, <2>2, <2>4, <2>5, <2>6
<1>3. QED
  BY <1>1, <1>2

\* The pieces so far have told what is heard of T, which is read up to e.
PiecesTold(T, t, N, x, e) ==
  /\ EventsOK(x.events, ThinkingKinds) /\ Good(OllamaPieces(t, x.events), N)
  /\ OllamaPieces(t, x.events).thinking = t.thinking
  /\ \E q : ReadTo(T, x.parser, q, e) /\ HeardTold(T, OllamaPieces(t, x.events), q)

\* One piece more.
MorePieces(all, events, kind, body) == all = events \o Chunk(kind, body)

LEMMA ChunkTold ==
  ASSUME NEW T, IsList(T), NoReason(T), NEW q \in 0 .. Len(T), NEW k \in 0 .. Len(T),
         NEW kind \in ThinkingKinds, NEW body, Tells(T, q, k, kind, body), ~Openai,
         NEW t, NEW N, NEW events, EventsOK(events, ThinkingKinds),
         Good(OllamaPieces(t, events), N), HeardTold(T, OllamaPieces(t, events), q),
         NEW all, MorePieces(all, events, kind, body)
  PROVE  /\ EventsOK(all, ThinkingKinds) /\ Good(OllamaPieces(t, all), N)
         /\ OllamaPieces(t, all).thinking = OllamaPieces(t, events).thinking
         /\ HeardTold(T, OllamaPieces(t, all), k)
<1> DEFINE u == OllamaPieces(t, events)
<1>1. IsList(body) /\ IsList(events)
  BY PartsAreLists DEF Tells, EventsOK
<1>2. EventsOK(all, ThinkingKinds)
  <2> DEFINE g == Chunk(kind, body)
  <2>1. EventsOK(g, ThinkingKinds)
    BY <1>1, OneEvent
  <2>2. all = events \o g
    BY DEF MorePieces
  <2> HIDE DEF g
  <2>3. QED
    BY <2>1, <2>2, MoreEvents
<1>3. CASE body = <<>>
  <2>1. all = events
    BY <1>1, <1>3, JoinsEmpty DEF MorePieces, Chunk
  <2> HIDE DEF u
  <2>2. Tells(T, q, k, kind, <<>>)
    BY <1>3
  <2>3. HeardTold(T, u, k)
    BY <2>2, NoPieceTold DEF u
  <2>4. QED
    BY <1>2, <2>1, <2>3 DEF u
<1>4. CASE body # <<>>
  <2> DEFINE e == Event(kind, body)
             w == OllamaPiece(u, e)
  <2>1. e.kind = kind /\ e.body = body
    BY EventFields
  <2>2. all = Adds(events, e)
    BY <1>4 DEF MorePieces, Chunk, Adds
  <2> HIDE DEF e
  <2>3. OllamaPieces(t, all) = w
    BY <1>1, <2>2, PieceMore
  <2>4. w = PieceOf(u, kind, body)
    BY <2>1 DEF OllamaPiece, PieceOf
  <2>5. Good(w, N) /\ w.thinking = u.thinking
    BY <1>1, <2>1, OllamaPieceMoves, PieceKeeps DEF Moves
  <2> HIDE DEF u, w
  <2>6. HeardTold(T, PieceOf(u, kind, body), k)
    BY PieceTold DEF u
  <2>7. QED
    BY <1>2, <2>3, <2>4, <2>5, <2>6 DEF u
<1>5. QED
  BY <1>3, <1>4

LEMMA ReadsUpTo ==
  ASSUME NEW T, IsList(T), NEW e \in Nat, e <= Len(T), NEW p, NEW q, ReadTo(T, p, q, e)
  PROVE  q \in 0 .. Len(T)
<1>1. q \in Nat /\ q <= e /\ Len(T) \in Nat
  BY ListFacts DEF ReadTo
<1>2. QED
  BY <1>1

LEMMA ThinkingPassTells ==
  ASSUME NEW T, IsList(T), NoReason(T), NEW e \in Nat, e <= Len(T), ~Openai,
         NEW t, NEW N, NEW x, PiecesTold(T, t, N, x, e)
  PROVE  PiecesTold(T, t, N, ThinkingPass(x), e)
<1>1. CASE x.over
  <2>1. ThinkingPass(x) = x
    BY <1>1 DEF ThinkingPass
  <2>2. QED
    BY <2>1
<1>2. CASE ~x.over
  <2> DEFINE y == ThinkingPass(x)
             events == x.events
             all == y.events
  <2>1. /\ EventsOK(events, ThinkingKinds) /\ Good(OllamaPieces(t, events), N)
        /\ OllamaPieces(t, events).thinking = t.thinking
        /\ \E q : ReadTo(T, x.parser, q, e) /\ HeardTold(T, OllamaPieces(t, events), q)
    BY DEF PiecesTold
  <2>2. PICK q : ReadTo(T, x.parser, q, e) /\ HeardTold(T, OllamaPieces(t, events), q)
    BY <2>1
  <2>3. PICK k, kind, body :
          /\ k \in Nat /\ q <= k /\ ReadTo(T, y.parser, k, e)
          /\ kind \in ThinkingKinds /\ Tells(T, q, k, kind, body)
          /\ y.events = x.events \o Chunk(kind, body)
    <3>1. PassHears(T, x, y, q, e)
      BY <1>2, <2>2, ThinkingPassReads
    <3>2. QED
      BY <3>1 DEF PassHears
  <2>4. MorePieces(all, events, kind, body)
    BY <2>3 DEF MorePieces
  <2>5. q \in 0 .. Len(T) /\ k \in 0 .. Len(T)
    BY <2>2, <2>3, ReadsUpTo
  <2> HIDE DEF y, events, all
  <2>6. /\ EventsOK(all, ThinkingKinds) /\ Good(OllamaPieces(t, all), N)
        /\ OllamaPieces(t, all).thinking = OllamaPieces(t, events).thinking
        /\ HeardTold(T, OllamaPieces(t, all), k)
    <3>1. kind \in ThinkingKinds /\ Tells(T, q, k, kind, body)
      BY <2>3
    <3>2. QED
      BY <2>1, <2>2, <2>4, <2>5, <3>1, ChunkTold
  <2>7. QED
    BY <2>1, <2>3, <2>6 DEF PiecesTold, all, y
<1>3. QED
  BY <1>1, <1>2

LEMMA DrainThinkingTells ==
  ASSUME NEW T, IsList(T), NoReason(T), NEW e \in Nat, e <= Len(T), ~Openai,
         NEW t, NEW N, NEW p, ThinkingParser(p), PiecesTold(T, t, N, Pass(p, <<>>, FALSE), e)
  PROVE  PiecesTold(T, t, N, DrainThinking(p), e)
<1> DEFINE l == Len(p.buf) + 1
           S == {n \in Nat : n <= l => PiecesTold(T, t, N, ThinkingDrain!At(p)[n], e)}
<1>0. Len(p.buf) \in Nat /\ l \in Nat
  BY ListFacts DEF ThinkingParser
<1>1. /\ DrainThinking(p) = ThinkingDrain!At(p)[l] /\ l \in Nat
      /\ ThinkingDrain!At(p)[0] = Pass(p, <<>>, FALSE)
      /\ \A n \in 1 .. l : ThinkingDrain!At(p)[n] = ThinkingPass(ThinkingDrain!At(p)[n - 1])
  BY <1>0, DrainThinkingUnfolds
<1> HIDE DEF l
<1>2. 0 \in S
  BY <1>1
<1>3. ASSUME NEW n \in S PROVE n + 1 \in S
  <2>1. CASE n + 1 <= l
    <3> DEFINE x == ThinkingDrain!At(p)[n]
               y == ThinkingDrain!At(p)[n + 1]
    <3>1. n \in Nat /\ n <= l /\ n + 1 \in 1 .. l /\ (n + 1) - 1 = n
      BY <1>1, <2>1
    <3>2. PiecesTold(T, t, N, x, e) /\ y = ThinkingPass(x)
      BY <1>1, <3>1
    <3> HIDE DEF x, y
    <3>3. PiecesTold(T, t, N, y, e)
      BY <3>2, ThinkingPassTells
    <3>4. QED
      BY <3>1, <3>3 DEF y
  <2>2. CASE ~(n + 1 <= l)
    BY <2>2
  <2>3. QED
    BY <2>1, <2>2
<1>4. S \in SUBSET Nat
  OBVIOUS
<1>5. l \in S
  <2> HIDE DEF S
  <2>1. QED
    BY <1>1, <1>2, <1>3, <1>4, ThinkingDrain!Stepwise
<1>6. QED
  BY <1>1, <1>5

\* The buffer with more of the text.
WithMore(p, text) == [p EXCEPT !.buf = @ \o text]

LEMMA ReadToMore ==
  ASSUME NEW T, IsList(T), NEW e \in Nat, NEW f \in Nat, e <= f, f <= Len(T),
         NEW p, ThinkingParser(p), NEW q, ReadTo(T, p, q, e)
  PROVE  ThinkingParser(WithMore(p, Win(T, e, f))) /\ ReadTo(T, WithMore(p, Win(T, e, f)), q, f)
<1> DEFINE body == Win(T, e, f)
           buf == p.buf \o body
           close == p.close
           r == WithMore(p, body)
<1>1. /\ q \in Nat /\ q <= e /\ p.buf = Win(T, q, e) /\ p = [close |-> close, buf |-> p.buf]
      /\ IsList(p.buf) /\ (close # NoTag => Len(close) = 3)
  BY DEF ReadTo, ThinkingParser
<1>2. Win(T, q, e) \o Win(T, e, f) = Win(T, q, f)
  BY <1>1, WinJoin
<1>3. q <= f
  BY <1>1
<1>4. buf = Win(T, q, f)
  BY <1>1, <1>2
<1>5. IsList(buf)
  <2>1. IsList(body)
    BY WinFacts
  <2> HIDE DEF body
  <2>2. QED
    BY <1>1, <2>1, Joins
<1>6. r = [close |-> close, buf |-> buf]
  <2>1. r = [p EXCEPT !.buf = buf]
    BY DEF WithMore
  <2> HIDE DEF buf, r, close
  <2>2. [[close |-> close, buf |-> p.buf] EXCEPT !.buf = buf] = [close |-> close, buf |-> buf]
    OBVIOUS
  <2>3. QED
    BY <1>1, <2>1, <2>2
<1>7. close = HeardAt(T, q).close /\ HeardAt(T, q).skip = 0
  BY DEF ReadTo
<1> HIDE DEF r, buf, close
<1>8. r.close = close /\ r.buf = buf
  BY <1>6
<1>9. ThinkingParser(r)
  BY <1>1, <1>5, <1>6, <1>8 DEF ThinkingParser
<1>10. ReadTo(T, r, q, f)
  BY <1>1, <1>3, <1>4, <1>7, <1>8 DEF ReadTo
<1>11. QED
  BY <1>9, <1>10 DEF r

\* A piece of the text, as ollama takes it in.
WithThinking(t, p) == [t EXCEPT !.thinking = p]
HearsSoFar(T, t, e) == \E q : ReadTo(T, t.thinking, q, e) /\ HeardTold(T, t, q)

LEMMA OllamaHears ==
  ASSUME NEW T, IsList(T), NoReason(T), NEW e \in Nat, NEW f \in Nat, e <= f, f <= Len(T), ~Openai,
         NEW t, NEW N, Good(t, N), HearsSoFar(T, t, e),
         NEW fed, fed = FeedThinking(t.thinking, Win(T, e, f))
  PROVE  HearsSoFar(T, OllamaPieces(WithThinking(t, fed.parser), fed.events), f)
<1> DEFINE p == t.thinking
           body == Win(T, e, f)
           r == WithMore(p, body)
           t0 == WithThinking(t, fed.parser)
           u == OllamaPieces(t0, fed.events)
<1>1. Shape(t) /\ ThinkingHeld(p) /\ ThinkingParser(p)
  BY DEF Good, Shape, ThinkingHeld
<1>2. PICK q : ReadTo(T, p, q, e) /\ HeardTold(T, t, q)
  BY DEF HearsSoFar
<1>3. ThinkingParser(r) /\ ReadTo(T, r, q, f)
  <2> HIDE DEF p
  <2>1. QED
    BY <1>1, <1>2, ReadToMore
<1>4. fed = DrainThinking(r)
  BY DEF FeedThinking, WithMore
<1>5. IsList(body)
  BY WinFacts
<1>6. ThinkingHeld(fed.parser)
  BY <1>1, <1>5, Feeding
<1> HIDE DEF r
<1>7. Good(t0, N) /\ t0.thinking = fed.parser /\ t0.tool = t.tool
  <2>1. Moves(t, t0, N)
    BY <1>6, OtherParsers DEF WithThinking
  <2>2. t0.thinking = fed.parser /\ t0.tool = t.tool
    BY <1>1, <1>6, OtherThinking DEF WithThinking
  <2> HIDE DEF t0
  <2>3. QED
    BY <2>1, <2>2 DEF Moves
<1>8. t0.blocks = t.blocks /\ t0.text = t.text /\ t0.think = t.think
  BY <1>1, <1>6, OtherThinking DEF WithThinking
<1> HIDE DEF t0
<1>9. Ordered(t) => Calm(t, t0)
  BY <1>8, OtherCalm
<1>10. HeardTold(T, t0, q)
  <2>1. Ordered(t)
    BY <1>2 DEF HeardTold, Told
  <2>2. QED
    BY <1>2, <1>7, <1>9, <2>1, CalmTold DEF HeardTold
<1> DEFINE x == Pass(r, <<>>, FALSE)
<1>11. x.parser = r /\ x.events = <<>>
  BY DEF Pass
<1>12. PiecesTold(T, t0, N, x, f)
  <2>1. EventsOK(<<>>, ThinkingKinds)
    BY EmptyIsList DEF EventsOK
  <2>2. OllamaPieces(t0, <<>>) = t0
    BY PieceNone
  <2> HIDE DEF x
  <2>3. QED
    BY <1>3, <1>7, <1>10, <1>11, <2>1, <2>2 DEF PiecesTold
<1>13. PiecesTold(T, t0, N, DrainThinking(r), f)
  BY <1>3, <1>12, DrainThinkingTells
<1>14. PiecesTold(T, t0, N, fed, f)
  BY <1>4, <1>13
<1>15. u.thinking = fed.parser /\ \E k : ReadTo(T, fed.parser, k, f) /\ HeardTold(T, u, k)
  BY <1>7, <1>14 DEF PiecesTold
<1>16. QED
  BY <1>15 DEF HearsSoFar, t0

\* openai goes on with inline thinking as long as nothing comes out of the parser.
QuietTold(T, t, x, e) ==
  IsList(x.events) /\ \E q : ReadTo(T, x.parser, q, e) /\ (x.events = <<>> => HeardTold(T, t, q))

LEMMA QuietPassTells ==
  ASSUME NEW T, IsList(T), NEW e \in Nat, e <= Len(T), NEW t, NEW x, QuietTold(T, t, x, e)
  PROVE  QuietTold(T, t, ThinkingPass(x), e)
<1>1. CASE x.over
  <2>1. ThinkingPass(x) = x
    BY <1>1 DEF ThinkingPass
  <2>2. QED
    BY <2>1
<1>2. CASE ~x.over
  <2> DEFINE y == ThinkingPass(x)
             events == x.events
             all == y.events
  <2>1. IsList(events) /\ \E q : ReadTo(T, x.parser, q, e) /\ (events = <<>> => HeardTold(T, t, q))
    BY DEF QuietTold
  <2>2. PICK q : ReadTo(T, x.parser, q, e) /\ (events = <<>> => HeardTold(T, t, q))
    BY <2>1
  <2>3. PICK k, kind, body :
          /\ k \in Nat /\ q <= k /\ ReadTo(T, y.parser, k, e)
          /\ kind \in ThinkingKinds /\ Tells(T, q, k, kind, body)
          /\ y.events = x.events \o Chunk(kind, body)
    <3>1. PassHears(T, x, y, q, e)
      BY <1>2, <2>2, ThinkingPassReads
    <3>2. QED
      BY <3>1 DEF PassHears
  <2> DEFINE g == Chunk(kind, body)
  <2>4. IsList(g) /\ (g = <<>> => body = <<>>)
    BY EmptyIsList, OneIsList DEF Chunk
  <2>5. all = events \o g
    BY <2>3
  <2>6. q \in 0 .. Len(T) /\ k \in 0 .. Len(T)
    BY <2>2, <2>3, ReadsUpTo
  <2> HIDE DEF y, events, all, g
  <2>7. IsList(all) /\ (all = <<>> => events = <<>> /\ g = <<>>)
    <3>1. IsList(all) /\ Len(events) \in Nat /\ Len(g) \in Nat /\ Len(all) = Len(events) + Len(g)
      BY <2>1, <2>4, <2>5, Joins
    <3>2. all = <<>> => Len(events) = 0 /\ Len(g) = 0
      BY <3>1, EmptyIsList
    <3>3. QED
      BY <2>1, <2>4, <3>1, <3>2, EmptyHasNone
  <2>8. all = <<>> => HeardTold(T, t, k)
    <3> SUFFICES ASSUME all = <<>> PROVE HeardTold(T, t, k)
      OBVIOUS
    <3>1. HeardTold(T, t, q) /\ body = <<>>
      BY <2>2, <2>4, <2>7
    <3>2. Tells(T, q, k, kind, <<>>)
      BY <2>3, <3>1
    <3>3. QED
      BY <2>6, <3>1, <3>2, NoPieceTold
  <2>9. QED
    BY <2>3, <2>7, <2>8 DEF QuietTold, all, y
<1>3. QED
  BY <1>1, <1>2

LEMMA QuietDrainTells ==
  ASSUME NEW T, IsList(T), NEW e \in Nat, e <= Len(T), NEW t,
         NEW p, ThinkingParser(p), QuietTold(T, t, Pass(p, <<>>, FALSE), e)
  PROVE  QuietTold(T, t, DrainThinking(p), e)
<1> DEFINE l == Len(p.buf) + 1
           S == {n \in Nat : n <= l => QuietTold(T, t, ThinkingDrain!At(p)[n], e)}
<1>0. Len(p.buf) \in Nat /\ l \in Nat
  BY ListFacts DEF ThinkingParser
<1>1. /\ DrainThinking(p) = ThinkingDrain!At(p)[l] /\ l \in Nat
      /\ ThinkingDrain!At(p)[0] = Pass(p, <<>>, FALSE)
      /\ \A n \in 1 .. l : ThinkingDrain!At(p)[n] = ThinkingPass(ThinkingDrain!At(p)[n - 1])
  BY <1>0, DrainThinkingUnfolds
<1> HIDE DEF l
<1>2. 0 \in S
  BY <1>1
<1>3. ASSUME NEW n \in S PROVE n + 1 \in S
  <2>1. CASE n + 1 <= l
    <3> DEFINE x == ThinkingDrain!At(p)[n]
               y == ThinkingDrain!At(p)[n + 1]
    <3>1. n \in Nat /\ n <= l /\ n + 1 \in 1 .. l /\ (n + 1) - 1 = n
      BY <1>1, <2>1
    <3>2. QuietTold(T, t, x, e) /\ y = ThinkingPass(x)
      BY <1>1, <3>1
    <3> HIDE DEF x, y
    <3>3. QuietTold(T, t, y, e)
      BY <3>2, QuietPassTells
    <3>4. QED
      BY <3>1, <3>3 DEF y
  <2>2. CASE ~(n + 1 <= l)
    BY <2>2
  <2>3. QED
    BY <2>1, <2>2
<1>4. S \in SUBSET Nat
  OBVIOUS
<1>5. l \in S
  <2> HIDE DEF S
  <2>1. QED
    BY <1>1, <1>2, <1>3, <1>4, ThinkingDrain!Stepwise
<1>6. QED
  BY <1>1, <1>5

LEMMA OpenaiHears ==
  ASSUME NEW T, IsList(T), NEW e \in Nat, NEW f \in Nat, e <= f, f <= Len(T),
         NEW t, NEW N, Good(t, N), HearsSoFar(T, t, e),
         NEW fed, fed = FeedThinking(t.thinking, Win(T, e, f)), fed.events = <<>>
  PROVE  HearsSoFar(T, WithThinking(t, fed.parser), f)
<1> DEFINE p == t.thinking
           body == Win(T, e, f)
           r == WithMore(p, body)
           t0 == WithThinking(t, fed.parser)
<1>1. Shape(t) /\ ThinkingHeld(p) /\ ThinkingParser(p)
  BY DEF Good, Shape, ThinkingHeld
<1>2. PICK q : ReadTo(T, p, q, e) /\ HeardTold(T, t, q)
  BY DEF HearsSoFar
<1>3. ThinkingParser(r) /\ ReadTo(T, r, q, f)
  <2> HIDE DEF p
  <2>1. QED
    BY <1>1, <1>2, ReadToMore
<1>4. fed = DrainThinking(r)
  BY DEF FeedThinking, WithMore
<1>5. IsList(body)
  BY WinFacts
<1>6. ThinkingHeld(fed.parser)
  BY <1>1, <1>5, Feeding
<1> HIDE DEF r
<1>7. t0.thinking = fed.parser /\ t0.tool = t.tool
  BY <1>1, <1>6, OtherThinking DEF WithThinking
<1>8. t0.blocks = t.blocks /\ t0.text = t.text /\ t0.think = t.think
  BY <1>1, <1>6, OtherThinking DEF WithThinking
<1> HIDE DEF t0
<1>9. Ordered(t) => Calm(t, t0)
  BY <1>8, OtherCalm
<1>10. HeardTold(T, t0, q)
  <2>1. Ordered(t)
    BY <1>2 DEF HeardTold, Told
  <2>2. QED
    BY <1>2, <1>7, <1>9, <2>1, CalmTold DEF HeardTold
<1> DEFINE x == Pass(r, <<>>, FALSE)
<1>11. x.parser = r /\ x.events = <<>>
  BY DEF Pass
<1>12. QuietTold(T, t0, x, f)
  <2>1. IsList(<<>>)
    BY EmptyIsList
  <2> HIDE DEF x
  <2>2. QED
    BY <1>3, <1>10, <1>11, <2>1 DEF QuietTold
<1>13. QuietTold(T, t0, DrainThinking(r), f)
  BY <1>3, <1>12, QuietDrainTells
<1>14. QuietTold(T, t0, fed, f)
  BY <1>4, <1>13
<1>15. \E k : ReadTo(T, fed.parser, k, f) /\ HeardTold(T, t0, k)
  BY <1>14 DEF QuietTold
<1>16. QED
  BY <1>7, <1>15 DEF HearsSoFar, t0

\* At the end of the text no tag can be in what is held back.
LEMMA NothingHeldBack ==
  ASSUME NEW T, IsList(T), NEW p, ThinkingHeld(p), NEW q, ReadTo(T, p, q, Len(T))
  PROVE  NoneIn(T, HeardAt(T, q).close, q, Len(T))
<1> DEFINE l == Len(T)
<1>0. l \in Nat /\ l <= Len(T)
  BY ListFacts
<1>1. q \in Nat /\ q <= l /\ p.buf = Win(T, q, l)
  BY DEF ReadTo
<1>2. Len(p.buf) < 3
  BY DEF ThinkingHeld
<1>3. Len(Win(T, q, l)) = l - q
  <2> HIDE DEF l
  <2>1. QED
    BY <1>0, <1>1, WinFacts
<1>4. l - q < 3
  BY <1>1, <1>2, <1>3
<1>5. \A tag : \A n \in q + 1 .. l : ~TagAt(T, n, tag)
  <2> SUFFICES ASSUME NEW tag, NEW n \in q + 1 .. l, TagAt(T, n, tag) PROVE FALSE
    OBVIOUS
  <2>1. n + 2 <= l
    BY DEF TagAt
  <2> HIDE DEF l
  <2>2. QED
    BY <1>0, <1>1, <1>4, <2>1
<1>6. QED
  BY <1>5 DEF NoneIn

\* The end of the text: what a ThinkingParser holds back comes out.
LEMMA ThinkingFlushTold ==
  ASSUME NEW T, IsList(T), NoReason(T), ~Openai,
         NEW t, NEW N, Good(t, N), HearsSoFar(T, t, Len(T)),
         NEW u, u = OllamaPieces(t, FinalizeThinking(t.thinking))
  PROVE  Good(u, N) /\ HeardTold(T, u, Len(T))
<1> DEFINE p == t.thinking
           l == Len(T)
           close == p.close
           kind == IF close = NoTag THEN "text" ELSE "thinking"
           body == p.buf
           all == FinalizeThinking(p)
<1>0. l \in Nat /\ l <= Len(T) /\ l \in 0 .. Len(T)
  BY ListFacts
<1>1. ThinkingHeld(p) /\ IsList(body)
  BY DEF Good, Shape, ThinkingHeld, ThinkingParser
<1>2. PICK q : ReadTo(T, p, q, Len(T)) /\ HeardTold(T, t, q)
  BY DEF HearsSoFar
<1>3. NoneIn(T, HeardAt(T, q).close, q, Len(T))
  BY <1>1, <1>2, NothingHeldBack
<1>4. /\ q \in Nat /\ q <= l /\ HeardAt(T, q).skip = 0 /\ close = HeardAt(T, q).close
      /\ body = Win(T, q, l) /\ q \in 0 .. Len(T)
  <2>1. /\ q \in Nat /\ q <= l /\ HeardAt(T, q).skip = 0 /\ close = HeardAt(T, q).close
        /\ body = Win(T, q, l)
    BY <1>2 DEF ReadTo
  <2> HIDE DEF l
  <2>2. QED
    BY <1>0, <2>1 DEF l
<1>5. Tells(T, q, Len(T), kind, body)
  <2>1. NoneIn(T, HeardAt(T, q).close, q, l)
    BY <1>3
  <2> HIDE DEF l
  <2>2. Tells(T, q, l, IF HeardAt(T, q).close = NoTag THEN "text" ELSE "thinking", Win(T, q, l))
    BY <1>0, <1>4, <2>1, TellsRun
  <2>3. QED
    BY <1>4, <2>2 DEF l
<1>6. kind \in ThinkingKinds
  BY DEF ThinkingKinds
<1>7. MorePieces(all, <<>>, kind, body)
  <2> DEFINE g == Chunk(kind, body)
  <2>1. all = g
    BY DEF FinalizeThinking
  <2>2. IsList(g)
    BY EmptyIsList, OneIsList DEF Chunk
  <2> HIDE DEF g
  <2>3. <<>> \o g = g
    BY <2>2, JoinsEmpty
  <2>4. QED
    BY <2>1, <2>3 DEF MorePieces, g
<1>8. EventsOK(<<>>, ThinkingKinds)
  BY EmptyIsList DEF EventsOK
<1>9. OllamaPieces(t, <<>>) = t
  BY PieceNone
<1>10. Good(OllamaPieces(t, <<>>), N) /\ HeardTold(T, OllamaPieces(t, <<>>), q)
  BY <1>2, <1>9
<1>11. Good(OllamaPieces(t, all), N) /\ HeardTold(T, OllamaPieces(t, all), Len(T))
  <2>1. Len(T) \in 0 .. Len(T)
    BY <1>0
  <2> HIDE DEF kind, body, all, l
  <2>2. QED
    BY <1>4, <1>5, <1>6, <1>7, <1>8, <1>10, <2>1, ChunkTold
<1>12. QED
  BY <1>11

-----------------------------------------------------------------------------
(* The words of a text, and where each of them is.                         *)

PlainWords(words) == IsList(words) /\ \A i \in 1 .. Len(words) : words[i] \notin {"tool_call", "reason"}

\* The text of the first n words, and its length.
Upto(words, n) == Spelling!At(words)[n]
WordEnd(words, n) == Len(Upto(words, n))

LEMMA SpelledUnfolds ==
  ASSUME NEW words, Len(words) \in Nat
  PROVE  Spelled(words) = Upto(words, Len(words))
<1> DEFINE m == CHOOSE f : f = [n \in 0 .. Len(words) |->
                  IF n = 0 THEN <<>> ELSE f[n - 1] \o Symbols(words[n])]
<1>1. SpelledSteps(words) \in Nat /\ SpelledSteps(words) = Len(words)
  BY DEF SpelledSteps
<1>2. m = [n \in 0 .. SpelledSteps(words) |-> Spelling!Value(words, m, n)]
  <2>1. \E f : f = [n \in 0 .. SpelledSteps(words) |-> Spelling!Value(words, f, n)]
    BY <1>1, Spelling!Exists
  <2> DEFINE g == CHOOSE f : f = [n \in 0 .. SpelledSteps(words) |-> Spelling!Value(words, f, n)]
  <2>2. g = [n \in 0 .. SpelledSteps(words) |-> Spelling!Value(words, g, n)]
    BY <2>1
  <2>3. m = g
    BY DEF Spelling!Value, SpelledStart, SpelledStep, SpelledSteps
  <2> HIDE DEF m, g
  <2>4. QED
    BY <2>2, <2>3
<1>3. Spelled(words) = m[Len(words)]
  BY DEF Spelled
<1> HIDE DEF m
<1>4. \A n \in 0 .. SpelledSteps(words) : m[n] = Spelling!At(words)[n]
  BY <1>1, <1>2, Spelling!Same
<1>5. QED
  BY <1>1, <1>3, <1>4 DEF Upto

LEMMA SpellingOn ==
  ASSUME NEW words, IsList(words)
  PROVE  /\ Upto(words, 0) = <<>>
         /\ \A n \in 1 .. Len(words) : Upto(words, n) = Upto(words, n - 1) \o Symbols(words[n])
         /\ \A n \in 0 .. Len(words) : IsList(Upto(words, n))
<1>1. SpelledSteps(words) \in Nat /\ SpelledSteps(words) = Len(words)
  BY ListFacts DEF SpelledSteps
<1>2. /\ Spelling!At(words)[0] = SpelledStart(words)
      /\ \A n \in 1 .. SpelledSteps(words) : Spelling!At(words)[n] = SpelledStep(words, Spelling!At(words)[n - 1], n)
  BY <1>1, Spelling!Unfolds
<1>3. SpelledHolds(words, SpelledStart(words), 0)
  BY EmptyIsList DEF SpelledHolds, SpelledStart
<1>4. \A x, n : n \in 1 .. SpelledSteps(words) /\ SpelledHolds(words, x, n - 1)
                  => SpelledHolds(words, SpelledStep(words, x, n), n)
  BY Joins, SymbolsAreList DEF SpelledHolds, SpelledStep
<1>5. \A n \in 0 .. SpelledSteps(words) : SpelledHolds(words, Spelling!At(words)[n], n)
  BY <1>1, <1>3, <1>4, Spelling!Keeping
<1>6. QED
  BY <1>1, <1>2, <1>5 DEF SpelledStart, SpelledStep, SpelledHolds, Upto

\* One word more.
LEMMA UptoNext ==
  ASSUME NEW words, IsList(words), NEW n \in Nat, n + 1 <= Len(words)
  PROVE  /\ IsList(Upto(words, n)) /\ IsList(Upto(words, n + 1)) /\ WordEnd(words, n) \in Nat
         /\ WordEnd(words, n + 1) \in Nat
         /\ Upto(words, n + 1) = Upto(words, n) \o Symbols(words[n + 1])
         /\ WordEnd(words, n + 1) = WordEnd(words, n) + Len(Symbols(words[n + 1]))
         /\ WordEnd(words, n) <= WordEnd(words, n + 1)
         /\ Win(Upto(words, n + 1), 0, WordEnd(words, n)) = Upto(words, n)
         /\ Win(Upto(words, n + 1), WordEnd(words, n), WordEnd(words, n + 1)) = Symbols(words[n + 1])
<1> DEFINE a == Upto(words, n)
           b == Upto(words, n + 1)
           c == Symbols(words[n + 1])
<1>1. Len(words) \in Nat
  BY ListFacts
<1>2. n + 1 \in 1 .. Len(words) /\ (n + 1) - 1 = n /\ n \in 0 .. Len(words) /\ n + 1 \in 0 .. Len(words)
  BY <1>1
<1>3. b = a \o c /\ IsList(a) /\ IsList(b)
  BY <1>2, SpellingOn
<1>4. IsList(c)
  BY SymbolsAreList
<1> HIDE DEF a, b, c
<1>5. Len(a) \in Nat /\ Len(c) \in Nat /\ Len(b) = Len(a) + Len(c)
  BY <1>3, <1>4, Joins
<1>6. Win(b, 0, Len(a)) = a
  BY <1>3, <1>4, FirstPart
<1>7. Win(b, Len(a), Len(b)) = c
  BY <1>3, <1>4, SecondPart
<1>8. Len(b) \in Nat /\ Len(a) <= Len(b)
  BY <1>5
<1>9. QED
  BY <1>3, <1>5, <1>6, <1>7, <1>8 DEF WordEnd, a, b, c

\* The text begins with that of the first words.
LEMMA UptoIsFirst ==
  ASSUME NEW words, IsList(words), NEW n \in 0 .. Len(words)
  PROVE  /\ WordEnd(words, n) \in Nat /\ WordEnd(words, n) <= Len(Spelled(words))
         /\ Win(Spelled(words), 0, WordEnd(words, n)) = Upto(words, n)
<1> DEFINE T == Spelled(words)
           l == Len(words)
           First(k) == /\ WordEnd(words, k) \in Nat /\ WordEnd(words, k) <= Len(T)
                       /\ Win(T, 0, WordEnd(words, k)) = Upto(words, k)
           S == {d \in Nat : d <= l => First(l - d)}
<1>1. l \in Nat
  BY ListFacts
<1>2. T = Upto(words, l) /\ IsList(T)
  BY <1>1, SpelledUnfolds, SpelledIsList
<1>3. 0 \in S
  <2> DEFINE z == 0
  <2>1. l - z = l
    BY <1>1
  <2>2. WordEnd(words, l) = Len(T) /\ Len(T) \in Nat /\ Len(T) <= Len(T)
    BY <1>2, ListFacts DEF WordEnd
  <2>3. Win(T, 0, Len(T)) = T
    BY <1>2, WinAll
  <2>4. First(l)
    <3> HIDE DEF T, l
    <3>1. QED
      BY <1>2, <2>2, <2>3
  <2> HIDE DEF First, l
  <2>5. QED
    BY <2>1, <2>4 DEF z
<1>4. ASSUME NEW d \in S PROVE d + 1 \in S
  <2>1. CASE d + 1 <= l
    <3> DEFINE k == l - (d + 1)
               e == WordEnd(words, k)
               f == WordEnd(words, k + 1)
    <3>1. d \in Nat /\ d <= l /\ l - d = k + 1 /\ k \in Nat /\ k + 1 <= l
      BY <1>1, <2>1
    <3>2. First(l - d)
      BY <3>1
    <3> HIDE DEF k
    <3>3. First(k + 1)
      BY <3>1, <3>2
    <3>4. /\ e \in Nat /\ f \in Nat /\ e <= f /\ Win(Upto(words, k + 1), 0, e) = Upto(words, k)
      BY <3>1, UptoNext
    <3>5. f <= Len(T) /\ Win(T, 0, f) = Upto(words, k + 1)
      BY <3>3
    <3>6. Win(Win(T, 0, f), 0, e) = Upto(words, k)
      BY <3>4, <3>5
    <3>7. Win(Win(T, 0, f), 0, e) = Win(T, 0, e)
      <4> DEFINE z == 0
      <4>1. z \in Nat /\ z <= f /\ z <= e /\ e <= f - z /\ z + z = z /\ z + e = e
        BY <3>4
      <4> HIDE DEF z, e, f, T
      <4>2. Win(Win(T, z, f), z, e) = Win(T, z + z, z + e)
        BY <1>2, <3>4, <3>5, <4>1, WinWin
      <4>3. QED
        BY <4>1, <4>2 DEF z
    <3>8. e <= Len(T)
      <4>1. Len(T) \in Nat
        BY <1>2, ListFacts
      <4> HIDE DEF e, f, T
      <4>2. QED
        BY <3>4, <3>5, <4>1
    <3>9. First(k)
      BY <3>4, <3>6, <3>7, <3>8
    <3> HIDE DEF First
    <3>10. QED
      BY <3>1, <3>9 DEF k
  <2>2. CASE ~(d + 1 <= l)
    BY <2>2
  <2>3. QED
    BY <2>1, <2>2
<1>5. S \in SUBSET Nat
  OBVIOUS
<1>6. \A d \in Nat : d \in S
  <2> HIDE DEF S
  <2>1. QED
    BY <1>3, <1>4, <1>5, Spelling!Stepwise
<1>7. l - n \in Nat /\ l - n <= l /\ l - (l - n) = n
  BY <1>1
<1> DEFINE d == l - n
<1>8. d \in S
  BY <1>6, <1>7
<1> HIDE DEF First
<1>9. First(l - d)
  BY <1>7, <1>8
<1>10. First(n)
  <2> HIDE DEF l
  <2>1. QED
    BY <1>7, <1>9 DEF d
<1>11. QED
  BY <1>10 DEF First

\* A word in its place.
LEMMA WordPlace ==
  ASSUME NEW words, IsList(words), NEW n \in Nat, n + 1 <= Len(words)
  PROVE  LET T == Spelled(words)
             a == WordEnd(words, n)
             b == WordEnd(words, n + 1)
             c == Symbols(words[n + 1])
         IN /\ IsList(T) /\ Len(T) \in Nat /\ a \in Nat /\ b \in Nat /\ b = a + Len(c) /\ b <= Len(T)
            /\ Win(T, a, b) = c /\ IsList(c)
            /\ \A i \in 1 .. Len(c) : T[a + i] = c[i]
<1> DEFINE T == Spelled(words)
           a == WordEnd(words, n)
           b == WordEnd(words, n + 1)
           c == Symbols(words[n + 1])
<1>1. Len(words) \in Nat
  BY ListFacts
<1>2. n + 1 \in 0 .. Len(words)
  BY <1>1
<1>3. IsList(T) /\ Len(T) \in Nat
  <2>1. IsList(T)
    BY <1>1, SpelledIsList
  <2>2. QED
    BY <2>1, ListFacts
<1>4. b \in Nat /\ b <= Len(T) /\ Win(T, 0, b) = Upto(words, n + 1)
  BY <1>2, UptoIsFirst
<1>5. a \in Nat /\ a <= b /\ b = a + Len(c) /\ Win(Upto(words, n + 1), a, b) = c
  BY UptoNext
<1>6. IsList(c) /\ Len(c) \in Nat
  <2>1. IsList(c)
    BY SymbolsAreList
  <2>2. QED
    BY <2>1, ListFacts
<1>7. Win(Win(T, 0, b), a, b) = c
  BY <1>4, <1>5
<1>8. Win(T, a, b) = c
  <2> DEFINE z == 0
  <2>1. z \in Nat /\ z <= b /\ b <= b - z /\ z + a = a /\ z + b = b
    BY <1>4, <1>5
  <2> HIDE DEF z, a, b, c, T
  <2>2. Win(Win(T, z, b), a, b) = Win(T, z + a, z + b)
    BY <1>3, <1>4, <1>5, <2>1, WinWin
  <2>3. QED
    BY <1>7, <2>1, <2>2 DEF z
<1> HIDE DEF a, b, c, T
<1>9. \A i \in 1 .. b - a : Win(T, a, b)[i] = T[a + i]
  <2>1. IsList(T) /\ a \in Nat /\ b \in Nat /\ a <= b /\ b <= Len(T)
    BY <1>3, <1>4, <1>5
  <2>2. QED
    BY <2>1, WinFacts
<1>10. b - a = Len(c)
  BY <1>4, <1>5, <1>6
<1>11. \A i \in 1 .. Len(c) : T[a + i] = c[i]
  BY <1>8, <1>9, <1>10
<1>12. QED
  BY <1>3, <1>4, <1>5, <1>6, <1>8, <1>11 DEF a, b, c, T

\* The tags, which are words, and the symbol that only they have.
WordTags == {Think1.open, Think1.close, Think2.open, Think2.close, OpenTag, CloseTag}
TagWords == {"think", "/think", "thought", "/thought", "tool", "/tool"}
Names == {"think", "thought", "tool_call"}

LEMMA WordTagSymbols ==
  ASSUME NEW tag \in WordTags
  PROVE  /\ IsTag(tag) /\ tag[1] \in {"<", "</"} /\ tag[2] \in Names /\ tag[3] = ">"
         /\ tag = <<tag[1], tag[2], tag[3]>>
<1>1. ASSUME NEW a, NEW b, NEW c PROVE IsList(<<a, b, c>>) /\ Len(<<a, b, c>>) = 3
  <2>1. <<a, b, c>> \in Seq({a, b, c}) /\ Len(<<a, b, c>>) = 3
    OBVIOUS
  <2>2. QED
    BY <2>1 DEF IsList
<1>2. \E x \in {"<", "</"}, y \in Names : tag = <<x, y, ">">>
  BY DEF WordTags, Think1, Think2, OpenTag, CloseTag, Names
<1>3. QED
  BY <1>1, <1>2 DEF IsTag

LEMMA WordSymbols ==
  ASSUME NEW w
  PROVE  /\ w \in TagWords => Symbols(w) \in WordTags
         /\ w \notin TagWords => Symbols(w) = <<w>> /\ Len(Symbols(w)) = 1 /\ Symbols(w)[1] = w
         /\ Symbols(w) = Think1.open <=> w = "think"
         /\ Symbols(w) = Think1.close <=> w = "/think"
         /\ Symbols(w) = Think2.open <=> w = "thought"
         /\ Symbols(w) = Think2.close <=> w = "/thought"
         /\ Symbols(w) = OpenTag <=> w = "tool"
         /\ Symbols(w) = CloseTag <=> w = "/tool"
<1>1. CASE w \in TagWords
  BY <1>1 DEF TagWords, Symbols, WordTags, Think1, Think2, OpenTag, CloseTag
<1>2. CASE w \notin TagWords
  <2>1. Symbols(w) = <<w>>
    BY <1>2 DEF TagWords, Symbols
  <2>2. Len(<<w>>) = 1 /\ <<w>>[1] = w
    OBVIOUS
  <2>3. \A tag \in WordTags : Len(tag) = 3
    BY WordTagSymbols DEF IsTag
  <2>4. \A tag \in WordTags : <<w>> # tag
    BY <2>2, <2>3
  <2>5. w \notin {"think", "/think", "thought", "/thought", "tool", "/tool"}
    BY <1>2 DEF TagWords
  <2>6. QED
    BY <1>2, <2>1, <2>2, <2>4, <2>5 DEF WordTags
<1>3. QED
  BY <1>1, <1>2

\* The first symbol of a word is not one that is within a tag.
LEMMA FirstSymbol ==
  ASSUME NEW w, w # "tool_call"
  PROVE  Symbols(w)[1] \notin Names /\ Len(Symbols(w)) \in {1, 3}
<1>1. CASE w \in TagWords
  BY <1>1, WordSymbols, WordTagSymbols DEF Names, IsTag
<1>2. CASE w \notin TagWords
  BY <1>2, WordSymbols DEF Names, TagWords
<1>3. QED
  BY <1>1, <1>2

\* Where a tag is, there is the word.
LEMMA TagInWord ==
  ASSUME NEW words, PlainWords(words), NEW n \in Nat, n + 1 <= Len(words),
         NEW i \in WordEnd(words, n) + 1 .. WordEnd(words, n + 1),
         NEW tag \in WordTags, TagAt(Spelled(words), i, tag)
  PROVE  i = WordEnd(words, n) + 1 /\ Symbols(words[n + 1]) = tag
<1> DEFINE T == Spelled(words)
           a == WordEnd(words, n)
           b == WordEnd(words, n + 1)
           w == words[n + 1]
           c == Symbols(w)
<1>1. IsList(words) /\ Len(words) \in Nat
  BY ListFacts DEF PlainWords
<1>2. /\ Len(T) \in Nat /\ a \in Nat /\ b \in Nat /\ b = a + Len(c) /\ b <= Len(T)
      /\ \A j \in 1 .. Len(c) : T[a + j] = c[j]
  BY <1>1, WordPlace
<1>0. i \in a + 1 .. b
  OBVIOUS
<1>3. \A j \in 1 .. Len(words) : words[j] # "tool_call"
  BY DEF PlainWords
<1>4. i + 2 <= Len(T) /\ T[i] = tag[1] /\ T[i + 1] = tag[2]
  BY DEF TagAt
<1>5. tag[1] \in {"<", "</"} /\ tag[2] \in Names /\ tag = <<tag[1], tag[2], ">">>
  BY WordTagSymbols
<1>6. CASE w \notin TagWords
  <2>1. Len(c) = 1
    BY <1>6, WordSymbols
  <2>2. i = a + 1 /\ i = b
    <3> HIDE DEF a, b, c
    <3>1. QED
      BY <1>0, <1>2, <2>1
  <2>3. n + 2 <= Len(words)
    <3>1. CASE n + 1 = Len(words)
      <4>1. b = Len(T)
        BY <1>1, <3>1, SpelledUnfolds DEF WordEnd
      <4> HIDE DEF b, T
      <4>2. QED
        BY <1>2, <1>4, <2>2, <4>1
    <3>2. QED
      BY <1>1, <3>1
  <2> DEFINE m == n + 1
             v == words[m + 1]
  <2>4. m \in Nat /\ m + 1 <= Len(words) /\ m + 1 \in 1 .. Len(words)
    BY <1>1, <2>3
  <2> HIDE DEF m
  <2>5. \A j \in 1 .. Len(Symbols(v)) : T[WordEnd(words, m) + j] = Symbols(v)[j]
    BY <1>1, <2>4, WordPlace
  <2>6. Symbols(v)[1] \notin Names /\ Len(Symbols(v)) \in {1, 3}
    <3>1. v # "tool_call"
      BY <1>3, <2>4
    <3> HIDE DEF v
    <3>2. QED
      BY <3>1, FirstSymbol
  <2>7. WordEnd(words, m) = i
    BY <2>2 DEF m
  <2>8. T[i + 1] = Symbols(v)[1]
    <3>1. 1 \in 1 .. Len(Symbols(v))
      BY <2>6
    <3> HIDE DEF v, T
    <3>2. QED
      BY <2>5, <2>7, <3>1
  <2>9. QED
    BY <1>4, <1>5, <2>6, <2>8
<1>7. CASE w \in TagWords
  <2>1. c \in WordTags
    BY <1>7, WordSymbols
  <2>2. Len(c) = 3 /\ c[1] \in {"<", "</"} /\ c[2] \in Names /\ c[3] = ">" /\ c = <<c[1], c[2], ">">>
    <3> HIDE DEF c
    <3>1. QED
      BY <2>1, WordTagSymbols DEF IsTag
  <2>3. T[a + 1] = c[1] /\ T[a + 2] = c[2] /\ T[a + 3] = c[3]
    <3> HIDE DEF a, b, c, T
    <3>1. QED
      BY <1>2, <2>2
  <2>4. i = a + 1 \/ i = a + 2 \/ i = a + 3
    <3> HIDE DEF a, b, c, T
    <3>1. QED
      BY <1>0, <1>2, <2>2
  <2>5. i # a + 2 /\ i # a + 3
    <3> HIDE DEF a, b, c, T
    <3>1. QED
      BY <1>4, <1>5, <2>2, <2>3 DEF Names
  <2>6. i = a + 1
    BY <2>4, <2>5
  <2>7. i + 1 = a + 2
    <3> HIDE DEF a
    <3>1. QED
      BY <1>2, <2>6
  <2>8. c[1] = tag[1] /\ c[2] = tag[2]
    <3> HIDE DEF a, c, T
    <3>1. QED
      BY <1>4, <2>3, <2>6, <2>7
  <2>9. c = tag
    BY <1>5, <2>2, <2>8
  <2>10. QED
    BY <2>6, <2>9
<1>8. QED
  BY <1>6, <1>7

\* Where the word is, there is the tag.
LEMMA WordIsTag ==
  ASSUME NEW words, PlainWords(words), NEW n \in Nat, n + 1 <= Len(words),
         Symbols(words[n + 1]) \in WordTags
  PROVE  LET a == WordEnd(words, n) IN
         /\ TagAt(Spelled(words), a + 1, Symbols(words[n + 1]))
         /\ WordEnd(words, n + 1) = a + 3 /\ a \in Nat /\ a + 3 <= Len(Spelled(words))
<1> DEFINE T == Spelled(words)
           a == WordEnd(words, n)
           b == WordEnd(words, n + 1)
           c == Symbols(words[n + 1])
<1>1. IsList(words)
  BY DEF PlainWords
<1>2. /\ Len(T) \in Nat /\ a \in Nat /\ b \in Nat /\ b = a + Len(c) /\ b <= Len(T)
      /\ \A j \in 1 .. Len(c) : T[a + j] = c[j]
  BY <1>1, WordPlace
<1>3. Len(c) = 3
  BY WordTagSymbols DEF IsTag
<1> HIDE DEF a, b, c, T
<1>4. T[a + 1] = c[1] /\ T[a + 2] = c[2] /\ T[a + 3] = c[3]
  BY <1>2, <1>3
<1>5. (a + 1) + 1 = a + 2 /\ (a + 1) + 2 = a + 3 /\ a + 3 <= Len(T) /\ b = a + 3
  BY <1>2, <1>3
<1>6. TagAt(T, a + 1, c)
  BY <1>4, <1>5 DEF TagAt
<1>7. QED
  BY <1>2, <1>5, <1>6 DEF a, b, c, T

-----------------------------------------------------------------------------
(* The reader of calls goes over the symbols as Written goes over words.   *)

Writ(inCall, body, out) == [inCall |-> inCall, body |-> body, out |-> out]

WriteSteps(words) == Len(words)
WriteStart(words) == Writ(FALSE, <<>>, <<>>)
WriteStep(words, x, n) == Write(x, words[n])
WriteHolds(words, x, n) == TRUE
Writing == INSTANCE Unfolding
  WITH Steps <- WriteSteps, Start <- WriteStart, Step <- WriteStep, Holds <- WriteHolds

\* What is written after n words.
WrittenTo(words, n) == Writing!At(words)[n]

LEMMA WrittenUnfolds ==
  ASSUME NEW words, Len(words) \in Nat
  PROVE  Written(words) = WrittenTo(words, Len(words)).out
<1> DEFINE m == CHOOSE f : f = [n \in 0 .. Len(words) |->
                  IF n = 0 THEN [inCall |-> FALSE, body |-> <<>>, out |-> <<>>]
                  ELSE Write(f[n - 1], words[n])]
<1>1. WriteSteps(words) \in Nat /\ WriteSteps(words) = Len(words)
  BY DEF WriteSteps
<1>2. m = [n \in 0 .. WriteSteps(words) |-> Writing!Value(words, m, n)]
  <2>1. \E f : f = [n \in 0 .. WriteSteps(words) |-> Writing!Value(words, f, n)]
    BY <1>1, Writing!Exists
  <2> DEFINE g == CHOOSE f : f = [n \in 0 .. WriteSteps(words) |-> Writing!Value(words, f, n)]
  <2>2. g = [n \in 0 .. WriteSteps(words) |-> Writing!Value(words, g, n)]
    BY <2>1
  <2>3. m = g
    BY DEF Writing!Value, WriteStart, WriteStep, WriteSteps, Writ
  <2> HIDE DEF m, g
  <2>4. QED
    BY <2>2, <2>3
<1>3. Written(words) = m[Len(words)].out
  BY DEF Written
<1> HIDE DEF m
<1>4. \A n \in 0 .. WriteSteps(words) : m[n] = Writing!At(words)[n]
  BY <1>1, <1>2, Writing!Same
<1>5. QED
  BY <1>1, <1>3, <1>4 DEF WrittenTo

LEMMA WritingOn ==
  ASSUME NEW words, IsList(words)
  PROVE  /\ WrittenTo(words, 0) = Writ(FALSE, <<>>, <<>>)
         /\ \A n \in 1 .. Len(words) : WrittenTo(words, n) = Write(WrittenTo(words, n - 1), words[n])
<1>1. WriteSteps(words) \in Nat /\ WriteSteps(words) = Len(words)
  BY ListFacts DEF WriteSteps
<1>2. /\ Writing!At(words)[0] = WriteStart(words)
      /\ \A n \in 1 .. WriteSteps(words) : Writing!At(words)[n] = WriteStep(words, Writing!At(words)[n - 1], n)
  BY <1>1, Writing!Unfolds
<1>3. QED
  BY <1>1, <1>2 DEF WriteStart, WriteStep, WrittenTo

LEMMA WritFields ==
  ASSUME NEW inCall, NEW body, NEW out
  PROVE  LET x == Writ(inCall, body, out) IN
         /\ x.inCall = inCall /\ x.body = body /\ x.out = out
         /\ \A y : [x EXCEPT !.inCall = y] = Writ(y, body, out)
         /\ \A y : [x EXCEPT !.body = y] = Writ(inCall, y, out)
         /\ \A y : [x EXCEPT !.out = y] = Writ(inCall, body, y)
BY DEF Writ

\* x is what the reader of symbols has, between two words.
AsShown(r, x) == r.skip = 0 /\ x = Writ(r.inCall, r.body, r.out)

LEMMA WriteOf ==
  ASSUME NEW r, NEW x, AsShown(r, x), NEW w
  PROVE  /\ ~InCall(r) /\ w = "tool" => Write(x, w) = Writ(TRUE, r.body, r.out)
         /\ ~InCall(r) /\ w # "tool" => Write(x, w) = Writ(r.inCall, r.body, AddVisible(r.out, "text", Symbols(w)))
         /\ InCall(r) /\ w # "/tool" => Write(x, w) = Writ(r.inCall, r.body \o Symbols(w), r.out)
         /\ InCall(r) /\ w = "/tool"
              => Write(x, w) = Writ(FALSE, <<>>, IF r.body = <<"json">> THEN AddVisible(r.out, "call", r.body) ELSE r.out)
<1> DEFINE inCall == r.inCall
           body == r.body
           out == r.out
           c == Symbols(w)
           more == AddVisible(out, "text", c)
           next == body \o c
           all == IF body = <<"json">> THEN AddVisible(out, "call", body) ELSE out
<1>1. /\ x.inCall = inCall /\ x.body = body /\ x.out = out
      /\ \A y : [x EXCEPT !.inCall = y] = Writ(y, body, out)
      /\ \A y : [x EXCEPT !.body = y] = Writ(inCall, y, out)
      /\ \A y : [x EXCEPT !.out = y] = Writ(inCall, body, y)
  <2>1. x = Writ(inCall, body, out)
    BY DEF AsShown
  <2> HIDE DEF inCall, body, out
  <2>2. QED
    BY <2>1, WritFields
<1>2. Write(x, w) = IF ~x.inCall
                    THEN IF w = "tool" THEN [x EXCEPT !.inCall = TRUE]
                         ELSE [x EXCEPT !.out = AddVisible(x.out, "text", c)]
                    ELSE IF w # "/tool" THEN [x EXCEPT !.body = x.body \o c]
                    ELSE Writ(FALSE, <<>>, IF x.body = <<"json">> THEN AddVisible(x.out, "call", x.body) ELSE x.out)
  BY DEF Write, Writ
<1> HIDE DEF inCall, body, out
<1>3. Write(x, w) = IF ~inCall
                    THEN IF w = "tool" THEN [x EXCEPT !.inCall = TRUE] ELSE [x EXCEPT !.out = more]
                    ELSE IF w # "/tool" THEN [x EXCEPT !.body = next]
                    ELSE Writ(FALSE, <<>>, all)
  BY <1>1, <1>2, Zenon
<1> HIDE DEF more, next, all
<1>4. ASSUME ~inCall, w = "tool" PROVE Write(x, w) = Writ(TRUE, body, out)
  <2>1. Write(x, w) = [x EXCEPT !.inCall = TRUE]
    BY <1>3, <1>4, Zenon
  <2>2. QED
    BY <1>1, <2>1, Zenon
<1>5. ASSUME ~inCall, w # "tool" PROVE Write(x, w) = Writ(inCall, body, more)
  <2>1. Write(x, w) = [x EXCEPT !.out = more]
    BY <1>3, <1>5, Zenon
  <2>2. QED
    BY <1>1, <2>1, Zenon
<1>6. ASSUME inCall, w # "/tool" PROVE Write(x, w) = Writ(inCall, next, out)
  <2>1. Write(x, w) = [x EXCEPT !.body = next]
    BY <1>3, <1>6, Zenon
  <2>2. QED
    BY <1>1, <2>1, Zenon
<1>7. ASSUME inCall, w = "/tool" PROVE Write(x, w) = Writ(FALSE, <<>>, all)
  BY <1>3, <1>7, Zenon
<1>8. QED
  BY <1>4, <1>5, <1>6, <1>7, Zenon DEF InCall, inCall, body, out, c, more, next, all

LEMMA AsShownIf ==
  ASSUME NEW y, NEW inCall, NEW body, NEW out, NEW x, x = Writ(inCall, body, out),
         y.skip = 0, y.inCall = inCall, y.body = body, y.out = out
  PROVE  AsShown(y, x)
BY DEF AsShown

LEMMA WriteNext ==
  ASSUME NEW words, PlainWords(words), NEW n \in Nat, n + 1 <= Len(words),
         NEW x, AsShown(ShownAt(Spelled(words), WordEnd(words, n)), x)
  PROVE  AsShown(ShownAt(Spelled(words), WordEnd(words, n + 1)), Write(x, words[n + 1]))
<1> DEFINE T == Spelled(words)
           a == WordEnd(words, n)
           b == WordEnd(words, n + 1)
           w == words[n + 1]
           c == Symbols(w)
           r == ShownAt(T, a)
           y == ShownAt(T, b)
           v == Write(x, w)
<1>1. /\ IsList(T) /\ Len(T) \in Nat /\ a \in Nat /\ b \in Nat /\ b = a + Len(c) /\ b <= Len(T)
      /\ Win(T, a, b) = c /\ IsList(c) /\ a \in 0 .. Len(T) /\ a <= b
  <2>1. /\ IsList(T) /\ Len(T) \in Nat /\ a \in Nat /\ b \in Nat /\ b = a + Len(c) /\ b <= Len(T)
        /\ Win(T, a, b) = c /\ IsList(c)
    BY WordPlace DEF PlainWords
  <2> HIDE DEF T, a, b, c
  <2>2. Len(c) \in Nat
    BY <2>1, ListFacts
  <2>3. QED
    BY <2>1, <2>2
<1>2. ASSUME NEW tag \in WordTags, c # tag
      PROVE  NoneOf(T, tag, a, b)
  BY <1>2, TagInWord DEF NoneOf
<1>3. c \in WordTags => TagAt(T, a + 1, c) /\ b = a + 3 /\ a + 3 <= Len(T)
  BY WordIsTag
<1>4. (c = OpenTag <=> w = "tool") /\ (c = CloseTag <=> w = "/tool")
  BY WordSymbols
<1>5. OpenTag \in WordTags /\ CloseTag \in WordTags
  BY DEF WordTags
<1> HIDE DEF T, a, b, c, w
<1>6. ShownOK(r)
  BY <1>1, ShownIsOK
<1>7. AsShown(r, x) /\ r.skip = 0
  BY DEF AsShown, r, T, a
<1>8. r.inCall \in BOOLEAN /\ IsList(r.body) /\ (~r.inCall => r.body = <<>>)
  BY <1>6 DEF ShownOK
<1>8a. /\ ~InCall(r) /\ w = "tool" => v = Writ(TRUE, r.body, r.out)
       /\ ~InCall(r) /\ w # "tool" => v = Writ(r.inCall, r.body, AddVisible(r.out, "text", c))
       /\ InCall(r) /\ w # "/tool" => v = Writ(r.inCall, r.body \o c, r.out)
       /\ InCall(r) /\ w = "/tool"
            => v = Writ(FALSE, <<>>, IF r.body = <<"json">> THEN AddVisible(r.out, "call", r.body) ELSE r.out)
  <2>1. AsShown(r, x)
    BY <1>7
  <2> HIDE DEF r
  <2>2. QED
    BY <2>1, WriteOf, Zenon DEF c
<1>9. ASSUME ~InCall(r), w = "tool" PROVE AsShown(y, v)
  <2>1. TagAt(T, a + 1, OpenTag) /\ b = a + 3 /\ a + 3 <= Len(T)
    BY <1>3, <1>4, <1>5, <1>9
  <2>2. /\ ShownAt(T, a + 3).skip = 0 /\ ShownAt(T, a + 3).inCall = TRUE
        /\ ShownAt(T, a + 3).body = <<>> /\ ShownAt(T, a + 3).out = ShownAt(T, a).out
    BY <1>1, <1>7, <1>9, <2>1, CallOpens
  <2> DEFINE yes == TRUE
  <2>3. y.skip = 0 /\ y.inCall = yes /\ y.body = <<>> /\ y.out = r.out
    BY <2>1, <2>2
  <2>4. v = Writ(yes, r.body, r.out)
    BY <1>8a, <1>9, Zenon
  <2>5. r.body = <<>>
    BY <1>8, <1>9, Zenon DEF InCall
  <2>6. v = Writ(yes, <<>>, r.out)
    BY <2>4, <2>5
  <2> HIDE DEF yes, y, r, v
  <2>7. QED
    BY <2>3, <2>6, AsShownIf
<1>10. ASSUME ~InCall(r), w # "tool" PROVE AsShown(y, v)
  <2>1. NoneOf(T, OpenTag, a, b)
    BY <1>2, <1>4, <1>5, <1>10
  <2> DEFINE no == FALSE
             more == AddVisible(r.out, "text", c)
  <2>2. ShownAt(T, b) = Shown(FALSE, 0, <<>>, AddVisible(ShownAt(T, a).out, "text", Win(T, a, b)))
    <3>1. IsList(T) /\ a \in Nat /\ b \in Nat /\ a <= b /\ b <= Len(T)
      BY <1>1
    <3>2. ShownAt(T, a).skip = 0 /\ ~InCall(ShownAt(T, a))
      BY <1>7, <1>10
    <3>3. QED
      BY <2>1, <3>1, <3>2, ShowRun, Zenon
  <2>3. y = Shown(no, 0, <<>>, more)
    BY <1>1, <2>2, Zenon
  <2>4. y.skip = 0 /\ y.inCall = no /\ y.body = <<>> /\ y.out = more
    <3> HIDE DEF no, more, y
    <3>1. QED
      BY <2>3, ShownFields
  <2>5. v = Writ(r.inCall, r.body, more)
    BY <1>8a, <1>10, Zenon
  <2>6. r.body = <<>> /\ r.inCall = no
    BY <1>8, <1>10, Zenon DEF InCall
  <2>7. v = Writ(no, <<>>, more)
    BY <2>5, <2>6
  <2> HIDE DEF no, more, y, r, v
  <2>8. QED
    BY <2>4, <2>7, AsShownIf
<1>11. ASSUME InCall(r), w = "/tool" PROVE AsShown(y, v)
  <2> DEFINE out == IF r.body = <<"json">> THEN AddVisible(r.out, "call", r.body) ELSE r.out
  <2>1. TagAt(T, a + 1, CloseTag) /\ b = a + 3 /\ a + 3 <= Len(T)
    BY <1>3, <1>4, <1>5, <1>11
  <2>2. /\ ShownAt(T, a + 3).skip = 0 /\ ShownAt(T, a + 3).inCall = FALSE
        /\ ShownAt(T, a + 3).body = <<>> /\ ShownAt(T, a + 3).out = out
    BY <1>1, <1>7, <1>11, <2>1, CallCloses, Zenon
  <2> DEFINE no == FALSE
  <2>3. y.skip = 0 /\ y.inCall = no /\ y.body = <<>> /\ y.out = out
    BY <2>1, <2>2
  <2>4. v = Writ(no, <<>>, out)
    BY <1>8a, <1>11, Zenon
  <2> HIDE DEF no, out, y, r, v
  <2>5. QED
    BY <2>3, <2>4, AsShownIf
<1>12. ASSUME InCall(r), w # "/tool" PROVE AsShown(y, v)
  <2>1. NoneOf(T, CloseTag, a, b)
    BY <1>2, <1>4, <1>5, <1>12
  <2>2. y.skip = 0 /\ InCall(y) /\ y.body = r.body \o Win(T, a, b) /\ y.out = r.out
    BY <1>1, <1>7, <1>12, <2>1, ShowBody
  <2> DEFINE next == r.body \o c
  <2>3. y.skip = 0 /\ InCall(y) /\ y.body = next /\ y.out = r.out
    BY <1>1, <2>2
  <2>4. y.inCall = r.inCall
    <3>1. b \in 0 .. Len(T)
      BY <1>1
    <3>2. y.inCall \in BOOLEAN
      BY <1>1, <3>1, ShownIsOK DEF ShownOK
    <3>3. QED
      BY <1>8, <1>12, <2>3, <3>2, Zenon DEF InCall
  <2>5. v = Writ(r.inCall, next, r.out)
    BY <1>8a, <1>12, Zenon
  <2> HIDE DEF next, y, r, v
  <2>6. QED
    BY <2>3, <2>4, <2>5, AsShownIf
<1>13. QED
  BY <1>9, <1>10, <1>11, <1>12 DEF T, b, w

\* What is shown of a text is what is written.
LEMMA ShownIsWritten ==
  ASSUME NEW words, PlainWords(words)
  PROVE  ShownAt(Spelled(words), Len(Spelled(words))).out = Written(words)
<1> DEFINE T == Spelled(words)
           l == Len(words)
           Same(n) == AsShown(ShownAt(T, WordEnd(words, n)), WrittenTo(words, n))
           S == {n \in Nat : n <= l => Same(n)}
<1>1. IsList(words) /\ l \in Nat
  BY ListFacts DEF PlainWords
<1>2. IsList(T) /\ T = Upto(words, l)
  BY <1>1, SpelledUnfolds, SpelledIsList
<1>3. 0 \in S
  <2>1. WordEnd(words, 0) = 0
    BY <1>1, SpellingOn, EmptyIsList DEF WordEnd
  <2> DEFINE no == FALSE
             r == Shown(no, 0, <<>>, <<>>)
  <2>2. ShownAt(T, 0) = r
    BY <1>2, ShowingFirst
  <2>3. WrittenTo(words, 0) = Writ(no, <<>>, <<>>)
    BY <1>1, WritingOn
  <2> HIDE DEF no
  <2>4. r.skip = 0 /\ r.inCall = no /\ r.body = <<>> /\ r.out = <<>>
    BY ShownFields
  <2> HIDE DEF r, T
  <2>5. Same(0)
    BY <2>1, <2>2, <2>3, <2>4 DEF AsShown
  <2> HIDE DEF Same
  <2>6. QED
    BY <2>5
<1>4. ASSUME NEW n \in S PROVE n + 1 \in S
  <2>1. CASE n + 1 <= l
    <3>1. n \in Nat /\ n <= l /\ n + 1 \in 1 .. l /\ (n + 1) - 1 = n
      BY <1>1, <2>1
    <3>2. Same(n)
      BY <3>1
    <3>3. WrittenTo(words, n + 1) = Write(WrittenTo(words, n), words[n + 1])
      BY <1>1, <3>1, WritingOn
    <3>4. Same(n + 1)
      BY <2>1, <3>1, <3>2, <3>3, WriteNext
    <3> HIDE DEF Same
    <3>5. QED
      BY <3>1, <3>4
  <2>2. CASE ~(n + 1 <= l)
    BY <2>2
  <2>3. QED
    BY <2>1, <2>2
<1>5. S \in SUBSET Nat
  OBVIOUS
<1>6. l \in S
  <2> HIDE DEF S
  <2>1. QED
    BY <1>1, <1>3, <1>4, <1>5, Writing!Stepwise
<1>7. Same(l)
  BY <1>1, <1>6
<1>8. WordEnd(words, l) = Len(T)
  BY <1>2 DEF WordEnd
<1> DEFINE r == ShownAt(T, Len(T))
<1>9. WrittenTo(words, l) = Writ(r.inCall, r.body, r.out)
  BY <1>7, <1>8 DEF AsShown
<1>10. WrittenTo(words, l).out = r.out
  <2> HIDE DEF r, l
  <2>1. QED
    BY <1>9, WritFields
<1>11. QED
  BY <1>1, <1>10, WrittenUnfolds

-----------------------------------------------------------------------------
(* The reader of thinking tags does so as Split goes over words.           *)

Sorted(mode, outer, inner) == [mode |-> mode, outer |-> outer, inner |-> inner]

SortSteps(words) == Len(words)
SortStart(words) == Sorted("out", <<>>, <<>>)
SortStep(words, x, n) == Sort(x, words[n])
SortHolds(words, x, n) == TRUE
Sorting == INSTANCE Unfolding
  WITH Steps <- SortSteps, Start <- SortStart, Step <- SortStep, Holds <- SortHolds

\* The words after n of them.
SplitAt(words, n) == Sorting!At(words)[n]

LEMMA SplitUnfolds ==
  ASSUME NEW words, Len(words) \in Nat
  PROVE  Split(words) = SplitAt(words, Len(words))
<1> DEFINE m == CHOOSE f : f = [n \in 0 .. Len(words) |->
                  IF n = 0 THEN [mode |-> "out", outer |-> <<>>, inner |-> <<>>]
                  ELSE Sort(f[n - 1], words[n])]
<1>1. SortSteps(words) \in Nat /\ SortSteps(words) = Len(words)
  BY DEF SortSteps
<1>2. m = [n \in 0 .. SortSteps(words) |-> Sorting!Value(words, m, n)]
  <2>1. \E f : f = [n \in 0 .. SortSteps(words) |-> Sorting!Value(words, f, n)]
    BY <1>1, Sorting!Exists
  <2> DEFINE g == CHOOSE f : f = [n \in 0 .. SortSteps(words) |-> Sorting!Value(words, f, n)]
  <2>2. g = [n \in 0 .. SortSteps(words) |-> Sorting!Value(words, g, n)]
    BY <2>1
  <2>3. m = g
    BY DEF Sorting!Value, SortStart, SortStep, SortSteps, Sorted
  <2> HIDE DEF m, g
  <2>4. QED
    BY <2>2, <2>3
<1>3. Split(words) = m[Len(words)]
  BY DEF Split
<1> HIDE DEF m
<1>4. \A n \in 0 .. SortSteps(words) : m[n] = Sorting!At(words)[n]
  BY <1>1, <1>2, Sorting!Same
<1>5. QED
  BY <1>1, <1>3, <1>4 DEF SplitAt

LEMMA SortingOn ==
  ASSUME NEW words, IsList(words)
  PROVE  /\ SplitAt(words, 0) = Sorted("out", <<>>, <<>>)
         /\ \A n \in 1 .. Len(words) : SplitAt(words, n) = Sort(SplitAt(words, n - 1), words[n])
<1>1. SortSteps(words) \in Nat /\ SortSteps(words) = Len(words)
  BY ListFacts DEF SortSteps
<1>2. /\ Sorting!At(words)[0] = SortStart(words)
      /\ \A n \in 1 .. SortSteps(words) : Sorting!At(words)[n] = SortStep(words, Sorting!At(words)[n - 1], n)
  BY <1>1, Sorting!Unfolds
<1>3. QED
  BY <1>1, <1>2 DEF SortStart, SortStep, SplitAt

LEMMA SortedFields ==
  ASSUME NEW mode, NEW outer, NEW inner
  PROVE  LET x == Sorted(mode, outer, inner) IN
         /\ x.mode = mode /\ x.outer = outer /\ x.inner = inner
         /\ \A y : [x EXCEPT !.mode = y] = Sorted(y, outer, inner)
         /\ \A y : [x EXCEPT !.outer = y] = Sorted(mode, y, inner)
         /\ \A y : [x EXCEPT !.inner = y] = Sorted(mode, outer, y)
BY DEF Sorted

\* One word more, at the end.
LEMMA SpelledMore ==
  ASSUME NEW words, IsList(words), NEW w
  PROVE  Spelled(Append(words, w)) = Spelled(words) \o Symbols(w)
<1> DEFINE d == Append(words, w)
<1>1. /\ IsList(d) /\ Len(words) \in Nat /\ Len(d) = Len(words) + 1
      /\ \A i \in 1 .. Len(words) : d[i] = words[i]
      /\ d[Len(words) + 1] = w
  BY Grows
<1> HIDE DEF d
<1>2. Len(d) \in Nat
  BY <1>1, ListFacts
<1>3. /\ SpelledSteps(words) \in Nat /\ SpelledSteps(words) = Len(words)
      /\ SpelledSteps(d) \in Nat /\ SpelledSteps(d) = Len(d) /\ SpelledSteps(d) = SpelledSteps(words) + 1
  BY <1>1, <1>2 DEF SpelledSteps
<1>4. SpelledStart(words) = SpelledStart(d)
  BY DEF SpelledStart
<1>5. \A x : \A n \in 1 .. SpelledSteps(words) : SpelledStep(words, x, n) = SpelledStep(d, x, n)
  BY <1>1, <1>3 DEF SpelledStep
<1>6. Spelling!At(d)[SpelledSteps(d)] = SpelledStep(d, Spelling!At(words)[SpelledSteps(words)], SpelledSteps(d))
  BY <1>3, <1>4, <1>5, Spelling!Extends
<1>7. Upto(d, Len(d)) = Upto(words, Len(words)) \o Symbols(d[Len(d)])
  BY <1>3, <1>6 DEF SpelledStep, Upto
<1>8. Spelled(d) = Spelled(words) \o Symbols(w)
  BY <1>1, <1>2, <1>7, SpelledUnfolds
<1>9. QED
  BY <1>8 DEF d

LEMMA SpelledNone == Spelled(<<>>) = <<>> /\ PlainWords(<<>>)
<1>1. IsList(<<>>) /\ Len(<<>>) = 0
  BY EmptyIsList
<1> DEFINE e == <<>>
<1> HIDE DEF e
<1>2. IsList(e) /\ Len(e) = 0
  BY <1>1 DEF e
<1>3. Spelled(e) = Upto(e, 0) /\ Upto(e, 0) = <<>>
  BY <1>2, SpelledUnfolds, SpellingOn
<1>4. PlainWords(e)
  BY <1>2 DEF PlainWords
<1>5. QED
  BY <1>3, <1>4 DEF e

LEMMA MorePlain ==
  ASSUME NEW words, PlainWords(words), NEW w, w \notin {"tool_call", "reason"}
  PROVE  PlainWords(Append(words, w))
<1>1. /\ IsList(Append(words, w)) /\ Len(words) \in Nat /\ Len(Append(words, w)) = Len(words) + 1
      /\ \A i \in 1 .. Len(words) : Append(words, w)[i] = words[i]
      /\ Append(words, w)[Len(words) + 1] = w
  BY Grows DEF PlainWords
<1>2. \A i \in 1 .. Len(Append(words, w)) : i \in 1 .. Len(words) \/ i = Len(words) + 1
  BY <1>1
<1>3. QED
  BY <1>1, <1>2 DEF PlainWords

Modes == {"out", "think", "thought"}
CloseOf(mode) == IF mode = "out" THEN NoTag ELSE IF mode = "think" THEN Think1.close ELSE Think2.close

SortOK(x) ==
  /\ x = Sorted(x.mode, x.outer, x.inner) /\ x.mode \in Modes
  /\ PlainWords(x.outer) /\ PlainWords(x.inner)

\* x is what the reader of symbols has, between two words.
AsHeard(r, x) ==
  /\ r.skip = 0 /\ r.close = CloseOf(x.mode)
  /\ r.outer = Spelled(x.outer) /\ r.inner = Spelled(x.inner)

LEMMA SortedOK ==
  ASSUME NEW x, NEW mode \in Modes, NEW outer, NEW inner, PlainWords(outer), PlainWords(inner),
         x = Sorted(mode, outer, inner)
  PROVE  SortOK(x) /\ x.mode = mode /\ x.outer = outer /\ x.inner = inner
<1>1. x.mode = mode /\ x.outer = outer /\ x.inner = inner
  BY SortedFields
<1>2. QED
  BY <1>1 DEF SortOK

LEMMA SortOf ==
  ASSUME NEW x, SortOK(x), NEW w, w \notin {"tool_call", "reason"}
  PROVE  LET mode == Inside(x.mode, w)
             y == Sort(x, w)
         IN /\ SortOK(y) /\ y.mode = mode /\ mode \in Modes
            /\ mode # x.mode => y.outer = x.outer /\ y.inner = x.inner
            /\ mode = x.mode /\ mode = "out" => y.outer = Append(x.outer, w) /\ y.inner = x.inner
            /\ mode = x.mode /\ mode # "out" => y.outer = x.outer /\ y.inner = Append(x.inner, w)
<1> DEFINE mode == Inside(x.mode, w)
           y == Sort(x, w)
           a == x.outer
           b == x.inner
           more == Append(a, w)
           next == Append(b, w)
<1>1. x = Sorted(x.mode, a, b) /\ x.mode \in Modes /\ PlainWords(a) /\ PlainWords(b)
  BY DEF SortOK
<1>2. mode \in Modes
  BY <1>1 DEF Inside, Modes
<1>3. y = IF mode # x.mode THEN [x EXCEPT !.mode = mode]
          ELSE IF mode = "out" THEN [x EXCEPT !.outer = more] ELSE [x EXCEPT !.inner = next]
  BY DEF Sort
<1> HIDE DEF mode, y, a, b
<1>4. PlainWords(more) /\ PlainWords(next)
  BY <1>1, MorePlain
<1> HIDE DEF more, next
<1>5. /\ \A z : [x EXCEPT !.mode = z] = Sorted(z, a, b)
      /\ \A z : [x EXCEPT !.outer = z] = Sorted(x.mode, z, b)
      /\ \A z : [x EXCEPT !.inner = z] = Sorted(x.mode, a, z)
  <2> DEFINE m == x.mode
  <2>1. x = Sorted(m, a, b)
    BY <1>1
  <2> HIDE DEF m
  <2>2. /\ \A z : [x EXCEPT !.mode = z] = Sorted(z, a, b)
        /\ \A z : [x EXCEPT !.outer = z] = Sorted(m, z, b)
        /\ \A z : [x EXCEPT !.inner = z] = Sorted(m, a, z)
    BY <2>1, SortedFields
  <2>3. QED
    BY <2>2 DEF m
<1>6. CASE mode # x.mode
  <2>1. y = Sorted(mode, a, b)
    BY <1>3, <1>5, <1>6
  <2>2. SortOK(y) /\ y.mode = mode /\ y.outer = a /\ y.inner = b
    BY <1>1, <1>2, <2>1, SortedOK
  <2>3. QED
    BY <1>2, <1>6, <2>2 DEF mode, y, a, b
<1>7. CASE mode = x.mode /\ mode = "out"
  <2>1. y = Sorted(mode, more, b)
    BY <1>3, <1>5, <1>7
  <2>2. SortOK(y) /\ y.mode = mode /\ y.outer = more /\ y.inner = b
    BY <1>1, <1>2, <1>4, <2>1, SortedOK
  <2>3. QED
    BY <1>2, <1>7, <2>2 DEF mode, y, a, b, more
<1>8. CASE mode = x.mode /\ mode # "out"
  <2>1. y = Sorted(mode, a, next)
    BY <1>3, <1>5, <1>8
  <2>2. SortOK(y) /\ y.mode = mode /\ y.outer = a /\ y.inner = next
    BY <1>1, <1>2, <1>4, <2>1, SortedOK
  <2>3. QED
    BY <1>2, <1>8, <2>2 DEF mode, y, a, b, next
<1>9. QED
  BY <1>6, <1>7, <1>8

\* What a word does to the mode.
LEMMA InsideCases ==
  ASSUME NEW m \in Modes, NEW w
  PROVE  LET k == Inside(m, w) IN
         /\ k # m => \/ m = "out" /\ w = "think" /\ k = "think"
                     \/ m = "out" /\ w = "thought" /\ k = "thought"
                     \/ m = "think" /\ w = "/think" /\ k = "out"
                     \/ m = "thought" /\ w = "/thought" /\ k = "out"
         /\ k = m => /\ m = "out" => w # "think" /\ w # "thought"
                     /\ m = "think" => w # "/think"
                     /\ m = "thought" => w # "/thought"
BY DEF Inside, Modes

LEMMA CloseCases ==
  /\ CloseOf("out") = NoTag /\ CloseOf("think") = Think1.close /\ CloseOf("thought") = Think2.close
  /\ Think1.close # NoTag /\ Think2.close # NoTag
<1>1. Think1.close # NoTag /\ Think2.close # NoTag
  BY TagLists
<1>2. QED
  BY <1>1 DEF CloseOf

LEMMA SortNext ==
  ASSUME NEW words, PlainWords(words), NEW n \in Nat, n + 1 <= Len(words),
         NEW x, SortOK(x), AsHeard(HeardAt(Spelled(words), WordEnd(words, n)), x)
  PROVE  /\ SortOK(Sort(x, words[n + 1]))
         /\ AsHeard(HeardAt(Spelled(words), WordEnd(words, n + 1)), Sort(x, words[n + 1]))
<1> DEFINE T == Spelled(words)
           a == WordEnd(words, n)
           b == WordEnd(words, n + 1)
           w == words[n + 1]
           c == Symbols(w)
           r == HeardAt(T, a)
           v == HeardAt(T, b)
           m == x.mode
           k == Inside(m, w)
           y == Sort(x, w)
<1>1. /\ IsList(T) /\ Len(T) \in Nat /\ a \in Nat /\ b \in Nat /\ b = a + Len(c) /\ b <= Len(T)
      /\ Win(T, a, b) = c /\ IsList(c) /\ a \in 0 .. Len(T) /\ a <= b
  <2>1. /\ IsList(T) /\ Len(T) \in Nat /\ a \in Nat /\ b \in Nat /\ b = a + Len(c) /\ b <= Len(T)
        /\ Win(T, a, b) = c /\ IsList(c)
    BY WordPlace DEF PlainWords
  <2> HIDE DEF T, a, b, c
  <2>2. Len(c) \in Nat
    BY <2>1, ListFacts
  <2>3. QED
    BY <2>1, <2>2
<1>2. ASSUME NEW tag \in WordTags, c # tag
      PROVE  NoneOf(T, tag, a, b)
  BY <1>2, TagInWord DEF NoneOf
<1>3. c \in WordTags => TagAt(T, a + 1, c) /\ b = a + 3 /\ a + 3 <= Len(T)
  BY WordIsTag
<1>4. /\ (c = Think1.open <=> w = "think") /\ (c = Think1.close <=> w = "/think")
      /\ (c = Think2.open <=> w = "thought") /\ (c = Think2.close <=> w = "/thought")
  BY WordSymbols
<1>5. /\ Think1.open \in WordTags /\ Think2.open \in WordTags
      /\ Think1.close \in WordTags /\ Think2.close \in WordTags
  BY DEF WordTags
<1>6. w \notin {"tool_call", "reason"}
  <2>1. Len(words) \in Nat /\ \A i \in 1 .. Len(words) : words[i] \notin {"tool_call", "reason"}
    BY ListFacts DEF PlainWords
  <2>2. n + 1 \in 1 .. Len(words)
    BY <2>1
  <2>3. QED
    BY <2>1, <2>2
<1>7. r.skip = 0 /\ r.close = CloseOf(m) /\ r.outer = Spelled(x.outer) /\ r.inner = Spelled(x.inner)
  BY DEF AsHeard
<1>8. m \in Modes /\ PlainWords(x.outer) /\ PlainWords(x.inner) /\ IsList(x.outer) /\ IsList(x.inner)
  BY DEF SortOK, PlainWords
<1> HIDE DEF T, a, b, w
<1>9. /\ SortOK(y) /\ y.mode = k /\ k \in Modes
      /\ k # m => y.outer = x.outer /\ y.inner = x.inner
      /\ k = m /\ k = "out" => y.outer = Append(x.outer, w) /\ y.inner = x.inner
      /\ k = m /\ k # "out" => y.outer = x.outer /\ y.inner = Append(x.inner, w)
  BY <1>6, SortOf
<1>10. /\ k # m => \/ m = "out" /\ w = "think" /\ k = "think"
                   \/ m = "out" /\ w = "thought" /\ k = "thought"
                   \/ m = "think" /\ w = "/think" /\ k = "out"
                   \/ m = "thought" /\ w = "/thought" /\ k = "out"
       /\ k = m => /\ m = "out" => w # "think" /\ w # "thought"
                   /\ m = "think" => w # "/think"
                   /\ m = "thought" => w # "/thought"
  BY <1>8, InsideCases
<1> HIDE DEF c, k, m, y
<1>11. CASE k # m
  <2>1. \/ \E t \in ThinkingTags : r.close = NoTag /\ c = t.open /\ CloseOf(k) = t.close
        \/ r.close # NoTag /\ c = r.close /\ CloseOf(k) = NoTag
    <3>1. Think1 \in ThinkingTags /\ Think2 \in ThinkingTags
      BY TagLists
    <3> HIDE DEF r
    <3>2. CASE m = "out" /\ w = "think" /\ k = "think"
      BY <1>4, <1>7, <3>1, <3>2, CloseCases
    <3>3. CASE m = "out" /\ w = "thought" /\ k = "thought"
      BY <1>4, <1>7, <3>1, <3>3, CloseCases
    <3>4. CASE m = "think" /\ w = "/think" /\ k = "out"
      BY <1>4, <1>7, <3>4, CloseCases
    <3>5. CASE m = "thought" /\ w = "/thought" /\ k = "out"
      BY <1>4, <1>7, <3>5, CloseCases
    <3>6. QED
      BY <1>10, <1>11, <3>2, <3>3, <3>4, <3>5
  <2>2. c \in WordTags
    BY <1>4, <1>5, <1>10, <1>11
  <2>3. TagAt(T, a + 1, c) /\ b = a + 3 /\ a + 3 <= Len(T)
    BY <1>3, <2>2
  <2>4. HeardAt(T, a + 3) = Heard(CloseOf(k), 0, r.outer, r.inner)
    <3>1. /\ \A t \in ThinkingTags : r.close = NoTag /\ TagAt(T, a + 1, t.open)
               => HeardAt(T, a + 3) = Heard(t.close, 0, r.outer, r.inner)
          /\ r.close # NoTag /\ TagAt(T, a + 1, r.close)
               => HeardAt(T, a + 3) = Heard(NoTag, 0, r.outer, r.inner)
      BY <1>1, <1>7, <2>3, HearTag
    <3> HIDE DEF r
    <3>2. QED
      BY <2>1, <2>3, <3>1
  <2>5. v = Heard(CloseOf(k), 0, r.outer, r.inner)
    BY <2>3, <2>4
  <2> HIDE DEF v, r
  <2>6. v.close = CloseOf(k) /\ v.skip = 0 /\ v.outer = r.outer /\ v.inner = r.inner
    BY <2>5, HeardFields
  <2>7. AsHeard(v, y)
    BY <1>7, <1>9, <1>11, <2>6 DEF AsHeard
  <2>8. QED
    BY <1>9, <2>7 DEF v, T, b, w, y
<1>12. CASE k = m
  <2>1. NoneIn(T, r.close, a, b)
    <3>1. CASE m = "out"
      <4>1. r.close = NoTag
        BY <1>7, <3>1, CloseCases
      <4>2. NoneOf(T, Think1.open, a, b) /\ NoneOf(T, Think2.open, a, b)
        BY <1>2, <1>4, <1>5, <1>10, <1>12, <3>1
      <4> HIDE DEF r
      <4>3. QED
        BY <4>1, <4>2 DEF NoneIn, NoneOf
    <3>2. CASE m = "think"
      <4>1. r.close = Think1.close /\ r.close # NoTag
        BY <1>7, <3>2, CloseCases
      <4>2. NoneOf(T, Think1.close, a, b)
        BY <1>2, <1>4, <1>5, <1>10, <1>12, <3>2
      <4> HIDE DEF r
      <4>3. QED
        BY <4>1, <4>2 DEF NoneIn, NoneOf
    <3>3. CASE m = "thought"
      <4>1. r.close = Think2.close /\ r.close # NoTag
        BY <1>7, <3>3, CloseCases
      <4>2. NoneOf(T, Think2.close, a, b)
        BY <1>2, <1>4, <1>5, <1>10, <1>12, <3>3
      <4> HIDE DEF r
      <4>3. QED
        BY <4>1, <4>2 DEF NoneIn, NoneOf
    <3>4. QED
      BY <1>8, <3>1, <3>2, <3>3 DEF Modes
  <2>2. /\ v.skip = 0 /\ v.close = r.close
        /\ Tells(T, a, b, IF r.close = NoTag THEN "text" ELSE "thinking", Win(T, a, b))
    BY <1>1, <1>7, <2>1, TellsRun
  <2>3. IF r.close = NoTag THEN v.outer = r.outer \o c /\ v.inner = r.inner
        ELSE v.inner = r.inner \o c /\ v.outer = r.outer
    <3>1. Tells(T, a, b, IF r.close = NoTag THEN "text" ELSE "thinking", c)
      BY <1>1, <2>2
    <3>2. "text" # "thinking"
      OBVIOUS
    <3>3. QED
      BY <3>1, <3>2 DEF Tells
  <2> HIDE DEF r, v
  <2>4. ASSUME m = "out" PROVE AsHeard(v, y)
    <3>1. r.close = NoTag
      BY <1>7, <2>4, CloseCases
    <3>2. y.outer = Append(x.outer, w) /\ y.inner = x.inner
      BY <1>9, <1>12, <2>4
    <3>3. Spelled(Append(x.outer, w)) = Spelled(x.outer) \o c
      BY <1>8, SpelledMore DEF c
    <3>4. v.outer = Spelled(y.outer)
      BY <1>7, <2>3, <3>1, <3>2, <3>3
    <3>5. v.inner = Spelled(y.inner)
      BY <1>7, <2>3, <3>1, <3>2
    <3>6. v.skip = 0 /\ v.close = CloseOf(y.mode)
      BY <1>7, <1>9, <1>12, <2>2
    <3>7. QED
      BY <3>4, <3>5, <3>6 DEF AsHeard
  <2>5. ASSUME m # "out" PROVE AsHeard(v, y)
    <3>1. r.close # NoTag
      BY <1>7, <1>8, <2>5, CloseCases DEF Modes
    <3>2. y.inner = Append(x.inner, w) /\ y.outer = x.outer
      BY <1>9, <1>12, <2>5
    <3>3. Spelled(Append(x.inner, w)) = Spelled(x.inner) \o c
      BY <1>8, SpelledMore DEF c
    <3>4. v.inner = Spelled(y.inner)
      BY <1>7, <2>3, <3>1, <3>2, <3>3
    <3>5. v.outer = Spelled(y.outer)
      BY <1>7, <2>3, <3>1, <3>2
    <3>6. v.skip = 0 /\ v.close = CloseOf(y.mode)
      BY <1>7, <1>9, <1>12, <2>2
    <3>7. QED
      BY <3>4, <3>5, <3>6 DEF AsHeard
  <2>6. AsHeard(v, y)
    BY <2>4, <2>5
  <2>7. QED
    BY <1>9, <2>6 DEF v, T, b, w, y
<1>13. QED
  BY <1>11, <1>12

\* What is heard of a text is what Split makes of its words.
LEMMA HeardIsSplit ==
  ASSUME NEW words, PlainWords(words)
  PROVE  LET T == Spelled(words) IN
         /\ PlainWords(Split(words).outer)
         /\ HeardAt(T, Len(T)).outer = Spelled(Split(words).outer)
         /\ HeardAt(T, Len(T)).inner = Spelled(Split(words).inner)
<1> DEFINE T == Spelled(words)
           l == Len(words)
           Same(n) == SortOK(SplitAt(words, n)) /\ AsHeard(HeardAt(T, WordEnd(words, n)), SplitAt(words, n))
           S == {n \in Nat : n <= l => Same(n)}
<1>1. IsList(words) /\ l \in Nat
  BY ListFacts DEF PlainWords
<1>2. IsList(T) /\ T = Upto(words, l)
  BY <1>1, SpelledUnfolds, SpelledIsList
<1>3. 0 \in S
  <2>1. WordEnd(words, 0) = 0
    BY <1>1, SpellingOn, EmptyIsList DEF WordEnd
  <2> DEFINE none == <<>>
             r == Heard(NoTag, 0, none, none)
             x == Sorted("out", none, none)
  <2>2. HeardAt(T, 0) = r
    BY <1>2, HearingOn
  <2>3. SplitAt(words, 0) = x
    BY <1>1, SortingOn
  <2>4. PlainWords(none) /\ Spelled(none) = none
    BY SpelledNone
  <2> HIDE DEF none
  <2>5. r.skip = 0 /\ r.close = NoTag /\ r.outer = none /\ r.inner = none
    BY HeardFields
  <2>6. SortOK(x) /\ x.mode = "out" /\ x.outer = none /\ x.inner = none
    <3>1. "out" \in Modes
      BY DEF Modes
    <3>2. QED
      BY <2>4, <3>1, SortedOK
  <2> HIDE DEF r, x, T
  <2>7. AsHeard(r, x)
    BY <2>4, <2>5, <2>6, CloseCases DEF AsHeard
  <2>8. Same(0)
    BY <2>1, <2>2, <2>3, <2>6, <2>7
  <2> HIDE DEF Same
  <2>9. QED
    BY <2>8
<1>4. ASSUME NEW n \in S PROVE n + 1 \in S
  <2>1. CASE n + 1 <= l
    <3>1. n \in Nat /\ n <= l /\ n + 1 \in 1 .. l /\ (n + 1) - 1 = n
      BY <1>1, <2>1
    <3>2. Same(n)
      BY <3>1
    <3>3. SplitAt(words, n + 1) = Sort(SplitAt(words, n), words[n + 1])
      BY <1>1, <3>1, SortingOn
    <3>4. Same(n + 1)
      BY <2>1, <3>1, <3>2, <3>3, SortNext
    <3> HIDE DEF Same
    <3>5. QED
      BY <3>1, <3>4
  <2>2. CASE ~(n + 1 <= l)
    BY <2>2
  <2>3. QED
    BY <2>1, <2>2
<1>5. S \in SUBSET Nat
  OBVIOUS
<1>6. l \in S
  <2> HIDE DEF S
  <2>1. QED
    BY <1>1, <1>3, <1>4, <1>5, Sorting!Stepwise
<1>7. Same(l)
  BY <1>1, <1>6
<1>8. WordEnd(words, l) = Len(T) /\ Split(words) = SplitAt(words, l)
  BY <1>1, <1>2, SplitUnfolds DEF WordEnd
<1>9. QED
  BY <1>7, <1>8 DEF AsHeard, SortOK

\* Reasoning is in no text.
LEMMA SpelledNoReason ==
  ASSUME NEW words, PlainWords(words)
  PROVE  NoReason(Spelled(words))
<1> DEFINE l == Len(words)
           S == {n \in Nat : n <= l => NoReason(Upto(words, n))}
<1>1. IsList(words) /\ l \in Nat
  BY ListFacts DEF PlainWords
<1>2. 0 \in S
  <2>1. Upto(words, 0) = <<>>
    BY <1>1, SpellingOn
  <2>2. NoReason(<<>>)
    BY EmptyIsList DEF NoReason
  <2>3. QED
    BY <2>1, <2>2
<1>3. ASSUME NEW n \in S PROVE n + 1 \in S
  <2>1. CASE n + 1 <= l
    <3> DEFINE a == Upto(words, n)
               b == Upto(words, n + 1)
               w == words[n + 1]
               c == Symbols(w)
    <3>1. n \in Nat /\ n <= l /\ n + 1 \in 1 .. l
      BY <1>1, <2>1
    <3>2. NoReason(a)
      BY <3>1
    <3>3. b = a \o c /\ IsList(a) /\ IsList(b)
      BY <1>1, <2>1, <3>1, UptoNext
    <3>4. IsList(c)
      BY SymbolsAreList
    <3>5. w \notin {"tool_call", "reason"}
      BY <3>1 DEF PlainWords
    <3>6. NoReason(c)
      <4> HIDE DEF w
      <4>1. CASE w \in TagWords
        <5>1. c \in WordTags
          BY <4>1, WordSymbols
        <5> HIDE DEF c
        <5>2. Len(c) = 3 /\ c[1] \in {"<", "</"} /\ c[2] \in Names /\ c[3] = ">"
          BY <5>1, WordTagSymbols DEF IsTag
        <5>3. \A i \in 1 .. 3 : i = 1 \/ i = 2 \/ i = 3
          OBVIOUS
        <5>4. QED
          BY <5>2, <5>3 DEF NoReason, Names
      <4>2. CASE w \notin TagWords
        <5>1. Len(c) = 1 /\ c[1] = w
          BY <4>2, WordSymbols
        <5> HIDE DEF c
        <5>2. QED
          BY <3>5, <5>1 DEF NoReason
      <4>3. QED
        BY <4>1, <4>2
    <3> HIDE DEF a, b, c
    <3>7. /\ Len(a) \in Nat /\ Len(c) \in Nat /\ Len(b) = Len(a) + Len(c)
          /\ \A i \in 1 .. Len(a) + Len(c) : b[i] = IF i <= Len(a) THEN a[i] ELSE c[i - Len(a)]
      BY <3>3, <3>4, Joins
    <3>8. ASSUME NEW i \in 1 .. Len(b) PROVE b[i] # "reason"
      <4>1. CASE i <= Len(a)
        <5>1. i \in 1 .. Len(a) /\ b[i] = a[i]
          BY <3>7, <4>1
        <5>2. QED
          BY <3>2, <5>1 DEF NoReason
      <4>2. CASE ~(i <= Len(a))
        <5>1. i - Len(a) \in 1 .. Len(c) /\ b[i] = c[i - Len(a)]
          BY <3>7, <4>2
        <5>2. QED
          BY <3>6, <5>1 DEF NoReason
      <4>3. QED
        BY <4>1, <4>2
    <3>9. NoReason(b)
      BY <3>8 DEF NoReason
    <3>10. QED
      BY <3>1, <3>9 DEF b
  <2>2. CASE ~(n + 1 <= l)
    BY <2>2
  <2>3. QED
    BY <2>1, <2>2
<1>4. S \in SUBSET Nat
  OBVIOUS
<1>5. l \in S
  <2> HIDE DEF S
  <2>1. QED
    BY <1>1, <1>2, <1>3, <1>4, Spelling!Stepwise
<1>6. QED
  BY <1>1, <1>5, SpelledUnfolds

\* Of the text of a response.
LEMMA TextFacts ==
  ASSUME setup \in Setups
  PROVE  PlainWords(setup.words) /\ IsList(Text) /\ Len(Text) \in Nat /\ NoReason(Text)
<1>1. setup.words \in Seq(STRING) /\ \A i \in DOMAIN setup.words : setup.words[i] \notin {"tool_call", "reason"}
  BY StreamAssumption
<1>2. IsList(setup.words)
  BY <1>1 DEF IsList
<1>3. PlainWords(setup.words)
  BY <1>1, <1>2, ListFacts DEF PlainWords
<1>4. Len(setup.words) \in Nat
  BY <1>2, ListFacts
<1>5. IsList(Text) /\ NoReason(Text)
  BY <1>3, <1>4, SpelledIsList, SpelledNoReason DEF Text
<1>6. QED
  BY <1>3, <1>5, ListFacts

-----------------------------------------------------------------------------
(* How far a response has come.                                            *)

\* What came over the wire has been told, as far as the parsers do not hold it back.
Progress(t, e) == IF Tagged THEN HearsSoFar(Text, t, e) ELSE Told(Text, t, e, <<>>)

\* All of the text, and all of the thoughts.
OutsideText == IF Tagged THEN OuterOf(Text) ELSE Text
Thoughts == IF Tagged THEN HeardAt(Text, Len(Text)).inner ELSE <<>>
AllOf(T, h) ==
  View(IF setup.native THEN AddVisible(<<>>, "text", T) ELSE ShownAt(T, Len(T)).out, h)
ToldAll(t) == SeenOf(t) = AllOf(OutsideText, Thoughts)

WrittenInv == Reading /\ setup.adapter # "anthropic" => Progress(s, pos)
WrittenDone == ended = "complete" /\ setup.adapter # "anthropic" => ToldAll(s)

LEMMA CalmProgress ==
  ASSUME NEW t, NEW e, Progress(t, e), NEW u, Calm(t, u), u.tool = t.tool, u.thinking = t.thinking
  PROVE  Progress(u, e)
<1>1. CASE Tagged
  <2>1. PICK q : ReadTo(Text, t.thinking, q, e) /\ HeardTold(Text, t, q)
    BY <1>1 DEF Progress, HearsSoFar
  <2>2. HeardTold(Text, u, q)
    BY <2>1, CalmTold DEF HeardTold
  <2>3. ReadTo(Text, u.thinking, q, e)
    BY <2>1
  <2>4. QED
    BY <1>1, <2>2, <2>3 DEF Progress, HearsSoFar
<1>2. CASE ~Tagged
  <2>1. Told(Text, t, e, <<>>)
    BY <1>2 DEF Progress
  <2>2. Told(Text, u, e, <<>>)
    BY <2>1, CalmTold
  <2>3. QED
    BY <1>2, <2>2 DEF Progress
<1>3. QED
  BY <1>1, <1>2

LEMMA InOrder ==
  ASSUME NEW t, NEW e, Progress(t, e)
  PROVE  Ordered(t)
BY DEF Progress, HearsSoFar, HeardTold, Told

\* Reasoning out of band.
LEMMA ReasonProgress ==
  ASSUME NEW t, NEW N, Good(t, N), NEW e, Progress(t, e),
         NEW u, u = AddThinking(t, <<"reason">>) \/ u = OpenaiThinking(t, <<"reason">>)
  PROVE  Progress(u, e)
<1>1. u.thinking = t.thinking
  <2>1. Turns(t, AddThinking(t, <<"reason">>), N)
    BY AddingThinking
  <2>2. Turns(t, OpenaiThinking(t, <<"reason">>), N)
    BY OpenaiTextTurns
  <2>3. QED
    BY <2>1, <2>2 DEF Turns
<1>2. ASSUME NEW T, NEW n, NEW h, Told(T, t, n, h)
      PROVE  Told(T, u, n, h)
  BY <1>2, ReasonTold, OpenaiReasonTold
<1>3. CASE Tagged
  <2>1. PICK q : ReadTo(Text, t.thinking, q, e) /\ HeardTold(Text, t, q)
    BY <1>3 DEF Progress, HearsSoFar
  <2>2. HeardTold(Text, u, q)
    BY <1>2, <2>1 DEF HeardTold
  <2>3. ReadTo(Text, u.thinking, q, e)
    BY <1>1, <2>1
  <2>4. QED
    BY <1>3, <2>2, <2>3 DEF Progress, HearsSoFar
<1>4. CASE ~Tagged
  <2>1. Told(Text, u, e, <<>>)
    BY <1>2, <1>4 DEF Progress
  <2>2. QED
    BY <1>4, <2>1 DEF Progress
<1>5. QED
  BY <1>3, <1>4

\* A piece of content.
IsPiece(e, f) == e \in Nat /\ f \in Nat /\ e <= f /\ f <= Len(Text)

LEMMA OpenaiProgress ==
  ASSUME setup \in Setups, NEW e, NEW f, IsPiece(e, f), NEW t, NEW N, Good(t, N), Progress(t, e),
         Openai, setup.native \/ ~setup.thinks, NEW body, body = Win(Text, e, f)
  PROVE  Progress(IF setup.native THEN OpenaiText(t, body) ELSE OpenaiToolText(t, body), f)
<1> DEFINE u == IF setup.native THEN OpenaiText(t, body) ELSE OpenaiToolText(t, body)
<1>1. ~Tagged
  BY DEF Tagged
<1>2. Told(Text, t, e, <<>>)
  BY <1>1 DEF Progress
<1>3. Told(Text, u, f, <<>>)
  BY <1>2, TextFacts, OpenaiTold DEF IsPiece
<1> HIDE DEF u
<1>4. Progress(u, f)
  BY <1>1, <1>3 DEF Progress
<1>5. QED
  BY <1>4 DEF u

LEMMA OpenaiThinkingProgress ==
  ASSUME setup \in Setups, NEW e, NEW f, IsPiece(e, f), NEW t, NEW N, Good(t, N), Progress(t, e),
         ~setup.native, setup.thinks,
         NEW fed, fed = FeedThinking(t.thinking, Win(Text, e, f)), fed.events = <<>>
  PROVE  Progress([t EXCEPT !.thinking = fed.parser], f)
<1>1. Tagged
  BY DEF Tagged
<1>2. HearsSoFar(Text, t, e)
  BY <1>1 DEF Progress
<1>3. HearsSoFar(Text, WithThinking(t, fed.parser), f)
  BY <1>2, TextFacts, OpenaiHears DEF IsPiece
<1>4. Progress(WithThinking(t, fed.parser), f)
  BY <1>1, <1>3 DEF Progress
<1>5. QED
  BY <1>4 DEF WithThinking

LEMMA OnePiece ==
  ASSUME NEW t, NEW body, body # <<>>
  PROVE  OllamaPieces(t, Chunk("text", body)) = OllamaText(t, body)
<1> DEFINE e == Event("text", body)
           none == <<>>
<1>1. Chunk("text", body) = <<e>>
  BY DEF Chunk
<1>2. Adds(none, e) = <<e>>
  <2>1. IsList(<<e>>)
    BY OneIsList
  <2>2. QED
    BY <2>1, JoinsEmpty DEF Adds
<1>3. IsList(none)
  BY EmptyIsList
<1>4. OllamaPieces(t, none) = t
  BY PieceNone
<1>5. e.kind = "text" /\ e.body = body
  BY EventFields
<1> HIDE DEF none, e
<1>6. OllamaPieces(t, Adds(none, e)) = OllamaPiece(OllamaPieces(t, none), e)
  BY <1>3, PieceMore
<1>7. OllamaPieces(t, <<e>>) = OllamaPiece(t, e)
  BY <1>2, <1>4, <1>6
<1>8. OllamaPiece(t, e) = OllamaText(t, body)
  BY <1>5 DEF OllamaPiece
<1>9. QED
  BY <1>1, <1>7, <1>8

LEMMA OllamaProgress ==
  ASSUME setup \in Setups, NEW e, NEW f, IsPiece(e, f), e # f, NEW t, NEW N, Good(t, N), Progress(t, e),
         ~Openai, NEW body, body = Win(Text, e, f), NEW piped, piped = PipeContent(t, body)
  PROVE  Progress(OllamaPieces(piped.s, piped.pieces), f)
<1> DEFINE fed == FeedThinking(t.thinking, body)
<1>1. Tagged <=> setup.thinks
  BY DEF Tagged
<1>2. CASE setup.thinks
  <2>1. piped.s = WithThinking(t, fed.parser) /\ piped.pieces = fed.events
    BY <1>2 DEF PipeContent, WithThinking
  <2>2. HearsSoFar(Text, t, e)
    BY <1>1, <1>2 DEF Progress
  <2>3. fed = FeedThinking(t.thinking, Win(Text, e, f))
    OBVIOUS
  <2> HIDE DEF fed
  <2>4. HearsSoFar(Text, OllamaPieces(WithThinking(t, fed.parser), fed.events), f)
    BY <2>2, <2>3, TextFacts, OllamaHears DEF IsPiece
  <2>5. QED
    BY <1>1, <1>2, <2>1, <2>4 DEF Progress
<1>3. CASE ~setup.thinks
  <2>1. piped.s = t /\ piped.pieces = Chunk("text", body)
    BY <1>3 DEF PipeContent
  <2>2. Told(Text, t, e, <<>>)
    BY <1>1, <1>3 DEF Progress
  <2>3. Told(Text, OllamaText(t, body), f, <<>>)
    BY <2>2, TextFacts, OllamaTold DEF IsPiece
  <2>4. body # <<>>
    <3>1. Len(Win(Text, e, f)) = f - e
      BY TextFacts, WinFacts DEF IsPiece
    <3>2. f - e # 0
      BY DEF IsPiece
    <3>3. QED
      BY <3>1, <3>2, EmptyIsList
  <2>5. OllamaPieces(piped.s, piped.pieces) = OllamaText(t, body)
    BY <2>1, <2>4, OnePiece
  <2>6. QED
    BY <1>1, <1>3, <2>3, <2>5 DEF Progress
<1>4. QED
  BY <1>2, <1>3

-----------------------------------------------------------------------------
(* Native calls, and the ends of blocks, show nothing.                     *)

\* u shows what t does, and its parsers are as they were.
Still(t, u) == Calm(t, u) /\ u.tool = t.tool /\ u.thinking = t.thinking

LEMMA StillProgress ==
  ASSUME NEW t, NEW e, Progress(t, e), NEW u, Still(t, u)
  PROVE  Progress(u, e)
BY CalmProgress DEF Still

LEMMA StillStill ==
  ASSUME NEW t, NEW u, NEW v, Still(t, u), Still(u, v)
  PROVE  Still(t, v)
BY CalmCalm DEF Still

LEMMA StaysStill ==
  ASSUME NEW t, Ordered(t)
  PROVE  Still(t, t)
BY DEF Still, Calm

LEMMA WholeCallStill ==
  ASSUME NEW t, NEW N, Good(t, N), Ordered(t), NEW body, IsList(body)
  PROVE  Still(t, AddCall(t, "native", body))
<1>1. Unseen("native") /\ "native" # "thinking" /\ Shape(t)
  BY DEF Unseen, Good
<1> DEFINE u == AddCall(t, "native", body)
<1>2. Ordered(u) /\ SeenOf(u) = SeenOf(t)
  BY <1>1, CallSeen
<1>3. Turns(t, u, N)
  BY AddingCall
<1> HIDE DEF u
<1>4. Still(t, u)
  BY <1>2, <1>3 DEF Turns, Still, Calm
<1>5. QED
  BY <1>4 DEF u

LEMMA NativeDeltaStill ==
  ASSUME NEW t, Shape(t), Ordered(t), NEW i \in DOMAIN t.blocks, t.blocks[i].open,
         t.blocks[i].kind = "native", NEW body, IsList(body)
  PROVE  Still(t, BlockDelta(t, i, body))
<1> DEFINE u == BlockDelta(t, i, body)
           more == t.blocks[i].body \o body
           c == Block("native", more, TRUE)
<1>1. IsList(more)
  <2>1. IsList(t.blocks[i].body)
    BY DEF Ordered, BodiesOK
  <2>2. QED
    BY <2>1, Joins
<1>2. Swapped(t, u, i, c)
  BY Extended
<1> HIDE DEF u, more
<1>3. c.kind = "native" /\ c.body = more
  BY DEF Block
<1>4. Unseen("native")
  BY DEF Unseen
<1> HIDE DEF c
<1>5. Calm(t, u)
  BY <1>1, <1>2, <1>3, <1>4, SwapCalm
<1>6. Still(t, u)
  BY <1>2, <1>5 DEF Swapped, Still
<1>7. QED
  BY <1>6 DEF u

\* The block of a native call that starts.
LEMMA NativeStartStill ==
  ASSUME NEW t, NEW N, Good(t, N), Ordered(t)
  PROVE  Still(t, BlockStart(t, "native"))
<1> DEFINE u == BlockStart(t, "native")
           n == Len(t.blocks) + 1
           c == Block("native", <<>>, TRUE)
<1>1. Shape(t)
  BY DEF Good
<1>2. /\ Shape(u) /\ u.text = t.text /\ u.think = t.think
      /\ u.thinking = t.thinking /\ u.tool = t.tool
      /\ Len(u.blocks) = n /\ DOMAIN t.blocks = 1 .. Len(t.blocks)
      /\ \A i \in DOMAIN t.blocks : u.blocks[i] = t.blocks[i]
      /\ u.blocks[n] = c
  BY <1>1, Started
<1>3. c.kind = "native" /\ c.body = <<>>
  BY DEF Block
<1> HIDE DEF u, c
<1>4. IsList(u.blocks[n].body)
  BY <1>2, <1>3, EmptyIsList
<1>5. u.blocks[n].kind \notin Beside("text") /\ u.blocks[n].kind \notin Beside("thinking")
  BY <1>2, <1>3 DEF Beside
<1>6. Joined(t, u, n)
  BY <1>1, <1>2, <1>4, <1>5 DEF Joined
<1>7. Ordered(u) /\ SeenOf(u) = See(SeenOf(t), u.blocks[n])
  BY <1>6, JoinsSeen
<1>8. See(SeenOf(t), u.blocks[n]) = SeenOf(t)
  BY <1>1, <1>2, <1>3, SeenIsOK, StartCalm
<1>9. Still(t, u)
  BY <1>2, <1>7, <1>8 DEF Still, Calm
<1>10. QED
  BY <1>9 DEF u

LEMMA OpenCallStill ==
  ASSUME Inv, Openai, Reading, NEW i \in CallIndexes, ~calls[i].named, Ordered(s)
  PROVE  Still(s, OpenCall(s, i).s)
<1> DEFINE w == CloseThinking(CloseText(s))
           o == BlockStart(w, "native")
           n == Len(o.blocks)
           p == IF args[i] = <<>> THEN o ELSE BlockDelta(o, n, args[i])
<1>1. calls[i].pending = args[i] /\ IsList(args[i]) /\ setup.adapter # "anthropic"
  BY DEF Inv, CallsInv, Openai
<1>2. OpenCall(s, i).s = p
  BY <1>1 DEF OpenCall
<1>3. Turns(s, w, Lasting) /\ Calm(s, w)
  BY <1>1, ReadingOn, ClosingBoth, ClosedBoth
<1>4. Still(s, w)
  BY <1>3 DEF Still, Turns
<1>5. Good(w, Lasting) /\ Ordered(w)
  BY <1>3 DEF Turns, Calm
<1> HIDE DEF w
<1>6. Good(o, Lasting \cup {n}) /\ n \in DOMAIN o.blocks /\ o.blocks[n].kind = "native" /\ o.blocks[n].open
  BY <1>5, OpeningCall
<1>7. Still(w, o)
  BY <1>5, NativeStartStill
<1>8. Ordered(o) /\ Shape(o)
  BY <1>6, <1>7 DEF Still, Calm, Good
<1> HIDE DEF o, n
<1>9. Still(o, p)
  <2>1. CASE args[i] = <<>>
    BY <1>8, <2>1, StaysStill
  <2>2. CASE args[i] # <<>>
    <3>1. Still(o, BlockDelta(o, n, args[i]))
      BY <1>1, <1>6, <1>8, NativeDeltaStill
    <3>2. QED
      BY <2>2, <3>1
  <2>3. QED
    BY <2>1, <2>2
<1> HIDE DEF p
<1>10. Still(s, p)
  BY <1>4, <1>7, <1>9, StillStill
<1>11. QED
  BY <1>2, <1>10

LEMMA ToolCallDeltaStill ==
  ASSUME Inv, NEW i \in CallIndexes, NEW name \in BOOLEAN, NEW chunk \in {<<>>, <<Len(args[i])>>},
         ToolCallDelta(i, name, chunk), Ordered(s)
  PROVE  Still(s, s')
<1>1. /\ Openai /\ Reading /\ (name => ~calls[i].named) /\ setup.adapter # "anthropic"
      /\ Good(s, Lasting)
  BY ReadingOn DEF ToolCallDelta, Openai
<1>2. IsList(chunk)
  BY EmptyIsList, OneIsList
\* o: the blocks when the block n of the call is open.
<1>3. ASSUME NEW o, NEW N, Good(o, N), Still(s, o), NEW n \in N, Holder(o, n, "native"),
             s' = IF chunk = <<>> THEN o ELSE BlockDelta(o, n, chunk)
      PROVE  Still(s, s')
  <2>1. n \in DOMAIN o.blocks /\ o.blocks[n].open /\ o.blocks[n].kind = "native" /\ Shape(o) /\ Ordered(o)
    BY <1>3 DEF Holder, Good, Still, Calm
  <2>2. Still(o, BlockDelta(o, n, chunk))
    BY <1>2, <2>1, NativeDeltaStill
  <2>3. Still(s, BlockDelta(o, n, chunk))
    BY <1>3, <2>2, StillStill
  <2>4. QED
    BY <1>3, <2>3
<1>4. CASE name
  <2> DEFINE o == OpenCall(s, i)
             c == o.call
             t == o.s
             n == c.at
  <2>1. /\ Good(t, Lasting \cup {n}) /\ c = [at |-> n, named |-> TRUE, pending |-> <<>>]
    BY <1>1, <1>4, OpeningItsBlock
  <2>2. Still(s, t)
    BY <1>1, <1>4, OpenCallStill
  <2>3. c.named
    <3> HIDE DEF c
    <3>1. QED
      BY <2>1
  <2>4. s' = IF chunk = <<>> THEN t ELSE BlockDelta(t, n, chunk)
    BY <1>4, <2>3 DEF ToolCallDelta
  <2> DEFINE N == Lasting \cup {n}
  <2>5. Good(t, N) /\ n \in N
    BY <2>1
  <2> HIDE DEF t, c, n, N
  <2>6. Holder(t, n, "native")
    BY <2>5 DEF Good, Sound
  <2>7. QED
    BY <1>3, <2>2, <2>4, <2>5, <2>6
<1>5. CASE ~name /\ calls[i].named
  <2> DEFINE n == calls[i].at
  <2>1. s' = IF chunk = <<>> THEN s ELSE BlockDelta(s, n, chunk)
    BY <1>5 DEF ToolCallDelta
  <2>2. n \in Lasting
    BY <1>1, <1>5 DEF Lasting
  <2> HIDE DEF n
  <2>3. Holder(s, n, "native")
    BY <1>1, <2>2 DEF Good, Sound
  <2>4. QED
    BY <1>1, <1>3, <2>1, <2>2, <2>3, StaysStill
<1>6. CASE ~name /\ ~calls[i].named
  <2>1. s' = s
    BY <1>6 DEF ToolCallDelta
  <2>2. QED
    BY <2>1, StaysStill
<1>7. QED
  BY <1>4, <1>5, <1>6

LEMMA OllamaCallStill ==
  ASSUME Inv, NEW i \in CallIndexes, NEW named \in BOOLEAN, OllamaCall(i, named), Ordered(s)
  PROVE  Still(s, s')
<1>1. Reading /\ setup.adapter # "anthropic"
  BY DEF OllamaCall, Ollama
<1>2. Good(s, Lasting)
  BY <1>1, ReadingOn
<1>3. CASE named
  <2> DEFINE body == <<"arg">>
  <2>1. IsList(body)
    BY OneIsList
  <2>2. s' = AddCall(s, "native", body)
    BY <1>3 DEF OllamaCall
  <2> HIDE DEF body
  <2>3. QED
    BY <1>2, <2>1, <2>2, WholeCallStill
<1>4. CASE ~named
  <2>1. s' = s
    BY <1>4 DEF OllamaCall
  <2>2. QED
    BY <2>1, StaysStill
<1>5. QED
  BY <1>3, <1>4

-----------------------------------------------------------------------------
(* The end of a response.                                                  *)

\* What a ToolCallTextParser holds back comes out.
LEMMA Flushed ==
  ASSUME NEW T, IsList(T), NEW t, NEW N, Good(t, N), NEW h, Told(T, t, Len(T), h),
         NEW u, u = IF setup.native THEN t ELSE ParserEvents(t, FinalizeToolText(t.tool))
  PROVE  Good(u, N) /\ Ordered(u) /\ SeenOf(u) = AllOf(T, h)
<1>1. CASE setup.native
  <2>1. Ordered(t) /\ SeenOf(t) = View(AddVisible(<<>>, "text", Win(T, 0, Len(T))), h)
    BY <1>1 DEF Told
  <2>2. Win(T, 0, Len(T)) = T
    BY WinAll
  <2>3. QED
    BY <1>1, <2>1, <2>2 DEF AllOf
<1>2. CASE ~setup.native
  <2>1. u = ParserEvents(t, FinalizeToolText(t.tool))
    BY <1>2
  <2>2. Good(u, N) /\ Ordered(u) /\ SeenOf(u) = View(ShownAt(T, Len(T)).out, h)
    BY <1>2, <2>1, FlushTold
  <2>3. QED
    BY <1>2, <2>2 DEF AllOf
<1>3. QED
  BY <1>1, <1>2

\* Nothing is left in a ThinkingParser.
LEMMA HeardAll ==
  ASSUME setup \in Setups, Tagged, NEW t, NEW N, Good(t, N), HeardTold(Text, t, Len(Text)),
         NEW u, u = IF setup.native THEN t ELSE ParserEvents(t, FinalizeToolText(t.tool))
  PROVE  Good(u, N) /\ Ordered(u) /\ ToldAll(u)
<1> DEFINE T == OuterOf(Text)
           h == HeardAt(Text, Len(Text)).inner
<1>1. IsList(T)
  <2>1. Len(Text) \in 0 .. Len(Text)
    BY TextFacts
  <2>2. HeardOK(HeardAt(Text, Len(Text)))
    BY <2>1, TextFacts, HeardIsOK
  <2>3. QED
    BY <2>2 DEF HeardOK, OuterOf
<1>2. Told(T, t, Len(T), h)
  BY DEF HeardTold, OuterOf
<1>3. T = OutsideText /\ h = Thoughts
  BY DEF OutsideText, Thoughts
<1> HIDE DEF T, h
<1>4. QED
  BY <1>1, <1>2, <1>3, Flushed DEF ToldAll

LEMMA UntaggedAll ==
  ASSUME setup \in Setups, ~Tagged, NEW t, NEW N, Good(t, N), Progress(t, Len(Text)),
         NEW u, u = IF setup.native THEN t ELSE ParserEvents(t, FinalizeToolText(t.tool))
  PROVE  Good(u, N) /\ Ordered(u) /\ ToldAll(u)
<1> DEFINE h == <<>>
<1>1. Told(Text, t, Len(Text), h) /\ Text = OutsideText /\ h = Thoughts
  BY DEF Progress, OutsideText, Thoughts
<1> HIDE DEF h
<1>2. QED
  BY <1>1, TextFacts, Flushed DEF ToldAll

LEMMA CalmAll ==
  ASSUME NEW t, NEW u, ToldAll(t), Calm(t, u)
  PROVE  ToldAll(u)
BY DEF ToldAll, Calm

\* openai completes only when its ThinkingParser, if it has one, holds nothing back.
LEMMA OpenaiFlushed ==
  ASSUME setup \in Setups, Openai, NEW t, NEW N, Good(t, N), Progress(t, Len(Text)),
         ~setup.native /\ setup.thinks => FinalizeThinking(t.thinking) = <<>>,
         NEW u, u = IF setup.native THEN t ELSE OpenaiEvents(t, FinalizeToolText(t.tool))
  PROVE  Good(u, N) /\ Ordered(u) /\ ToldAll(u)
<1>1. u = IF setup.native THEN t ELSE ParserEvents(t, FinalizeToolText(t.tool))
  BY DEF ParserEvents
<1>2. CASE ~Tagged
  BY <1>1, <1>2, UntaggedAll
<1>3. CASE Tagged
  <2>1. PICK q : ReadTo(Text, t.thinking, q, Len(Text)) /\ HeardTold(Text, t, q)
    BY <1>3 DEF Progress, HearsSoFar
  <2>2. t.thinking.buf = <<>>
    <3>1. FinalizeThinking(t.thinking) = <<>>
      BY <1>3 DEF Tagged
    <3>2. QED
      BY <3>1 DEF FinalizeThinking, Chunk
  <2>3. q \in Nat /\ q <= Len(Text) /\ Win(Text, q, Len(Text)) = <<>>
    BY <2>1, <2>2 DEF ReadTo
  <2>4. Len(Text) - q = 0
    <3> DEFINE l == Len(Text)
    <3>1. l \in Nat /\ l <= Len(Text)
      BY TextFacts
    <3> HIDE DEF l
    <3>2. Len(Win(Text, q, l)) = l - q
      BY <2>3, <3>1, TextFacts, WinFacts DEF l
    <3>3. QED
      BY <2>3, <3>2, EmptyIsList DEF l
  <2>5. q = Len(Text)
    BY <2>3, <2>4, TextFacts
  <2>6. HeardTold(Text, t, Len(Text))
    BY <2>1, <2>5
  <2>7. QED
    BY <1>1, <1>3, <2>6, HeardAll
<1>4. QED
  BY <1>2, <1>3

\* ollama flushes its ThinkingParser first.
LEMMA OllamaFlushed ==
  ASSUME setup \in Setups, ~Openai, NEW t, NEW N, Good(t, N), Progress(t, Len(Text))
  PROVE  Good(OllamaFlush(t), N) /\ Ordered(OllamaFlush(t)) /\ ToldAll(OllamaFlush(t))
<1> DEFINE v == IF setup.thinks THEN OllamaPieces(t, FinalizeThinking(t.thinking)) ELSE t
           u == OllamaFlush(t)
<1>1. u = IF setup.native THEN v ELSE ParserEvents(v, FinalizeToolText(v.tool))
  BY DEF OllamaFlush, ParserEvents
<1>2. Tagged <=> setup.thinks
  BY DEF Tagged
<1>3. CASE ~Tagged
  <2>1. v = t
    BY <1>2, <1>3
  <2> HIDE DEF u, v
  <2>2. Good(u, N) /\ Ordered(u) /\ ToldAll(u)
    BY <1>1, <1>3, <2>1, UntaggedAll
  <2>3. QED
    BY <2>2 DEF u
<1>4. CASE Tagged
  <2>1. v = OllamaPieces(t, FinalizeThinking(t.thinking))
    BY <1>2, <1>4
  <2>2. HearsSoFar(Text, t, Len(Text))
    BY <1>4 DEF Progress
  <2> HIDE DEF u, v
  <2>3. Good(v, N) /\ HeardTold(Text, v, Len(Text))
    BY <2>1, <2>2, TextFacts, ThinkingFlushTold
  <2>4. Good(u, N) /\ Ordered(u) /\ ToldAll(u)
    BY <1>1, <1>4, <2>3, HeardAll
  <2>5. QED
    BY <2>4 DEF u
<1>5. QED
  BY <1>3, <1>4

LEMMA ClosingCallsCalm ==
  ASSUME CallsInv, Openai, NEW t, Good(t, Lasting), Ordered(t)
  PROVE  Calm(t, CloseCalls(t))
<1> DEFINE L(i) == IF calls[i].named THEN {calls[i].at} ELSE {}
           v == CloseCall(t, 0)
           u == CloseCall(v, 1)
<1>1. Lasting = L(0) \cup L(1)
  BY DEF Lasting, CallIndexes
<1>2. calls[0].named /\ calls[1].named => calls[0].at # calls[1].at
  BY DEF CallsInv, CallIndexes
<1>3. Calm(t, t)
  BY DEF Calm
<1>4. Good(v, L(1)) /\ Calm(t, v)
  <2>1. CASE calls[0].named
    <3> DEFINE i == calls[0].at
    <3>1. v = BlockStop(t, i) /\ i \in Lasting
      BY <1>1, <2>1 DEF CloseCall
    <3>2. Lasting \ {i} = L(1)
      BY <1>1, <1>2, <2>1
    <3> HIDE DEF v, L, i
    <3>3. i \in DOMAIN t.blocks /\ t.blocks[i].open /\ Shape(t)
      BY <3>1 DEF Good, Sound, Holder
    <3>4. QED
      BY <3>1, <3>2, <3>3, ClosingCall, StopCalm
  <2>2. CASE ~calls[0].named
    BY <1>1, <1>3, <2>2 DEF CloseCall
  <2>3. QED
    BY <2>1, <2>2
<1> HIDE DEF v
<1>5. Calm(v, u)
  <2>1. CASE calls[1].named
    <3> DEFINE i == calls[1].at
    <3>1. u = BlockStop(v, i) /\ i \in L(1)
      BY <2>1 DEF CloseCall
    <3> HIDE DEF u, L, i
    <3>2. i \in DOMAIN v.blocks /\ v.blocks[i].open /\ Shape(v) /\ Ordered(v)
      BY <1>4, <3>1 DEF Good, Sound, Holder, Calm
    <3>3. QED
      BY <3>1, <3>2, StopCalm
  <2>2. CASE ~calls[1].named
    BY <1>4, <2>2 DEF CloseCall, Calm
  <2>3. QED
    BY <2>1, <2>2
<1> HIDE DEF u
<1>6. Calm(t, u)
  BY <1>4, <1>5, CalmCalm
<1>7. QED
  BY <1>6 DEF CloseCalls, u, v

-----------------------------------------------------------------------------
(* The steps.                                                              *)

\* What a step has to show, for the state that it leaves.
LEMMA Onward ==
  ASSUME setup' = setup,
         setup.adapter # "anthropic" /\ ended' = "no" => Progress(s', pos'),
         setup.adapter # "anthropic" /\ ended' = "complete" => ToldAll(s')
  PROVE  WrittenInv' /\ WrittenDone'
<1>1. WrittenInv'
  BY DEF WrittenInv, Reading, Progress, Tagged, Openai, HearsSoFar, HeardTold, Told, Text
<1>2. WrittenDone'
  BY DEF WrittenDone, ToldAll, AllOf, OutsideText, Thoughts, Tagged, Openai, Text
<1>3. QED
  BY <1>1, <1>2

\* What a step may rest on.
LEMMA SoFar ==
  ASSUME Inv, WrittenInv, Reading, setup.adapter # "anthropic"
  PROVE  /\ Good(s, Lasting) /\ Progress(s, pos) /\ Ordered(s)
         /\ setup \in Setups /\ pos \in Nat /\ pos <= Len(Text) /\ Len(Text) \in Nat
<1>1. Good(s, Lasting) /\ Progress(s, pos)
  BY ReadingOn DEF WrittenInv
<1>2. setup \in Setups /\ pos \in 0 .. Len(Text)
  BY DEF Inv, TypesInv
<1>3. Len(Text) \in Nat
  BY <1>2, TextFacts
<1>4. QED
  BY <1>1, <1>2, <1>3, InOrder

LEMMA WrittenCall ==
  ASSUME Inv, WrittenInv, NEW i \in CallIndexes, NEW b \in BOOLEAN,
         OllamaCall(i, b) \/ \E chunk \in {<<>>, <<Len(args[i])>>} : ToolCallDelta(i, b, chunk)
  PROVE  WrittenInv' /\ WrittenDone'
<1>1. /\ Reading /\ setup.adapter # "anthropic" /\ setup' = setup /\ pos' = pos /\ ended' = "no"
  BY DEF OllamaCall, ToolCallDelta, Openai, Ollama, Reading
<1>2. Still(s, s')
  BY <1>1, SoFar, OllamaCallStill, ToolCallDeltaStill
<1>3. Progress(s', pos)
  BY <1>1, <1>2, SoFar, StillProgress
<1>4. QED
  BY <1>1, <1>3, Onward

LEMMA WrittenReasoning ==
  ASSUME Inv, WrittenInv, OpenaiReasoning \/ OllamaReasoning
  PROVE  WrittenInv' /\ WrittenDone'
<1>1. /\ Reading /\ setup.adapter # "anthropic" /\ setup' = setup /\ pos' = pos /\ ended' = "no"
      /\ s' = AddThinking(s, <<"reason">>) \/ s' = OpenaiThinking(s, <<"reason">>)
  BY DEF OpenaiReasoning, OllamaReasoning, Openai, Ollama, Reading
<1>2. Progress(s', pos)
  BY <1>1, SoFar, ReasonProgress
<1>3. QED
  BY <1>1, <1>2, Onward

\* A piece of content is the part of the text up to where it ends.
LEMMA ThePiece ==
  ASSUME Inv, WrittenInv, setup.adapter # "anthropic", NEW k \in 1 .. MaxPiece, Content(k)
  PROVE  /\ Reading /\ setup' = setup /\ IsPiece(pos, pos') /\ pos # pos'
         /\ Piece(k) = Win(Text, pos, pos')
<1>1. Reading /\ setup' = setup /\ pos' = pos + k /\ k <= Len(Text) - pos
  BY DEF Content
<1>2. pos \in Nat /\ Len(Text) \in Nat /\ k \in Nat /\ k # 0
  BY <1>1, SoFar, StreamAssumption
<1>3. IsPiece(pos, pos') /\ pos # pos'
  <2> DEFINE l == Len(Text)
  <2>1. l \in Nat /\ k <= l - pos
    BY <1>1, <1>2
  <2> HIDE DEF l
  <2>2. pos' \in Nat /\ pos <= pos' /\ pos' <= l /\ pos # pos'
    BY <1>1, <1>2, <2>1
  <2>3. QED
    BY <1>2, <2>2 DEF IsPiece, l
<1>4. Piece(k) = Win(Text, pos, pos')
  BY <1>1 DEF Piece, Win
<1>5. QED
  BY <1>1, <1>3, <1>4

LEMMA WrittenContent ==
  ASSUME Inv, WrittenInv, NEW k \in 1 .. MaxPiece,
         OpenaiContent(k) \/ OpenaiThinkingContent(k) \/ OllamaContent(k)
  PROVE  WrittenInv' /\ WrittenDone'
<1> DEFINE body == Piece(k)
           f == pos'
<1>1. Content(k) /\ setup.adapter # "anthropic"
  BY DEF OpenaiContent, OpenaiThinkingContent, OllamaContent, Openai, Ollama
<1>2. Reading /\ setup' = setup /\ IsPiece(pos, f) /\ pos # f /\ body = Win(Text, pos, f)
  BY <1>1, ThePiece
<1>3. Good(s, Lasting) /\ Progress(s, pos) /\ setup \in Setups
  BY <1>1, <1>2, SoFar
<1>4. CASE OpenaiContent(k)
  <2> DEFINE u == IF setup.native THEN OpenaiText(s, body) ELSE OpenaiToolText(s, body)
  <2>1. s' = u /\ Openai /\ (setup.native \/ ~setup.thinks) /\ ended' = "no"
    BY <1>2, <1>4 DEF OpenaiContent, Reading
  <2> HIDE DEF body, f
  <2>2. Progress(u, f)
    BY <1>2, <1>3, <2>1, OpenaiProgress
  <2> HIDE DEF u
  <2>3. Progress(s', pos')
    BY <2>1, <2>2 DEF f
  <2>4. QED
    BY <1>2, <2>1, <2>3, Onward
<1>5. CASE OpenaiThinkingContent(k)
  <2> DEFINE fed == FeedThinking(s.thinking, body)
  <2>1. /\ s' = [s EXCEPT !.thinking = fed.parser] /\ ~setup.native /\ setup.thinks
        /\ ended' = IF fed.events = <<>> THEN "no" ELSE "typeError"
    BY <1>5 DEF OpenaiThinkingContent
  <2>2. fed = FeedThinking(s.thinking, Win(Text, pos, f))
    BY <1>2
  <2> HIDE DEF body, f, fed
  <2>3. CASE fed.events = <<>>
    <3>1. Progress([s EXCEPT !.thinking = fed.parser], f)
      BY <1>2, <1>3, <2>1, <2>2, <2>3, OpenaiThinkingProgress
    <3>2. Progress(s', pos') /\ ended' = "no"
      BY <2>1, <2>3, <3>1 DEF f
    <3>3. QED
      BY <1>2, <3>2, Onward
  <2>4. CASE fed.events # <<>>
    <3>1. ended' = "typeError"
      BY <2>1, <2>4
    <3>2. QED
      BY <1>2, <3>1, Onward
  <2>5. QED
    BY <2>3, <2>4
<1>6. CASE OllamaContent(k)
  <2> DEFINE piped == PipeContent(s, body)
             u == OllamaPieces(piped.s, piped.pieces)
  <2>1. s' = u /\ ~Openai /\ ended' = "no"
    BY <1>2, <1>6 DEF OllamaContent, Ollama, Openai, Reading
  <2> HIDE DEF body, f, piped
  <2>2. piped = PipeContent(s, body)
    BY DEF piped
  <2>3. Progress(u, f)
    BY <1>2, <1>3, <2>1, <2>2, OllamaProgress
  <2> HIDE DEF u
  <2>4. Progress(s', pos')
    BY <2>1, <2>3 DEF f
  <2>5. QED
    BY <1>2, <2>1, <2>4, Onward
<1>7. QED
  BY <1>4, <1>5, <1>6

LEMMA WrittenAtEndOfOpenai ==
  ASSUME Inv, WrittenInv, OpenaiEnds
  PROVE  WrittenInv' /\ WrittenDone'
<1> DEFINE e == IF setup.native THEN s ELSE OpenaiEvents(s, FinalizeToolText(s.tool))
           w == CloseThinking(CloseText(e))
<1>1. /\ Reading /\ Openai /\ setup.adapter # "anthropic" /\ setup' = setup
      /\ s' = CloseCalls(w) /\ ended' # "no"
      /\ ended' = "complete" => pos = Len(Text)
      /\ ended' = "complete" => (~setup.native /\ setup.thinks => FinalizeThinking(s.thinking) = <<>>)
  BY DEF OpenaiEnds, Openai
<1>2. Good(s, Lasting) /\ Progress(s, pos) /\ setup \in Setups /\ CallsInv
  BY <1>1, SoFar DEF Inv
<1>3. ASSUME ended' = "complete" PROVE ToldAll(s')
  <2>1. ~setup.native /\ setup.thinks => FinalizeThinking(s.thinking) = <<>>
    BY <1>1, <1>3
  <2> HIDE DEF e
  <2>0. Progress(s, Len(Text))
    BY <1>1, <1>2, <1>3
  <2>2. Good(e, Lasting) /\ Ordered(e) /\ ToldAll(e)
    BY <1>1, <1>2, <2>0, <2>1, OpenaiFlushed DEF e
  <2>3. Turns(e, w, Lasting) /\ Calm(e, w)
    BY <2>2, ClosingBoth, ClosedBoth
  <2>4. Good(w, Lasting) /\ Ordered(w) /\ ToldAll(w)
    BY <2>2, <2>3, CalmAll DEF Turns, Calm
  <2> HIDE DEF w
  <2>5. Calm(w, s')
    BY <1>1, <1>2, <2>4, ClosingCallsCalm
  <2>6. QED
    BY <2>4, <2>5, CalmAll
<1>4. QED
  BY <1>1, <1>3, Onward

LEMMA WrittenAtEndOfOllama ==
  ASSUME Inv, WrittenInv, OllamaDone
  PROVE  WrittenInv' /\ WrittenDone'
<1> DEFINE e == OllamaFlush(s)
           v == CloseThinking(e)
<1>1. /\ Reading /\ ~Openai /\ setup.adapter # "anthropic" /\ setup' = setup /\ pos = Len(Text)
      /\ s' = CloseText(v) /\ ended' = "complete"
  BY DEF OllamaDone, Ollama, Openai
<1>2. Good(s, Lasting) /\ Progress(s, Len(Text)) /\ setup \in Setups
  BY <1>1, SoFar
<1>3. Good(e, Lasting) /\ Ordered(e) /\ ToldAll(e)
  BY <1>1, <1>2, OllamaFlushed
<1> HIDE DEF e
<1>4. Turns(e, v, Lasting) /\ Calm(e, v)
  BY <1>3, ClosingThinking, ClosesThinking
<1>5. Good(v, Lasting) /\ Ordered(v) /\ ToldAll(v)
  BY <1>3, <1>4, CalmAll DEF Turns, Calm
<1> HIDE DEF v
<1>6. ToldAll(s')
  BY <1>1, <1>5, ClosesText, CalmAll
<1>7. QED
  BY <1>1, <1>6, Onward

\* The first state.
LEMMA FreshFields ==
  /\ Fresh.blocks = <<>> /\ Fresh.text = 0 /\ Fresh.think = 0
  /\ Fresh.thinking = NewThinking /\ Fresh.tool = NewToolText
BY DEF Fresh

LEMMA FreshTold ==
  ASSUME NEW T, IsList(T)
  PROVE  Told(T, Fresh, 0, <<>>)
<1> DEFINE none == <<>>
<1>0. IsList(none) /\ Len(none) = 0 /\ DOMAIN none = {}
  BY EmptyIsList
<1>1. BodiesOK(none)
  BY <1>0 DEF BodiesOK
<1>2. SeenIn(none) = View(<<>>, <<>>)
  <2> HIDE DEF none
  <2>1. Len(none) \in Nat
    BY <1>0
  <2>2. QED
    BY <1>0, <1>1, <2>1, SeenUnfolds, SightOn
<1>3. Ordered(Fresh)
  BY <1>1, FreshFields DEF Ordered
<1>4. SeenOf(Fresh) = View(<<>>, <<>>)
  BY <1>2, FreshFields DEF SeenOf
<1>5. CASE setup.native
  <2>1. Win(T, 0, 0) = <<>> /\ AddVisible(<<>>, "text", <<>>) = <<>>
    BY WinNone, AddsNothing
  <2>2. QED
    BY <1>3, <1>4, <1>5, <2>1 DEF Told
<1>6. CASE ~setup.native
  <2> DEFINE no == FALSE
  <2>1. ShownAt(T, 0) = Shown(no, 0, <<>>, <<>>) /\ NewToolText = [inCall |-> no, buf |-> <<>>]
    BY ShowingFirst DEF NewToolText
  <2> HIDE DEF no
  <2>2. /\ ShownAt(T, 0).inCall = no /\ ShownAt(T, 0).skip = 0
        /\ ShownAt(T, 0).body = <<>> /\ ShownAt(T, 0).out = <<>>
    BY <2>1, ShownFields
  <2>3. Win(T, 0, 0) = <<>>
    BY WinNone
  <2>4. CallsTo(T, NewToolText, 0, 0)
    BY <2>1, <2>2, <2>3 DEF CallsTo
  <2>5. CallsTo(T, Fresh.tool, 0, 0) /\ SeenOf(Fresh) = View(ShownAt(T, 0).out, <<>>)
    BY <1>4, <2>2, <2>4, FreshFields
  <2>6. QED
    BY <1>3, <1>6, <2>5 DEF Told
<1>7. QED
  BY <1>5, <1>6

LEMMA FreshProgress ==
  ASSUME setup \in Setups
  PROVE  Progress(Fresh, 0)
<1>1. IsList(Text) /\ Len(Text) \in Nat
  BY TextFacts
<1>2. CASE ~Tagged
  BY <1>1, <1>2, FreshTold DEF Progress
<1>3. CASE Tagged
  <2>1. HeardAt(Text, 0) = Heard(NoTag, 0, <<>>, <<>>)
    BY <1>1, HearingOn
  <2>2. /\ HeardAt(Text, 0).close = NoTag /\ HeardAt(Text, 0).skip = 0
        /\ HeardAt(Text, 0).outer = <<>> /\ HeardAt(Text, 0).inner = <<>>
    BY <2>1, HeardFields
  <2>3. Win(Text, 0, 0) = <<>>
    BY WinNone
  <2>4. ReadTo(Text, NewThinking, 0, 0)
    BY <2>2, <2>3 DEF ReadTo, NewThinking
  <2>5. ReadTo(Text, Fresh.thinking, 0, 0)
    BY <2>4, FreshFields
  <2>6. IsList(OuterOf(Text))
    <3>1. Len(Text) \in 0 .. Len(Text)
      BY <1>1
    <3>2. HeardOK(HeardAt(Text, Len(Text)))
      BY <1>1, <3>1, HeardIsOK
    <3>3. QED
      BY <3>2 DEF HeardOK, OuterOf
  <2>7. Told(OuterOf(Text), Fresh, 0, <<>>)
    BY <2>6, FreshTold
  <2>8. HeardTold(Text, Fresh, 0)
    BY <2>2, <2>7, EmptyIsList DEF HeardTold
  <2>9. QED
    BY <1>3, <2>5, <2>8 DEF Progress, HearsSoFar
<1>4. QED
  BY <1>2, <1>3

LEMMA InitWritten == Init => WrittenInv /\ WrittenDone
<1> SUFFICES ASSUME Init PROVE WrittenInv /\ WrittenDone
  OBVIOUS
<1>1. setup \in Setups /\ pos = 0 /\ s = Fresh /\ ended = "no"
  BY DEF Init
<1>2. Progress(s, pos)
  BY <1>1, FreshProgress
<1>3. QED
  BY <1>1, <1>2 DEF WrittenInv, WrittenDone

LEMMA WrittenNext == Inv /\ WrittenInv /\ WrittenDone /\ [Next]_vars => WrittenInv' /\ WrittenDone'
<1> SUFFICES ASSUME Inv, WrittenInv, WrittenDone, [Next]_vars PROVE WrittenInv' /\ WrittenDone'
  OBVIOUS
<1>1. CASE UNCHANGED vars
  <2>1. setup' = setup /\ s' = s /\ pos' = pos /\ ended' = ended
    BY <1>1 DEF vars
  <2>2. setup.adapter # "anthropic" /\ ended = "no" => Progress(s, pos)
    BY DEF WrittenInv, Reading
  <2>3. setup.adapter # "anthropic" /\ ended = "complete" => ToldAll(s)
    BY DEF WrittenDone
  <2>4. QED
    BY <2>1, <2>2, <2>3, Onward
<1>2. CASE OpenaiReasoning \/ OllamaReasoning
  BY <1>2, WrittenReasoning
<1>3. CASE ProviderError \/ OllamaCutShort
  <2>1. setup' = setup /\ ended' # "no" /\ ended' # "complete"
    BY <1>3 DEF ProviderError, OllamaCutShort
  <2>2. QED
    BY <2>1, Onward
<1>4. CASE OpenaiEnds \/ OllamaDone
  BY <1>4, WrittenAtEndOfOpenai, WrittenAtEndOfOllama
<1>5. ASSUME NEW k \in 1 .. MaxPiece, OpenaiContent(k) \/ OpenaiThinkingContent(k) \/ OllamaContent(k)
      PROVE  WrittenInv' /\ WrittenDone'
  BY <1>5, WrittenContent
<1>6. ASSUME NEW i \in CallIndexes, NEW b \in BOOLEAN,
             OllamaCall(i, b) \/ \E chunk \in {<<>>, <<Len(args[i])>>} : ToolCallDelta(i, b, chunk)
      PROVE  WrittenInv' /\ WrittenDone'
  BY <1>6, WrittenCall
<1>7. CASE \/ AnthropicMessageStart \/ AnthropicBlockStop \/ AnthropicMessageStop
           \/ AnthropicError \/ AnthropicCutShort
           \/ \E kind \in {"text", "native", "unknown"} : AnthropicBlockStart(kind)
           \/ \E known \in BOOLEAN : AnthropicDelta(known)
  <2>1. setup.adapter = "anthropic" /\ setup' = setup
    BY <1>7 DEF AnthropicMessageStart, AnthropicBlockStop, AnthropicMessageStop, AnthropicError,
                AnthropicCutShort, AnthropicBlockStart, AnthropicDelta, Anthropic
  <2>2. QED
    BY <2>1, Onward
<1>8. QED
  BY <1>1, <1>2, <1>3, <1>4, <1>5, <1>6, <1>7 DEF Next

\* What has been told at the end is what was written.
LEMMA ToldIsWritten ==
  ASSUME setup \in Setups, ended = "complete" /\ setup.adapter # "anthropic" => ToldAll(s)
  PROVE  AsWritten
<1> SUFFICES ASSUME ToldAll(s), ended = "complete", setup.adapter # "anthropic"
             PROVE  AsWritten
  BY DEF AsWritten
<1> DEFINE words == setup.words
           outer == IF Tagged THEN Split(words).outer ELSE words
           inner == IF Tagged THEN Split(words).inner ELSE <<>>
<1>1. PlainWords(words) /\ Text = Spelled(words)
  BY TextFacts DEF Text
<1>2. PlainWords(outer) /\ OutsideText = Spelled(outer) /\ Thoughts = Spelled(inner)
  <2>1. CASE Tagged
    <3>1. outer = Split(words).outer /\ inner = Split(words).inner
      BY <2>1
    <3> HIDE DEF words, outer, inner
    <3>2. /\ PlainWords(Split(words).outer)
          /\ HeardAt(Spelled(words), Len(Spelled(words))).outer = Spelled(Split(words).outer)
          /\ HeardAt(Spelled(words), Len(Spelled(words))).inner = Spelled(Split(words).inner)
      BY <1>1, HeardIsSplit
    <3>3. QED
      BY <1>1, <2>1, <3>1, <3>2 DEF OutsideText, Thoughts, OuterOf
  <2>2. CASE ~Tagged
    <3>1. outer = words /\ inner = <<>>
      BY <2>2
    <3> HIDE DEF words, outer, inner
    <3>2. QED
      BY <1>1, <2>2, <3>1, SpelledNone DEF OutsideText, Thoughts
  <2>3. QED
    BY <2>1, <2>2
<1> HIDE DEF outer, inner
<1>3. ShownAt(OutsideText, Len(OutsideText)).out = Written(outer)
  BY <1>2, ShownIsWritten
<1>4. SeenIn(s.blocks) =
        [visible  |-> IF setup.native THEN AddVisible(<<>>, "text", Spelled(outer)) ELSE Written(outer),
         thoughts |-> Spelled(inner)]
  BY <1>2, <1>3 DEF ToldAll, AllOf, SeenOf, View
<1>5. QED
  BY <1>4 DEF AsWritten, outer, inner

\* Wherever the stream of a response of openai or ollama is cut, and whatever reasoning and native
\* calls come between the pieces, a response that completes has in its blocks the text and the
\* calls, and in its thinking blocks the thoughts, that the model wrote, word by word and in order:
\* no part of a tag is shown, and nothing is lost or doubled (ThinkingParser, ToolCallTextParser,
\* _emit_parser_event, _pipe_content).
THEOREM BlocksHaveWhatWasWritten == Spec => []AsWritten
<1>1. Init => WrittenInv /\ WrittenDone
  BY InitWritten
<1>2. Inv /\ WrittenInv /\ WrittenDone /\ [Next]_vars => WrittenInv' /\ WrittenDone'
  BY WrittenNext
<1>3. Inv /\ WrittenDone => AsWritten
  BY ToldIsWritten DEF Inv, TypesInv, WrittenDone
<1>4. QED
  BY <1>1, <1>2, <1>3, Invariance, PTL DEF Spec
==============================================================================
