------------------------------ MODULE Unfolding ------------------------------
(* Functions that are computed position by position, for the proofs about  *)
(* them: such a function exists, so that the equation that defines it      *)
(* holds, and what each step preserves holds at the last position.  A      *)
(* module that needs this for one of its functions takes an instance.      *)
EXTENDS Integers, WellFoundedInduction, TLAPS

CONSTANTS
  Steps(_),         \* the number of steps, of the given arguments c
  Start(_),         \* what there is before the first
  Step(_, _, _),    \* what step n makes of x
  Holds(_, _, _)    \* what is to be shown of x after n steps

\* Induction over positions.
LEMMA Stepwise ==
  ASSUME NEW S \in SUBSET Nat, 0 \in S, \A n \in S : n + 1 \in S
  PROVE  \A n \in Nat : n \in S
<1> DEFINE T == Nat \ S
           Less == {ss \in Nat \X Nat : ss[1] < ss[2]}
<1> SUFFICES ASSUME T # {} PROVE FALSE
  OBVIOUS
<1>1. PICK x \in T : \A y \in T : ~(<<y, x>> \in Less)
  <2>1. IsWellFoundedOn(Less, Nat)
    BY NatLessThanWellFounded DEF OpToRel
  <2>2. T \subseteq Nat
    OBVIOUS
  <2> HIDE DEF Less, T
  <2>3. QED
    BY <2>1, <2>2, WFMin
<1>2. x \in Nat /\ x # 0
  OBVIOUS
<1>3. x - 1 \in Nat /\ x - 1 < x /\ (x - 1) + 1 = x
  BY <1>2
<1>4. x - 1 \in T
  BY <1>1, <1>2, <1>3
<1>5. <<x - 1, x>> \in Less
  BY <1>2, <1>3
<1>6. QED
  BY <1>1, <1>4, <1>5

\* The function of the first n steps.
Value(c, f, n) == IF n = 0 THEN Start(c) ELSE Step(c, f[n - 1], n)

LEMMA Exists ==
  ASSUME NEW c, Steps(c) \in Nat
  PROVE  \E f : f = [n \in 0 .. Steps(c) |-> Value(c, f, n)]
<1> DEFINE S == {n \in Nat : \E f : f = [k \in 0 .. n |-> Value(c, f, k)]}
<1>1. 0 \in S
  <2>1. [k \in 0 .. 0 |-> Start(c)] = [k \in 0 .. 0 |-> Value(c, [j \in 0 .. 0 |-> Start(c)], k)]
    BY DEF Value
  <2>2. QED
    BY <2>1
<1>2. ASSUME NEW n \in S PROVE n + 1 \in S
  <2>1. PICK f : f = [k \in 0 .. n |-> Value(c, f, k)]
    BY <1>2
  <2>2. DOMAIN f = 0 .. n /\ \A k \in 0 .. n : f[k] = Value(c, f, k)
    BY <2>1
  <2> DEFINE g == [k \in 0 .. n + 1 |-> IF k = n + 1 THEN Value(c, f, k) ELSE f[k]]
  <2>3. \A k \in 0 .. n : g[k] = f[k]
    OBVIOUS
  <2>4. ASSUME NEW k \in 0 .. n + 1 PROVE Value(c, g, k) = Value(c, f, k)
    <3>1. k # 0 => k - 1 \in 0 .. n
      OBVIOUS
    <3> HIDE DEF g
    <3>2. QED
      BY <2>3, <3>1 DEF Value
  <2>5. ASSUME NEW k \in 0 .. n + 1 PROVE g[k] = Value(c, g, k)
    <3>1. CASE k = n + 1
      BY <2>4, <3>1
    <3>2. CASE k \in 0 .. n
      <4>1. g[k] = f[k] /\ f[k] = Value(c, f, k)
        BY <2>2, <2>3, <3>2
      <4> HIDE DEF g
      <4>2. QED
        BY <2>4, <4>1
    <3>3. QED
      BY <3>1, <3>2
  <2>6. g = [k \in 0 .. n + 1 |-> g[k]]
    OBVIOUS
  <2> HIDE DEF g
  <2>7. g = [k \in 0 .. n + 1 |-> Value(c, g, k)]
    BY <2>5, <2>6
  <2>8. QED
    BY <2>7
<1>3. S \in SUBSET Nat
  OBVIOUS
<1> HIDE DEF S
<1>4. Steps(c) \in S
  BY <1>1, <1>2, <1>3, Stepwise
<1>5. QED
  BY <1>4 DEF S

LEMMA Holding ==
  ASSUME NEW c, Steps(c) \in Nat,
         NEW f, f = [n \in 0 .. Steps(c) |-> Value(c, f, n)],
         Holds(c, Start(c), 0),
         \A x, n : n \in 1 .. Steps(c) /\ Holds(c, x, n - 1) => Holds(c, Step(c, x, n), n)
  PROVE  Holds(c, f[Steps(c)], Steps(c))
<1> DEFINE S == {n \in Nat : n <= Steps(c) => Holds(c, f[n], n)}
<1>1. 0 \in S
  BY DEF Value
<1>2. ASSUME NEW n \in S PROVE n + 1 \in S
  <2>1. CASE n + 1 <= Steps(c)
    <3>1. Holds(c, f[n], n) /\ n + 1 \in 1 .. Steps(c) /\ (n + 1) - 1 = n
      BY <2>1
    <3>2. f[n + 1] = Step(c, f[n], n + 1)
      BY <3>1 DEF Value
    <3>3. QED
      BY <3>1, <3>2
  <2>2. CASE ~(n + 1 <= Steps(c))
    BY <2>2
  <2>3. QED
    BY <2>1, <2>2
<1>3. S \in SUBSET Nat
  OBVIOUS
<1> HIDE DEF S
<1>4. Steps(c) \in S
  BY <1>1, <1>2, <1>3, Stepwise
<1>5. QED
  BY <1>4 DEF S

\* The function that a definition of this form names.
At(c) == CHOOSE f : f = [n \in 0 .. Steps(c) |-> Value(c, f, n)]

LEMMA Unfolds ==
  ASSUME NEW c, Steps(c) \in Nat
  PROVE  /\ At(c) = [n \in 0 .. Steps(c) |-> Value(c, At(c), n)]
         /\ At(c)[0] = Start(c)
         /\ \A n \in 1 .. Steps(c) : At(c)[n] = Step(c, At(c)[n - 1], n)
<1>1. At(c) = [n \in 0 .. Steps(c) |-> Value(c, At(c), n)]
  BY Exists DEF At
<1> DEFINE f == At(c)
<1>2. \A n \in 0 .. Steps(c) : f[n] = Value(c, f, n)
  <2> HIDE DEF f
  <2>1. ASSUME f = [n \in 0 .. Steps(c) |-> Value(c, f, n)]
        PROVE  \A n \in 0 .. Steps(c) : f[n] = Value(c, f, n)
    BY <2>1
  <2>2. QED
    BY <1>1, <2>1 DEF f
<1> HIDE DEF f
<1>3. f[0] = Start(c)
  BY <1>2 DEF Value
<1>4. ASSUME NEW n \in 1 .. Steps(c) PROVE f[n] = Step(c, f[n - 1], n)
  BY <1>2 DEF Value
<1>5. QED
  BY <1>1, <1>3, <1>4 DEF f

\* Two functions with the same steps up to m are the same up to m.
LEMMA Agrees ==
  ASSUME NEW c, Steps(c) \in Nat, NEW d, Steps(d) \in Nat, Start(c) = Start(d),
         NEW m \in Nat, m <= Steps(c), m <= Steps(d),
         \A x : \A n \in 1 .. m : Step(c, x, n) = Step(d, x, n)
  PROVE  \A n \in 0 .. m : At(c)[n] = At(d)[n]
<1> DEFINE S == {n \in Nat : n <= m => At(c)[n] = At(d)[n]}
<1>1. 0 \in S
  BY Unfolds
<1>2. ASSUME NEW n \in S PROVE n + 1 \in S
  <2>1. CASE n + 1 <= m
    <3>1. /\ n + 1 \in 1 .. m /\ n + 1 \in 1 .. Steps(c) /\ n + 1 \in 1 .. Steps(d)
          /\ (n + 1) - 1 = n /\ n <= m
      BY <2>1
    <3>2. At(c)[n + 1] = Step(c, At(c)[n], n + 1) /\ At(d)[n + 1] = Step(d, At(d)[n], n + 1)
      BY <3>1, Unfolds
    <3>3. At(c)[n] = At(d)[n]
      BY <3>1
    <3>4. QED
      BY <3>1, <3>2, <3>3
  <2>2. CASE ~(n + 1 <= m)
    BY <2>2
  <2>3. QED
    BY <2>1, <2>2
<1>3. S \in SUBSET Nat
  OBVIOUS
<1>4. QED
  <2> HIDE DEF S
  <2>1. \A n \in Nat : n \in S
    BY <1>1, <1>2, <1>3, Stepwise
  <2>2. QED
    BY <2>1 DEF S

\* What each step preserves holds after all of them.
LEMMA Keeping ==
  ASSUME NEW c, Steps(c) \in Nat, Holds(c, Start(c), 0),
         \A x, n : n \in 1 .. Steps(c) /\ Holds(c, x, n - 1) => Holds(c, Step(c, x, n), n)
  PROVE  \A n \in 0 .. Steps(c) : Holds(c, At(c)[n], n)
<1> DEFINE S == {n \in Nat : n <= Steps(c) => Holds(c, At(c)[n], n)}
<1>1. 0 \in S
  BY Unfolds
<1>2. ASSUME NEW n \in S PROVE n + 1 \in S
  <2>1. CASE n + 1 <= Steps(c)
    <3>1. Holds(c, At(c)[n], n) /\ n + 1 \in 1 .. Steps(c) /\ (n + 1) - 1 = n
      BY <2>1
    <3>2. At(c)[n + 1] = Step(c, At(c)[n], n + 1)
      BY <3>1, Unfolds
    <3>3. QED
      BY <3>1, <3>2
  <2>2. CASE ~(n + 1 <= Steps(c))
    BY <2>2
  <2>3. QED
    BY <2>1, <2>2
<1>3. S \in SUBSET Nat
  OBVIOUS
<1>4. QED
  <2> HIDE DEF S
  <2>1. \A n \in Nat : n \in S
    BY <1>1, <1>2, <1>3, Stepwise
  <2>2. QED
    BY <2>1 DEF S
\* There is only one.
LEMMA Same ==
  ASSUME NEW c, Steps(c) \in Nat,
         NEW f, f = [n \in 0 .. Steps(c) |-> Value(c, f, n)]
  PROVE  \A n \in 0 .. Steps(c) : f[n] = At(c)[n]
<1> DEFINE S == {n \in Nat : n <= Steps(c) => f[n] = At(c)[n]}
<1>0. \A n \in 0 .. Steps(c) : f[n] = Value(c, f, n)
  OBVIOUS
<1>1. 0 \in S
  BY <1>0, Unfolds DEF Value
<1>2. ASSUME NEW n \in S PROVE n + 1 \in S
  <2>1. CASE n + 1 <= Steps(c)
    <3>1. n + 1 \in 1 .. Steps(c) /\ n + 1 \in 0 .. Steps(c) /\ (n + 1) - 1 = n /\ n + 1 # 0 /\ n <= Steps(c)
      BY <2>1
    <3>2. f[n + 1] = Step(c, f[n], n + 1)
      BY <1>0, <3>1 DEF Value
    <3>3. At(c)[n + 1] = Step(c, At(c)[n], n + 1)
      BY <3>1, Unfolds
    <3>4. f[n] = At(c)[n]
      BY <3>1
    <3>5. QED
      BY <3>2, <3>3, <3>4
  <2>2. CASE ~(n + 1 <= Steps(c))
    BY <2>2
  <2>3. QED
    BY <2>1, <2>2
<1>3. S \in SUBSET Nat
  OBVIOUS
<1>4. QED
  <2> HIDE DEF S
  <2>1. \A n \in Nat : n \in S
    BY <1>1, <1>2, <1>3, Stepwise
  <2>2. QED
    BY <2>1 DEF S

\* One with a step more.
LEMMA Extends ==
  ASSUME NEW c, Steps(c) \in Nat, NEW d, Steps(d) = Steps(c) + 1, Start(c) = Start(d),
         \A x : \A n \in 1 .. Steps(c) : Step(c, x, n) = Step(d, x, n)
  PROVE  At(d)[Steps(d)] = Step(d, At(c)[Steps(c)], Steps(d))
<1> DEFINE m == Steps(c)
<1>1. m \in Nat /\ m <= Steps(c) /\ m <= Steps(d) /\ Steps(d) \in Nat /\ m \in 0 .. m
      /\ Steps(d) \in 1 .. Steps(d) /\ Steps(d) - 1 = m
  OBVIOUS
<1>2. At(c)[m] = At(d)[m]
  <2> HIDE DEF m
  <2>1. \A x : \A n \in 1 .. m : Step(c, x, n) = Step(d, x, n)
    BY DEF m
  <2>2. \A n \in 0 .. m : At(c)[n] = At(d)[n]
    BY <1>1, <2>1, Agrees
  <2>3. QED
    BY <1>1, <2>2
<1>3. At(d)[Steps(d)] = Step(d, At(d)[Steps(d) - 1], Steps(d))
  BY <1>1, Unfolds
<1>4. QED
  BY <1>1, <1>2, <1>3
==============================================================================
