--------------------------- MODULE QueryRunProofs ----------------------------
(* Theorems about QueryRun, for every set of calls of query() and every    *)
(* bound: the types, the client that is closed, the truth of the result,   *)
(* the transcript, and what is checked before a tool is called.            *)
EXTENDS QueryRun, SequenceTheorems, FiniteSetTheorems, TLAPS

-----------------------------------------------------------------------------
(* Lists.                                                                  *)

\* A sequence, whatever it holds.
IsList(s) == \E S : s \in Seq(S)

\* A list grows at its end, and keeps what it held.
LEMMA Grows ==
  ASSUME NEW s, NEW x, IsList(s)
  PROVE  /\ IsList(Append(s, x)) /\ Len(s) \in Nat /\ Len(Append(s, x)) = Len(s) + 1
         /\ DOMAIN s = 1 .. Len(s) /\ DOMAIN Append(s, x) = 1 .. Len(s) + 1
         /\ \A i \in 1 .. Len(s) : Append(s, x)[i] = s[i]
         /\ Append(s, x)[Len(s) + 1] = x
<1>1. PICK S : s \in Seq(S)
  BY DEF IsList
<1>2. s \in Seq(S \cup {x})
  <2>1. s \in [1 .. Len(s) -> S] /\ Len(s) \in Nat
    BY <1>1, LenProperties
  <2>2. s \in [1 .. Len(s) -> S \cup {x}]
    BY <2>1
  <2>3. QED
    BY <2>1, <2>2, SeqDef
<1>3. /\ Append(s, x) \in Seq(S \cup {x}) /\ Len(Append(s, x)) = Len(s) + 1
      /\ \A i \in 1 .. Len(s) : Append(s, x)[i] = s[i]
      /\ Append(s, x)[Len(s) + 1] = x
  BY <1>2, AppendProperties
<1>4. DOMAIN s = 1 .. Len(s) /\ Len(s) \in Nat /\ DOMAIN Append(s, x) = 1 .. Len(s) + 1
  BY <1>1, <1>3, LenProperties
<1>5. IsList(Append(s, x))
  BY <1>3 DEF IsList
<1>6. QED
  BY <1>3, <1>4, <1>5

\* A sequence over some set is one over a larger set, also with one more at its end.
LEMMA GrowsIn ==
  ASSUME NEW S, NEW s \in Seq(S), NEW x
  PROVE  /\ s \in Seq(S \cup {x}) /\ Append(s, x) \in Seq(S \cup {x})
         /\ Len(Append(s, x)) = Len(s) + 1 /\ Len(s) \in Nat
<1>1. s \in [1 .. Len(s) -> S] /\ Len(s) \in Nat
  BY LenProperties
<1>2. s \in [1 .. Len(s) -> S \cup {x}]
  BY <1>1
<1>3. s \in Seq(S \cup {x})
  BY <1>1, <1>2, SeqDef
<1>4. QED
  BY <1>1, <1>3, AppendProperties

LEMMA EmptyIsList ==
  /\ IsList(<<>>) /\ Len(<<>>) = 0 /\ DOMAIN <<>> = {} /\ Range(<<>>) = {}
  /\ <<>> \in Seq({})
<1>1. <<>> \in Seq({}) /\ Len(<<>>) = 0
  OBVIOUS
<1>2. DOMAIN <<>> = {}
  OBVIOUS
<1>3. QED
  BY <1>1, <1>2 DEF IsList, Range

LEMMA ListFacts ==
  ASSUME NEW s, IsList(s)
  PROVE  Len(s) \in Nat /\ DOMAIN s = 1 .. Len(s)
BY LenProperties DEF IsList

-----------------------------------------------------------------------------
(* The types, and where a run stands.                                      *)

Outcomes == {"none", "error_during_execution", "error_max_turns", "error_max_budget_usd"}
Places == {"made", "written", "yielded"}

\* Between two runs everything of a run is gone; within one, what the current item is
\* fits the place, and no request is made once the attempts are used up.
Placed ==
  /\ pc = "idle" => /\ item.kind = "none" /\ seeded = 0 /\ step = 0 /\ numTurns = 0
                    /\ verdicts = {} /\ outcome = "none"
  /\ pc # "idle" => /\ item.kind # "none" /\ item.run = run
                    /\ Len(ends) < setup.runs
  /\ pc = "request" => attempts < Attempts
  /\ item.kind = "result" => pc \in Places
  /\ pc = "dropped" => item.kind \in InLoop

StateOK ==
  /\ TypeOK /\ Placed
  /\ IsList(history) /\ IsList(ends) /\ IsList(delivered) /\ IsList(file)
  /\ blocks \in Seq(verdicts)

LEMMA InitOK == Init => StateOK
<1> SUFFICES ASSUME Init PROVE StateOK
  OBVIOUS
<1>1. setup.prompt.items \in Nat /\ setup.runs \in Nat /\ Attempts \in Nat /\ Attempts > 0
      /\ MaxCrashes \in Nat /\ MaxBlocks \in Nat
  BY QueryAssumption DEF Init
<1>2. blocks \in Seq(verdicts) /\ Range(blocks) \subseteq verdicts /\ Len(blocks) = 0
  BY EmptyIsList DEF Init
<1>3. TypeOK
  <2>1. \A i \in DOMAIN history : history[i].role \in {"user", "assistant"}
    BY EmptyIsList DEF Init
  <2>2. item.kind = "none"
    BY DEF Init, NoItem
  <2>3. Len(ends) = 0
    BY EmptyIsList DEF Init
  <2>4. seeded \in 0 .. prompt.items
    BY <1>1 DEF Init, prompt
  <2>5. /\ setup \in Setups /\ pc = "idle" /\ verdicts = {} /\ step = 0 /\ cost = 0
        /\ attempts = 0 /\ numTurns = 0 /\ outcome = "none" /\ open = {}
        /\ pending \in BOOLEAN /\ crashes = 0
    BY DEF Init
  <2>6. QED
    BY <1>1, <1>2, <2>1, <2>2, <2>3, <2>4, <2>5 DEF TypeOK
<1>4. Placed
  BY DEF Init, Placed, NoItem
<1>5. QED
  BY <1>2, <1>3, <1>4, EmptyIsList DEF StateOK, Init

\* What a run leaves behind.
LEMMA EndOK ==
  ASSUME StateOK, NEW how, End(how), setup' = setup, Len(ends) < setup.runs,
         open' \subseteq 1 .. setup.runs, pending' \in BOOLEAN, crashes' \in 0 .. MaxCrashes,
         delivered' = delivered, IsList(file')
  PROVE  StateOK'
<1>1. setup.prompt.items \in Nat /\ setup.runs \in Nat /\ Attempts \in Nat /\ MaxBlocks \in Nat
      /\ setup \in Setups
  BY QueryAssumption DEF StateOK, TypeOK
<1>2. IsList(ends') /\ Len(ends') <= setup.runs
  BY <1>1, Grows DEF StateOK, End
<1>3. (blocks \in Seq(verdicts))' /\ (Range(blocks) \subseteq verdicts)' /\ Len(blocks') = 0
  BY EmptyIsList DEF End, Fresh
<1>4. TypeOK'
  BY <1>1, <1>2, <1>3, EmptyIsList DEF End, Fresh, TypeOK, NoItem, InLoop, prompt
<1>5. Placed'
  BY DEF End, Fresh, Placed, NoItem
<1>6. QED
  BY <1>2, <1>3, <1>4, <1>5, EmptyIsList DEF StateOK, End, Fresh

\* What a step that begins, ends or waits in front of a run leaves.
LEMMA FrontOK ==
  ASSUME StateOK, ClientQuery \/ NothingToReceive \/ Start
  PROVE  StateOK'
<1> USE DEF StateOK
<1>1. setup.prompt.items \in Nat /\ setup.runs \in Nat /\ Len(ends) \in Nat
  BY QueryAssumption, ListFacts DEF TypeOK
<1>2. CASE ClientQuery
  <2>1. TypeOK'
    BY <1>2 DEF ClientQuery, runState, TypeOK, InLoop, prompt, Range
  <2>2. Placed'
    BY <1>2 DEF ClientQuery, runState, Placed, InLoop, run
  <2>3. QED
    BY <1>2, <2>1, <2>2 DEF ClientQuery, runState
<1>3. CASE NothingToReceive
  BY <1>3, EndOK DEF NothingToReceive, TypeOK
<1>4. CASE Start
  <2>1. /\ open' \subseteq 1 .. setup.runs /\ pending' \in BOOLEAN /\ setup' = setup
        /\ crashes' = crashes /\ file' = file /\ delivered' = delivered
        /\ Len(ends) < setup.runs /\ pc = "idle"
    <3>1. run \in 1 .. setup.runs
      BY <1>1, <1>4 DEF Start, run
    <3>2. open' \subseteq 1 .. setup.runs
      BY <3>1, <1>4 DEF Start, TypeOK
    <3>3. pending' \in BOOLEAN
      BY <1>4 DEF Start, TypeOK, Receives
    <3>4. QED
      BY <3>2, <3>3, <1>4 DEF Start
  <2>2. CASE End("raised")
    BY <2>1, <2>2, EndOK DEF TypeOK
  <2>3. CASE /\ Make(Item("init", 0))
             /\ UNCHANGED <<seeded, history, blocks, verdicts, step, cost, attempts,
                            numTurns, outcome, ends>>
    <3>1. item'.kind = "init" /\ item'.run = run /\ pc' = "made" /\ run' = run
      BY <2>3 DEF Make, Item, run
    <3>2. TypeOK'
      BY <2>1, <2>3, <3>1 DEF TypeOK, prompt, Range
    <3>3. Placed'
      BY <2>1, <2>3, <3>1 DEF Placed, Places
    <3>4. QED
      BY <2>1, <2>3, <3>2, <3>3
  <2>4. QED
    BY <1>4, <2>2, <2>3 DEF Start
<1>5. QED
  BY <1>2, <1>3, <1>4

\* What becomes of a call.
LEMMA VerdictKinds ==
  ASSUME NEW call
  PROVE  VerdictOn(call).verdict \in {"dispatched", "blocked", "denied", "raised"}
BY DEF VerdictOn, Preflight, Verdict

\* The messages that a run begins with.
LEMMA SeedsAreMessages ==
  ASSUME NEW n \in Nat, NEW h,
         LET seeds == [i \in 1 .. n |-> Message("user", <<Text>>)] IN
         h = seeds \/ h = <<Message("user", <<Text>>)>> \o seeds
  PROVE  IsList(h) /\ \A i \in DOMAIN h : h[i].role \in {"user", "assistant"}
<1> DEFINE m == Message("user", <<Text>>)
           seeds == [i \in 1 .. n |-> m]
<1>1. m.role = "user"
  BY DEF Message
<1> HIDE DEF m
<1>2. seeds \in Seq({m}) /\ <<m>> \in Seq({m})
  BY SeqDef
<1>3. <<m>> \o seeds \in Seq({m})
  BY <1>2, ConcatProperties
<1>4. h \in Seq({m})
  BY <1>2, <1>3 DEF m
<1>5. QED
  BY <1>1, <1>4 DEF IsList

\* What a step of the loop leaves.
LEMMA LoopOK ==
  ASSUME StateOK,
         \/ BeginTurn \/ Attempt \/ StreamFails \/ RunTools \/ Close
         \/ \E call \in setup.calls : StreamCall(call) \/ LeaveOpen(call)
         \/ \E spent \in {0, 1} : StreamEnds(spent)
  PROVE  StateOK'
<1> USE DEF StateOK, world
<1>1. /\ setup.prompt.items \in Nat /\ setup.runs \in Nat /\ Len(ends) \in Nat
      /\ Attempts \in Nat /\ Attempts > 0 /\ MaxBlocks \in Nat
  BY QueryAssumption, ListFacts DEF TypeOK
<1>2. CASE BeginTurn
  <2>1. TypeOK'
    BY <1>1, <1>2 DEF BeginTurn, Raise, TypeOK, prompt, Range
  <2>2. Placed'
    BY <1>1, <1>2 DEF BeginTurn, Raise, Placed, Places, InLoop, run
  <2>3. QED
    BY <1>2, <2>1, <2>2 DEF BeginTurn
<1>3. CASE Attempt
  <2>1. attempts \in 0 .. Attempts /\ attempts < Attempts
    BY <1>3 DEF Attempt, TypeOK, Placed
  <2>2. TypeOK'
    BY <1>1, <1>3, <2>1 DEF Attempt, Retry, RaiseForStatus, Raise, TypeOK, prompt, Range
  <2>3. Placed'
    BY <1>1, <1>3, <2>1 DEF Attempt, Retry, RaiseForStatus, Raise, Placed, Places, InLoop, run
  <2>4. QED
    BY <1>3, <2>2, <2>3 DEF Attempt
<1>4. CASE StreamFails
  <2>1. TypeOK'
    BY <1>1, <1>4 DEF StreamFails, Raise, TypeOK, prompt, Range
  <2>2. Placed'
    BY <1>1, <1>4 DEF StreamFails, Raise, Placed, Places, InLoop, run
  <2>3. QED
    BY <1>4, <2>1, <2>2 DEF StreamFails
<1>5. CASE RunTools
  <2>1. CASE Raise("error_during_execution") /\ UNCHANGED <<item, history>>
    <3>1. TypeOK'
      BY <1>5, <2>1 DEF RunTools, Raise, TypeOK, prompt, Range
    <3>2. Placed'
      BY <1>5, <2>1 DEF RunTools, Raise, Placed, Places, InLoop, run
    <3>3. QED
      BY <1>5, <2>1, <3>1, <3>2 DEF RunTools
  <2>2. CASE \E m : /\ history' = Append(history, m) /\ m.role = "user"
                    /\ Make(Item("results", step)) /\ UNCHANGED outcome
    <3>1. PICK m : history' = Append(history, m) /\ m.role = "user"
      BY <2>2
    <3>2. IsList(history') /\ \A i \in DOMAIN history' : history'[i].role \in {"user", "assistant"}
      BY <3>1, Grows DEF TypeOK
    <3>3. item'.kind = "results" /\ item'.run = run /\ pc' = "made" /\ run' = run
      BY <1>5, <2>2 DEF RunTools, Make, Item, run
    <3>4. TypeOK'
      BY <1>5, <2>2, <3>2, <3>3 DEF RunTools, TypeOK, prompt, Range, InLoop
    <3>5. Placed'
      BY <1>5, <3>3 DEF RunTools, Placed, Places
    <3>6. QED
      BY <1>5, <3>2, <3>4, <3>5 DEF RunTools
  <2>3. QED
    BY <1>5, <2>1, <2>2 DEF RunTools, Message
<1>6. CASE Close
  <2>1. item'.kind = "result" /\ item'.run = run /\ pc' = "made" /\ run' = run
    BY <1>6 DEF Close, Make, ResultItem, BuildResult, run
  <2>2. TypeOK'
    BY <1>6, <2>1 DEF Close, TypeOK, prompt, Range
  <2>3. Placed'
    BY <1>6, <2>1 DEF Close, Placed, Places
  <2>4. QED
    BY <1>6, <2>2, <2>3 DEF Close
<1>7. ASSUME NEW call \in setup.calls, StreamCall(call)
      PROVE  StateOK'
  <2>1. CASE Raise("error_during_execution") /\ UNCHANGED <<blocks, verdicts>>
    <3>1. TypeOK'
      BY <1>7, <2>1 DEF StreamCall, Raise, TypeOK, prompt, Range
    <3>2. Placed'
      BY <1>7, <2>1 DEF StreamCall, Raise, Placed, Places, InLoop, run
    <3>3. QED
      BY <1>7, <2>1, <3>1, <3>2 DEF StreamCall
  <2>2. CASE ~(Raise("error_during_execution") /\ UNCHANGED <<blocks, verdicts>>)
    <3>1. PICK block :
            /\ blocks' = Append(blocks, block) /\ verdicts' = verdicts \cup {block}
            /\ block.verdict \in {"dispatched", "blocked", "denied"}
      <4> DEFINE v == VerdictOn(call)
                 b == [id |-> <<step, Len(blocks) + 1>>, tool |-> call.tool,
                       sent |-> call.input, input |-> v.input, verdict |-> v.verdict,
                       rewritten |-> v.rewritten]
      <4>1. v.verdict \in {"dispatched", "blocked", "denied", "raised"}
        BY VerdictKinds
      <4>2. v.verdict # "raised" /\ blocks' = Append(blocks, b) /\ verdicts' = verdicts \cup {b}
        BY <1>7, <2>2 DEF StreamCall
      <4>3. b.verdict = v.verdict
        OBVIOUS
      <4>4. QED
        BY <4>1, <4>2, <4>3
    <3>2. UNCHANGED <<pc, outcome>> /\ pc = "streaming" /\ Len(blocks) < MaxBlocks
      BY <1>7, <2>2 DEF StreamCall
    <3>3. blocks' \in Seq(verdicts') /\ Len(blocks') <= MaxBlocks
      BY <1>1, <3>1, <3>2, GrowsIn
    <3>4. Range(blocks') \subseteq verdicts'
      BY <3>3, LenProperties DEF Range
    <3>5. TypeOK'
      BY <1>7, <3>1, <3>2, <3>3, <3>4 DEF StreamCall, TypeOK, prompt
    <3>6. Placed'
      BY <1>7, <3>2 DEF StreamCall, Placed, run
    <3>7. QED
      BY <1>7, <3>3, <3>5, <3>6 DEF StreamCall
  <2>3. QED
    BY <2>1, <2>2
<1>8. ASSUME NEW spent \in {0, 1}, StreamEnds(spent)
      PROVE  StateOK'
  <2>1. PICK m : history' = Append(history, m) /\ m.role = "assistant"
    BY <1>8 DEF StreamEnds, AssistantMessage, Message
  <2>2. IsList(history') /\ \A i \in DOMAIN history' : history'[i].role \in {"user", "assistant"}
    BY <2>1, Grows DEF TypeOK
  <2>3. Exceeded(cost') \in Outcomes
    BY DEF Exceeded, Outcomes
  <2>4. \/ /\ item'.kind = "assistant" /\ item'.run = run /\ pc' = "made"
           /\ outcome' = outcome /\ numTurns' = numTurns + 1
        \/ UNCHANGED <<item, numTurns>> /\ pc' = "closing" /\ outcome' = Exceeded(cost')
    BY <1>8 DEF StreamEnds, Make, Item, Raise
  <2>5. numTurns' \in Nat /\ cost' \in Nat
    BY <1>8, <2>4 DEF StreamEnds, TypeOK
  <2>6. TypeOK'
    BY <1>8, <2>2, <2>3, <2>4, <2>5 DEF StreamEnds, TypeOK, prompt, Range, InLoop, Outcomes
  <2>7. Placed'
    BY <1>8, <2>4 DEF StreamEnds, Placed, Places, run
  <2>8. QED
    BY <1>8, <2>2, <2>6, <2>7 DEF StreamEnds
<1>9. ASSUME NEW call \in setup.calls, LeaveOpen(call)
      PROVE  StateOK'
  <2>1. PICK block : /\ blocks' = Append(blocks, block) /\ verdicts' = verdicts \cup {block}
                     /\ block.verdict = "open"
    <3> DEFINE b == [id |-> <<step, Len(blocks) + 1>>, tool |-> call.tool,
                     sent |-> call.input, input |-> call.input, verdict |-> "open",
                     rewritten |-> FALSE]
    <3>1. blocks' = Append(blocks, b) /\ verdicts' = verdicts \cup {b}
      BY <1>9 DEF LeaveOpen
    <3>2. b.verdict = "open"
      OBVIOUS
    <3> HIDE DEF b
    <3>3. QED
      BY <3>1, <3>2
  <2>2. /\ Len(blocks) < MaxBlocks
        /\ UNCHANGED <<setup, pc, item, seeded, history, step, cost, attempts, numTurns, outcome,
                       open, pending, file, delivered, ends, crashes>>
    BY <1>9 DEF LeaveOpen
  <2>3. pc = "streaming"
    BY <1>9 DEF LeaveOpen
  <2>4. blocks' \in Seq(verdicts') /\ Len(blocks') <= MaxBlocks
    BY <1>1, <2>1, <2>2, GrowsIn
  <2>5. Range(blocks') \subseteq verdicts'
    BY <2>4, LenProperties DEF Range
  <2>6. TypeOK'
    BY <2>1, <2>2, <2>4, <2>5 DEF TypeOK, prompt
  <2>7. Placed'
    BY <2>2, <2>3 DEF Placed, run
  <2>8. QED
    BY <2>2, <2>4, <2>6, <2>7
<1>10. QED
  BY <1>2, <1>3, <1>4, <1>5, <1>6, <1>7, <1>8, <1>9

\* What a step between the run and its consumer leaves.
LEMMA ConsumerOK ==
  ASSUME StateOK, Write \/ WriteFails \/ Yield \/ AsksOn \/ Drop \/ CloseDropped \/ Crash
  PROVE  StateOK'
<1> USE DEF StateOK, world
<1>1. /\ setup.prompt.items \in Nat /\ setup.runs \in Nat /\ Len(ends) \in Nat
      /\ Attempts \in Nat /\ Attempts > 0 /\ MaxCrashes \in Nat
  BY QueryAssumption, ListFacts DEF TypeOK
<1>2. CASE Write
  <2>1. IsList(file')
    <3>1. \E x : file' = Append(file, x)
      BY <1>2 DEF Write, WriteRecord, ShortWrites
    <3>2. ASSUME NEW x PROVE IsList(Append(file, x))
      BY Grows
    <3>3. QED
      BY <3>1, <3>2
  <2>2. TypeOK'
    BY <1>2 DEF Write, runState, TypeOK, prompt, Range
  <2>3. Placed'
    BY <1>2 DEF Write, runState, Placed, Places, InLoop, run
  <2>4. QED
    BY <1>2, <2>1, <2>2, <2>3 DEF Write, runState
<1>3. CASE Yield
  <2>1. IsList(delivered')
    BY <1>3, Grows DEF Yield, Deliver
  <2>2. TypeOK'
    BY <1>3 DEF Yield, Deliver, runState, TypeOK, prompt, Range
  <2>3. pc # "idle" /\ pc # "dropped" /\ pc' = "yielded"
    BY <1>3 DEF Yield, Deliver
  <2>4. Placed'
    BY <1>3, <2>3 DEF Yield, runState, Placed, Places, run
  <2>5. QED
    BY <1>3, <2>1, <2>2, <2>4 DEF Yield, runState
<1>4. CASE AsksOn
  <2>1. /\ pc = "yielded" /\ Len(ends) < setup.runs /\ open' \subseteq 1 .. setup.runs
        /\ UNCHANGED <<setup, pending, file, delivered, crashes>>
    BY <1>4 DEF AsksOn, Placed, TypeOK
  <2>2. ASSUME NEW how, End(how) PROVE StateOK'
    BY <2>1, <2>2, EndOK DEF TypeOK
  <2>3. CASE item.kind \in {"init", "user"} /\ AfterSeed
    <3>1. CASE EchoSeed /\ seeded < prompt.items
      <4>1. item'.kind = "user" /\ item'.run = run /\ pc' = "made" /\ run' = run
        BY <3>1 DEF EchoSeed, Make, Item, run
      <4>2. seeded' \in 0 .. prompt.items
        BY <1>1, <3>1 DEF EchoSeed, TypeOK, prompt
      <4>3. TypeOK'
        BY <2>1, <3>1, <4>1, <4>2 DEF EchoSeed, TypeOK, prompt, Range
      <4>4. Placed'
        BY <2>1, <3>1, <4>1 DEF EchoSeed, Placed, Places
      <4>5. QED
        BY <2>1, <3>1, <4>3, <4>4 DEF EchoSeed
    <3>2. CASE /\ Make(BuildResult("error_during_execution", 0, {}))
               /\ UNCHANGED <<seeded, history, blocks, verdicts, step, cost, attempts,
                              numTurns, outcome, ends>>
      <4>1. item'.kind = "result" /\ item'.run = run /\ pc' = "made" /\ run' = run
        BY <3>2 DEF Make, BuildResult, run
      <4>2. TypeOK'
        BY <2>1, <3>2, <4>1 DEF TypeOK, prompt, Range
      <4>3. Placed'
        BY <2>1, <3>2, <4>1 DEF Placed, Places
      <4>4. QED
        BY <2>1, <3>2, <4>2, <4>3
    <3>3. CASE EnterLoop
      <4>1. IsList(history') /\ \A i \in DOMAIN history' : history'[i].role \in {"user", "assistant"}
        BY <1>1, <3>3, SeedsAreMessages DEF EnterLoop, prompt
      <4>2. \/ item'.kind = "meta" /\ item'.run = run /\ pc' = "made"
            \/ item' = item /\ pc' = "turn" /\ item.kind \in {"init", "user"}
        BY <2>3, <3>3 DEF EnterLoop, Make, Item
      <4>3. run' = run
        BY <3>3 DEF EnterLoop, run
      <4>4. TypeOK'
        BY <2>1, <3>3, <4>1, <4>2 DEF EnterLoop, TypeOK, prompt, Range, InLoop
      <4>5. Placed'
        BY <2>1, <3>3, <4>2, <4>3 DEF EnterLoop, Placed, Places
      <4>6. QED
        BY <2>1, <3>3, <4>1, <4>4, <4>5 DEF EnterLoop
    <3>4. QED
      BY <2>2, <2>3, <3>1, <3>2, <3>3 DEF AfterSeed
  <2>4. CASE item.kind = "meta" /\ pc' = "turn" /\ UNCHANGED <<runState, ends>>
    <3>1. TypeOK' /\ Placed'
      BY <2>1, <2>4 DEF runState, TypeOK, Placed, Places, prompt, run, Range
    <3>2. QED
      BY <2>1, <2>4, <3>1 DEF runState
  <2>5. CASE item.kind = "assistant" /\ AfterAssistant
    <3>1. TypeOK' /\ Placed'
      BY <2>1, <2>5 DEF AfterAssistant, runState, TypeOK, Placed, Places, prompt, run, Range
    <3>2. QED
      BY <2>1, <2>5, <3>1 DEF AfterAssistant, runState
  <2>6. CASE item.kind = "results" /\ NextTurn
    <3>1. blocks' \in Seq(verdicts') /\ Len(blocks') = 0 /\ Range(blocks') = {}
      BY <2>6, EmptyIsList DEF NextTurn
    <3>2. TypeOK'
      BY <2>1, <2>6, <3>1, QueryAssumption DEF NextTurn, TypeOK, prompt
    <3>3. Placed'
      BY <2>1, <2>6 DEF NextTurn, Placed, Places, run
    <3>4. QED
      BY <2>1, <2>6, <3>1, <3>2, <3>3 DEF NextTurn
  <2>7. QED
    BY <1>4, <2>2, <2>3, <2>4, <2>5, <2>6 DEF AsksOn
<1>5. CASE Drop
  <2>1. CASE item.kind \in InLoop /\ pc' = "dropped" /\ UNCHANGED <<runState, ends>>
    <3>1. TypeOK' /\ Placed'
      BY <1>5, <2>1 DEF Drop, runState, TypeOK, Placed, Places, InLoop, prompt, run, Range
    <3>2. QED
      BY <1>5, <2>1, <3>1 DEF Drop, runState
  <2>2. CASE End("dropped")
    BY <1>5, <2>2, EndOK DEF Drop, TypeOK, Placed
  <2>3. QED
    BY <1>5, <2>1, <2>2 DEF Drop
<1>6. CASE CloseDropped
  BY <1>6, EndOK DEF CloseDropped, TypeOK, Placed
<1>7. CASE Crash
  <2>1. IsList(file')
    <3>1. file' = file \/ \E x : file' = Append(file, x)
      BY <1>7 DEF Crash, TornWrites, ShortWrites
    <3>2. ASSUME NEW x PROVE IsList(Append(file, x))
      BY Grows
    <3>3. QED
      BY <3>1, <3>2
  <2>2. crashes' \in 0 .. MaxCrashes /\ open' \subseteq 1 .. setup.runs
    BY <1>1, <1>7 DEF Crash, TypeOK
  <2>3. QED
    BY <1>7, <2>1, <2>2, EndOK DEF Crash, TypeOK, Placed
<1>8. CASE WriteFails
  <2>1. CASE item.kind \in InLoop
    <3>1. TypeOK'
      BY <1>8, <2>1 DEF WriteFails, Raise, TypeOK, prompt, Range
    <3>2. Placed'
      BY <1>8, <2>1 DEF WriteFails, Raise, Placed, Places, InLoop, run
    <3>3. QED
      BY <1>8, <2>1, <3>1, <3>2 DEF WriteFails
  <2>2. CASE End("raised")
    BY <1>8, <2>2, EndOK DEF WriteFails, TypeOK, Placed
  <2>3. QED
    BY <1>8, <2>1, <2>2 DEF WriteFails
<1>9. QED
  BY <1>2, <1>3, <1>4, <1>5, <1>6, <1>7, <1>8

LEMMA StateStep == StateOK /\ [Next]_vars => StateOK'
<1> SUFFICES ASSUME StateOK, [Next]_vars PROVE StateOK'
  OBVIOUS
<1>1. CASE UNCHANGED vars
  BY <1>1 DEF vars, runState, world, StateOK, TypeOK, Placed, Places, InLoop, prompt, run, Range
<1>2. CASE Next
  BY <1>2, FrontOK, LoopOK, ConsumerOK DEF Next, Step
<1>3. QED
  BY <1>1, <1>2

LEMMA StateHolds == Spec => []StateOK
BY InitOK, StateStep, PTL DEF Spec

\* The state of a run, of its agent's requests and of what is kept over runs stays in its
\* domain: no request has more attempts than the transport is configured for, no more
\* runs end than were asked for.
THEOREM TypesHold == Spec => []TypeOK
<1>1. StateOK => TypeOK
  BY DEF StateOK
<1>2. QED
  BY <1>1, StateHolds, PTL

-----------------------------------------------------------------------------
(* The client of the agent.                                                *)

\* Where a run ends, the claim is about what it did with its own client.
LEMMA EndCloses ==
  ASSUME StateOK, ClosedByTheEnd, NEW how, End(how),
         open' \subseteq open \cup {run},
         how \in {"finished", "droppedInLoop", "crashed"} => run \notin open',
         \A r \in DOMAIN ends : r \in open' => r \in open
  PROVE  ClosedByTheEnd'
<1>1. /\ ends' = Append(ends, how) /\ Len(ends) \in Nat /\ DOMAIN ends = 1 .. Len(ends)
      /\ DOMAIN ends' = 1 .. Len(ends) + 1 /\ ends'[Len(ends) + 1] = how
      /\ \A r \in 1 .. Len(ends) : ends'[r] = ends[r]
  BY Grows DEF End, StateOK
<1>2. item'.kind = "none"
  BY DEF End, Fresh, NoItem
<1>3. ASSUME NEW r \in DOMAIN ends', ends'[r] \in {"finished", "droppedInLoop", "crashed"}
      PROVE  r \notin open'
  <2>1. CASE r = Len(ends) + 1
    BY <1>1, <1>3, <2>1 DEF run
  <2>2. CASE r \in DOMAIN ends
    BY <1>1, <1>3, <2>2 DEF ClosedByTheEnd
  <2>3. QED
    BY <1>1, <2>1, <2>2
<1>4. QED
  BY <1>2, <1>3 DEF ClosedByTheEnd

LEMMA ClosedStep == StateOK /\ ClosedByTheEnd /\ [Next]_vars => ClosedByTheEnd'
<1> SUFFICES ASSUME StateOK, ClosedByTheEnd, [Next]_vars PROVE ClosedByTheEnd'
  OBVIOUS
<1>1. Len(ends) \in Nat /\ DOMAIN ends = 1 .. Len(ends)
  BY ListFacts DEF StateOK
\* A step within a run that leaves the client alone and makes no result.
<1>2. ASSUME open' \subseteq open, ends' = ends, setup' = setup,
             item' = item \/ item'.kind # "result"
      PROVE  ClosedByTheEnd'
  BY <1>2 DEF ClosedByTheEnd, prompt, run
<1>3. CASE UNCHANGED vars
  BY <1>2, <1>3 DEF vars, runState, world
<1>4. CASE ClientQuery
  BY <1>2, <1>4 DEF ClientQuery, runState
<1>5. CASE NothingToReceive
  BY <1>5, EndCloses DEF NothingToReceive
<1>6. CASE Start
  <2>1. CASE End("raised")
    BY <1>6, <2>1, <1>1, EndCloses DEF Start, run
  <2>2. CASE Make(Item("init", 0)) /\ UNCHANGED ends
    <3>1. item'.kind = "init" /\ setup' = setup
      BY <1>6, <2>2 DEF Start, Make, Item
    <3>2. \A r \in DOMAIN ends : r \in open' => r \in open
      BY <1>1, <1>6 DEF Start, run
    <3>3. QED
      BY <2>2, <3>1, <3>2 DEF ClosedByTheEnd
  <2>3. QED
    BY <1>6, <2>1, <2>2 DEF Start
<1>7. CASE Crash
  <2>1. open' = {} /\ End("crashed")
    BY <1>7 DEF Crash
  <2>2. QED
    BY <2>1, EndCloses
<1>8. CASE Write
  BY <1>2, <1>8 DEF Write, runState
<1>9. CASE Yield
  BY <1>2, <1>9 DEF Yield, runState
<1>10. CASE BeginTurn
  BY <1>2, <1>10 DEF BeginTurn, world
<1>11. CASE Attempt
  BY <1>2, <1>11 DEF Attempt, world
<1>12. CASE StreamFails
  BY <1>2, <1>12 DEF StreamFails, world
<1>13. CASE RunTools
  <2>1. item' = item \/ item'.kind = "results"
    BY <1>13 DEF RunTools, Make, Item
  <2>2. QED
    BY <1>2, <1>13, <2>1 DEF RunTools, world
<1>14. CASE Close
  BY <1>14 DEF Close, ClosedByTheEnd, run
<1>15. CASE CloseDropped
  <2>1. open' = open \ {run} /\ End("droppedInLoop")
    BY <1>15 DEF CloseDropped
  <2>2. QED
    BY <2>1, EndCloses
<1>16. ASSUME NEW call \in setup.calls, StreamCall(call) PROVE ClosedByTheEnd'
  BY <1>2, <1>16 DEF StreamCall, world
<1>17. ASSUME NEW spent \in {0, 1}, StreamEnds(spent) PROVE ClosedByTheEnd'
  <2>1. item' = item \/ item'.kind = "assistant"
    BY <1>17 DEF StreamEnds, Make, Item
  <2>2. QED
    BY <1>2, <1>17, <2>1 DEF StreamEnds, world
<1>18. CASE AsksOn
  <2>1. CASE item.kind = "result" /\ End("finished")
    <3>1. run \notin open'
      <4>1. prompt.items \in Nat
        BY QueryAssumption DEF StateOK, TypeOK, prompt
      <4>2. prompt.items = 0 => run \notin open'
        BY <1>18, <2>1 DEF AsksOn
      <4>3. prompt.items > 0 => run \notin open'
        BY <1>18, <2>1 DEF AsksOn, ClosedByTheEnd
      <4>4. QED
        BY <4>1, <4>2, <4>3
    <3>2. open' \subseteq open
      BY <1>18 DEF AsksOn
    <3>3. QED
      BY <2>1, <3>1, <3>2, EndCloses
  <2>2. CASE item.kind \in {"init", "user"} /\ AfterSeed
    <3>1. open' = open /\ setup' = setup
      BY <1>18, <2>2 DEF AsksOn
    <3>2. CASE End("raised")
      BY <3>1, <3>2, EndCloses
    <3>3. CASE EchoSeed
      <4>1. item'.kind = "user" /\ ends' = ends
        BY <3>3 DEF EchoSeed, Make, Item
      <4>2. QED
        BY <1>2, <3>1, <4>1
    <3>4. CASE prompt.items = 0 /\ UNCHANGED ends
      BY <3>1, <3>4 DEF ClosedByTheEnd, prompt
    <3>5. CASE EnterLoop
      <4>1. (item' = item \/ item'.kind = "meta") /\ ends' = ends
        BY <3>5 DEF EnterLoop, Make, Item
      <4>2. QED
        BY <1>2, <3>1, <4>1
    <3>6. QED
      BY <2>2, <3>2, <3>3, <3>4, <3>5 DEF AfterSeed
  <2>3. CASE item.kind = "meta" /\ UNCHANGED <<runState, ends>>
    BY <1>2, <1>18, <2>3 DEF AsksOn, runState
  <2>4. CASE item.kind = "assistant" /\ AfterAssistant
    BY <1>2, <1>18, <2>4 DEF AsksOn, AfterAssistant, runState
  <2>5. CASE item.kind = "results" /\ NextTurn
    BY <1>2, <1>18, <2>5 DEF AsksOn, NextTurn
  <2>6. QED
    BY <1>18, <2>1, <2>2, <2>3, <2>4, <2>5 DEF AsksOn
<1>19. CASE Drop
  <2>1. CASE UNCHANGED <<runState, ends>>
    BY <1>2, <1>19, <2>1 DEF Drop, runState
  <2>2. CASE End("dropped")
    BY <1>19, <2>2, EndCloses DEF Drop
  <2>3. QED
    BY <1>19, <2>1, <2>2 DEF Drop
<1>20. ASSUME NEW call \in setup.calls, LeaveOpen(call) PROVE ClosedByTheEnd'
  BY <1>2, <1>20 DEF LeaveOpen, world
<1>21. CASE WriteFails
  <2>1. CASE UNCHANGED <<item, ends>>
    BY <1>2, <1>21, <2>1 DEF WriteFails
  <2>2. CASE End("raised")
    BY <1>21, <2>2, EndCloses DEF WriteFails
  <2>3. QED
    BY <1>21, <2>1, <2>2 DEF WriteFails
<1>22. QED
  BY <1>3, <1>4, <1>5, <1>6, <1>7, <1>8, <1>9, <1>10, <1>11, <1>12, <1>13, <1>14, <1>15,
     <1>16, <1>17, <1>18, <1>19, <1>20, <1>21 DEF Next, Step

\* The agent of a run that was consumed to its end or dropped inside its loop has no open
\* client left, and behind the loop of a prompt that is not empty it is closed before the
\* result is made: no order of errors, drops and crashes leaks it.  Nothing is said of a
\* run that raises, or is dropped, outside its loop: query closes nothing there.
THEOREM ClientIsClosed == Spec => []ClosedByTheEnd
<1>1. Init => ClosedByTheEnd
  BY EmptyIsList DEF Init, ClosedByTheEnd, NoItem
<1>2. QED
  BY <1>1, ClosedStep, StateHolds, PTL DEF Spec

-----------------------------------------------------------------------------
(* The result.                                                             *)

\* What a step may do to the runs and to what was delivered.
LEMMA Shapes ==
  ASSUME StateOK, [Next]_vars
  PROVE  \/ Yield
         \/ \E how : End(how) /\ delivered' = delivered
         \/ /\ UNCHANGED <<ends, delivered>> /\ (pc # "idle" => pc' # "idle")
            /\ UNCHANGED <<item, pc>> \/ pc # "yielded" \/ item.kind # "result"
<1> DEFINE Quiet == /\ UNCHANGED <<ends, delivered>> /\ (pc # "idle" => pc' # "idle")
                    /\ UNCHANGED <<item, pc>> \/ pc # "yielded" \/ item.kind # "result"
           Ended == \E how : End(how) /\ delivered' = delivered
<1>1. CASE UNCHANGED vars
  BY <1>1 DEF vars, runState, world
<1>2. CASE ClientQuery
  BY <1>2 DEF ClientQuery, runState
<1>3. CASE NothingToReceive
  BY <1>3 DEF NothingToReceive
<1>4. CASE Start
  BY <1>4 DEF Start, Make
<1>5. CASE Crash
  BY <1>5 DEF Crash
<1>6. CASE Write
  BY <1>6 DEF Write, runState
<1>7. CASE BeginTurn
  BY <1>7 DEF BeginTurn, Raise, world
<1>8. CASE Attempt
  BY <1>8 DEF Attempt, Retry, RaiseForStatus, Raise, world
<1>9. CASE StreamFails
  BY <1>9 DEF StreamFails, Raise, world
<1>10. CASE RunTools
  BY <1>10 DEF RunTools, Make, Raise, world
<1>11. CASE Close
  BY <1>11 DEF Close, Make
<1>12. CASE CloseDropped
  BY <1>12 DEF CloseDropped
<1>13. ASSUME NEW call \in setup.calls, StreamCall(call) PROVE Quiet
  BY <1>13 DEF StreamCall, Raise, world
<1>14. ASSUME NEW spent \in {0, 1}, StreamEnds(spent) PROVE Quiet
  BY <1>14 DEF StreamEnds, Raise, Make, world
<1>15. CASE AsksOn
  <2>1. CASE item.kind = "result" /\ End("finished")
    BY <1>15, <2>1 DEF AsksOn
  <2>2. CASE item.kind \in {"init", "user"} /\ AfterSeed
    BY <1>15, <2>2 DEF AsksOn, AfterSeed, EchoSeed, EnterLoop, Make
  <2>3. CASE item.kind = "meta" /\ pc' = "turn" /\ UNCHANGED <<runState, ends>>
    BY <1>15, <2>3 DEF AsksOn
  <2>4. CASE item.kind = "assistant" /\ AfterAssistant
    BY <1>15, <2>4 DEF AsksOn, AfterAssistant
  <2>5. CASE item.kind = "results" /\ NextTurn
    BY <1>15, <2>5 DEF AsksOn, NextTurn
  <2>6. QED
    BY <1>15, <2>1, <2>2, <2>3, <2>4, <2>5 DEF AsksOn
<1>16. CASE Drop
  BY <1>16 DEF Drop, InLoop
<1>17. ASSUME NEW call \in setup.calls, LeaveOpen(call) PROVE Quiet
  BY <1>17 DEF LeaveOpen, world
<1>18. CASE WriteFails
  BY <1>18 DEF WriteFails, Raise
<1>19. QED
  BY <1>1, <1>2, <1>3, <1>4, <1>5, <1>6, <1>7, <1>8, <1>9, <1>10, <1>11, <1>12, <1>13,
     <1>14, <1>15, <1>16, <1>17, <1>18 DEF Next, Step

LEMMA SetupStays == ASSUME [Next]_vars PROVE setup' = setup /\ persisted' = persisted
<1>1. setup' = setup
  <2>1. Step => setup' = setup
    BY DEF Step, Write, WriteFails, Yield, BeginTurn, Attempt, StreamFails, RunTools, Close,
           CloseDropped, StreamCall, LeaveOpen, StreamEnds, AsksOn, Drop
  <2>2. QED
    BY <2>1 DEF Next, ClientQuery, NothingToReceive, Start, Crash, vars
<1>2. QED
  BY <1>1 DEF persisted, agent

ResultsOf == {i \in DOMAIN delivered : delivered[i].kind = "result"}
OfRun(r)  == {j \in DOMAIN delivered : delivered[j].run = r}
Turns(r)  == {j \in OfRun(r) : delivered[j].kind = "assistant"}

\* A result counts the turns of its run, and maybe one that the transcript did not take.
Counts(r) ==
  LET n == Cardinality(Turns(r.run)) IN
  \/ r.turns = n
  \/ r.turns = n + 1 /\ persisted /\ r.subtype = "error_during_execution"

\* A result is the last message of its run and counts its turns; the consumer of this run
\* stands at it if it got one.
ToldInv ==
  /\ \A i \in DOMAIN delivered :
       delivered[i].run \in Nat /\ delivered[i].run <= run
       /\ (delivered[i].run = run => pc # "idle")
  /\ \A i \in ResultsOf :
       /\ delivered[i].run = run => pc = "yielded" /\ item = delivered[i]
       /\ \A j \in OfRun(delivered[i].run) : j <= i
       /\ Counts(delivered[i])

\* A turn that is counted was delivered, or is just being written or yielded; or its write
\* failed, and the run goes on to its result.
Underway == item.kind = "assistant" /\ pc \in {"made", "written"}
Missed ==
  /\ persisted
  /\ \/ pc = "closing" /\ outcome = "error_during_execution"
     \/ item.kind = "result" /\ item.subtype = "error_during_execution"
CountInv ==
  LET n == Cardinality(Turns(run)) IN
  IF Underway THEN numTurns = n + 1 ELSE numTurns = n \/ (Missed /\ numTurns = n + 1)

\* The ids of the blocks are those of the turns so far, each used once.
IdsInv ==
  /\ \A v \in verdicts : \E s, k \in Nat :
       v.id = <<s, k>> /\ (s < step \/ (s = step /\ k <= Len(blocks)))
  /\ \A v, w \in verdicts : v.id = w.id => v = w

\* The result, once it is made, says what the run's state says.
MadeInv ==
  /\ item.kind = "result" =>
       /\ item.turns = numTurns /\ item.denials = Denials
       /\ prompt.items > 0 => (item.subtype # "success" <=> outcome # "none")
  /\ item.kind \in {"init", "user"} =>
       numTurns = 0 /\ (pc \in Places => verdicts = {})

\* What is delivered is found at the end of what was.
LEMMA Delivering ==
  ASSUME StateOK, Deliver, item.run = run, NEW r
  PROVE  /\ DOMAIN delivered = 1 .. Len(delivered) /\ Len(delivered) \in Nat
         /\ DOMAIN delivered' = 1 .. Len(delivered) + 1
         /\ delivered'[Len(delivered) + 1] = item
         /\ \A i \in 1 .. Len(delivered) : delivered'[i] = delivered[i]
         /\ IsFiniteSet(Turns(r)) /\ Cardinality(Turns(r)) \in Nat
         /\ OfRun(r)' = IF r = run THEN OfRun(r) \cup {Len(delivered) + 1} ELSE OfRun(r)
         /\ Turns(r)' = IF r = run /\ item.kind = "assistant"
                        THEN Turns(r) \cup {Len(delivered) + 1} ELSE Turns(r)
         /\ Len(delivered) + 1 \notin Turns(r)
<1>1. /\ DOMAIN delivered = 1 .. Len(delivered) /\ Len(delivered) \in Nat
      /\ DOMAIN delivered' = 1 .. Len(delivered) + 1
      /\ delivered'[Len(delivered) + 1] = item
      /\ \A i \in 1 .. Len(delivered) : delivered'[i] = delivered[i]
  BY Grows DEF StateOK, Deliver
<1>2. IsFiniteSet(Turns(r)) /\ Cardinality(Turns(r)) \in Nat
  <2>1. Turns(r) \in SUBSET (1 .. Len(delivered))
    BY <1>1 DEF Turns, OfRun
  <2>2. IsFiniteSet(1 .. Len(delivered))
    BY <1>1, FS_Interval
  <2>3. QED
    BY <2>1, <2>2, FS_Subset, FS_CardinalityType
<1>3. {j \in DOMAIN delivered' : delivered'[j].run = r}
        = IF r = run THEN OfRun(r) \cup {Len(delivered) + 1} ELSE OfRun(r)
  BY <1>1 DEF OfRun
<1>4. {j \in DOMAIN delivered' : delivered'[j].run = r /\ delivered'[j].kind = "assistant"}
        = IF r = run /\ item.kind = "assistant"
          THEN Turns(r) \cup {Len(delivered) + 1} ELSE Turns(r)
  BY <1>1 DEF OfRun, Turns
<1>5. Len(delivered) + 1 \notin Turns(r)
  BY <1>1 DEF Turns, OfRun
<1>6. QED
  BY <1>1, <1>2, <1>3, <1>4, <1>5 DEF OfRun, Turns

LEMMA ToldStep ==
  StateOK /\ ToldInv /\ CountInv /\ MadeInv /\ [Next]_vars => ToldInv'
<1> SUFFICES ASSUME StateOK, ToldInv, CountInv, MadeInv, [Next]_vars PROVE ToldInv'
  OBVIOUS
<1>1. CASE Yield
  <2>1. /\ Deliver /\ pc \in {"made", "written"} /\ pc' = "yielded" /\ item' = item
        /\ run' = run /\ item.run = run /\ run \in Nat
    BY <1>1, ListFacts DEF Yield, Deliver, runState, StateOK, Placed, run
  <2>2. \A i \in ResultsOf : delivered[i].run # run
    BY <2>1 DEF ToldInv
  <2>3. /\ DOMAIN delivered = 1 .. Len(delivered) /\ Len(delivered) \in Nat
        /\ DOMAIN delivered' = 1 .. Len(delivered) + 1
        /\ delivered'[Len(delivered) + 1] = item
        /\ \A i \in 1 .. Len(delivered) : delivered'[i] = delivered[i]
    BY <2>1, Delivering
  <2>4. ASSUME NEW i \in DOMAIN delivered'
        PROVE  delivered'[i].run \in Nat /\ delivered'[i].run <= run'
               /\ (delivered'[i].run = run' => pc' # "idle")
    BY <2>1, <2>3 DEF ToldInv
  <2>5. ASSUME NEW i \in DOMAIN delivered', delivered'[i].kind = "result"
        PROVE  /\ delivered'[i].run = run' => pc' = "yielded" /\ item' = delivered'[i]
               /\ \A j \in OfRun(delivered[i].run)' : j <= i
               /\ Counts(delivered[i])'
    <3>1. CASE i = Len(delivered) + 1
      <4>1. /\ \A j \in OfRun(run)' : j <= i
            /\ Turns(run)' = Turns(run) /\ Cardinality(Turns(run)) \in Nat
        <5>1. PICK r : r = run
          OBVIOUS
        <5>2. OfRun(r)' = OfRun(r) \cup {Len(delivered) + 1}
          BY <2>1, <5>1, Delivering
        <5>3. Turns(r)' = Turns(r) /\ Cardinality(Turns(r)) \in Nat
          BY <2>1, <2>3, <2>5, <3>1, <5>1, Delivering
        <5>4. \A j \in OfRun(r) : j \in 1 .. Len(delivered)
          BY <2>3 DEF OfRun
        <5>5. \A j \in OfRun(r)' : j <= i
          BY <2>3, <3>1, <5>2, <5>4
        <5>6. r = run'
          BY <2>1, <5>1
        <5>7. QED
          BY <5>1, <5>3, <5>5, <5>6
      <4>2. \/ item.turns = Cardinality(Turns(run))
            \/ /\ item.turns = Cardinality(Turns(run)) + 1
               /\ persisted /\ item.subtype = "error_during_execution"
        <5>1. item.kind = "result" /\ pc # "closing" /\ ~Underway
          BY <2>1, <2>3, <2>5, <3>1 DEF Underway
        <5>2. item.turns = numTurns
          BY <5>1 DEF MadeInv
        <5>3. Missed => persisted /\ item.subtype = "error_during_execution"
          BY <5>1 DEF Missed
        <5>4. QED
          BY <5>1, <5>2, <5>3 DEF CountInv
      <4>3. delivered'[i] = item /\ item.run = run /\ run' = run
        BY <2>1, <2>3, <3>1
      <4>4. Counts(delivered[i])'
        <5>1. PICK r : r = run
          OBVIOUS
        <5>2. Turns(r)' = Turns(r)
          BY <4>1, <4>3, <5>1
        <5>3. delivered'[i].run = r
          BY <4>3, <5>1
        <5>4. QED
          BY <4>2, <4>3, <5>1, <5>2, <5>3, SetupStays DEF Counts
      <4>5. QED
        BY <2>1, <4>1, <4>3, <4>4
    <3>2. CASE i \in 1 .. Len(delivered)
      <4>1. delivered'[i] = delivered[i] /\ i \in ResultsOf /\ delivered[i].run # run
        BY <2>2, <2>3, <2>5, <3>2 DEF ResultsOf
      <4>2. PICK r : r = delivered[i].run
        OBVIOUS
      <4>3. OfRun(r)' = OfRun(r) /\ Turns(r)' = Turns(r)
        BY <2>1, <4>1, <4>2, Delivering
      <4>4. (\A j \in OfRun(r) : j <= i) /\ Counts(delivered[i])
        BY <4>1, <4>2 DEF ToldInv
      <4>5. delivered'[i].run = r /\ delivered'[i] = delivered[i]
        BY <4>1, <4>2
      <4>6. Counts(delivered[i])'
        BY <4>2, <4>3, <4>4, <4>5, SetupStays DEF Counts
      <4>7. QED
        BY <2>1, <4>1, <4>2, <4>3, <4>4, <4>5, <4>6
    <3>3. QED
      BY <2>3, <3>1, <3>2
  <2>6. QED
    BY <2>4, <2>5 DEF ToldInv, ResultsOf
<1>2. ASSUME NEW how, End(how), delivered' = delivered
      PROVE  ToldInv'
  <2>1. run' = run + 1 /\ run \in Nat
    BY <1>2, Grows DEF End, StateOK, run
  <2>2. QED
    BY <1>2, <2>1, SetupStays DEF ToldInv, ResultsOf, OfRun, Turns, Counts
<1>3. CASE /\ UNCHANGED <<ends, delivered>> /\ (pc # "idle" => pc' # "idle")
           /\ UNCHANGED <<item, pc>> \/ pc # "yielded" \/ item.kind # "result"
  <2>1. run' = run /\ delivered' = delivered
    BY <1>3 DEF run
  <2>2. \A i \in ResultsOf : delivered[i].run = run => UNCHANGED <<item, pc>>
    BY <1>3 DEF ToldInv, ResultsOf
  <2>3. QED
    <3>1. ASSUME NEW i \in DOMAIN delivered'
          PROVE  delivered'[i].run \in Nat /\ delivered'[i].run <= run'
                 /\ (delivered'[i].run = run' => pc' # "idle")
      BY <1>3, <2>1 DEF ToldInv
    <3>2. ASSUME NEW i \in ResultsOf'
          PROVE  /\ delivered'[i].run = run' => pc' = "yielded" /\ item' = delivered'[i]
                 /\ \A j \in OfRun(delivered[i].run)' : j <= i
                 /\ Counts(delivered[i])'
      <4>1. i \in ResultsOf /\ delivered'[i] = delivered[i]
        BY <2>1, <3>2 DEF ResultsOf
      <4>2. Counts(delivered[i])' <=> Counts(delivered[i])
        BY <2>1, SetupStays DEF Counts, Turns, OfRun
      <4>3. OfRun(delivered[i].run)' = OfRun(delivered[i].run)
        BY <2>1 DEF OfRun
      <4>4. QED
        BY <2>1, <2>2, <4>1, <4>2, <4>3 DEF ToldInv
    <3>3. QED
      BY <3>1, <3>2 DEF ToldInv, ResultsOf
<1>4. QED
  BY <1>1, <1>2, <1>3, Shapes

\* A step that neither delivers nor counts, and moves no turn under way.
LEMMA CountKept ==
  ASSUME CountInv, UNCHANGED <<ends, delivered, numTurns>>, Underway' <=> Underway,
         Missed => Missed'
  PROVE  CountInv'
<1>1. Turns(run)' = Turns(run)
  BY DEF Turns, OfRun, run
<1>2. QED
  BY <1>1 DEF CountInv

LEMMA CountIs ==
  ASSUME NEW r, run' = r, ~Underway', numTurns' = Cardinality(Turns(r)')
  PROVE  CountInv'
<1>1. Turns(run)' = Turns(r)'
  BY DEF Turns, OfRun
<1>2. QED
  BY <1>1 DEF CountInv

LEMMA CountStep == StateOK /\ ToldInv /\ CountInv /\ [Next]_vars => CountInv'
<1> SUFFICES ASSUME StateOK, ToldInv, CountInv, [Next]_vars PROVE CountInv'
  OBVIOUS
\* No turn was missed where the loop goes on.
<1>0. /\ pc \notin Places \cup {"closing"} => ~Missed
      /\ item.kind # "result" /\ pc # "closing" => ~Missed
  BY DEF Missed, StateOK, Placed, Places
<1>1. CASE UNCHANGED vars
  BY <1>1, CountKept, SetupStays DEF vars, runState, world, Underway, Missed
<1>2. CASE ClientQuery
  BY <1>0, <1>2, CountKept DEF ClientQuery, runState, Underway, Places
<1>3. ASSUME NEW how, End(how), delivered' = delivered
      PROVE  CountInv'
  <2>1. run' = run + 1 /\ run \in Nat
    BY <1>3, Grows DEF End, StateOK, run
  <2>2. Turns(run)' = {}
    BY <1>3, <2>1 DEF Turns, OfRun, ToldInv
  <2>3. numTurns' = 0 /\ ~Underway'
    BY <1>3 DEF End, Fresh, Underway
  <2>4. QED
    BY <2>2, <2>3, FS_EmptySet DEF CountInv
<1>4. CASE NothingToReceive
  BY <1>3, <1>4 DEF NothingToReceive
<1>5. CASE Start
  <2>1. CASE End("raised")
    BY <1>3, <1>5, <2>1 DEF Start
  <2>2. CASE Make(Item("init", 0)) /\ UNCHANGED <<numTurns, ends>>
    <3>1. ~Underway /\ ~Underway' /\ ~Missed
      BY <1>0, <1>5, <2>2 DEF Start, Make, Item, Underway, Places
    <3>2. QED
      BY <1>5, <2>2, <3>1, CountKept DEF Start
  <2>3. QED
    BY <1>5, <2>1, <2>2 DEF Start
<1>6. CASE Crash
  BY <1>3, <1>6 DEF Crash
<1>7. CASE Write
  <2>1. Missed => Missed'
    BY <1>7, SetupStays DEF Write, runState, Missed
  <2>2. QED
    BY <1>7, <2>1, CountKept DEF Write, runState, Underway
<1>8. CASE Yield
  <2>1. /\ Deliver /\ pc \in {"made", "written"} /\ item' = item /\ item.run = run
        /\ ends' = ends /\ numTurns' = numTurns /\ pc' = "yielded"
    BY <1>8 DEF Yield, Deliver, runState, StateOK, Placed
  <2>2. PICK r : r = run
    OBVIOUS
  <2>3. run' = run
    BY <2>1 DEF run
  <2>4. CASE item.kind = "assistant"
    <3>1. Turns(r)' = Turns(r) \cup {Len(delivered) + 1}
      BY <2>1, <2>2, <2>4, Delivering
    <3>2. IsFiniteSet(Turns(r)) /\ Len(delivered) + 1 \notin Turns(r)
      BY <2>1, Delivering
    <3>3. Cardinality(Turns(r)') = Cardinality(Turns(r)) + 1
      BY <3>1, <3>2, FS_AddElement
    <3>4. numTurns = Cardinality(Turns(r)) + 1
      BY <2>1, <2>2, <2>4 DEF CountInv, Underway
    <3>5. ~Underway'
      BY <2>1 DEF Underway
    <3>6. numTurns' = Cardinality(Turns(r)')
      BY <2>1, <3>2, <3>3, <3>4, FS_CardinalityType
    <3>7. QED
      BY <2>2, <2>3, <3>5, <3>6, CountIs
  <2>5. CASE item.kind # "assistant"
    <3>1. Turns(r)' = Turns(r)
      BY <2>1, <2>5, Delivering
    <3>2. ~Underway /\ ~Underway'
      BY <2>1, <2>5 DEF Underway
    <3>3. Missed => Missed'
      BY <1>8, <2>1, SetupStays DEF Missed
    <3>4. Turns(run)' = Turns(run)
      BY <2>2, <2>3, <3>1 DEF Turns, OfRun
    <3>5. QED
      BY <2>1, <3>2, <3>3, <3>4 DEF CountInv
  <2>6. QED
    BY <2>4, <2>5
<1>9. CASE BeginTurn
  BY <1>0, <1>9, CountKept DEF BeginTurn, Raise, world, Underway, Places
<1>10. CASE Attempt
  BY <1>0, <1>10, CountKept DEF Attempt, Retry, RaiseForStatus, Raise, world, Underway, Places
<1>11. CASE StreamFails
  BY <1>0, <1>11, CountKept DEF StreamFails, Raise, world, Underway, Places
<1>12. CASE RunTools
  <2>1. ~Underway /\ ~Underway' /\ ~Missed
    BY <1>0, <1>12 DEF RunTools, Make, Item, Raise, Underway, Places
  <2>2. QED
    BY <1>12, <2>1, CountKept DEF RunTools, world
<1>13. CASE Close
  <2>1. ~Underway /\ ~Underway'
    BY <1>13 DEF Close, Make, ResultItem, BuildResult, Underway
  <2>2. Missed => Missed'
    <3>1. Missed => persisted' /\ outcome = "error_during_execution"
      BY <1>13, SetupStays DEF Close, Missed, StateOK, Placed, Places
    <3>2. item'.kind = "result" /\ (outcome = "error_during_execution" => item'.subtype = outcome)
      BY <1>13 DEF Close, Make, ResultItem, BuildResult
    <3>3. QED
      BY <3>1, <3>2 DEF Missed
  <2>3. QED
    BY <1>13, <2>1, <2>2, CountKept DEF Close
<1>14. CASE CloseDropped
  BY <1>3, <1>14 DEF CloseDropped
<1>15. ASSUME NEW call \in setup.calls, StreamCall(call) PROVE CountInv'
  BY <1>0, <1>15, CountKept DEF StreamCall, Raise, world, Underway, Places
<1>16. ASSUME NEW spent \in {0, 1}, StreamEnds(spent) PROVE CountInv'
  <2>1. ~Underway /\ ~Missed /\ UNCHANGED <<ends, delivered>>
    BY <1>0, <1>16 DEF StreamEnds, Underway, world, Places
  <2>2. CASE Make(Item("assistant", step)) /\ numTurns' = numTurns + 1
    <3>1. Underway'
      BY <2>2 DEF Make, Item, Underway
    <3>2. Turns(run)' = Turns(run)
      BY <2>1 DEF Turns, OfRun, run
    <3>3. numTurns = Cardinality(Turns(run)) /\ numTurns \in Nat
      BY <2>1 DEF CountInv, StateOK, TypeOK
    <3>4. Cardinality(Turns(run)) \in Nat
      <4>1. Turns(run) \in SUBSET (1 .. Len(delivered)) /\ Len(delivered) \in Nat
        BY ListFacts DEF Turns, OfRun, StateOK
      <4>2. IsFiniteSet(1 .. Len(delivered))
        BY <4>1, FS_Interval
      <4>3. IsFiniteSet(Turns(run))
        BY <4>1, <4>2, FS_Subset
      <4>4. QED
        BY <4>3, FS_CardinalityType
    <3>5. numTurns' = Cardinality(Turns(run)) + 1
      BY <2>2, <3>3, <3>4
    <3>6. QED
      BY <3>1, <3>2, <3>5 DEF CountInv
  <2>3. CASE pc' = "closing" /\ numTurns' = numTurns
    BY <2>1, <2>3, CountKept DEF Underway
  <2>4. QED
    BY <1>16, <2>2, <2>3 DEF StreamEnds, Raise
<1>17. CASE AsksOn
  <2>1. ~Underway /\ delivered' = delivered /\ pc # "closing"
    BY <1>17 DEF AsksOn, Underway
  <2>2. CASE item.kind = "result" /\ End("finished")
    BY <1>3, <2>1, <2>2
  <2>3. CASE item.kind \in {"init", "user"} /\ AfterSeed
    <3>1. CASE End("raised")
      BY <1>3, <2>1, <3>1
    <3>2. CASE ~End("raised")
      <4>1. UNCHANGED <<ends, numTurns>> /\ ~Underway'
        BY <2>3, <3>2 DEF AfterSeed, EchoSeed, EnterLoop, Make, Item, BuildResult, Underway
      <4>2. QED
        BY <1>0, <2>1, <2>3, <4>1, CountKept
    <3>3. QED
      BY <3>1, <3>2
  <2>4. CASE item.kind = "meta" /\ pc' = "turn" /\ UNCHANGED <<runState, ends>>
    BY <1>0, <2>1, <2>4, CountKept DEF runState, Underway
  <2>5. CASE item.kind = "assistant" /\ AfterAssistant
    BY <1>0, <2>1, <2>5, CountKept DEF AfterAssistant, runState, Underway
  <2>6. CASE item.kind = "results" /\ NextTurn
    BY <1>0, <2>1, <2>6, CountKept DEF NextTurn, Underway
  <2>7. QED
    BY <1>17, <2>2, <2>3, <2>4, <2>5, <2>6 DEF AsksOn
<1>18. CASE Drop
  <2>1. CASE item.kind \in InLoop /\ pc' = "dropped" /\ UNCHANGED <<runState, ends>>
    BY <1>0, <1>18, <2>1, CountKept DEF Drop, runState, Underway, InLoop
  <2>2. CASE End("dropped")
    BY <1>3, <1>18, <2>2 DEF Drop
  <2>3. QED
    BY <1>18, <2>1, <2>2 DEF Drop
<1>19. ASSUME NEW call \in setup.calls, LeaveOpen(call) PROVE CountInv'
  BY <1>0, <1>19, CountKept DEF LeaveOpen, world, Underway, Places
<1>20. CASE WriteFails
  <2>1. CASE item.kind \in InLoop
    <3>1. /\ UNCHANGED <<setup, item, numTurns, ends, delivered>> /\ pc = "made"
          /\ pc' = "closing" /\ outcome' = "error_during_execution" /\ persisted
      BY <1>20, <2>1 DEF WriteFails, Raise
    <3>2. ~Underway' /\ Missed' /\ ~Missed
      BY <1>0, <2>1, <3>1, SetupStays DEF Underway, Missed, InLoop
    <3>3. Turns(run)' = Turns(run)
      BY <3>1 DEF Turns, OfRun, run
    <3>4. QED
      BY <3>1, <3>2, <3>3 DEF CountInv
  <2>2. CASE End("raised")
    BY <1>3, <1>20, <2>2 DEF WriteFails
  <2>3. QED
    BY <1>20, <2>1, <2>2 DEF WriteFails
<1>21. QED
  BY <1>1, <1>2, <1>4, <1>5, <1>6, <1>7, <1>8, <1>9, <1>10, <1>11, <1>12, <1>13, <1>14,
     <1>15, <1>16, <1>17, <1>18, <1>19, <1>20 DEF Next, Step

LEMMA IdsStep == StateOK /\ IdsInv /\ [Next]_vars => IdsInv'
<1> SUFFICES ASSUME StateOK, IdsInv, [Next]_vars PROVE IdsInv'
  OBVIOUS
<1>1. CASE UNCHANGED <<verdicts, step, blocks>>
  BY <1>1 DEF IdsInv
<1>2. ASSUME NEW how, End(how) PROVE IdsInv'
  BY <1>2 DEF End, Fresh, IdsInv
<1>3. ASSUME NEW call \in setup.calls, StreamCall(call) \/ LeaveOpen(call) PROVE IdsInv'
  <2>1. CASE UNCHANGED <<verdicts, step, blocks>>
    BY <1>1, <2>1
  <2>2. CASE ~UNCHANGED <<verdicts, step, blocks>>
    <3>1. PICK b : /\ b.id = <<step, Len(blocks) + 1>> /\ blocks' = Append(blocks, b)
                   /\ verdicts' = verdicts \cup {b} /\ step' = step
      <4> DEFINE v == VerdictOn(call)
                 b == [id |-> <<step, Len(blocks) + 1>>, tool |-> call.tool,
                       sent |-> call.input, input |-> v.input, verdict |-> v.verdict,
                       rewritten |-> v.rewritten]
                 left == [id |-> <<step, Len(blocks) + 1>>, tool |-> call.tool,
                          sent |-> call.input, input |-> call.input, verdict |-> "open",
                          rewritten |-> FALSE]
      <4>1. \E x \in {b, left} :
              blocks' = Append(blocks, x) /\ verdicts' = verdicts \cup {x} /\ step' = step
        BY <1>3, <2>2 DEF StreamCall, LeaveOpen
      <4>2. b.id = <<step, Len(blocks) + 1>> /\ left.id = <<step, Len(blocks) + 1>>
        OBVIOUS
      <4> HIDE DEF b, left
      <4>3. QED
        BY <4>1, <4>2
    <3>2. Len(blocks') = Len(blocks) + 1 /\ Len(blocks) \in Nat /\ step \in Nat
      BY <3>1, GrowsIn DEF StateOK, TypeOK
    <3>3. ASSUME NEW v \in verdicts'
          PROVE  \E s, k \in Nat : v.id = <<s, k>> /\ (s < step \/ (s = step /\ k <= Len(blocks')))
      <4>1. CASE v = b
        BY <3>1, <3>2, <4>1
      <4>2. CASE v \in verdicts
        BY <3>2, <4>2 DEF IdsInv
      <4>3. QED
        BY <3>1, <4>1, <4>2
    <3>4. ASSUME NEW v \in verdicts PROVE v.id # b.id
      <4>1. PICK s, k \in Nat :
              v.id = <<s, k>> /\ (s < step \/ (s = step /\ k <= Len(blocks)))
        BY DEF IdsInv
      <4>2. s # step \/ k # Len(blocks) + 1
        BY <3>2, <4>1
      <4>3. QED
        BY <3>1, <4>1, <4>2
    <3>5. \A v, w \in verdicts' : v.id = w.id => v = w
      BY <3>1, <3>4 DEF IdsInv
    <3>6. QED
      BY <3>1, <3>3, <3>5 DEF IdsInv
  <2>3. QED
    BY <2>1, <2>2
<1>4. CASE NextTurn
  <2>1. step' = step + 1 /\ verdicts' = verdicts /\ step \in Nat
    BY <1>4 DEF NextTurn, StateOK, TypeOK
  <2>2. ASSUME NEW v \in verdicts
        PROVE  \E s, k \in Nat : v.id = <<s, k>> /\ s < step'
    BY <2>1 DEF IdsInv
  <2>3. QED
    BY <2>1, <2>2 DEF IdsInv
<1>5. CASE AsksOn
  BY <1>1, <1>2, <1>4, <1>5 DEF AsksOn, AfterSeed, EchoSeed, EnterLoop, AfterAssistant, runState
<1>6. CASE Start
  BY <1>1, <1>2, <1>6 DEF Start
<1>7. CASE Drop
  BY <1>1, <1>2, <1>7 DEF Drop, runState
<1>8. CASE UNCHANGED vars \/ ClientQuery \/ Write \/ WriteFails \/ Yield
  BY <1>1, <1>2, <1>8 DEF vars, ClientQuery, Write, WriteFails, Yield, runState
<1>9. CASE NothingToReceive \/ Crash \/ CloseDropped
  BY <1>2, <1>9 DEF NothingToReceive, Crash, CloseDropped
<1>10. CASE BeginTurn \/ Attempt \/ StreamFails \/ RunTools \/ Close
  BY <1>1, <1>10 DEF BeginTurn, Attempt, StreamFails, RunTools, Close
<1>11. ASSUME NEW spent \in {0, 1}, StreamEnds(spent) PROVE IdsInv'
  BY <1>1, <1>11 DEF StreamEnds
<1>12. QED
  BY <1>3, <1>5, <1>6, <1>7, <1>8, <1>9, <1>10, <1>11 DEF Next, Step

LEMMA MadeStep == StateOK /\ MadeInv /\ [Next]_vars => MadeInv'
<1> SUFFICES ASSUME StateOK, MadeInv, [Next]_vars PROVE MadeInv'
  OBVIOUS
<1> USE DEF Placed
\* A step that leaves the item alone, and what a result tells where the item is one.
<1>1. ASSUME item' = item, setup' = setup,
             item.kind = "result" => UNCHANGED <<numTurns, verdicts, outcome>>,
             item.kind \in {"init", "user"} =>
               numTurns' = numTurns /\ (pc' \in Places => pc \in Places /\ verdicts' = verdicts)
      PROVE  MadeInv'
  BY <1>1 DEF MadeInv, Denials, prompt
<1>2. ASSUME NEW how, End(how) PROVE MadeInv'
  BY <1>2 DEF End, Fresh, NoItem, MadeInv
<1>3. ASSUME item'.kind \in InLoop PROVE MadeInv'
  BY <1>3 DEF InLoop, MadeInv
<1>4. CASE UNCHANGED vars
  BY <1>1, <1>4 DEF vars, runState
<1>5. CASE ClientQuery
  BY <1>1, <1>5 DEF ClientQuery, runState
<1>6. CASE NothingToReceive \/ Crash \/ CloseDropped
  BY <1>2, <1>6 DEF NothingToReceive, Crash, CloseDropped
<1>7. CASE Start
  <2>1. CASE End("raised")
    BY <1>2, <2>1
  <2>2. CASE Make(Item("init", 0)) /\ UNCHANGED <<numTurns, verdicts>>
    <3>1. item'.kind = "init" /\ numTurns' = 0 /\ verdicts' = {}
      BY <1>7, <2>2 DEF Start, Make, Item, StateOK
    <3>2. QED
      BY <3>1 DEF MadeInv
  <2>3. QED
    BY <1>7, <2>1, <2>2 DEF Start
<1>8. CASE Write
  BY <1>1, <1>8 DEF Write, runState, Places
<1>9. CASE Yield
  BY <1>1, <1>9 DEF Yield, Deliver, runState, Places
<1>10. CASE BeginTurn
  BY <1>1, <1>10 DEF BeginTurn, Raise, Places, StateOK
<1>11. CASE Attempt
  BY <1>1, <1>11 DEF Attempt, Retry, RaiseForStatus, Raise, Places, StateOK
<1>12. CASE StreamFails
  BY <1>1, <1>12 DEF StreamFails, Raise, Places, StateOK
<1>13. CASE RunTools
  <2>1. CASE item' = item /\ pc' = "closing"
    BY <1>1, <1>13, <2>1 DEF RunTools, Places, StateOK
  <2>2. CASE Make(Item("results", step))
    BY <1>3, <2>2 DEF Make, Item, InLoop
  <2>3. QED
    BY <1>13, <2>1, <2>2 DEF RunTools, Raise
<1>14. CASE Close
  <2>1. /\ item' = ResultItem(IF outcome = "none" THEN "success" ELSE outcome)
        /\ UNCHANGED <<setup, numTurns, verdicts, outcome>>
    BY <1>14 DEF Close, Make
  <2>2. /\ item'.kind = "result" /\ item'.turns = numTurns /\ item'.denials = Denials
        /\ item'.subtype = (IF outcome = "none" THEN "success" ELSE outcome)
    BY <2>1 DEF ResultItem, BuildResult
  <2>3. outcome # "none" => outcome # "success"
    BY DEF StateOK, TypeOK
  <2>4. QED
    BY <2>1, <2>2, <2>3 DEF MadeInv, Denials
<1>15. ASSUME NEW call \in setup.calls, StreamCall(call) PROVE MadeInv'
  BY <1>1, <1>15 DEF StreamCall, Raise, Places, StateOK
<1>16. ASSUME NEW spent \in {0, 1}, StreamEnds(spent) PROVE MadeInv'
  <2>1. CASE Make(Item("assistant", step))
    BY <1>3, <2>1 DEF Make, Item, InLoop
  <2>2. CASE pc' = "closing" /\ UNCHANGED <<item, numTurns>>
    BY <1>1, <1>16, <2>2 DEF StreamEnds, Places, StateOK
  <2>3. QED
    BY <1>16, <2>1, <2>2 DEF StreamEnds, Raise
<1>17. CASE AsksOn
  <2>1. pc = "yielded" /\ setup' = setup
    BY <1>17 DEF AsksOn
  <2>2. CASE item.kind \in {"init", "user"} /\ AfterSeed
    <3>1. numTurns = 0 /\ verdicts = {}
      BY <2>1, <2>2 DEF MadeInv, Places
    <3>2. CASE End("raised")
      BY <1>2, <3>2
    <3>3. CASE EchoSeed
      <4>1. item'.kind = "user" /\ numTurns' = 0 /\ verdicts' = {}
        BY <3>1, <3>3 DEF EchoSeed, Make, Item
      <4>2. QED
        BY <4>1 DEF MadeInv
    <3>4. CASE /\ prompt.items = 0 /\ Make(BuildResult("error_during_execution", 0, {}))
               /\ UNCHANGED <<numTurns, verdicts>>
      <4>1. /\ item'.kind = "result" /\ item'.turns = 0 /\ item'.denials = {}
            /\ numTurns' = 0 /\ verdicts' = {} /\ prompt'.items = 0
        BY <2>1, <3>1, <3>4 DEF Make, BuildResult, prompt
      <4>2. QED
        BY <4>1 DEF MadeInv, Denials
    <3>5. CASE EnterLoop
      <4>1. CASE item'.kind = "meta"
        BY <1>3, <4>1 DEF InLoop
      <4>2. CASE item' = item /\ pc' = "turn"
        BY <1>1, <2>1, <2>2, <3>5, <4>2 DEF EnterLoop, Places
      <4>3. QED
        BY <3>5, <4>1, <4>2 DEF EnterLoop, Make, Item
    <3>6. QED
      BY <2>2, <3>2, <3>3, <3>4, <3>5 DEF AfterSeed
  <2>3. CASE item.kind = "meta" /\ UNCHANGED <<runState, ends>>
    BY <1>1, <2>1, <2>3 DEF runState
  <2>4. CASE item.kind = "assistant" /\ AfterAssistant
    BY <1>1, <2>1, <2>4 DEF AfterAssistant, runState
  <2>5. CASE item.kind = "results" /\ NextTurn
    BY <1>1, <2>1, <2>5 DEF NextTurn
  <2>6. QED
    BY <1>2, <1>17, <2>2, <2>3, <2>4, <2>5 DEF AsksOn
<1>18. CASE Drop
  <2>1. CASE item.kind \in InLoop /\ UNCHANGED <<runState, ends>>
    BY <1>3, <2>1 DEF runState
  <2>2. QED
    BY <1>2, <1>18, <2>1 DEF Drop
<1>19. ASSUME NEW call \in setup.calls, LeaveOpen(call) PROVE MadeInv'
  BY <1>1, <1>19 DEF LeaveOpen, Places, StateOK
<1>20. CASE WriteFails
  <2>1. CASE item.kind \in InLoop /\ item' = item
    BY <1>3, <2>1
  <2>2. QED
    BY <1>2, <1>20, <2>1 DEF WriteFails
<1>21. QED
  BY <1>4, <1>5, <1>6, <1>7, <1>8, <1>9, <1>10, <1>11, <1>12, <1>13, <1>14, <1>15, <1>16,
     <1>17, <1>18, <1>19, <1>20 DEF Next, Step

TruthInv == ToldInv /\ CountInv /\ IdsInv /\ MadeInv

LEMMA TruthInit == Init => TruthInv
<1> SUFFICES ASSUME Init PROVE TruthInv
  OBVIOUS
<1>1. /\ DOMAIN delivered = {} /\ numTurns = 0 /\ verdicts = {} /\ item.kind = "none"
      /\ pc = "idle"
  BY EmptyIsList DEF Init, NoItem
<1>2. Turns(run) = {} /\ ~Underway
  BY <1>1 DEF Turns, OfRun, Underway
<1>3. QED
  BY <1>1, <1>2, FS_EmptySet DEF TruthInv, ToldInv, CountInv, IdsInv, MadeInv, ResultsOf

LEMMA TruthStep == StateOK /\ TruthInv /\ [Next]_vars => TruthInv'
BY ToldStep, CountStep, IdsStep, MadeStep DEF TruthInv

LEMMA TruthMeans == StateOK /\ TruthInv => ResultIsTruthful
<1> SUFFICES ASSUME StateOK, TruthInv, NEW i \in DOMAIN delivered,
                    delivered[i].kind = "result"
             PROVE  LET r == delivered[i]
                        ofRun == {j \in DOMAIN delivered : delivered[j].run = r.run}
                        seen == Cardinality({j \in ofRun : delivered[j].kind = "assistant"})
                    IN /\ \A j \in ofRun : j <= i
                       /\ \/ r.turns = seen
                          \/ r.turns = seen + 1 /\ persisted /\ r.subtype = "error_during_execution"
                       /\ r.run = run =>
                            /\ prompt.items > 0 => (r.subtype # "success" <=> outcome # "none")
                            /\ \A v \in verdicts : v.verdict = "denied" <=> v.id \in r.denials
  BY DEF ResultIsTruthful
<1>1. i \in ResultsOf
  BY DEF ResultsOf
<1>2. /\ \A j \in OfRun(delivered[i].run) : j <= i
      /\ Counts(delivered[i])
  BY <1>1 DEF TruthInv, ToldInv
<1>3. ASSUME delivered[i].run = run
      PROVE  /\ prompt.items > 0 => (item.subtype # "success" <=> outcome # "none")
             /\ \A v \in verdicts : v.verdict = "denied" <=> v.id \in item.denials
             /\ delivered[i] = item
  <2>1. delivered[i] = item
    BY <1>1, <1>3 DEF TruthInv, ToldInv
  <2>2. item.denials = Denials /\ (prompt.items > 0 => (item.subtype # "success" <=> outcome # "none"))
    BY <2>1 DEF TruthInv, MadeInv
  <2>3. \A v \in verdicts : v.verdict = "denied" <=> v.id \in Denials
    BY DEF TruthInv, IdsInv, Denials
  <2>4. QED
    BY <2>1, <2>2, <2>3
<1>4. QED
  BY <1>2, <1>3 DEF OfRun, Turns, Counts

\* The result that a consumer gets is the last message of its run, counts the turns that
\* it got (and one more where the transcript did not take the message), names the calls the
\* permission check refused, and reports an error exactly where the loop raised: over any
\* number of runs, drops and crashes.
THEOREM ResultsAreTruthful == Spec => []ResultIsTruthful
BY TruthInit, TruthStep, TruthMeans, StateHolds, PTL DEF Spec

-----------------------------------------------------------------------------
(* The transcript.                                                         *)

\* Where the current item stands among those of its run.
OrderInv ==
  /\ item.kind = "init" => seeded = 0
  /\ item.kind = "user" => item.n = seeded
  /\ item.kind = "assistant" => item.n = step
  /\ item.kind = "results" => item.n \in Nat /\ item.n <= step
  /\ pc \in {"turn", "request", "streaming"} =>
       item.kind # "assistant" /\ (item.kind = "results" => item.n < step)
  /\ pc = "tools" => item.kind = "assistant"

\* The items of a run but its result, in the order they are made in.
Rank(it) ==
  CASE it.kind = "init"      -> 0
    [] it.kind = "user"      -> it.n
    [] it.kind = "meta"      -> prompt.items + 1
    [] it.kind = "assistant" -> prompt.items + 2 + 2 * it.n
    [] it.kind = "results"   -> prompt.items + 3 + 2 * it.n

\* The next item of a run comes behind the current one, and nothing behind its result.
MakesNext ==
  /\ item.kind # "result" /\ item'.kind # "init" /\ item'.run = run
  /\ item'.kind = "result" \/ (/\ item'.kind # "result"
                               /\ Rank(item) \in Nat /\ Rank(item)' \in Nat
                               /\ Rank(item) < Rank(item)')

\* The steps, as far as the transcript is concerned.
Resting == {"yielded", "turn", "request", "streaming", "tools", "closing", "dropped"}
Starts == /\ pc = "idle" /\ pc' = "made" /\ item' = Item("init", 0)
          /\ UNCHANGED <<ends, file, delivered>>
Goes   == /\ pc \in Resting \/ (pc = "made" /\ item.kind # "init")
          /\ pc' \in Resting /\ UNCHANGED <<item, ends, file, delivered>>
Makes  == pc \in Resting /\ pc' = "made" /\ MakesNext /\ UNCHANGED <<ends, file, delivered>>
Leaves == \E how : End(how) /\ UNCHANGED <<file, delivered>>
Stays  == UNCHANGED <<pc, item, ends, file, delivered>>
Moves  == Stays \/ Starts \/ Goes \/ Makes \/ Leaves \/ Write \/ Yield \/ Crash

\* A step keeps the order, and is one of the moves.
OrderKept == setup' = setup /\ OrderInv' /\ Moves

LEMMA OrderFront ==
  ASSUME StateOK, OrderInv, ClientQuery \/ NothingToReceive \/ Start \/ Crash \/ UNCHANGED vars
  PROVE  OrderKept
<1>1. ASSUME NEW how, End(how) PROVE OrderInv'
  BY <1>1 DEF End, Fresh, NoItem, OrderInv
<1>2. CASE ClientQuery \/ UNCHANGED vars
  BY <1>2 DEF ClientQuery, vars, runState, world, OrderKept, OrderInv, Moves, Stays
<1>3. CASE NothingToReceive
  BY <1>1, <1>3 DEF NothingToReceive, OrderKept, Moves, Leaves
<1>4. CASE Start
  <2>1. CASE End("raised")
    BY <1>1, <1>4, <2>1 DEF Start, OrderKept, Moves, Leaves
  <2>2. CASE Make(Item("init", 0)) /\ UNCHANGED <<seeded, ends>>
    <3>1. OrderInv'
      BY <1>4, <2>2 DEF Start, Make, Item, OrderInv, StateOK, Placed
    <3>2. QED
      BY <1>4, <2>2, <3>1 DEF Start, Make, OrderKept, Moves, Starts
  <2>3. QED
    BY <1>4, <2>1, <2>2 DEF Start
<1>5. CASE Crash
  BY <1>1, <1>5 DEF Crash, OrderKept, Moves
<1>6. QED
  BY <1>2, <1>3, <1>4, <1>5

LEMMA OrderLoop ==
  ASSUME StateOK, OrderInv,
         \/ BeginTurn \/ Attempt \/ StreamFails \/ RunTools \/ Close
         \/ \E call \in setup.calls : StreamCall(call) \/ LeaveOpen(call)
         \/ \E spent \in {0, 1} : StreamEnds(spent)
  PROVE  OrderKept
<1> USE DEF OrderInv
<1>1. prompt.items \in Nat /\ step \in Nat /\ seeded \in 0 .. prompt.items
  BY QueryAssumption DEF StateOK, TypeOK, prompt
<1>2. CASE UNCHANGED <<setup, item, seeded, step, world>> /\ pc \in {"turn", "request", "streaming"}
           /\ pc' \in {"request", "streaming", "closing"}
  BY <1>2 DEF world, OrderKept, Moves, Goes, Resting
<1>3. CASE BeginTurn
  BY <1>2, <1>3 DEF BeginTurn, Raise
<1>4. CASE Attempt
  BY <1>2, <1>4 DEF Attempt, Retry, RaiseForStatus, Raise
<1>5. CASE StreamFails
  BY <1>2, <1>5 DEF StreamFails, Raise
<1>6. ASSUME NEW call \in setup.calls, StreamCall(call) \/ LeaveOpen(call) PROVE OrderKept
  BY <1>2, <1>6 DEF StreamCall, LeaveOpen, Raise
<1>7. CASE RunTools
  <2>1. pc = "tools" /\ UNCHANGED <<setup, step, seeded, world>> /\ prompt' = prompt
    BY <1>7 DEF RunTools, prompt
  <2>2. item.kind = "assistant" /\ item.n = step
    BY <2>1
  <2>3. CASE Make(Item("results", step))
    <3>1. pc' = "made" /\ item'.kind = "results" /\ item'.n = step /\ item'.run = run
      BY <2>3 DEF Make, Item
    <3>2. MakesNext
      BY <1>1, <2>1, <2>2, <3>1 DEF MakesNext, Rank
    <3>3. QED
      BY <1>1, <2>1, <3>1, <3>2 DEF OrderKept, Moves, Makes, Resting, world
  <2>4. CASE pc' = "closing" /\ item' = item
    BY <2>1, <2>4 DEF OrderKept, Moves, Goes, Resting, world
  <2>5. QED
    BY <1>7, <2>3, <2>4 DEF RunTools, Raise
<1>8. CASE Close
  <2>1. /\ pc = "closing" /\ pc' = "made" /\ item'.kind = "result" /\ item'.run = run
        /\ UNCHANGED <<setup, step, seeded, ends, file, delivered>>
    BY <1>8 DEF Close, Make, ResultItem, BuildResult
  <2>2. item.kind # "result"
    BY <2>1 DEF StateOK, Placed, Places
  <2>3. QED
    BY <2>1, <2>2 DEF OrderKept, Moves, Makes, MakesNext, Resting
<1>9. ASSUME NEW spent \in {0, 1}, StreamEnds(spent) PROVE OrderKept
  <2>1. pc = "streaming" /\ UNCHANGED <<setup, step, seeded, world>>
    BY <1>9 DEF StreamEnds
  <2>2. CASE Make(Item("assistant", step))
    <3>1. pc' = "made" /\ item'.kind = "assistant" /\ item'.n = step /\ item'.run = run
      BY <2>2 DEF Make, Item
    <3>2. item.kind \in {"init", "user", "meta", "results"}
      BY <2>1 DEF StateOK, TypeOK, Placed, InLoop, Places
    <3>3. /\ item.kind = "results" => item.n \in Nat /\ item.n < step
          /\ item.kind = "user" => item.n = seeded
      BY <2>1
    <3>4. prompt' = prompt
      BY <2>1 DEF prompt
    <3>5. MakesNext
      BY <1>1, <3>1, <3>2, <3>3, <3>4 DEF MakesNext, Rank
    <3>6. QED
      BY <2>1, <3>1, <3>5 DEF OrderKept, Moves, Makes, Resting, world
  <2>3. CASE pc' = "closing" /\ item' = item
    BY <1>2, <2>1, <2>3
  <2>4. QED
    BY <1>9, <2>2, <2>3 DEF StreamEnds, Raise
<1>10. QED
  BY <1>3, <1>4, <1>5, <1>6, <1>7, <1>8, <1>9

LEMMA OrderConsumer ==
  ASSUME StateOK, OrderInv, Write \/ WriteFails \/ Yield \/ AsksOn \/ Drop \/ CloseDropped
  PROVE  OrderKept
<1>1. prompt.items \in Nat /\ step \in Nat /\ seeded \in 0 .. prompt.items
  BY QueryAssumption DEF StateOK, TypeOK, prompt
<1>2. ASSUME NEW how, End(how) PROVE OrderInv'
  BY <1>2 DEF End, Fresh, NoItem, OrderInv
<1>3. CASE Write
  BY <1>3 DEF Write, runState, OrderKept, OrderInv, Moves
<1>4. CASE Yield
  BY <1>4 DEF Yield, Deliver, runState, OrderKept, OrderInv, Moves
<1>5. CASE CloseDropped
  BY <1>2, <1>5 DEF CloseDropped, OrderKept, Moves, Leaves
<1>6. CASE Drop
  <2>1. CASE item.kind \in InLoop /\ pc' = "dropped" /\ UNCHANGED <<runState, ends>>
    BY <1>6, <2>1 DEF Drop, runState, OrderKept, OrderInv, Moves, Goes, Resting
  <2>2. CASE End("dropped")
    BY <1>2, <1>6, <2>2 DEF Drop, OrderKept, Moves, Leaves
  <2>3. QED
    BY <1>6, <2>1, <2>2 DEF Drop
<1>7. CASE AsksOn
  <2>1. pc = "yielded" /\ UNCHANGED <<setup, file, delivered>> /\ prompt' = prompt
    BY <1>7 DEF AsksOn, prompt
  <2>2. ASSUME NEW how, End(how) PROVE OrderKept
    BY <1>2, <2>1, <2>2 DEF OrderKept, Moves, Leaves
  <2>3. CASE item.kind \in {"init", "user"} /\ AfterSeed
    <3>1. Rank(item) = seeded
      BY <1>1, <2>3 DEF OrderInv, Rank
    <3>2. CASE EchoSeed /\ seeded < prompt.items
      <4>1. /\ pc' = "made" /\ item'.kind = "user" /\ item'.n = seeded + 1 /\ item'.run = run
            /\ seeded' = seeded + 1 /\ UNCHANGED <<step, ends>>
        BY <3>2 DEF EchoSeed, Make, Item
      <4>2. MakesNext
        BY <1>1, <2>1, <2>3, <3>1, <4>1 DEF MakesNext, Rank
      <4>3. OrderInv'
        BY <4>1 DEF OrderInv
      <4>4. QED
        BY <2>1, <4>1, <4>2, <4>3 DEF OrderKept, Moves, Makes, Resting
    <3>3. CASE Make(BuildResult("error_during_execution", 0, {})) /\ UNCHANGED <<seeded, step, ends>>
      <4>1. pc' = "made" /\ item'.kind = "result" /\ item'.run = run
        BY <3>3 DEF Make, BuildResult
      <4>2. MakesNext
        BY <2>3, <4>1 DEF MakesNext
      <4>3. OrderInv'
        BY <4>1 DEF OrderInv
      <4>4. QED
        BY <2>1, <3>3, <4>1, <4>2, <4>3 DEF OrderKept, Moves, Makes, Resting
    <3>4. CASE EnterLoop
      <4>1. UNCHANGED <<seeded, step, ends>>
        BY <3>4 DEF EnterLoop
      <4>2. CASE Make(Item("meta", 0))
        <5>1. pc' = "made" /\ item'.kind = "meta" /\ item'.run = run
          BY <4>2 DEF Make, Item
        <5>2. MakesNext
          BY <1>1, <2>1, <2>3, <3>1, <5>1 DEF MakesNext, Rank
        <5>3. OrderInv'
          BY <5>1 DEF OrderInv
        <5>4. QED
          BY <2>1, <4>1, <5>1, <5>2, <5>3 DEF OrderKept, Moves, Makes, Resting
      <4>3. CASE pc' = "turn" /\ item' = item
        BY <2>1, <2>3, <4>1, <4>3 DEF OrderKept, OrderInv, Moves, Goes, Resting
      <4>4. QED
        BY <3>4, <4>2, <4>3 DEF EnterLoop
    <3>5. QED
      BY <2>2, <2>3, <3>2, <3>3, <3>4 DEF AfterSeed
  <2>4. CASE item.kind = "meta" /\ pc' = "turn" /\ UNCHANGED <<runState, ends>>
    BY <2>1, <2>4 DEF runState, OrderKept, OrderInv, Moves, Goes, Resting
  <2>5. CASE item.kind = "assistant" /\ AfterAssistant
    BY <2>1, <2>5 DEF AfterAssistant, runState, OrderKept, OrderInv, Moves, Goes, Resting
  <2>6. CASE item.kind = "results" /\ NextTurn
    <3>1. /\ pc' = "turn" /\ step' = step + 1 /\ UNCHANGED <<item, seeded, ends>>
          /\ item.n \in Nat /\ item.n < step'
      BY <1>1, <2>6 DEF NextTurn, OrderInv
    <3>2. QED
      BY <1>1, <2>1, <2>6, <3>1 DEF OrderKept, OrderInv, Moves, Goes, Resting
  <2>7. QED
    BY <1>7, <2>2, <2>3, <2>4, <2>5, <2>6 DEF AsksOn
<1>8. CASE WriteFails
  <2>1. CASE item.kind \in InLoop /\ pc' = "closing" /\ UNCHANGED <<item, seeded, step, ends>>
    BY <1>8, <2>1 DEF WriteFails, OrderKept, OrderInv, Moves, Goes, Resting, InLoop
  <2>2. CASE End("raised")
    BY <1>2, <1>8, <2>2 DEF WriteFails, OrderKept, Moves, Leaves
  <2>3. QED
    BY <1>8, <2>1, <2>2 DEF WriteFails, Raise
<1>9. QED
  BY <1>3, <1>4, <1>5, <1>6, <1>7, <1>8

LEMMA OrderStep == StateOK /\ OrderInv /\ [Next]_vars => OrderKept
<1> SUFFICES ASSUME StateOK, OrderInv, [Next]_vars PROVE OrderKept
  OBVIOUS
<1>1. CASE ClientQuery \/ NothingToReceive \/ Start \/ Crash \/ UNCHANGED vars
  BY <1>1, OrderFront
<1>2. CASE Step
  BY <1>2, OrderLoop, OrderConsumer DEF Step
<1>3. QED
  BY <1>1, <1>2 DEF Next

\* The places of an item in the file; what was delivered, but for the banners.
At(it) == {p \in DOMAIN file : file[p].record = it}
Got == {i \in DOMAIN delivered : delivered[i].kind # "init"}

\* A record that stands behind one of its own run.
Sound(p) == p # 1 /\ file[p - 1].record.run = file[p].record.run

\* Within a run the file holds what came before the current item, and the item itself once
\* it is written; nothing of a later run.
FreshInv ==
  \A p \in DOMAIN file :
    LET rec == file[p].record IN
    /\ rec.run \in Nat /\ rec.run <= run
    /\ rec.run = run =>
         /\ pc # "idle"
         /\ rec.kind = "result" => item.kind = "result" /\ pc # "made"
         /\ rec.kind # "result" /\ item.kind # "result" =>
              Rank(rec) \in Nat /\ Rank(rec) <= Rank(item) /\ (pc = "made" => Rank(rec) < Rank(item))

\* Within a run the file ends in a record of it, unless the first is still to be written:
\* so what is appended continues no line of another run.
EndInv ==
  /\ pc # "idle" /\ ~(pc = "made" /\ item.kind = "init") =>
       Len(file) > 0 /\ file[Len(file)].record.run = run
  /\ pc = "written" =>
       /\ At(item) = {Len(file)}
       /\ item.kind # "init" => Sound(Len(file)) /\ \A i \in Got : delivered[i] # item

\* What was delivered stands in the file once, in order, behind a record of its run.
KeptInv ==
  \A i \in Got : \E p \in DOMAIN file :
    /\ At(delivered[i]) = {p} /\ Sound(p)
    /\ \A j \in Got : j < i => \A q \in At(delivered[j]) : q < p

FileInv == FreshInv /\ EndInv /\ KeptInv

LEMMA RankIsNat ==
  ASSUME StateOK, OrderInv, item.kind \notin {"none", "result"}
  PROVE  Rank(item) \in Nat
<1>1. prompt.items \in Nat /\ step \in Nat /\ seeded \in 0 .. prompt.items
  BY QueryAssumption DEF StateOK, TypeOK, prompt
<1>2. item.kind \in {"init", "user", "meta", "assistant", "results"}
  BY DEF StateOK, TypeOK, InLoop
<1>3. QED
  BY <1>1, <1>2 DEF OrderInv, Rank

\* What is still to be written is not in the file.
LEMMA ItemIsFresh ==
  ASSUME StateOK, OrderInv, FreshInv, pc = "made"
  PROVE  At(item) = {}
<1>1. SUFFICES ASSUME NEW p \in DOMAIN file, file[p].record = item PROVE FALSE
  BY DEF At
<1>2. item.run = run /\ item.kind # "none"
  BY DEF StateOK, Placed
<1>3. CASE item.kind = "result"
  BY <1>1, <1>2, <1>3 DEF FreshInv
<1>4. CASE item.kind # "result"
  <2>1. Rank(item) \in Nat /\ Rank(item) < Rank(item)
    BY <1>1, <1>2, <1>4 DEF FreshInv
  <2>2. QED
    BY <2>1
<1>5. QED
  BY <1>3, <1>4

\* A chunk that is appended leaves everything else in its place.
LEMMA Appending ==
  ASSUME StateOK, NEW how, file' = Append(file, Chunk(item, how)), item' = item \/ pc' = "idle"
  PROVE  /\ Len(file) \in Nat /\ Len(file') = Len(file) + 1
         /\ DOMAIN file = 1 .. Len(file) /\ DOMAIN file' = 1 .. Len(file) + 1
         /\ \A p \in 1 .. Len(file) : file'[p] = file[p] /\ (Sound(p) => Sound(p)')
         /\ file'[Len(file) + 1].record = item /\ file'[Len(file) + 1].how = how
         /\ \A it : {p \in DOMAIN file' : file'[p].record = it}
                      = IF it = item THEN At(it) \cup {Len(file) + 1} ELSE At(it)
<1>1. /\ Len(file) \in Nat /\ Len(file') = Len(file) + 1
      /\ DOMAIN file = 1 .. Len(file) /\ DOMAIN file' = 1 .. Len(file) + 1
      /\ \A p \in 1 .. Len(file) : file'[p] = file[p]
      /\ file'[Len(file) + 1] = Chunk(item, how)
  BY Grows DEF StateOK
<1>2. file'[Len(file) + 1].record = item /\ file'[Len(file) + 1].how = how
  BY <1>1 DEF Chunk
<1>3. ASSUME NEW p \in 1 .. Len(file), Sound(p) PROVE Sound(p)'
  <2>1. p # 1 /\ p - 1 \in 1 .. Len(file)
    BY <1>1, <1>3 DEF Sound
  <2>2. QED
    BY <1>1, <1>3, <2>1 DEF Sound
<1>4. ASSUME NEW it
      PROVE  {p \in DOMAIN file' : file'[p].record = it}
               = IF it = item THEN At(it) \cup {Len(file) + 1} ELSE At(it)
  BY <1>1, <1>2 DEF At
<1>5. QED
  BY <1>1, <1>2, <1>3, <1>4

\* What was delivered stays where it is when the current item is appended.
LEMMA KeptAppending ==
  ASSUME StateOK, OrderInv, FreshInv, KeptInv, pc = "made", delivered' = delivered,
         NEW how, file' = Append(file, Chunk(item, how)), item' = item \/ pc' = "idle"
  PROVE  KeptInv' /\ \A i \in Got : delivered[i] # item
<1>1. At(item) = {}
  BY ItemIsFresh
<1>2. \A i \in Got : delivered[i] # item
  BY <1>1 DEF KeptInv
<1>3. Got' = Got
  BY DEF Got
<1>4. ASSUME NEW i \in Got
      PROVE  {p \in DOMAIN file' : file'[p].record = delivered[i]} = At(delivered[i])
  BY <1>2, <1>4, Appending
<1>5. ASSUME NEW i \in Got
      PROVE  \E p \in DOMAIN file' :
               /\ At(delivered[i])' = {p} /\ Sound(p)'
               /\ \A j \in Got : j < i => \A q \in At(delivered[j])' : q < p
  <2>1. PICK p \in DOMAIN file :
          /\ At(delivered[i]) = {p} /\ Sound(p)
          /\ \A j \in Got : j < i => \A q \in At(delivered[j]) : q < p
    BY DEF KeptInv
  <2>2. p \in DOMAIN file'
    BY <2>1, Appending
  <2>3. Sound(p)'
    BY <2>1, Appending
  <2>4. \A j \in Got : At(delivered[j])' = At(delivered[j])
    BY <1>4 DEF At
  <2>5. QED
    BY <2>1, <2>2, <2>3, <2>4
<1>6. QED
  BY <1>2, <1>3, <1>5 DEF KeptInv

\* Nothing is in the file of a run that has not begun.
LEMMA NothingOfTheNext ==
  ASSUME StateOK, FreshInv, NEW how, End(how), file' = file
  PROVE  FreshInv' /\ EndInv'
<1>1. run' = run + 1 /\ run \in Nat /\ pc' = "idle"
  BY Grows DEF StateOK, End, run
<1>2. \A p \in DOMAIN file : file[p].record.run \in Nat /\ file[p].record.run < run'
  BY <1>1 DEF FreshInv
<1>3. QED
  BY <1>1, <1>2 DEF FreshInv, EndInv

LEMMA FileStays ==
  ASSUME StateOK, OrderInv, FileInv, setup' = setup, Stays \/ Goes \/ Leaves
  PROVE  FileInv'
<1>1. UNCHANGED <<file, delivered>>
  BY DEF Stays, Goes, Leaves
<1>2. KeptInv'
  BY <1>1 DEF FileInv, KeptInv, Got, At, Sound
<1>3. CASE Stays
  BY <1>1, <1>2, <1>3 DEF Stays, FileInv, FreshInv, EndInv, At, Sound, Got, Rank, run, prompt
<1>4. CASE Goes
  <2>1. /\ run' = run /\ item' = item /\ pc' \in Resting /\ prompt' = prompt
        /\ pc # "idle" /\ ~(pc = "made" /\ item.kind = "init")
    BY <1>4 DEF Goes, Resting, run, prompt
  <2>2. FreshInv'
    BY <1>1, <2>1 DEF FileInv, FreshInv, Rank, Resting
  <2>3. EndInv'
    BY <1>1, <2>1 DEF FileInv, EndInv, Resting
  <2>4. QED
    BY <1>2, <2>2, <2>3 DEF FileInv
<1>5. CASE Leaves
  BY <1>1, <1>2, <1>5, NothingOfTheNext DEF Leaves, FileInv
<1>6. QED
  BY <1>3, <1>4, <1>5

LEMMA FileMakes ==
  ASSUME StateOK, OrderInv, FileInv, setup' = setup, Starts \/ Makes
  PROVE  FileInv'
<1>1. UNCHANGED <<file, delivered>> /\ run' = run /\ prompt' = prompt
  BY DEF Starts, Makes, run, prompt
<1>2. KeptInv'
  BY <1>1 DEF FileInv, KeptInv, Got, At, Sound
<1>3. CASE Starts
  <2>1. pc = "idle" /\ pc' = "made" /\ item'.kind = "init"
    BY <1>3 DEF Starts, Item
  <2>2. FreshInv' /\ EndInv'
    BY <1>1, <2>1 DEF FileInv, FreshInv, EndInv
  <2>3. QED
    BY <1>2, <2>2 DEF FileInv
<1>4. CASE Makes
  <2>1. pc \in Resting /\ pc' = "made" /\ MakesNext
    BY <1>4 DEF Makes
  <2>2. ASSUME NEW p \in DOMAIN file, file[p].record.run = run
        PROVE  /\ file[p].record.kind # "result"
               /\ item'.kind # "result" =>
                    /\ Rank(file[p].record)' \in Nat
                    /\ Rank(file[p].record)' < Rank(item)'
    <3>1. PICK rec : rec = file[p].record /\ rec = file'[p].record
      BY <1>1
    <3>2. rec.kind # "result" /\ item.kind # "result"
      BY <2>1, <2>2, <3>1 DEF MakesNext, FileInv, FreshInv
    <3>3. Rank(rec) \in Nat /\ Rank(rec) <= Rank(item)
      BY <2>2, <3>1, <3>2 DEF FileInv, FreshInv
    <3>4. Rank(rec)' = Rank(rec)
      BY <1>1 DEF Rank
    <3>5. item'.kind # "result" =>
            Rank(item) \in Nat /\ Rank(item)' \in Nat /\ Rank(item) < Rank(item)'
      BY <2>1 DEF MakesNext
    <3>6. item'.kind # "result" => Rank(rec)' \in Nat /\ Rank(rec)' < Rank(item)'
      BY <3>3, <3>4, <3>5
    <3>7. QED
      BY <3>1, <3>2, <3>6
  <2>3. ASSUME NEW p \in DOMAIN file, file[p].record.run = run, item'.kind # "result"
        PROVE  /\ Rank(file[p].record)' \in Nat /\ Rank(file[p].record)' <= Rank(item)'
               /\ Rank(file[p].record)' < Rank(item)'
    <3>1. Rank(item)' \in Nat /\ Rank(file[p].record)' \in Nat
          /\ Rank(file[p].record)' < Rank(item)'
      BY <2>1, <2>2, <2>3 DEF MakesNext
    <3>2. QED
      BY <3>1
  <2>4. FreshInv'
    BY <1>1, <2>1, <2>2, <2>3 DEF FileInv, FreshInv
  <2>5. EndInv'
    BY <1>1, <2>1 DEF FileInv, EndInv, MakesNext, Resting
  <2>6. QED
    BY <1>2, <2>4, <2>5 DEF FileInv
<1>5. QED
  BY <1>3, <1>4

LEMMA FileWrite ==
  ASSUME StateOK, OrderInv, FileInv, Write
  PROVE  FileInv'
<1>1. /\ pc = "made" /\ pc' = "written" /\ UNCHANGED <<setup, item, ends, delivered>>
      /\ run' = run /\ prompt' = prompt
  BY DEF Write, runState, run, prompt
<1> PICK how : file' = Append(file, Chunk(item, how))
  BY DEF Write, WriteRecord, ShortWrites
<1>2. KeptInv' /\ \A i \in Got : delivered[i] # item
  BY <1>1, KeptAppending DEF FileInv
<1>3. /\ Len(file) \in Nat /\ Len(file') = Len(file) + 1
      /\ DOMAIN file = 1 .. Len(file) /\ DOMAIN file' = 1 .. Len(file) + 1
      /\ \A p \in 1 .. Len(file) : file'[p] = file[p]
      /\ file'[Len(file) + 1].record = item
      /\ \A it : {p \in DOMAIN file' : file'[p].record = it}
                   = IF it = item THEN At(it) \cup {Len(file) + 1} ELSE At(it)
  BY <1>1, Appending
<1>4. item.run = run /\ run \in Nat /\ item.kind # "none"
  BY <1>1, ListFacts DEF StateOK, Placed, run
<1>5. FreshInv'
  <2>1. ASSUME NEW p \in DOMAIN file'
        PROVE  LET rec == file'[p].record IN
               /\ rec.run \in Nat /\ rec.run <= run
               /\ rec.run = run =>
                    /\ rec.kind = "result" => item.kind = "result"
                    /\ rec.kind # "result" /\ item.kind # "result" =>
                         Rank(rec) \in Nat /\ Rank(rec) <= Rank(item)
    <3>1. CASE p \in DOMAIN file
      BY <1>3, <3>1 DEF FileInv, FreshInv
    <3>2. CASE p = Len(file) + 1
      <4>1. item.kind # "result" => Rank(item) \in Nat
        BY <1>4, RankIsNat
      <4>2. QED
        BY <1>3, <1>4, <3>2, <4>1
    <3>3. QED
      BY <1>3, <3>1, <3>2
  <2>2. QED
    BY <1>1, <2>1 DEF FreshInv, Rank
<1>6. EndInv'
  <2>1. At(item)' = {Len(file)}'
    <3>1. At(item) = {}
      BY <1>1, ItemIsFresh DEF FileInv
    <3>2. QED
      BY <1>1, <1>3, <3>1 DEF At
  <2>2. item.kind # "init" => Sound(Len(file))'
    <3>1. SUFFICES ASSUME item.kind # "init" PROVE Sound(Len(file))'
      OBVIOUS
    <3>2. Len(file) \in 1 .. Len(file) /\ file[Len(file)].record.run = run
      BY <1>1, <1>3, <3>1 DEF FileInv, EndInv
    <3>3. /\ file'[Len(file)].record.run = run /\ file'[Len(file')].record.run = run
          /\ Len(file') # 1 /\ Len(file') - 1 = Len(file)
      BY <1>3, <1>4, <3>2
    <3>4. QED
      BY <3>3 DEF Sound
  <2>3. Len(file') > 0 /\ file'[Len(file')].record.run = run'
    BY <1>1, <1>3, <1>4
  <2>4. QED
    BY <1>1, <1>2, <2>1, <2>2, <2>3 DEF EndInv, Got
<1>7. QED
  BY <1>2, <1>5, <1>6 DEF FileInv

LEMMA FileYield ==
  ASSUME StateOK, OrderInv, FileInv, persisted, Yield
  PROVE  FileInv'
<1>1. /\ pc = "written" /\ pc' = "yielded" /\ UNCHANGED <<setup, item, ends, file>>
      /\ Deliver /\ item.run = run /\ run' = run /\ prompt' = prompt
  BY DEF Yield, Deliver, runState, run, prompt, StateOK, Placed
<1>2. /\ DOMAIN delivered = 1 .. Len(delivered) /\ Len(delivered) \in Nat
      /\ DOMAIN delivered' = 1 .. Len(delivered) + 1
      /\ delivered'[Len(delivered) + 1] = item
      /\ \A i \in 1 .. Len(delivered) : delivered'[i] = delivered[i]
  BY <1>1, Delivering
<1>3. FreshInv'
  BY <1>1 DEF FileInv, FreshInv, Rank
<1>4. EndInv'
  BY <1>1 DEF FileInv, EndInv
<1>5. \A it : At(it)' = At(it)
  BY <1>1 DEF At
<1>6. Len(file) \in Nat /\ DOMAIN file = 1 .. Len(file) /\ Len(file) > 0
  BY <1>1, ListFacts DEF StateOK, FileInv, EndInv
<1>7. ASSUME NEW i \in Got'
      PROVE  \E p \in DOMAIN file :
               /\ At(delivered'[i]) = {p} /\ Sound(p)
               /\ \A j \in Got' : j < i => \A q \in At(delivered'[j]) : q < p
  <2>1. \A j \in Got' : j < i => j \in Got /\ delivered'[j] = delivered[j]
    BY <1>2 DEF Got
  <2>2. CASE i = Len(delivered) + 1
    <3>1. item.kind # "init" /\ delivered'[i] = item
      BY <1>2, <1>7, <2>2 DEF Got
    <3>2. /\ At(item) = {Len(file)} /\ Sound(Len(file))
          /\ \A j \in Got : delivered[j] # item
      BY <1>1, <3>1 DEF FileInv, EndInv
    <3>3. ASSUME NEW j \in Got, NEW q \in At(delivered[j]) PROVE q < Len(file)
      <4>1. q \in 1 .. Len(file) /\ q \notin At(item)
        BY <1>6, <3>2, <3>3 DEF At
      <4>2. Len(file) \in At(item)
        BY <3>2
      <4>3. q # Len(file)
        BY <4>1, <4>2
      <4>4. ASSUME NEW n \in Nat, NEW m \in 1 .. n, m # n PROVE m < n
        BY <4>4
      <4>5. QED
        BY <1>6, <4>1, <4>3, <4>4, Zenon
    <3>4. QED
      BY <1>6, <2>1, <3>1, <3>2, <3>3
  <2>3. CASE i \in Got /\ delivered'[i] = delivered[i]
    <3>1. PICK p \in DOMAIN file :
            /\ At(delivered[i]) = {p} /\ Sound(p)
            /\ \A j \in Got : j < i => \A q \in At(delivered[j]) : q < p
      BY <2>3 DEF FileInv, KeptInv
    <3>2. QED
      BY <2>1, <2>3, <3>1
  <2>4. QED
    BY <1>2, <1>7, <2>2, <2>3 DEF Got
<1>8. KeptInv'
  BY <1>1, <1>5, <1>7 DEF KeptInv, Sound, At
<1>9. QED
  BY <1>3, <1>4, <1>8 DEF FileInv

LEMMA FileCrash ==
  ASSUME StateOK, OrderInv, FileInv, Crash
  PROVE  FileInv'
<1>1. End("crashed") /\ delivered' = delivered /\ pc' = "idle"
  BY DEF Crash, End
<1>2. CASE file' = file
  BY <1>1, <1>2, NothingOfTheNext DEF FileInv, KeptInv, Got, At, Sound
<1>3. ASSUME pc = "made", NEW how, file' = Append(file, Chunk(item, how))
      PROVE  FileInv'
  <2>1. KeptInv'
    BY <1>1, <1>3, KeptAppending DEF FileInv
  <2>2. /\ DOMAIN file = 1 .. Len(file) /\ DOMAIN file' = 1 .. Len(file) + 1
        /\ \A p \in 1 .. Len(file) : file'[p] = file[p]
        /\ file'[Len(file) + 1].record = item
    BY <1>1, <1>3, Appending
  <2>3. run' = run + 1 /\ run \in Nat /\ item.run = run
    BY <1>1, <1>3, Grows DEF StateOK, Placed, End, run
  <2>4. ASSUME NEW p \in DOMAIN file'
        PROVE  file'[p].record.run \in Nat /\ file'[p].record.run < run'
    <3>1. CASE p = Len(file) + 1
      BY <2>2, <2>3, <3>1
    <3>2. CASE p \in DOMAIN file
      BY <2>2, <2>3, <3>2 DEF FileInv, FreshInv
    <3>3. QED
      BY <2>2, <3>1, <3>2
  <2>5. FreshInv' /\ EndInv'
    BY <1>1, <2>3, <2>4 DEF FreshInv, EndInv
  <2>6. QED
    BY <2>1, <2>5 DEF FileInv
<1>4. file' = file \/ (pc = "made" /\ \E how : file' = Append(file, Chunk(item, how)))
  BY DEF Crash, TornWrites, ShortWrites
<1>5. QED
  BY <1>2, <1>3, <1>4

TranscriptInv == OrderInv /\ (persisted => FileInv)

LEMMA TranscriptInit == Init => TranscriptInv
<1> SUFFICES ASSUME Init PROVE TranscriptInv
  OBVIOUS
<1>1. DOMAIN file = {} /\ DOMAIN delivered = {} /\ pc = "idle" /\ item.kind = "none"
  BY EmptyIsList DEF Init, NoItem
<1>2. QED
  BY <1>1 DEF TranscriptInv, OrderInv, FileInv, FreshInv, EndInv, KeptInv, Got

LEMMA TranscriptStep == StateOK /\ TranscriptInv /\ [Next]_vars => TranscriptInv'
<1> SUFFICES ASSUME StateOK, TranscriptInv, [Next]_vars PROVE TranscriptInv'
  OBVIOUS
<1>1. setup' = setup /\ OrderInv' /\ Moves
  BY OrderStep DEF TranscriptInv, OrderKept
<1>2. persisted' => persisted
  BY <1>1 DEF persisted, agent
<1>3. ASSUME persisted PROVE FileInv'
  BY <1>1, <1>3, FileStays, FileMakes, FileWrite, FileYield, FileCrash DEF Moves, TranscriptInv
<1>4. QED
  BY <1>1, <1>2, <1>3 DEF TranscriptInv

\* A record that its reader gets to, and that stands behind one of its own run, is found.
LEMMA IntactIsFound ==
  ASSUME StateOK, FreshInv, NEW p \in DOMAIN file, Sound(p), Intact(p)
  PROVE  p \in ReadTranscript(file)
<1>1. p \in Nat /\ p - 1 \in 1 .. p /\ p \in 1 .. p /\ p - 1 \in DOMAIN file
  BY ListFacts DEF StateOK, Sound
<1>2. ASSUME NEW k \in 1 .. p, file[k].record.run = file[p].record.run
      PROVE  file[k].how = "whole"
  <2>1. file[p].record.run \in Nat
    BY DEF FreshInv
  <2>2. ~(file[k].record.run < file[p].record.run)
    BY <1>2, <2>1
  <2>3. QED
    BY <2>2 DEF Intact
<1>3. BeginsLine(file, p) /\ file[p].how = "whole"
  BY <1>1, <1>2 DEF Sound, BeginsLine
<1>4. ASSUME NEW j \in 1 .. p - 1 PROVE file[j].how # "split"
  <2>1. j \in 1 .. p
    BY <1>1
  <2>2. QED
    BY <2>1 DEF Intact
<1>5. QED
  BY <1>3, <1>4 DEF ReadTranscript, Readable, Decodable

LEMMA TranscriptMeans == StateOK /\ TranscriptInv => TranscriptKeepsDelivered
<1> SUFFICES ASSUME StateOK, TranscriptInv, persisted, NEW i \in Got
             PROVE  \E p \in At(delivered[i]) :
                      /\ At(delivered[i]) = {p}
                      /\ Intact(p) => p \in ReadTranscript(file)
                      /\ \A j \in Got : j < i => \A q \in At(delivered[j]) : q < p
  BY DEF TranscriptKeepsDelivered, Got, At
<1>1. PICK p \in DOMAIN file :
        /\ At(delivered[i]) = {p} /\ Sound(p)
        /\ \A j \in Got : j < i => \A q \in At(delivered[j]) : q < p
  BY DEF TranscriptInv, FileInv, KeptInv
<1>2. Intact(p) => p \in ReadTranscript(file)
  BY <1>1, IntactIsFound DEF TranscriptInv, FileInv
<1>3. QED
  BY <1>1, <1>2

\* What a consumer of a persisted session was given was written before, once and in the
\* same order; and a reader of its transcript finds it if no write of its run was cut short
\* up to it, and none of an earlier run inside a character, whatever crashes came between.
THEOREM DeliveredIsOnDisk == Spec => []TranscriptKeepsDelivered
BY TranscriptInit, TranscriptStep, TranscriptMeans, StateHolds, PTL DEF Spec

-----------------------------------------------------------------------------
(* What is checked before a tool is called: the rules.                     *)

\* The first of a set of positions is among them, and none is before it.
LEMMA FirstIsFirst ==
  ASSUME NEW hits \in SUBSET Nat, hits # {}
  PROVE  First(hits) \in hits /\ \A j \in hits : First(hits) <= j
<1> DEFINE Less == {ss \in Nat \X Nat : ss[1] < ss[2]}
<1>1. PICK x \in hits : \A y \in hits : ~(<<y, x>> \in Less)
  <2>1. IsWellFoundedOn(Less, Nat)
    BY NatLessThanWellFounded DEF OpToRel
  <2> HIDE DEF Less
  <2>2. QED
    BY <2>1, WFMin
<1>2. ASSUME NEW y \in hits PROVE x <= y
  <2>1. x \in Nat /\ y \in Nat
    OBVIOUS
  <2>2. ~(y < x)
    BY <1>1, <2>1
  <2>3. QED
    BY <2>1, <2>2
<1>3. QED
  BY <1>2 DEF First

\* Where a deny rule fires and no other rule of its list forestalls it, the answer is no.
LEMMA DeniedIsDenied ==
  ASSUME NEW rules, NEW tool, NEW input, DOMAIN rules.deny \subseteq Nat,
         DeniedBy(rules, tool, input)
  PROVE  Match(rules, tool, input) # NoRule /\ ActionOf(Match(rules, tool, input)) = Deny
<1> DEFINE hits == Hits(rules.deny, tool, input)
<1>1. PICK i \in hits : \A j \in hits : j <= i => rules.deny[j].action = "deny"
  BY DEF DeniedBy
<1>2. hits \in SUBSET Nat /\ hits # {}
  BY <1>1 DEF Hits
<1>3. First(hits) \in hits /\ First(hits) <= i
  BY <1>1, <1>2, FirstIsFirst
<1>4. rules.deny[First(hits)].action = "deny"
  BY <1>1, <1>3
<1>5. Match(rules, tool, input) = rules.deny[First(hits)]
  BY <1>2 DEF Match
<1>6. NoRule.action # "deny"
  BY DEF NoRule
<1>7. QED
  BY <1>4, <1>5, <1>6 DEF ActionOf

\* A call that a deny rule forbids is not dispatched with an input that nobody rewrote.
LEMMA PreflightDenies ==
  ASSUME NEW tool, NEW input, NEW hook, NEW ctx, ctx # None, ctx.rules # None,
         DOMAIN ctx.rules.deny \subseteq Nat,
         ctx.mode # "bypass", ~(ctx.mode = "auto" /\ tool.readOnly),
         Preflight(tool, input, hook, ctx).verdict = "dispatched",
         ~Preflight(tool, input, hook, ctx).rewritten,
         DeniedBy(ctx.rules, tool, Preflight(tool, input, hook, ctx).input)
  PROVE  FALSE
<1> DEFINE hr == Dispatched(hook, input)
           payload == IF hr.mutated = None THEN input ELSE hr.mutated
           d == Normalize(CheckPermission(tool, payload, ctx))
           v == Preflight(tool, input, hook, ctx)
<1>1. v = IF hr.block THEN Verdict("blocked", input, FALSE)
          ELSE CASE d.decision = "deny"   -> Verdict("denied", payload, FALSE)
                 [] d.decision = "raised" -> Verdict("raised", payload, FALSE)
                 [] OTHER -> Verdict("dispatched", IF Rewritten(d) THEN d.updated ELSE payload,
                                     Rewritten(d))
  BY DEF Preflight, InputToCheck
<1>2. ~hr.block /\ d.decision # "deny" /\ d.decision # "raised"
  BY <1>1 DEF Verdict
<1>3. v = Verdict("dispatched", IF Rewritten(d) THEN d.updated ELSE payload, Rewritten(d))
  BY <1>1, <1>2
<1>4. v.rewritten = Rewritten(d) /\ v.input = IF Rewritten(d) THEN d.updated ELSE payload
  BY <1>3 DEF Verdict
<1>5. v.input = payload
  BY <1>4
<1>6. CheckPermission(tool, payload, ctx) = Deny
  BY <1>5, DeniedIsDenied DEF CheckPermission, Consult
<1>7. d.decision = "deny"
  BY <1>6 DEF Normalize, Deny
<1>8. QED
  BY <1>2, <1>7

-----------------------------------------------------------------------------
(* What is checked before a tool is called: the allow lists.                *)

\* The names that a dict of settings allows, in either spelling.
Allowed(dict) == Listed(dict, "allowed_tools", "allow")

LEMMA NothingAllowed == Allowed(NoSettings) = {}
BY DEF Allowed, Listed, Get, NoSettings

\* Laying one dict over another joins what the two allow.
LEMMA MergingJoins ==
  ASSUME NEW a, NEW b
  PROVE  Allowed(DeepMerge(a, b)) = Allowed(a) \cup Allowed(b)
<1> DEFINE m == DeepMerge(a, b)
           Inner(dict) == Get(dict, "permissions", NoSettings)
<1>1. DOMAIN m = DOMAIN a \cup DOMAIN b
  BY DEF DeepMerge, MergeDicts
<1>2. ASSUME NEW key \in DOMAIN m
      PROVE  m[key] = IF key \in DOMAIN a \cap DOMAIN b THEN Merged(key, a[key], b[key])
                      ELSE IF key \in DOMAIN b THEN b[key] ELSE a[key]
  BY <1>1, <1>2 DEF DeepMerge, MergeDicts, Over
<1> HIDE DEF m
<1>3. Get(m, "allowed_tools", {}) = Get(a, "allowed_tools", {}) \cup Get(b, "allowed_tools", {})
  <2>1. \A x, y : Merged("allowed_tools", x, y) = x \cup y
    BY DEF Merged, ListKeys, UnionList
  <2>2. QED
    BY <1>1, <1>2, <2>1 DEF Get
<1>4. Get(Inner(m), "allow", {}) = Get(Inner(a), "allow", {}) \cup Get(Inner(b), "allow", {})
  <2>1. \A x, y : Merged("permissions", x, y) = MergeLists(x, y)
    BY DEF Merged, ListKeys
  <2>2. ASSUME NEW x, NEW y
        PROVE  Get(MergeLists(x, y), "allow", {}) = Get(x, "allow", {}) \cup Get(y, "allow", {})
    <3>1. DOMAIN MergeLists(x, y) = DOMAIN x \cup DOMAIN y
      BY DEF MergeLists, MergeDicts
    <3>2. ASSUME "allow" \in DOMAIN MergeLists(x, y)
          PROVE  MergeLists(x, y)["allow"]
                   = IF "allow" \in DOMAIN x \cap DOMAIN y THEN x["allow"] \cup y["allow"]
                     ELSE IF "allow" \in DOMAIN y THEN y["allow"] ELSE x["allow"]
      BY <3>1, <3>2 DEF MergeLists, MergeDicts, MergedLists, Over, UnionList
    <3>3. QED
      BY <3>1, <3>2 DEF Get
  <2>3. Get(NoSettings, "allow", {}) = {}
    BY DEF Get, NoSettings
  <2>4. CASE "permissions" \in DOMAIN a \cap DOMAIN b
    <3>1. Inner(m) = MergeLists(a["permissions"], b["permissions"])
      BY <1>1, <1>2, <2>1, <2>4 DEF Get
    <3>2. Inner(a) = a["permissions"] /\ Inner(b) = b["permissions"]
      BY <2>4 DEF Get
    <3> HIDE DEF Inner
    <3>3. QED
      BY <2>2, <3>1, <3>2
  <2>5. CASE "permissions" \notin DOMAIN a
    <3>1. Inner(m) = Inner(b) /\ Inner(a) = NoSettings
      BY <1>1, <1>2, <2>5 DEF Get
    <3> HIDE DEF Inner
    <3>2. QED
      BY <2>3, <3>1
  <2>6. CASE "permissions" \notin DOMAIN b
    <3>1. Inner(m) = Inner(a) /\ Inner(b) = NoSettings
      BY <1>1, <1>2, <2>6 DEF Get
    <3> HIDE DEF Inner
    <3>2. QED
      BY <2>3, <3>1
  <2>7. QED
    BY <2>4, <2>5, <2>6
<1> HIDE DEF Inner
<1>5. \A dict : Allowed(dict) = Get(dict, "allowed_tools", {}) \cup Get(Inner(dict), "allow", {})
  BY DEF Allowed, Listed, Inner
<1>6. QED
  BY <1>3, <1>4, <1>5 DEF m

\* The settings files are laid one over the other; c has the sources and the files.
LayerSteps(c) == Len(c.sources)
LayerStart(c) == NoSettings
LayerStep(c, x, n) == DeepMerge(x, SettingsOf(c.sources[n], c.files))
LayerHolds(c, x, n) ==
  Allowed(x) = UNION {Allowed(SettingsOf(c.sources[i], c.files)) : i \in 1 .. n}
Layering == INSTANCE Unfolding
  WITH Steps <- LayerSteps, Start <- LayerStart, Step <- LayerStep, Holds <- LayerHolds

\* What the settings files allow together is what one of them allows.
LEMMA LoadingJoins ==
  ASSUME NEW sources, NEW files, Len(sources) \in Nat, DOMAIN sources = 1 .. Len(sources)
  PROVE  Allowed(LoadSettings(sources, files))
           = UNION {Allowed(SettingsOf(x, files)) : x \in Range(sources)}
<1> DEFINE c == [sources |-> sources, files |-> files]
           m == Layers(sources, files)
<1>1. c.sources = sources /\ c.files = files
  OBVIOUS
<1> HIDE DEF c
<1>2. LayerSteps(c) = Len(sources)
  BY <1>1 DEF LayerSteps
<1>3. m = [n \in 0 .. LayerSteps(c) |-> Layering!Value(c, m, n)]
  <2>1. \E f : f = [n \in 0 .. LayerSteps(c) |-> Layering!Value(c, f, n)]
    BY <1>2, Layering!Exists
  <2>2. QED
    BY <1>1, <2>1 DEF Layers, Layering!Value, LayerStart, LayerStep, LayerSteps
<1> HIDE DEF m
<1>4. LayerHolds(c, LayerStart(c), 0)
  BY NothingAllowed DEF LayerHolds, LayerStart
<1>5. ASSUME NEW x, NEW n \in 1 .. LayerSteps(c), LayerHolds(c, x, n - 1)
      PROVE  LayerHolds(c, LayerStep(c, x, n), n)
  <2>1. 1 .. n = (1 .. n - 1) \cup {n}
    BY <1>2
  <2>2. Allowed(LayerStep(c, x, n)) = Allowed(x) \cup Allowed(SettingsOf(c.sources[n], c.files))
    BY MergingJoins DEF LayerStep
  <2>3. QED
    BY <1>5, <2>1, <2>2 DEF LayerHolds
<1>6. LayerHolds(c, m[LayerSteps(c)], LayerSteps(c))
  BY <1>2, <1>3, <1>4, <1>5, Layering!Holding
<1>7. Allowed(LoadSettings(sources, files))
        = UNION {Allowed(SettingsOf(sources[i], files)) : i \in 1 .. Len(sources)}
  BY <1>1, <1>2, <1>6 DEF LoadSettings, LayerHolds, m
<1>8. QED
  BY <1>7 DEF Range

\* Over the caller's options, the settings files leave what both allow.
LEMMA ApplyingJoins ==
  ASSUME NEW options, NEW loaded
  PROVE  Get(Get(ApplySettings(options, loaded), "extra", NoSettings), "allowed_tools", {})
           = Allowed(loaded)
             \cup Get(Get(options, "extra", NoSettings), "allowed_tools", {})
<1> DEFINE e0 == Get(options, "extra", NoSettings)
           extra == ApplyLists(e0, loaded)
           flat == ApplyFlat(options, loaded)
<1>1. Get(extra, "allowed_tools", {}) = Allowed(loaded) \cup Get(e0, "allowed_tools", {})
  <2> DEFINE spelling == [allowed_tools |-> "allow", disallowed_tools |-> "deny"]
             given(key) == Listed(loaded, key, spelling[key])
             keys == {k \in ListKeys : given(k) # {} \/ k \in DOMAIN e0}
             lists == [k \in keys |-> UnionList(given(k), Get(e0, k, {}))]
  <2>1. extra = Over(lists, e0)
    BY DEF ApplyLists
  <2>2. given("allowed_tools") = Allowed(loaded)
    BY DEF Allowed
  <2>3. "allowed_tools" \in keys <=> (Allowed(loaded) # {} \/ "allowed_tools" \in DOMAIN e0)
    BY <2>2 DEF ListKeys
  <2>4. "allowed_tools" \in keys =>
          lists["allowed_tools"] = Allowed(loaded) \cup Get(e0, "allowed_tools", {})
    BY <2>2 DEF UnionList
  <2>5. DOMAIN lists = keys
    OBVIOUS
  <2> HIDE DEF lists, keys, e0
  <2>6. QED
    BY <2>1, <2>3, <2>4, <2>5 DEF Over, Get
<1>2. extra = NoSettings => Get(flat, "extra", NoSettings) = e0
  <2> DEFINE keys == {"model", "backend", "system_prompt", "permission_mode", "max_turns",
                      "max_budget_usd", "include_memory", "mcp_servers"} \cap DOMAIN loaded
             fill == [o \in {OptionOf(k) : k \in keys} |->
                        loaded[CHOOSE k \in keys : OptionOf(k) = o]]
  <2>1. flat = Over(options, fill)
    BY DEF ApplyFlat
  <2>2. "extra" \notin DOMAIN fill
    BY DEF OptionOf
  <2> HIDE DEF fill
  <2>3. QED
    BY <2>1, <2>2 DEF Over, Get
<1>3. CASE extra = NoSettings
  <2>1. ApplySettings(options, loaded) = Over(NoSettings, flat)
    BY <1>3 DEF ApplySettings
  <2>2. Get(Over(NoSettings, flat), "extra", NoSettings) = Get(flat, "extra", NoSettings)
    BY DEF Over, Get, NoSettings
  <2>3. Get(NoSettings, "allowed_tools", {}) = {}
    BY DEF Get, NoSettings
  <2> HIDE DEF e0, extra, flat
  <2>4. QED
    BY <1>1, <1>2, <1>3, <2>1, <2>2, <2>3 DEF e0
<1>4. CASE extra # NoSettings
  <2>1. ApplySettings(options, loaded) = Over([extra |-> extra], flat)
    BY <1>4 DEF ApplySettings
  <2> HIDE DEF e0, extra, flat
  <2>2. Get(Over([extra |-> extra], flat), "extra", NoSettings) = extra
    BY DEF Over, Get
  <2>3. QED
    BY <1>1, <2>1, <2>2 DEF e0
<1>5. QED
  BY <1>3, <1>4

LEMMA GetGiven ==
  ASSUME NEW dict, NEW key, key \in DOMAIN dict, NEW default
  PROVE  Get(Given(dict), key, default) = OrElse(dict[key], default)
BY DEF Get, Given, Restrict, OrElse

\* What ClaudeAgentOptions say of settings files and of allowed tools.
LEMMA OptionsPass ==
  ASSUME NEW o
  PROVE  /\ Get(ToQueryOptions(o), "setting_sources", <<>>) = OrElse(o.settingSources, <<>>)
         /\ Get(ToQueryOptions(o), "extra", NoSettings) = Extra(o)
<1> DEFINE extra == IF Extra(o) = NoSettings THEN NoSettings ELSE [extra |-> Extra(o)]
<1>1. ToQueryOptions(o) = Over(extra, Plain(o))
  BY DEF ToQueryOptions
<1>2. Get(Plain(o), "setting_sources", <<>>) = OrElse(o.settingSources, <<>>)
  BY GetGiven DEF Plain
<1>3. "extra" \notin DOMAIN Plain(o)
  BY DEF Plain, Given, Restrict
<1>5. Get(ToQueryOptions(o), "setting_sources", <<>>) = Get(Plain(o), "setting_sources", <<>>)
  <2>1. "setting_sources" \notin DOMAIN extra
    BY DEF NoSettings
  <2> HIDE DEF extra
  <2>2. QED
    BY <1>1, <2>1 DEF Over, Get
<1>6. Get(ToQueryOptions(o), "extra", NoSettings) = Extra(o)
  <2>1. CASE Extra(o) = NoSettings
    <3>1. extra = NoSettings
      BY <2>1
    <3> HIDE DEF extra
    <3>2. QED
      BY <1>1, <1>3, <2>1, <3>1 DEF Over, Get, NoSettings
  <2>2. CASE Extra(o) # NoSettings
    <3>1. extra = [extra |-> Extra(o)]
      BY <2>2
    <3> HIDE DEF extra
    <3>2. QED
      BY <1>1, <3>1 DEF Over, Get
  <2>3. QED
    BY <2>1, <2>2
<1>7. QED
  BY <1>2, <1>5, <1>6

\* An agent has only tools that the allow lists name, if they name any.
LEMMA OnlyAllowedTools ==
  ASSUME NEW s \in Setups, AgentFor[s].built, NEW t \in AgentFor[s].tools, AllowLists(s) # {}
  PROVE  t.name \in AllowLists(s)
<1> DEFINE o == s.options
           options == ToQueryOptions(o)
           own == Get(Extra(o), "allowed_tools", {})
           sources == OrElse(o.settingSources, <<>>)
           loaded == LoadSettings(sources, s.env.files)
           opts == IF loaded = NoSettings THEN options ELSE ApplySettings(options, loaded)
           allowed == Get(Get(opts, "extra", NoSettings), "allowed_tools", {})
<1>1. s.front # "dict" /\ o # None
  BY DEF AllowLists
<1>2. AllowLists(s) = own
                      \cup UNION {Allowed(SettingsOf(x, s.env.files)) : x \in Range(sources)}
  BY <1>1 DEF AllowLists, Allowed
<1>3. AgentFor[s] = BuildAgent(options, s.env)
  BY <1>1 DEF AgentFor, Built
<1>4. Len(sources) \in Nat /\ DOMAIN sources = 1 .. Len(sources)
  <2>1. sources \in Seq(STRING)
    <3>1. o.settingSources # None => o.settingSources \in Seq(STRING)
      BY <1>1, ListsAssumption
    <3>2. <<>> \in Seq(STRING)
      OBVIOUS
    <3>3. QED
      BY <3>1, <3>2 DEF OrElse
  <2>2. QED
    BY <2>1, LenProperties
<1>5. allowed = AllowLists(s)
  <2>1. Get(Get(options, "extra", NoSettings), "allowed_tools", {}) = own
    BY OptionsPass
  <2>2. Allowed(loaded) = UNION {Allowed(SettingsOf(x, s.env.files)) : x \in Range(sources)}
    BY <1>4, LoadingJoins
  <2>3. CASE loaded = NoSettings
    <3>1. Allowed(loaded) = {}
      BY <2>3, NothingAllowed
    <3>2. allowed = own
      BY <2>1, <2>3
    <3> HIDE DEF allowed, own, sources, loaded
    <3>3. QED
      BY <1>2, <2>2, <3>1, <3>2
  <2>4. CASE loaded # NoSettings
    <3>1. allowed = Allowed(loaded) \cup own
      BY <2>1, <2>4, ApplyingJoins
    <3> HIDE DEF allowed, own, sources, loaded
    <3>2. QED
      BY <1>2, <2>2, <3>1
  <2>5. QED
    BY <2>3, <2>4
<1>6. sources = Get(options, "setting_sources", <<>>)
  BY OptionsPass
<1>7. \E registry : AgentFor[s].tools = Visible(registry, opts)
  <2> DEFINE model == Get(opts, "model", s.env.model)
             backend == ResolveBackend(model, Get(opts, "backend", None), s.env)
             tools == Get(opts, "tools", <<>>) \o McpTools(Get(options, "mcp_servers", <<>>))
             made == Agent(opts, model, DetectProvider(backend), backend,
                           Visible(Range(tools), opts), s.env)
  <2>1. AgentFor[s] = IF Broken(sources, s.env.files) \/ backend = Refused \/ ~Distinct(tools)
                      THEN NoAgent ELSE made
    BY <1>3, <1>6 DEF BuildAgent
  <2>2. AgentFor[s] = made
    BY <2>1 DEF NoAgent
  <2>3. made = NoAgent \/ made.tools = Visible(Range(tools), opts)
    BY DEF Agent
  <2>4. ~NoAgent.built
    BY DEF NoAgent
  <2> HIDE DEF made, opts
  <2>5. QED
    BY <2>2, <2>3, <2>4
<1>8. allowed = {} \/ t.name \in allowed
  <2> HIDE DEF opts
  <2>1. QED
    BY <1>7 DEF Visible
<1>9. QED
  BY <1>5, <1>8

\* A registered tool is found by its name.
LEMMA RegistryGet ==
  ASSUME NEW name, Registered(name)
  PROVE  ToolNamed(name) \in agent.tools /\ ToolNamed(name).name = name
BY DEF Registered, ToolNamed

\* What InputChecked says of one block, the call of query() being s.
CheckedFor(s, v) ==
  LET tools == AgentFor[s].tools
      tool == CHOOSE t \in tools : t.name = v.tool
      ctx == AgentFor[s].permissions
      consulted == ctx.mode # "bypass" /\ ~(ctx.mode = "auto" /\ tool.readOnly)
  IN (v.verdict = "dispatched" /\ \E t \in tools : t.name = v.tool) =>
       /\ AllowLists(s) # {} => v.tool \in AllowLists(s)
       /\ (ctx # None /\ ctx.rules # None /\ consulted /\ ~v.rewritten) =>
            ~DeniedBy(ctx.rules, tool, v.input)

\* A run has an agent, and its dispatched calls are checked.
CheckedInv == (pc # "idle" => agent.built) /\ \A v \in verdicts : CheckedFor(setup, v)

\* A block that the verdict on a call makes is checked.
LEMMA BlockIsChecked ==
  ASSUME StateOK, agent.built, NEW call, NEW b,
         b.tool = call.tool, b.input = VerdictOn(call).input,
         b.verdict = VerdictOn(call).verdict, b.rewritten = VerdictOn(call).rewritten
  PROVE  CheckedFor(setup, b)
<1> DEFINE tool == ToolNamed(call.tool)
           ctx == agent.permissions
           v == Preflight(tool, call.input, agent.hook, ctx)
<1> SUFFICES ASSUME b.verdict = "dispatched", Registered(call.tool)
             PROVE  /\ AllowLists(setup) # {} => call.tool \in AllowLists(setup)
                    /\ (/\ ctx # None /\ ctx.rules # None /\ ~b.rewritten
                        /\ ctx.mode # "bypass" /\ ~(ctx.mode = "auto" /\ tool.readOnly)) =>
                         ~DeniedBy(ctx.rules, tool, b.input)
  BY DEF CheckedFor, Registered, ToolNamed, agent
<1>1. setup \in Setups /\ AgentFor[setup].built
  BY DEF StateOK, TypeOK, agent
<1>2. tool \in agent.tools /\ tool.name = call.tool
  BY RegistryGet
<1>3. AllowLists(setup) # {} => call.tool \in AllowLists(setup)
  BY <1>1, <1>2, OnlyAllowedTools DEF agent
<1>4. VerdictOn(call) = v
  BY DEF VerdictOn
<1>5. ASSUME ctx # None, ctx.rules # None, ~b.rewritten, ctx.mode # "bypass",
             ~(ctx.mode = "auto" /\ tool.readOnly), DeniedBy(ctx.rules, tool, b.input)
      PROVE  FALSE
  <2>1. DOMAIN ctx.rules.deny \subseteq Nat
    <3>1. ctx.rules.deny \in Seq(Range(ctx.rules.deny))
      BY <1>1, <1>5, ListsAssumption DEF agent
    <3>2. DOMAIN ctx.rules.deny = 1 .. Len(ctx.rules.deny) /\ Len(ctx.rules.deny) \in Nat
      BY <3>1, LenProperties
    <3>3. QED
      BY <3>2
  <2>2. v.verdict = "dispatched" /\ ~v.rewritten /\ b.input = v.input
    BY <1>4, <1>5
  <2> HIDE DEF tool, ctx
  <2>3. QED
    BY <1>5, <2>1, <2>2, PreflightDenies
<1>6. QED
  BY <1>3, <1>5

LEMMA CheckedInit == Init => CheckedInv
BY DEF Init, CheckedInv

LEMMA CheckedStep == StateOK /\ CheckedInv /\ [Next]_vars => CheckedInv'
<1> SUFFICES ASSUME StateOK, CheckedInv, [Next]_vars PROVE CheckedInv'
  OBVIOUS
<1> DEFINE Kept == setup' = setup /\ verdicts' \subseteq verdicts /\ (pc' = "idle" \/ pc # "idle")
<1>1. ASSUME Kept PROVE CheckedInv'
  BY <1>1 DEF CheckedInv, agent
<1>2. ASSUME NEW how, End(how), setup' = setup PROVE CheckedInv'
  BY <1>2 DEF End, Fresh, CheckedInv
<1>3. ASSUME NEW call \in setup.calls, StreamCall(call) PROVE CheckedInv'
  <2>1. CASE verdicts' = verdicts
    BY <1>1, <1>3, <2>1 DEF StreamCall
  <2>2. CASE verdicts' # verdicts
    <3>1. PICK b : /\ b.tool = call.tool /\ b.input = VerdictOn(call).input
                   /\ b.verdict = VerdictOn(call).verdict
                   /\ b.rewritten = VerdictOn(call).rewritten
                   /\ verdicts' = verdicts \cup {b}
      <4> DEFINE v == VerdictOn(call)
                 b == [id |-> <<step, Len(blocks) + 1>>, tool |-> call.tool,
                       sent |-> call.input, input |-> v.input, verdict |-> v.verdict,
                       rewritten |-> v.rewritten]
      <4>1. verdicts' = verdicts \cup {b}
        BY <1>3, <2>2 DEF StreamCall
      <4>2. b.tool = call.tool /\ b.input = v.input /\ b.verdict = v.verdict
            /\ b.rewritten = v.rewritten
        OBVIOUS
      <4>3. QED
        BY <4>1, <4>2
    <3>2. pc = "streaming" /\ setup' = setup
      BY <1>3 DEF StreamCall
    <3>3. agent.built
      BY <3>2 DEF CheckedInv
    <3>4. CheckedFor(setup, b)
      BY <3>1, <3>3, BlockIsChecked
    <3>5. QED
      BY <3>1, <3>2, <3>3, <3>4 DEF CheckedInv, agent
  <2>3. QED
    BY <2>1, <2>2
<1>4. CASE Start
  <2>1. CASE ~agent.built \/ PromptFails
    BY <1>2, <1>4, <2>1 DEF Start
  <2>2. CASE agent.built /\ ~PromptFails
    BY <1>4, <2>2 DEF Start, CheckedInv, agent
  <2>3. QED
    BY <2>1, <2>2
<1>5. CASE AsksOn
  BY <1>1, <1>2, <1>5 DEF AsksOn, AfterSeed, EchoSeed, EnterLoop, AfterAssistant, NextTurn,
                          Make, runState
<1>6. CASE Drop
  BY <1>1, <1>2, <1>6 DEF Drop, runState
<1>7. CASE UNCHANGED vars \/ ClientQuery \/ Write \/ Yield
  BY <1>1, <1>7 DEF vars, ClientQuery, Write, Yield, runState
<1>8. CASE NothingToReceive \/ Crash \/ CloseDropped
  BY <1>2, <1>8 DEF NothingToReceive, Crash, CloseDropped
<1>9. CASE BeginTurn \/ Attempt \/ StreamFails \/ RunTools \/ Close
  BY <1>1, <1>9 DEF BeginTurn, Attempt, StreamFails, RunTools, Close
<1>10. ASSUME NEW spent \in {0, 1}, StreamEnds(spent) PROVE CheckedInv'
  BY <1>1, <1>10 DEF StreamEnds
<1>11. ASSUME NEW call \in setup.calls, LeaveOpen(call) PROVE CheckedInv'
  <2> DEFINE b == [id |-> <<step, Len(blocks) + 1>>, tool |-> call.tool, sent |-> call.input,
                   input |-> call.input, verdict |-> "open", rewritten |-> FALSE]
  <2>1. pc = "streaming" /\ UNCHANGED <<setup, pc>> /\ verdicts' = verdicts \cup {b}
    BY <1>11 DEF LeaveOpen
  <2>2. b.verdict # "dispatched"
    OBVIOUS
  <2> HIDE DEF b
  <2>3. CheckedFor(setup, b)
    BY <2>2 DEF CheckedFor
  <2>4. QED
    BY <2>1, <2>3 DEF CheckedInv, agent
<1>12. CASE WriteFails
  BY <1>1, <1>2, <1>12 DEF WriteFails
<1>13. QED
  BY <1>3, <1>4, <1>5, <1>6, <1>7, <1>8, <1>9, <1>10, <1>11, <1>12 DEF Next, Step

LEMMA CheckedMeans == CheckedInv => InputChecked
BY DEF CheckedInv, CheckedFor, InputChecked, Registered, ToolNamed, agent

\* No call is dispatched to a tool that the allow lists leave out, or with an input that a
\* deny rule forbids, however settings, hooks and callbacks are combined.
THEOREM InputsAreChecked == Spec => []InputChecked
BY CheckedInit, CheckedStep, CheckedMeans, StateHolds, PTL DEF Spec

-----------------------------------------------------------------------------
(* What the adapters make of the blocks of a message.                       *)

LEMMA Joins ==
  ASSUME NEW a, NEW b, IsList(a), IsList(b)
  PROVE  /\ IsList(a \o b) /\ Len(a) \in Nat /\ Len(b) \in Nat /\ Len(a \o b) = Len(a) + Len(b)
         /\ \A i \in 1 .. Len(a) + Len(b) :
              (a \o b)[i] = IF i <= Len(a) THEN a[i] ELSE b[i - Len(a)]
<1>1. PICK S, T : a \in Seq(S) /\ b \in Seq(T)
  BY DEF IsList
<1>2. a \in Seq(S \cup T) /\ b \in Seq(S \cup T)
  BY <1>1, SeqMonotonic
<1>3. /\ a \o b \in Seq(S \cup T) /\ Len(a \o b) = Len(a) + Len(b)
      /\ \A i \in 1 .. Len(a) + Len(b) :
           (a \o b)[i] = IF i <= Len(a) THEN a[i] ELSE b[i - Len(a)]
  BY <1>2, ConcatProperties
<1>4. QED
  BY <1>2, <1>3, ListFacts DEF IsList

LEMMA JoinsEmpty ==
  ASSUME NEW a, IsList(a)
  PROVE  a \o <<>> = a /\ <<>> \o a = a
BY ConcatEmptySeq DEF IsList

\* Lists with the same elements are the same.
LEMMA SameList ==
  ASSUME NEW a, NEW b, IsList(a), IsList(b), Len(a) = Len(b), \A i \in 1 .. Len(a) : a[i] = b[i]
  PROVE  a = b
<1>1. PICK S, T : a \in Seq(S) /\ b \in Seq(T)
  BY DEF IsList
<1>2. a \in Seq(S \cup T) /\ b \in Seq(S \cup T)
  BY <1>1, SeqMonotonic
<1>3. QED
  BY <1>2, SeqEqual

\* The filter Of, over a list c.content.
FilterSteps(c) == Len(c.content)
FilterStart(c) == <<>>
FilterStep(c, x, n) == IF c.content[n].kind \in c.kinds THEN Append(x, c.content[n]) ELSE x
FilterHolds(c, x, n) ==
  /\ (\A i \in 1 .. n : c.content[i].kind \notin c.kinds) => x = <<>>
  /\ (\A i \in 1 .. n : c.content[i].kind \in c.kinds) =>
        IsList(x) /\ Len(x) = n /\ \A i \in 1 .. n : x[i] = c.content[i]
Filtering == INSTANCE Unfolding
  WITH Steps <- FilterSteps, Start <- FilterStart, Step <- FilterStep, Holds <- FilterHolds

\* It keeps a list that holds these kinds only, and nothing of one that holds none of them.
LEMMA Filtered ==
  ASSUME NEW kinds, NEW content, IsList(content)
  PROVE  /\ (\A i \in DOMAIN content : content[i].kind \in kinds) => Of(kinds, content) = content
         /\ (\A i \in DOMAIN content : content[i].kind \notin kinds) => Of(kinds, content) = <<>>
<1> DEFINE c == [kinds |-> kinds, content |-> content]
           F(f) == [n \in 0 .. Len(content) |->
                      IF n = 0 THEN <<>>
                      ELSE IF content[n].kind \in kinds THEN Append(f[n - 1], content[n])
                      ELSE f[n - 1]]
           m == CHOOSE f : f = F(f)
<1>1. c.kinds = kinds /\ c.content = content
  OBVIOUS
<1>2. Len(content) \in Nat /\ DOMAIN content = 1 .. Len(content)
  BY ListFacts
<1> HIDE DEF c
<1>3. m = [n \in 0 .. FilterSteps(c) |-> Filtering!Value(c, m, n)]
  <2>1. \E f : f = [n \in 0 .. FilterSteps(c) |-> Filtering!Value(c, f, n)]
    BY <1>1, <1>2, Filtering!Exists DEF FilterSteps
  <2>2. ASSUME NEW f PROVE F(f) = [n \in 0 .. FilterSteps(c) |-> Filtering!Value(c, f, n)]
    BY <1>1 DEF Filtering!Value, FilterSteps, FilterStart, FilterStep
  <2> HIDE DEF F
  <2>3. QED
    BY <2>1, <2>2
<1>4. Of(kinds, content) = m[Len(content)]
  BY DEF Of
<1> HIDE DEF m
<1>5. FilterHolds(c, FilterStart(c), 0)
  BY EmptyIsList DEF FilterHolds, FilterStart
<1>6. ASSUME NEW x, NEW n \in 1 .. FilterSteps(c), FilterHolds(c, x, n - 1)
      PROVE  FilterHolds(c, FilterStep(c, x, n), n)
  <2>1. n \in 1 .. n /\ \A i \in 1 .. n - 1 : i \in 1 .. n
    BY <1>1, <1>2 DEF FilterSteps
  <2>2. ASSUME \A i \in 1 .. n : c.content[i].kind \notin c.kinds
        PROVE  FilterStep(c, x, n) = <<>>
    BY <1>6, <2>1, <2>2 DEF FilterStep, FilterHolds
  <2>3. ASSUME \A i \in 1 .. n : c.content[i].kind \in c.kinds
        PROVE  /\ IsList(FilterStep(c, x, n)) /\ Len(FilterStep(c, x, n)) = n
               /\ \A i \in 1 .. n : FilterStep(c, x, n)[i] = c.content[i]
    <3>1. IsList(x) /\ Len(x) = n - 1 /\ \A i \in 1 .. n - 1 : x[i] = c.content[i]
      BY <1>6, <2>1, <2>3 DEF FilterHolds
    <3>2. FilterStep(c, x, n) = Append(x, c.content[n])
      BY <2>1, <2>3 DEF FilterStep
    <3>3. n \in Nat /\ (n - 1) + 1 = n /\ \A i \in 1 .. n : i = n \/ i \in 1 .. n - 1
      BY <1>1, <1>2 DEF FilterSteps
    <3>4. QED
      BY <3>1, <3>2, <3>3, Grows
  <2>4. QED
    BY <2>2, <2>3 DEF FilterHolds
<1>7. FilterHolds(c, m[FilterSteps(c)], FilterSteps(c))
  BY <1>1, <1>2, <1>3, <1>5, <1>6, Filtering!Holding DEF FilterSteps
<1>8. QED
  BY <1>1, <1>2, <1>4, <1>7, SameList DEF FilterHolds, FilterSteps

\* _split_system, over a conversation c.
SplitSteps(c) == Len(c)
SplitStart(c) == [system |-> <<>>, body |-> <<>>]
SplitStep(c, x, n) ==
  IF c[n].role = "system" THEN [x EXCEPT !.system = @ \o c[n].content]
  ELSE [x EXCEPT !.body = Append(@, c[n])]
SplitHolds(c, x, n) ==
  \E body : /\ x = [system |-> <<>>, body |-> body]
            /\ IsList(body) /\ Len(body) = n /\ \A i \in 1 .. n : body[i] = c[i]
Splitting == INSTANCE Unfolding
  WITH Steps <- SplitSteps, Start <- SplitStart, Step <- SplitStep, Holds <- SplitHolds

\* A conversation without system messages stays as it is.
LEMMA SplitKeeps ==
  ASSUME NEW c, IsList(c), \A i \in DOMAIN c : c[i].role # "system"
  PROVE  SplitSystem(c).body = c /\ SplitSystem(c).system = <<>>
<1> DEFINE F(f) == [n \in 0 .. Len(c) |->
                      IF n = 0 THEN [system |-> <<>>, body |-> <<>>]
                      ELSE IF c[n].role = "system"
                      THEN [f[n - 1] EXCEPT !.system = @ \o c[n].content]
                      ELSE [f[n - 1] EXCEPT !.body = Append(@, c[n])]]
           m == CHOOSE f : f = F(f)
<1>1. Len(c) \in Nat /\ DOMAIN c = 1 .. Len(c)
  BY ListFacts
<1>2. m = [n \in 0 .. SplitSteps(c) |-> Splitting!Value(c, m, n)]
  <2>1. \E f : f = [n \in 0 .. SplitSteps(c) |-> Splitting!Value(c, f, n)]
    BY <1>1, Splitting!Exists DEF SplitSteps
  <2>2. ASSUME NEW f PROVE F(f) = [n \in 0 .. SplitSteps(c) |-> Splitting!Value(c, f, n)]
    BY DEF Splitting!Value, SplitSteps, SplitStart, SplitStep
  <2> HIDE DEF F
  <2>3. QED
    BY <2>1, <2>2
<1>3. SplitSystem(c) = m[Len(c)]
  BY DEF SplitSystem
<1> HIDE DEF m
<1>4. SplitHolds(c, SplitStart(c), 0)
  BY EmptyIsList DEF SplitHolds, SplitStart
<1>5. ASSUME NEW x, NEW n \in 1 .. SplitSteps(c), SplitHolds(c, x, n - 1)
      PROVE  SplitHolds(c, SplitStep(c, x, n), n)
  <2>1. PICK body : /\ x = [system |-> <<>>, body |-> body] /\ IsList(body) /\ Len(body) = n - 1
                    /\ \A i \in 1 .. n - 1 : body[i] = c[i]
    BY <1>5 DEF SplitHolds
  <2>2. SplitStep(c, x, n) = [system |-> <<>>, body |-> Append(body, c[n])]
    BY <1>1, <2>1 DEF SplitStep, SplitSteps
  <2>3. n \in Nat /\ (n - 1) + 1 = n /\ \A i \in 1 .. n : i = n \/ i \in 1 .. n - 1
    BY <1>1 DEF SplitSteps
  <2> DEFINE b == Append(body, c[n])
  <2>4. IsList(b) /\ Len(b) = n /\ \A i \in 1 .. n : b[i] = c[i]
    BY <2>1, <2>3, Grows
  <2> HIDE DEF b
  <2>5. QED
    BY <2>2, <2>4 DEF SplitHolds, b
<1>6. SplitHolds(c, m[SplitSteps(c)], SplitSteps(c))
  BY <1>1, <1>2, <1>4, <1>5, Splitting!Holding DEF SplitSteps
<1>7. PICK body : /\ SplitSystem(c) = [system |-> <<>>, body |-> body] /\ IsList(body)
                  /\ Len(body) = Len(c) /\ \A i \in 1 .. Len(c) : body[i] = c[i]
  BY <1>3, <1>6 DEF SplitHolds, SplitSteps
<1>8. body = c
  BY <1>7, SameList
<1>9. QED
  BY <1>7, <1>8

-----------------------------------------------------------------------------
(* A request carries a conversation if each of its messages comes from one  *)
(* of the conversation, in the same order, and each call and each result is *)
(* sent once, in a message that comes from its own.                         *)

Sent(w, i, k) == /\ i \in DOMAIN w /\ k \in DOMAIN w[i].parts
                 /\ w[i].parts[k].kind \in {"use", "result"}
Said(h, m, l) == /\ m \in DOMAIN h /\ l \in DOMAIN h[m].content
                 /\ h[m].content[l].kind \in {"use", "result"}

\* w carries the messages M of h; message i of w comes from message o[i].
Carried(w, h, M, o) ==
  /\ IsList(w) /\ o \in [DOMAIN w -> M]
  /\ \A i, j \in DOMAIN w : i <= j => o[i] <= o[j]
  /\ \A i \in DOMAIN w :
       w[i].role = "assistant" <=> (o[i] \in DOMAIN h /\ h[o[i]].role = "assistant")
  /\ \A i, j \in DOMAIN w : w[i].role = "assistant" /\ o[i] = o[j] => i = j
  /\ \A i, k : Sent(w, i, k) =>
       \E l : Said(h, o[i], l) /\ w[i].parts[k] = h[o[i]].content[l]
  /\ \A m, l : m \in M /\ Said(h, m, l) =>
       \E i, k : Sent(w, i, k) /\ o[i] = m /\ w[i].parts[k] = h[m].content[l]
  /\ \A i, k, j, l :
       Sent(w, i, k) /\ Sent(w, j, l) /\ o[i] = o[j] /\ w[i].parts[k] = w[j].parts[l] =>
         i = j /\ k = l
Carries(w, h, M) == \E o : Carried(w, h, M, o)

\* What carries one stretch of the conversation, and then what carries the next.
LEMMA CarriesBoth ==
  ASSUME NEW h, NEW M \in SUBSET Nat, NEW N \in SUBSET Nat, \A m \in M, n \in N : m < n,
         NEW x, NEW y, Carries(x, h, M), Carries(y, h, N)
  PROVE  Carries(x \o y, h, M \cup N)
<1>1. PICK a : Carried(x, h, M, a)
  BY DEF Carries
<1>2. PICK b : Carried(y, h, N, b)
  BY DEF Carries
<1> DEFINE w == x \o y
           L == Len(x)
           o == [i \in DOMAIN w |-> IF i <= L THEN a[i] ELSE b[i - L]]
<1>3. /\ IsList(w) /\ L \in Nat /\ Len(y) \in Nat /\ DOMAIN w = 1 .. L + Len(y)
      /\ DOMAIN x = 1 .. L /\ DOMAIN y = 1 .. Len(y)
      /\ \A i \in DOMAIN w : w[i] = IF i <= L THEN x[i] ELSE y[i - L]
  <2>1. IsList(x) /\ IsList(y)
    BY <1>1, <1>2 DEF Carried
  <2>2. QED
    BY <2>1, Joins, ListFacts
<1>4. \A i \in DOMAIN w : /\ i \in Nat /\ (i <= L => i \in DOMAIN x)
                        /\ (~(i <= L) => i > L /\ i - L \in DOMAIN y)
  <2> HIDE DEF w, L
  <2>1. QED
    BY <1>3
<1>5. \A i \in DOMAIN x : i \in DOMAIN w /\ i <= L
  BY <1>3
<1>6. \A i \in DOMAIN y : i + L \in DOMAIN w /\ ~(i + L <= L) /\ (i + L) - L = i
  BY <1>3
<1>7. /\ \A i \in DOMAIN x : w[i] = x[i] /\ o[i] = a[i] /\ a[i] \in M
      /\ \A i \in DOMAIN y : w[i + L] = y[i] /\ o[i + L] = b[i] /\ b[i] \in N
      /\ \A i \in DOMAIN w : i > L => w[i] = y[i - L] /\ o[i] = b[i - L]
  <2>1. a \in [DOMAIN x -> M] /\ b \in [DOMAIN y -> N]
    BY <1>1, <1>2 DEF Carried
  <2> HIDE DEF w, L
  <2>2. QED
    BY <1>3, <1>4, <1>5, <1>6, <2>1
<1>8. DOMAIN o = DOMAIN w
  OBVIOUS
<1> HIDE DEF w, L, o
<1>9. o \in [DOMAIN w -> M \cup N]
  <2>1. o = [i \in DOMAIN w |-> o[i]]
    BY DEF o
  <2>2. \A i \in DOMAIN w : o[i] \in M \cup N
    BY <1>3, <1>4, <1>7
  <2>3. QED
    BY <2>1, <2>2
<1>10. \A i \in DOMAIN w : (i <= L => o[i] \in M) /\ (~(i <= L) => o[i] \in N)
  <2> TAKE i \in DOMAIN w
  <2>1. ASSUME i <= L PROVE o[i] \in M
    BY <1>4, <1>7, <2>1
  <2>2. ASSUME ~(i <= L) PROVE o[i] \in N
    <3>1. i > L /\ i - L \in DOMAIN y
      BY <1>4, <2>2
    <3>2. QED
      BY <1>7, <3>1
  <2>3. QED
    BY <2>1, <2>2
<1>11. \A i, j \in DOMAIN w : o[i] = o[j] =>
          \/ i \in DOMAIN x /\ j \in DOMAIN x
          \/ i > L /\ j > L /\ i - L \in DOMAIN y /\ j - L \in DOMAIN y
  <2>1. ASSUME NEW m \in M, m \in N PROVE FALSE
    <3>1. m < m /\ m \in Nat
      BY <2>1
    <3>2. QED
      BY <3>1
  <2>2. QED
    BY <1>4, <1>10, <2>1
<1>12. \A i, j \in DOMAIN w : i <= j => o[i] <= o[j]
  <2> SUFFICES ASSUME NEW i \in DOMAIN w, NEW j \in DOMAIN w, i <= j PROVE o[i] <= o[j]
    OBVIOUS
  <2>1. i \in Nat /\ j \in Nat
    BY <1>3
  <2>2. CASE i <= L /\ j <= L
    BY <1>1, <1>4, <1>7, <2>1, <2>2 DEF Carried
  <2>3. CASE i <= L /\ j > L
    <3>1. o[i] \in M /\ o[j] \in N
      BY <1>3, <1>10, <2>1, <2>3
    <3>2. o[i] < o[j] /\ o[i] \in Nat /\ o[j] \in Nat
      BY <3>1
    <3>3. QED
      BY <3>2
  <2>4. CASE i > L
    <3>1. j > L /\ i - L \in DOMAIN y /\ j - L \in DOMAIN y /\ i - L <= j - L
      BY <1>3, <1>4, <2>1, <2>4
    <3>2. QED
      BY <1>2, <1>7, <2>4, <3>1 DEF Carried
  <2>5. QED
    BY <1>3, <2>1, <2>2, <2>3, <2>4
<1>13. \A i \in DOMAIN w :
         w[i].role = "assistant" <=> (o[i] \in DOMAIN h /\ h[o[i]].role = "assistant")
  BY <1>1, <1>2, <1>4, <1>7 DEF Carried
<1>14. \A i, j \in DOMAIN w : w[i].role = "assistant" /\ o[i] = o[j] => i = j
  <2> SUFFICES ASSUME NEW i \in DOMAIN w, NEW j \in DOMAIN w, w[i].role = "assistant", o[i] = o[j]
               PROVE  i = j
    OBVIOUS
  <2>1. CASE i \in DOMAIN x /\ j \in DOMAIN x
    BY <1>1, <1>7, <2>1 DEF Carried
  <2>2. CASE i > L /\ j > L /\ i - L \in DOMAIN y /\ j - L \in DOMAIN y
    <3>1. i - L = j - L
      BY <1>2, <1>7, <2>2 DEF Carried
    <3>2. QED
      BY <1>3, <3>1
  <2>3. QED
    BY <1>11, <2>1, <2>2
<1>15. \A i, k : Sent(w, i, k) =>
          \/ i \in DOMAIN x /\ Sent(x, i, k)
          \/ i > L /\ i - L \in DOMAIN y /\ Sent(y, i - L, k)
  BY <1>4, <1>7 DEF Sent
<1>16. \A i, k : Sent(w, i, k) => \E l : Said(h, o[i], l) /\ w[i].parts[k] = h[o[i]].content[l]
  <2> SUFFICES ASSUME NEW i, NEW k, Sent(w, i, k)
               PROVE  \E l : Said(h, o[i], l) /\ w[i].parts[k] = h[o[i]].content[l]
    OBVIOUS
  <2>1. i \in DOMAIN w
    BY DEF Sent
  <2>2. CASE i \in DOMAIN x /\ Sent(x, i, k)
    <3>1. \E l : Said(h, a[i], l) /\ x[i].parts[k] = h[a[i]].content[l]
      BY <1>1, <2>2 DEF Carried
    <3>2. QED
      BY <1>7, <2>2, <3>1
  <2>3. CASE i > L /\ i - L \in DOMAIN y /\ Sent(y, i - L, k)
    <3>1. \E l : Said(h, b[i - L], l) /\ y[i - L].parts[k] = h[b[i - L]].content[l]
      BY <1>2, <2>3 DEF Carried
    <3>2. QED
      BY <1>7, <2>1, <2>3, <3>1
  <2>4. QED
    BY <1>15, <2>2, <2>3
<1>17. ASSUME NEW m \in M \cup N, NEW l, Said(h, m, l)
       PROVE  \E i, k : Sent(w, i, k) /\ o[i] = m /\ w[i].parts[k] = h[m].content[l]
  <2>1. CASE m \in M
    <3>1. PICK i, k : Sent(x, i, k) /\ a[i] = m /\ x[i].parts[k] = h[m].content[l]
      BY <1>1, <1>17, <2>1 DEF Carried
    <3>2. i \in DOMAIN x /\ i \in DOMAIN w /\ w[i] = x[i] /\ o[i] = a[i]
      BY <1>5, <1>7, <3>1 DEF Sent
    <3>3. Sent(w, i, k)
      BY <3>1, <3>2 DEF Sent
    <3>4. QED
      BY <3>1, <3>2, <3>3
  <2>2. CASE m \in N
    <3>1. PICK i, k : Sent(y, i, k) /\ b[i] = m /\ y[i].parts[k] = h[m].content[l]
      BY <1>2, <1>17, <2>2 DEF Carried
    <3>2. i + L \in DOMAIN w /\ w[i + L] = y[i] /\ o[i + L] = b[i]
      BY <1>6, <1>7, <3>1 DEF Sent
    <3>3. Sent(w, i + L, k)
      BY <3>1, <3>2 DEF Sent
    <3>4. QED
      BY <3>1, <3>2, <3>3
  <2>3. QED
    BY <2>1, <2>2
<1>18. ASSUME NEW i, NEW k, NEW j, NEW l, Sent(w, i, k), Sent(w, j, l), o[i] = o[j],
              w[i].parts[k] = w[j].parts[l]
       PROVE  i = j /\ k = l
  <2>1. i \in DOMAIN w /\ j \in DOMAIN w
    BY <1>18 DEF Sent
  <2>2. CASE i \in DOMAIN x /\ j \in DOMAIN x
    <3>1. w[i] = x[i] /\ w[j] = x[j] /\ a[i] = a[j]
      BY <1>7, <1>18, <2>2
    <3>2. Sent(x, i, k) /\ Sent(x, j, l)
      BY <1>18, <2>2, <3>1 DEF Sent
    <3>3. QED
      BY <1>1, <1>18, <3>1, <3>2 DEF Carried
  <2>3. CASE i > L /\ j > L /\ i - L \in DOMAIN y /\ j - L \in DOMAIN y
    <3>1. w[i] = y[i - L] /\ w[j] = y[j - L] /\ b[i - L] = b[j - L]
      BY <1>7, <1>18, <2>1, <2>3
    <3>2. Sent(y, i - L, k) /\ Sent(y, j - L, l)
      BY <1>18, <2>3, <3>1 DEF Sent
    <3>3. i - L = j - L /\ k = l
      BY <1>2, <1>18, <3>1, <3>2 DEF Carried
    <3>4. QED
      BY <1>3, <2>1, <3>3
  <2>4. QED
    BY <1>11, <1>18, <2>1, <2>2, <2>3
<1>19. Carried(w, h, M \cup N, o)
  BY <1>3, <1>9, <1>12, <1>13, <1>14, <1>16, <1>17, <1>18 DEF Carried
<1>20. QED
  BY <1>19 DEF Carries, w

LEMMA OneIsList ==
  ASSUME NEW b
  PROVE  IsList(<<b>>) /\ DOMAIN <<b>> = {1}
<1>1. <<b>> \in Seq({b}) /\ DOMAIN <<b>> = {1}
  OBVIOUS
<1>2. QED
  BY <1>1 DEF IsList

\* Where neither side has a call or a result, and neither is the model's.
LEMMA CarriesNothing ==
  ASSUME NEW h, NEW m \in Nat, ~(m \in DOMAIN h /\ h[m].role = "assistant"), \A l : ~Said(h, m, l),
         NEW w, IsList(w), \A i \in DOMAIN w : w[i].role # "assistant", \A i, k : ~Sent(w, i, k)
  PROVE  Carries(w, h, {m})
<1> DEFINE o == [i \in DOMAIN w |-> m]
<1>1. o \in [DOMAIN w -> {m}] /\ \A i \in DOMAIN w : o[i] = m
  OBVIOUS
<1> HIDE DEF o
<1>2. Carried(w, h, {m}, o)
  BY <1>1 DEF Carried
<1>3. QED
  BY <1>2 DEF Carries

\* The parts are the blocks of the content, each once, in whatever order.
Rearranged(parts, content) ==
  /\ \A k \in DOMAIN parts : \E l \in DOMAIN content : parts[k] = content[l]
  /\ \A l \in DOMAIN content : \E k \in DOMAIN parts : parts[k] = content[l]
  /\ \A k, l \in DOMAIN parts : parts[k] = parts[l] => k = l

\* A message that is sent as one.
LEMMA CarriesWhole ==
  ASSUME NEW h, NEW m \in Nat, m \in DOMAIN h,
         NEW role, role = "assistant" <=> h[m].role = "assistant",
         NEW parts, Rearranged(parts, h[m].content)
  PROVE  Carries(<<Wire(role, parts)>>, h, {m})
<1> DEFINE w == <<Wire(role, parts)>>
           o == [i \in DOMAIN w |-> m]
<1>1. IsList(w) /\ DOMAIN w = {1}
  BY OneIsList
<1>2. w[1].role = role /\ w[1].parts = parts
  BY DEF Wire
<1>3. o \in [DOMAIN w -> {m}] /\ \A i \in DOMAIN w : o[i] = m
  OBVIOUS
<1> HIDE DEF w, o
<1>4. \A i, k : Sent(w, i, k) <=> i = 1 /\ k \in DOMAIN parts /\ parts[k].kind \in {"use", "result"}
  BY <1>1, <1>2 DEF Sent
<1>5. \A i, k : Sent(w, i, k) => \E l : Said(h, o[i], l) /\ w[i].parts[k] = h[o[i]].content[l]
  BY <1>1, <1>2, <1>3, <1>4 DEF Rearranged, Said
<1>6. \A l : Said(h, m, l) => \E k : Sent(w, 1, k) /\ w[1].parts[k] = h[m].content[l]
  BY <1>2, <1>4 DEF Rearranged, Said
<1>7. \A i, k, j, l : Sent(w, i, k) /\ Sent(w, j, l) /\ w[i].parts[k] = w[j].parts[l] => i = j /\ k = l
  BY <1>2, <1>4 DEF Rearranged
<1>8. Carried(w, h, {m}, o)
  <2>1. \A i, j \in DOMAIN w : o[i] <= o[j] /\ i = j
    BY <1>1, <1>3
  <2>2. \A i \in DOMAIN w : w[i].role = "assistant" <=> h[o[i]].role = "assistant"
    BY <1>1, <1>2, <1>3
  <2>3. \A i \in DOMAIN w : o[i] \in DOMAIN h
    BY <1>3
  <2>4. \A n, l : n \in {m} /\ Said(h, n, l) =>
          \E i, k : Sent(w, i, k) /\ o[i] = n /\ w[i].parts[k] = h[n].content[l]
    BY <1>1, <1>3, <1>6
  <2>5. QED
    BY <1>1, <1>3, <1>5, <1>7, <2>1, <2>2, <2>3, <2>4 DEF Carried
<1>9. QED
  BY <1>8 DEF Carries, w

\* A message of which every block is sent as one.
LEMMA CarriesEach ==
  ASSUME NEW h, NEW m \in Nat, m \in DOMAIN h, h[m].role # "assistant",
         IsList(h[m].content), Rearranged(h[m].content, h[m].content)
  PROVE  Carries(ToolMessages(h[m].content), h, {m})
<1> DEFINE c == h[m].content
           w == ToolMessages(c)
           o == [i \in DOMAIN w |-> m]
<1>1. Len(c) \in Nat /\ DOMAIN c = 1 .. Len(c)
  BY ListFacts
<1>2. DOMAIN w = DOMAIN c /\ \A i \in DOMAIN c : w[i].role = "tool" /\ w[i].parts = <<c[i]>>
  BY DEF ToolMessages, Wire
<1>3. IsList(w)
  <2>1. w \in [1 .. Len(c) -> {w[i] : i \in DOMAIN c}]
    BY <1>1 DEF ToolMessages
  <2>2. w \in Seq({w[i] : i \in DOMAIN c})
    BY <1>1, <2>1, SeqDef
  <2>3. QED
    BY <2>2 DEF IsList
<1>4. o \in [DOMAIN w -> {m}] /\ \A i \in DOMAIN w : o[i] = m
  OBVIOUS
<1> HIDE DEF w, o
<1>5. \A b : DOMAIN <<b>> = {1} /\ <<b>>[1] = b
  OBVIOUS
<1>6. \A i, k : Sent(w, i, k) => i \in DOMAIN c /\ k = 1 /\ w[i].parts[k] = c[i] /\ Said(h, m, i)
  BY <1>2, <1>5 DEF Sent, Said
<1>7. \A i : Said(h, m, i) => i \in DOMAIN c /\ Sent(w, i, 1) /\ w[i].parts[1] = c[i]
  BY <1>2, <1>5 DEF Sent, Said
<1>8. Carried(w, h, {m}, o)
  <2>1. \A i, k : Sent(w, i, k) => \E l : Said(h, o[i], l) /\ w[i].parts[k] = h[o[i]].content[l]
    BY <1>2, <1>4, <1>6
  <2>2. \A n, l : n \in {m} /\ Said(h, n, l) =>
          \E i, k : Sent(w, i, k) /\ o[i] = n /\ w[i].parts[k] = h[n].content[l]
    BY <1>2, <1>4, <1>7
  <2>3. \A i, k, j, l : Sent(w, i, k) /\ Sent(w, j, l) /\ w[i].parts[k] = w[j].parts[l] => i = j /\ k = l
    BY <1>6 DEF Rearranged
  <2>4. \A i, j \in DOMAIN w : o[i] <= o[j]
    BY <1>4
  <2>5. \A i \in DOMAIN w : w[i].role # "assistant" /\ h[o[i]].role # "assistant"
    BY <1>2, <1>4
  <2>6. QED
    BY <1>3, <1>4, <2>1, <2>2, <2>3, <2>4, <2>5 DEF Carried
<1>9. QED
  BY <1>8 DEF Carries, w

\* A conversation that is sent message by message.
LEMMA CarriesAll ==
  ASSUME NEW h, NEW w, IsList(h), IsList(w), Len(w) = Len(h),
         \A i \in DOMAIN h : Carries(<<w[i]>>, h, {i})
  PROVE  Carries(w, h, DOMAIN h)
<1> DEFINE o == [i \in DOMAIN w |-> i]
<1>1. DOMAIN w = DOMAIN h /\ \A i \in DOMAIN h : i \in Nat
  BY ListFacts
<1>2. o \in [DOMAIN w -> DOMAIN h] /\ \A i \in DOMAIN w : o[i] = i
  BY <1>1
<1> HIDE DEF o
<1>3. ASSUME NEW i \in DOMAIN h
      PROVE  /\ w[i].role = "assistant" <=> h[i].role = "assistant"
             /\ \A k : Sent(w, i, k) => \E l : Said(h, i, l) /\ w[i].parts[k] = h[i].content[l]
             /\ \A l : Said(h, i, l) => \E k : Sent(w, i, k) /\ w[i].parts[k] = h[i].content[l]
             /\ \A k, l : Sent(w, i, k) /\ Sent(w, i, l) /\ w[i].parts[k] = w[i].parts[l] => k = l
  <2> DEFINE u == <<w[i]>>
  <2>1. PICK a : Carried(u, h, {i}, a)
    BY DEF Carries
  <2>2. DOMAIN u = {1} /\ u[1] = w[i]
    OBVIOUS
  <2> HIDE DEF u
  <2>3. a[1] = i
    BY <2>1, <2>2 DEF Carried
  <2>4. \A j, k : Sent(u, j, k) <=> j = 1 /\ Sent(w, i, k)
    BY <1>1, <2>2 DEF Sent
  <2>5. w[i].role = "assistant" <=> h[i].role = "assistant"
    BY <2>1, <2>2, <2>3 DEF Carried
  <2>6. ASSUME NEW k, Sent(w, i, k)
        PROVE  \E l : Said(h, i, l) /\ w[i].parts[k] = h[i].content[l]
    <3>1. Sent(u, 1, k)
      BY <2>4, <2>6
    <3>2. \E l : Said(h, a[1], l) /\ u[1].parts[k] = h[a[1]].content[l]
      BY <2>1, <3>1 DEF Carried
    <3>3. QED
      BY <2>2, <2>3, <3>2
  <2>7. ASSUME NEW l, Said(h, i, l)
        PROVE  \E k : Sent(w, i, k) /\ w[i].parts[k] = h[i].content[l]
    <3>1. PICK j, k : Sent(u, j, k) /\ u[j].parts[k] = h[i].content[l]
      BY <2>1, <2>7 DEF Carried
    <3>2. QED
      BY <2>2, <2>4, <3>1
  <2>8. ASSUME NEW k, NEW l, Sent(w, i, k), Sent(w, i, l), w[i].parts[k] = w[i].parts[l]
        PROVE  k = l
    <3>1. Sent(u, 1, k) /\ Sent(u, 1, l) /\ u[1].parts[k] = u[1].parts[l]
      BY <2>2, <2>4, <2>8
    <3>2. a[1] = a[1]
      OBVIOUS
    <3>3. \A x, k1, y, l1 :
            Sent(u, x, k1) /\ Sent(u, y, l1) /\ a[x] = a[y] /\ u[x].parts[k1] = u[y].parts[l1] =>
              x = y /\ k1 = l1
      BY <2>1 DEF Carried
    <3>4. QED
      BY <3>1, <3>2, <3>3
  <2>9. QED
    BY <2>5, <2>6, <2>7, <2>8
<1>4. \A i, k : Sent(w, i, k) => i \in DOMAIN h
  BY <1>1 DEF Sent
<1>5. \A m, l : m \in DOMAIN h /\ Said(h, m, l) =>
        \E i, k : Sent(w, i, k) /\ o[i] = m /\ w[i].parts[k] = h[m].content[l]
  BY <1>1, <1>2, <1>3
<1>6. \A i, k : Sent(w, i, k) => \E l : Said(h, o[i], l) /\ w[i].parts[k] = h[o[i]].content[l]
  BY <1>1, <1>2, <1>3, <1>4
<1>7. \A i, k, j, l :
        Sent(w, i, k) /\ Sent(w, j, l) /\ o[i] = o[j] /\ w[i].parts[k] = w[j].parts[l] =>
          i = j /\ k = l
  BY <1>1, <1>2, <1>3, <1>4
<1>8. Carried(w, h, DOMAIN h, o)
  BY <1>1, <1>2, <1>3, <1>5, <1>6, <1>7 DEF Carried
<1>9. QED
  BY <1>8 DEF Carries

-----------------------------------------------------------------------------
(* A message of the runs of query(): text, the calls of a turn, or their     *)
(* results.  Every adapter carries it.                                      *)

Encodable(m) ==
  /\ IsList(m.content) /\ m.content # <<>> /\ Rearranged(m.content, m.content)
  /\ \E kind \in {"text", "use", "result"} :
       /\ \A k \in DOMAIN m.content : m.content[k].kind = kind
       /\ m.role \in {"user", "assistant"}
       /\ (kind = "use" => m.role = "assistant") /\ (kind = "result" => m.role = "user")

\* A list of nothing.
LEMMA NoElements ==
  ASSUME NEW f, IsList(f), DOMAIN f = {}
  PROVE  f = <<>>
<1>1. Len(f) = 0
  <2>1. Len(f) \in Nat /\ DOMAIN f = 1 .. Len(f)
    BY ListFacts
  <2>2. Len(f) >= 1 => 1 \in 1 .. Len(f)
    BY <2>1
  <2>3. QED
    BY <2>1, <2>2
<1>2. QED
  BY <1>1, EmptyIsList, SameList

\* Reverse and ToolMessages go through the list once.
LEMMA Turned ==
  ASSUME NEW c, IsList(c), Rearranged(c, c)
  PROVE  IsList(Reverse(c)) /\ DOMAIN Reverse(c) = DOMAIN c /\ Rearranged(Reverse(c), c)
<1> DEFINE r == Reverse(c)
<1>1. Len(c) \in Nat /\ DOMAIN c = 1 .. Len(c)
  BY ListFacts
<1>2. r = [i \in 1 .. Len(c) |-> c[(Len(c) - i) + 1]]
  BY DEF Reverse
<1>3. DOMAIN r = 1 .. Len(c) /\ \A i \in 1 .. Len(c) : r[i] = c[(Len(c) - i) + 1]
  BY <1>2
<1>4. IsList(r)
  <2>1. r \in [1 .. Len(c) -> {r[i] : i \in 1 .. Len(c)}]
    BY <1>2
  <2>2. r \in Seq({r[i] : i \in 1 .. Len(c)})
    BY <1>1, <2>1, SeqDef
  <2>3. QED
    BY <2>2 DEF IsList
<1> HIDE DEF r
<1>5. \A i \in 1 .. Len(c) :
        (Len(c) - i) + 1 \in 1 .. Len(c) /\ (Len(c) - ((Len(c) - i) + 1)) + 1 = i
  BY <1>1
<1>6. \A k \in DOMAIN r : \E l \in DOMAIN c : r[k] = c[l]
  BY <1>1, <1>3, <1>5
<1>7. \A l \in DOMAIN c : \E k \in DOMAIN r : r[k] = c[l]
  BY <1>1, <1>3, <1>5
<1>8. ASSUME NEW k \in DOMAIN r, NEW l \in DOMAIN r, r[k] = r[l] PROVE k = l
  <2>1. (Len(c) - k) + 1 = (Len(c) - l) + 1
    BY <1>1, <1>3, <1>5, <1>8 DEF Rearranged
  <2>2. k \in Int /\ l \in Int
    BY <1>1, <1>3
  <2>3. QED
    BY <1>1, <2>1, <2>2
<1>9. QED
  BY <1>1, <1>3, <1>4, <1>6, <1>7, <1>8 DEF Rearranged, r

LEMMA NothingTurned == Reverse(<<>>) = <<>> /\ ToolMessages(<<>>) = <<>>
<1>1. Reverse(<<>>) = <<>>
  <2>1. Rearranged(<<>>, <<>>) /\ DOMAIN <<>> = {}
    BY DEF Rearranged
  <2>2. QED
    BY <2>1, EmptyIsList, Turned, NoElements
<1>2. ToolMessages(<<>>) = <<>>
  BY DEF ToolMessages
<1>3. QED
  BY <1>1, <1>2

LEMMA CarriedByAnthropic ==
  ASSUME NEW h, NEW m \in Nat, m \in DOMAIN h, Encodable(h[m])
  PROVE  Carries(<<AnthropicMessage(h[m])>>, h, {m})
BY CarriesWhole DEF AnthropicMessage, Encodable

LEMMA CarriedByOllama ==
  ASSUME NEW h, NEW m \in Nat, m \in DOMAIN h, Encodable(h[m])
  PROVE  Carries(<<OllamaMessage(h[m])>>, h, {m})
<1> DEFINE c == h[m].content
<1>1. PICK kind \in {"text", "use", "result"} :
        /\ \A k \in DOMAIN c : c[k].kind = kind
        /\ kind = "result" => h[m].role = "user"
  BY DEF Encodable
<1>2. \A other : Of({other}, c) = IF other = kind THEN c ELSE <<>>
  <2>1. IsList(c)
    BY DEF Encodable
  <2>2. \A k \in DOMAIN c : c[k].kind = kind
    BY <1>1
  <2> HIDE DEF c
  <2>3. ASSUME NEW x PROVE Of({x}, c) = IF x = kind THEN c ELSE <<>>
    <3>1. CASE x = kind
      BY <2>1, <2>2, <3>1, Filtered
    <3>2. CASE x # kind
      BY <2>1, <2>2, <3>2, Filtered
    <3>3. QED
      BY <3>1, <3>2
  <2>4. QED
    BY <2>3
<1>3. c \o <<>> = c /\ <<>> \o c = c
  BY JoinsEmpty DEF Encodable
<1>4. h[m].role = "assistant" => Of({"text"}, c) \o Of({"use"}, c) = c
  BY <1>1, <1>2, <1>3
<1>5. OllamaMessage(h[m]) = Wire(h[m].role, c)
  BY <1>4 DEF OllamaMessage
<1>6. QED
  BY <1>5, CarriesWhole DEF Encodable

LEMMA CarriedByOpenai ==
  ASSUME NEW h, NEW m \in Nat, m \in DOMAIN h, Encodable(h[m]), NEW path
  PROVE  Carries(OpenaiMessage(h[m], path), h, {m})
<1> DEFINE c == h[m].content
<1>1. PICK kind \in {"text", "use", "result"} :
        /\ \A k \in DOMAIN c : c[k].kind = kind
        /\ h[m].role \in {"user", "assistant"}
        /\ (kind = "use" => h[m].role = "assistant") /\ (kind = "result" => h[m].role = "user")
  BY DEF Encodable
<1>2. \A other : Of({other}, c) = IF other = kind THEN c ELSE <<>>
  <2>1. IsList(c)
    BY DEF Encodable
  <2>2. \A k \in DOMAIN c : c[k].kind = kind
    BY <1>1
  <2> HIDE DEF c
  <2>3. ASSUME NEW x PROVE Of({x}, c) = IF x = kind THEN c ELSE <<>>
    <3>1. CASE x = kind
      BY <2>1, <2>2, <3>1, Filtered
    <3>2. CASE x # kind
      BY <2>1, <2>2, <3>2, Filtered
    <3>3. QED
      BY <3>1, <3>2
  <2>4. QED
    BY <2>3
<1>3. IsList(c) /\ c # <<>> /\ Rearranged(c, c)
  BY DEF Encodable
<1>4. /\ c \o <<>> = c /\ <<>> \o c = c /\ <<>> \o <<>> = <<>>
      /\ Reverse(c) \o <<>> = Reverse(c) /\ ToolMessages(c) \o <<>> = ToolMessages(c)
  <2>1. IsList(ToolMessages(c))
    <3>1. Len(c) \in Nat /\ DOMAIN c = 1 .. Len(c)
      BY <1>3, ListFacts
    <3> DEFINE w == ToolMessages(c)
    <3>2. w \in [1 .. Len(c) -> {w[i] : i \in 1 .. Len(c)}]
      BY <3>1 DEF ToolMessages
    <3>3. w \in Seq({w[i] : i \in 1 .. Len(c)})
      BY <3>1, <3>2, SeqDef
    <3>4. QED
      BY <3>3 DEF IsList
  <2>2. QED
    BY <1>3, <2>1, EmptyIsList, JoinsEmpty, Turned
<1>5. CASE h[m].role = "assistant"
  <2>1. Of({"text"}, c) \o Of({"use"}, c) = c
    BY <1>1, <1>2, <1>4, <1>5
  <2>2. (IF path = "A" THEN <<>> ELSE Of({"thinking"}, c)) = <<>>
    BY <1>1, <1>2
  <2>3. (IF path = "A" THEN <<>> ELSE Of({"thinking"}, c)) \o Of({"text"}, c) \o Of({"use"}, c) = c
    BY <1>1, <1>2, <1>4, <1>5, <2>2
  <2>4. OpenaiMessage(h[m], path) = <<Wire("assistant", c)>>
    BY <1>5, <2>3 DEF OpenaiMessage, OpenaiAssistant
  <2>5. QED
    BY <1>3, <1>5, <2>4, CarriesWhole
<1>6. CASE h[m].role # "assistant" /\ kind = "text"
  <2>1. Of({"result"}, c) = <<>> /\ Of({"text"}, c) \o Of({"image"}, c) = c
    BY <1>2, <1>4, <1>6
  <2>2. Reverse(Of({"result"}, c)) \o (Of({"text"}, c) \o Of({"image"}, c)) = c
    BY <1>4, <2>1, NothingTurned
  <2>3. ToolMessages(Of({"result"}, c)) = <<>>
    BY <2>1, NothingTurned
  <2>4. <<>> \o <<Wire("user", c)>> = <<Wire("user", c)>>
    BY JoinsEmpty, OneIsList
  <2>5. OpenaiMessage(h[m], path) = <<Wire("user", c)>>
    BY <1>3, <1>6, <2>1, <2>2, <2>3, <2>4 DEF OpenaiMessage, OpenaiUser
  <2>6. QED
    BY <1>3, <1>6, <2>5, CarriesWhole
<1>7. CASE h[m].role # "assistant" /\ kind = "result"
  <2>1. Of({"result"}, c) = c /\ Of({"text"}, c) \o Of({"image"}, c) = <<>>
    BY <1>2, <1>4, <1>7
  <2>2. CASE path = "A"
    <3>1. OpenaiMessage(h[m], path) = ToolMessages(c)
      BY <1>4, <1>7, <2>1, <2>2 DEF OpenaiMessage, OpenaiUser
    <3>2. QED
      BY <1>3, <1>7, <3>1, CarriesEach
  <2>3. CASE path # "A"
    <3>1. Reverse(c) # <<>>
      <4>1. DOMAIN Reverse(c) = DOMAIN c /\ DOMAIN <<>> = {}
        BY <1>3, Turned
      <4>2. QED
        BY <1>3, <4>1, NoElements
    <3>2. <<>> \o <<Wire("user", Reverse(c))>> = <<Wire("user", Reverse(c))>>
      BY JoinsEmpty, OneIsList
    <3>3. OpenaiMessage(h[m], path) = <<Wire("user", Reverse(c))>>
      BY <1>4, <1>7, <2>1, <2>3, <3>1, <3>2 DEF OpenaiMessage, OpenaiUser
    <3>4. QED
      BY <1>3, <1>7, <3>3, CarriesWhole, Turned
  <2>4. QED
    BY <2>2, <2>3
<1>8. QED
  BY <1>1, <1>5, <1>6, <1>7

-----------------------------------------------------------------------------
(* The requests of the adapters carry the conversation.                     *)

\* OpenaiMessages, over the conversation c.body.
SendSteps(c) == Len(c.body)
SendStart(c) == <<>>
SendStep(c, x, n) == x \o OpenaiMessage(c.body[n], c.path)
SendHolds(c, x, n) == Carries(x, c.body, 1 .. n)
Sending == INSTANCE Unfolding
  WITH Steps <- SendSteps, Start <- SendStart, Step <- SendStep, Holds <- SendHolds

\* What carries nothing of nothing.
LEMMA CarriesNone ==
  ASSUME NEW h
  PROVE  Carries(<<>>, h, {})
<1> DEFINE o == [i \in {} |-> i]
<1>1. o \in [DOMAIN <<>> -> {}]
  OBVIOUS
<1> HIDE DEF o
<1>2. \A i, k : ~Sent(<<>>, i, k)
  BY EmptyIsList DEF Sent
<1>3. Carried(<<>>, h, {}, o)
  BY <1>1, <1>2, EmptyIsList DEF Carried
<1>4. QED
  BY <1>3 DEF Carries

LEMMA CarriedByOpenaiMessages ==
  ASSUME NEW h, IsList(h), \A i \in DOMAIN h : Encodable(h[i]), NEW path
  PROVE  Carries(OpenaiMessages(h, path), h, DOMAIN h)
<1> DEFINE c == [body |-> h, path |-> path]
           F(f) == [n \in 0 .. Len(h) |->
                      IF n = 0 THEN <<>> ELSE f[n - 1] \o OpenaiMessage(h[n], path)]
           m == CHOOSE f : f = F(f)
<1>1. c.body = h /\ c.path = path
  OBVIOUS
<1>2. Len(h) \in Nat /\ DOMAIN h = 1 .. Len(h)
  BY ListFacts
<1> HIDE DEF c
<1>3. m = [n \in 0 .. SendSteps(c) |-> Sending!Value(c, m, n)]
  <2>1. \E f : f = [n \in 0 .. SendSteps(c) |-> Sending!Value(c, f, n)]
    BY <1>1, <1>2, Sending!Exists DEF SendSteps
  <2>2. ASSUME NEW f PROVE F(f) = [n \in 0 .. SendSteps(c) |-> Sending!Value(c, f, n)]
    BY <1>1 DEF Sending!Value, SendSteps, SendStart, SendStep
  <2> HIDE DEF F
  <2>3. QED
    BY <2>1, <2>2
<1>4. OpenaiMessages(h, path) = m[Len(h)]
  BY DEF OpenaiMessages
<1> HIDE DEF m
<1>5. SendHolds(c, SendStart(c), 0)
  <2>1. 1 .. 0 = {}
    OBVIOUS
  <2>2. QED
    BY <2>1, CarriesNone DEF SendHolds, SendStart
<1>6. ASSUME NEW x, NEW n \in 1 .. SendSteps(c), SendHolds(c, x, n - 1)
      PROVE  SendHolds(c, SendStep(c, x, n), n)
  <2>1. /\ n \in DOMAIN h /\ n \in Nat /\ 1 .. n = (1 .. n - 1) \cup {n} /\ 1 .. n - 1 \subseteq Nat
        /\ \A i \in 1 .. n - 1, j \in {n} : i < j
    BY <1>1, <1>2 DEF SendSteps
  <2>2. Carries(x, h, 1 .. n - 1)
    BY <1>1, <1>6 DEF SendHolds
  <2>3. Carries(OpenaiMessage(h[n], path), h, {n})
    BY <2>1, CarriedByOpenai
  <2>4. Carries(x \o OpenaiMessage(h[n], path), h, 1 .. n)
    <3> DEFINE y == OpenaiMessage(h[n], path)
    <3>1. Carries(y, h, {n})
      BY <2>3
    <3> HIDE DEF y
    <3>2. Carries(x \o y, h, (1 .. n - 1) \cup {n})
      BY <2>1, <2>2, <3>1, CarriesBoth
    <3>3. QED
      BY <2>1, <3>2 DEF y
  <2>5. QED
    BY <1>1, <2>4 DEF SendHolds, SendStep
<1>7. SendHolds(c, m[SendSteps(c)], SendSteps(c))
  BY <1>1, <1>2, <1>3, <1>5, <1>6, Sending!Holding DEF SendSteps
<1>8. QED
  BY <1>1, <1>2, <1>4, <1>7 DEF SendHolds, SendSteps

\* The system message stands in front, and is no message of the conversation.
LEMMA CarriesSystem ==
  ASSUME NEW h, IsList(h), NEW parts, \A k \in DOMAIN parts : parts[k].kind \notin {"use", "result"},
         NEW w, Carries(w, h, DOMAIN h)
  PROVE  Carries(SystemMessage(parts) \o w, h, {0} \cup DOMAIN h)
<1>1. /\ 0 \notin DOMAIN h /\ {0} \in SUBSET Nat /\ DOMAIN h \in SUBSET Nat
      /\ \A i \in {0}, j \in DOMAIN h : i < j
  BY ListFacts
<1> DEFINE s == SystemMessage(parts)
<1>2. IsList(s) /\ \A i \in DOMAIN s : s[i].role = "system" /\ s[i].parts = parts
  <2>1. CASE parts = <<>>
    BY <2>1, EmptyIsList DEF SystemMessage
  <2>2. CASE parts # <<>>
    <3> DEFINE a == Wire("system", parts)
    <3>1. s = <<a>> /\ a.role = "system" /\ a.parts = parts
      BY <2>2 DEF SystemMessage, Wire
    <3> HIDE DEF a, s
    <3>2. QED
      BY <3>1, OneIsList
  <2>3. QED
    BY <2>1, <2>2
<1> HIDE DEF s
<1>3. Carries(s, h, {0})
  <2>1. \A i, k : ~Sent(s, i, k)
    BY <1>2 DEF Sent
  <2>2. \A l : ~Said(h, 0, l)
    BY <1>1 DEF Said
  <2>3. \A i \in DOMAIN s : s[i].role # "assistant"
    BY <1>2
  <2>4. QED
    BY <1>1, <1>2, <2>1, <2>2, <2>3, CarriesNothing
<1>4. Carries(s \o w, h, {0} \cup DOMAIN h)
  BY <1>1, <1>3, CarriesBoth
<1>5. QED
  BY <1>4 DEF s

LEMMA SystemIsText ==
  ASSUME NEW system \in Seq({Text}), NEW path, NEW tools
  PROVE  LET parts == system \o ToolProtocol(path, tools) IN
         \A k \in DOMAIN parts : parts[k].kind \notin {"use", "result"}
<1> DEFINE t == ToolProtocol(path, tools)
           parts == system \o t
<1>1. t \in Seq({Protocol})
  <2> DEFINE a == Protocol
  <2>1. t = <<>> \/ t = <<a>>
    BY DEF ToolProtocol
  <2> HIDE DEF a, t
  <2>2. <<>> \in Seq({a}) /\ <<a>> \in Seq({a})
    OBVIOUS
  <2>3. t \in Seq({a})
    BY <2>1, <2>2
  <2>4. QED
    BY <2>3 DEF a
<1>2. Text.kind \notin {"use", "result"} /\ Protocol.kind \notin {"use", "result"}
  BY DEF Text, Protocol
<1> HIDE DEF t
<1>3. parts \in Seq({Text, Protocol})
  <2>1. system \in Seq({Text, Protocol}) /\ t \in Seq({Text, Protocol})
    BY <1>1, SeqMonotonic
  <2>2. QED
    BY <2>1, ConcatProperties
<1> HIDE DEF parts
<1>4. \A k \in DOMAIN parts : parts[k] \in {Text, Protocol}
  BY <1>3, ElementOfSeq, LenProperties
<1>5. \A k \in DOMAIN parts : parts[k].kind \notin {"use", "result"}
  BY <1>2, <1>4
<1>6. QED
  BY <1>5 DEF parts, t

LEMMA MappedList ==
  ASSUME NEW h, IsList(h), NEW w, w = [i \in DOMAIN h |-> w[i]]
  PROVE  IsList(w) /\ Len(w) = Len(h)
<1>1. Len(h) \in Nat /\ DOMAIN h = 1 .. Len(h)
  BY ListFacts
<1> DEFINE S == {w[i] : i \in DOMAIN h}
<1>2. w \in [1 .. Len(h) -> S]
  BY <1>1
<1> HIDE DEF S
<1>3. w \in Seq(S) /\ Len(w) = Len(h)
  <2>1. w \in Seq(S)
    BY <1>1, <1>2, SeqDef
  <2>2. QED
    BY <1>1, <1>2, <2>1, LenProperties
<1>4. QED
  BY <1>3 DEF IsList

LEMMA RequestCarries ==
  ASSUME NEW a, a.system \in Seq({Text}),
         NEW h, IsList(h), \A i \in DOMAIN h : Encodable(h[i])
  PROVE  Carries(Request(a, h).messages, h, {0} \cup DOMAIN h)
<1>1. \A i \in DOMAIN h : i \in Nat
  BY ListFacts
<1>2. \A i \in DOMAIN h : h[i].role # "system"
  BY DEF Encodable
<1>3. SplitSystem(h).body = h /\ SplitSystem(h).system = <<>>
  BY <1>2, SplitKeeps
<1>4. CASE a.provider = "ollama"
  <2> DEFINE w == [i \in DOMAIN h |-> OllamaMessage(h[i])]
             p == a.system \o ToolProtocol(a.path, a.tools)
  <2>1. Request(a, h).messages = SystemMessage(p) \o w
    BY <1>4 DEF Request, OllamaRequest
  <2>2. ASSUME NEW i \in DOMAIN h PROVE Carries(<<w[i]>>, h, {i})
    <3>1. w[i] = OllamaMessage(h[i]) /\ i \in Nat /\ Encodable(h[i])
      BY <1>1
    <3>2. Carries(<<OllamaMessage(h[i])>>, h, {i})
      BY <3>1, CarriedByOllama
    <3> HIDE DEF w
    <3>3. QED
      BY <3>1, <3>2
  <2>3. IsList(w) /\ Len(w) = Len(h)
    BY MappedList
  <2>4. \A k \in DOMAIN p : p[k].kind \notin {"use", "result"}
    BY SystemIsText
  <2> HIDE DEF w, p
  <2>5. Carries(w, h, DOMAIN h)
    BY <2>2, <2>3, CarriesAll
  <2>6. QED
    BY <2>1, <2>4, <2>5, CarriesSystem
<1>5. CASE a.provider = "anthropic_passthrough"
  <2> DEFINE w == [i \in DOMAIN h |-> AnthropicMessage(h[i])]
  <2>1. Request(a, h).messages = w
    BY <1>3, <1>5 DEF Request, AnthropicRequest
  <2>2. ASSUME NEW i \in DOMAIN h PROVE Carries(<<w[i]>>, h, {i})
    <3>1. w[i] = AnthropicMessage(h[i]) /\ i \in Nat /\ Encodable(h[i])
      BY <1>1
    <3>2. Carries(<<AnthropicMessage(h[i])>>, h, {i})
      BY <3>1, CarriedByAnthropic
    <3> HIDE DEF w
    <3>3. QED
      BY <3>1, <3>2
  <2>3. IsList(w) /\ Len(w) = Len(h)
    BY MappedList
  <2> HIDE DEF w
  <2>4. Carries(w, h, DOMAIN h)
    BY <2>2, <2>3, CarriesAll
  <2>5. \A k \in DOMAIN <<>> : <<>>[k].kind \notin {"use", "result"}
    BY EmptyIsList
  <2>6. Carries(SystemMessage(<<>>) \o w, h, {0} \cup DOMAIN h)
    BY <2>4, <2>5, CarriesSystem
  <2>7. SystemMessage(<<>>) \o w = w
    BY <2>3, JoinsEmpty DEF SystemMessage
  <2>8. QED
    BY <2>1, <2>6, <2>7
<1>6. CASE a.provider # "ollama" /\ a.provider # "anthropic_passthrough"
  <2> DEFINE w == OpenaiMessages(h, a.path)
             p == a.system \o ToolProtocol(a.path, a.tools)
  <2>1. a.system \o <<>> = a.system
    BY JoinsEmpty DEF IsList
  <2>2. Request(a, h).messages = SystemMessage(p) \o w
    BY <1>3, <1>6, <2>1 DEF Request, OpenaiRequest
  <2>3. Carries(w, h, DOMAIN h)
    BY CarriedByOpenaiMessages
  <2>4. \A k \in DOMAIN p : p[k].kind \notin {"use", "result"}
    BY SystemIsText
  <2> HIDE DEF w, p
  <2>5. QED
    BY <2>2, <2>3, <2>4, CarriesSystem
<1>7. QED
  BY <1>4, <1>5, <1>6

-----------------------------------------------------------------------------
(* A conversation that answers each call in the next message, in the same   *)
(* place, is answered in whatever carries it.                               *)

Block(h, kind, m, l) ==
  m \in DOMAIN h /\ l \in DOMAIN h[m].content /\ h[m].content[l].kind = kind
SameBlock(h, m, l, n, k) == h[m].content[l].id = h[n].content[k].id

Regular(h) ==
  /\ IsList(h) /\ \A i \in DOMAIN h : Encodable(h[i])
  /\ \A m, l : Block(h, "use", m, l) =>
       /\ Block(h, "result", m + 1, l) /\ SameBlock(h, m, l, m + 1, l)
       /\ h[m].role = "assistant" /\ h[m + 1].role # "assistant"
  /\ \A m, l : Block(h, "result", m, l) => Block(h, "use", m - 1, l)
  /\ \A kind \in {"use", "result"} : \A m, l, n, k :
       Block(h, kind, m, l) /\ Block(h, kind, n, k) /\ SameBlock(h, m, l, n, k) => m = n /\ l = k

\* A part of a message, as Where finds it.
LEMMA WhereMeans ==
  ASSUME NEW w, NEW kind \in {"use", "result"}
  PROVE  /\ \A p \in Where(w, kind) :
              /\ p = <<p[1], p[2]>> /\ Sent(w, p[1], p[2])
              /\ w[p[1]].parts[p[2]].kind = kind
         /\ \A i, k : Sent(w, i, k) /\ w[i].parts[k].kind = kind => <<i, k>> \in Where(w, kind)
BY DEF Where, Sent

LEMMA RegularIsAnswered ==
  ASSUME NEW h, Regular(h), NEW w, Carries(w, h, {0} \cup DOMAIN h)
  PROVE  AnsweredOnce(w)
<1>1. PICK o : Carried(w, h, {0} \cup DOMAIN h, o)
  BY DEF Carries
<1>2. /\ \A i \in DOMAIN h : i \in Nat
      /\ \A i \in DOMAIN w : i \in Nat /\ o[i] \in Nat
      /\ \A i, j \in Nat : i <= j /\ j \in DOMAIN w /\ 1 <= i => i \in DOMAIN w
  <2>1. o \in [DOMAIN w -> {0} \cup DOMAIN h] /\ IsList(w) /\ IsList(h)
    BY <1>1 DEF Carried, Regular
  <2>2. DOMAIN h = 1 .. Len(h) /\ DOMAIN w = 1 .. Len(w) /\ Len(h) \in Nat /\ Len(w) \in Nat
    BY <2>1, ListFacts
  <2>3. QED
    BY <2>1, <2>2
\* Where a part comes from.
<1>3. ASSUME NEW kind \in {"use", "result"}, NEW p \in Where(w, kind)
      PROVE  /\ Sent(w, p[1], p[2]) /\ p = <<p[1], p[2]>> /\ p[1] \in DOMAIN w
             /\ \E l : /\ Block(h, kind, o[p[1]], l)
                       /\ w[p[1]].parts[p[2]] = h[o[p[1]]].content[l]
                       /\ IdAt(w, p) = h[o[p[1]]].content[l].id
  <2>1. p = <<p[1], p[2]>> /\ Sent(w, p[1], p[2]) /\ w[p[1]].parts[p[2]].kind = kind
    BY WhereMeans
  <2> DEFINE i == p[1]
             k == p[2]
  <2>2. Sent(w, i, k) /\ w[i].parts[k].kind = kind /\ IdAt(w, p) = w[i].parts[k].id
    BY <2>1 DEF IdAt
  <2>3. p = <<i, k>>
    BY <2>1
  <2> HIDE DEF i, k
  <2>4. PICK l : Said(h, o[i], l) /\ w[i].parts[k] = h[o[i]].content[l]
    BY <1>1, <2>2 DEF Carried
  <2>5. Block(h, kind, o[i], l) /\ IdAt(w, p) = h[o[i]].content[l].id /\ i \in DOMAIN w
    BY <2>2, <2>4 DEF Said, Block, Sent
  <2>6. QED
    BY <2>2, <2>3, <2>4, <2>5 DEF i, k
\* Where a block goes.
<1>4. ASSUME NEW kind \in {"use", "result"}, NEW m, NEW l, Block(h, kind, m, l)
      PROVE  \E p \in Where(w, kind) : o[p[1]] = m /\ IdAt(w, p) = h[m].content[l].id
  <2>1. m \in {0} \cup DOMAIN h /\ Said(h, m, l) /\ h[m].content[l].kind = kind
    BY <1>4 DEF Block, Said
  <2>2. PICK i, k : Sent(w, i, k) /\ o[i] = m /\ w[i].parts[k] = h[m].content[l]
    BY <1>1, <2>1 DEF Carried
  <2>3. <<i, k>> \in Where(w, kind)
    BY <2>1, <2>2, WhereMeans
  <2>4. IdAt(w, <<i, k>>) = h[m].content[l].id /\ o[<<i, k>>[1]] = m
    BY <2>2 DEF IdAt
  <2>5. QED
    BY <2>3, <2>4
\* No id is sent twice.
<1>5. ASSUME NEW kind \in {"use", "result"}, NEW p \in Where(w, kind), NEW q \in Where(w, kind),
             IdAt(w, p) = IdAt(w, q)
      PROVE  p = q
  <2>1. PICK l : /\ Block(h, kind, o[p[1]], l) /\ w[p[1]].parts[p[2]] = h[o[p[1]]].content[l]
                 /\ IdAt(w, p) = h[o[p[1]]].content[l].id
    BY <1>3
  <2>2. PICK k : /\ Block(h, kind, o[q[1]], k) /\ w[q[1]].parts[q[2]] = h[o[q[1]]].content[k]
                 /\ IdAt(w, q) = h[o[q[1]]].content[k].id
    BY <1>3
  <2>3. o[p[1]] = o[q[1]] /\ l = k
    <3>1. \A m, a, n, b :
            Block(h, kind, m, a) /\ Block(h, kind, n, b) /\ SameBlock(h, m, a, n, b) => m = n /\ a = b
      BY DEF Regular
    <3>2. SameBlock(h, o[p[1]], l, o[q[1]], k)
      BY <1>5, <2>1, <2>2 DEF SameBlock
    <3>3. QED
      BY <2>1, <2>2, <3>1, <3>2
  <2>4. w[p[1]].parts[p[2]] = w[q[1]].parts[q[2]]
    BY <2>1, <2>2, <2>3
  <2>5. Sent(w, p[1], p[2]) /\ Sent(w, q[1], q[2]) /\ p = <<p[1], p[2]>> /\ q = <<q[1], q[2]>>
    BY <1>3
  <2>6. p[1] = q[1] /\ p[2] = q[2]
    BY <1>1, <2>3, <2>4, <2>5 DEF Carried
  <2>7. QED
    BY <2>5, <2>6
\* A result of the message after the call answers it.
<1>6. ASSUME NEW p \in Where(w, "use"), NEW q \in Where(w, "result"),
             IdAt(w, q) = IdAt(w, p), o[q[1]] = o[p[1]] + 1
      PROVE  Answers(w, q, p)
  <2> DEFINE m == o[p[1]]
  <2>1. p[1] \in DOMAIN w /\ q[1] \in DOMAIN w /\ p[1] \in Nat /\ q[1] \in Nat /\ m \in Nat
    BY <1>2, <1>3
  <2>2. h[m].role = "assistant" /\ h[m + 1].role # "assistant" /\ m \in DOMAIN h
    <3>1. PICK l : Block(h, "use", m, l)
      BY <1>3
    <3>2. QED
      BY <3>1 DEF Regular, Block
  <2>3. p[1] < q[1]
    <3>1. CASE q[1] <= p[1]
      <4>1. o[q[1]] <= o[p[1]]
        BY <1>1, <2>1, <3>1 DEF Carried
      <4>2. QED
        BY <1>6, <2>1, <4>1
    <3>2. QED
      BY <2>1, <3>1
  <2>4. ASSUME NEW j \in p[1] + 1 .. q[1], w[j].role = "assistant"
        PROVE  FALSE
    <3>1. j \in DOMAIN w /\ p[1] <= j /\ j <= q[1] /\ j # p[1] /\ o[j] \in Nat
      <4>1. j \in Nat /\ 1 <= j /\ p[1] <= j /\ j <= q[1] /\ j # p[1]
        BY <2>1
      <4>2. QED
        BY <1>2, <2>1, <4>1
    <3>2. m <= o[j] /\ o[j] <= m + 1
      <4>1. o[p[1]] <= o[j] /\ o[j] <= o[q[1]]
        BY <1>1, <2>1, <3>1 DEF Carried
      <4>2. QED
        BY <1>6, <4>1
    <3>3. o[j] \in DOMAIN h /\ h[o[j]].role = "assistant"
      BY <1>1, <2>4, <3>1 DEF Carried
    <3>4. o[j] # m + 1
      BY <2>2, <3>3
    <3>5. o[j] = m
      BY <2>1, <3>1, <3>2, <3>4
    <3>6. j = p[1]
      BY <1>1, <2>1, <2>4, <3>1, <3>5 DEF Carried
    <3>7. QED
      BY <3>1, <3>6
  <2>5. QED
    BY <1>6, <2>3, <2>4 DEF Answers
<1>7. ASSUME NEW p \in Where(w, "use")
      PROVE  \E q \in Where(w, "result") : Answers(w, q, p)
  <2>1. PICK l : /\ Block(h, "use", o[p[1]], l)
                 /\ IdAt(w, p) = h[o[p[1]]].content[l].id
    BY <1>3
  <2> DEFINE m == o[p[1]]
  <2>2. Block(h, "result", m + 1, l) /\ h[m + 1].content[l].id = h[m].content[l].id
    BY <2>1 DEF Regular, SameBlock
  <2>3. PICK q \in Where(w, "result") : o[q[1]] = m + 1 /\ IdAt(w, q) = h[m + 1].content[l].id
    BY <1>4, <2>2
  <2>4. QED
    BY <1>6, <2>1, <2>2, <2>3
<1>8. ASSUME NEW q \in Where(w, "result")
      PROVE  \E p \in Where(w, "use") : Answers(w, q, p)
  <2>1. PICK l : /\ Block(h, "result", o[q[1]], l)
                 /\ IdAt(w, q) = h[o[q[1]]].content[l].id
    BY <1>3
  <2> DEFINE m == o[q[1]] - 1
  <2>2. q[1] \in DOMAIN w /\ o[q[1]] \in Nat
    BY <1>2, <1>3
  <2>3. m + 1 = o[q[1]]
    BY <2>2
  <2>4. Block(h, "use", m, l)
    BY <2>1 DEF Regular
  <2> HIDE DEF m
  <2>5. h[m + 1].content[l].id = h[m].content[l].id
    BY <2>4 DEF Regular, SameBlock
  <2>6. PICK p \in Where(w, "use") : o[p[1]] = m /\ IdAt(w, p) = h[m].content[l].id
    BY <1>4, <2>4
  <2>7. IdAt(w, q) = IdAt(w, p) /\ o[q[1]] = o[p[1]] + 1
    BY <2>1, <2>3, <2>5, <2>6
  <2>8. QED
    BY <1>6, <2>7
<1>9. QED
  BY <1>5, <1>7, <1>8 DEF AnsweredOnce

-----------------------------------------------------------------------------
(* The conversation of a run: what it begins with, and then turn by turn the *)
(* calls of the model and their results.                                    *)

Calling(m, t) ==
  /\ m.role = "assistant" /\ IsList(m.content) /\ m.content # <<>>
  /\ \A k \in DOMAIN m.content : m.content[k].kind = "use" /\ m.content[k].id = <<t, k>>
Answering(m, t) ==
  /\ m.role = "user" /\ IsList(m.content) /\ m.content # <<>>
  /\ \A k \in DOMAIN m.content : m.content[k].kind = "result" /\ m.content[k].id = <<t, k>>
Turn(h, i, t) == /\ Calling(h[i], t) /\ Answering(h[i + 1], t)
                 /\ DOMAIN h[i].content = DOMAIN h[i + 1].content

\* h begins with s messages of the user and n turns.
Talk(h, s, n) ==
  /\ s + 2 * n <= Len(h)
  /\ \A i \in 1 .. s : h[i] = Message("user", <<Text>>)
  /\ \A t \in 0 .. n - 1 : Turn(h, s + 2 * t + 1, t)

LEMMA SeedIsEncodable ==
  LET m == Message("user", <<Text>>) IN
  Encodable(m) /\ \A k \in DOMAIN m.content : m.content[k].kind = "text"
<1> DEFINE m == Message("user", <<Text>>)
           c == <<Text>>
<1>1. m.role = "user" /\ m.content = c
  BY DEF Message
<1>2. IsList(c) /\ DOMAIN c = {1} /\ c[1] = Text
  BY OneIsList
<1>3. c # <<>> /\ Text.kind = "text"
  BY <1>2, EmptyIsList DEF Text
<1> HIDE DEF m, c
<1>4. Rearranged(c, c) /\ \A k \in DOMAIN c : c[k].kind = "text"
  BY <1>2, <1>3 DEF Rearranged
<1>5. Encodable(m) /\ \A k \in DOMAIN m.content : m.content[k].kind = "text"
  BY <1>1, <1>2, <1>3, <1>4 DEF Encodable
<1>6. QED
  BY <1>5 DEF m

LEMMA TurnIsEncodable ==
  ASSUME NEW m, NEW t, Calling(m, t) \/ Answering(m, t)
  PROVE  Encodable(m)
<1>1. \A k, l \in DOMAIN m.content : m.content[k] = m.content[l] => k = l
  <2> SUFFICES ASSUME NEW k \in DOMAIN m.content, NEW l \in DOMAIN m.content,
                      m.content[k] = m.content[l]
               PROVE  k = l
    OBVIOUS
  <2>1. m.content[k].id = <<t, k>> /\ m.content[l].id = <<t, l>>
    BY DEF Calling, Answering
  <2>2. <<t, k>> = <<t, l>>
    BY <2>1
  <2>3. QED
    BY <2>2
<1>2. Rearranged(m.content, m.content)
  BY <1>1 DEF Rearranged
<1>3. QED
  BY <1>2 DEF Encodable, Calling, Answering

LEMMA TurnsAreRegular ==
  ASSUME NEW h, IsList(h), NEW s \in Nat, NEW n \in Nat, Talk(h, s, n), Len(h) = s + 2 * n
  PROVE  Regular(h)
<1> DEFINE Asks(t) == s + 2 * t + 1
<1>1. DOMAIN h = 1 .. s + 2 * n
  BY ListFacts
<1>2. ASSUME NEW i \in DOMAIN h
      PROVE  i \in 1 .. s \/ \E t \in 0 .. n - 1 : i = Asks(t) \/ i = Asks(t) + 1
  <2>1. CASE i <= s
    BY <1>1, <2>1
  <2>2. CASE i > s
    <3> DEFINE d == i - s - 1
               t == d \div 2
    <3>1. i \in Nat /\ d \in Nat /\ d < 2 * n
      BY <1>1, <2>2
    <3>2. t \in Nat /\ (d = 2 * t \/ d = 2 * t + 1)
      <4> HIDE DEF d
      <4>1. QED
        BY <3>1
    <3>3. t \in 0 .. n - 1
      <4> HIDE DEF d, t
      <4>1. QED
        BY <3>1, <3>2
    <3>4. i = Asks(t) \/ i = Asks(t) + 1
      <4>1. i = s + d + 1 /\ s \in Nat
        BY <3>1
      <4> HIDE DEF d, t
      <4>2. QED
        BY <3>1, <3>2, <4>1
    <3>5. QED
      BY <3>3, <3>4
  <2>3. QED
    BY <1>1, <2>1, <2>2
<1>3. ASSUME NEW t \in 0 .. n - 1
      PROVE  /\ Turn(h, Asks(t), t) /\ Asks(t) \in DOMAIN h /\ Asks(t) + 1 \in DOMAIN h
             /\ Asks(t) \in Nat /\ (Asks(t) + 1) - 1 = Asks(t)
  BY <1>1 DEF Talk
<1>4. \A i \in 1 .. s : h[i] = Message("user", <<Text>>)
  BY DEF Talk
<1>5. \A t, r \in 0 .. n - 1 : (Asks(t) = Asks(r) => t = r) /\ (Asks(t) + 1 = Asks(r) + 1 => t = r)
  OBVIOUS
<1> HIDE DEF Asks
<1>6. ASSUME NEW i \in DOMAIN h PROVE Encodable(h[i])
  <2>1. CASE i \in 1 .. s
    BY <1>4, <2>1, SeedIsEncodable
  <2>2. CASE \E t \in 0 .. n - 1 : i = Asks(t) \/ i = Asks(t) + 1
    BY <1>3, <2>2, TurnIsEncodable DEF Turn
  <2>3. QED
    BY <1>2, <2>1, <2>2
\* Where the calls are, and where the results.
<1>7. ASSUME NEW kind \in {"use", "result"}, NEW m, NEW l, Block(h, kind, m, l)
      PROVE  \E t \in 0 .. n - 1 :
               /\ m = IF kind = "use" THEN Asks(t) ELSE Asks(t) + 1
               /\ l \in DOMAIN h[Asks(t)].content
               /\ h[m].content[l].id = <<t, l>>
  <2>1. m \in DOMAIN h /\ l \in DOMAIN h[m].content /\ h[m].content[l].kind = kind
    BY <1>7 DEF Block
  <2>2. m \notin 1 .. s
    <3>1. CASE m \in 1 .. s
      <4>1. h[m].content[l].kind = "text"
        BY <1>4, <2>1, <3>1, SeedIsEncodable
      <4>2. QED
        BY <2>1, <4>1
    <3>2. QED
      BY <3>1
  <2>3. PICK t \in 0 .. n - 1 : m = Asks(t) \/ m = Asks(t) + 1
    BY <1>2, <2>1, <2>2
  <2>4. CASE m = Asks(t)
    <3>1. h[m].content[l].kind = "use" /\ h[m].content[l].id = <<t, l>>
      BY <1>3, <2>1, <2>4 DEF Turn, Calling
    <3>2. QED
      BY <2>1, <2>4, <3>1
  <2>5. CASE m = Asks(t) + 1
    <3>1. h[m].content[l].kind = "result" /\ h[m].content[l].id = <<t, l>>
      BY <1>3, <2>1, <2>5 DEF Turn, Answering
    <3>2. l \in DOMAIN h[Asks(t)].content
      BY <1>3, <2>1, <2>5 DEF Turn
    <3>3. QED
      BY <2>1, <2>5, <3>1, <3>2
  <2>6. QED
    BY <2>3, <2>4, <2>5
<1>8. ASSUME NEW t \in 0 .. n - 1, NEW l \in DOMAIN h[Asks(t)].content
      PROVE  /\ Block(h, "use", Asks(t), l) /\ Block(h, "result", Asks(t) + 1, l)
             /\ SameBlock(h, Asks(t), l, Asks(t) + 1, l)
             /\ h[Asks(t)].role = "assistant" /\ h[Asks(t) + 1].role # "assistant"
  <2>1. Calling(h[Asks(t)], t) /\ Answering(h[Asks(t) + 1], t) /\ l \in DOMAIN h[Asks(t) + 1].content
    BY <1>3 DEF Turn
  <2>2. h[Asks(t)].content[l].id = <<t, l>> /\ h[Asks(t) + 1].content[l].id = <<t, l>>
    BY <2>1 DEF Calling, Answering
  <2>3. QED
    BY <1>3, <2>1, <2>2 DEF Calling, Answering, Block, SameBlock
<1>9. ASSUME NEW m, NEW l, Block(h, "use", m, l)
      PROVE  /\ Block(h, "result", m + 1, l) /\ SameBlock(h, m, l, m + 1, l)
             /\ h[m].role = "assistant" /\ h[m + 1].role # "assistant"
  BY <1>7, <1>8, <1>9
<1>10. ASSUME NEW m, NEW l, Block(h, "result", m, l)
       PROVE  Block(h, "use", m - 1, l)
  <2>1. PICK t \in 0 .. n - 1 : m = Asks(t) + 1 /\ l \in DOMAIN h[Asks(t)].content
    BY <1>7, <1>10
  <2>2. m - 1 = Asks(t)
    BY <1>3, <2>1
  <2>3. QED
    BY <1>8, <2>1, <2>2
<1>11. ASSUME NEW kind \in {"use", "result"}, NEW m, NEW l, NEW i, NEW k,
              Block(h, kind, m, l), Block(h, kind, i, k), SameBlock(h, m, l, i, k)
       PROVE  m = i /\ l = k
  <2>1. PICK t \in 0 .. n - 1 : /\ m = IF kind = "use" THEN Asks(t) ELSE Asks(t) + 1
                                /\ h[m].content[l].id = <<t, l>>
    BY <1>7, <1>11
  <2>2. PICK r \in 0 .. n - 1 : /\ i = IF kind = "use" THEN Asks(r) ELSE Asks(r) + 1
                                /\ h[i].content[k].id = <<r, k>>
    BY <1>7, <1>11
  <2>3. <<t, l>> = <<r, k>>
    BY <1>11, <2>1, <2>2 DEF SameBlock
  <2>4. QED
    BY <2>1, <2>2, <2>3
<1>12. QED
  BY <1>6, <1>9, <1>10, <1>11 DEF Regular

-----------------------------------------------------------------------------
(* What the history is, wherever the next request may still be made from.    *)

Seeds == prompt.items + (IF agent.context THEN 1 ELSE 0)
Entering == pc \in Places /\ item.kind \in {"init", "user", "meta"}
\* The turns are whole; the last one waits for its results; it has got them.
Whole == pc \in {"turn", "request", "streaming"} \/ (pc \in Places /\ item.kind = "meta")
Asked == pc = "tools" \/ (pc \in Places /\ item.kind = "assistant")
Answered == pc \in Places /\ item.kind = "results"

HistoryInv ==
  /\ \A k \in DOMAIN blocks : blocks[k].id = <<step, k>>
  /\ (Entering \/ pc \in {"idle", "turn", "request"}) => blocks = <<>>
  /\ Entering => step = 0
  /\ pc = "tools" => blocks # <<>>
  /\ Whole => Talk(history, Seeds, step) /\ Len(history) = Seeds + 2 * step
  /\ Asked => /\ Talk(history, Seeds, step) /\ Len(history) = Seeds + 2 * step + 1
              /\ history[Len(history)] = AssistantMessage
  /\ Answered => Talk(history, Seeds, step + 1) /\ Len(history) = Seeds + 2 * (step + 1)

LEMMA SeedsAreCounted == StateOK => Seeds \in Nat /\ step \in Nat
BY QueryAssumption DEF StateOK, TypeOK, Seeds, prompt

LEMMA HistoryInit == Init => HistoryInv
BY EmptyIsList DEF Init, HistoryInv, Entering, Whole, Asked, Answered, Places

\* The conversation that a run begins with.
LEMMA TalkBegins ==
  ASSUME NEW p \in Nat, NEW n, NEW h,
         LET seeds == [i \in 1 .. p |-> Message("user", <<Text>>)] IN
         \/ h = seeds /\ n = p
         \/ h = <<Message("user", <<Text>>)>> \o seeds /\ n = p + 1
  PROVE  Talk(h, n, 0) /\ Len(h) = n
<1> DEFINE m == Message("user", <<Text>>)
           seeds == [i \in 1 .. p |-> m]
<1>1. (h = seeds /\ n = p) \/ (h = <<m>> \o seeds /\ n = p + 1)
  BY Zenon
<1>2. m = Message("user", <<Text>>)
  OBVIOUS
<1> HIDE DEF m
<1>3. seeds \in Seq({m}) /\ Len(seeds) = p /\ \A i \in 1 .. p : seeds[i] = m
  BY SeqDef
<1>4. IsList(<<m>>) /\ Len(<<m>>) = 1 /\ <<m>>[1] = m /\ IsList(seeds)
  BY <1>3, OneIsList DEF IsList
<1> HIDE DEF seeds
<1>5. Len(h) = n /\ \A i \in 1 .. n : h[i] = m
  <2>1. CASE h = <<m>> \o seeds /\ n = p + 1
    <3>1. /\ Len(<<m>> \o seeds) = 1 + p
          /\ \A i \in 1 .. 1 + p :
               (<<m>> \o seeds)[i] = IF i <= 1 THEN <<m>>[i] ELSE seeds[i - 1]
      BY <1>3, <1>4, Joins
    <3>2. \A i \in 1 .. 1 + p : (i <= 1 => i = 1) /\ (~(i <= 1) => i - 1 \in 1 .. p)
      OBVIOUS
    <3>3. \A i \in 1 .. 1 + p : (<<m>> \o seeds)[i] = m
      BY <1>3, <1>4, <3>1, <3>2
    <3>4. n = 1 + p
      BY <2>1
    <3>5. QED
      BY <2>1, <3>1, <3>3, <3>4
  <2>2. CASE h = seeds /\ n = p
    BY <1>3, <2>2
  <2>3. QED
    BY <1>1, <2>1, <2>2
<1>6. n \in Nat /\ n + 2 * 0 = n /\ 0 .. 0 - 1 = {}
  BY <1>1
<1>7. \A t \in 0 .. 0 - 1 : Turn(h, n + 2 * t + 1, t)
  BY <1>6
<1>8. QED
  BY <1>2, <1>5, <1>6, <1>7 DEF Talk

\* One message more leaves the turns as they are.
LEMMA TalkGoesOn ==
  ASSUME NEW h, IsList(h), NEW s \in Nat, NEW n \in Nat, Talk(h, s, n), NEW m
  PROVE  Talk(Append(h, m), s, n)
<1> DEFINE g == Append(h, m)
<1>1. Len(h) \in Nat /\ Len(g) = Len(h) + 1 /\ \A i \in 1 .. Len(h) : g[i] = h[i]
  BY Grows
<1> HIDE DEF g
<1>2. s + 2 * n <= Len(h) /\ s + 2 * n <= Len(g)
  BY <1>1 DEF Talk
<1>3. \A i \in 1 .. s : i \in 1 .. Len(h)
  BY <1>1, <1>2
<1>4. \A t \in 0 .. n - 1 : s + 2 * t + 1 \in 1 .. Len(h) /\ (s + 2 * t + 1) + 1 \in 1 .. Len(h)
  BY <1>1, <1>2
<1>5. \A t \in 0 .. n - 1 : Turn(g, s + 2 * t + 1, t)
  BY <1>1, <1>4 DEF Talk, Turn
<1>6. \A i \in 1 .. s : g[i] = Message("user", <<Text>>)
  BY <1>1, <1>3 DEF Talk
<1>7. QED
  BY <1>2, <1>5, <1>6 DEF Talk, g

\* The calls of a message, and the results that answer them.
LEMMA TurnIsMade ==
  ASSUME StateOK, HistoryInv, blocks # <<>>,
         NEW results, results = Message("user", [i \in DOMAIN blocks |->
                        ToolResult(blocks[i].id, blocks[i].verdict # "dispatched")])
  PROVE  /\ Calling(AssistantMessage, step) /\ Answering(results, step)
         /\ DOMAIN AssistantMessage.content = DOMAIN results.content
<1> DEFINE calls == [i \in DOMAIN blocks |-> ToolUse(blocks[i].id, blocks[i].tool, blocks[i].sent)]
           told == [i \in DOMAIN blocks |->
                      ToolResult(blocks[i].id, blocks[i].verdict # "dispatched")]
<1>1. /\ AssistantMessage.role = "assistant" /\ AssistantMessage.content = calls
      /\ results.role = "user" /\ results.content = told
  BY DEF AssistantMessage, Message
<1>2. IsList(blocks) /\ Len(blocks) \in Nat /\ DOMAIN blocks = 1 .. Len(blocks)
  BY LenProperties DEF StateOK, IsList
<1>3. \A k \in DOMAIN blocks :
        /\ calls[k].kind = "use" /\ calls[k].id = <<step, k>>
        /\ told[k].kind = "result" /\ told[k].id = <<step, k>>
  BY DEF HistoryInv, ToolUse, ToolResult
<1>4. IsList(calls) /\ IsList(told) /\ DOMAIN calls = DOMAIN blocks /\ DOMAIN told = DOMAIN blocks
  BY <1>2, MappedList
<1>5. calls # <<>> /\ told # <<>>
  <2>1. DOMAIN blocks # {}
    BY <1>2, NoElements
  <2>2. DOMAIN <<>> = {}
    OBVIOUS
  <2> HIDE DEF calls, told
  <2>3. QED
    BY <1>4, <2>1, <2>2
<1> HIDE DEF calls, told
<1>6. QED
  BY <1>1, <1>3, <1>4, <1>5 DEF Calling, Answering

LEMMA HistoryStep == StateOK /\ HistoryInv /\ [Next]_vars => HistoryInv'
<1> SUFFICES ASSUME StateOK, HistoryInv, [Next]_vars PROVE HistoryInv'
  OBVIOUS
<1>1. Seeds \in Nat /\ step \in Nat /\ IsList(history) /\ Len(history) \in Nat
  BY SeedsAreCounted, ListFacts DEF StateOK
<1>2. pc = "idle" => blocks = <<>> /\ step = 0
  BY DEF HistoryInv, StateOK, Placed
\* A step that leaves the conversation alone.
<1>3. ASSUME setup' = setup, step' = step, history' = history, blocks' = blocks,
             Entering' => blocks = <<>> /\ step = 0,
             pc' \in {"idle", "turn", "request"} => blocks = <<>>,
             pc' = "tools" => blocks # <<>>,
             Whole' => Whole, Asked' => Asked, Answered' => Answered
      PROVE  HistoryInv'
  <2>1. Seeds' = Seeds /\ AssistantMessage' = AssistantMessage
    BY <1>3 DEF Seeds, AssistantMessage, prompt, agent
  <2>2. QED
    BY <1>3, <2>1 DEF HistoryInv
\* A place where the conversation does not matter.
<1>4. ASSUME \A k \in DOMAIN blocks' : blocks'[k].id = <<step', k>>,
             pc' \in {"closing", "dropped"} \/ (pc' \in Places /\ item'.kind = "result")
      PROVE  HistoryInv'
  BY <1>4 DEF HistoryInv, Entering, Whole, Asked, Answered, Places
<1>5. ASSUME UNCHANGED <<blocks, step>>,
             pc' \in {"closing", "dropped"} \/ (pc' \in Places /\ item'.kind = "result")
      PROVE  HistoryInv'
  BY <1>4, <1>5 DEF HistoryInv
<1>6. ASSUME NEW how, End(how) PROVE HistoryInv'
  BY <1>6, EmptyIsList DEF End, Fresh, HistoryInv, Entering, Whole, Asked, Answered, Places
<1>7. CASE UNCHANGED vars \/ ClientQuery
  BY <1>3, <1>7 DEF vars, ClientQuery, runState, HistoryInv, Entering, Whole, Asked, Answered
<1>8. CASE Write \/ Yield
  <2>1. pc \in Places /\ pc' \in Places /\ UNCHANGED <<setup, runState>>
    BY <1>8 DEF Write, Yield, Deliver, Places
  <2>2. (Entering' => Entering) /\ (Whole' => Whole) /\ (Asked' => Asked) /\ (Answered' => Answered)
    BY <2>1 DEF Entering, Whole, Asked, Answered, Places, runState
  <2>3. pc' \notin {"idle", "turn", "request", "tools"}
    BY <2>1 DEF Places
  <2>4. QED
    BY <1>3, <2>1, <2>2, <2>3 DEF runState, HistoryInv
<1>9. CASE NothingToReceive \/ Crash \/ CloseDropped
  BY <1>6, <1>9 DEF NothingToReceive, Crash, CloseDropped
<1>10. CASE Start
  <2>1. CASE End("raised")
    BY <1>6, <2>1
  <2>2. CASE Make(Item("init", 0)) /\ UNCHANGED <<seeded, history, blocks, verdicts, step,
                                                 cost, attempts, numTurns, outcome, ends>>
    <3>1. pc' = "made" /\ item'.kind = "init" /\ pc = "idle" /\ setup' = setup
      BY <1>10, <2>2 DEF Start, Make, Item
    <3>2. ~Whole' /\ ~Asked' /\ ~Answered'
      BY <3>1 DEF Whole, Asked, Answered
    <3>3. QED
      BY <1>2, <1>3, <2>2, <3>1, <3>2
  <2>3. QED
    BY <1>10, <2>1, <2>2 DEF Start
<1>11. CASE BeginTurn
  <2>1. pc = "turn" /\ UNCHANGED <<setup, item, history, blocks, step>>
        /\ pc' \in {"closing", "request"}
    BY <1>11 DEF BeginTurn, Raise
  <2>2. CASE pc' = "closing"
    BY <1>5, <2>1, <2>2
  <2>3. CASE pc' = "request"
    <3>1. Whole /\ blocks = <<>> /\ ~Entering' /\ ~Asked' /\ ~Answered'
      BY <2>1, <2>3 DEF Whole, HistoryInv, Entering, Asked, Answered, Places
    <3>2. QED
      BY <1>3, <2>1, <2>3, <3>1
  <2>4. QED
    BY <2>1, <2>2, <2>3
<1>12. CASE Attempt
  <2>1. /\ pc = "request" /\ UNCHANGED <<setup, item, history, blocks, step>>
        /\ pc' \in {"closing", "request", "streaming"}
    BY <1>12 DEF Attempt, Retry, RaiseForStatus, Raise
  <2>2. CASE pc' = "closing"
    BY <1>5, <2>1, <2>2
  <2>3. CASE pc' \in {"request", "streaming"}
    <3>1. Whole /\ blocks = <<>> /\ ~Entering' /\ ~Asked' /\ ~Answered' /\ pc' # "tools"
      BY <2>1, <2>3 DEF Whole, HistoryInv, Entering, Asked, Answered, Places
    <3>2. QED
      BY <1>3, <2>1, <3>1
  <2>4. QED
    BY <2>1, <2>2, <2>3
<1>13. CASE StreamFails
  BY <1>5, <1>13 DEF StreamFails, Raise
<1>14. ASSUME NEW call \in setup.calls, StreamCall(call) \/ LeaveOpen(call)
       PROVE  HistoryInv'
  <2>1. CASE Raise("error_during_execution") /\ UNCHANGED <<blocks, step>>
    BY <1>5, <2>1 DEF Raise
  <2>2. ASSUME NEW b, blocks' = Append(blocks, b), b.id = <<step, Len(blocks) + 1>>,
               pc = "streaming", pc' = pc, UNCHANGED <<setup, item, history, step>>
        PROVE  HistoryInv'
    <3>1. blocks' = Append(blocks, b) /\ b.id = <<step, Len(blocks) + 1>>
      BY <2>2
    <3>2. /\ pc = "streaming" /\ pc' = pc /\ UNCHANGED <<setup, item, history, step>>
      BY <2>2
    <3>3. \A k \in DOMAIN blocks' : blocks'[k].id = <<step', k>>
      <4>1. IsList(blocks)
        BY DEF StateOK, IsList
      <4>2. /\ DOMAIN blocks = 1 .. Len(blocks) /\ DOMAIN blocks' = 1 .. Len(blocks) + 1
            /\ Len(blocks) \in Nat
            /\ \A i \in 1 .. Len(blocks) : blocks'[i] = blocks[i]
            /\ blocks'[Len(blocks) + 1] = b
        BY <3>1, <4>1, Grows
      <4>3. \A k \in DOMAIN blocks' : k \in DOMAIN blocks \/ k = Len(blocks) + 1
        BY <4>2
      <4>4. QED
        BY <3>1, <3>2, <4>2, <4>3 DEF HistoryInv
    <3>4. Seeds' = Seeds /\ Whole /\ Whole' /\ ~Entering' /\ ~Asked' /\ ~Answered'
      BY <3>2 DEF Seeds, prompt, agent, Whole, Entering, Asked, Answered, Places
    <3>5. QED
      BY <3>2, <3>3, <3>4 DEF HistoryInv
  <2>3. CASE StreamCall(call)
    <3> DEFINE v == VerdictOn(call)
               b == [id |-> <<step, Len(blocks) + 1>>, tool |-> call.tool,
                     sent |-> call.input, input |-> v.input, verdict |-> v.verdict,
                     rewritten |-> v.rewritten]
    <3>1. b.id = <<step, Len(blocks) + 1>>
      OBVIOUS
    <3>2. /\ pc = "streaming" /\ UNCHANGED <<setup, item, history, step>>
          /\ \/ Raise("error_during_execution") /\ UNCHANGED blocks
             \/ blocks' = Append(blocks, b) /\ pc' = pc
      BY <2>3 DEF StreamCall
    <3> HIDE DEF b
    <3>3. QED
      BY <2>1, <2>2, <3>1, <3>2
  <2>4. CASE LeaveOpen(call)
    <3> DEFINE b == [id |-> <<step, Len(blocks) + 1>>, tool |-> call.tool, sent |-> call.input,
                     input |-> call.input, verdict |-> "open", rewritten |-> FALSE]
    <3>1. b.id = <<step, Len(blocks) + 1>>
      OBVIOUS
    <3>2. /\ pc = "streaming" /\ UNCHANGED <<setup, item, history, step>>
          /\ blocks' = Append(blocks, b) /\ pc' = pc
      BY <2>4 DEF LeaveOpen
    <3> HIDE DEF b
    <3>3. QED
      BY <2>2, <3>1, <3>2
  <2>5. QED
    BY <1>14, <2>3, <2>4
<1>15. ASSUME NEW spent \in {0, 1}, StreamEnds(spent) PROVE HistoryInv'
  <2>1. /\ pc = "streaming" /\ UNCHANGED <<setup, blocks, step>>
        /\ history' = Append(history, AssistantMessage)
        /\ pc' = "closing" \/ (pc' = "made" /\ item'.kind = "assistant")
    BY <1>15 DEF StreamEnds, Raise, Make, Item
  <2>2. CASE pc' = "closing"
    BY <1>5, <2>1, <2>2
  <2>3. CASE pc' = "made" /\ item'.kind = "assistant"
    <3>1. Whole /\ ~Entering' /\ ~Whole' /\ Asked' /\ ~Answered'
      BY <2>1, <2>3 DEF Whole, Entering, Asked, Answered, Places
    <3>2. Seeds' = Seeds /\ AssistantMessage' = AssistantMessage
      BY <2>1 DEF Seeds, AssistantMessage, prompt, agent
    <3>3. Talk(history, Seeds, step) /\ Len(history) = Seeds + 2 * step
      BY <3>1 DEF HistoryInv
    <3>4. Talk(history', Seeds, step)
      BY <1>1, <2>1, <3>3, TalkGoesOn
    <3>5. Len(history') = Len(history) + 1 /\ history'[Len(history) + 1] = AssistantMessage
      BY <1>1, <2>1, Grows
    <3>6. Len(history') = Seeds + 2 * step + 1 /\ history'[Len(history')] = AssistantMessage
      BY <3>3, <3>5
    <3>7. QED
      BY <2>1, <2>3, <3>1, <3>2, <3>4, <3>6 DEF HistoryInv
  <2>4. QED
    BY <2>1, <2>2, <2>3
<1>16. CASE RunTools
  <2>1. CASE \E k \in DOMAIN blocks : blocks[k].verdict = "open"
    BY <1>5, <1>16, <2>1 DEF RunTools, Raise
  <2>2. CASE ~\E k \in DOMAIN blocks : blocks[k].verdict = "open"
    <3> DEFINE m == Message("user", [i \in DOMAIN blocks |->
                              ToolResult(blocks[i].id, blocks[i].verdict # "dispatched")])
               i == Seeds + 2 * step + 1
    <3>1. /\ pc = "tools" /\ UNCHANGED <<setup, blocks, step>> /\ history' = Append(history, m)
          /\ pc' = "made" /\ item'.kind = "results"
      BY <1>16, <2>2 DEF RunTools, Make, Item
    <3>2. /\ Asked /\ blocks # <<>> /\ ~Entering' /\ ~Whole' /\ ~Asked' /\ Answered'
      BY <3>1 DEF Whole, Entering, Asked, Answered, Places, HistoryInv
    <3>3. Seeds' = Seeds
      BY <3>1 DEF Seeds, prompt, agent
    <3>4. /\ Talk(history, Seeds, step) /\ Len(history) = i /\ history[i] = AssistantMessage
      BY <3>2 DEF HistoryInv
    <3>5. /\ Calling(AssistantMessage, step) /\ Answering(m, step)
          /\ DOMAIN AssistantMessage.content = DOMAIN m.content
      BY <3>2, TurnIsMade
    <3> HIDE DEF m
    <3>6. Talk(history', Seeds, step)
      BY <1>1, <3>1, <3>4, TalkGoesOn
    <3>7. /\ Len(history') = i + 1 /\ history'[i] = AssistantMessage /\ history'[i + 1] = m
          /\ i \in Nat
      BY <1>1, <3>1, <3>4, Grows
    <3>8. Turn(history', i, step)
      BY <3>5, <3>7 DEF Turn
    <3>9. Talk(history', Seeds, step + 1)
      <4>1. Seeds + 2 * (step + 1) <= Len(history')
        BY <1>1, <3>7
      <4>2. \A t \in 0 .. (step + 1) - 1 : t = step \/ t \in 0 .. step - 1
        BY <1>1
      <4>3. \A t \in 0 .. (step + 1) - 1 : Turn(history', Seeds + 2 * t + 1, t)
        BY <3>6, <3>8, <4>2 DEF Talk
      <4>4. QED
        BY <3>6, <4>1, <4>3 DEF Talk
    <3>10. Len(history') = Seeds + 2 * (step + 1)
      BY <1>1, <3>7
    <3>11. QED
      BY <3>1, <3>2, <3>3, <3>9, <3>10 DEF HistoryInv
  <2>3. QED
    BY <2>1, <2>2
<1>17. CASE Close
  BY <1>5, <1>17 DEF Close, Make, ResultItem, BuildResult, Places
<1>18. CASE Drop
  BY <1>5, <1>6, <1>18 DEF Drop, runState
<1>19. CASE AsksOn
  <2>1. pc = "yielded" /\ setup' = setup
    BY <1>19 DEF AsksOn
  <2>2. CASE item.kind \in {"init", "user"} /\ AfterSeed
    <3>1. blocks = <<>> /\ step = 0
      BY <2>1, <2>2 DEF HistoryInv, Entering, Places
    <3>2. CASE EchoSeed
      <4>1. /\ pc' = "made" /\ item'.kind = "user" /\ UNCHANGED <<history, blocks, step>>
        BY <3>2 DEF EchoSeed, Make, Item
      <4>2. ~Whole' /\ ~Asked' /\ ~Answered'
        BY <4>1 DEF Whole, Asked, Answered
      <4>3. QED
        BY <1>3, <2>1, <3>1, <4>1, <4>2
    <3>3. CASE End("raised")
      BY <1>6, <3>3
    <3>4. CASE /\ Make(BuildResult("error_during_execution", 0, {}))
               /\ UNCHANGED <<seeded, history, blocks, verdicts, step, cost, attempts,
                              numTurns, outcome, ends>>
      BY <1>5, <3>4 DEF Make, BuildResult, Places
    <3>5. CASE EnterLoop
      <4>1. /\ UNCHANGED <<blocks, step>>
            /\ pc' = "turn" \/ (pc' = "made" /\ item'.kind = "meta")
        BY <3>5 DEF EnterLoop, Make, Item
      <4>2. ~Asked' /\ ~Answered' /\ Seeds' = Seeds
        <5>1. Seeds' = Seeds
          BY <2>1 DEF Seeds, prompt, agent
        <5>2. ~Answered' /\ ~Asked'
          BY <2>2, <4>1 DEF Asked, Answered, Places
        <5>3. QED
          BY <5>1, <5>2
      <4>3. Talk(history', Seeds, 0) /\ Len(history') = Seeds
        <5>1. prompt.items \in Nat
          BY QueryAssumption DEF StateOK, TypeOK, prompt
        <5>2. CASE agent.context
          <6>1. /\ history' = <<Message("user", <<Text>>)>>
                                \o [i \in 1 .. prompt.items |-> Message("user", <<Text>>)]
                /\ Seeds = prompt.items + 1
            BY <3>5, <5>2, Zenon DEF EnterLoop, Seeds
          <6>2. QED
            BY <5>1, <6>1, TalkBegins, Zenon
        <5>3. CASE ~agent.context
          <6>1. /\ history' = [i \in 1 .. prompt.items |-> Message("user", <<Text>>)]
                /\ Seeds = prompt.items + 0
            BY <3>5, <5>3, Zenon DEF EnterLoop, Seeds
          <6>2. Seeds = prompt.items
            BY <5>1, <6>1
          <6>3. QED
            BY <5>1, <6>1, <6>2, TalkBegins
        <5>4. QED
          BY <5>2, <5>3
      <4>4. pc' # "tools" /\ Seeds + 2 * 0 = Seeds
        BY <1>1, <4>1
      <4>5. QED
        BY <3>1, <4>1, <4>2, <4>3, <4>4, EmptyIsList DEF HistoryInv
    <3>6. QED
      BY <2>2, <3>2, <3>3, <3>4, <3>5 DEF AfterSeed
  <2>3. CASE item.kind = "meta" /\ pc' = "turn" /\ UNCHANGED <<runState, ends>>
    <3>1. Whole /\ blocks = <<>> /\ ~Entering' /\ ~Asked' /\ ~Answered'
      BY <2>1, <2>3 DEF Whole, HistoryInv, Entering, Asked, Answered, Places
    <3>2. QED
      BY <1>3, <2>1, <2>3, <3>1 DEF runState
  <2>4. CASE item.kind = "assistant" /\ AfterAssistant
    <3>1. CASE blocks = <<>>
      BY <1>5, <2>4, <3>1 DEF AfterAssistant, runState
    <3>2. CASE blocks # <<>>
      <4>1. pc' = "tools" /\ UNCHANGED runState
        BY <2>4, <3>2 DEF AfterAssistant
      <4>2. Asked /\ ~Whole' /\ ~Entering' /\ ~Answered'
        BY <2>1, <2>4, <4>1 DEF Whole, Entering, Asked, Answered, Places
      <4>3. QED
        BY <1>3, <2>1, <3>2, <4>1, <4>2 DEF runState
    <3>3. QED
      BY <3>1, <3>2
  <2>5. CASE item.kind = "results" /\ NextTurn
    <3>1. /\ pc' = "turn" /\ step' = step + 1 /\ blocks' = <<>> /\ history' = history
          /\ Seeds' = Seeds
      BY <2>1, <2>5 DEF NextTurn, Seeds, prompt, agent
    <3>2. Answered /\ Whole' /\ ~Entering' /\ ~Asked' /\ ~Answered'
      BY <2>1, <2>5, <3>1 DEF Whole, Entering, Asked, Answered, Places
    <3>3. Talk(history, Seeds, step + 1) /\ Len(history) = Seeds + 2 * (step + 1)
      BY <3>2 DEF HistoryInv
    <3>4. QED
      BY <3>1, <3>2, <3>3, EmptyIsList DEF HistoryInv
  <2>6. CASE item.kind = "result" /\ End("finished")
    BY <1>6, <2>6
  <2>7. QED
    BY <1>19, <2>2, <2>3, <2>4, <2>5, <2>6 DEF AsksOn
<1>20. CASE WriteFails
  BY <1>5, <1>6, <1>20 DEF WriteFails, Raise
<1>21. QED
  BY <1>7, <1>8, <1>9, <1>10, <1>11, <1>12, <1>13, <1>14, <1>15, <1>16, <1>17, <1>18, <1>19,
     <1>20 DEF Next, Step

LEMMA HistoryMeans == StateOK /\ CheckedInv /\ HistoryInv => WireComplete
<1> SUFFICES ASSUME StateOK, CheckedInv, HistoryInv, pc = "request"
             PROVE  AnsweredOnce(Request(agent, history).messages)
  BY DEF WireComplete
<1>1. Whole /\ Seeds \in Nat /\ step \in Nat /\ IsList(history)
  BY SeedsAreCounted DEF Whole, StateOK
<1>2. Talk(history, Seeds, step) /\ Len(history) = Seeds + 2 * step
  BY <1>1 DEF HistoryInv
<1>3. Regular(history)
  BY <1>1, <1>2, TurnsAreRegular
<1>4. agent.system \in Seq({Text})
  <2>1. setup \in Setups /\ AgentFor[setup].built
    BY DEF StateOK, TypeOK, CheckedInv, agent
  <2>2. QED
    BY <2>1, ListsAssumption DEF agent
<1>5. Carries(Request(agent, history).messages, history, {0} \cup DOMAIN history)
  BY <1>3, <1>4, RequestCarries DEF Regular
<1>6. QED
  BY <1>3, <1>5, RegularIsAnswered

\* Every request that reaches a model, through any adapter and either way of sending tool
\* calls, has each call of the conversation once, answered once and in time.
THEOREM RequestsAreComplete == Spec => []WireComplete
BY HistoryInit, HistoryStep, HistoryMeans, CheckedInit, CheckedStep, StateHolds, PTL DEF Spec
==============================================================================
