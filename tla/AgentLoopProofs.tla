--------------------------- MODULE AgentLoopProofs ---------------------------
(* Theorems about AgentLoop: the budget, the types, the history and what   *)
(* the consumer sees, for every value of the constants.                    *)
EXTENDS AgentLoop, SequenceTheorems, FiniteSetTheorems, TLAPS

-----------------------------------------------------------------------------
(* The budget.                                                             *)

\* The strengthening: a run that is about to ask the model has a turn left to pay.
BudgetInv ==
  /\ runs \in Nat /\ turns \in Nat /\ usage \in Nat
  /\ pc # "idle" => runs > 0
  /\ MaxTurns > 0 => turns <= (MaxTurns - 1) + runs
  /\ MaxTurns > 0 /\ pc \in {"turn", "asking", "streaming"} => turns < (MaxTurns - 1) + runs
  /\ pc \in {"yielded", "draining", "answered"} => turns < MaxTurns /\ usage < MaxUsage

\* Every step keeps it.
LEMMA BudgetStep == BudgetInv /\ [Next]_vars => BudgetInv'
<1> SUFFICES ASSUME BudgetInv, [Next]_vars PROVE BudgetInv'
  OBVIOUS
<1> USE LoopAssumption DEF BudgetInv, runVars, budget
<1>1. CASE UNCHANGED vars
  BY <1>1 DEF vars
<1>2. CASE Cancel
  BY <1>2 DEF Cancel
<1>3. CASE StartRun
  BY <1>3 DEF StartRun
<1>4. CASE BeginTurn
  BY <1>4 DEF BeginTurn, RunOut, CancelledBeforeTurn, AskModel
<1>5. CASE StreamFails \/ AwaitResponse
  BY <1>5 DEF StreamFails, AwaitResponse, Resend, Connected, Refused, Raise
<1>6. ASSUME NEW fate \in Fates, StreamBlock(fate) PROVE BudgetInv'
  BY <1>6 DEF StreamBlock
<1>7. ASSUME NEW cost \in {0, 1}, StreamEnds(cost) PROVE BudgetInv'
  <2>1. turns' \in Nat /\ usage' \in Nat /\ MaxTurns \in Nat /\ MaxUsage \in Nat
    BY <1>7 DEF StreamEnds
  <2>2. turns' \in {turns, turns + 1} /\ runs' = runs /\ pc = "streaming"
    BY <1>7 DEF StreamEnds
  <2>3. pc' = "raising" \/ (pc' = "yielded" /\ ~OverBudget(turns', usage'))
    BY <1>7 DEF StreamEnds, Raise
  <2>4. QED
    BY <2>1, <2>2, <2>3 DEF OverBudget
<1>8. CASE Resume
  BY <1>8 DEF Resume
<1>9. CASE Drain
  BY <1>9 DEF Drain
<1>10. CASE NextTurn
  BY <1>10 DEF NextTurn
<1>11. CASE Abandon
  BY <1>11 DEF Abandon, Raise
<1>12. CASE Escape
  BY <1>12 DEF Escape
<1>13. CASE SignalSeen
  BY <1>13 DEF SignalSeen, Others
<1>14. ASSUME NEW i \in Executor!Unanswered, CallAnswers(i) PROVE BudgetInv'
  BY <1>14 DEF CallAnswers, Others
<1>15. QED
  BY <1>1, <1>2, <1>3, <1>4, <1>5, <1>6, <1>7, <1>8, <1>9, <1>10, <1>11, <1>12, <1>13, <1>14
     DEF Next

\* BudgetTracker's inclusive limits: a turn goes on only below them, and each run that starts
\* on a used-up budget pays for one turn at most.
THEOREM OverrunIsBounded == Spec => []OverrunBounded
<1>1. Init => BudgetInv
  BY LoopAssumption DEF Init, BudgetInv
<1>2. BudgetInv => OverrunBounded
  BY DEF BudgetInv, OverrunBounded
<1>3. QED
  BY <1>1, <1>2, BudgetStep, PTL DEF Spec
-----------------------------------------------------------------------------
(* The executor of a turn.                                                 *)

\* The blocks up to b that were dispatched.
DispatchedBlocks(bs, b) == {c \in 1 .. b : bs[c] = "dispatched"}

\* One more block adds a dispatched block or none.
LEMMA OneMoreBlock ==
  ASSUME NEW bs \in Seq(Fates), NEW fate \in Fates
  PROVE  Cardinality(DispatchedBlocks(Append(bs, fate), Len(Append(bs, fate))))
           = Cardinality(DispatchedBlocks(bs, Len(bs))) + (IF fate = "dispatched" THEN 1 ELSE 0)
<1> DEFINE n == Len(bs)
           D == DispatchedBlocks(bs, n)
           E == DispatchedBlocks(Append(bs, fate), n + 1)
<1>1. n \in Nat /\ Len(Append(bs, fate)) = n + 1
  BY LenProperties, AppendProperties
<1>2. \A c \in 1 .. n : Append(bs, fate)[c] = bs[c]
  BY AppendProperties
<1>3. Append(bs, fate)[n + 1] = fate
  BY AppendProperties
<1>4. IsFiniteSet(D) /\ Cardinality(D) \in Nat
  <2>1. IsFiniteSet(1 .. n)
    BY <1>1, FS_Interval
  <2>2. QED
    BY <2>1, FS_Subset, FS_CardinalityType DEF DispatchedBlocks
<1>5. CASE fate = "dispatched"
  <2>1. E = D \cup {n + 1} /\ n + 1 \notin D
    BY <1>1, <1>2, <1>3, <1>5 DEF DispatchedBlocks
  <2>2. Cardinality(E) = Cardinality(D) + 1
    BY <1>4, <2>1, FS_AddElement
  <2>3. QED
    BY <1>1, <1>5, <2>2
<1>6. CASE fate # "dispatched"
  <2>1. E = D
    BY <1>1, <1>2, <1>3, <1>6 DEF DispatchedBlocks
  <2>2. QED
    BY <1>1, <1>4, <1>6, <2>1
<1>7. QED
  BY <1>5, <1>6

\* The number of a dispatched block is that of one of the calls.
LEMMA BlockNumber ==
  ASSUME NEW bs \in Seq(Fates), NEW b \in 1 .. Len(bs), bs[b] = "dispatched"
  PROVE  Cardinality(DispatchedBlocks(bs, b))
           \in 1 .. Cardinality(DispatchedBlocks(bs, Len(bs)))
<1>1. Len(bs) \in Nat
  BY LenProperties
<1>2. IsFiniteSet(DispatchedBlocks(bs, Len(bs)))
  <2>1. IsFiniteSet(1 .. Len(bs))
    BY <1>1, FS_Interval
  <2>2. QED
    BY <2>1, FS_Subset DEF DispatchedBlocks
<1>3. DispatchedBlocks(bs, b) \in SUBSET DispatchedBlocks(bs, Len(bs))
  BY <1>1 DEF DispatchedBlocks
<1>4. /\ IsFiniteSet(DispatchedBlocks(bs, b))
      /\ Cardinality(DispatchedBlocks(bs, b)) <= Cardinality(DispatchedBlocks(bs, Len(bs)))
  BY <1>2, <1>3, FS_Subset
<1>5. b \in DispatchedBlocks(bs, b)
  BY <1>1 DEF DispatchedBlocks
<1>6. Cardinality(DispatchedBlocks(bs, b)) \in Nat
      /\ Cardinality(DispatchedBlocks(bs, Len(bs))) \in Nat
  BY <1>2, <1>4, FS_CardinalityType
<1>7. Cardinality(DispatchedBlocks(bs, b)) # 0
  BY <1>4, <1>5, FS_EmptySet
<1>8. QED
  BY <1>4, <1>6, <1>7

\* While the turn is open its calls are numbered like its dispatched blocks; outside of it
\* there is no call.
ExecutorInv ==
  /\ pc \in {"idle", "turn", "asking", "streaming", "yielded", "draining", "answered",
             "raising"}
  /\ blocks \in Seq(Fates) /\ Len(blocks) <= MaxBlocks
  /\ requested \in 0 .. MaxBlocks
  /\ answer \in [1 .. MaxBlocks -> Answers \cup {NoAnswer}]
  /\ requested = IF Busy THEN Cardinality(DispatchedBlocks(blocks, Len(blocks))) ELSE 0
  /\ pc \in {"yielded", "draining"} => ~InBlocks("malformed")

\* Answering keeps the answers well formed.
LEMMA AnswersType ==
  ASSUME ExecutorInv, NEW S \in SUBSET (1 .. MaxBlocks), Executor!AnswerAll(S)
  PROVE  answer' \in [1 .. MaxBlocks -> Answers \cup {NoAnswer}]
  BY DEF ExecutorInv, Executor!AnswerAll, Executor!Calls

\* A new executor has no call.
LEMMA DropType ==
  ASSUME DropExecutor
  PROVE  requested' = 0 /\ answer' \in [1 .. MaxBlocks -> Answers \cup {NoAnswer}]
  BY DEF DropExecutor

\* It holds initially.
LEMMA ExecutorInit == Init => ExecutorInv
  BY LoopAssumption, EmptySeq DEF Init, ExecutorInv, Executor!Init, Executor!Calls, Busy

\* A step that leaves the blocks and the executor alone, and the turn open or closed.
LEMMA SameExecutor ==
  ASSUME ExecutorInv, UNCHANGED <<blocks, executor>>, Busy' = Busy,
         pc' \in {"idle", "turn", "asking", "streaming", "yielded", "draining", "answered",
                  "raising"},
         pc' \in {"yielded", "draining"} => ~InBlocks("malformed")
  PROVE  ExecutorInv'
  BY DEF ExecutorInv, executor, InBlocks

\* Every step keeps ExecutorInv.
LEMMA ExecutorStep == ExecutorInv /\ [Next]_vars => ExecutorInv'
<1> SUFFICES ASSUME ExecutorInv, [Next]_vars PROVE ExecutorInv'
  OBVIOUS
<1> USE DEF ExecutorInv
<1>1. CASE UNCHANGED vars
  BY <1>1, SameExecutor DEF vars, Busy
<1>2. CASE Cancel
  BY <1>2, SameExecutor DEF Cancel, Busy
<1>3. CASE StartRun
  BY <1>3, SameExecutor DEF StartRun, Busy
<1>4. CASE BeginTurn
  <2>1. CASE RunOut \/ CancelledBeforeTurn
    BY <1>4, <2>1, SameExecutor DEF BeginTurn, RunOut, CancelledBeforeTurn, Busy
  <2>2. CASE AskModel
    <3>1. requested = 0 /\ blocks' = <<>> /\ pc' = "asking" /\ UNCHANGED executor
      BY <1>4, <2>2 DEF BeginTurn, AskModel, Busy
    <3>2. DispatchedBlocks(<<>>, 0) = {}
      BY DEF DispatchedBlocks
    <3>3. Len(<<>>) = 0 /\ Cardinality({}) = 0
      BY FS_EmptySet
    <3>4. <<>> \in Seq(Fates) /\ 0 <= MaxBlocks
      BY LoopAssumption
    <3>5. QED
      BY <3>1, <3>2, <3>3, <3>4 DEF executor, Busy
  <2>3. QED
    BY <1>4, <2>1, <2>2 DEF BeginTurn
<1>5. CASE StreamFails \/ AwaitResponse
  BY <1>5, SameExecutor
     DEF StreamFails, AwaitResponse, Resend, Connected, Refused, Raise, Busy
<1>6. ASSUME NEW fate \in Fates, StreamBlock(fate) PROVE ExecutorInv'
  <2> DEFINE bs == Append(blocks, fate)
  <2>1. bs \in Seq(Fates) /\ Len(bs) = Len(blocks) + 1 /\ Len(blocks) \in Nat
    BY AppendProperties, LenProperties
  <2>2. Len(blocks) < MaxBlocks /\ blocks' = bs /\ pc = "streaming" /\ pc' = "streaming"
    BY <1>6 DEF StreamBlock
  <2>3. MaxBlocks \in Nat
    BY LoopAssumption
  <2>4. CASE fate = "dispatched"
    <3>1. Executor!Request
      BY <1>6, <2>4 DEF StreamBlock
    <3>2. requested' = requested + 1 /\ requested < MaxBlocks
      BY <3>1 DEF Executor!Request
    <3>3. answer' \in [1 .. MaxBlocks -> Answers \cup {NoAnswer}]
      <4>1. CASE halted
        BY <3>1, <3>2, <4>1, <2>3, AnswersType DEF Executor!Request
      <4>2. CASE ~halted
        BY <3>1, <4>2 DEF Executor!Request
      <4>3. QED
        BY <4>1, <4>2
    <3>4. Cardinality(DispatchedBlocks(bs, Len(bs))) = requested + 1
      BY <2>2, <2>4, OneMoreBlock DEF Busy
    <3>5. QED
      BY <2>1, <2>2, <2>3, <3>2, <3>3, <3>4 DEF Busy
  <2>5. CASE fate # "dispatched"
    <3>1. UNCHANGED executor
      BY <1>6, <2>5 DEF StreamBlock
    <3>2. Cardinality(DispatchedBlocks(bs, Len(bs))) = requested
      BY <2>2, <2>5, OneMoreBlock DEF Busy
    <3>3. QED
      BY <2>1, <2>2, <2>3, <3>1, <3>2 DEF executor, Busy
  <2>6. QED
    BY <2>4, <2>5
<1>7. ASSUME NEW cost \in {0, 1}, StreamEnds(cost) PROVE ExecutorInv'
  BY <1>7, SameExecutor DEF StreamEnds, Raise, Busy
<1>8. CASE Resume
  <2>1. CASE NoToolUses
    BY <1>8, <2>1, DropType, LoopAssumption DEF Resume, Busy
  <2>2. CASE ~NoToolUses
    BY <1>8, <2>2, SameExecutor DEF Resume, Busy
  <2>3. QED
    BY <2>1, <2>2
<1>9. CASE Drain
  BY <1>9, DropType, LoopAssumption DEF Drain, Busy, InBlocks
<1>10. CASE NextTurn
  BY <1>10, SameExecutor DEF NextTurn, Busy
<1>11. CASE Abandon
  BY <1>11, SameExecutor DEF Abandon, Raise, Busy
<1>12. CASE Escape
  BY <1>12, DropType, LoopAssumption DEF Escape, Busy
<1>13. CASE SignalSeen
  BY <1>13 DEF SignalSeen, Others, Executor!Halt, Busy, InBlocks
<1>14. ASSUME NEW i \in Executor!Unanswered, CallAnswers(i) PROVE ExecutorInv'
  <2>1. {i} \in SUBSET (1 .. MaxBlocks)
    BY LoopAssumption DEF Executor!Unanswered
  <2>2. answer' \in [1 .. MaxBlocks -> Answers \cup {NoAnswer}]
    BY <1>14, <2>1, AnswersType DEF CallAnswers, Executor!Answer
  <2>3. QED
    BY <1>14, <2>2 DEF CallAnswers, Executor!Answer, Others, Busy, InBlocks
<1>15. QED
  BY <1>1, <1>2, <1>3, <1>4, <1>5, <1>6, <1>7, <1>8, <1>9, <1>10, <1>11, <1>12, <1>13, <1>14
     DEF Next

\* When all calls are answered and no block is malformed or unclosed, every block has its
\* result: a refusal, or the answer of its call.
LEMMA BlocksAnswered ==
  ASSUME ExecutorInv, pc = "draining", Executor!Unanswered = {}, ~InBlocks("unclosed"),
         NEW b \in DOMAIN blocks
  PROVE  /\ ResultOf(b) \in Answers \cup {"refused"}
         /\ ResultOf(b) = "refused" <=> blocks[b] \in Refusals
<1>1. blocks \in Seq(Fates) /\ b \in 1 .. Len(blocks) /\ blocks[b] \in Fates
  BY LenProperties, ElementOfSeq DEF ExecutorInv
<1>2. CASE blocks[b] \in Refusals
  BY <1>2 DEF ResultOf
<1>3. CASE blocks[b] \notin Refusals
  <2>1. blocks[b] = "dispatched"
    BY <1>1, <1>3 DEF Fates, InBlocks, ExecutorInv
  <2>2. Cardinality(DispatchedBlocks(blocks, b)) \in 1 .. requested
    BY <1>1, <2>1, BlockNumber DEF ExecutorInv, Busy
  <2>3. answer[Cardinality(DispatchedBlocks(blocks, b))] \in Answers
    BY <2>2, LoopAssumption DEF ExecutorInv, Executor!Unanswered
  <2>4. ResultOf(b) = answer[Cardinality(DispatchedBlocks(blocks, b))]
    BY <1>3 DEF ResultOf, DispatchedBlocks
  <2>5. QED
    BY <1>3, <2>3, <2>4, LoopAssumption
<1>4. QED
  BY <1>2, <1>3

-----------------------------------------------------------------------------
(* Types.                                                                  *)

\* The strengthening: a Stop hook runs only as the run ends, and a turn has started only
\* below the limit of steps.
TypeInv ==
  /\ TypeOK
  /\ pc # "idle" => stopHooks = 0
  /\ pc \in {"asking", "streaming", "yielded", "draining", "answered"} => step < MaxSteps

\* A message more in the list leaves the positions positions.
LEMMA OneMoreMessage ==
  ASSUME messages \in Seq(Message), yielded \in Seq(1 .. Len(messages)), NEW m \in Message
  PROVE  /\ Append(messages, m) \in Seq(Message)
         /\ Len(Append(messages, m)) = Len(messages) + 1
         /\ yielded \in Seq(1 .. Len(Append(messages, m)))
         /\ Append(yielded, Len(messages) + 1) \in Seq(1 .. Len(Append(messages, m)))
<1>1. /\ Append(messages, m) \in Seq(Message)
      /\ Len(Append(messages, m)) = Len(messages) + 1 /\ Len(messages) \in Nat
  BY AppendProperties, LenProperties
<1>2. yielded \in Seq(1 .. (Len(messages) + 1))
  <2>1. 1 .. Len(messages) \subseteq 1 .. (Len(messages) + 1)
    BY <1>1
  <2>2. \A k \in 1 .. Len(yielded) : yielded[k] \in 1 .. Len(messages)
    BY ElementOfSeq
  <2>3. QED
    BY <2>1, <2>2, LenProperties
<1>3. Append(yielded, Len(messages) + 1) \in Seq(1 .. (Len(messages) + 1))
  BY <1>1, <1>2, AppendProperties
<1>4. QED
  BY <1>1, <1>2, <1>3

\* So a step that appends m, and yields it or not, keeps the types of the three variables.
LEMMA GrownTypes ==
  ASSUME TypeOK, NEW m \in Message, messages' = Append(messages, m), base' = base,
         yielded' \in {yielded, Append(yielded, Len(messages) + 1)}
  PROVE  /\ messages' \in Seq(Message) /\ base' \in 0 .. Len(messages')
         /\ yielded' \in Seq(1 .. Len(messages'))
<1> DEFINE ms == Append(messages, m)
<1>1. /\ ms \in Seq(Message) /\ Len(ms) = Len(messages) + 1
      /\ yielded \in Seq(1 .. Len(ms))
      /\ Append(yielded, Len(messages) + 1) \in Seq(1 .. Len(ms))
  BY OneMoreMessage DEF TypeOK
<1>2. Len(messages) \in Nat /\ base \in 0 .. Len(messages)
  BY LenProperties DEF TypeOK
<1>3. messages' = ms
  OBVIOUS
<1>4. base' = base /\ yielded' \in {yielded, Append(yielded, Len(messages) + 1)}
  OBVIOUS
<1> HIDE DEF ms
<1>5. base' \in 0 .. Len(messages')
  BY <1>1, <1>2, <1>3, <1>4
<1>6. yielded' \in Seq(1 .. Len(ms))
  BY <1>1, <1>4
<1>7. QED
  BY <1>1, <1>3, <1>5, <1>6

\* The message with the results of a turn is well formed.
LEMMA ResultsType ==
  ASSUME ExecutorInv, pc = "draining", Executor!Unanswered = {}, ~InBlocks("unclosed")
  PROVE  ResultsMsg([b \in DOMAIN blocks |-> ResultOf(b)]) \in Message
<1>1. DOMAIN blocks = 1 .. Len(blocks) /\ Len(blocks) \in Nat
  BY LenProperties DEF ExecutorInv
<1>2. \A b \in DOMAIN blocks : ResultOf(b) \in Answers \cup {"refused"}
  BY BlocksAnswered
<1>3. [b \in 1 .. Len(blocks) |-> ResultOf(b)] \in Seq(Answers \cup {"refused"})
  BY <1>1, <1>2
<1>4. QED
  BY <1>1, <1>3 DEF ResultsMsg, Message

\* Every step keeps the types.
LEMMA TypeStep == TypeInv /\ ExecutorInv /\ [Next]_vars => TypeInv'
<1> SUFFICES ASSUME TypeInv, ExecutorInv, [Next]_vars PROVE TypeInv'
  OBVIOUS
<1> USE LoopAssumption DEF TypeInv, TypeOK, runVars, budget
<1>1. Len(messages) \in Nat /\ MaxSteps \in Nat /\ MaxRuns \in Nat
  BY LenProperties
<1>2. blocks' \in Seq(Fates) /\ Len(blocks') <= MaxBlocks
  BY ExecutorStep DEF ExecutorInv
<1>3. CASE UNCHANGED vars
  BY <1>3, <1>2 DEF vars
<1>4. CASE Cancel
  BY <1>4, <1>2 DEF Cancel
<1>5. CASE StartRun
  <2>1. Context \in Message /\ Prompt \in Message
    BY DEF Message
  <2>2. Append(messages, Prompt) \in Seq(Message) /\ Len(Append(messages, Prompt)) \in Nat
    BY <2>1, AppendProperties, LenProperties
  <2>3. <<Context>> \o Append(messages, Prompt) \in Seq(Message)
        /\ Len(<<Context>> \o Append(messages, Prompt)) = 1 + Len(Append(messages, Prompt))
    BY <2>1, <2>2, ConcatProperties
  <2>4. /\ messages' \in Seq(Message) /\ Len(messages') \in Nat
        /\ yielded' \in Seq(1 .. Len(messages'))
    <3>1. CASE NeedsContext
      <4>1. 1 \in 1 .. Len(messages') /\ messages' \in Seq(Message) /\ yielded' = <<1>>
        BY <1>5, <2>2, <2>3, <3>1 DEF StartRun
      <4>2. QED
        BY <4>1, LenProperties
    <3>2. CASE ~NeedsContext
      BY <1>5, <2>2, <3>2, EmptySeq DEF StartRun
    <3>3. QED
      BY <3>1, <3>2
  <2>5. QED
    BY <1>1, <1>2, <1>5, <2>4 DEF StartRun
<1>6. CASE BeginTurn
  BY <1>1, <1>2, <1>6 DEF BeginTurn, RunOut, CancelledBeforeTurn, AskModel
<1>7. CASE StreamFails \/ AwaitResponse
  <2>1. CASE StreamFails
    BY <1>2, <2>1 DEF StreamFails, Raise
  <2>2. CASE AwaitResponse
    <3>1. attempts' \in 0 .. Attempts
      BY <2>2 DEF AwaitResponse, Resend, Connected, Refused
    <3>2. /\ pc' \in {"asking", "streaming", "raising"} /\ outcome' \in {outcome, "protocol"}
          /\ pc = "asking"
      BY <2>2 DEF AwaitResponse, Resend, Connected, Refused, Raise
    <3>3. QED
      BY <1>2, <2>2, <3>1, <3>2 DEF AwaitResponse
  <2>3. QED
    BY <1>7, <2>1, <2>2
<1>8. ASSUME NEW fate \in Fates, StreamBlock(fate) PROVE TypeInv'
  BY <1>2, <1>8 DEF StreamBlock
<1>9. ASSUME NEW cost \in {0, 1}, StreamEnds(cost) PROVE TypeInv'
  <2>1. CASE InBlocks("malformed")
    BY <1>2, <1>9, <2>1 DEF StreamEnds, Raise
  <2>2. CASE ~InBlocks("malformed")
    <3>1. Assistant(blocks) \in Message
      BY DEF Assistant, Message
    <3>2. messages' = Append(messages, Assistant(blocks)) /\ base' = base
          /\ yielded' \in {yielded, Append(yielded, Len(messages) + 1)}
      BY <1>9, <2>2, <3>1, OneMoreMessage DEF StreamEnds
    <3>3. /\ messages' \in Seq(Message) /\ base' \in 0 .. Len(messages')
          /\ yielded' \in Seq(1 .. Len(messages'))
      BY <3>1, <3>2, GrownTypes
    <3>4. turns' \in Nat /\ usage' \in 0 .. turns'
      BY <1>9, <2>2 DEF StreamEnds
    <3>5. QED
      BY <1>2, <1>9, <2>2, <3>3, <3>4 DEF StreamEnds, Raise
  <2>3. QED
    BY <2>1, <2>2
<1>10. CASE Resume
  BY <1>2, <1>10 DEF Resume
<1>11. CASE Drain
  <2>1. CASE InBlocks("unclosed")
    BY <1>2, <1>11, <2>1 DEF Drain
  <2>2. CASE ~InBlocks("unclosed")
    <3>1. ResultsMsg([b \in DOMAIN blocks |-> ResultOf(b)]) \in Message
      BY <1>11, <2>2, ResultsType DEF Drain
    <3>2. /\ messages' \in Seq(Message) /\ base' \in 0 .. Len(messages')
          /\ yielded' \in Seq(1 .. Len(messages'))
      <4>1. messages' = Append(messages, ResultsMsg([b \in DOMAIN blocks |-> ResultOf(b)]))
            /\ base' = base /\ yielded' = Append(yielded, Len(messages) + 1)
        BY <1>11, <2>2, <3>1, OneMoreMessage DEF Drain
      <4>2. QED
        BY <3>1, <4>1, GrownTypes
    <3>3. QED
      BY <1>2, <1>11, <2>2, <3>2 DEF Drain
  <2>3. QED
    BY <2>1, <2>2
<1>12. CASE NextTurn
  BY <1>1, <1>2, <1>12 DEF NextTurn
<1>13. CASE Abandon
  BY <1>2, <1>13 DEF Abandon, Raise
<1>14. CASE Escape
  BY <1>2, <1>14 DEF Escape
<1>15. CASE SignalSeen
  BY <1>2, <1>15 DEF SignalSeen, Others
<1>16. ASSUME NEW i \in Executor!Unanswered, CallAnswers(i) PROVE TypeInv'
  BY <1>2, <1>16 DEF CallAnswers, Others
<1>17. QED
  BY <1>3, <1>4, <1>5, <1>6, <1>7, <1>8, <1>9, <1>10, <1>11, <1>12, <1>13, <1>14, <1>15, <1>16
     DEF Next

\* The types hold initially.
LEMMA TypeInit == Init => TypeInv
<1>1. <<>> \in Seq(Message) /\ <<>> \in Seq(Fates) /\ Len(<<>>) = 0
  BY EmptySeq
<1>2. <<>> \in Seq(1 .. 0)
  BY EmptySeq
<1>3. MaxSteps \in Nat /\ MaxRuns \in Nat /\ MaxBlocks \in Nat /\ Attempts \in Nat
  BY LoopAssumption
<1> SUFFICES ASSUME Init PROVE TypeInv
  OBVIOUS
<1>4. /\ messages = <<>> /\ base = 0 /\ yielded = <<>> /\ blocks = <<>>
      /\ pc = "idle" /\ signal = FALSE /\ runs = 0 /\ step = 0 /\ turns = 0 /\ usage = 0
      /\ denials = 0 /\ attempts = 0 /\ stopHooks = 0 /\ runSpan = "none"
      /\ outcome = "none"
  BY DEF Init
<1>5. messages \in Seq(Message) /\ base \in 0 .. Len(messages)
      /\ yielded \in Seq(1 .. Len(messages))
  BY <1>1, <1>2, <1>4
<1>6. blocks \in Seq(Fates) /\ Len(blocks) <= MaxBlocks
  BY <1>1, <1>3, <1>4
<1>7. runs \in 0 .. MaxRuns /\ step \in 0 .. MaxSteps /\ turns \in Nat /\ usage \in 0 .. turns
      /\ denials \in Nat /\ attempts \in 0 .. Attempts /\ stopHooks \in 0 .. 1
  BY <1>3, <1>4
<1>8. TypeOK
  BY <1>4, <1>5, <1>6, <1>7 DEF TypeOK
<1>9. QED
  BY <1>4, <1>8 DEF TypeInv

\* Types of the loop's state and of the message list: each result that is put in it is the
\* answer of a call or a refusal (by_id holds what it is asked for).
THEOREM LoopTypes == Spec => []TypeOK
<1>1. TypeInv => TypeOK
  BY DEF TypeInv
<1>2. QED
  BY <1>1, TypeInit, TypeStep, ExecutorInit, ExecutorStep, PTL DEF Spec

-----------------------------------------------------------------------------
(* The history.                                                            *)

\* The assistant messages of this run up to position n are answered.
PairedTo(n) ==
  \A p \in (base + 1) .. n : messages[p].role = "assistant" => Answered(p)

\* The strengthening: between the two appends of a turn the last message is the turn's, and
\* only that one may be unanswered; a run that raised does not end by itself.
HistoryInv ==
  /\ pc \in {"turn", "asking", "streaming", "answered"} => PairedTo(Len(messages))
  /\ pc = "idle" /\ outcome \in {"natural", "cancelled", "maxSteps"} => PairedTo(Len(messages))
  /\ pc \in {"yielded", "draining"} =>
       /\ base < Len(messages) /\ messages[Len(messages)] = Assistant(blocks)
       /\ PairedTo(Len(messages) - 1)
  /\ pc = "idle" /\ outcome = "natural" => messages[Len(messages)] = Assistant(<<>>)
  /\ pc = "raising" => outcome \in {"protocol", "budget", "abandoned"}

\* A step that leaves the list and the way the run ended alone keeps the history, unless it
\* opens a stage of the turn that it did not come from.
LEMMA SameHistory ==
  ASSUME HistoryInv, UNCHANGED <<messages, base>>,
         \/ UNCHANGED <<pc, blocks, outcome>>
         \/ pc \in {"turn", "asking", "streaming", "answered"} /\ pc' \in {"turn", "asking", "streaming"}
         \/ pc \in {"turn", "asking", "streaming", "answered"}
              /\ pc' = "idle" /\ outcome' \in {"cancelled", "maxSteps", "abandoned"}
         \/ pc' = "raising" /\ outcome' \in {"protocol", "budget", "abandoned"}
         \/ pc' = "idle" /\ outcome' \in {"protocol", "budget", "abandoned", "missingResult"}
  PROVE  HistoryInv'
  BY DEF HistoryInv, PairedTo, Answered

\* A message more changes nothing of the messages before it.
LEMMA EarlierMessages ==
  ASSUME messages \in Seq(Message), NEW m \in Message, messages' = Append(messages, m)
  PROVE  /\ Len(messages') = Len(messages) + 1 /\ Len(messages) \in Nat
         /\ \A p \in 1 .. Len(messages) : messages'[p] = messages[p]
         /\ messages'[Len(messages) + 1] = m
  BY AppendProperties, LenProperties

\* An answered message stays so when the list grows.
LEMMA AnsweredStays ==
  ASSUME messages \in Seq(Message), NEW m \in Message, messages' = Append(messages, m),
         NEW p \in 1 .. Len(messages), Answered(p)
  PROVE  Answered(p)'
<1>1. CASE messages[p].uses = <<>>
  <2>1. messages'[p] = messages[p]
    BY EarlierMessages
  <2>2. QED
    BY <1>1, <2>1 DEF Answered
<1>2. CASE messages[p].uses # <<>>
  <2>1. p < Len(messages)
    BY <1>2 DEF Answered
  <2>2. p + 1 \in 1 .. Len(messages) /\ Len(messages) < Len(messages')
    BY <2>1, EarlierMessages
  <2>3. messages'[p] = messages[p] /\ messages'[p + 1] = messages[p + 1] /\ p < Len(messages')
    BY <2>1, <2>2, EarlierMessages
  <2>4. QED
    BY <1>2, <2>3 DEF Answered
<1>3. QED
  BY <1>1, <1>2

\* So do all of them.
LEMMA PairedStays ==
  ASSUME messages \in Seq(Message), base \in Nat, base' = base,
         NEW m \in Message, messages' = Append(messages, m),
         NEW n \in Int, n <= Len(messages), PairedTo(n)
  PROVE  PairedTo(n)'
<1> SUFFICES ASSUME NEW p \in (base + 1) .. n, messages'[p].role = "assistant"
             PROVE  Answered(p)'
  BY DEF PairedTo
<1>1. p \in 1 .. Len(messages)
  BY LenProperties
<1>2. messages'[p] = messages[p]
  BY <1>1, EarlierMessages
<1>3. QED
  BY <1>1, <1>2, AnsweredStays DEF PairedTo

\* The message with the results answers the turn's assistant message.
LEMMA ResultsAnswer ==
  ASSUME TypeInv, ExecutorInv, pc = "draining", Executor!Unanswered = {},
         ~InBlocks("unclosed"),
         NEW n \in Nat, n = Len(messages), n > 0, messages[n] = Assistant(blocks),
         messages' = Append(messages, ResultsMsg([b \in DOMAIN blocks |-> ResultOf(b)]))
  PROVE  Answered(n)'
<1> DEFINE rs == [b \in DOMAIN blocks |-> ResultOf(b)]
<1>1. ResultsMsg(rs) \in Message /\ messages \in Seq(Message)
  BY ResultsType DEF TypeInv, TypeOK
<1>2. n \in 1 .. n /\ Len(messages') = n + 1
      /\ messages'[n] = Assistant(blocks) /\ messages'[n + 1] = ResultsMsg(rs)
  BY <1>1, EarlierMessages
<1>3. DOMAIN blocks = 1 .. Len(blocks) /\ Len(blocks) \in Nat /\ Len(rs) = Len(blocks)
  BY LenProperties DEF ExecutorInv
<1>4. \A b \in DOMAIN blocks : rs[b] = "refused" <=> blocks[b] \in Refusals
  BY BlocksAnswered
<1>5. messages'[n].uses = blocks /\ messages'[n + 1].results = rs
      /\ messages'[n + 1].role = "results"
  BY <1>2 DEF Assistant, ResultsMsg
<1>6. n < Len(messages')
  BY <1>2
<1> HIDE DEF rs
<1>7. /\ n < Len(messages') /\ messages'[n + 1].role = "results"
      /\ Len(messages'[n + 1].results) = Len(messages'[n].uses)
      /\ \A b \in DOMAIN messages'[n].uses :
           messages'[n + 1].results[b] = "refused" <=> messages'[n].uses[b] \in Refusals
  BY <1>3, <1>4, <1>5, <1>6
<1>8. QED
  BY <1>7 DEF Answered

\* Every step keeps the history.
LEMMA HistoryStep == HistoryInv /\ TypeInv /\ ExecutorInv /\ [Next]_vars => HistoryInv'
<1> SUFFICES ASSUME HistoryInv, TypeInv, ExecutorInv, [Next]_vars PROVE HistoryInv'
  OBVIOUS
<1> USE DEF runVars, budget
<1>1. Len(messages) \in Nat /\ base \in Nat /\ messages \in Seq(Message)
  BY LenProperties DEF TypeInv, TypeOK
<1>2. CASE UNCHANGED vars
  BY <1>2, SameHistory DEF vars
<1>3. CASE Cancel
  BY <1>3, SameHistory DEF Cancel
<1>4. CASE StartRun
  <2>1. pc' = "turn" /\ base' = Len(messages') /\ Len(messages') \in Nat
    <3>1. messages' \in Seq(Message)
      BY TypeStep DEF TypeInv, TypeOK
    <3>2. QED
      BY <1>4, <3>1, LenProperties DEF StartRun
  <2>2. PairedTo(Len(messages))'
    BY <2>1 DEF PairedTo
  <2>3. QED
    BY <2>1, <2>2 DEF HistoryInv
<1>5. CASE BeginTurn
  BY <1>5, SameHistory DEF BeginTurn, RunOut, CancelledBeforeTurn, AskModel
<1>6. CASE StreamFails \/ AwaitResponse
  BY <1>6, SameHistory DEF StreamFails, AwaitResponse, Resend, Connected, Refused, Raise
<1>7. ASSUME NEW fate \in Fates, StreamBlock(fate) PROVE HistoryInv'
  BY <1>7, SameHistory DEF StreamBlock
<1>8. ASSUME NEW cost \in {0, 1}, StreamEnds(cost) PROVE HistoryInv'
  <2>1. CASE pc' = "raising"
    BY <1>8, <2>1 DEF StreamEnds, Raise, HistoryInv
  <2>2. CASE pc' # "raising"
    <3>1. /\ pc = "streaming" /\ pc' = "yielded" /\ base' = base /\ blocks' = blocks
          /\ messages' = Append(messages, Assistant(blocks))
      BY <1>8, <2>2 DEF StreamEnds, Raise
    <3>2. Assistant(blocks) \in Message
      BY DEF Assistant, Message, ExecutorInv
    <3>3. Len(messages') = Len(messages) + 1 /\ messages'[Len(messages')] = Assistant(blocks)'
      BY <3>1, <3>2, <1>1, EarlierMessages DEF Assistant
    <3>4. base \in 0 .. Len(messages)
      BY DEF TypeInv, TypeOK
    <3>5. PairedTo(Len(messages))
      BY <3>1 DEF HistoryInv
    <3>6. PICK n \in Nat : n = Len(messages)
      BY <1>1
    <3>7. PairedTo(n)'
      BY <1>1, <3>1, <3>2, <3>5, <3>6, PairedStays
    <3>8. n = Len(messages') - 1
      BY <3>3, <3>6
    <3>9. QED
      BY <1>1, <3>1, <3>3, <3>4, <3>7, <3>8 DEF HistoryInv
  <2>3. QED
    BY <2>1, <2>2
<1>9. CASE Resume
  <2>1. CASE NoToolUses
    <3>1. /\ pc = "yielded" /\ pc' = "idle" /\ outcome' = "natural"
          /\ UNCHANGED <<messages, base, blocks>> /\ blocks = <<>>
      BY <1>9, <2>1 DEF Resume, NoToolUses
    <3>2. messages[Len(messages)] = Assistant(<<>>) /\ PairedTo(Len(messages) - 1)
      BY <3>1 DEF HistoryInv
    <3>3. Answered(Len(messages))
      BY <3>2 DEF Answered, Assistant
    <3>4. PairedTo(Len(messages))
      BY <1>1, <3>2, <3>3 DEF PairedTo
    <3>5. QED
      BY <3>1, <3>2, <3>4 DEF HistoryInv, PairedTo, Answered
  <2>2. CASE ~NoToolUses
    BY <1>9, <2>2 DEF Resume, HistoryInv, PairedTo, Answered
  <2>3. QED
    BY <2>1, <2>2
<1>10. CASE Drain
  <2>1. CASE InBlocks("unclosed")
    BY <1>10, <2>1, SameHistory DEF Drain
  <2>2. CASE ~InBlocks("unclosed")
    <3> DEFINE m == ResultsMsg([b \in DOMAIN blocks |-> ResultOf(b)])
    <3>1. /\ pc = "draining" /\ pc' = "answered" /\ base' = base
          /\ messages' = Append(messages, m) /\ Executor!Unanswered = {}
      BY <1>10, <2>2 DEF Drain
    <3>2. m \in Message
      BY <2>2, <3>1, ResultsType
    <3>3. PICK n \in Nat : n = Len(messages)
      BY <1>1
    <3>4. base < n /\ messages[n] = Assistant(blocks) /\ PairedTo(n - 1)
      BY <3>1, <3>3 DEF HistoryInv
    <3>5. PairedTo(n - 1)'
      BY <1>1, <3>1, <3>2, <3>3, <3>4, PairedStays
    <3>6. Answered(n)'
      BY <1>1, <2>2, <3>1, <3>3, <3>4, ResultsAnswer
    <3>7. Len(messages') = n + 1 /\ messages'[n + 1].role # "assistant"
      <4>1. Len(messages') = n + 1 /\ messages'[n + 1] = m
        BY <1>1, <3>1, <3>2, <3>3, EarlierMessages
      <4>2. m.role = "results"
        BY DEF ResultsMsg
      <4>3. QED
        BY <4>1, <4>2
    <3>8. ASSUME NEW p \in (base + 1) .. (n + 1), messages'[p].role = "assistant"
          PROVE  Answered(p)'
      <4>1. CASE p = n
        BY <3>6, <4>1
      <4>2. CASE p # n
        <5>1. p \in (base' + 1) .. (n - 1)
          BY <1>1, <3>1, <3>7, <3>8, <4>2
        <5>2. QED
          BY <3>5, <3>8, <5>1 DEF PairedTo
      <4>3. QED
        BY <4>1, <4>2
    <3>9. PairedTo(Len(messages))'
      BY <3>1, <3>7, <3>8 DEF PairedTo
    <3>10. QED
      BY <3>1, <3>9 DEF HistoryInv
  <2>3. QED
    BY <2>1, <2>2
<1>11. CASE NextTurn
  BY <1>11, SameHistory DEF NextTurn
<1>12. CASE Abandon
  BY <1>12, SameHistory DEF Abandon, Raise
<1>13. CASE Escape
  <2>1. outcome \in {"protocol", "budget", "abandoned"}
    BY <1>13 DEF Escape, HistoryInv
  <2>2. QED
    BY <1>13, <2>1, SameHistory DEF Escape
<1>14. CASE SignalSeen
  BY <1>14, SameHistory DEF SignalSeen, Others
<1>15. ASSUME NEW i \in Executor!Unanswered, CallAnswers(i) PROVE HistoryInv'
  BY <1>15, SameHistory DEF CallAnswers, Others
<1>16. QED
  BY <1>2, <1>3, <1>4, <1>5, <1>6, <1>7, <1>8, <1>9, <1>10, <1>11, <1>12, <1>13, <1>14, <1>15
     DEF Next

\* The four invariants together.
LEMMA LoopInvariants == Spec => [](TypeInv /\ ExecutorInv /\ HistoryInv)
<1>1. Init => HistoryInv
  BY DEF Init, HistoryInv
<1>2. QED
  BY <1>1, TypeInit, TypeStep, ExecutorInit, ExecutorStep, HistoryStep, PTL DEF Spec

\* Whatever was refused, failed or cancelled: when the model is asked again, and when a run
\* ends by itself, each tool_use of this run has its result in the very next message.
THEOREM HistoryIsPaired == Spec => []HistoryPaired
<1>1. HistoryInv => HistoryPaired
  BY DEF HistoryInv, HistoryPaired, PairedTo
<1>2. QED
  BY <1>1, LoopInvariants, PTL

\* A run that ends naturally ends with an assistant message without tool_use: a turn whose
\* calls were all refused goes on.
THEOREM EndsWithoutToolUse == Spec => []NaturalEnd
<1>1. HistoryInv => NaturalEnd
  BY DEF HistoryInv, NaturalEnd
<1>2. QED
  BY <1>1, LoopInvariants, PTL

-----------------------------------------------------------------------------
(* What the consumer sees.                                                 *)

\* The positions behind b, up to l.
Behind(b, l) == [k \in 1 .. (l - b) |-> b + k]
SeenUpTo(l) == \E front \in {<<>>, <<1>>} : yielded = front \o Behind(base, l)

\* The strengthening: a run that is not about to end has no outcome yet, and a message that
\* is in the list has been yielded, unless the run ends over the budget.
SeenInv ==
  /\ pc # "idle" => runs > 0
  /\ pc \notin {"idle", "raising"} => outcome = "none"
  /\ outcome = "budget" => base < Len(messages)
  /\ runs > 0 => SeenUpTo(IF outcome = "budget" THEN Len(messages) - 1 ELSE Len(messages))

\* One more message, one more position.
LEMMA SeenGrows ==
  ASSUME NEW l \in Nat, base \in 0 .. l, SeenUpTo(l), yielded' = Append(yielded, l + 1),
         base' = base
  PROVE  SeenUpTo(l + 1)'
<1>1. PICK front \in {<<>>, <<1>>} : yielded = front \o Behind(base, l)
  BY DEF SeenUpTo
<1>2. Behind(base, l) \in Seq(Nat) /\ Len(Behind(base, l)) = l - base
  BY DEF Behind
<1>3. Behind(base, l + 1) = Append(Behind(base, l), l + 1)
  <2>1. Behind(base, l + 1) \in Seq(Nat) /\ Len(Behind(base, l + 1)) = l + 1 - base
    BY DEF Behind
  <2>2. Append(Behind(base, l), l + 1) \in Seq(Nat)
        /\ Len(Append(Behind(base, l), l + 1)) = l + 1 - base
    BY <1>2
  <2>3. \A k \in 1 .. (l + 1 - base) :
          Behind(base, l + 1)[k] = Append(Behind(base, l), l + 1)[k]
    BY <1>2 DEF Behind
  <2>4. QED
    BY <2>1, <2>2, <2>3, SeqEqual
<1>4. front \in Seq(Nat)
  <2>1. <<>> \in Seq(Nat) /\ <<1>> \in Seq(Nat)
    OBVIOUS
  <2>2. QED
    BY <2>1
<1>5. Append(front \o Behind(base, l), l + 1) = front \o Append(Behind(base, l), l + 1)
  <2> DEFINE S == Nat  s == Behind(base, l)  x == l + 1
  <2>1. front \in Seq(S) /\ s \in Seq(S) /\ x \in S
    BY <1>2, <1>4
  <2> HIDE DEF S, s, x
  <2>2. Append(front \o s, x) = front \o Append(s, x)
    BY <2>1, SMTT(20)
  <2>3. QED
    BY <2>2 DEF s, x
<1>6. yielded' = front \o Behind(base', l + 1)
  <2>1. Append(yielded, l + 1) = front \o Behind(base, l + 1)
    BY <1>1, <1>3, <1>5
  <2>2. QED
    BY <2>1
<1>7. QED
  BY <1>1, <1>6 DEF SeenUpTo, Behind

\* Every step keeps it.
LEMMA SeenStep == SeenInv /\ TypeInv /\ ExecutorInv /\ [Next]_vars => SeenInv'
<1> SUFFICES ASSUME SeenInv, TypeInv, ExecutorInv, [Next]_vars PROVE SeenInv'
  OBVIOUS
<1> USE DEF runVars, budget
<1>1. Len(messages) \in Nat /\ base \in 0 .. Len(messages) /\ runs \in Nat /\ messages \in Seq(Message)
  BY LenProperties DEF TypeInv, TypeOK
<1>2. ASSUME UNCHANGED <<runs, base, messages, yielded>>,
             \/ UNCHANGED <<pc, outcome>>
             \/ outcome = "none" /\ outcome' # "budget" /\ pc' \in {"idle", "raising"} /\ runs > 0
             \/ UNCHANGED outcome /\ pc # "idle" /\ (pc' \in {"idle", "raising"} \/ pc # "raising")
      PROVE  SeenInv'
  <2>1. (outcome' = "budget") = (outcome = "budget") /\ Len(messages') = Len(messages)
    BY <1>2
  <2>2. \A l \in Int : SeenUpTo(l)' = SeenUpTo(l)
    BY <1>2 DEF SeenUpTo, Behind
  <2>3. /\ pc' # "idle" => runs' > 0
        /\ pc' \notin {"idle", "raising"} => outcome' = "none"
    BY <1>2 DEF SeenInv
  <2>4. QED
    BY <1>1, <1>2, <2>1, <2>2, <2>3 DEF SeenInv
<1>3. CASE StartRun
  <2>1. pc' = "turn" /\ outcome' = "none" /\ base' = Len(messages') /\ runs' = runs + 1
        /\ yielded' \in {<<>>, <<1>>}
    BY <1>3 DEF StartRun
  <2>2. Len(messages') \in Nat
    BY TypeStep DEF TypeInv, TypeOK
  <2>3. Behind(base, Len(messages))' = <<>>
    BY <2>1, <2>2 DEF Behind
  <2>4. SeenUpTo(Len(messages))'
    BY <2>1, <2>3 DEF SeenUpTo
  <2>5. QED
    BY <1>1, <2>1, <2>4 DEF SeenInv
<1>4. CASE Cancel \/ SignalSeen \/ UNCHANGED vars
  BY <1>2, <1>4 DEF Cancel, SignalSeen, Others, vars
<1>5. CASE BeginTurn
  BY <1>2, <1>5 DEF BeginTurn, RunOut, CancelledBeforeTurn, AskModel, SeenInv
<1>6. CASE StreamFails \/ Abandon \/ AwaitResponse
  BY <1>2, <1>6
     DEF StreamFails, Abandon, AwaitResponse, Resend, Connected, Refused, Raise, SeenInv
<1>7. ASSUME NEW fate \in Fates, StreamBlock(fate) PROVE SeenInv'
  BY <1>2, <1>7 DEF StreamBlock
<1>8. ASSUME NEW m, messages' = Append(messages, m), m \in Message, runs > 0, outcome = "none",
             UNCHANGED <<runs, base>>, pc' # "idle",
             \/ outcome' = "none" /\ yielded' = Append(yielded, Len(messages'))
             \/ outcome' = "budget" /\ pc' = "raising" /\ UNCHANGED yielded
      PROVE  SeenInv'
  <2>1. PICK n \in Nat : n = Len(messages)
    BY <1>1
  <2>2. Len(messages') = n + 1 /\ base \in 0 .. n /\ SeenUpTo(n)
    BY <1>1, <1>8, <2>1 DEF SeenInv
  <2>3. CASE outcome' = "none"
    <3>1. SeenUpTo(n + 1)'
      BY <1>8, <2>2, <2>3, SeenGrows
    <3>2. QED
      BY <1>8, <2>2, <2>3, <3>1 DEF SeenInv, SeenUpTo, Behind
  <2>4. CASE outcome' = "budget"
    <3>1. SeenUpTo(n)'
      BY <1>8, <2>2, <2>4 DEF SeenUpTo, Behind
    <3>2. n = Len(messages') - 1 /\ base' < Len(messages')
      BY <1>8, <2>2
    <3>3. SeenUpTo(Len(messages) - 1)'
      BY <3>1, <3>2 DEF SeenUpTo, Behind
    <3>4. QED
      BY <1>8, <2>4, <3>2, <3>3 DEF SeenInv, SeenUpTo, Behind
  <2>5. QED
    BY <1>8, <2>3, <2>4
<1>9. ASSUME NEW cost \in {0, 1}, StreamEnds(cost) PROVE SeenInv'
  <2>1. pc = "streaming" /\ runs > 0 /\ outcome = "none" /\ UNCHANGED <<runs, base>>
    BY <1>9 DEF StreamEnds, SeenInv
  <2>2. CASE InBlocks("malformed")
    BY <1>2, <1>9, <2>1, <2>2 DEF StreamEnds, Raise
  <2>3. CASE ~InBlocks("malformed")
    <3>1. messages' = Append(messages, Assistant(blocks)) /\ Assistant(blocks) \in Message
      BY <1>9, <2>3 DEF StreamEnds, Assistant, Message, TypeInv, TypeOK
    <3>2. \/ pc' = "yielded" /\ outcome' = outcome /\ yielded' = Append(yielded, Len(messages'))
          \/ pc' = "raising" /\ outcome' = "budget" /\ UNCHANGED yielded
      BY <1>9, <2>3 DEF StreamEnds, Raise
    <3>3. QED
      BY <1>8, <2>1, <3>1, <3>2
  <2>4. QED
    BY <2>2, <2>3
<1>10. CASE Resume
  BY <1>2, <1>10 DEF Resume, SeenInv
<1>11. CASE Drain
  <2>1. pc = "draining" /\ runs > 0 /\ outcome = "none" /\ UNCHANGED <<runs, base>>
    BY <1>11 DEF Drain, SeenInv
  <2>2. CASE InBlocks("unclosed")
    BY <1>2, <1>11, <2>1, <2>2 DEF Drain
  <2>3. CASE ~InBlocks("unclosed")
    <3> DEFINE m == ResultsMsg([b \in DOMAIN blocks |-> ResultOf(b)])
    <3>1. m \in Message
      BY <1>11, <2>1, <2>3, ResultsType DEF Drain
    <3> HIDE DEF m
    <3>2. /\ messages' = Append(messages, m) /\ yielded' = Append(yielded, Len(messages'))
          /\ pc' = "answered" /\ outcome' = outcome
      BY <1>11, <2>3 DEF Drain, m
    <3>3. QED
      BY <1>8, <2>1, <3>1, <3>2
  <2>4. QED
    BY <2>2, <2>3
<1>12. CASE NextTurn
  BY <1>2, <1>12 DEF NextTurn
<1>13. CASE Escape
  BY <1>2, <1>13 DEF Escape
<1>14. ASSUME NEW i \in Executor!Unanswered, CallAnswers(i) PROVE SeenInv'
  BY <1>2, <1>14 DEF CallAnswers, Others
<1>15. QED
  BY <1>3, <1>4, <1>5, <1>6, <1>7, <1>9, <1>10, <1>11, <1>12, <1>13, <1>14 DEF Next

\* The consumer of a run gets every message that the run adds to the list, each once and in
\* order; only a message that overran the budget stays in the list unseen.
THEOREM ConsumerGetsAll == Spec => []ConsumerSeesAll
<1>1. Init => SeenInv
  BY DEF Init, SeenInv
<1>2. SeenInv => ConsumerSeesAll
  BY DEF SeenInv, SeenUpTo, Behind, ConsumerSeesAll
<1>3. QED
  BY <1>1, <1>2, SeenStep, TypeInit, TypeStep, ExecutorInit, ExecutorStep, PTL DEF Spec
=============================================================================
