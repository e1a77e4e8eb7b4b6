------------------------------ MODULE AgentLoop ------------------------------
(***************************************************************************)
(* Agent.run_iter: the turn loop.  A run appends to the caller's list of   *)
(* messages.  A turn streams one assistant message from the provider; each *)
(* tool_use block is preflighted (PreToolUse hook, permission) when it     *)
(* closes, and dispatched to the turn's executor or refused; after the     *)
(* stream the assistant message is appended, the budget is checked, the    *)
(* message is yielded, the calls are waited for, and one message with a    *)
(* result for every tool_use block is appended and yielded.                *)
(*                                                                         *)
(* The executor is ToolDispatch, which ToolExecutor implements; which calls *)
(* run alone, and when their bodies start, makes no difference to the loop. *)
(* The ids of the tool_use blocks of one message differ, so a block stands *)
(* for its id.  Hooks other than Stop change nothing here and are left out. *)
(***************************************************************************)
EXTENDS Naturals, Sequences, FiniteSets

CONSTANTS
  MaxSteps,   \* Agent.max_steps
  MaxTurns,   \* Budget.max_turns
  MaxUsage,   \* Budget.max_usd and the token limits, as one
  MaxBlocks,  \* bound on the tool_use blocks of a message
  MaxRuns,    \* bound on the calls of run_iter with the same list
  Attempts,   \* RetryTransport: how often a request is sent at most
  HasContext, \* is there a user context to put before the conversation?
  Slots, Answers, NoAnswer  \* of ToolDispatch

ASSUME LoopAssumption ==
  /\ {MaxSteps, MaxTurns, MaxUsage, MaxBlocks, MaxRuns} \subseteq Nat
  /\ HasContext \in BOOLEAN
  /\ Attempts \in Nat \ {0}
  /\ Slots \in Nat \ {0}
  /\ NoAnswer \notin Answers /\ "refused" \notin Answers

VARIABLES
  pc,           \* "idle", "turn", "asking", "streaming", "yielded", "draining", "answered",
                \* "raising"
  signal,       \* cancellation_signal
  runs,         \* runs started
  step,         \* turns of this run that are over
  turns, usage, \* BudgetTracker: the agent's, so they outlive the run
  messages,     \* the caller's list
  base,         \* its length when the run started
  yielded,      \* positions of the messages this run has yielded
  blocks,       \* what became of each tool_use block of this turn
  denials,      \* length of _permission_denials
  attempts,     \* how often the request under way was sent
  stopHooks,    \* Stop hooks of this run
  runSpan,      \* "none", "open" or "ended"
  outcome,      \* how this run ends, "none" before
  requested, alone, answer, reported, executing, halted, closed  \* the executor

executor  == <<requested, alone, answer, reported, executing, halted, closed>>
runVars   == <<runs, step, base>>
budget    == <<turns, usage>>
vars == <<pc, signal, runVars, budget, messages, yielded, blocks, denials, attempts,
          stopHooks, runSpan, outcome, executor>>

Executor == INSTANCE ToolDispatch WITH N <- MaxBlocks

Context == [role |-> "context"]
Prompt  == [role |-> "prompt"]
Assistant(bs)  == [role |-> "assistant", uses |-> bs]
ResultsMsg(rs) == [role |-> "results", results |-> rs]

Refusals == {"blocked", "denied"}
\* A block can be closed, with input that parses or not, or never be closed.
Fates == Refusals \cup {"dispatched", "malformed", "unclosed"}

\* The executor is left and goes out of scope; a new one stands for the next turn's.
DropExecutor ==
  /\ requested' = 0 /\ alone' = {} /\ executing' = {} /\ reported' = <<>>
  /\ answer' = [i \in 1 .. MaxBlocks |-> NoAnswer]
  /\ halted' = FALSE /\ closed' = FALSE

-----------------------------------------------------------------------------
Init ==
  /\ pc = "idle" /\ signal = FALSE
  /\ runs = 0 /\ step = 0 /\ turns = 0 /\ usage = 0
  /\ messages = <<>> /\ base = 0 /\ yielded = <<>>
  /\ blocks = <<>> /\ denials = 0 /\ attempts = 0
  /\ stopHooks = 0 /\ runSpan = "none" /\ outcome = "none"
  /\ Executor!Init /\ halted = FALSE

\* Agent.cancel(), from any task, also between runs; nothing resets it.
Cancel ==
  /\ ~signal /\ signal' = TRUE
  /\ UNCHANGED <<pc, runVars, budget, messages, yielded, blocks, denials, attempts,
                 stopHooks, runSpan, outcome, executor>>

NeedsContext == HasContext /\ (messages = <<>> \/ messages[1].role # "context")

\* The caller adds a prompt to its list and starts run_iter.
StartRun ==
  /\ pc = "idle" /\ runs < MaxRuns
  /\ pc' = "turn"
  /\ runs' = runs + 1 /\ step' = 0
  /\ messages' = IF NeedsContext THEN <<Context>> \o Append(messages, Prompt)
                 ELSE Append(messages, Prompt)
  /\ base' = Len(messages')
  /\ yielded' = IF NeedsContext THEN <<1>> ELSE <<>>
  /\ stopHooks' = 0 /\ runSpan' = "open" /\ outcome' = "none"
  /\ UNCHANGED <<signal, budget, blocks, denials, attempts, executor>>

\* The three ways out at the top of the loop, and its normal course.
RunOut ==
  /\ step = MaxSteps
  /\ pc' = "idle" /\ outcome' = "maxSteps" /\ runSpan' = "ended"
  /\ UNCHANGED <<stopHooks, blocks, attempts, executor>>

CancelledBeforeTurn ==
  /\ step < MaxSteps /\ signal
  /\ pc' = "idle" /\ outcome' = "cancelled"
  /\ stopHooks' = stopHooks + 1 /\ runSpan' = "ended"
  /\ UNCHANGED <<blocks, attempts, executor>>

\* A new turn: a request to the provider with all messages so far.
AskModel ==
  /\ step < MaxSteps /\ ~signal
  /\ pc' = "asking" /\ attempts' = 1 /\ blocks' = <<>>
  /\ UNCHANGED <<stopHooks, runSpan, outcome, executor>>

BeginTurn ==
  /\ pc = "turn"
  /\ RunOut \/ CancelledBeforeTurn \/ AskModel
  /\ UNCHANGED <<signal, runVars, budget, messages, yielded, denials>>

\* An exception inside the async-with block: the executor cancels what is in
\* flight and is left before the exception gets to the caller.
Raise(reason) == pc' = "raising" /\ outcome' = reason

\* RetryTransport.  A connection that fails, a read that times out and some statuses are
\* tried again after a pause, and nothing here looks at the signal.
Resend    == attempts < Attempts /\ attempts' = attempts + 1 /\ UNCHANGED <<pc, outcome>>
Connected == pc' = "streaming" /\ attempts' = 0 /\ UNCHANGED outcome
\* The last attempt failed, or the failure is not one to try again on.
Refused   == Raise("protocol") /\ attempts' = 0

AwaitResponse ==
  /\ pc = "asking"
  /\ Resend \/ Connected \/ Refused
  /\ UNCHANGED <<signal, runVars, budget, messages, yielded, blocks, denials, stopHooks,
                 runSpan, executor>>

-----------------------------------------------------------------------------
(* The stream.                                                             *)

\* One tool_use block of the stream and its preflight.  The hook and the
\* permission check await, but nothing read before them is used after them.
StreamBlock(fate) ==
  /\ pc = "streaming" /\ Len(blocks) < MaxBlocks
  /\ blocks' = Append(blocks, fate)
  /\ denials' = IF fate = "denied" THEN denials + 1 ELSE denials
  /\ IF fate = "dispatched" THEN Executor!Request /\ UNCHANGED alone
     ELSE UNCHANGED executor
  /\ UNCHANGED <<pc, signal, runVars, budget, messages, yielded, attempts, stopHooks,
                 runSpan, outcome>>

\* An error event, a broken transport, a delta without its block.
StreamFails ==
  /\ pc = "streaming"
  /\ Raise("protocol")
  /\ UNCHANGED <<signal, runVars, budget, messages, yielded, blocks, denials, attempts,
                 stopHooks, runSpan, executor>>

InBlocks(fate) == \E b \in DOMAIN blocks : blocks[b] = fate

\* [seeded fault] A limit that is exactly reached does not count.
OverBudgetLate(t, u) == t > MaxTurns \/ u > MaxUsage

\* BudgetTracker.check.
OverBudget(t, u) == t >= MaxTurns \/ u >= MaxUsage

\* [seeded fault] The message is yielded before the budget is checked.
StreamEndsYieldsFirst(cost) ==
  /\ pc = "streaming"
  /\ IF InBlocks("malformed")
     THEN Raise("protocol") /\ UNCHANGED <<budget, messages, yielded>>
     ELSE /\ messages' = Append(messages, Assistant(blocks))
          /\ turns' = turns + 1 /\ usage' = usage + cost
          /\ yielded' = Append(yielded, Len(messages'))
          /\ IF OverBudget(turns', usage') THEN Raise("budget")
             ELSE pc' = "yielded" /\ UNCHANGED outcome
  /\ UNCHANGED <<signal, runVars, blocks, denials, attempts, stopHooks, runSpan, executor>>

\* The stream is over: finalize, append, charge the budget, yield.
StreamEnds(cost) ==
  /\ pc = "streaming"
  /\ IF InBlocks("malformed")
     THEN Raise("protocol") /\ UNCHANGED <<budget, messages, yielded>>
     ELSE /\ messages' = Append(messages, Assistant(blocks))
          /\ turns' = turns + 1 /\ usage' = usage + cost
          /\ IF OverBudget(turns', usage')
             THEN Raise("budget") /\ UNCHANGED yielded
             ELSE /\ pc' = "yielded" /\ yielded' = Append(yielded, Len(messages'))
                  /\ UNCHANGED outcome
  /\ UNCHANGED <<signal, runVars, blocks, denials, attempts, stopHooks, runSpan, executor>>

-----------------------------------------------------------------------------
(* From the assistant message to the results.                              *)

\* [seeded fault] A turn whose calls were all refused is taken for the last one.
NoToolUsesDispatched == requested = 0

NoToolUses == blocks = <<>>

\* The consumer asks for the next item.
Resume ==
  /\ pc = "yielded"
  /\ IF NoToolUses
     THEN /\ pc' = "idle" /\ outcome' = "natural"
          /\ stopHooks' = stopHooks + 1 /\ runSpan' = "ended"
          /\ DropExecutor
     ELSE pc' = "draining" /\ UNCHANGED <<outcome, stopHooks, runSpan, executor>>
  /\ UNCHANGED <<signal, runVars, budget, messages, yielded, blocks, denials, attempts>>

\* [seeded fault] Results are matched with blocks by position.
ResultOfByPosition(b) ==
  IF b <= requested THEN answer[b] ELSE "refused"

\* by_id: the executor's result of the call made for block b, or the refusal.
ResultOf(b) ==
  IF blocks[b] \in Refusals THEN "refused"
  ELSE answer[Cardinality({c \in 1 .. b : blocks[c] = "dispatched"})]

\* [seeded fault] The results are collected without waiting for the calls.
DrainEarly ==
  /\ pc = "draining"
  /\ DropExecutor
  /\ IF InBlocks("unclosed")
     THEN /\ pc' = "idle" /\ outcome' = "missingResult"
          /\ UNCHANGED <<messages, yielded>>
     ELSE /\ messages' = Append(messages, ResultsMsg([b \in DOMAIN blocks |-> ResultOf(b)]))
          /\ yielded' = Append(yielded, Len(messages'))
          /\ pc' = "answered" /\ UNCHANGED outcome
  /\ UNCHANGED <<signal, runVars, budget, blocks, denials, attempts, stopHooks, runSpan>>

\* wait_all, the exit of the executor and the message with the results.  There is
\* none for a block that was never closed: the lookup by its id fails.
Drain ==
  /\ pc = "draining" /\ Executor!Unanswered = {}
  /\ DropExecutor
  /\ IF InBlocks("unclosed")
     THEN /\ pc' = "idle" /\ outcome' = "missingResult"
          /\ UNCHANGED <<messages, yielded>>
     ELSE /\ messages' = Append(messages, ResultsMsg([b \in DOMAIN blocks |-> ResultOf(b)]))
          /\ yielded' = Append(yielded, Len(messages'))
          /\ pc' = "answered" /\ UNCHANGED outcome
  /\ UNCHANGED <<signal, runVars, budget, blocks, denials, attempts, stopHooks, runSpan>>

\* The consumer asks for the next item: the turn is over.
NextTurn ==
  /\ pc = "answered"
  /\ pc' = "turn" /\ step' = step + 1
  /\ UNCHANGED <<signal, runs, base, budget, messages, yielded, blocks, denials, attempts,
                 stopHooks, runSpan, outcome, executor>>

\* The consumer closes the generator at one of the two yields.
Abandon ==
  /\ \/ pc = "yielded" /\ Raise("abandoned")
     \/ pc = "answered" /\ pc' = "idle" /\ outcome' = "abandoned"
  /\ UNCHANGED <<signal, runVars, budget, messages, yielded, blocks, denials, attempts,
                 stopHooks, runSpan, executor>>

\* The executor is left and the exception reaches the caller.
Escape ==
  /\ pc = "raising" /\ Executor!Unanswered = {}
  /\ DropExecutor
  /\ pc' = "idle"
  /\ UNCHANGED <<signal, runVars, budget, messages, yielded, blocks, denials, attempts,
                 stopHooks, runSpan, outcome>>

-----------------------------------------------------------------------------
(* The executor while the turn is open.                                    *)

Busy == pc \in {"asking", "streaming", "yielded", "draining", "raising"}

Others == UNCHANGED <<pc, signal, runVars, budget, messages, yielded, blocks, denials,
                      attempts, stopHooks, runSpan, outcome>>

\* A call ends with its result; a failing one may halt the executor.
CallAnswers(i) == Busy /\ Executor!Answer({i}) /\ Others
\* [seeded fault] The watcher lives only as long as the stream.
SignalSeenInStream ==
  pc = "streaming" /\ signal /\ ~halted /\ Executor!Halt /\ Others

\* The executor's watcher.
SignalSeen == Busy /\ signal /\ ~halted /\ Executor!Halt /\ Others

Next ==
  \/ Cancel \/ StartRun \/ BeginTurn \/ AwaitResponse \/ StreamFails
  \/ \E fate \in Fates : StreamBlock(fate)
  \/ \E cost \in {0, 1} : StreamEnds(cost)
  \/ Resume \/ Drain \/ NextTurn \/ Abandon \/ Escape \/ SignalSeen
  \/ \E i \in Executor!Unanswered : CallAnswers(i)

Spec == Init /\ [][Next]_vars

\* The loop, the consumer and the executor's watcher go on when they can; a request is
\* answered or fails, and a stream ends some day.  Tools need not return, unless the executor cancels them
\* (CancelSettles and RaiseExits of ToolExecutor).
CancelledCallAnswers ==
  (halted \/ pc = "raising") /\ \E i \in Executor!Unanswered : CallAnswers(i)
LoopFairness ==
  /\ WF_vars(BeginTurn) /\ WF_vars(AwaitResponse) /\ WF_vars(\E cost \in {0, 1} : StreamEnds(cost))
  /\ WF_vars(Resume) /\ WF_vars(Drain) /\ WF_vars(NextTurn) /\ WF_vars(Escape)
  /\ WF_vars(SignalSeen) /\ WF_vars(CancelledCallAnswers)

FairSpec == Spec /\ LoopFairness

-----------------------------------------------------------------------------
Message ==
  {Context, Prompt}
    \cup [role : {"assistant"}, uses : Seq(Fates)]
    \cup [role : {"results"}, results : Seq(Answers \cup {"refused"})]

TypeOK ==
  /\ pc \in {"idle", "turn", "asking", "streaming", "yielded", "draining", "answered",
             "raising"}
  /\ signal \in BOOLEAN
  /\ runs \in 0 .. MaxRuns /\ step \in 0 .. MaxSteps
  /\ turns \in Nat /\ usage \in 0 .. turns
  /\ base \in 0 .. Len(messages)
  /\ messages \in Seq(Message)
  /\ yielded \in Seq(1 .. Len(messages))
  /\ blocks \in Seq(Fates) /\ Len(blocks) <= MaxBlocks
  /\ denials \in Nat /\ attempts \in 0 .. Attempts /\ stopHooks \in 0 .. 1
  /\ runSpan \in {"none", "open", "ended"}
  /\ outcome \in {"none", "natural", "cancelled", "maxSteps", "budget", "protocol",
                  "missingResult", "abandoned"}

\* An assistant message is answered when the next message has one result for each
\* of its tool_use blocks, a refusal exactly for those the preflight refused.
Answered(p) ==
  LET uses == messages[p].uses IN
  uses # <<>> =>
    /\ p < Len(messages) /\ messages[p + 1].role = "results"
    /\ LET rs == messages[p + 1].results IN
       /\ Len(rs) = Len(uses)
       /\ \A b \in DOMAIN uses : rs[b] = "refused" <=> uses[b] \in Refusals

\* Whatever was cancelled, refused or failed, the model is never asked again with
\* a tool_use of this run unanswered, and a run that ends by itself leaves none.
HistoryPaired ==
  \/ pc \in {"turn", "asking", "streaming"}
  \/ pc = "idle" /\ outcome \in {"natural", "cancelled", "maxSteps"}
  => \A p \in (base + 1) .. Len(messages) : messages[p].role = "assistant" => Answered(p)

\* The last message of a natural end is an assistant message without tool_use.
NaturalEnd ==
  outcome = "natural" /\ pc = "idle"
    => messages[Len(messages)] = Assistant(<<>>)

\* A caller that starts run after run on one agent pays at most one turn for each
\* after the budget is used up.
OverrunBounded ==
  /\ runs > 0 /\ MaxTurns > 0 => turns <= (MaxTurns - 1) + runs
  /\ pc \in {"yielded", "draining", "answered"} => turns < MaxTurns /\ usage < MaxUsage

\* The consumer sees every message of the run, once and in order, behind the context if the
\* run put it in front; only the one that overran the budget stays in the list unseen.
ConsumerSeesAll ==
  LET last == IF outcome = "budget" THEN Len(messages) - 1 ELSE Len(messages)
  IN  runs > 0 => \E front \in {<<>>, <<1>>} :
                    yielded = front \o [k \in 1 .. (last - base) |-> base + k]

\* cancel() ends the run also when every tool hangs.
CancelEndsRun == signal ~> pc = "idle"

-----------------------------------------------------------------------------
\* Agent.cancel: "no more model calls are issued after cancel() fires".  A request that is
\* under way then is sent again all the same.
NoRequestAfterCancel == [][signal => attempts' <= attempts]_vars

\* BudgetTracker.check: "the agent loop guarantees the in-flight tool call (if any)
\* has produced its result before this is called".
CallsAnsweredBeforeCheck == [][outcome' = "budget" /\ outcome # "budget"
                                 => Executor!Unanswered = {}]_vars
=============================================================================
