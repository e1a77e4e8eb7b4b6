------------------------------ MODULE QueryRun -------------------------------
(***************************************************************************)
(* query(): a prompt and options become an agent, its run, and a stream of  *)
(* SDK messages that ends with a result.  Three front ends share the agent: *)
(* "dict" (query.py, options in a dict, transcript on request), "compat"    *)
(* (compat_query.py, ClaudeAgentOptions) and "client" (ClaudeSDKClient, one *)
(* prompt at a time in front of compat).                                    *)
(*                                                                         *)
(* query is a generator: it stands still at every message it yields until   *)
(* its consumer asks for the next one or drops it.  A process that keeps a  *)
(* transcript may also crash; its next run appends to the same file.  What   *)
(* it writes may fail, or be cut short without a word.                      *)
(*                                                                         *)
(* The turn loop is AgentLoop's, and the executor's: here calls are waited  *)
(* for in one step, and what a tool answers makes no difference.            *)
(***************************************************************************)
EXTENDS Options, WireMessages, Transcript
INSTANCE Permissions

CONSTANTS
  Setups,    \* calls of query(): front, options, env, prompt, the model's calls, runs
  MaxBlocks, \* bound on the tool_use blocks of a message
  Attempts,  \* RetryTransport._attempts
  MaxCrashes,\* bound on the crashes
  MaxShort   \* bound on the partial records that are in the file before a short write

ASSUME QueryAssumption ==
  /\ MaxBlocks \in Nat /\ Attempts \in Nat \ {0} /\ MaxCrashes \in Nat /\ MaxShort \in Nat
  /\ \A s \in Setups :
       s.front \in {"dict", "compat", "client"} /\ s.prompt.items \in Nat /\ s.runs \in Nat

VARIABLES
  setup,     \* the call of query(); it never changes
  pc,        \* where the run stands
  item,      \* the message being written, yielded, or held by the consumer
  seeded,    \* items of the prompt echoed so far
  history,   \* the messages of the run
  blocks,    \* the turn's tool_use blocks, and what became of each
  verdicts,  \* the blocks of all turns, as a set
  step,      \* turns that are over
  cost,      \* BudgetTracker.total_usd
  attempts,  \* attempts that failed for this request
  numTurns,  \* num_turns
  outcome,   \* why the loop ended: "none" if nothing was raised
  open,      \* runs whose agent has an open client
  pending,   \* ClaudeSDKClient._pending_prompt: has it one?
  file,      \* the transcript
  delivered, \* what the consumers got, over all runs
  ends,      \* how each run that is over ended
  crashes

runState == <<item, seeded, history, blocks, verdicts, step, cost, attempts, numTurns, outcome>>
world    == <<open, pending, file, delivered, ends, crashes>>
vars     == <<setup, pc, runState, world>>

\* The agent is made anew for each run, always from the same options.
Built(s) ==
  IF s.front = "dict" THEN AgentFromOptions(s.options, s.env)
  ELSE BuildAgent(IF s.options = None THEN NoSettings ELSE ToQueryOptions(s.options), s.env)
AgentFor == [s \in Setups |-> Built(s)]

\* Rules and names come in lists.
ASSUME ListsAssumption ==
  \A s \in Setups :
    /\ LET rules == AgentFor[s].permissions.rules IN
       AgentFor[s].built /\ AgentFor[s].permissions # None /\ rules # None =>
         rules.deny \in Seq(Range(rules.deny))
    /\ s.front # "dict" /\ s.options # None /\ s.options.settingSources # None =>
         s.options.settingSources \in Seq(STRING)
    /\ AgentFor[s].built => AgentFor[s].system \in Seq({Text})

agent  == AgentFor[setup]
prompt == setup.prompt
run    == Len(ends) + 1
persisted == setup.front = "dict" /\ agent.built /\ agent.persist

Item(kind, n) == [run |-> run, kind |-> kind, n |-> n]
\* Agent._permission_denials, read when the loop is over.
Denials == {v.id : v \in {w \in verdicts : w.verdict = "denied"}}
BuildResult(subtype, turns, denials) ==
  [run |-> run, kind |-> "result", subtype |-> subtype, turns |-> turns, denials |-> denials]
ResultItem(subtype) == BuildResult(subtype, numTurns, Denials)

NoItem == [kind |-> "none"]
\* The items yielded from inside the loop, where "finally" closes the agent.
InLoop == {"meta", "assistant", "results"}

Fresh ==
  /\ item' = NoItem /\ seeded' = 0 /\ history' = <<>> /\ blocks' = <<>> /\ verdicts' = {}
  /\ step' = 0 /\ cost' = 0 /\ attempts' = 0 /\ numTurns' = 0 /\ outcome' = "none"

Init ==
  /\ setup \in Setups /\ pc = "idle"
  /\ item = NoItem /\ seeded = 0 /\ history = <<>> /\ blocks = <<>> /\ verdicts = {}
  /\ step = 0 /\ cost = 0 /\ attempts = 0 /\ numTurns = 0 /\ outcome = "none"
  /\ open = {} /\ pending = FALSE
  /\ file = <<>> /\ delivered = <<>> /\ ends = <<>> /\ crashes = 0

Make(it) == item' = it /\ pc' = "made"

\* The run is over; its local state is gone.
End(how) ==
  /\ pc' = "idle" /\ ends' = Append(ends, how) /\ Fresh

-----------------------------------------------------------------------------
(* Before the loop.                                                        *)

\* ClaudeSDKClient.query: the prompt replaces one that was not received yet.
ClientQuery ==
  /\ setup.front = "client" /\ pc = "idle" /\ Len(ends) < setup.runs
  /\ pending' = TRUE
  /\ UNCHANGED <<setup, pc, runState, open, file, delivered, ends, crashes>>

\* ClaudeSDKClient.receive_response takes the prompt, and raises where there is none.
Receives == IF setup.front = "client" THEN pending /\ pending' = FALSE ELSE UNCHANGED pending

NothingToReceive ==
  /\ setup.front = "client" /\ pc = "idle" /\ ~pending /\ Len(ends) < setup.runs
  /\ End("raised")
  /\ UNCHANGED <<setup, open, pending, file, delivered, crashes>>

\* _collect_prompt of the dict front end comes before anything is yielded.
PromptFails == setup.front = "dict" /\ (prompt.raises \/ prompt.items = 0)

\* A client is opened with the agent.  The first thing yielded is the banner.
Start ==
  /\ pc = "idle" /\ Len(ends) < setup.runs /\ Receives
  /\ open' = IF agent.built THEN open \cup {run} ELSE open
  /\ IF ~agent.built \/ PromptFails THEN End("raised")
     ELSE Make(Item("init", 0)) /\ UNCHANGED <<seeded, history, blocks, verdicts, step,
                                              cost, attempts, numTurns, outcome, ends>>
  /\ UNCHANGED <<setup, file, delivered, crashes>>

\* What run_iter starts with: the user context, if any, is put before the prompt.
EnterLoop ==
  LET seeds == [i \in 1 .. prompt.items |-> Message("user", <<Text>>)] IN
  /\ IF agent.context THEN Make(Item("meta", 0)) ELSE pc' = "turn" /\ UNCHANGED item
  /\ history' = IF agent.context THEN <<Message("user", <<Text>>)>> \o seeds ELSE seeds
  /\ UNCHANGED <<seeded, blocks, verdicts, step, cost, attempts, numTurns, outcome, ends>>

EchoSeed ==
  /\ seeded' = seeded + 1 /\ Make(Item("user", seeded + 1))
  /\ UNCHANGED <<history, blocks, verdicts, step, cost, attempts, numTurns, outcome, ends>>

\* The compat front end reads the prompt while it echoes it.
AfterSeed ==
  IF seeded < prompt.items THEN EchoSeed
  ELSE IF prompt.raises THEN End("raised")
  ELSE IF prompt.items = 0
       THEN /\ Make(BuildResult("error_during_execution", 0, {}))
            /\ UNCHANGED <<seeded, history, blocks, verdicts, step, cost, attempts,
                           numTurns, outcome, ends>>
  ELSE EnterLoop

-----------------------------------------------------------------------------
(* A message reaches the consumer.                                         *)

Deliver == pc' = "yielded" /\ delivered' = Append(delivered, item)

\* Persist-before-yield.  The write may be cut short.
Write ==
  /\ pc = "made" /\ persisted
  /\ pc' = "written"
  /\ \/ file' = WriteRecord(file, item)
     \/ /\ Cardinality({i \in DOMAIN file : file[i].how \in Partial}) < MaxShort
        /\ file' \in ShortWrites(file, item)
  /\ UNCHANGED <<setup, runState, open, pending, delivered, ends, crashes>>

\* An exception of the loop ends in the result, with the subtype it maps to.
Raise(subtype) == pc' = "closing" /\ outcome' = subtype

\* The write raises, and nothing is in the file: inside the loop like any exception there,
\* outside it query raises and nothing closes the agent.
WriteFails ==
  /\ pc = "made" /\ persisted
  /\ IF item.kind \in InLoop
     THEN /\ Raise("error_during_execution")
          /\ UNCHANGED <<item, seeded, history, blocks, verdicts, step, cost, attempts,
                         numTurns, ends>>
     ELSE End("raised")
  /\ UNCHANGED <<setup, open, pending, file, delivered, crashes>>

\* [seeded fault] A message may be yielded that is not in the file yet.
YieldUnwritten ==
  /\ pc \in {"made", "written"}
  /\ Deliver
  /\ UNCHANGED <<setup, runState, open, pending, file, ends, crashes>>

Yield ==
  /\ pc = (IF persisted THEN "written" ELSE "made")
  /\ Deliver
  /\ UNCHANGED <<setup, runState, open, pending, file, ends, crashes>>

-----------------------------------------------------------------------------
(* The loop.                                                               *)

BeginTurn ==
  /\ pc = "turn"
  /\ IF step = agent.maxSteps THEN pc' = "closing" /\ UNCHANGED <<attempts, outcome>>
     ELSE IF agent.format # None /\ TranslateResponseFormat(agent.provider) = None
     THEN Raise("error_during_execution") /\ UNCHANGED attempts
     ELSE pc' = "request" /\ attempts' = 0 /\ UNCHANGED outcome
  /\ UNCHANGED <<setup, item, seeded, history, blocks, verdicts, step, cost, numTurns, world>>

\* [seeded fault] The attempt after the last is one too many.
RetryOnceMore ==
  /\ attempts' = attempts + 1
  /\ IF attempts' <= Attempts THEN UNCHANGED <<pc, outcome>> ELSE Raise("error_during_execution")

\* [seeded fault] A dropped connection makes the count start anew.
RetryAnew ==
  \/ attempts' = 0 /\ UNCHANGED <<pc, outcome>>
  \/ /\ attempts' = attempts + 1
     /\ IF attempts' < Attempts THEN UNCHANGED <<pc, outcome>> ELSE Raise("error_during_execution")

\* RetryTransport.handle_async_request.  A retryable status of the last attempt is
\* handed out, and raise_for_status raises; so does an exception of the last attempt.
Retry ==
  /\ attempts' = attempts + 1
  /\ IF attempts' < Attempts THEN UNCHANGED <<pc, outcome>> ELSE Raise("error_during_execution")

\* raise_for_status of any other status from 400 on, or an exception that is not retried.
RaiseForStatus == Raise("error_during_execution") /\ UNCHANGED attempts

Attempt ==
  /\ pc = "request"
  /\ \/ pc' = "streaming" /\ UNCHANGED <<attempts, outcome>>
     \/ Retry
     \/ RaiseForStatus
  /\ UNCHANGED <<setup, item, seeded, history, blocks, verdicts, step, cost, numTurns, world>>

\* ToolRegistry.get
Registered(name) == \E t \in agent.tools : t.name = name
ToolNamed(name) == CHOOSE t \in agent.tools : t.name = name

\* A tool that is not registered is dispatched all the same: the executor answers that it
\* does not exist.
VerdictOn(call) ==
  IF Registered(call.tool)
  THEN Preflight(ToolNamed(call.tool), call.input, agent.hook, agent.permissions)
  ELSE Verdict("dispatched", call.input, FALSE)

\* A tool_use block closes.
StreamCall(call) ==
  LET v == VerdictOn(call)
      block == [id |-> <<step, Len(blocks) + 1>>, tool |-> call.tool, sent |-> call.input,
                input |-> v.input, verdict |-> v.verdict, rewritten |-> v.rewritten]
  IN /\ pc = "streaming" /\ Len(blocks) < MaxBlocks
     /\ IF v.verdict = "raised"
        THEN Raise("error_during_execution") /\ UNCHANGED <<blocks, verdicts>>
        ELSE /\ blocks' = Append(blocks, block) /\ verdicts' = verdicts \cup {block}
             /\ UNCHANGED <<pc, outcome>>
     /\ UNCHANGED <<setup, item, seeded, history, step, cost, attempts, numTurns, world>>

\* Anthropic's events are relayed: a stream that ends before a block was closed leaves a
\* call that is in the message and was never looked at.
LeaveOpen(call) ==
  LET block == [id |-> <<step, Len(blocks) + 1>>, tool |-> call.tool, sent |-> call.input,
                input |-> call.input, verdict |-> "open", rewritten |-> FALSE]
  IN /\ pc = "streaming" /\ Len(blocks) < MaxBlocks /\ agent.provider = "anthropic_passthrough"
     /\ blocks' = Append(blocks, block) /\ verdicts' = verdicts \cup {block}
     /\ UNCHANGED <<setup, pc, item, seeded, history, step, cost, attempts, numTurns, outcome,
                    world>>

\* The connection, the SSE parser, the adapter or the assembler raises.
StreamFails ==
  /\ pc = "streaming" /\ Raise("error_during_execution")
  /\ UNCHANGED <<setup, item, seeded, history, blocks, verdicts, step, cost, attempts, numTurns,
                 world>>

\* BudgetTracker.check, after the turn and its usage were added.
Exceeded(spent) ==
  IF agent.budget = None THEN "none"
  ELSE IF step + 1 >= agent.budget.turns THEN "error_max_turns"
  ELSE IF spent >= agent.budget.usd THEN "error_max_budget_usd" ELSE "none"

AssistantMessage ==
  Message("assistant",
          IF blocks = <<>> THEN <<Text>>
          ELSE [i \in DOMAIN blocks |-> ToolUse(blocks[i].id, blocks[i].tool, blocks[i].sent)])

\* [seeded fault] A turn that exceeds the budget is counted though it is not yielded.
StreamEndsCounted(spent) ==
  /\ pc = "streaming" /\ (spent = 0 \/ agent.budget # None)
  /\ history' = Append(history, AssistantMessage)
  /\ cost' = cost + spent /\ numTurns' = numTurns + 1
  /\ IF Exceeded(cost') # "none" THEN Raise(Exceeded(cost')) /\ UNCHANGED item
     ELSE Make(Item("assistant", step)) /\ UNCHANGED outcome
  /\ UNCHANGED <<setup, seeded, blocks, verdicts, step, attempts, world>>

\* The assistant message is appended; it is yielded, and counted, if the budget allows.
StreamEnds(spent) ==
  /\ pc = "streaming" /\ (spent = 0 \/ agent.budget # None)
  /\ history' = Append(history, AssistantMessage)
  /\ cost' = cost + spent
  /\ IF Exceeded(cost') # "none" THEN Raise(Exceeded(cost')) /\ UNCHANGED <<item, numTurns>>
     ELSE Make(Item("assistant", step)) /\ numTurns' = numTurns + 1 /\ UNCHANGED outcome
  /\ UNCHANGED <<setup, seeded, blocks, verdicts, step, attempts, world>>

\* wait_all has returned: one message with a result for every block.  A block that was
\* never closed has none, and the lookup raises.
RunTools ==
  /\ pc = "tools"
  /\ IF \E i \in DOMAIN blocks : blocks[i].verdict = "open"
     THEN Raise("error_during_execution") /\ UNCHANGED <<item, history>>
     ELSE /\ history' = Append(history, Message("user",
                           [i \in DOMAIN blocks |->
                              ToolResult(blocks[i].id, blocks[i].verdict # "dispatched")]))
          /\ Make(Item("results", step)) /\ UNCHANGED outcome
  /\ UNCHANGED <<setup, seeded, blocks, verdicts, step, cost, attempts, numTurns, world>>

\* [seeded fault] The agent is closed only where nothing was raised.
CloseOnSuccess ==
  /\ pc = "closing" /\ open' = IF outcome = "none" THEN open \ {run} ELSE open
  /\ Make(ResultItem(IF outcome = "none" THEN "success" ELSE outcome))
  /\ UNCHANGED <<setup, seeded, history, blocks, verdicts, step, cost, attempts, numTurns, outcome,
                 pending, file, delivered, ends, crashes>>

\* The loop is over: the agent is closed, then the result is made.
Close ==
  /\ pc = "closing" /\ open' = open \ {run}
  /\ Make(ResultItem(IF outcome = "none" THEN "success" ELSE outcome))
  /\ UNCHANGED <<setup, seeded, history, blocks, verdicts, step, cost, attempts, numTurns, outcome,
                 pending, file, delivered, ends, crashes>>

-----------------------------------------------------------------------------
(* The consumer.                                                           *)

\* Without a call the turn was the last.
AfterAssistant ==
  /\ pc' = IF blocks = <<>> THEN "closing" ELSE "tools"
  /\ UNCHANGED <<runState, ends>>

NextTurn ==
  /\ pc' = "turn" /\ step' = step + 1 /\ blocks' = <<>>
  /\ UNCHANGED <<item, seeded, history, verdicts, cost, attempts, numTurns, outcome, ends>>

\* The consumer asks for the next message.  Behind the result of an empty prompt the
\* agent is still to be closed.
AsksOn ==
  /\ pc = "yielded"
  /\ \/ item.kind \in {"init", "user"} /\ AfterSeed
     \/ item.kind = "meta" /\ pc' = "turn" /\ UNCHANGED <<runState, ends>>
     \/ item.kind = "assistant" /\ AfterAssistant
     \/ item.kind = "results" /\ NextTurn
     \/ item.kind = "result" /\ End("finished")
  /\ open' = IF item.kind = "result" /\ prompt.items = 0 THEN open \ {run} ELSE open
  /\ UNCHANGED <<setup, pending, file, delivered, crashes>>

\* It drops the generator: inside the loop the agent is closed, elsewhere nothing is done.
Drop ==
  /\ pc = "yielded"
  /\ IF item.kind \in InLoop THEN pc' = "dropped" /\ UNCHANGED <<runState, ends>>
     ELSE End("dropped")
  /\ UNCHANGED <<setup, open, pending, file, delivered, crashes>>

CloseDropped ==
  /\ pc = "dropped" /\ open' = open \ {run} /\ End("droppedInLoop")
  /\ UNCHANGED <<setup, pending, file, delivered, crashes>>

\* The process dies, maybe while it writes to the transcript.
Crash ==
  /\ pc # "idle" /\ persisted /\ crashes < MaxCrashes
  /\ crashes' = crashes + 1 /\ open' = {} /\ End("crashed")
  /\ file' \in IF pc = "made" THEN TornWrites(file, item) ELSE {file}
  /\ UNCHANGED <<setup, pending, delivered>>

Step ==
  \/ Write \/ WriteFails \/ Yield
  \/ BeginTurn \/ Attempt \/ StreamFails \/ RunTools \/ Close \/ CloseDropped
  \/ \E call \in setup.calls : StreamCall(call) \/ LeaveOpen(call)
  \/ \E spent \in {0, 1} : StreamEnds(spent)
  \/ AsksOn \/ Drop

Next == ClientQuery \/ NothingToReceive \/ Start \/ Crash \/ Step

Spec == Init /\ [][Next]_vars
\* The program runs on, and the consumer asks or drops.
FairSpec == Spec /\ WF_vars(Step)

-----------------------------------------------------------------------------
(* Properties.                                                             *)

\* The state stays in its domain; no request has more attempts than the transport is
\* configured for.
TypeOK ==
  /\ setup \in Setups
  /\ pc \in {"idle", "made", "written", "yielded", "turn", "request", "streaming", "tools",
             "closing", "dropped"}
  /\ item.kind \in InLoop \cup {"none", "init", "user", "result"}
  /\ seeded \in 0 .. prompt.items
  /\ \A i \in DOMAIN history : history[i].role \in {"user", "assistant"}
  /\ Len(blocks) <= MaxBlocks /\ Range(blocks) \subseteq verdicts
  /\ \A v \in verdicts : v.verdict \in {"dispatched", "blocked", "denied", "open"}
  /\ step \in Nat /\ cost \in Nat /\ numTurns \in Nat
  /\ attempts \in 0 .. Attempts
  /\ outcome \in {"none", "error_during_execution", "error_max_turns", "error_max_budget_usd"}
  /\ open \subseteq 1 .. setup.runs /\ pending \in BOOLEAN /\ crashes \in 0 .. MaxCrashes
  /\ Len(ends) <= setup.runs

\* A reader gets to the record at p, if no write of its own run was cut short up to it,
\* and none of an earlier run inside a character.
Intact(p) ==
  \A k \in 1 .. p : file[k].how # "whole" =>
    file[k].record.run < file[p].record.run /\ file[k].how # "split"

\* What the consumers of a persisted session have seen was written once, in the order in
\* which they saw it, before they saw it; and where no write was cut short a reader finds
\* it, whatever crashes came between: only the banner that follows a torn record goes with
\* it.  query.py: every message "is appended to the transcript before being yielded to
\* the caller".
TranscriptKeepsDelivered ==
  LET got == {i \in DOMAIN delivered : delivered[i].kind # "init"}
      Places(it) == {p \in DOMAIN file : file[p].record = it}
  IN persisted =>
       \A i \in got : \E p \in Places(delivered[i]) :
         /\ Places(delivered[i]) = {p}
         /\ Intact(p) => p \in ReadTranscript(file)
         /\ \A j \in got : j < i => \A q \in Places(delivered[j]) : q < p

\* No line that parses is lost.  transcripts.py: "The reader skips any trailing partial
\* line", and it "tolerates a trailing partial line (crash recovery)".
PartialLinesAreSkipped == {i \in DOMAIN file : Readable(file, i)} \subseteq ReadTranscript(file)

\* The result that a consumer gets is the last message of its run, counts the assistant
\* messages that it got (and one more if the transcript took no more of them), names the
\* calls that the permission check refused (though their message may never have come), and
\* reports an error exactly where the loop raised.
ResultIsTruthful ==
  \A i \in DOMAIN delivered :
    LET r == delivered[i]
        ofRun == {j \in DOMAIN delivered : delivered[j].run = r.run}
        seen == Cardinality({j \in ofRun : delivered[j].kind = "assistant"})
    IN r.kind = "result" =>
         /\ \A j \in ofRun : j <= i
         /\ \/ r.turns = seen
            \/ r.turns = seen + 1 /\ persisted /\ r.subtype = "error_during_execution"
         /\ r.run = run =>
              /\ prompt.items > 0 => (r.subtype # "success" <=> outcome # "none")
              /\ \A v \in verdicts : v.verdict = "denied" <=> v.id \in r.denials

\* The agent of a run that was consumed to its end, or dropped inside the loop, is closed;
\* behind a loop it is closed before the result is made.  query.py: the client "is closed
\* *before* the final result message is yielded".
ClosedByTheEnd ==
  /\ \A r \in DOMAIN ends : ends[r] \in {"finished", "droppedInLoop", "crashed"} => r \notin open
  /\ item.kind = "result" /\ prompt.items > 0 => run \notin open

\* The names in the allow lists of the caller (where its extras have none of their own) and
\* of its settings files.
AllowLists(s) ==
  IF s.front = "dict" \/ s.options = None THEN {}
  ELSE Get(Extra(s.options), "allowed_tools", {})
       \cup UNION {Listed(SettingsOf(source, s.env.files), "allowed_tools", "allow") :
                     source \in Range(OrElse(s.options.settingSources, <<>>))}

\* A deny rule that fires, with none before it in its list that fires and does not deny.
DeniedBy(rules, tool, input) ==
  \E i \in Hits(rules.deny, tool, input) :
    \A j \in Hits(rules.deny, tool, input) : j <= i => rules.deny[j].action = "deny"

\* No call reaches a tool that the allow lists of the caller and of its settings leave out,
\* or with an input that a deny rule matches; but for the modes that consult no rule, and
\* an input that the permission callback itself has put in.
InputChecked ==
  \A v \in verdicts :
    LET tool == ToolNamed(v.tool)
        ctx == agent.permissions
        consulted == ctx.mode # "bypass" /\ ~(ctx.mode = "auto" /\ tool.readOnly)
    IN (v.verdict = "dispatched" /\ Registered(v.tool)) =>
         /\ AllowLists(setup) # {} => v.tool \in AllowLists(setup)
         /\ (ctx # None /\ ctx.rules # None /\ consulted /\ ~v.rewritten) =>
               ~DeniedBy(ctx.rules, tool, v.input)

\* Where the blocks of a kind are in a request: in which message, as which part of it.
Where(wire, kind) ==
  UNION {{j} \X {k \in DOMAIN wire[j].parts : wire[j].parts[k].kind = kind} : j \in DOMAIN wire}
IdAt(wire, p) == wire[p[1]].parts[p[2]].id

\* The result at q follows the call at p, with no message of the model in between.
Answers(wire, q, p) ==
  /\ IdAt(wire, q) = IdAt(wire, p) /\ p[1] < q[1]
  /\ \A j \in p[1] + 1 .. q[1] : wire[j].role # "assistant"

\* Each call is sent once and answered once, before the model's next message, and no
\* result stands without its call.
AnsweredOnce(wire) ==
  /\ \A p, q \in Where(wire, "use") : IdAt(wire, p) = IdAt(wire, q) => p = q
  /\ \A p, q \in Where(wire, "result") : IdAt(wire, p) = IdAt(wire, q) => p = q
  /\ \A p \in Where(wire, "use") : \E q \in Where(wire, "result") : Answers(wire, q, p)
  /\ \A q \in Where(wire, "result") : \E p \in Where(wire, "use") : Answers(wire, q, p)

\* Every request that reaches a model, through any adapter and either way of sending tool
\* calls, has each call of the conversation once, answered once and in time.
WireComplete == pc = "request" => AnsweredOnce(Request(agent, history).messages)

\* Every run ends, however its requests fail, if its consumer asks on or drops it.
RunEnds == pc # "idle" ~> pc = "idle"
==============================================================================
