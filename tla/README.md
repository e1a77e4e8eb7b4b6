# A TLA+ verification of any-agent-sdk

any-agent-sdk is a Python library that runs tool-using agents on any model server. This
directory holds TLA+ modules translated from its source, TLC configurations that
model-check them on small instances, and TLAPS proofs that hold for every value of the
constants. `PROJECT.json` lists the components, the runs, the seeded faults that show
each property can fail, the source lines behind each definition, the disagreements found
between code and comments, the hazards of the code, and the main theorems.

To check a module: `tlc -workers 2 -config ToolExecutorThree.cfg MCToolExecutor` (section 3
names the configurations). To check the proofs: `tlapm M.tla` for each of the eight modules
of proofs in section 2.

## 1. Inventory

Paths are under `src/any_agent_sdk/`.

| Component | State it keeps | Operations | What must hold | Modelled in |
|---|---|---|---|---|
| **StreamingToolExecutor** `streaming/executor.py` | calls, results, per-call cancel scopes, pending count, idle event, semaphore, serial lock, completion channel, three flags | `add_tool_call`, `wait_all`, `iter_completions`/`wait_one`, enter/exit, one task per call, a watcher task | concurrency limits; no slot lost; one result per call; cancellation reaches everyone; `wait_all` returns | `ToolExecutor` |
| **Agent turn loop** `agent.py` | the caller's message list, the agent's signal, per-turn block list and refusals | `run`, `run_iter`, `cancel`, preflight of a closed block | each tool_use has its result before the model is asked again; no turn begins after `cancel()`, which ends the run though tools may hang; the consumer sees what was appended | `AgentLoop`, `QueryRun` |
| **Budget** `budget.py` | counters of one agent | `add_turn`, `add_usage`, `check` | limits are inclusive; a used-up budget stays used up | `AgentLoop`, `QueryRun` |
| **Assembler and events** `agent.py`, `events.py`, `types.py` | block builders by index | `feed`, `finalize` | the message is the fold of its events; a malformed block fails the turn | `AgentLoop`, `StreamPipeline` |
| **Permissions, hooks** `permissions.py`, `hooks.py` | rules, callbacks | `check_permission`, `dispatch` | precedence of the rules; what is checked is what runs; a hook's exception never stops a run | `Permissions`, `QueryRun` |
| **MCP client** `mcp/client.py` | id counter, pending map, read loop | `__aenter__`, `_request`, `call_tool`, `_notify`, `close` | an answer reaches the request with its id; every request that can end does | `McpConnection` |
| **MCP server** `mcp/server.py` | pending requests to the client, task group | one task per request, `send_elicitation`, `send_sampling` | a handler that waits for the client does not stop the inbox | `McpConnection` |
| **MCP transports** `mcp/transports/*` | queues, child process, HTTP tasks | `send`, `receive`, `close` | order where promised; the end of the peer is announced | `McpConnection` |
| **Sessions** `session.py` | rows of a store, a handle's messages | `save`, `load`, `fork`, `resume_from`, `delete` | a row keeps its creation time; a fork does not touch what is there | `Sessions` |
| **Transcripts** `transcripts.py` | an append-only JSONL file | `write`, `read_transcript` | a record is in the file before its message is yielded; a crash loses at most the record being written, and what joins it or, if it cuts a character, stands behind it | `Transcript`, `QueryRun` |
| **Stream parsers** `streaming/text_tool_parser.py`, `thinking_parser.py` | held-back text, state | `feed`, `finalize` | the events do not depend on how the text is cut | `TextParsers` |
| **Provider adapters** `providers/*` | index and state of open blocks | wire stream to block events; conversation to request | start, deltas, stop for each block; every call answered in the request | `StreamPipeline`, `WireMessages` |
| **HTTP retry** `retry.py`, `http.py` | attempt number | `handle_async_request` | attempts stay within their number; the last failure is reported | `QueryRun` |
| **Front ends** `query.py`, `compat_query.py`, `claude_compat.py` | the event stream of a run | `query`, `ClaudeSDKClient` | the result message tells how the run ended; the agent is closed | `QueryRun`, `Options` |
| **Settings** `settings.py` | files of three sources | read, merge, apply | the caller's options win over the files; a tool that no allow list names is not run (deny lists are joined and enforced nowhere, section 4) | `Options` |
| **Routing, capabilities, response format** `providers/base.py`, `capabilities.py`, `response_format.py` | tables | choice of backend, adapter, tool-use path | the path fits the model and the server | `Options` |
| **Tools** `tools.py` | registry | lookup, schema | the traits dispatch depends on | `ToolExecutor`, `Options` |
| **Tracing, system reminder** | open spans; a context message | start and end a span; put the context before the prompt | spans end (not on every way out, section 4); context comes once | `AgentLoop`, `QueryRun` |
| Sub-agents, compaction, web tools, memory, skills, CLI, set-up, bench | | | | section 7 |

### How the parts interact

A front end (`query()`, its Claude-compatible twin, or `ClaudeSDKClient`) is an async
generator. It reads settings, builds an `Agent`, writes each message to the transcript and
yields it. It drives `Agent.run_iter`, a generator too: each `yield` gives control to a
consumer that may never come back. A turn encodes the conversation for an adapter, reads its
stream through the retrying HTTP transport and the text parsers, and opens one
`StreamingToolExecutor` around the whole of it. The loop, the executor's tasks, its watcher and
whoever calls `Agent.cancel()` share one event loop and switch only at `await`. They share the
cancellation event, the flags and lists of the executor, and the anyio semaphore and
lock. Tools may themselves be MCP calls: one client, its read loop and the server's tasks
exchange JSON-RPC messages over a transport. Sessions are stores used by several handles,
on SQLite from worker threads.

### What is hard

* **Interleaving.** Cancellation can come at every await of every task, and it races with
  lock hand-over, early returns and new calls. Closing a connection races with requests.
* **Partial failure.** A tool, a gate, the stream, a request, the budget or the consumer can
  end a turn with work in flight.
* **Ordering.** Results come in completion order and are put back by id; MCP answers
  over HTTP come in any order; tags and arguments are cut anywhere.
* **Stale state.** Flags read before an await are used after it; session handles hold old
  copies; an input is rewritten between the model, the rules and the tool.
* **Crash.** A process may die in the middle of a line of its transcript; a write may fail or be cut short.
* **Liveness.** Tools, MCP servers and the signal may never answer.

The complete list, each at its line, is under `hazards` in `PROJECT.json`.

## 2. Modules

| Module | What it is |
|---|---|
| `ToolDispatch` | Abstract specification of one turn's tool dispatch: calls are requested, some run alone, each gets one answer, answers are reported in the order they come, after a halt new calls are refused at once. |
| `ToolExecutor` | `StreamingToolExecutor`, one action per stretch of code between two awaits. |
| `AgentLoop` | `Agent.run_iter`, `Agent.cancel`, preflight verdicts and the budget, over `ToolDispatch`. |
| `RequestReply` | Abstract specification of what a caller of `MCPClient` may rely on. |
| `McpConnection` | Client, transport and server of one MCP connection, composed. |
| `Sessions` | Handles over the in-memory store or the SQLite store. |
| `TextParsers` | The thinking parser and the text tool-call parser as functions of a buffer. |
| `StreamPipeline` | One response, from wire chunks through the parsers and an adapter to blocks. |
| `Permissions`, `Options`, `WireMessages`, `Transcript` | Operators: the preflight of a call; from options to an agent; from a conversation to a request; the JSONL file. |
| `QueryRun` | Runs of the front ends, which use the four modules above. |
| `ToolExecutorProofs`, `AgentLoopProofs`, `McpConnectionProofs`, `SessionsProofs`, `QueryRunProofs`, `StreamPipelineProofs` | TLAPS proofs. |
| `StreamReadingProofs` | The proof that a complete response has in its blocks what the model wrote. |
| `Unfolding` | For the proofs: a function that is computed position by position exists, and holds what every position keeps. |
| `MCToolExecutor`, `MCAgentLoop`, `MCMcpConnection`, `MCSessions`, `MCStreamPipeline`, `MCQueryRun` | Constants for TLC. |

Two compositions are by refinement. `AgentLoop` uses the abstract `ToolDispatch`, and the
run `tool_executor_fair` checks, and `ExecutorImplementsDispatch` proves, that `ToolExecutor` implements it
(`ImplementsDispatch == Dispatch!Spec` under a refinement mapping). What `AgentLoop`
assumes of a cancelled executor, that its calls get answers, is what
`CancelSettles` and `RaiseExits` check of `ToolExecutor`. `McpConnection` implements
`RequestReply`, which is checked and proved. `QueryRun` and `AgentLoop` model the same
loop for different questions: `AgentLoop` with every interleaving of dispatch, cancellation and
budget; `QueryRun` with real options, inputs, requests and files, where dispatch is one step.

### 2.1 ToolExecutor and the code

The model follows anyio on asyncio, at the version the package asks for. Points
that decide what can interleave:

* A step is the code between two awaits. Call `i` is index `i - 1` of the code.
* `phase[i]` is where the task of a call is: `spawned` (created, not yet run), `gate` (in
  `can_use_tool`), `queued` (in the line of `_sem` or `_serial_lock`), `acquired` (has the
  slot, not yet resumed), `running` (in the body), `doomed` (taken out of
  a line by cancellation, or refused a free slot at the checkpoint of `acquire`), `done`.
* `acquire` with a free slot first looks for a cancellation and then yields once in a
  shielded scope: so `acquired` cannot be cancelled. Without a slot the task queues, first
  in first out, and `cancel()` takes it out of the line at once; the task sees
  the exception when it next runs. A task joining a line with a scope already cancelled may
  be handed the slot before the exception is delivered. So a body can start after
  `_signal_cancelled` is set: with the slot in hand the code looks at
  `_aborted` only. It starts in a cancelled scope and is cancelled at its first await.
  `OnlyDrainsAfterCancel` therefore promises no new body after an abort, and no new task
  after either.
* A body in a cancelled scope that does not await again may still return a result.
* `bodyRaised` is an exception in the `async with` body: the task group's own scope is
  cancelled, not the calls' scopes. A task cancelled that way at the gate records nothing,
  and the exit fills the hole. When its own scope is cancelled too, either may happen
  (anyio versions differ in which scope takes the exception), so the model allows both.
* A signal fired after a clean exit began is not noticed: the watcher has been stopped,
  or stops before it looks (`WatcherStops`).
* A predicate `is_concurrency_safe` that raises counts as unsafe (`safety = "raises"`).
* `idleEvents` keeps every `_idle_event` ever created, because a parked `wait_all` holds a
  reference to the one it found.
* The tracer's calls are left out: they touch no state of the dispatch.

### 2.2 AgentLoop and the code

* One action per segment between awaits or yields: `BeginTurn` (the top of the `for`),
  `StreamBlock` (a closed tool_use block and its preflight), `StreamEnds` (finalize, append,
  charge and check the budget, yield), `Resume` and `NextTurn` (the consumer asks for the
  next item), `Drain` (`wait_all`, the executor's exit, the message with the results),
  `Raise`/`Escape` (an exception inside and after the `async with`).
* The awaits inside a preflight are folded into `StreamBlock`: nothing read before them is
  used after them. `Cancel` and the executor's steps interleave between blocks.
* `BeginTurn` sends the request, `AwaitResponse` is the retry transport under it: the request is
  sent again (`Resend`, up to `Attempts` times), answered (`Connected`) or given up (`Refused`). The signal is
  looked at before a turn only, so a request under way when `cancel()` fires may be sent again.
* A block may be refused by a hook or a permission, dispatched, malformed (finalize
  fails the turn) or never closed: then nothing dispatches it, and the lookup
  by its id raises `KeyError` at `agent.py:726` after the assistant message
  was appended (`missingResult`).
* Ids of one message are assumed to differ. Two blocks with one id would share a result.
* `usage` stands for the dollar and token counters: each is compared in the same way.
* The signal is never reset, as in the code: an agent once cancelled stays so.
* The executor of a finished turn is out of scope, so `DropExecutor` resets it.
* Hooks other than `Stop` are left out: their dispatcher swallows exceptions and the loop
  keeps no state of them beyond the preflight verdict.
* A consumer that closes the generator at the yield of the context message has not started
  the loop; that way out is not modelled.

### 2.3 McpConnection and the code

* A request stands for its id; request 1 is the handshake, the others are `call_tool` (in
  `ToolCalls`, with a time limit) or other methods (without). Questions of the server have ids of
  their own that collide with those of the client, as in the code: both sides count from 1.
* `caller` is where the task of a request is, `pending` the keys of `_pending`,
  `event`, `failed` and `response` the fields of its `_PendingRequest`. `Drop` forgets them when the
  caller is done. A request that cannot be sent leaves its key in `_pending`, as in the code.
* `Close` is `close()` up to its first await, `CloseEnds` the rest; requests may register in
  between. `Receive` and `ReceiveEnds` are `_read_loop`, with `_dispatch` inside.
* `Init` is in three parts, after the constructors: `ClientInit`, `ServerInit`, `WireInit`.
* Server: `Serve` reads the inbox, `work` is the task of a request, `ask` and `waiters` the
  questions of tools. A tool may ask several times, one after the other. `InboxEnds` is the `finally` of
  `run()`: in process, once the closed transport's queue is empty, the tools that wait are released to raise, and go on
  until `CloseEnds` cancels them; others may ask meanwhile. An external server ends with `PeerGoes`.
* The four transports differ in what `send` may refuse, in order, and in how they end. `memory`:
  the server dies with `close()`. `stdio`: the process may exit (`PeerGoes`). `sse`: the event stream may
  end; a refused POST raises to the caller. `http`: one POST task per message, so `Serve` takes
  any message, and replies travel in the response of their POST; a POST that fails (`PostFails`,
  `cut`) puts the exception among the messages, which ends the read loop.
* Refinement (`Rpc`): `asked` is who registered, `served` what the server made of a request,
  `ended` what its caller saw.
* The buffers of 1024 messages never fill; framing, subprocess start and headers are left out.

### 2.4 Sessions and the code

* A handle is a `Session` object with a list of its own; one operation of a handle on the store
  at a time, while appends go on. A message is named by the handle that appended it.
* The in-memory store does an operation in one step, under its lock. The SQLite store does
  one SQL statement a step: `SqliteSelect`/`SqliteUpsert` are the two of a save,
  `SqliteForkSelect`/`SqliteForkInsert` those of a fork. Every statement commits by itself.
* `ToSave` reads the handle's list when the first statement runs: the code passes the live list
  to the worker thread.
* A full fork copies what is stored (`Fork`), a fork at a checkpoint a prefix of what the handle holds (`ForkAt`).
* Of the metadata only `created_at` and `updated_at` are kept. `updated_at` is taken before the first statement
  of a save on SQLite, so it may be older than the row's `created_at`; nothing in the code promises otherwise, and
  no property is stated of it. Listing and titles are left out.

### 2.5 StreamPipeline, TextParsers and the code

* Text is a sequence of symbols and a tag is three of them, so every cut inside a tag happens.
  `_safe_flush_len`, `_drain`, `_drain_text`, `_drain_tool` are translated one by one. One round of
  the `while` of a drain is a pass (`ThinkingPass`, `ToolPass`, `TextPass`) over parser, events and
  whether it is over; a drain makes as many passes as there are symbols in the buffer, and one,
  which is enough since every pass that is not the last takes a symbol off. `feed`/`finalize` return
  parser and events, and an adapter folds the events into its state one at a time (`OpenaiEvents`, `OllamaEvents`).
* A response is one of the `Setups`: adapter, native tool calls or not, thinking tags or not, and
  the words the model writes. Chunks are cut nondeterministically (`OpenaiContent(k)`).
  A wire chunk with several fields is several chunks in the order in which the code looks at the fields.
* `s.blocks` is what the assembler makes of the events, by index; `astray` records an event
  for a block that is not open.
* openai natively keeps arguments that come before the name (`calls[i].pending`); anthropic passes
  the server's events on. `frame` is where that server is in its own protocol. For a block of a type the adapter does not know
  it emits no start, but passes on its stop, and a delta of a known type, at which the assembler raises.
* `AsWritten` compares the blocks with a reading of the words themselves, which knows nothing of buffers: `Split` sorts
  them by the thinking tags, `Written` makes text and calls of what is outside of them, and `SeenIn` is what a reader of the
  blocks sees. Where nothing looks for thinking tags (`Tagged`), as on the native path of openai, they are text.
* `StreamAssumption` says that `"tool_call"`, the symbol inside the tags of calls, is not a word, as `"think"` and `"thought"` are
  not: a tag is only ever written as one word, so that words and text agree on what is a tag. Text that is no tag
  but looks like part of one is still there, as the word `"<"`. What this leaves out is the name of a tag between other symbols, and with it a tag
  of a call whose two halves stand on either side of a block of thinking, which the code would join. Nor is `"reason"` a word: it stands
  for reasoning that came out of band, so that it can be told from thoughts within the text.
* A response may stop anywhere (`OpenaiEnds`, `OllamaCutShort`, `AnthropicCutShort`), or with an error (`ProviderError`). One that just ends
  is finalized as if it were complete (`ended = "noDone"`). `BlockProtocol` looks at both. It allows two blocks to be open then, because the
  code leaves them open: ollama's thinking block, and the block an anthropic server was within.
* `AsWritten` compares the text and the calls in their order and the thoughts in theirs; in what order text and thoughts come
  to each other it does not say. Of anthropic it says nothing: its adapter has no parser.

### 2.6 QueryRun, its operators and the code

* `Options` goes from what the caller passes to an agent: `ToQueryOptions` (the Claude options),
  `LoadSettings`/`ApplySettings` (files under the caller's options; dicts are merged key by key and lists joined, at every depth), `ResolveBackend`,
  `DetectProvider`, `ToolPath`, `Visible`, `BuildAgent`. Tables are cut down to one entry per class.
  `DetectProvider` takes a URL or, in the dict front end without a backend, the name of a model; `modal` is refused, since its
  adapter is made without an address. The caller's `extra` replaces what the options put there, its allow list too.
* `Permissions!Preflight` is `Agent._preflight_call`: hook, rules, callback, each of which may
  rewrite the input. A pattern is the set of inputs that it matches.
* `WireMessages!Request` encodes the history for each adapter and path. The loops over messages and
  blocks (`SplitSystem`, `OpenaiMessages`, `Of`) are recursive functions of the position.
* `blocks` is the turn's list of tool_use blocks with their verdicts, `verdicts` those of all turns as a
  set, which is all that the result message reads of them. Tools are a set, looked up by name.
* `Transcript`: a record is a line. A crash leaves no chunk of it, a whole one or a part: `"torn"`, `"split"` (cut inside a
  character) or `"unended"` (without its newline). The next record joins that line. `ReadTranscript` skips a line that
  does not parse, and gives nothing behind one that cannot be decoded, where the code raises.
* A write to the transcript may be cut short (`ShortWrites`: the file is not buffered and the count is dropped) or raise
  (`WriteFails`): inside the `try` the run ends in an error, outside it `query()` raises and the client stays open.
* `LeaveOpen` is a call that an anthropic stream leaves unclosed; the lookup in `RunTools` then raises.
* `QueryRun` is the generator: `Start`, then `Write` (transcript) and `Yield` for every item, the turns
  of the loop (`BeginTurn`, `Attempt` with retries, `StreamCall`, `StreamEnds`, `RunTools`), `Close`, and the
  consumer (`AsksOn`, `Drop`). `Crash` ends the process, also in the middle of a write; a second run
  goes on with the same transcript. The three front ends differ in options, in the banner, in the prompts
  they accept, and in the one-slot prompt of `ClaudeSDKClient` (`ClientQuery`).

## 3. Runs

| Run | Configuration | Instance | Shows |
|---|---|---|---|
| `tool_executor_three` | `ToolExecutorThree` | 3 calls of 2 tools, one slot; 2.0 million states | limits, slots, pending count, abort and signal reach everyone |
| `tool_executor_fair` | `ToolExecutorFair` | 2 calls of 3 tools behind a gate, fair event loop | one answer per call on every way out, completions agree with results; refinement of `ToolDispatch`; cancelled work ends; the exit ends; `wait_all` returns |
| `tool_executor_reason` | `ToolExecutorReason` | 2 calls, violated | a call cancelled because the body raised is reported as aborted by a sibling |
| `agent_loop` | `AgentLoop` | 2 runs on one agent, 2 turns each, 2 blocks per turn, 2 attempts at a request, fair; 956 thousand states | the history is paired, natural ends are real, the budget overrun is bounded, the consumer sees what was appended, `cancel()` ends the run |
| `agent_loop_budget` | `AgentLoopBudget` | the same, violated | the budget is checked with calls in flight |
| `agent_loop_cancel` | `AgentLoopCancel` | the same, violated | a request under way when the agent is cancelled is sent again |
| `mcp_connection` | `McpConnection` | each transport, the handshake, 2 requests, 1 or 2 questions, fair; about 300 thousand states | refinement of `RequestReply`; `close()` releases every waiter; what can end ends; a question's answer is not held up by the request it belongs to |
| `mcp_connection_reader` | `McpConnectionReader` | over http, no questions, violated | a `list_tools`, which has no time limit, is registered and sent after a failed POST has ended the read loop; nobody reads its reply |
| `sessions` | `Sessions` | 2 handles, 2 sessions, 1 message, 2 times, both stores; 2.4 million states | creation times stay, a fork on SQLite never overwrites |
| `stream_pipeline` | `StreamPipeline` | every response of up to 3 of 8 words and six longer ones, cut everywhere, through every adapter, with native calls and thinking tags too; 325 thousand states | blocks open and close in turn, hold what was written, and have the arguments of their call |
| `query_run` | `QueryRun` | 23 calls of `query()`, fair; 482 thousand states | the transcript has what was delivered, the result is true, the agent is closed, no rule is bypassed, requests answer every call, runs end |
| `query_run_torn` | `QueryRunTorn` | the same calls, 1 block, 1 attempt, 1 crash, violated | a line cut inside a character hides the records of the next run |

**Bounds.** Three calls over one slot and the lock are the least with a holder, a
first in line and a second in line, hence a hand-over with a choice, and an
abort among holders of both lines. The gate is left to the two-call run, because every
path through it ends before the lines. Two tools suffice there: one safe and one
serial, either of which may be asked to abort its siblings; the run with a gate adds the unknown
tool. In `agent_loop` a second run on the same list is the least that shows what the first leaves
behind (messages, budget, signal); two turns per run allow a cancel between them; `MaxTurns`
3 is reached in the second turn of the second run, `MaxUsage` 1 at once, so both limits bite.

In `mcp_connection` the handshake and two requests, one with and one without a time limit, are
the least with two replies that may be swapped and a request that registers while `close()` waits. In
process there are two questions, so that one of them has the id of the request it belongs to. Two
handles on two ids suffice for `sessions`: an operation has two statements at most, and what comes
between them is one other operation. A row holds at most one message, since lists are written and read
as a whole. Types of `Sessions` are proved (`SessionsTypes`), not run. In `stream_pipeline` a tag of three symbols is cut at every place
by pieces of up to four, and three words are an opening tag, something and a closing tag of any of
the kinds; the longer responses nest and repeat them. `query_run` has one setup for each path
through options, adapters and permission postures, up to two calls in a turn, three attempts, one
crash and two runs on one session. A write is cut short (`MaxShort` 1) only while no partial record is in the file: with the crash
that makes two in a file at most, enough for a short write in front of a crash and for one whose line the next run continues; the proof
has any number of either.

Deadlock is checked in every run of the executor, where the consumer's end of the stream
and repeated `wait_all` calls leave a step in every reachable state: the latter makes it a weak
check, so that nothing hangs is stated by the liveness properties instead. It is not checked elsewhere,
because the number of runs, requests, times or words is bounded: the system stops when they are used up.

**Fairness.** Weak fairness of the tasks' own steps: asyncio's ready queue runs every task
that can run. Nothing is assumed of tools, the gate, the caller or the signal, except that a task
with a cancelled scope is given the exception (`DeliverCancel`), which anyio retries until
it is taken. `WaitAllReturns` has the premise that bodies and gates return (`ToolsReturn`); without it
`wait_all` rightly waits for ever. `AgentLoop` assumes that a request is answered or fails, that a stream ends and that the consumer asks for the
next item; `CancelEndsRun` does not need tools to return. A consumer may also close the generator at any time.
`McpConnection` assumes that the read loop, the server's inbox, senders, timers and the rest of `close()` go on:
nothing of tools, handlers, the network or of when `close()` is called. So `RequestsEnd` promises an
end only to requests with a time limit and to the handshake in process. `QueryRun` assumes that the program
runs on and that its consumer asks or drops; it assumes nothing of which.

**Seeded faults.** Each property of a passing run has a fault that breaks it: a definition marked
`[seeded fault]`, which changes one definition in the way a plausible bug would.

## 4. Disagreements found

With a run that shows them:

1. `executor.py:770`: a call cancelled because the body raised (budget, stream) says
   "aborted by sibling tool error". The docstring (762-765) says that the text tells why.
2. `agent.py:634`: the budget is checked before `wait_all`; `budget.py:320-322` says
   the call in flight has its result by then. The raised error cancels it instead.
3. `agent.py:261-262` says that "no more model calls are issued after `cancel()` fires". The retry transport sends
   a request that is under way again, and does not look at the signal.
4. `mcp/transports/base.py:49` says that `receive()` raises `TransportClosed` when the channel has been closed, and the read loop
   takes it so (`mcp/client.py:401`, "Unblock any pending requests on shutdown"). Over http any failed POST raises it, while the channel
   still sends: a request without a time limit that registers afterwards (`mcp/client.py:366`) is sent, and its reply read by nobody.
5. `transcripts.py:25-26` and 165 say that a partial line is skipped. One cut inside a UTF-8 character raises `UnicodeDecodeError`,
   and every later line is lost to the reader.

Met while modelling, and part of the model as the code does it, without a run of their own:

* `agent.py:450-452` says that the `agent.run` span is closed in a `finally`. There is none: a request that fails,
  or a consumer that leaves, leaves it open.
* `providers/openai_compat.py:801` unpacks the events of a thinking parser as pairs, which they are not: the
  first raises `TypeError`. The module docstring (16-18) says that this path runs it.
* `providers/anthropic_passthrough.py:26-28` says that every event of the server maps to exactly one of ours. The start of a
  block of unknown type maps to none, its stop to a stop (551): of a block that never started. Nothing reads stops. A delta
  of a known type within it makes the assembler raise.
* `session.py:741-743` says that a fork without a checkpoint clones the full history. It has the store copy its row: messages
  that the handle has not saved are left out, while a fork at the last checkpoint has them.
* `docs/guides/permissions.md:88-98` says that `disallowed_tools` keeps tools from running. The lists are carried along
  (`claude_compat.py:259`, `settings.py:376-378`) and enforced nowhere: the call is dispatched.
* `session.py:754` says that the store forks "atomically"; `_fork_sync` is two statements. A source saved or
  deleted in between is forked as it was.
* A handle whose session was deleted saves it back; a fork at a checkpoint overwrites an existing id, a full fork
  refuses it. The SQLite store may write an `updated_at` older than `created_at`.
* `settings.py:326` says that options set by the caller always beat the files. The files' allow list is joined with the
  caller's and so widens it. A permission mode from a file is shown in the banner and enforced nowhere.
* An empty `allowed_tools` list means no filter.
* `query.py:514` says that the HTTP client is closed before the result is yielded. With an empty prompt the
  compat front end yields the result first. A generator dropped at the banner leaves it open.
* `claude_compat.py:675` speaks of a queue of prompts; it is one slot, and a second `query()` replaces the first.
* Running out of steps is reported as "success". `max_usd` sets the budget's bound on turns to the
  bound on steps, so that the last turn ends in an error and its message is not delivered.
* A hook that raises lets the call through; of a Claude options' `PreToolUse` only the first callable is kept; an input
  rewritten by the permission callback is not checked against the rules again.
* `providers/openai_compat.py:310-311` says that the description of the tools comes before the system prompt;
  line 313 puts it behind.
* Without native tool calls the openai adapter sends the results of one turn in reverse order. A `<tool_call>` whose body is no JSON
  leaves no trace in the message.
* The record that follows a torn line of a transcript, a banner, is lost with it. `transcripts.py:24-25` says that a crash
  "leaves a valid prefix"; a short write, whose count `write` drops, also costs the record behind it in the same run.
* A write to the transcript that raises after its turn was counted (`query.py:617-631`) makes the result count a turn that the consumer did not get.
* `docs/api/options.md:95` says that `persist` is on unless turned off. It is off, and the compat front end takes it and writes nothing.
* `retry.py:20-21` says that streaming requests are not retried. All are, until the headers of a response are there.
* `docs/guides/models-and-backends.md:16` lists the backend `modal`. `Agent` makes its adapter without an address, which raises.
* A response of anthropic that ends within a block, and one of ollama within a thought, is finalized with the block open.

## 5. Proofs

Every theorem holds for all values of the constants that the module's named assumption allows: any number
of calls, slots, tools, turns, requests, questions, handles and sessions, any response of any words through any
adapter, any options, rules, prompts and crashes. `ListsAssumption` of `QueryRun` says of the constants only
that lists of rules and of sources are lists, and that a system prompt is text.

| Module | Theorem | Statement |
|---|---|---|
| `ToolExecutorProofs` | `TypeCorrect` | `Spec => []TypeOK` |
| | `SlotsAreConserved` | `Spec => []SlotsConserved` |
| | `ConcurrencyIsLimited` | `Spec => []ConcurrencyLimits` |
| | `CancellationReachesAll` | `Spec => []CancelReachesAll` |
| | `DrainsAfterCancel` | `Spec => OnlyDrainsAfterCancel` |
| | `PendingIsRight` | `Spec => []PendingCountsTasks` |
| | `EveryCallAnswered` | `Spec => []EveryTaskAnswers` |
| | `ResultsAndCompletionsAgree` | `Spec => []CompletionsAgree` |
| | `ReasonsAreTrue` | `Spec => []ReasonsNameTheCause` |
| | `AbortsHaveCulprits` | `Spec => []AbortHasCulprit` |
| | `ExecutorImplementsDispatch` | `Spec => ImplementsDispatch` |
| `AgentLoopProofs` | `LoopTypes` | `Spec => []TypeOK` |
| | `HistoryIsPaired` | `Spec => []HistoryPaired` |
| | `EndsWithoutToolUse` | `Spec => []NaturalEnd` |
| | `OverrunIsBounded` | `Spec => []OverrunBounded` |
| | `ConsumerGetsAll` | `Spec => []ConsumerSeesAll` |
| `McpConnectionProofs` | `ConnectionTypes` | `Spec => []TypeOK` |
| | `ClosingReleases` | `Spec => []CloseReleases` |
| | `ConnectionImplementsRequestReply` | `Spec => ImplementsRequestReply` |
| `SessionsProofs` | `SessionsTypes` | `Spec => []TypeOK` |
| | `CreationTimesStay` | `Spec => CreatedStable` |
| | `ForksNeverOverwrite` | `Spec => ForkNeverOverwrites` |
| `StreamPipelineProofs` | `TypesHold` | `Spec => []TypeOK` |
| | `BlocksOpenAndClose` | `Spec => []BlockProtocol` |
| | `ArgumentsArrive` | `Spec => []ArgumentsReachTheirCall` |
| `StreamReadingProofs` | `BlocksHaveWhatWasWritten` | `Spec => []AsWritten` |
| `QueryRunProofs` | `TypesHold` | `Spec => []TypeOK` |
| | `ClientIsClosed` | `Spec => []ClosedByTheEnd` |
| | `ResultsAreTruthful` | `Spec => []ResultIsTruthful` |
| | `DeliveredIsOnDisk` | `Spec => []TranscriptKeepsDelivered` |
| | `InputsAreChecked` | `Spec => []InputChecked` |
| | `RequestsAreComplete` | `Spec => []WireComplete` |

### The executor

*Slots.* `SlotsConserved` is not inductive on its own: a release is only sound for a call whose
line does not change and that was counted among the holders. `SlotInv` adds the types and
`Numbering` (the calls with a task are exactly those numbered so far, so a new call is in no line).
Acquire and release are treated once (`AcquireSlots`, `ReleaseSlots`), steps that move no holder cite
`SameSlots`, and cancellation only takes calls out of lines. `ConcurrencyLimits` follows from `SlotInv`
alone: a running call is a holder, and a line has no more holders than slots.

*Cancellation.* `CancelInv` adds `CancelReachesAll` to `SlotInv`: by `Numbering` the loop over the scopes covers
every task, and a task is only started under flags that are both false.
`StepDrains` shows that no step but `AddToolCall` makes a call live, and no step but
`EnterBody`, which looks at `_aborted`, starts a body.

*Answers.* Seen from its answers, a step does one of four things, and `StepKinds` proves it once for all
actions: `Quiet` (no task begins or ends), `Added`, `Ended`, `Filled` (the holes are filled). The invariants
are then preserved by four cases, not by one per action. `AnswerInv` joins five parts because they need one
another: `_pending` is right only if nobody fills holes under a live task; `wait_all` and the exit
fill holes when the idle event is set, that is, when `_pending` is right; and a call has its answer
only if holes are filled before the exit ends (`ExitInv`: a raising body leaves at once, the
join waits for the tasks, the channel is closed last).

*Completions.* A result is recorded and pushed in the same step (`RecordAgrees`); the filling
loop pushes the holes in ascending order, and `AscendingLists` shows that this sequence has each hole once.
The channel is open whenever either happens: after `exited` there is no task and no hole.

*Reasons.* `ReasonInv` adds `ScopeCause`: a cancelled scope has its cause in one of the flags, and the flags stay up.
So a task that finds its scope cancelled names a cause that exists. `AnswersAreFinal`, that no result is
overwritten, keeps the culprit of an abort on record.

*Refinement.* `StepRuns` says how the set of running bodies changes: one begins in `StartsBody` only, and otherwise
a body goes on as long as its task. With it, each kind of step is a step of `ToolDispatch`: `Quiet` is `Halt` or a
stutter, `Added` is `Request` (with its answer, if the call fails fast), `Ended` is `Answer({i})`, `Filled` is
`Answer(Missing)` or `Close`, and `StartsBody` is `Execute`, whose guard on the running bodies follows from `SlotsConserved`.

### The agent loop

*Types.* Only an invariant about dispatch makes the results message typed: `ExecutorInv` says that the calls
of the turn are numbered like its dispatched blocks and that, after `wait_all`, each has an answer. `TypeInv`
adds what the list of messages may hold.

*History.* `HistoryPaired` speaks of the moments when the model is asked and when a run ends. The strengthening
`HistoryInv` speaks of every moment: between the two appends of a turn the last message alone may be unanswered, and
what is unanswered there is what the blocks of the turn still are. `PairedStays` shows that appending keeps
earlier pairs; `ResultsAnswer` that the message `Drain` appends answers the one before it. `NaturalEnd` follows from the same.

*Consumer.* `ConsumerSeesAll` compares two lists at the end of a run. `SeenInv` says at every moment what was yielded:
the context message, if any, and the positions `Behind` where the run began, up to the last message (`SeenUpTo`), or
to the one before it if the run ended over the budget, which keeps the last message back.

*Budget.* `BudgetInv` adds that a run past the check is below the limits, so that `n` runs charge at most `n` turns too many.

### The MCP connection

*Release.* `WaiterInv`: until `close()` begins, who waits has its entry in `_pending`, where `FailAll` finds it; and
after it nothing can be sent, so nobody starts to wait. `WaitersRegistered`, a part of `TypeOK`, is why `TypeInv` knows of `inbox`: only while it is read
does every question that waits have an entry.

*Refinement.* `RpcStep` maps each step to a step of `RequestReply` or to a stutter. What it needs of the state is `ServingInv`:
a request is in the inbox at most once and not after it was taken (`InboxOnce`); a reply under way, or put
in an entry, says what the server made of that request (`RepliesTrue`), which is where colliding ids would break it; a tool
that asks still works on its request (`AskersWork`); and what was replied to stays replied to (`ServedOnce`).
`TypeInv` adds the types of the messages under way.

### Sessions

`RowsKept` and `ForkSteps` say which steps may change a row that is there: a save of either store keeps
`created`, and a fork writes only where there was none.

### The streams

The parsers and adapters are functions computed position by position: passes of a drain, words of a response, events of
a chunk, symbols and words of a text. `Unfolding` proves of such a function, by a descent on the natural numbers, that it exists, so that its equation may be used, and that
what its start has and each step keeps holds at its end. Each of them takes an instance.

*Drains.* `Passed` counts: after `n` passes a drain is over, or at least `n` symbols are gone from the buffer. So
the passes suffice, and a drain ends with less than a tag held back and with events of the kinds its adapter knows.

*Blocks.* `Inv` joins three parts. `TypesInv` has the types of the rest of the state. `BlocksInv` says what the blocks are: `Shape` (the assembler's
numbers are in range, nothing went astray, the parsers hold back less than a tag) and, for openai and ollama while they read, `Sound`: what is open is
the block of text or of thinking that the adapter's state names, or a native call of openai, which stays open to the end (`Lasting`). For anthropic the open block is the one its server is within (`frame`).
`Keeps` says of a step that what was emitted is still there; `Turns` and `Moves` join the two for one event of a parser and for
a chunk, so that the folds over the events are two instances of the same argument.

*Arguments.* `CallsInv` relates what was sent for an index of a native call to the arguments put aside until its name comes, and, from
then on, to the body of its block; no two indexes share a block.

*What was written.* `BlocksHaveWhatWasWritten` is in `StreamReadingProofs`, in three steps.

1. A reader with the whole text before it decides at each symbol whether a tag begins there. `HeardAt(T, n)` is what the reader of thinking tags
   has told after `n` symbols, `ShownAt(T, n)` the reader of calls. A parser sees pieces and may hold back the end of one. `ReadTo` and `CallsTo` say
   of it that it has read some first part of the text exactly as the reader did, and holds the rest: `buf` is `Win(T, q, e)`, the symbols from
   `q` to the end of what came. A pass that flushes keeps this because less than a tag is held back and no tag begins in
   what is let go (`BufferFlushes`, `BufferFinds`); a pass that finds a tag keeps it because the first tag in the buffer is the first in
   the text from there (`BufferTag`, `OpensFirst`). At the end nothing is left to wait for, and what is held is read as text.
2. The readers go over symbols as `Split` and `Written` go over words. Every tag in the text is a word, and a word that is none has no
   tag in it or across its ends, which is what the assumption on words is for.
3. What was emitted for the pieces is what the reader told, though a flush may come in another number of chunks: `AddVisible` and `Spoken` do not tell
   one chunk from two (`Ordered`, `GrowsBy`). Reasoning and native calls that come between add
   nothing that is compared, and move nothing.

`WrittenInv` joins these for a response that is being read, `WrittenDone` says the same of one that completed, and with `Inv` they are inductive.
`AsWritten` alone is not: it says nothing before the end.

### query()

*State.* `StateOK` adds to the types where a run stands (`Placed`): between runs nothing is left of one; a result is only
ever being written or yielded. `ClosedByTheEnd` is then inductive by itself.

*Results.* `TruthInv` has four parts. `ToldInv`: a result is the last of its run that was delivered. `CountInv`: `num_turns` is what was delivered
and what is `Underway`, or one more once the transcript refused a counted turn (`Missed`). `IdsInv`: ids of blocks are those of the turns so far, each of one block, so that the ids a result names are those
refused. `MadeInv`: the result says what the state says, and nothing changes until it is delivered.

*Transcript.* The order of a run's items is a number (`Rank`); `OrderInv` says that each item has a higher one than the last.
So an item is written once. `FileInv`: what stands in the file of this run ranks below what is being made (`FreshInv`); the file ends in a record of this run except where a banner comes next (`EndInv`), so that what is appended behind a banner continues no line
of another run; and everything delivered stands there once, in order, behind a record of its run (`KeptInv`, `Sound`). `IntactIsFound` joins
these with what the reader does: where no write of the run was cut short up to a record it begins a line and is whole, and
where none of an earlier run was cut inside a character the reader comes that far.

*Rules.* `CheckedInv` says of each block that was dispatched what `InputChecked` says. `OnlyAllowedTools` follows an allow list through the options
of the caller and the layers of settings (`MergingJoins`, `LoadingJoins`, `ApplyingJoins`) to the registry of the agent; `PreflightDenies` shows
that no dispatch comes past a deny rule that fires, whatever hook and callback answer.

*Requests.* `HistoryInv` says of every moment of a run what the conversation is: the prompt, then turn by turn the calls and, in the next message, the
results in the same places (`Talk`), with ids made of turn and place, so that no two are alike; between the two messages of a turn the last one holds the turn's calls.
Such a conversation is `Regular`. Of the adapters it is proved that their request `Carries` the conversation: each wire message comes from one message, in the same order,
a message of the model from a message of the model, and each call and result is sent once. `CarriesBoth` joins what carries one stretch and the next, and each way of sending
a message is one lemma (`CarriesWhole`, `CarriesEach`, `CarriesNothing` for the system text), whatever the order of its parts: results sent in reverse are carried all the same.
`RegularIsAnswered` ends: between the message of a call and the one of its result there is no other origin, hence no message of the model.

### Only model-checked

Liveness under fairness (`WaitAllReturns`, `CancelSettles`, `RaiseExits`, `CancelEndsRun`, `RunEnds` and what `mcp_connection` checks of
the ends of requests and questions), which is out of the prover's reach. Every invariant of a passing run, every action property of one and both
refinements have a theorem. The properties of the runs that are violated are promises the code does not keep, and have none.

## 6. Plan

1. Done: dispatch, the loop, the MCP connection, sessions, the streams, the front ends; proofs of their safety properties.
2. Sub-agents and compaction: a child is an `AgentLoop` behind a call; compaction of a history that has pairs.
3. Two blocks with one id in a message (`agent.py:698`), and what each adapter then sends.
4. Done: `AsWritten`, by an invariant that relates what a parser holds back to a place in the text.

## 7. Not modelled

* **Sub-agents** (`subagent.py`): a child agent is an `AgentLoop` of its own behind one tool call and adds no
  protocol. That a child without a shared provider is never closed is listed as a hazard.
* **Compaction** (`compact.py`): nothing in the loop calls it, and no adapter can encode the boundary message it makes.
* **Delays** of the retry transport and `Retry-After`: time is not modelled, attempts are.
* **The mock and modal adapters**, usage figures, pricing, headers, names and schemas: data that passes through.
* `should_use_fallback` and `dispatch_tool_calls`: nothing calls them.
* **Built-in web tools, memory, skills, paths, set-up, CLI, bench**: I/O, formatting and tables.
* **Writing settings back, listing sessions, span attributes**: no other part depends on them.
