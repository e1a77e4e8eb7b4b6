----------------------------- MODULE MCQueryRun ------------------------------
(* Calls of query() for TLC: each front end, each adapter and each way that tool *)
(* calls travel, with the permission postures, hooks, settings and prompts that  *)
(* make a difference.                                                            *)
EXTENDS QueryRun

Inputs == {"raw", "danger", "safe"}
ReadTool == [name |-> "Read", readOnly |-> TRUE]
WriteTool == [name |-> "Write", readOnly |-> FALSE]

Qwen == [shape |-> "tag", entry |-> [native |-> TRUE]]
Gemma == [shape |-> "tag", entry |-> [native |-> FALSE]]
Tiny == [shape |-> "tag", entry |-> None]
Named(server) == [shape |-> server, entry |-> None]
Sonnet == [shape |-> "claude", entry |-> [native |-> TRUE]]

NoFiles == [settings |-> NoSettings, broken |-> {}]
Env == [model |-> Qwen, url |-> None, key |-> FALSE, memory |-> FALSE, files |-> NoFiles]
Files == [settings |-> [user |-> [allowed_tools |-> {"Read"}, max_turns |-> 1,
                                  permissions |-> [allow |-> {"Read", "Bash"}],
                                  mcp_servers |-> [git |-> [command |-> "git-mcp", args |-> {"-v"}]]],
                        project |-> [model |-> Tiny, disallowed_tools |-> {"Write"},
                                     permissions |-> [deny |-> {"Write"}],
                                     mcp_servers |-> [git |-> [args |-> {"-q"}], web |-> [url |-> "web"]]]],
          broken |-> {"local"}]

\* A hook that rewrites one input, one that blocks it, and one that raises.
Rewriting == [i \in Inputs |-> IF i = "raw" THEN Rewrites("danger") ELSE Proceeds]
Blocking  == [i \in Inputs |-> IF i = "raw" THEN Blocks ELSE Proceeds]
Raising   == [i \in Inputs |-> HookRaises]

NoDanger == [deny |-> <<Rule("deny", "Write", {"danger"})>>,
             allow |-> <<Rule("allow", None, Inputs)>>, ask |-> <<>>]
Asking == [deny |-> <<>>, allow |-> <<>>, ask |-> <<Rule("ask", "Read", {"raw"})>>]
Context(mode, rules, callback) == [mode |-> mode, rules |-> rules, canUseTool |-> callback]
\* Callbacks: one rewrites, denies or raises; one answers in the shape of the Claude SDK.
Careful == [raw |-> Allow("danger"), danger |-> Deny, safe |-> NoDecision]
Claudes == [raw |-> Result("allow", "safe"), danger |-> Result("deny", None),
            safe |-> Result("unknown", None)]

Dict == [model |-> Qwen, max_turns |-> 2]
Claude == [system |-> None, model |-> None, backend |-> None, tools |-> <<>>, plugins |-> <<>>,
           builtins |-> None, allowed |-> None, disallowed |-> None, mcp |-> <<>>,
           permissionMode |-> None, canUseTool |-> None, hooks |-> None, maxTurns |-> 2,
           maxUsd |-> None, settingSources |-> None, responseFormat |-> None,
           includeMemory |-> TRUE, persist |-> FALSE, extra |-> None]

Prompt(items, raises) == [items |-> items, raises |-> raises]
Call(tool, input) == [tool |-> tool.name, input |-> input]

\* A call of query(); what a setup does not say is in Common.
Common == [env |-> Env, prompt |-> Prompt(1, FALSE), calls |-> {}, runs |-> 1]
DictSetup(options, s) == s @@ [front |-> "dict", options |-> options @@ Dict] @@ Common
CompatSetup(options, s) == s @@ [front |-> "compat", options |-> options @@ Claude] @@ Common

MCSetups == {
  \* a persisted session over two runs and a crash, its deny rule behind a hook
  DictSetup([backend |-> "vllm", tools |-> <<ReadTool, WriteTool>>, persist |-> TRUE, hooks |-> Rewriting, max_turns |-> 1,
             permissions |-> Context("default", NoDanger, None)],
            [calls |-> {Call(WriteTool, "raw")}, runs |-> 2]),
  \* tool calls as text; results come back in front of the next prompt
  DictSetup([backend |-> "llamacpp:8080", tools |-> <<ReadTool, WriteTool>>, system |-> <<Text>>,
             permissions |-> Context("default", Asking, Careful)],
            [calls |-> {Call(ReadTool, "raw"), Call(WriteTool, "raw"), Call(WriteTool, "danger"),
                        Call(WriteTool, "safe")}]),
  \* ollama, natively and as text, and a tool that nobody registered
  DictSetup([backend |-> "ollama", tools |-> <<ReadTool>>, hooks |-> Raising,
             permissions |-> Context("auto", Asking, None)],
            [calls |-> {Call(ReadTool, "raw"), Call(WriteTool, "raw")}]),
  DictSetup([backend |-> "ollama", model |-> Gemma, tools |-> <<WriteTool>>,
             permissions |-> Context("auto", NoDanger, None)],
            [calls |-> {Call(WriteTool, "raw"), Call(WriteTool, "danger")}]),
  DictSetup([model |-> Tiny, tools |-> <<WriteTool>>, include_memory |-> FALSE],
            [calls |-> {Call(WriteTool, "raw")},
             env |-> [Env EXCEPT !.url = "groq", !.memory = TRUE]]),
  \* adapters chosen by the name of the model
  DictSetup([model |-> Named("ollama"), tools |-> <<ReadTool>>, max_turns |-> 1],
            [calls |-> {Call(ReadTool, "raw")}]),
  DictSetup([model |-> Named("llamacpp"), tools |-> <<ReadTool>>, max_turns |-> 1],
            [calls |-> {Call(ReadTool, "raw")}]),
  \* a budget in dollars, with a bound on the turns of its own
  DictSetup([backend |-> "tgi", tools |-> <<ReadTool>>, max_usd |-> 2, max_turns |-> 3,
             permissions |-> Context("bypass", NoDanger, None)],
            [calls |-> {Call(ReadTool, "danger")}]),
  \* anthropic has no response format
  DictSetup([backend |-> "anthropic", response_format |-> "json_schema"],
            [env |-> [Env EXCEPT !.key = TRUE], runs |-> 2]),
  \* prompts that raise or are empty
  DictSetup([persist |-> TRUE], [prompt |-> Prompt(1, TRUE)]),
  DictSetup([persist |-> TRUE], [prompt |-> Prompt(0, FALSE)]),
  CompatSetup([maxTurns |-> 1], [prompt |-> Prompt(2, TRUE)]),
  CompatSetup([maxTurns |-> 1], [prompt |-> Prompt(0, FALSE)]),
  \* agents that cannot be built
  CompatSetup([model |-> Sonnet], [runs |-> 1]),
  CompatSetup([settingSources |-> <<"user", "local">>], [env |-> [Env EXCEPT !.files = Files]]),
  CompatSetup([tools |-> <<ReadTool, ReadTool>>], [runs |-> 1]),
  CompatSetup([responseFormat |-> "malformed"], [runs |-> 1]),
  CompatSetup([backend |-> "modal"], [runs |-> 1]),
  \* the caller's extras replace its allow list
  CompatSetup([tools |-> <<ReadTool, WriteTool>>, allowed |-> {"Read"}, backend |-> "vllm",
               extra |-> [allowed_tools |-> {"Write"}], maxTurns |-> 1],
              [calls |-> {Call(ReadTool, "raw"), Call(WriteTool, "raw")}]),
  \* a deny list
  CompatSetup([tools |-> <<ReadTool, WriteTool>>, disallowed |-> {"Write"}, backend |-> "vllm", maxTurns |-> 1],
              [calls |-> {Call(WriteTool, "raw")}]),
  \* settings under the caller's options, plugins, allow lists
  CompatSetup([tools |-> <<ReadTool, WriteTool>>, allowed |-> {"Read"}, settingSources |-> <<"user", "project">>,
               plugins |-> <<[tools |-> <<[name |-> "Bash", readOnly |-> FALSE]>>, adds |-> <<Text>>,
                              hooks |-> <<<<Blocking>>>>]>>],
              [env |-> [Env EXCEPT !.files = Files, !.memory = TRUE, !.url = "vllm"],
               prompt |-> Prompt(2, FALSE),
               calls |-> {Call(ReadTool, "raw"), Call(WriteTool, "safe")}]),
  \* the tools of an MCP server, with a callback of the Claude SDK
  CompatSetup([mcp |-> <<[name |-> "fs", tools |-> <<ReadTool, WriteTool>>]>>, backend |-> "anthropic",
               allowed |-> {"mcp__fs__Read"}, canUseTool |-> Claudes, hooks |-> <<<<>>, <<Rewriting, Blocking>>>>],
              [env |-> [Env EXCEPT !.key = TRUE],
               calls |-> {[tool |-> "mcp__fs__Read", input |-> i] : i \in Inputs}]),
  \* ClaudeSDKClient without options
  [front |-> "client", options |-> None, runs |-> 2] @@ Common
}
==============================================================================
