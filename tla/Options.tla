------------------------------- MODULE Options -------------------------------
(***************************************************************************)
(* From the options of a query to the agent that runs it: the options of   *)
(* either front end, settings files laid under them, the tools the model    *)
(* may see, the backend and its adapter, the way tool calls travel.        *)
(*                                                                         *)
(* A Python dict is a function; None stands for an unset field.  An allow   *)
(* or deny list is the set of its names, and a ToolRegistry the set of its   *)
(* tools: nothing depends on their order.  A model is a record: the shape   *)
(* of its name, and its capability entry or None.  A backend is named for    *)
(* the class of its URL.                                                   *)
(***************************************************************************)
EXTENDS Integers, Sequences, FiniteSets, Functions, SequencesExt, TLC

CONSTANT None  \* Python's None

Given(dict) == Restrict(dict, {k \in DOMAIN dict : dict[k] # None})
\* {**b, **a}
Over(a, b) == [k \in DOMAIN a \cup DOMAIN b |-> IF k \in DOMAIN a THEN a[k] ELSE b[k]]
Get(dict, key, default) == IF key \in DOMAIN dict THEN dict[key] ELSE default
\* "x or None" of a sequence
NonEmpty(s) == IF s = <<>> THEN None ELSE s
OrElse(x, default) == IF x = None THEN default ELSE x

-----------------------------------------------------------------------------
(* settings.py                                                             *)

ListKeys == {"allowed_tools", "disallowed_tools"}

\* _union_list
UnionList(a, b) == a \cup b

\* _deep_merge: M says what becomes of a key that both have.
MergeDicts(a, b, M(_, _, _)) ==
  [k \in DOMAIN a \cup DOMAIN b |->
     IF k \in DOMAIN a \cap DOMAIN b THEN M(k, a[k], b[k]) ELSE Over(b, a)[k]]

\* Dicts are merged key by key and lists joined, at every depth; anything else replaces.
\* What the keys of the settings hold: permissions a dict of lists, mcp_servers a dict of
\* server configurations.
MergedLists(key, x, y) == UnionList(x, y)
MergeLists(a, b) == MergeDicts(a, b, MergedLists)
MergedConfig(key, x, y) ==
  CASE key = "args" -> UnionList(x, y)
    [] key \in {"env", "headers"} -> Over(y, x)
    [] OTHER -> y
MergedServers(name, x, y) == MergeDicts(x, y, MergedConfig)
Merged(key, x, y) ==
  CASE key \in ListKeys    -> UnionList(x, y)
    [] key = "permissions" -> MergeLists(x, y)
    [] key = "mcp_servers" -> MergeDicts(x, y, MergedServers)
    [] key = "env"         -> Over(y, x)
    [] OTHER               -> y
DeepMerge(a, b) == MergeDicts(a, b, Merged)

NoSettings == [k \in {} |-> None]

\* load_setting_source: a missing file is empty, a broken one raises, as does an
\* unknown name.
Broken(sources, files) ==
  \E i \in DOMAIN sources :
    \/ sources[i] \notin {"user", "project", "local"}
    \/ sources[i] \in files.broken

SettingsOf(source, files) == Get(files.settings, source, NoSettings)

\* merge_settings: layer by layer.
Layers(sources, files) ==
  LET merged[n \in 0 .. Len(sources)] ==
        IF n = 0 THEN NoSettings ELSE DeepMerge(merged[n - 1], SettingsOf(sources[n], files))
  IN merged
LoadSettings(sources, files) == Layers(sources, files)[Len(sources)]

\* The name a setting has among the options of query().
OptionOf(key) ==
  CASE key = "system_prompt" -> "system" [] key = "max_budget_usd" -> "max_usd" [] OTHER -> key

\* The keys that fill an option the caller left unset.
ApplyFlat(options, loaded) ==
  LET keys == {"model", "backend", "system_prompt", "permission_mode", "max_turns",
               "max_budget_usd", "include_memory", "mcp_servers"} \cap DOMAIN loaded
  IN Over(options, [o \in {OptionOf(k) : k \in keys} |->
                      loaded[CHOOSE k \in keys : OptionOf(k) = o]])

\* Both spellings of the lists in a settings file.
Listed(loaded, key, spelling) ==
  Get(loaded, key, {}) \cup Get(Get(loaded, "permissions", NoSettings), spelling, {})

\* The lists of the files, joined with the caller's.
ApplyLists(extra, loaded) ==
  LET spelling == [allowed_tools |-> "allow", disallowed_tools |-> "deny"]
      given(key) == Listed(loaded, key, spelling[key])
  IN Over([key \in {k \in ListKeys : given(k) # {} \/ k \in DOMAIN extra} |->
             UnionList(given(key), Get(extra, key, {}))], extra)

\* apply_settings_to_options
ApplySettings(options, loaded) ==
  LET extra == ApplyLists(Get(options, "extra", NoSettings), loaded) IN
  Over(IF extra = NoSettings THEN NoSettings ELSE [extra |-> extra], ApplyFlat(options, loaded))

-----------------------------------------------------------------------------
(* claude_compat.py: ClaudeAgentOptions.to_query_options                   *)

PluginTools(o) == FlattenSeq([i \in DOMAIN o.plugins |-> o.plugins[i].tools])

\* What has no option of its own.  The caller's own extras replace it.
Extra(o) ==
  Over(OrElse(o.extra, NoSettings),
       Given([builtin_tool_names |-> o.builtins, allowed_tools |-> o.allowed,
              disallowed_tools |-> o.disallowed]))

\* The caller's prompt, then what the plugins add.
SystemPrompt(o) ==
  NonEmpty(OrElse(o.system, <<>>) \o FlattenSeq([i \in DOMAIN o.plugins |-> o.plugins[i].adds]))

\* _convert_hooks_dict, for PreToolUse: only the first callable of the first matcher
\* that has one is kept.  The caller's matchers replace those of the plugins.
PreToolUse(o) ==
  LET matchers == IF o.hooks # None THEN o.hooks
                  ELSE FlattenSeq([i \in DOMAIN o.plugins |-> o.plugins[i].hooks])
      callables == FlattenSeq(matchers)
  IN IF callables = <<>> THEN None ELSE Head(callables)

\* There is a permission check when a mode or a callback is set; it has no rules.
Permission(o) ==
  IF o.canUseTool = None /\ o.permissionMode = None THEN None
  ELSE [mode |-> OrElse(o.permissionMode, "default"), rules |-> None,
        canUseTool |-> o.canUseTool]

\* What has one.
Plain(o) ==
  Given([system |-> SystemPrompt(o), model |-> o.model, backend |-> o.backend,
         tools |-> NonEmpty(o.tools \o PluginTools(o)), mcp_servers |-> NonEmpty(o.mcp),
         permission_mode |-> o.permissionMode, permissions |-> Permission(o),
         hooks |-> PreToolUse(o), max_turns |-> o.maxTurns, max_usd |-> o.maxUsd,
         setting_sources |-> o.settingSources, response_format |-> o.responseFormat,
         include_memory |-> o.includeMemory, persist |-> IF o.persist THEN TRUE ELSE None])

ToQueryOptions(o) ==
  Over(IF Extra(o) = NoSettings THEN NoSettings ELSE [extra |-> Extra(o)], Plain(o))

-----------------------------------------------------------------------------
(* The backend.                                                            *)

\* infer_backend; Claude models are refused.
Refused == "refused"
InferBackend(model) ==
  CASE model.shape = "claude"    -> Refused
    [] model.shape = "fireworks" -> "fireworks"
    [] model.shape = "gpt"       -> "openai"
    [] model.shape = "gemini"    -> "gemini"
    [] model.shape = "org/repo"  -> "together"
    [] OTHER                     -> "ollama"

ResolveBackend(model, explicit, env) ==
  IF explicit # None THEN explicit
  ELSE IF env.url # None THEN env.url ELSE InferBackend(model)

\* detect_provider, of a URL or of the name of a model
DetectProvider(backend) ==
  CASE backend \in {"mock", "modal", "ollama", "tgi"} -> backend
    [] backend \in {"llamacpp", "llamacpp:8080"} -> "llamacpp"
    [] backend = "anthropic" -> "anthropic_passthrough"
    [] OTHER -> "openai_compat"

Profile(native, grammar) == [native |-> native, grammar |-> grammar]

\* _build_provider: where an adapter sends its requests when no backend is given.
DefaultUrl(provider, env) ==
  CASE provider = "openai_compat" -> OrElse(env.url, "vllm")
    [] provider = "llamacpp"      -> "llamacpp:8080"
    [] OTHER                      -> provider

\* hosted_profile_from_url, and the profile of an unknown server: that of vLLM.
HostedProfile(backend) ==
  Profile(backend # "llamacpp:8080",
          backend \notin {"groq", "openrouter", "cerebras", "deepseek", "moonshot", "anthropic"})

\* lookup_model: a model that no entry and no family hint knows has no native tools.
Native(model) == model.entry # None /\ model.entry.native

ResolveToolUsePath(model, backend) ==
  IF Native(model) /\ backend.native THEN "A" ELSE IF backend.grammar THEN "C" ELSE "B"

\* tgi and llamacpp hand over to an OpenAI adapter, which goes by the profile of its URL
\* and not by the one they declare.
TgiPath(model, backend) == ResolveToolUsePath(model, HostedProfile(backend))
LlamacppPath(model, backend) == ResolveToolUsePath(model, HostedProfile(backend))

\* How tool calls travel.
ToolPath(provider, model, backend) ==
  CASE provider = "ollama" -> IF Native(model) THEN "A" ELSE "B"
    [] provider = "anthropic_passthrough" -> "A"
    [] provider = "tgi" -> TgiPath(model, backend)
    [] provider = "llamacpp" -> LlamacppPath(model, backend)
    [] OTHER -> ResolveToolUsePath(model, HostedProfile(backend))

\* normalize_response_format, which Agent calls when it is made.
FormatIsValid(format) == format \in {None, "json_object", "json_schema"}

\* translate_response_format: the field it becomes, or None where it raises.
TranslateResponseFormat(provider) ==
  CASE provider \in {"openai_compat", "llamacpp", "modal", "mock"} -> "response_format"
    [] provider = "ollama" -> "format"
    [] provider = "tgi" -> "parameters"
    [] OTHER -> None

-----------------------------------------------------------------------------
(* The agent.                                                              *)

NoAgent == [built |-> FALSE]

BuildUserContext(options, env) ==
  \/ Get(options, "include_memory", TRUE) /\ env.memory
  \/ "user_context" \in DOMAIN options

\* Agent.__post_init__, as far as a run depends on it.  The adapter for modal is made
\* without an address, and raises.
Agent(options, model, provider, backend, tools, env) ==
  LET maxSteps == Get(options, "max_turns", 20)
      format == Get(options, "response_format", None)
  IN IF \/ ~FormatIsValid(format) \/ provider = "modal"
        \/ provider = "anthropic_passthrough" /\ ~env.key
     THEN NoAgent
     ELSE [built |-> TRUE, provider |-> provider,
           path |-> IF tools = {} THEN "A" ELSE ToolPath(provider, model, backend),
           tools |-> tools, system |-> Get(options, "system", <<>>), maxSteps |-> maxSteps,
           budget |-> IF "max_usd" \in DOMAIN options
                      THEN [usd |-> options.max_usd, turns |-> maxSteps] ELSE None,
           hook |-> Get(options, "hooks", None),
           permissions |-> Get(options, "permissions", None),
           context |-> BuildUserContext(options, env),
           format |-> format, persist |-> Get(options, "persist", FALSE)]

Distinct(tools) == IsInjective([i \in DOMAIN tools |-> tools[i].name])

\* The tools of in-process MCP servers, under names of their own.  Only a caller has
\* such servers: what a settings file names runs elsewhere.
McpTools(servers) ==
  FlattenSeq([i \in DOMAIN servers |->
                [j \in DOMAIN servers[i].tools |->
                   [servers[i].tools[j] EXCEPT !.name = "mcp__" \o servers[i].name \o "__" \o @]]])

\* An allow list that is set and not empty decides which tools the model sees.
Visible(registry, options) ==
  LET allowed == Get(Get(options, "extra", NoSettings), "allowed_tools", {}) IN
  {t \in registry : allowed = {} \/ t.name \in allowed}

\* compat_query._build_agent
BuildAgent(options, env) ==
  LET sources == Get(options, "setting_sources", <<>>)
      loaded == LoadSettings(sources, env.files)
      opts == IF loaded = NoSettings THEN options ELSE ApplySettings(options, loaded)
      model == Get(opts, "model", env.model)
      backend == ResolveBackend(model, Get(opts, "backend", None), env)
      tools == Get(opts, "tools", <<>>) \o McpTools(Get(options, "mcp_servers", <<>>))
  IN IF Broken(sources, env.files) \/ backend = Refused \/ ~Distinct(tools) THEN NoAgent
     ELSE Agent(opts, model, DetectProvider(backend), backend, Visible(Range(tools), opts), env)

\* query._agent_from_options: no settings, no MCP tools and no allow list, but a
\* permission context with rules.  Without a backend the adapter goes by the name of the
\* model.
AgentFromOptions(options, env) ==
  LET tools == Get(options, "tools", <<>>)
      provider == DetectProvider(Get(options, "backend", options.model.shape))
      backend == Get(options, "backend", DefaultUrl(provider, env))
  IN IF "model" \notin DOMAIN options \/ ~Distinct(tools) THEN NoAgent
     ELSE Agent(options, options.model, provider, backend, Range(tools), env)
==============================================================================
