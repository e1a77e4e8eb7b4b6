----------------------------- MODULE Permissions -----------------------------
(***************************************************************************)
(* What may become of a tool call before it is dispatched: the PreToolUse   *)
(* hook and check_permission, as Agent._preflight_call chains them.        *)
(*                                                                         *)
(* An input is a value; a pattern is the set of inputs whose projection it  *)
(* matches (a regular expression that does not compile matches none).  A    *)
(* hook and a callback are functions of the input.                         *)
(***************************************************************************)
EXTENDS Integers

CONSTANT None  \* Python's None

\* PermissionDecision.  Allow may rewrite the input.
Allow(updated) == [decision |-> "allow", updated |-> updated]
Deny == [decision |-> "deny", updated |-> None]
Ask  == [decision |-> "ask", updated |-> None]
\* What a callback may give instead: the shape of the Claude SDK, or an exception.
Result(behavior, updated) ==
  [decision |-> "result", behavior |-> behavior, updated |-> updated]
NoDecision == [decision |-> "raised", updated |-> None]

\* _normalize_permission_decision; what has no known behavior stays as it is.
Normalize(d) ==
  IF d.decision # "result" THEN d
  ELSE CASE d.behavior = "allow" -> Allow(d.updated)
         [] d.behavior = "deny"  -> Deny
         [] OTHER -> d

\* HookResult.
Proceeds == [block |-> FALSE, mutated |-> None]
Blocks   == [block |-> TRUE, mutated |-> None]
Rewrites(input) == [block |-> FALSE, mutated |-> input]
HookRaises == [block |-> FALSE, mutated |-> None, raised |-> TRUE]

Rule(action, tool, pattern) == [action |-> action, tool |-> tool, pattern |-> pattern]

RuleMatches(rule, tool, input) ==
  rule.tool \in {None, tool.name} /\ input \in rule.pattern

\* PermissionRuleSet.match: the first rule that fires, deny before allow before ask.
Hits(list, tool, input) == {i \in DOMAIN list : RuleMatches(list[i], tool, input)}
First(hits) == CHOOSE i \in hits : \A j \in hits : i <= j
NoRule == [action |-> "none"]
Match(rules, tool, input) ==
  LET deny  == Hits(rules.deny, tool, input)
      allow == Hits(rules.allow, tool, input)
      ask   == Hits(rules.ask, tool, input)
  IN IF deny # {} THEN rules.deny[First(deny)]
     ELSE IF allow # {} THEN rules.allow[First(allow)]
     ELSE IF ask # {} THEN rules.ask[First(ask)] ELSE NoRule

ActionOf(rule) ==
  CASE rule.action = "deny" -> Deny
    [] rule.action = "allow" -> Allow(None)
    [] rule.action = "ask" -> Ask

\* check_permission, past the two postures that ask nobody.
Consult(tool, input, ctx) ==
  LET hit == IF ctx.rules = None THEN NoRule ELSE Match(ctx.rules, tool, input) IN
  IF hit # NoRule THEN ActionOf(hit)
  ELSE IF ctx.canUseTool # None THEN ctx.canUseTool[input]
  ELSE IF ctx.mode = "auto" THEN Ask ELSE Allow(None)

CheckPermission(tool, input, ctx) ==
  IF ctx.mode = "bypass" \/ (ctx.mode = "auto" /\ tool.readOnly) THEN Allow(None)
  ELSE Consult(tool, input, ctx)

\* HookDispatcher.dispatch: a hook that raises or returns None lets the call pass.
Dispatched(hook, input) ==
  IF hook = None \/ "raised" \in DOMAIN hook[input] THEN Proceeds ELSE hook[input]

\* Only an Allow rewrites the input.
Rewritten(d) == d.decision = "allow" /\ d.updated # None

Verdict(what, input, rewritten) ==
  [verdict |-> what, input |-> input, rewritten |-> rewritten]

\* [seeded fault] The permission is asked for the input the model sent.
InputToCheckOriginal(sent, payload) == sent

InputToCheck(sent, payload) == payload

\* Agent._preflight_call for a registered tool: the hook may block the call or
\* rewrite its input, the permission is asked for what the hook left, and the
\* callback may rewrite it once more.  Ask counts as Allow.
Preflight(tool, input, hook, ctx) ==
  LET hr == Dispatched(hook, input)
      payload == IF hr.mutated = None THEN input ELSE hr.mutated
      d == IF ctx = None THEN Allow(None)
           ELSE Normalize(CheckPermission(tool, InputToCheck(input, payload), ctx))
  IN IF hr.block THEN Verdict("blocked", input, FALSE)
     ELSE CASE d.decision = "deny"   -> Verdict("denied", payload, FALSE)
            [] d.decision = "raised" -> Verdict("raised", payload, FALSE)
            [] OTHER -> Verdict("dispatched", IF Rewritten(d) THEN d.updated ELSE payload,
                                Rewritten(d))
==============================================================================
