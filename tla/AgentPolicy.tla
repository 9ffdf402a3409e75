---------------------------- MODULE AgentPolicy ----------------------------
(***************************************************************************)
(* The two pure decisions of the agentic gateway: how a capability grant   *)
(* classifies a tool call (gm-agent/src/capability.rs) and how a policy    *)
(* set tightens that class (gm-agent/src/policy.rs).                       *)
(*                                                                         *)
(* A call's argument summary is abstracted to the set of policy needles it *)
(* contains, which is all that `args_summary.contains(n)` can tell apart.  *)
(* Lists whose order or multiplicity the code never looks at (allowed      *)
(* tools, accessible rooms) are sets; the overrides and the policy rules,  *)
(* which are searched first-match, stay sequences.                         *)
(***************************************************************************)
EXTENDS Integers, Sequences

CONSTANTS
  Agents,   \* agent identities (AgentId)
  Tools,    \* tool names
  Rooms,    \* room identifiers (RoomId)
  Needles,  \* the substrings policy rules look for in an argument summary
  None       \* the absent matcher of a policy rule (`None`)

ASSUME PolicyAssumption == None \notin Tools \cup Rooms \cup Needles

(***************************************************************************)
(* Calls, classes and grants.                                              *)
(***************************************************************************)
ActionClass == {"auto", "review", "forbidden"}
Effect      == {"allow", "review", "deny"}

Calls == [agent : Agents, tool : Tools, room : Rooms, args : SUBSET Needles]

CapabilityGrant ==
  [ agent              : Agents,
    allowed_tools      : SUBSET Tools,
    accessible_rooms   : SUBSET Rooms,
    rate_limit_per_min : Nat,
    daily_call_limit   : Nat,
    daily_token_budget : Nat,
    default_class      : ActionClass,
    overrides          : Seq(Tools \X ActionClass) ]

(***************************************************************************)
(* What `iter().find(test)` sees in a list: the indices that pass, of      *)
(* which it takes the least.                                               *)
(***************************************************************************)
IsFirst(i, hits) == i \in hits /\ \A j \in hits : i <= j

permits_tool(grant, tool) == tool \in grant.allowed_tools
permits_room(grant, room) == room \in grant.accessible_rooms

OverridesOf(grant, tool) ==
  {i \in DOMAIN grant.overrides : grant.overrides[i][1] = tool}

\* The first override of the tool, else the grant's default.
OverrideOrDefault(grant, tool) ==
  IF OverridesOf(grant, tool) = {}
  THEN grant.default_class
  ELSE grant.overrides[CHOOSE i \in OverridesOf(grant, tool) :
                         IsFirst(i, OverridesOf(grant, tool))][2]

classify(grant, tool, room) ==
  IF permits_room(grant, room) /\ permits_tool(grant, tool)
  THEN OverrideOrDefault(grant, tool)
  ELSE "forbidden"

(***************************************************************************)
(* Policies.                                                               *)
(***************************************************************************)
PolicyRule ==
  [ effect        : Effect,
    tool          : Tools \cup {None},
    room          : Rooms \cup {None},
    args_contains : Needles \cup {None} ]

PolicySet == [rules : Seq(PolicyRule), default_effect : Effect]

matches(rule, call) ==
  /\ rule.tool \in {None, call.tool}
  /\ rule.room \in {None, call.room}
  /\ rule.args_contains = None \/ rule.args_contains \in call.args

MatchesOf(policy, call) ==
  {i \in DOMAIN policy.rules : matches(policy.rules[i], call)}

\* Mutant: the last matching rule wins.
EvaluateLastMatch(policy, call) ==
  IF MatchesOf(policy, call) = {}
  THEN policy.default_effect
  ELSE policy.rules[CHOOSE i \in MatchesOf(policy, call) :
                      \A j \in MatchesOf(policy, call) : j <= i].effect

evaluate(policy, call) ==
  IF MatchesOf(policy, call) = {}
  THEN policy.default_effect
  ELSE policy.rules[CHOOSE i \in MatchesOf(policy, call) :
                      IsFirst(i, MatchesOf(policy, call))].effect

refine(class, effect) ==
  CASE class = "forbidden"                      -> "forbidden"
    [] class # "forbidden" /\ effect = "deny"   -> "forbidden"
    [] class # "forbidden" /\ effect = "review" -> "review"
    [] OTHER                                    -> class

\* How much freedom a class leaves the agent.
Freedom(class) == CASE class = "auto"   -> 2
                    [] class = "review" -> 1
                    [] OTHER            -> 0
=============================================================================
