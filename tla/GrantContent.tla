---------------------------- MODULE GrantContent ----------------------------
(***************************************************************************)
(* Capability grants and policy sets as event content                      *)
(* (gm-agent/src/capability.rs and policy.rs over the values of            *)
(* gm-agent/src/events.rs).  Both travel as federated room state, so       *)
(* decoding checks every field.                                            *)
(*                                                                         *)
(* A value is tagged with its kind; content maps field names to values.    *)
(* The fields are decoded in the order of the code, and the first one that *)
(* is missing or malformed is the error.                                   *)
(***************************************************************************)
EXTENDS AgentPolicy, SequencesExt

CONSTANTS U32Max, U64Max    \* the widths of the limits

StrValue(s)  == [kind |-> "Str", str |-> s]
NumValue(n)  == [kind |-> "U64", num |-> n]
ListValue(l) == [kind |-> "List", list |-> l]

Strings(set) == SetToSeq({StrValue(x) : x \in set})

to_content(grant) ==
  [ agent              |-> StrValue(grant.agent),
    rate_limit_per_min |-> NumValue(grant.rate_limit_per_min),
    daily_call_limit   |-> NumValue(grant.daily_call_limit),
    daily_token_budget |-> NumValue(grant.daily_token_budget),
    default_class      |-> StrValue(grant.default_class),
    allowed_tools      |-> ListValue(Strings(grant.allowed_tools)),
    accessible_rooms   |-> ListValue(Strings(grant.accessible_rooms)),
    overrides          |-> ListValue([i \in DOMAIN grant.overrides |->
                             ListValue(<<StrValue(grant.overrides[i][1]),
                                         StrValue(grant.overrides[i][2])>>)]) ]

(***************************************************************************)
(* Decoding.  A field is well formed when its value has the right kind and *)
(* the identifiers and classes in it parse.                                *)
(***************************************************************************)
IsStr(value, among)  == value.kind = "Str" /\ value.str \in among
IsNum(value, max)    == value.kind = "U64" /\ value.num <= max
IsList(value, Ok(_)) == value.kind = "List" /\ \A i \in DOMAIN value.list : Ok(value.list[i])

IsOverride(value) ==
  /\ value.kind = "List" /\ Len(value.list) = 2
  /\ IsStr(value.list[1], Tools) /\ IsStr(value.list[2], ActionClass)

WellFormed(content, field) ==
  LET value == content[field] IN
  CASE field = "agent"              -> IsStr(value, Agents)
    [] field = "rate_limit_per_min" -> IsNum(value, U32Max)
    [] field = "daily_call_limit"   -> IsNum(value, U32Max)
    [] field = "daily_token_budget" -> IsNum(value, U64Max)
    [] field = "default_class"      -> IsStr(value, ActionClass)
    [] field = "allowed_tools"      -> IsList(value, LAMBDA v : IsStr(v, Tools))
    [] field = "accessible_rooms"   -> IsList(value, LAMBDA v : IsStr(v, Rooms))
    [] field = "overrides"          -> IsList(value, IsOverride)

FieldOrder ==
  << "agent", "rate_limit_per_min", "daily_call_limit", "daily_token_budget",
     "default_class", "allowed_tools", "accessible_rooms", "overrides" >>

\* Absent in the content of older servers and of the client's mirror.
OptionalFields == {"daily_call_limit", "daily_token_budget"}

\* The index in FieldOrder of every field that stops the decoding.
BadFields(content) ==
  { i \in DOMAIN FieldOrder :
      IF FieldOrder[i] \in DOMAIN content
      THEN ~WellFormed(content, FieldOrder[i])
      ELSE FieldOrder[i] \notin OptionalFields }

StringsIn(value) == {value.list[i].str : i \in DOMAIN value.list}

LimitIn(content, field) ==
  IF field \in DOMAIN content THEN content[field].num ELSE 0

\* Mutant: the token budget is read from the field of the call limit.
DecodedWithOneLimit(content) ==
  [ agent |-> content.agent.str,
    allowed_tools      |-> StringsIn(content.allowed_tools),
    accessible_rooms   |-> StringsIn(content.accessible_rooms),
    rate_limit_per_min |-> content.rate_limit_per_min.num,
    daily_call_limit   |-> LimitIn(content, "daily_call_limit"),
    daily_token_budget |-> LimitIn(content, "daily_call_limit"),
    default_class      |-> content.default_class.str,
    overrides          |-> [i \in DOMAIN content.overrides.list |->
                              << content.overrides.list[i].list[1].str,
                                 content.overrides.list[i].list[2].str >>] ]

Decoded(content) ==
  [ agent |-> content.agent.str,
    allowed_tools      |-> StringsIn(content.allowed_tools),
    accessible_rooms   |-> StringsIn(content.accessible_rooms),
    rate_limit_per_min |-> content.rate_limit_per_min.num,
    daily_call_limit   |-> LimitIn(content, "daily_call_limit"),
    daily_token_budget |-> LimitIn(content, "daily_token_budget"),
    default_class      |-> content.default_class.str,
    overrides          |-> [i \in DOMAIN content.overrides.list |->
                              << content.overrides.list[i].list[1].str,
                                 content.overrides.list[i].list[2].str >>] ]

\* The grant, or the first field that is missing or malformed.
from_content(content) ==
  IF BadFields(content) = {}
  THEN [ok |-> TRUE, grant |-> Decoded(content)]
  ELSE LET first == CHOOSE i \in BadFields(content) : IsFirst(i, BadFields(content))
       IN  [ ok |-> FALSE, field |-> FieldOrder[first],
             error |-> IF FieldOrder[first] \in DOMAIN content
                       THEN "InvalidField" ELSE "MissingField" ]

(***************************************************************************)
(* Policy sets.  An absent matcher is written as the empty string.         *)
(***************************************************************************)
Matcher(m) == StrValue(IF m = None THEN "" ELSE m)
MatcherIn(value) == IF value.str = "" THEN None ELSE value.str

RuleValue(rule) ==
  ListValue(<<StrValue(rule.effect), Matcher(rule.tool), Matcher(rule.room),
              Matcher(rule.args_contains)>>)

policy_to_content(policy) ==
  [ default_effect |-> StrValue(policy.default_effect),
    rules |-> ListValue([i \in DOMAIN policy.rules |-> RuleValue(policy.rules[i])]) ]

IsRule(value) ==
  /\ value.kind = "List" /\ Len(value.list) = 4
  /\ IsStr(value.list[1], Effect)
  /\ \A i \in 2..4 : value.list[i].kind = "Str"

RuleIn(value) ==
  [ effect |-> value.list[1].str, tool |-> MatcherIn(value.list[2]),
    room |-> MatcherIn(value.list[3]), args_contains |-> MatcherIn(value.list[4]) ]

policy_from_content(content) ==
  LET Bad(field, error) == [ok |-> FALSE, field |-> field, error |-> error]
  IN  IF "default_effect" \notin DOMAIN content THEN Bad("default_effect", "MissingField")
      ELSE IF ~IsStr(content.default_effect, Effect) THEN Bad("default_effect", "InvalidField")
      ELSE IF "rules" \notin DOMAIN content THEN Bad("rules", "MissingField")
      ELSE IF ~IsList(content.rules, IsRule) THEN Bad("rules", "InvalidField")
      ELSE [ ok |-> TRUE,
             policy |-> [ default_effect |-> content.default_effect.str,
                          rules |-> [i \in DOMAIN content.rules.list |->
                                       RuleIn(content.rules.list[i])] ] ]

-----------------------------------------------------------------------------
\* tool_class: the class of a tool independent of any room, None if the agent
\* may not use it at all.
tool_class(grant, tool) ==
  IF permits_tool(grant, tool) THEN OverrideOrDefault(grant, tool) ELSE None

\* ToolCatalog::list_for: the catalog's tools, each with the grant's class.
list_for(catalog, grant) ==
  { [name |-> tool, class |-> tool_class(grant, tool)] :
      tool \in {t \in catalog : tool_class(grant, t) # None} }
=============================================================================
