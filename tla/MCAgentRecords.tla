--------------------------- MODULE MCAgentRecords ---------------------------
(***************************************************************************)
(* A small instance: two agents with different scopes, over each of the     *)
(* three backends, with one write that fails and one restart.  The sessions *)
(* are the same memory key in two rooms and of two agents; discovery, and   *)
(* keys, tools and rooms whose names hold the separator, before a number    *)
(* and before something else; and every step of the mediation pipeline.     *)
(***************************************************************************)
EXTENDS AgentRecords

CONSTANTS asst, orch, search, email, split, numbered, figure, lobby, vault, annex,
          note, extra, v1, v2, nowhere

\* The assistant works in two rooms, the orchestrator in one; nobody in the annex.
Asst ==
  [ agent |-> asst, allowed_tools |-> {search, email},
    accessible_rooms |-> {lobby, vault}, rate_limit_per_min |-> 1,
    daily_call_limit |-> 2, daily_token_budget |-> 4, default_class |-> "review",
    overrides |-> << <<search, "auto">>, <<email, "review">>, <<search, "forbidden">> >> ]
Orch ==
  [ agent |-> orch, allowed_tools |-> {search}, accessible_rooms |-> {lobby},
    rate_limit_per_min |-> 0, daily_call_limit |-> 0, daily_token_budget |-> 3,
    default_class |-> "auto", overrides |-> <<>> ]

MCGrants == {Asst, Orch}

\* Tools and a room whose names hold the separator, and a tool named like a figure.
MCSpelling ==
  (split :> << <<search>>, <<extra>> >>) @@ (numbered :> << <<search>>, <<"1">> >>)
  @@ (figure :> << <<search, "tokens=", "1">> >>) @@ (annex :> << <<lobby>>, <<"0">> >>)
MCNumber == ("0" :> 0) @@ ("1" :> 1) @@ ("2" :> 2)

Ask(op, grant, room, key) == [op |-> op, grant |-> grant, room |-> room, key |-> key]
Plain    == << <<note>> >>
Split    == << <<note>>, <<extra>> >>    \* keys that hold the separator
Numbered == << <<note>>, <<"1">> >>
Twice    == << <<note>>, <<"1">>, <<"2">>, <<extra>> >>

\* One key, remembered in two rooms and by two agents.
Scopes ==
  { Ask("remember", Asst, lobby, Plain), Ask("remember", Asst, vault, Plain),
    Ask("remember", Orch, lobby, Plain), Ask("forget", Asst, lobby, Plain),
    Ask("recall", Asst, lobby, Plain), Ask("recall", Orch, lobby, Plain),
    Ask("recall_all", Asst, vault, <<>>), Ask("recall_all", Orch, lobby, <<>>) }

\* Keys and rooms with separators.
Separators ==
  { Ask("remember", Asst, lobby, Plain), Ask("remember", Asst, lobby, Split),
    Ask("remember", Orch, annex, Split), Ask("forget", Orch, vault, Numbered),
    Ask("recall", Asst, lobby, Twice), Ask("recall_all", Orch, annex, <<>>),
    Ask("read_resource", Orch, annex, <<>>) }

\* Denials, discovery and resources.
Looks ==
  { Ask("remember", Asst, lobby, Plain), Ask("forget", Asst, lobby, Plain),
    Ask("recall", Orch, vault, Plain),
    Ask("list_resources", Asst, None, <<>>), Ask("list_tools", Asst, None, <<>>),
    Ask("read_resource", Asst, vault, <<>>), Ask("read_resource", Orch, vault, <<>>),
    Ask("read_resource", Orch, nowhere, <<>>) }

Call(step, tool) == [grant |-> Asst, step |-> step, tool |-> tool, room |-> lobby, by |-> orch,
                     ok |-> TRUE, tokens |-> "2"]
Pipeline == {Call(step, email) :
               step \in OnTool \cup DOMAIN OnToolRoom \cup BySomebody \cup OfAgents \cup {"executed"}}
OrchRuns == [Call("executed", search) EXCEPT !.grant = Orch, !.ok = FALSE, !.tokens = "1"]
OddNames == {Call(step, tool) : step \in {"auto_allowed", "executed"}, tool \in {split, numbered}}
            \cup {Call("executed", figure), [Call("denied_by_scope", search) EXCEPT !.room = annex]}

Session(requests, mediated) == [requests |-> requests, mediated |-> mediated]
MCSessions ==
  { Session(Scopes, {}), Session(Separators, {}), Session(Looks, {OrchRuns}),
    Session({Ask("recall", Orch, vault, Plain)}, Pipeline),
    Session({Ask("recall", Orch, vault, Numbered)}, OddNames \cup {OrchRuns}) }

\* Contents that are not quite a grant's: a value of another kind, an
\* unknown class or id, a limit beyond its width, a malformed override.
Damaged(content) ==
  { [content EXCEPT !.agent = StrValue(nowhere)],
    [content EXCEPT !.agent = NumValue(1)],
    [content EXCEPT !.rate_limit_per_min = NumValue(U32Max + 1)],
    [content EXCEPT !.daily_call_limit = NumValue(U32Max + 1)],
    [content EXCEPT !.daily_token_budget = NumValue(U32Max + 1)],
    [content EXCEPT !.daily_call_limit = StrValue("auto")],
    [content EXCEPT !.default_class = StrValue("always")],
    [content EXCEPT !.allowed_tools = ListValue(<<NumValue(1)>>)],
    [content EXCEPT !.accessible_rooms = ListValue(<<StrValue(nowhere)>>)],
    [content EXCEPT !.accessible_rooms = StrValue(lobby), !.overrides = NumValue(0)],
    [content EXCEPT !.overrides = ListValue(<<ListValue(<<StrValue(search)>>)>>)],
    [content EXCEPT !.overrides =
       ListValue(<<ListValue(<<StrValue(search), StrValue("never")>>)>>)] }

Rule(effect, tool, room, needle) ==
  [effect |-> effect, tool |-> tool, room |-> room, args_contains |-> needle]

MCPolicies ==
  { [default_effect |-> "allow", rules |-> <<>>],
    [default_effect |-> "review",
     rules |-> << Rule("deny", email, vault, None), Rule("allow", None, lobby, note) >>] }

\* The same for policies.
DamagedPolicy(content) ==
  { [content EXCEPT !.default_effect = StrValue("always")],
    [content EXCEPT !.default_effect = NumValue(0)],
    [rules |-> content.rules], [default_effect |-> content.default_effect],
    [content EXCEPT !.rules = StrValue("")],
    [content EXCEPT !.rules = ListValue(<<StrValue("deny")>>)],
    [content EXCEPT !.rules = ListValue(<<ListValue(<<StrValue("deny"), Matcher(email)>>)>>)],
    [content EXCEPT !.rules = ListValue(<<RuleValue(Rule("auto", email, None, None))>>)],
    [content EXCEPT !.rules =
       ListValue(<<ListValue(<<StrValue("deny"), NumValue(1), Matcher(None), Matcher(None)>>)>>)] }

MCPolicyContents == UNION {DamagedPolicy(policy_to_content(policy)) : policy \in Policies}

MCContents == UNION {Damaged(to_content(grant)) : grant \in Grants}

\* The run's constants are of the kind the theorem on contents is about.
ASSUME RunFits ==
  GrantsFit /\ PoliciesFit /\ ContentsCanonical /\ PolicyContentsCanonical
=============================================================================
