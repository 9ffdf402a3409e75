--------------------------- MODULE MCAgentGateway ---------------------------
(***************************************************************************)
(* Small instances of the gateway.  Every run uses the real pipeline; they *)
(* differ in the grants and policies around it and in what the world may   *)
(* do (tick, crash, edit the roster), so that each question gets its own   *)
(* depth.                                                                  *)
(***************************************************************************)
EXTENDS AgentGateway, TLC

CONSTANTS asst, orch,          \* an assistant and an orchestrator
          search, email,       \* a harmless and a high-impact tool
          lobby, vault,        \* two rooms
          external             \* the needle policies look for

\* A grant that lets `search` run and holds `email` for a human.
Grant(agent, rooms, rate, calls, tokens) ==
  [ agent |-> agent, allowed_tools |-> {search, email} \cap Tools,
    accessible_rooms |-> rooms, rate_limit_per_min |-> rate,
    daily_call_limit |-> calls, daily_token_budget |-> tokens,
    default_class |-> "auto",
    overrides |-> IF email \in Tools THEN << <<email, "review">> >> ELSE <<>> ]

Open(agent)   == Grant(agent, {lobby}, 0, 0, 0)

\* Approvals: both agents, no budgets.
ApprovalGrants == {Open(asst), Open(orch)}
ApprovalRoster == asst :> Open(asst) @@ orch :> Open(orch)

\* Budgets: one agent, whose grant may be replaced by a tighter or looser one.
BudgetGrants ==
  {Grant(asst, {lobby}, 1, 0, 0), Grant(asst, {lobby}, 2, 0, 3),
   Grant(asst, {lobby}, 0, 2, 2), Open(asst)}
BudgetRoster == asst :> Grant(asst, {lobby}, 0, 2, 2)

\* Tokens: a budget only of tokens, so that only it can refuse.
TokenGrants == {Grant(asst, {lobby}, 0, 0, 2)}
TokenRoster == asst :> Grant(asst, {lobby}, 0, 0, 2)

\* Policies and delegation: the orchestrator may also enter the vault, the
\* assistant may not use e-mail, and a later grant of its holds every search
\* for review; search has a second, shadowed override.
OrchGrant == [Open(orch) EXCEPT !.accessible_rooms = {lobby, vault},
                !.overrides = << <<email, "review">>, <<search, "auto">>,
                                 <<search, "review">> >>]
AsstGrant == [Open(asst) EXCEPT !.allowed_tools = {search}]
CautiousGrant == [AsstGrant EXCEPT !.overrides = << <<search, "review">> >>]
PolicyGrants == {OrchGrant, AsstGrant, CautiousGrant}
PolicyRoster == asst :> AsstGrant @@ orch :> OrchGrant

Rule(effect, tool, room, needle) ==
  [effect |-> effect, tool |-> tool, room |-> room, args_contains |-> needle]

MCPolicies ==
  { [default_effect |-> d, rules |-> r] :
      d \in {"allow", "deny"},
      r \in { << Rule("deny", email, None, external), Rule("review", None, vault, None) >>,
              << Rule("allow", search, lobby, None), Rule("review", None, None, None) >>,
              << Rule("review", search, None, external), Rule("allow", None, None, None),
                 Rule("deny", None, None, None) >> } }
=============================================================================
