------------------------- MODULE AgentGatewayProofs -------------------------
(***************************************************************************)
(* Theorems about the agentic gateway, for every set of agents, tools,     *)
(* rooms, grants and policies and without the bounds of the model runs.    *)
(***************************************************************************)
EXTENDS AgentGateway, TLAPS, WellFoundedInduction

-----------------------------------------------------------------------------
(* Lemmas about the operators of the pipeline.                             *)

LEMMA DivType == ASSUME NEW n \in Nat, NEW d \in Nat \ {0} PROVE n \div d \in Nat
OBVIOUS

\* The daily entry of an agent is well typed, whether or not it was rolled over.
LEMMA DailyEntryType ==
  ASSUME now \in Nat, NEW a \in Agents,
         daily_usage \in [Agents -> Usage]
  PROVE  daily_entry(a) \in Usage
<1>1. current_day \in Nat
  BY GatewayAssumption, DivType DEF current_day, GatewayAssumption
<1>. QED
  BY <1>1, GatewayAssumption DEF daily_entry, Usage, GatewayAssumption

\* Token counts saturate inside the u64.
LEMMA SaturatingAddType ==
  ASSUME NEW a \in 0..U64Max, NEW b \in 0..U64Max
  PROVE  saturating_add(a, b) \in 0..U64Max
BY GatewayAssumption DEF saturating_add, GatewayAssumption

LEMMA EntryType ==
  ASSUME NEW actor \in Agents, NEW event \in AuditEvents,
         NEW tool \in Tools \cup {"none"}
  PROVE  Entry(actor, event, tool) \in AuditEntry
BY DEF Entry, AuditEntry

\* Appending a decision after what the caller logged keeps the log a log.
LEMMA LogType ==
  ASSUME audit_log \in Seq(AuditEntry), NEW before \in Seq(AuditEntry),
         NEW e \in AuditEntry
  PROVE  audit_log \o before \o <<e>> \in Seq(AuditEntry)
OBVIOUS

\* What the gateway logs itself stays within its vocabulary.
LEMMA EventNames ==
  /\ Refusals \subseteq AuditEvents
  /\ {"delegated_by", "auto_allowed", "approval_requested", "approved_by",
      "denied_by", "executed"} \subseteq AuditEvents
BY DEF AuditEvents

LEMMA AppendEntryType ==
  ASSUME audit_log \in Seq(AuditEntry), NEW actor \in Agents,
         NEW event \in AuditEvents, NEW tool \in Tools,
         audit_log' = Append(audit_log, Entry(actor, event, tool))
  PROVE  audit_log' \in Seq(AuditEntry)
<1>1. Entry(actor, event, tool) \in AuditEntry
  BY EntryType
<1>. QED
  BY <1>1

LEMMA OutcomeType ==
  ASSUME metrics.actions \in [Outcomes -> Nat], NEW o \in Outcomes, NEW queue,
         record_outcome(o, queue)
  PROVE  DOMAIN metrics' = {"actions", "pending"} /\ metrics'.actions \in [Outcomes -> Nat]
BY DEF record_outcome

LEMMA RateCheckType ==
  ASSUME recent_calls \in SUBSET RecentCall, NEW grant
  PROVE  AfterRateCheck(grant) \in SUBSET RecentCall
BY DEF AfterRateCheck

\* The bookings of an agent stay well typed however they are changed.
LEMMA UsageType ==
  ASSUME now \in Nat, daily_usage \in [Agents -> Usage], NEW a \in Agents,
         NEW t \in 0..U64Max,
         \/ Roll(a)
         \/ note_daily_call(a)
         \/ note_tokens(a, t)
  PROVE  daily_usage' \in [Agents -> Usage]
<1>1. daily_entry(a) \in Usage
  BY DailyEntryType
<1>2. CASE Roll(a)
  BY <1>1, <1>2 DEF Roll
<1>3. CASE note_daily_call(a)
  BY <1>1, <1>3 DEF note_daily_call, Usage
<1>4. CASE note_tokens(a, t)
  <2>1. saturating_add(daily_entry(a).tokens, t) \in 0..U64Max
    BY <1>1, SaturatingAddType DEF Usage
  <2>. QED
    BY <1>1, <1>4, <2>1 DEF note_tokens, Usage
<1>. QED
  BY <1>2, <1>3, <1>4

-----------------------------------------------------------------------------
(* Type correctness.                                                       *)

\* A refusal logs, counts and changes nothing else but the limiter's memory.
LEMMA RefuseType ==
  ASSUME TypeOK, NEW actor \in Agents, NEW event \in AuditEvents,
         NEW outcome \in Outcomes, NEW tool \in Tools \cup {"none"},
         NEW before \in Seq(AuditEntry),
         Refuse(actor, event, outcome, tool, before),
         recent_calls' \in SUBSET RecentCall, daily_usage' \in [Agents -> Usage]
  PROVE  TypeOK'
<1>1. audit_log' \in Seq(AuditEntry)
  BY EntryType, LogType DEF TypeOK, Refuse
<1>2. DOMAIN metrics' = {"actions", "pending"} /\ metrics'.actions \in [Outcomes -> Nat]
  BY OutcomeType DEF TypeOK, Refuse
<1>. QED
  BY <1>1, <1>2 DEF TypeOK, Refuse, history

\* Admission hands out a fresh id and writes one well-typed history record.
LEMMA AdmitType ==
  ASSUME TypeOK, NEW grant \in Grants, NEW call \in Calls,
         NEW class \in {"auto", "review"}, NEW policy \in Policies \cup {NoPolicy},
         NEW by \in Agents, Admit(grant, call, class, policy, by)
  PROVE  /\ CallId \in Ids
         /\ recent_calls' \in SUBSET RecentCall
         /\ daily_usage' \in [Agents -> Usage]
         /\ next_call_seq' \in Nat
         /\ admissions' \in Seq(Admission)
<1>1. CallId \in Ids
  BY DEF CallId, Ids, TypeOK
<1>2. call.agent \in Agents
  BY DEF Calls
<1>3. [id |-> CallId, agent |-> call.agent, ts |-> now] \in RecentCall
  BY <1>1, <1>2 DEF RecentCall, TypeOK
<1>4. recent_calls' \in SUBSET RecentCall
  BY <1>3, RateCheckType DEF Admit, TypeOK
<1>5. daily_usage' \in [Agents -> Usage]
  BY <1>2, UsageType, GatewayAssumption DEF Admit, TypeOK, GatewayAssumption
<1>6. [id |-> CallId, call |-> call, class |-> class, grant |-> grant,
       policy |-> policy, by |-> by, at |-> now, boot |-> boots] \in Admission
  BY <1>1 DEF Admission, TypeOK
<1>. QED
  BY <1>1, <1>4, <1>5, <1>6 DEF Admit, TypeOK

LEMMA MediateType ==
  ASSUME TypeOK, NEW grant \in Grants, NEW call \in Calls,
         NEW class, NEW policy \in Policies \cup {NoPolicy},
         NEW by \in Agents, NEW before \in Seq(AuditEntry),
         mediate(grant, call, class, policy, by, before)
  PROVE  TypeOK'
<1>1. call.agent \in Agents /\ call.tool \in Tools
  BY DEF Calls
<1>2. /\ recent_calls \in SUBSET RecentCall
      /\ AfterRateCheck(grant) \in SUBSET RecentCall
      /\ daily_usage \in [Agents -> Usage]
      /\ now \in Nat
  BY RateCheckType DEF TypeOK
<1>3. CASE DenyScope(call, before)
  BY <1>1, <1>2, <1>3, RefuseType DEF DenyScope, AuditEvents, Refusals, Outcomes
<1>4. CASE RateLimited(grant, call, before)
  BY <1>1, <1>2, <1>4, RefuseType DEF RateLimited, AuditEvents, Refusals, Outcomes
<1>5. Roll(call.agent) => daily_usage' \in [Agents -> Usage]
  BY <1>1, <1>2, UsageType, GatewayAssumption DEF GatewayAssumption
<1>6. CASE DailyBudgetExceeded(grant, call, before)
  BY <1>1, <1>2, <1>5, <1>6, RefuseType
     DEF DailyBudgetExceeded, AuditEvents, Refusals, Outcomes
<1>7. CASE TokenBudgetExceeded(grant, call, before)
  BY <1>1, <1>2, <1>5, <1>7, RefuseType
     DEF TokenBudgetExceeded, AuditEvents, Refusals, Outcomes
<1>8. CASE AdmitAuto(grant, call, policy, by, before)
  <2>1. Admit(grant, call, "auto", policy, by)
    BY <1>8 DEF AdmitAuto
  <2>2. audit_log' \in Seq(AuditEntry)
    BY <1>1, <1>8, EntryType, LogType DEF AdmitAuto, TypeOK, AuditEvents
  <2>3. CallId \in Ids
    BY <2>1, AdmitType
  <2>4. running' \in Running
    BY <1>8, <2>3, GatewayAssumption DEF AdmitAuto, Running, GatewayAssumption
  <2>. QED
    BY <1>8, <2>1, <2>2, <2>4, AdmitType DEF AdmitAuto, Admit, TypeOK
<1>9. CASE AdmitReview(grant, call, policy, by, before)
  <2>1. Admit(grant, call, "review", policy, by)
    BY <1>9 DEF AdmitReview
  <2>2. audit_log' \in Seq(AuditEntry)
    BY <1>1, <1>9, EntryType, LogType DEF AdmitReview, TypeOK, AuditEvents
  <2>3. /\ CallId \in Ids
        /\ next_request_id \in Nat
    BY <2>1, AdmitType DEF TypeOK
  <2>4. [request_id |-> RequestId, id |-> CallId, call |-> call] \in PendingApproval
    BY <2>3 DEF PendingApproval, RequestId
  <2>5. [request_id |-> RequestId, call |-> call, boot |-> boots] \in Card
    BY <2>3 DEF Card, RequestId, TypeOK
  <2>6. pending' \in SUBSET PendingApproval /\ cards' \in SUBSET Card
    BY <1>9, <2>4, <2>5 DEF AdmitReview, TypeOK
  <2>7. DOMAIN metrics' = {"actions", "pending"} /\ metrics'.actions \in [Outcomes -> Nat]
    BY <1>9, OutcomeType DEF AdmitReview, TypeOK, Outcomes
  <2>8. /\ recent_calls' \in SUBSET RecentCall
        /\ daily_usage' \in [Agents -> Usage]
        /\ next_call_seq' \in Nat
        /\ admissions' \in Seq(Admission)
    BY <2>1, AdmitType
  <2>9. /\ next_request_id' = next_request_id + 1
        /\ UNCHANGED running
        /\ UNCHANGED <<roster, now, boots, roster_changes, boot_mark, effects, charges>>
    BY <1>9, <2>1 DEF AdmitReview, Admit
  <2>. QED
    BY <2>2, <2>3, <2>6, <2>7, <2>8, <2>9 DEF TypeOK
<1>. QED
  BY <1>3, <1>4, <1>6, <1>7, <1>8, <1>9 DEF mediate

LEMMA TypeInit == Init => TypeOK
BY GatewayAssumption
   DEF Init, TypeOK, GatewayAssumption, NoUsage, NoMetrics, Usage

\* A grant on the roster is one of the grants an operator may hand out.
LEMMA OnRoster ==
  ASSUME TypeOK, NEW a \in Agents, roster[a] # NoGrant
  PROVE  roster[a] \in Grants
BY DEF TypeOK

LEMMA UnknownType ==
  ASSUME TypeOK, NEW a \in Agents, RefuseUnknown(a, <<>>)
  PROVE  TypeOK'
<1>1. recent_calls' \in SUBSET RecentCall /\ daily_usage' \in [Agents -> Usage]
  BY DEF RefuseUnknown, TypeOK
<1>2. "unknown_agent" \in AuditEvents /\ "unknown_agent" \in Outcomes
  BY DEF AuditEvents, Refusals, Outcomes
<1>3. "none" \in Tools \cup {"none"} /\ <<>> \in Seq(AuditEntry)
  OBVIOUS
<1>4. Refuse(a, "unknown_agent", "unknown_agent", "none", <<>>)
  BY DEF RefuseUnknown
<1>. QED
  BY <1>1, <1>2, <1>3, <1>4, RefuseType

LEMMA HandleType ==
  ASSUME TypeOK, NEW call \in Calls, NEW o \in Agents,
         \/ handle_in_room(call)
         \/ handle_delegated(o, call)
         \/ handle_managed(call)
         \/ \E policy \in Policies : handle_with_policy(call, policy)
  PROVE  TypeOK'
<1>1. call.agent \in Agents /\ call.tool \in Tools
  BY DEF Calls
<1>2. <<>> \in Seq(AuditEntry)
  OBVIOUS
<1>3. <<Entry(call.agent, "delegated_by", call.tool)>> \in Seq(AuditEntry)
  <2>1. Entry(call.agent, "delegated_by", call.tool) \in AuditEntry
    BY <1>1, EntryType, EventNames
  <2>. QED
    BY <2>1
<1>4. CASE handle_in_room(call)
  BY <1>1, <1>2, <1>4, OnRoster, UnknownType, MediateType DEF handle_in_room
<1>5. CASE handle_delegated(o, call)
  BY <1>1, <1>3, <1>5, OnRoster, UnknownType, MediateType DEF handle_delegated
<1>6. CASE handle_managed(call)
  <2>1. CASE /\ Refuse(call.agent, "unmanaged_agent", "unmanaged", "none", <<>>)
             /\ UNCHANGED <<recent_calls, daily_usage>>
    <3>1. recent_calls' \in SUBSET RecentCall /\ daily_usage' \in [Agents -> Usage]
      BY <2>1 DEF TypeOK
    <3>2. "unmanaged_agent" \in AuditEvents /\ "unmanaged" \in Outcomes
      BY DEF AuditEvents, Refusals, Outcomes
    <3>3. "none" \in Tools \cup {"none"}
      OBVIOUS
    <3>. QED
      BY <1>1, <1>2, <2>1, <3>1, <3>2, <3>3, RefuseType
  <2>. QED
    BY <1>1, <1>2, <1>6, <2>1, OnRoster, MediateType DEF handle_managed
<1>7. ASSUME NEW policy \in Policies, handle_with_policy(call, policy)
      PROVE  TypeOK'
  <2>1. roster[call.agent] \in Grants
    BY <1>1, <1>7, OnRoster DEF handle_with_policy
  <2>2. CASE DenyPolicy(call)
    <3>1. recent_calls' \in SUBSET RecentCall /\ daily_usage' \in [Agents -> Usage]
      BY <2>2 DEF DenyPolicy, TypeOK
    <3>2. "policy_denied" \in AuditEvents /\ "denied_policy" \in Outcomes
      BY DEF AuditEvents, Refusals, Outcomes
    <3>3. call.tool \in Tools \cup {"none"}
      BY <1>1
    <3>4. Refuse(call.agent, "policy_denied", "denied_policy", call.tool, <<>>)
      BY <2>2 DEF DenyPolicy
    <3>. QED
      BY <1>1, <1>2, <3>1, <3>2, <3>3, <3>4, RefuseType
  <2>3. ASSUME NEW class,
               mediate(roster[call.agent], call, class, policy, call.agent, <<>>)
        PROVE  TypeOK'
    BY <1>1, <1>2, <2>1, <2>3, MediateType
  <2>. QED
    BY <1>7, <2>2, <2>3 DEF handle_with_policy
<1>. QED
  BY <1>4, <1>5, <1>6, <1>7

LEMMA ResolveType ==
  ASSUME TypeOK, NEW card \in cards, NEW approved \in BOOLEAN, resolve(card, approved)
  PROVE  TypeOK'
<1>1. PICK p \in pending :
        /\ pending' = Remaining(p)
        /\ \/ approved /\ Approve(p, card)
           \/ ~approved /\ Deny(p)
  BY DEF resolve
<1>2. /\ p \in PendingApproval /\ card \in Card
      /\ p.call.agent \in Agents /\ p.call.tool \in Tools
  BY DEF TypeOK, PendingApproval, Calls
<1>3. pending' \in SUBSET PendingApproval
  BY <1>1 DEF Remaining, TypeOK
<1>4. audit_log' \in Seq(AuditEntry)
  BY <1>1, <1>2, AppendEntryType, EventNames DEF Approve, Deny, TypeOK
<1>5. DOMAIN metrics' = {"actions", "pending"} /\ metrics'.actions \in [Outcomes -> Nat]
  BY <1>1, OutcomeType DEF Approve, Deny, Outcomes, TypeOK
<1>6. running' \in Running \cup {Idle}
  <2>1. CASE Deny(p)
    BY <2>1 DEF Deny, TypeOK
  <2>2. CASE Approve(p, card)
    <3>1. /\ p.id \in Ids /\ p.call \in Calls /\ card.call \in Calls
          /\ (card.boot = boots) \in BOOLEAN /\ 0 \in 0..U64Max
      BY <1>2, GatewayAssumption DEF PendingApproval, Card, GatewayAssumption
    <3>. QED
      BY <2>2, <3>1 DEF Approve, Running
  <2>. QED
    BY <1>1, <2>1, <2>2
<1>. QED
  BY <1>3, <1>4, <1>5, <1>6 DEF resolve, TypeOK, history

LEMMA RunType ==
  ASSUME TypeOK, (\E tokens \in TokenCosts : Execute(tokens)) \/ Record
  PROVE  TypeOK'
<1>1. CASE Record
  <2>1. running \in Running /\ running.call \in Calls /\ running.tokens \in 0..U64Max
    BY <1>1 DEF Record, TypeOK, Running
  <2>2. running.call.agent \in Agents /\ running.call.tool \in Tools
    BY <2>1 DEF Calls
  <2>3. daily_usage' \in [Agents -> Usage]
    BY <1>1, <2>1, <2>2, UsageType DEF Record, TypeOK
  <2>4. audit_log' \in Seq(AuditEntry)
    BY <1>1, <2>2, AppendEntryType, EventNames DEF Record, TypeOK
  <2>5. charges' \in Seq(Charge)
    BY <1>1, <2>1, <2>2 DEF Record, TypeOK, Charge
  <2>6. DOMAIN metrics' = {"actions", "pending"} /\ metrics'.actions \in [Outcomes -> Nat]
    BY <1>1, OutcomeType DEF Record, Outcomes, TypeOK
  <2>. QED
    BY <1>1, <2>3, <2>4, <2>5, <2>6 DEF Record, TypeOK
<1>2. ASSUME NEW tokens \in TokenCosts, Execute(tokens)
      PROVE  TypeOK'
  <2>1. running \in Running /\ tokens \in 0..U64Max
    BY <1>2, GatewayAssumption DEF Execute, TypeOK, GatewayAssumption
  <2>2. running' \in Running
    BY <1>2, <2>1 DEF Execute, Running
  <2>3. effects' \in Seq(Executed)
    <3>. DEFINE done == [id |-> running.id, call |-> running.call,
                         shown |-> running.shown, current |-> running.current,
                         via |-> running.via]
    <3>1. done \in Executed
      BY <2>1 DEF Running, Executed
    <3>2. effects \in Seq(Executed) /\ effects' = Append(effects, done)
      BY <1>2 DEF Execute, TypeOK
    <3>. HIDE DEF done
    <3>. QED
      BY <3>1, <3>2
  <2>. QED
    BY <1>2, <2>2, <2>3 DEF Execute, TypeOK
<1>. QED
  BY <1>1, <1>2

LEMMA WorldType ==
  ASSUME TypeOK,
         \/ \E grant \in Grants : InsertGrant(grant)
         \/ \E agent \in Agents : RemoveAgent(agent)
         \/ \E step \in ClockSteps : Tick(step)
         \/ CrashRestart
  PROVE  TypeOK'
<1>1. ASSUME NEW grant \in Grants, InsertGrant(grant) PROVE TypeOK'
  <2>1. grant.agent \in Agents
    BY GatewayAssumption DEF GatewayAssumption, CapabilityGrant
  <2>. QED
    BY <1>1, <2>1 DEF InsertGrant, TypeOK, process, history
<1>2. ASSUME NEW agent \in Agents, RemoveAgent(agent) PROVE TypeOK'
  BY <1>2 DEF RemoveAgent, TypeOK, process, history
<1>3. ASSUME NEW step \in ClockSteps, Tick(step) PROVE TypeOK'
  BY <1>3, GatewayAssumption DEF Tick, TypeOK, process, history, GatewayAssumption
<1>4. CASE CrashRestart
  BY <1>4, GatewayAssumption
     DEF CrashRestart, TypeOK, NoUsage, NoMetrics, Usage, GatewayAssumption
<1>. QED
  BY <1>1, <1>2, <1>3, <1>4

LEMMA TypeStep == TypeOK /\ [Next]_vars => TypeOK'
<1>. SUFFICES ASSUME TypeOK, [Next]_vars PROVE TypeOK'
  OBVIOUS
<1>1. CASE UNCHANGED vars
  BY <1>1 DEF TypeOK, vars, process, history
<1>2. ASSUME NEW call \in Calls,
             \/ handle_in_room(call)
             \/ \E orchestrator \in Agents : handle_delegated(orchestrator, call)
             \/ handle_managed(call)
             \/ \E policy \in Policies : handle_with_policy(call, policy)
      PROVE  TypeOK'
  <2>1. call.agent \in Agents
    BY DEF Calls
  <2>2. ASSUME NEW orchestrator \in Agents, handle_delegated(orchestrator, call)
        PROVE  TypeOK'
    BY <2>2, HandleType
  <2>. QED
    BY <1>2, <2>1, <2>2, HandleType
<1>3. ASSUME NEW card \in cards, NEW approved \in BOOLEAN, resolve(card, approved)
      PROVE  TypeOK'
  BY <1>3, ResolveType
<1>4. CASE (\E tokens \in TokenCosts : Execute(tokens)) \/ Record
  BY <1>4, RunType
<1>5. CASE \/ \E grant \in Grants : InsertGrant(grant)
           \/ \E agent \in Agents : RemoveAgent(agent)
           \/ \E step \in ClockSteps : Tick(step)
           \/ CrashRestart
  BY <1>5, WorldType
<1>. QED
  BY <1>1, <1>2, <1>3, <1>4, <1>5 DEF Next

(* Every reachable state of the gateway is well typed: in particular the token
   counters never leave the u64 and every audit entry comes from the gateway's
   own vocabulary, which is what replay.rs classifies. *)
THEOREM TypeCorrect == Spec => []TypeOK
BY TypeInit, TypeStep, PTL DEF Spec

-----------------------------------------------------------------------------
(* The shapes of a step.  Four entry points and six exits of the pipeline  *)
(* come down to a refusal or an admission; the other proofs start here.    *)

\* What the entry point may have logged before the decision.
Attributions ==
  {<<>>} \cup {<<Entry(a, "delegated_by", t)>> : a \in Agents, t \in Tools}

\* A call is turned away: one refusal is logged and counted; the limiter may
\* forget old calls and the day may roll over.
Refusing ==
  \E actor \in Agents, event \in Refusals, tool \in Tools \cup {"none"},
     before \in Attributions :
       /\ running = Idle
       /\ Refuse(actor, event, OutcomeOf(event), tool, before)
       /\ recent_calls' = recent_calls \/ \E grant : recent_calls' = AfterRateCheck(grant)
       /\ daily_usage' = daily_usage \/ \E a \in Agents : Roll(a)

\* What has been decided when mediation admits a call.
Decided(grant, call, class, policy, by, before) ==
  /\ running = Idle
  /\ grant = roster[call.agent] /\ grant \in Grants /\ roster[by] # NoGrant
  /\ classify(grant, call.tool, call.room) # "forbidden"
  /\ \/ by = call.agent /\ before = <<>>
     \/ before = <<Entry(call.agent, "delegated_by", call.tool)>>
  /\ \/ policy = NoPolicy /\ class = classify(grant, call.tool, call.room)
     \/ /\ policy \in Policies
        /\ evaluate(policy, call) # "deny"
        /\ class = refine(classify(grant, call.tool, call.room), evaluate(policy, call))

Admitting ==
  \E grant \in Grants, call \in Calls, policy \in Policies \cup {NoPolicy},
     by \in Agents, before \in Attributions :
       \/ /\ Decided(grant, call, "auto", policy, by, before)
          /\ AdmitAuto(grant, call, policy, by, before)
       \/ /\ Decided(grant, call, "review", policy, by, before)
          /\ AdmitReview(grant, call, policy, by, before)

\* The steps of the world that leave the gateway's own state alone.
World ==
  \/ \E grant \in Grants : InsertGrant(grant)
  \/ \E agent \in Agents : RemoveAgent(agent)
  \/ \E step \in ClockSteps : Tick(step)

LEMMA RefusalOutcomes ==
  /\ OutcomeOf("denied_by_scope") = "denied_scope"
  /\ OutcomeOf("rate_limited") = "rate_limited"
  /\ OutcomeOf("daily_budget_exceeded") = "budget_exceeded"
  /\ OutcomeOf("token_budget_exceeded") = "token_budget_exceeded"
  /\ OutcomeOf("policy_denied") = "denied_policy"
  /\ OutcomeOf("unmanaged_agent") = "unmanaged"
  /\ OutcomeOf("unknown_agent") = "unknown_agent"
BY DEF OutcomeOf, Outcomes

LEMMA MediateShape ==
  ASSUME TypeOK, NEW grant \in Grants, NEW call \in Calls, NEW class,
         NEW policy \in Policies \cup {NoPolicy}, NEW by \in Agents,
         NEW before \in Attributions, running = Idle,
         class # "forbidden" => Decided(grant, call, class, policy, by, before),
         mediate(grant, call, class, policy, by, before)
  PROVE  Refusing \/ Admitting
<1>1. call.agent \in Agents /\ call.tool \in Tools \cup {"none"}
  BY DEF Calls
<1>2. CASE DenyScope(call, before)
  BY <1>1, <1>2, RefusalOutcomes DEF DenyScope, Refusing, Refusals
<1>3. CASE RateLimited(grant, call, before)
  BY <1>1, <1>3, RefusalOutcomes DEF RateLimited, Refusing, Refusals
<1>4. CASE DailyBudgetExceeded(grant, call, before)
  BY <1>1, <1>4, RefusalOutcomes DEF DailyBudgetExceeded, Refusing, Refusals
<1>5. CASE TokenBudgetExceeded(grant, call, before)
  BY <1>1, <1>5, RefusalOutcomes DEF TokenBudgetExceeded, Refusing, Refusals
<1>6. CASE class = "auto" /\ AdmitAuto(grant, call, policy, by, before)
  BY <1>6 DEF Admitting
<1>7. CASE class = "review" /\ AdmitReview(grant, call, policy, by, before)
  BY <1>7 DEF Admitting
<1>. QED
  BY <1>2, <1>3, <1>4, <1>5, <1>6, <1>7 DEF mediate

LEMMA UnknownShape ==
  ASSUME NEW a \in Agents, running = Idle, RefuseUnknown(a, <<>>)
  PROVE  Refusing
BY RefusalOutcomes DEF RefuseUnknown, Refusing, Refusals, Attributions

LEMMA HandleShape ==
  ASSUME TypeOK, NEW call \in Calls,
         \/ handle_in_room(call)
         \/ \E orchestrator \in Agents : handle_delegated(orchestrator, call)
         \/ handle_managed(call)
         \/ \E policy \in Policies : handle_with_policy(call, policy)
  PROVE  Refusing \/ Admitting
<1>1. call.agent \in Agents /\ call.tool \in Tools
  BY DEF Calls
<1>2. roster[call.agent] # NoGrant => roster[call.agent] \in Grants
  BY <1>1, OnRoster
<1>3. /\ <<>> \in Attributions
      /\ <<Entry(call.agent, "delegated_by", call.tool)>> \in Attributions
  BY <1>1 DEF Attributions
<1>4. CASE handle_in_room(call)
  BY <1>1, <1>2, <1>3, <1>4, MediateShape, UnknownShape
     DEF handle_in_room, CanHandle, Decided
<1>5. ASSUME NEW orchestrator \in Agents, handle_delegated(orchestrator, call)
      PROVE  Refusing \/ Admitting
  BY <1>1, <1>2, <1>3, <1>5, MediateShape, UnknownShape
     DEF handle_delegated, CanHandle, Decided
<1>6. CASE handle_managed(call)
  <2>1. CASE call.agent \notin Managed
    BY <1>1, <1>3, <1>6, <2>1, RefusalOutcomes
       DEF handle_managed, CanHandle, Refusing, Refusals
  <2>2. CASE call.agent \in Managed
    BY <1>1, <1>2, <1>3, <1>6, <2>2, MediateShape DEF handle_managed, CanHandle, Decided
  <2>. QED
    BY <2>1, <2>2
<1>7. ASSUME NEW policy \in Policies, handle_with_policy(call, policy)
      PROVE  Refusing \/ Admitting
  <2>. DEFINE grant == roster[call.agent]
              base  == classify(grant, call.tool, call.room)
  <2>1. running = Idle /\ grant \in Grants
    BY <1>2, <1>7 DEF handle_with_policy, CanHandle
  <2>2. CASE DenyPolicy(call)
    BY <1>1, <1>3, <2>1, <2>2, RefusalOutcomes DEF DenyPolicy, Refusing, Refusals
  <2>3. CASE mediate(grant, call, "forbidden", policy, call.agent, <<>>)
    BY <1>1, <1>3, <2>1, <2>3, MediateShape
  <2>4. CASE /\ base # "forbidden" /\ evaluate(policy, call) # "deny"
             /\ mediate(grant, call, refine(base, evaluate(policy, call)), policy,
                        call.agent, <<>>)
    <3>1. Decided(grant, call, refine(base, evaluate(policy, call)), policy,
                  call.agent, <<>>)
      BY <1>7, <2>1, <2>4 DEF Decided, handle_with_policy
    <3>. QED
      BY <1>1, <1>3, <2>1, <2>4, <3>1, MediateShape
  <2>. QED
    BY <1>7, <2>2, <2>3, <2>4 DEF handle_with_policy
<1>. QED
  BY <1>4, <1>5, <1>6, <1>7

\* Every step of the gateway is one of these.
LEMMA StepShapes ==
  ASSUME TypeOK, Next
  PROVE  \/ Refusing
         \/ Admitting
         \/ \E card \in cards, approved \in BOOLEAN : resolve(card, approved)
         \/ \E tokens \in TokenCosts : Execute(tokens)
         \/ Record
         \/ World
         \/ CrashRestart
BY HandleShape DEF Next, World

-----------------------------------------------------------------------------
(* Why no tool ever runs twice for one call, or without the admission that *)
(* authorises it: the inductive invariant behind EffectsAuthorisedOnce.    *)
(*                                                                         *)
(* A call's id has at any time at most one owner (a pending approval, the  *)
(* running tool before its effect, or an effect), every owner is backed by *)
(* an admission of that very call, and a new id is none that was ever      *)
(* admitted, restarts included.                                            *)

Backed(log, id, call, class) ==
  \E j \in DOMAIN log : log[j].id = id /\ log[j].call = call /\ log[j].class = class

\* The ids handed out before a given counter of a given process.
Minted(id, boot, seq) == id[1] <= boot /\ (id[1] = boot => id[2] < seq)

AllMinted ==
  \A j \in DOMAIN admissions : Minted(admissions[j].id, boots, next_call_seq)

AllBacked ==
  /\ \A p \in pending : Backed(admissions, p.id, p.call, "review")
  /\ running # Idle => Backed(admissions, running.id, running.call, running.via)
  /\ \A i \in DOMAIN effects :
       Backed(admissions, effects[i].id, effects[i].call, effects[i].via)

OneOwner ==
  /\ \A p, q \in pending : p.id = q.id => p = q
  /\ \A p \in pending, i \in DOMAIN effects : effects[i].id # p.id
  /\ running # Idle => \A p \in pending : running.id # p.id
  /\ running # Idle => (running.phase = "execute" =>
                          \A i \in DOMAIN effects : effects[i].id # running.id)
  /\ \A i, j \in DOMAIN effects : effects[i].id = effects[j].id => i = j

AuthInv == TypeOK /\ AllMinted /\ AllBacked /\ OneOwner

-----------------------------------------------------------------------------
(* Growing the admission log.                                              *)

\* What an admission backs it backs for ever.
LEMMA BackedGrows ==
  ASSUME NEW log \in Seq(Admission), NEW a \in Admission, NEW id, NEW call, NEW class,
         Backed(log, id, call, class)
  PROVE  Backed(Append(log, a), id, call, class)
BY DEF Backed

LEMMA BackedByNew ==
  ASSUME NEW log \in Seq(Admission), NEW a \in Admission
  PROVE  Backed(Append(log, a), a.id, a.call, a.class)
<1>1. Append(log, a)[Len(log) + 1] = a /\ Len(log) + 1 \in DOMAIN Append(log, a)
  OBVIOUS
<1>. QED
  BY <1>1 DEF Backed

\* The id about to be handed out backs nothing yet.
LEMMA CallIdFresh ==
  ASSUME TypeOK, AllMinted, NEW id, NEW call, NEW class,
         Backed(admissions, id, call, class)
  PROVE  id # CallId
<1>1. Minted(id, boots, next_call_seq)
  BY DEF AllMinted, Backed
<1>2. ~Minted(CallId, boots, next_call_seq)
  BY DEF Minted, CallId, TypeOK
<1>. QED
  BY <1>1, <1>2

\* A new admission takes its id from the counter and steps the counter.
LEMMA MintedStep ==
  ASSUME TypeOK, AllMinted, NEW a \in Admission, a.id = CallId,
         admissions' = Append(admissions, a),
         next_call_seq' = next_call_seq + 1, boots' = boots
  PROVE  AllMinted'
<1>. SUFFICES ASSUME NEW j \in DOMAIN admissions'
              PROVE  Minted(admissions'[j].id, boots, next_call_seq + 1)
  BY DEF AllMinted
<1>0. admissions \in Seq(Admission) /\ boots \in Nat /\ next_call_seq \in Nat
  BY DEF TypeOK
<1>1. CASE j \in DOMAIN admissions
  <2>1. admissions'[j] = admissions[j] /\ admissions[j] \in Admission
    BY <1>0, <1>1
  <2>2. admissions[j].id \in Nat \X Nat
    BY <2>1 DEF Admission, Ids
  <2>3. Minted(admissions[j].id, boots, next_call_seq)
    BY <1>1 DEF AllMinted
  <2>. QED
    BY <1>0, <2>1, <2>2, <2>3 DEF Minted
<1>2. CASE j \notin DOMAIN admissions
  <2>1. admissions'[j] = a
    BY <1>0, <1>2
  <2>. QED
    BY <1>0, <2>1 DEF Minted, CallId
<1>. QED
  BY <1>1, <1>2

-----------------------------------------------------------------------------
(* The steps.                                                              *)

authVars == <<boots, next_call_seq, pending, running, admissions, effects>>

\* Steps that touch no call: refusals, roster edits, ticks.
LEMMA AuthUnchanged ==
  ASSUME AuthInv, TypeOK', UNCHANGED authVars
  PROVE  AuthInv'
BY DEF AuthInv, AllMinted, AllBacked, OneOwner, authVars

LEMMA AuthAdmitAuto ==
  ASSUME AuthInv, TypeOK', NEW grant \in Grants, NEW call \in Calls,
         NEW policy \in Policies \cup {NoPolicy}, NEW by \in Agents, NEW before,
         running = Idle, AdmitAuto(grant, call, policy, by, before)
  PROVE  AuthInv'
<1>. DEFINE a == [id |-> CallId, call |-> call, class |-> "auto", grant |-> grant,
                  policy |-> policy, by |-> by, at |-> now, boot |-> boots]
<1>1. /\ admissions' = Append(admissions, a)
      /\ next_call_seq' = next_call_seq + 1
      /\ boots' = boots /\ pending' = pending /\ effects' = effects
      /\ running'.id = CallId /\ running'.call = call /\ running'.via = "auto"
  BY DEF AdmitAuto, Admit
<1>2. /\ TypeOK /\ AllMinted /\ AllBacked /\ OneOwner
      /\ admissions \in Seq(Admission) /\ CallId \in Ids
  BY DEF AuthInv, TypeOK, CallId, Ids
<1>3. a \in Admission
  BY <1>2 DEF Admission, TypeOK
<1>4. a.id = CallId /\ a.call = call /\ a.class = "auto"
  OBVIOUS
<1>. HIDE DEF a
<1>5. AllMinted'
  BY <1>1, <1>2, <1>3, <1>4, MintedStep
<1>6. AllBacked'
  <2>1. \A p \in pending' : Backed(admissions', p.id, p.call, "review")
    BY <1>1, <1>2, <1>3, BackedGrows DEF AllBacked
  <2>2. Backed(admissions', running'.id, running'.call, running'.via)
    BY <1>1, <1>2, <1>3, <1>4, BackedByNew
  <2>3. \A i \in DOMAIN effects' :
          Backed(admissions', effects'[i].id, effects'[i].call, effects'[i].via)
    BY <1>1, <1>2, <1>3, BackedGrows DEF AllBacked
  <2>. QED
    BY <2>1, <2>2, <2>3 DEF AllBacked
<1>7. OneOwner'
  <2>1. \A p \in pending : p.id # CallId
    BY <1>2, CallIdFresh DEF AllBacked
  <2>2. \A i \in DOMAIN effects : effects[i].id # CallId
    BY <1>2, CallIdFresh DEF AllBacked
  <2>. QED
    BY <1>1, <1>2, <2>1, <2>2 DEF OneOwner
<1>. QED
  BY <1>5, <1>6, <1>7 DEF AuthInv

LEMMA AuthAdmitReview ==
  ASSUME AuthInv, TypeOK', NEW grant \in Grants, NEW call \in Calls,
         NEW policy \in Policies \cup {NoPolicy}, NEW by \in Agents, NEW before,
         running = Idle, AdmitReview(grant, call, policy, by, before)
  PROVE  AuthInv'
<1>. DEFINE a == [id |-> CallId, call |-> call, class |-> "review", grant |-> grant,
                  policy |-> policy, by |-> by, at |-> now, boot |-> boots]
<1>. DEFINE new == [request_id |-> RequestId, id |-> CallId, call |-> call]
<1>1. /\ admissions' = Append(admissions, a)
      /\ next_call_seq' = next_call_seq + 1
      /\ boots' = boots /\ running' = Idle /\ effects' = effects
      /\ pending' = pending \cup {new}
  BY DEF AdmitReview, Admit
<1>2. /\ TypeOK /\ AllMinted /\ AllBacked /\ OneOwner
      /\ admissions \in Seq(Admission) /\ CallId \in Ids
  BY DEF AuthInv, TypeOK, CallId, Ids
<1>3. a \in Admission
  BY <1>2 DEF Admission, TypeOK
<1>4. /\ a.id = CallId /\ a.call = call /\ a.class = "review"
      /\ new.id = CallId /\ new.call = call
  OBVIOUS
<1>. HIDE DEF a, new
<1>5. AllMinted'
  BY <1>1, <1>2, <1>3, <1>4, MintedStep
<1>6. AllBacked'
  <2>1. \A p \in pending : Backed(admissions', p.id, p.call, "review")
    BY <1>1, <1>2, <1>3, BackedGrows DEF AllBacked
  <2>2. Backed(admissions', new.id, new.call, "review")
    BY <1>1, <1>2, <1>3, <1>4, BackedByNew
  <2>3. \A i \in DOMAIN effects' :
          Backed(admissions', effects'[i].id, effects'[i].call, effects'[i].via)
    BY <1>1, <1>2, <1>3, BackedGrows DEF AllBacked
  <2>. QED
    BY <1>1, <2>1, <2>2, <2>3 DEF AllBacked
<1>7. OneOwner'
  <2>1. \A p \in pending : p.id # CallId
    BY <1>2, CallIdFresh DEF AllBacked
  <2>2. \A i \in DOMAIN effects : effects[i].id # CallId
    BY <1>2, CallIdFresh DEF AllBacked
  <2>. QED
    BY <1>1, <1>2, <1>4, <2>1, <2>2 DEF OneOwner
<1>. QED
  BY <1>5, <1>6, <1>7 DEF AuthInv

\* Whatever mediation decides.
LEMMA AuthMediate ==
  ASSUME AuthInv, TypeOK', NEW grant \in Grants, NEW call \in Calls, NEW class,
         NEW policy \in Policies \cup {NoPolicy}, NEW by \in Agents, NEW before,
         running = Idle, mediate(grant, call, class, policy, by, before)
  PROVE  AuthInv'
<1>1. CASE AdmitAuto(grant, call, policy, by, before)
  BY <1>1, AuthAdmitAuto
<1>2. CASE AdmitReview(grant, call, policy, by, before)
  BY <1>2, AuthAdmitReview
<1>3. CASE \/ DenyScope(call, before)
           \/ RateLimited(grant, call, before)
           \/ DailyBudgetExceeded(grant, call, before)
           \/ TokenBudgetExceeded(grant, call, before)
  <2>1. UNCHANGED authVars
    BY <1>3 DEF DenyScope, RateLimited, DailyBudgetExceeded, TokenBudgetExceeded,
                Refuse, history, authVars
  <2>. QED
    BY <2>1, AuthUnchanged
<1>. QED
  BY <1>1, <1>2, <1>3 DEF mediate

LEMMA AuthRefuse ==
  ASSUME AuthInv, TypeOK', NEW actor, NEW event, NEW outcome, NEW tool, NEW before,
         Refuse(actor, event, outcome, tool, before)
  PROVE  AuthInv'
<1>1. UNCHANGED authVars
  BY DEF Refuse, history, authVars
<1>. QED
  BY <1>1, AuthUnchanged

LEMMA AuthHandle ==
  ASSUME AuthInv, TypeOK', NEW call \in Calls,
         \/ handle_in_room(call)
         \/ \E orchestrator \in Agents : handle_delegated(orchestrator, call)
         \/ handle_managed(call)
         \/ \E policy \in Policies : handle_with_policy(call, policy)
  PROVE  AuthInv'
<1>1. call.agent \in Agents
  BY DEF Calls
<1>2. roster[call.agent] # NoGrant => roster[call.agent] \in Grants
  BY <1>1, OnRoster DEF AuthInv
<1>3. CASE handle_in_room(call)
  BY <1>1, <1>2, <1>3, AuthMediate, AuthRefuse
     DEF handle_in_room, CanHandle, RefuseUnknown
<1>4. ASSUME NEW orchestrator \in Agents, handle_delegated(orchestrator, call)
      PROVE  AuthInv'
  BY <1>1, <1>2, <1>4, AuthMediate, AuthRefuse
     DEF handle_delegated, CanHandle, RefuseUnknown
<1>5. CASE handle_managed(call)
  BY <1>1, <1>2, <1>5, AuthMediate, AuthRefuse DEF handle_managed, CanHandle
<1>6. ASSUME NEW policy \in Policies, handle_with_policy(call, policy)
      PROVE  AuthInv'
  <2>1. /\ running = Idle
        /\ roster[call.agent] \in Grants
        /\ \/ \E class : mediate(roster[call.agent], call, class, policy, call.agent, <<>>)
           \/ DenyPolicy(call)
    BY <1>2, <1>6 DEF handle_with_policy, CanHandle
  <2>. QED
    BY <1>1, <2>1, AuthMediate, AuthRefuse DEF DenyPolicy
<1>. QED
  BY <1>3, <1>4, <1>5, <1>6

\* A human's answer takes the request out of the queue; the approved call is
\* then owned by the running tool alone.
LEMMA AuthResolve ==
  ASSUME AuthInv, TypeOK', NEW card \in cards, NEW approved \in BOOLEAN,
         resolve(card, approved)
  PROVE  AuthInv'
<1>1. PICK p \in pending :
        /\ pending' = pending \ {p}
        /\ \/ approved /\ Approve(p, card)
           \/ ~approved /\ Deny(p)
  BY DEF resolve, Remaining
<1>2. /\ running = Idle
      /\ boots' = boots /\ next_call_seq' = next_call_seq
      /\ admissions' = admissions /\ effects' = effects
  BY DEF resolve, history
<1>3. CASE Approve(p, card)
  <2>1. /\ running'.id = p.id /\ running'.call = p.call /\ running'.via = "review"
    BY <1>3 DEF Approve
  <2>2. AllMinted' /\ AllBacked'
    BY <1>1, <1>2, <2>1 DEF AuthInv, AllMinted, AllBacked
  <2>3. OneOwner'
    BY <1>1, <1>2, <2>1 DEF AuthInv, OneOwner
  <2>. QED
    BY <2>2, <2>3 DEF AuthInv
<1>4. CASE Deny(p)
  <2>1. running' = Idle
    BY <1>2, <1>4 DEF Deny
  <2>. QED
    BY <1>1, <1>2, <2>1 DEF AuthInv, AllMinted, AllBacked, OneOwner
<1>. QED
  BY <1>1, <1>3, <1>4

\* The effect takes the id over from the running tool.
LEMMA AuthExecute ==
  ASSUME AuthInv, TypeOK', NEW tokens \in TokenCosts, Execute(tokens)
  PROVE  AuthInv'
<1>. DEFINE done == [id |-> running.id, call |-> running.call,
                     shown |-> running.shown, current |-> running.current,
                     via |-> running.via]
<1>1. /\ running # Idle /\ running.phase = "execute" /\ running \in Running
      /\ effects \in Seq(Executed)
  BY DEF Execute, AuthInv, TypeOK
<1>2. /\ running'.id = running.id /\ running'.call = running.call
      /\ running'.via = running.via /\ running'.phase = "record"
  BY <1>1 DEF Execute, Running
<1>3. /\ boots' = boots /\ next_call_seq' = next_call_seq
      /\ admissions' = admissions /\ pending' = pending
      /\ effects' = Append(effects, done)
  BY DEF Execute
<1>4. done.id = running.id /\ done.call = running.call /\ done.via = running.via
  OBVIOUS
<1>5. done \in Executed
  BY <1>1 DEF Running, Executed
<1>. HIDE DEF done
<1>6. /\ DOMAIN effects' = 1 .. Len(effects) + 1
      /\ DOMAIN effects = 1 .. Len(effects)
      /\ Len(effects) \in Nat
      /\ \A i \in DOMAIN effects : effects'[i] = effects[i]
      /\ effects'[Len(effects) + 1] = done
  BY <1>1, <1>3, <1>5
<1>7. \A i \in DOMAIN effects' : i \in DOMAIN effects \/ effects'[i] = done
  BY <1>6
<1>8. AllMinted' /\ AllBacked'
  BY <1>1, <1>2, <1>3, <1>4, <1>6, <1>7 DEF AuthInv, AllMinted, AllBacked
<1>9. OneOwner'
  <2>1. \A i \in DOMAIN effects : effects[i].id # running.id
    BY <1>1 DEF AuthInv, OneOwner
  <2>2. \A p \in pending : running.id # p.id
    BY <1>1 DEF AuthInv, OneOwner
  <2>3. \A p \in pending, i \in DOMAIN effects' : effects'[i].id # p.id
    BY <1>4, <1>6, <1>7, <2>2 DEF AuthInv, OneOwner
  <2>4. \A i, j \in DOMAIN effects' : effects'[i].id = effects'[j].id => i = j
    BY <1>4, <1>6, <2>1 DEF AuthInv, OneOwner
  <2>. QED
    BY <1>2, <1>3, <2>2, <2>3, <2>4 DEF AuthInv, OneOwner
<1>. QED
  BY <1>8, <1>9 DEF AuthInv

LEMMA AuthRecord ==
  ASSUME AuthInv, TypeOK', Record
  PROVE  AuthInv'
BY DEF Record, AuthInv, AllMinted, AllBacked, OneOwner

\* A restart forgets the owners and outdates every id.
LEMMA AuthCrash ==
  ASSUME AuthInv, TypeOK', CrashRestart
  PROVE  AuthInv'
<1>1. /\ boots' = boots + 1 /\ next_call_seq' = 0 /\ pending' = {} /\ running' = Idle
      /\ admissions' = admissions /\ effects' = effects /\ boots \in Nat
      /\ admissions \in Seq(Admission)
  BY DEF CrashRestart, AuthInv, TypeOK
<1>2. AllMinted'
  <2>. SUFFICES ASSUME NEW j \in DOMAIN admissions
                PROVE  Minted(admissions[j].id, boots + 1, 0)
    BY <1>1 DEF AllMinted
  <2>0. admissions[j] \in Admission
    BY <1>1
  <2>1. admissions[j].id \in Nat \X Nat
    BY <2>0 DEF Admission, Ids
  <2>2. admissions[j].id[1] <= boots
    BY DEF AuthInv, AllMinted, Minted
  <2>. QED
    BY <1>1, <2>1, <2>2 DEF Minted
<1>. QED
  BY <1>1, <1>2 DEF AuthInv, AllBacked, OneOwner

LEMMA AuthInit == Init => AuthInv
BY TypeInit DEF Init, AuthInv, AllMinted, AllBacked, OneOwner

LEMMA AuthStep == AuthInv /\ [Next]_vars => AuthInv'
<1>. SUFFICES ASSUME AuthInv, [Next]_vars PROVE AuthInv'
  OBVIOUS
<1>0. TypeOK'
  BY TypeStep DEF AuthInv
<1>1. CASE UNCHANGED vars
  BY <1>0, <1>1, AuthUnchanged DEF vars, process, history, authVars
<1>2. ASSUME NEW call \in Calls,
             \/ handle_in_room(call)
             \/ \E orchestrator \in Agents : handle_delegated(orchestrator, call)
             \/ handle_managed(call)
             \/ \E policy \in Policies : handle_with_policy(call, policy)
      PROVE  AuthInv'
  BY <1>0, <1>2, AuthHandle
<1>3. ASSUME NEW card \in cards, NEW approved \in BOOLEAN, resolve(card, approved)
      PROVE  AuthInv'
  BY <1>0, <1>3, AuthResolve
<1>4. ASSUME NEW tokens \in TokenCosts, Execute(tokens) PROVE AuthInv'
  BY <1>0, <1>4, AuthExecute
<1>5. CASE Record
  BY <1>0, <1>5, AuthRecord
<1>6. CASE \/ \E grant \in Grants : InsertGrant(grant)
           \/ \E agent \in Agents : RemoveAgent(agent)
           \/ \E step \in ClockSteps : Tick(step)
  <2>1. UNCHANGED authVars
    BY <1>6 DEF InsertGrant, RemoveAgent, Tick, process, history, authVars
  <2>. QED
    BY <1>0, <2>1, AuthUnchanged
<1>7. CASE CrashRestart
  BY <1>0, <1>7, AuthCrash
<1>. QED
  BY <1>1, <1>2, <1>3, <1>4, <1>5, <1>6, <1>7 DEF Next

LEMMA AuthCorrect == Spec => []AuthInv
BY AuthInit, AuthStep, PTL DEF Spec

LEMMA AuthImplies == AuthInv => EffectsAuthorisedOnce
BY DEF AuthInv, AllBacked, OneOwner, Backed, EffectsAuthorisedOnce

(* No tool runs twice for one call and none without an admission of that call
   in the class by which it came to run, for every roster, policy and number
   of agents, and across any number of crashes and repeated human answers. *)
THEOREM Authorisation == Spec => []EffectsAuthorisedOnce
BY AuthCorrect, AuthImplies, PTL

-----------------------------------------------------------------------------
(* Who decides, and what was decided about: a call is admitted by the      *)
(* grant of the agent that makes it, a policy can only tighten what that   *)
(* grant allows, and an approval runs the call that was on the card.       *)

-----------------------------------------------------------------------------
(* The two pure decisions.                                                 *)

\* A list that has a match has a first one, which is what `find` returns.
LEMMA FirstExists ==
  ASSUME NEW S \in SUBSET Nat, S # {}
  PROVE  \E i \in S : \A j \in S : i <= j
<1>. DEFINE R == {ss \in Nat \X Nat : ss[1] < ss[2]}
<1>1. IsWellFoundedOn(R, Nat)
  <2>1. R = OpToRel(<, Nat)
    BY DEF OpToRel
  <2>. HIDE DEF R
  <2>. QED
    BY <2>1, NatLessThanWellFounded, Zenon
<1>. HIDE DEF R
<1>2. PICK x \in S : \A y \in S : ~ (<<y, x>> \in R)
  BY <1>1, WFMin
<1>3. ASSUME NEW y \in S PROVE x <= y
  <2>1. x \in Nat /\ y \in Nat
    OBVIOUS
  <2>2. ~ (<<y, x>> \in R)
    BY <1>2
  <2>. QED
    BY <2>1, <2>2 DEF R
<1>. QED
  BY <1>3

\* A grant gives every call one of the three classes.
LEMMA ClassifyType ==
  ASSUME NEW grant \in CapabilityGrant, NEW tool \in Tools, NEW room \in Rooms
  PROVE  classify(grant, tool, room) \in ActionClass
<1>. DEFINE S == OverridesOf(grant, tool)
<1>1. /\ grant.overrides \in Seq(Tools \X ActionClass)
      /\ grant.default_class \in ActionClass
  BY DEF CapabilityGrant
<1>2. S \in SUBSET Nat /\ S \subseteq DOMAIN grant.overrides
  BY <1>1 DEF OverridesOf
<1>3. CASE S = {}
  BY <1>1, <1>3 DEF classify, OverrideOrDefault, ActionClass
<1>4. CASE S # {}
  <2>. DEFINE first == CHOOSE i \in S : IsFirst(i, S)
  <2>1. \E i \in S : IsFirst(i, S)
    BY <1>2, <1>4, FirstExists DEF IsFirst
  <2>2. first \in DOMAIN grant.overrides
    BY <1>2, <2>1
  <2>3. grant.overrides[first][2] \in ActionClass
    BY <1>1, <2>2
  <2>4. OverrideOrDefault(grant, tool) = grant.overrides[first][2]
    BY <1>4 DEF OverrideOrDefault
  <2>. QED
    BY <2>3, <2>4 DEF classify, ActionClass
<1>. QED
  BY <1>3, <1>4

\* The first rule to match a call is the one `evaluate` follows.
LEMMA FirstRuleDecides ==
  ASSUME NEW policy \in PolicySet, NEW call, NEW r \in DOMAIN policy.rules,
         matches(policy.rules[r], call),
         \A q \in 1 .. r - 1 : ~matches(policy.rules[q], call)
  PROVE  evaluate(policy, call) = policy.rules[r].effect
<1>. DEFINE S == MatchesOf(policy, call)
<1>1. policy.rules \in Seq(PolicyRule)
  BY DEF PolicySet
<1>2. r \in S /\ S \subseteq Nat
  BY <1>1 DEF MatchesOf
<1>3. \A j \in S : r <= j
  BY <1>1, <1>2 DEF MatchesOf
<1>4. IsFirst(r, S)
  BY <1>2, <1>3 DEF IsFirst
<1>5. \A i \in S : IsFirst(i, S) => i = r
  BY <1>2, <1>3 DEF IsFirst
<1>6. (CHOOSE i \in S : IsFirst(i, S)) = r
  BY <1>2, <1>4, <1>5
<1>. QED
  BY <1>2, <1>6 DEF evaluate

\* Refining never frees a call, and heeds a demand for review.
LEMMA RefineTightens ==
  ASSUME NEW base \in ActionClass \ {"forbidden"}, NEW effect, effect # "deny"
  PROVE  /\ Freedom(refine(base, effect)) <= Freedom(base)
         /\ effect = "review" => refine(base, effect) = "review"
BY DEF ActionClass, refine, Freedom

-----------------------------------------------------------------------------
(* Policies only tighten.                                                  *)

\* PolicyOnlyTightens, of one admission.
Tight(ad) ==
  ad.policy # NoPolicy =>
    /\ Freedom(ad.class) <= Freedom(classify(ad.grant, ad.call.tool, ad.call.room))
    /\ \A r \in DOMAIN ad.policy.rules :
         (/\ matches(ad.policy.rules[r], ad.call)
          /\ \A q \in 1 .. r - 1 : ~matches(ad.policy.rules[q], ad.call))
         => /\ ad.policy.rules[r].effect # "deny"
            /\ ad.policy.rules[r].effect = "review" => ad.class = "review"

LEMMA DecidedTight ==
  ASSUME NEW grant \in Grants, NEW call \in Calls, NEW class, NEW policy,
         NEW by, NEW before, Decided(grant, call, class, policy, by, before),
         NEW ad, ad.grant = grant, ad.call = call, ad.class = class, ad.policy = policy
  PROVE  Tight(ad)
<1>. SUFFICES ASSUME policy # NoPolicy PROVE Tight(ad)
  BY DEF Tight
<1>. DEFINE base == classify(grant, call.tool, call.room)
            effect == evaluate(policy, call)
<1>1. /\ policy \in PolicySet /\ grant \in CapabilityGrant
      /\ effect # "deny" /\ base # "forbidden" /\ class = refine(base, effect)
  BY GatewayAssumption DEF Decided, GatewayAssumption
<1>2. call.tool \in Tools /\ call.room \in Rooms
  BY DEF Calls
<1>3. base \in ActionClass \ {"forbidden"}
  BY <1>1, <1>2, ClassifyType
<1>4. /\ Freedom(class) <= Freedom(base)
      /\ effect = "review" => class = "review"
  BY <1>1, <1>3, RefineTightens
<1>5. ASSUME NEW r \in DOMAIN policy.rules, matches(policy.rules[r], call),
             \A q \in 1 .. r - 1 : ~matches(policy.rules[q], call)
      PROVE  policy.rules[r].effect = effect
  BY <1>1, <1>5, FirstRuleDecides
<1>. QED
  BY <1>1, <1>4, <1>5 DEF Tight

LEMMA TightStep ==
  ASSUME TypeOK, PolicyOnlyTightens, [Next]_vars
  PROVE  PolicyOnlyTightens'
<1>0. admissions \in Seq(Admission) /\ \A i \in DOMAIN admissions : Tight(admissions[i])
  BY DEF TypeOK, PolicyOnlyTightens, Tight
<1>. SUFFICES \A i \in DOMAIN admissions' : Tight(admissions'[i])
  BY DEF PolicyOnlyTightens, Tight
<1>1. CASE UNCHANGED admissions
  BY <1>0, <1>1
<1>2. CASE Admitting
  <2>0. PICK grant \in Grants, call \in Calls, policy \in Policies \cup {NoPolicy},
             by \in Agents, before \in Attributions :
               \/ /\ Decided(grant, call, "auto", policy, by, before)
                  /\ AdmitAuto(grant, call, policy, by, before)
               \/ /\ Decided(grant, call, "review", policy, by, before)
                  /\ AdmitReview(grant, call, policy, by, before)
    BY <1>2 DEF Admitting
  <2>1. PICK class \in {"auto", "review"} :
               /\ Decided(grant, call, class, policy, by, before)
               /\ Admit(grant, call, class, policy, by)
    BY <2>0 DEF AdmitAuto, AdmitReview
  <2>. DEFINE ad == [id |-> CallId, call |-> call, class |-> class, grant |-> grant,
                     policy |-> policy, by |-> by, at |-> now, boot |-> boots]
  <2>2. admissions' = Append(admissions, ad)
    BY <2>1 DEF Admit
  <2>3. /\ ad.grant = grant /\ ad.call = call /\ ad.class = class /\ ad.policy = policy
    OBVIOUS
  <2>4. Tight(ad)
    BY <2>1, <2>3, DecidedTight
  <2>. HIDE DEF ad
  <2>. QED
    BY <1>0, <2>2, <2>4
<1>3. Admitting \/ UNCHANGED admissions
  <2>1. CASE UNCHANGED vars
    BY <2>1 DEF vars, history
  <2>2. CASE Refusing
    BY <2>2 DEF Refusing, Refuse, history
  <2>3. CASE World
    BY <2>3 DEF World, InsertGrant, RemoveAgent, Tick, history
  <2>. QED
    BY <2>1, <2>2, <2>3, StepShapes DEF resolve, Execute, Record, CrashRestart, history
<1>. QED
  BY <1>1, <1>2, <1>3

(* Policy can only tighten, for every grant, every list of rules and every
   call: a call admitted under a policy has the grant's class or a stricter
   one, and the first rule to match it neither denied it nor demanded a review
   it did not get (handle_with_policy, evaluate and refine). *)
THEOREM PolicyTightens == Spec => []PolicyOnlyTightens
<1>1. Init => PolicyOnlyTightens
  BY DEF Init, PolicyOnlyTightens
<1>2. TypeOK /\ PolicyOnlyTightens /\ [Next]_vars => PolicyOnlyTightens'
  BY TightStep
<1>. QED
  BY <1>1, <1>2, TypeCorrect, PTL DEF Spec

-----------------------------------------------------------------------------
(* The worker's own grant decides.                                         *)

\* A grant is on the roster under the agent it names.
RosterKeyed == \A a \in Agents : roster[a] # NoGrant => roster[a].agent = a

LEMMA RosterKeyedInit == Init => RosterKeyed
BY GatewayAssumption DEF Init, RosterKeyed, GatewayAssumption

LEMMA RosterKeyedStep ==
  ASSUME TypeOK, RosterKeyed, [Next]_vars
  PROVE  RosterKeyed'
<1>1. CASE UNCHANGED roster
  BY <1>1 DEF RosterKeyed
<1>2. ASSUME NEW grant \in Grants, InsertGrant(grant) PROVE RosterKeyed'
  <2>1. roster \in [Agents -> Grants \cup {NoGrant}]
    BY DEF TypeOK
  <2>2. roster' = [roster EXCEPT ![grant.agent] = grant]
    BY <1>2 DEF InsertGrant
  <2>. QED
    BY <2>1, <2>2 DEF RosterKeyed
<1>3. ASSUME NEW agent \in Agents, RemoveAgent(agent) PROVE RosterKeyed'
  <2>1. roster \in [Agents -> Grants \cup {NoGrant}]
    BY DEF TypeOK
  <2>2. roster' = [roster EXCEPT ![agent] = NoGrant]
    BY <1>3 DEF RemoveAgent
  <2>. QED
    BY <2>1, <2>2 DEF RosterKeyed
<1>4. CASE UNCHANGED vars
  BY <1>1, <1>4 DEF vars
<1>5. CASE Refusing
  BY <1>1, <1>5 DEF Refusing, Refuse
<1>6. CASE Admitting
  BY <1>1, <1>6 DEF Admitting, AdmitAuto, AdmitReview, Admit
<1>7. CASE World
  BY <1>1, <1>2, <1>3, <1>7 DEF World, Tick
<1>. QED
  BY <1>1, <1>4, <1>5, <1>6, <1>7, StepShapes DEF resolve, Execute, Record, CrashRestart

\* The entry before the last one is the caller's attribution.
LEMMA SecondToLast ==
  ASSUME NEW T, NEW log \in Seq(T), NEW d \in T, NEW e \in T
  PROVE  LET new == log \o <<d>> \o <<e>> IN new[Len(new) - 1] = d
OBVIOUS

\* What WorkersGrantDecides demands of a step.
DecidedByWorker ==
  NewAdmission =>
    LET worker == Admitted.call.agent
        class  == classify(roster[worker], Admitted.call.tool, Admitted.call.room)
    IN  /\ Admitted.grant = roster[worker] /\ Admitted.grant.agent = worker
        /\ class # "forbidden" /\ (Admitted.policy = NoPolicy => Admitted.class = class)
        /\ BookedTo(worker)
        /\ roster[Admitted.by] # NoGrant
        /\ Admitted.by # worker =>
             audit_log'[Len(audit_log') - 1] =
               Entry(worker, "delegated_by", Admitted.call.tool)

LEMMA WorkerStep ==
  ASSUME TypeOK, RosterKeyed, Next
  PROVE  DecidedByWorker
<1>1. CASE UNCHANGED admissions
  BY <1>1 DEF DecidedByWorker, NewAdmission
<1>2. CASE Admitting
  <2>1. PICK grant \in Grants, call \in Calls, policy \in Policies \cup {NoPolicy},
             by \in Agents, before \in Attributions :
               \/ /\ Decided(grant, call, "auto", policy, by, before)
                  /\ AdmitAuto(grant, call, policy, by, before)
               \/ /\ Decided(grant, call, "review", policy, by, before)
                  /\ AdmitReview(grant, call, policy, by, before)
    BY <1>2 DEF Admitting
  <2>2. PICK class \in {"auto", "review"}, event \in {"auto_allowed", "approval_requested"} :
               /\ Decided(grant, call, class, policy, by, before)
               /\ Admit(grant, call, class, policy, by)
               /\ audit_log' = audit_log \o before \o <<Entry(call.agent, event, call.tool)>>
    BY <2>1 DEF AdmitAuto, AdmitReview
  <2>. DEFINE ad == [id |-> CallId, call |-> call, class |-> class, grant |-> grant,
                     policy |-> policy, by |-> by, at |-> now, boot |-> boots]
  <2>3. admissions' = Append(admissions, ad) /\ admissions \in Seq(Admission)
    BY <2>2 DEF Admit, TypeOK
  <2>4. Admitted = ad
    <3>. HIDE DEF ad
    <3>. QED
      BY <2>3 DEF Admitted
  <2>5. /\ ad.id = CallId /\ ad.grant = grant /\ ad.call = call /\ ad.by = by
        /\ ad.class = class /\ ad.policy = policy
    OBVIOUS
  <2>6. call.agent \in Agents /\ call.tool \in Tools
    BY DEF Calls
  <2>7. /\ grant = roster[call.agent] /\ grant # NoGrant /\ grant.agent = call.agent
        /\ classify(grant, call.tool, call.room) # "forbidden"
        /\ policy = NoPolicy => class = classify(grant, call.tool, call.room)
        /\ roster[by] # NoGrant
    BY <2>2, <2>6, GatewayAssumption DEF Decided, RosterKeyed, GatewayAssumption
  <2>9. BookedTo(call.agent)
    <3>1. /\ Admitted.id = CallId
          /\ recent_calls' = AfterRateCheck(grant) \cup
               {[id |-> CallId, agent |-> call.agent, ts |-> now]}
          /\ daily_usage' = [daily_usage EXCEPT ![call.agent] =
                               [daily_entry(call.agent) EXCEPT !.calls = @ + 1]]
      <4>. HIDE DEF ad
      <4>. QED
        BY <2>2, <2>4, <2>5 DEF Admit, note_daily_call
    <3>2. AfterRateCheck(grant) \subseteq recent_calls
      BY DEF AfterRateCheck
    <3>3. daily_entry(call.agent) \in Usage /\ daily_usage \in [Agents -> Usage]
      BY <2>6, DailyEntryType DEF TypeOK
    <3>4. /\ daily_usage'[call.agent].calls = daily_entry(call.agent).calls + 1
          /\ \A other \in Agents \ {call.agent} : daily_usage'[other] = daily_usage[other]
      BY <2>6, <3>1, <3>3 DEF Usage
    <3>. DEFINE noted == [id |-> CallId, agent |-> call.agent, ts |-> now]
    <3>5. noted.agent = call.agent /\ noted.id = CallId
      OBVIOUS
    <3>6. recent_calls' = AfterRateCheck(grant) \cup {noted}
      BY <3>1
    <3>. HIDE DEF noted
    <3>7. /\ \E c \in recent_calls' : c.agent = call.agent /\ c.id = Admitted.id
          /\ \A c \in recent_calls' \ recent_calls : c.agent = call.agent
      BY <3>1, <3>2, <3>5, <3>6
    <3>. HIDE DEF ad
    <3>. QED
      BY <3>4, <3>7 DEF BookedTo
  <2>8. ASSUME by # call.agent
        PROVE  audit_log'[Len(audit_log') - 1] = Entry(call.agent, "delegated_by", call.tool)
    <3>1. before = <<Entry(call.agent, "delegated_by", call.tool)>>
      BY <2>2, <2>8 DEF Decided
    <3>2. /\ Entry(call.agent, "delegated_by", call.tool) \in AuditEntry
          /\ Entry(call.agent, event, call.tool) \in AuditEntry
      BY <2>6, EntryType, EventNames
    <3>. QED
      BY <2>2, <3>1, <3>2, SecondToLast DEF TypeOK
  <2>. HIDE DEF ad
  <2>. QED
    BY <2>4, <2>5, <2>7, <2>8, <2>9 DEF DecidedByWorker
<1>3. Admitting \/ UNCHANGED admissions
  <2>1. CASE Refusing
    BY <2>1 DEF Refusing, Refuse, history
  <2>2. CASE World
    BY <2>2 DEF World, InsertGrant, RemoveAgent, Tick, history
  <2>. QED
    BY <2>1, <2>2, StepShapes DEF resolve, Execute, Record, CrashRestart, history
<1>. QED
  BY <1>1, <1>2, <1>3

(* An admission is decided by the grant the roster holds for the agent that
   makes the call, never by the orchestrator's: that grant gives it its class
   (a policy may only tighten what is not forbidden), its agent is the one the
   limiter and the day's count book it to, and a delegated call is attributed
   in the log entry just before its admission (handle_delegated). *)
THEOREM WorkerDecides == Spec => WorkersGrantDecides
<1>1. TypeOK /\ RosterKeyed /\ [Next]_vars => RosterKeyed'
  BY RosterKeyedStep
<1>2. TypeOK /\ RosterKeyed /\ [Next]_vars => [DecidedByWorker]_vars
  BY WorkerStep
<1>3. Spec => [][DecidedByWorker]_vars
  BY <1>1, <1>2, RosterKeyedInit, TypeCorrect, PTL DEF Spec
<1>. QED
  BY <1>3 DEF WorkersGrantDecides, DecidedByWorker

-----------------------------------------------------------------------------
(* The approved call is the one shown.                                     *)

(* Request numbers restart at 0 with the process, so an old card may carry the
   number of a new request.  A card of this process never does: its number is
   below the counter and, while it is pending, belongs to the card's call. *)
CardsMatchQueue ==
  /\ \A card \in cards : card.boot <= boots
  /\ \A card \in cards : card.boot = boots => card.request_id < next_request_id
  /\ \A p \in pending : p.request_id < next_request_id
  /\ \A p \in pending, card \in cards :
       card.boot = boots /\ card.request_id = p.request_id => card.call = p.call

ShownIsRun ==
  /\ running # Idle => (running.current => running.call = running.shown)
  /\ ApprovedCallIsTheOneShown

ShownInv == CardsMatchQueue /\ ShownIsRun

shownVars == <<cards, boots, next_request_id, pending, running, effects>>

LEMMA ShownUnchanged ==
  ASSUME ShownInv, UNCHANGED shownVars
  PROVE  ShownInv'
BY DEF ShownInv, CardsMatchQueue, ShownIsRun, ApprovedCallIsTheOneShown, shownVars

LEMMA ShownAdmit ==
  ASSUME TypeOK, ShownInv, Admitting
  PROVE  ShownInv'
<1>1. PICK grant \in Grants, call \in Calls, policy \in Policies \cup {NoPolicy},
           by \in Agents, before \in Attributions :
             \/ AdmitAuto(grant, call, policy, by, before)
             \/ AdmitReview(grant, call, policy, by, before)
  BY DEF Admitting
<1>2. CASE AdmitAuto(grant, call, policy, by, before)
  BY <1>2 DEF AdmitAuto, Admit, ShownInv, CardsMatchQueue, ShownIsRun,
              ApprovedCallIsTheOneShown
<1>3. CASE AdmitReview(grant, call, policy, by, before)
  <2>. DEFINE p0 == [request_id |-> RequestId, id |-> CallId, call |-> call]
              c0 == [request_id |-> RequestId, call |-> call, boot |-> boots]
  <2>1. /\ pending' = pending \cup {p0} /\ cards' = cards \cup {c0}
        /\ next_request_id' = next_request_id + 1
        /\ boots' = boots /\ running' = running /\ effects' = effects
    BY <1>3 DEF AdmitReview, Admit
  <2>2. /\ p0.request_id = next_request_id /\ p0.call = call
        /\ c0.request_id = next_request_id /\ c0.call = call /\ c0.boot = boots
    BY DEF RequestId
  <2>3. /\ next_request_id \in Nat /\ boots \in Nat
        /\ \A p \in pending : p.request_id \in Nat
        /\ \A card \in cards : card.request_id \in Nat /\ card.boot \in Nat
    BY DEF TypeOK, PendingApproval, Card
  <2>. HIDE DEF p0, c0
  <2>4. CardsMatchQueue'
    BY <2>1, <2>2, <2>3 DEF ShownInv, CardsMatchQueue
  <2>5. ShownIsRun'
    BY <2>1 DEF ShownInv, ShownIsRun, ApprovedCallIsTheOneShown
  <2>. QED
    BY <2>4, <2>5 DEF ShownInv
<1>. QED
  BY <1>1, <1>2, <1>3

LEMMA ShownResolve ==
  ASSUME TypeOK, ShownInv, NEW card \in cards, NEW approved \in BOOLEAN,
         resolve(card, approved)
  PROVE  ShownInv'
<1>1. PICK p \in pending :
        /\ p.request_id = card.request_id
        /\ pending' = pending \ {p}
        /\ \/ approved /\ Approve(p, card)
           \/ ~approved /\ Deny(p)
  BY DEF resolve, Remaining
<1>2. UNCHANGED <<cards, boots, next_request_id, effects>> /\ running = Idle
  BY DEF resolve, history
<1>3. CardsMatchQueue'
  BY <1>1, <1>2 DEF ShownInv, CardsMatchQueue
<1>4. running' # Idle => (running'.current => running'.call = running'.shown)
  <2>1. CASE Deny(p)
    BY <1>2, <2>1 DEF Deny
  <2>2. CASE Approve(p, card)
    <3>1. /\ running'.current = (card.boot = boots)
          /\ running'.call = p.call /\ running'.shown = card.call
      BY <2>2 DEF Approve
    <3>. QED
      BY <1>1, <3>1 DEF ShownInv, CardsMatchQueue
  <2>. QED
    BY <1>1, <2>1, <2>2
<1>. QED
  BY <1>2, <1>3, <1>4 DEF ShownInv, ShownIsRun, ApprovedCallIsTheOneShown

LEMMA ShownExecute ==
  ASSUME TypeOK, ShownInv, NEW tokens \in TokenCosts, Execute(tokens)
  PROVE  ShownInv'
<1>. DEFINE done == [id |-> running.id, call |-> running.call,
                     shown |-> running.shown, current |-> running.current,
                     via |-> running.via]
<1>1. /\ UNCHANGED <<cards, boots, next_request_id, pending>>
      /\ running # Idle /\ running \in Running
      /\ effects \in Seq(Executed) /\ effects' = Append(effects, done)
  BY DEF Execute, TypeOK
<1>2. /\ running'.current = running.current /\ running'.call = running.call
      /\ running'.shown = running.shown
  BY <1>1 DEF Execute, Running
<1>3. done.current = running.current /\ done.call = running.call /\ done.shown = running.shown
  OBVIOUS
<1>. HIDE DEF done
<1>4. ApprovedCallIsTheOneShown'
  BY <1>1, <1>3 DEF ShownInv, ShownIsRun, ApprovedCallIsTheOneShown
<1>. QED
  BY <1>1, <1>2, <1>4 DEF ShownInv, CardsMatchQueue, ShownIsRun

LEMMA ShownCrash ==
  ASSUME TypeOK, ShownInv, CrashRestart
  PROVE  ShownInv'
<1>1. \A card \in cards : card.boot \in Nat /\ card.boot <= boots /\ boots \in Nat
  BY DEF TypeOK, Card, ShownInv, CardsMatchQueue
<1>2. /\ pending' = {} /\ running' = Idle /\ boots' = boots + 1
      /\ UNCHANGED <<cards, effects>>
  BY DEF CrashRestart
<1>. QED
  BY <1>1, <1>2 DEF ShownInv, CardsMatchQueue, ShownIsRun, ApprovedCallIsTheOneShown

LEMMA ShownStep ==
  ASSUME TypeOK, ShownInv, [Next]_vars
  PROVE  ShownInv'
<1>1. CASE UNCHANGED vars
  BY <1>1, ShownUnchanged DEF vars, process, history, shownVars
<1>2. CASE Refusing
  BY <1>2, ShownUnchanged DEF Refusing, Refuse, history, shownVars
<1>3. CASE World
  BY <1>3, ShownUnchanged
     DEF World, InsertGrant, RemoveAgent, Tick, process, history, shownVars
<1>4. CASE Record
  BY <1>4 DEF Record, ShownInv, CardsMatchQueue, ShownIsRun, ApprovedCallIsTheOneShown
<1>. QED
  BY <1>1, <1>2, <1>3, <1>4, StepShapes, ShownAdmit, ShownResolve, ShownExecute, ShownCrash

LEMMA ShownCorrect == Spec => []ShownInv
<1>1. Init => ShownInv
  BY DEF Init, ShownInv, CardsMatchQueue, ShownIsRun, ApprovedCallIsTheOneShown
<1>2. TypeOK /\ ShownInv /\ [Next]_vars => ShownInv'
  BY ShownStep
<1>. QED
  BY <1>1, <1>2, TypeCorrect, PTL DEF Spec

(* The call that runs is the call on the card the human approved, whenever the
   card was rendered by this process, however often cards are answered and
   whatever the restarts did to the request numbers (resolve). *)
THEOREM ApprovalRunsWhatWasShown == Spec => []ApprovedCallIsTheOneShown
<1>1. ShownInv => ApprovedCallIsTheOneShown
  BY DEF ShownInv, ShownIsRun
<1>. QED
  BY <1>1, ShownCorrect, PTL
=============================================================================
