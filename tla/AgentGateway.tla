---------------------------- MODULE AgentGateway ----------------------------
(***************************************************************************)
(* The agentic gateway of the homeserver (gm-agent/src/lib.rs): every tool *)
(* call of an agent is mediated against its capability grant, its rate and *)
(* daily budgets and the room's policy, then executed, queued for a human  *)
(* or refused, with each decision appended to the durable audit log.       *)
(*                                                                         *)
(* The gateway is driven through `&mut self`, so its operations never      *)
(* interleave with one another.  What does interleave with them is the     *)
(* world: the tool runs while the clock ticks, and the process may die     *)
(* between the audit entry that authorises a call, the tool's effect and   *)
(* the audit entry that reports it.  An execution is therefore three       *)
(* steps: the admission (or approval), Execute and Record.                 *)
(***************************************************************************)
EXTENDS AgentPolicy, FiniteSetsExt

CONSTANTS
  Grants,            \* the grants an operator may put on the roster
  Policies,          \* the policies a caller may pass to handle_with_policy
  Managed,           \* the agents the Application Service provisioned
  NoGrant,           \* "not on the roster"
  Idle,              \* no tool is running
  NoPolicy,          \* the call was not mediated under a policy
  InitialRoster,     \* the room's roster when the gateway first starts
  RateWindow,        \* RATE_WINDOW_SECS
  DayLength,         \* seconds per day (86_400 in current_day)
  U64Max,            \* the largest token count
  TokenCosts,        \* what a tool may report having spent
  StartTime,         \* the wall clock at the first start
  ClockSteps,        \* how the wall clock may move in one step
  MaxTime,           \* bound: latest wall clock time
  MaxLog,            \* bound: audit length beyond which no new call arrives
  MaxCrashes,        \* bound: restarts of the gateway process
  MaxRosterChanges   \* bound: edits of the roster

ASSUME GatewayAssumption ==
  /\ Grants \subseteq CapabilityGrant
  /\ Policies \subseteq PolicySet
  /\ Managed \subseteq Agents
  /\ NoGrant \notin Grants
  /\ NoPolicy \notin Policies
  /\ InitialRoster \in [Agents -> Grants \cup {NoGrant}]
  /\ \A a \in Agents : InitialRoster[a] # NoGrant => InitialRoster[a].agent = a
  /\ RateWindow \in Nat /\ DayLength \in Nat \ {0} /\ U64Max \in Nat
  /\ TokenCosts \subseteq 0..U64Max
  /\ StartTime \in Nat /\ ClockSteps \subseteq Int
  /\ MaxTime \in Nat /\ MaxLog \in Nat
  /\ MaxCrashes \in Nat /\ MaxRosterChanges \in Nat

VARIABLES
  next_request_id, next_call_seq, \* counters of the process
  pending,        \* approvals waiting for a human
  recent_calls,   \* admitted calls the rate limiter still remembers
  daily_usage,    \* per agent: the day, and the calls and tokens of that day
  metrics,        \* outcome counters and the pending gauge
  running,        \* the tool call between admission and its report
  audit_log,      \* the durable audit chain
  roster,         \* the room's agents and grants (room state, durable)
  now,            \* the wall clock
  cards,          \* the approval cards rendered in the room, never withdrawn
  boots,          \* how often the process restarted
  roster_changes, \* how often the roster was edited
  boot_mark,      \* history: audit length at the last restart
  admissions,     \* history: every admitted call and what it was admitted under
  effects,        \* history: what the tools really did, in order
  charges         \* history: the tokens booked, with the time of booking

process  == <<next_request_id, next_call_seq, pending, recent_calls,
              daily_usage, metrics, running>>
history  == <<boot_mark, admissions, effects, charges>>
vars     == <<process, audit_log, roster, now, cards, boots, roster_changes,
              history>>

-----------------------------------------------------------------------------
(* Audit entries, metrics and ids.                                         *)

Outcomes == {"executed", "review", "denied_scope", "rate_limited",
             "budget_exceeded", "token_budget_exceeded", "denied_policy",
             "denied_human", "unmanaged", "unknown_agent"}

Refusals == {"denied_by_scope", "rate_limited", "daily_budget_exceeded",
             "token_budget_exceeded", "policy_denied", "unmanaged_agent",
             "unknown_agent"}

AuditEvents == Refusals \cup
  {"delegated_by", "auto_allowed", "approval_requested", "approved_by",
   "denied_by", "executed"}

Entry(actor, event, tool) == [actor |-> actor, event |-> event, tool |-> tool]

\* Mutant: the gauge is read before the queue was changed.
RecordOutcomeStaleGauge(outcome, queue) ==
  metrics' = [actions |-> [metrics.actions EXCEPT ![outcome] = @ + 1],
              pending |-> Cardinality(pending)]

\* record_outcome: count the outcome and refresh the gauge from the queue.
record_outcome(outcome, queue) ==
  metrics' = [actions |-> [metrics.actions EXCEPT ![outcome] = @ + 1],
              pending |-> Cardinality(queue)]

\* A call id of this process; `boots` tells the processes apart.
CallId == <<boots, next_call_seq>>

-----------------------------------------------------------------------------
(* Budgets.                                                                *)

current_day == now \div DayLength

saturating_sub(a, b) == IF b <= a THEN a - b ELSE 0
\* Mutant: u64 addition that wraps.
WrappingAdd(a, b) == (a + b) % (U64Max + 1)
\* Mutant: addition that outgrows the u64.
UnboundedAdd(a, b) == a + b

saturating_add(a, b) == IF a + b <= U64Max THEN a + b ELSE U64Max

\* The rate limiter's memory after it was consulted: an unlimited grant returns
\* before pruning.
AfterRateCheck(grant) ==
  IF grant.rate_limit_per_min = 0
  THEN recent_calls
  ELSE {c \in recent_calls : c.ts > saturating_sub(now, RateWindow)}

\* Mutant: one call too many.
RateLimitedOffByOne(grant, agent) ==
  /\ grant.rate_limit_per_min # 0
  /\ Cardinality({c \in AfterRateCheck(grant) : c.agent = agent})
       > grant.rate_limit_per_min

is_rate_limited(grant, agent) ==
  /\ grant.rate_limit_per_min # 0
  /\ Cardinality({c \in AfterRateCheck(grant) : c.agent = agent})
       >= grant.rate_limit_per_min

\* daily_entry: the agent's usage, zeroed when it belongs to another day.
daily_entry(agent) ==
  IF daily_usage[agent].day = current_day
  THEN daily_usage[agent]
  ELSE [day |-> current_day, calls |-> 0, tokens |-> 0]

is_over_daily_budget(grant, agent) ==
  grant.daily_call_limit # 0 /\ daily_entry(agent).calls >= grant.daily_call_limit

is_over_token_budget(grant, agent) ==
  /\ grant.daily_token_budget # 0
  /\ daily_entry(agent).tokens >= grant.daily_token_budget

Roll(agent) == daily_usage' = [daily_usage EXCEPT ![agent] = daily_entry(agent)]

note_daily_call(agent) ==
  daily_usage' = [daily_usage EXCEPT ![agent] =
                    [daily_entry(agent) EXCEPT !.calls = @ + 1]]

\* Mutant: the day's entry is rebuilt from the tokens alone.
NoteTokensForgetsCalls(agent, tokens) ==
  daily_usage' = [daily_usage EXCEPT ![agent] =
                    [day |-> current_day, calls |-> 0,
                     tokens |-> saturating_add(daily_entry(agent).tokens, tokens)]]

note_tokens(agent, tokens) ==
  daily_usage' = [daily_usage EXCEPT ![agent] =
                    [daily_entry(agent) EXCEPT !.tokens = saturating_add(@, tokens)]]

-----------------------------------------------------------------------------
(* Mediation.  `before` is what the caller already appended to the log.    *)

Refuse(actor, event, outcome, tool, before) ==
  /\ audit_log' = audit_log \o before \o <<Entry(actor, event, tool)>>
  /\ record_outcome(outcome, pending)
  /\ UNCHANGED <<next_request_id, next_call_seq, pending, running, roster, now,
                 cards, boots, roster_changes, history>>

DenyScope(call, before) ==
  /\ Refuse(call.agent, "denied_by_scope", "denied_scope", call.tool, before)
  /\ UNCHANGED <<recent_calls, daily_usage>>

RateLimited(grant, call, before) ==
  /\ is_rate_limited(grant, call.agent)
  /\ Refuse(call.agent, "rate_limited", "rate_limited", call.tool, before)
  /\ recent_calls' = AfterRateCheck(grant)
  /\ UNCHANGED daily_usage

DailyBudgetExceeded(grant, call, before) ==
  /\ ~is_rate_limited(grant, call.agent)
  /\ is_over_daily_budget(grant, call.agent)
  /\ Refuse(call.agent, "daily_budget_exceeded", "budget_exceeded", call.tool, before)
  /\ recent_calls' = AfterRateCheck(grant)
  /\ Roll(call.agent)

TokenBudgetExceeded(grant, call, before) ==
  /\ ~is_rate_limited(grant, call.agent)
  /\ ~is_over_daily_budget(grant, call.agent)
  /\ is_over_token_budget(grant, call.agent)
  /\ Refuse(call.agent, "token_budget_exceeded", "token_budget_exceeded",
            call.tool, before)
  /\ recent_calls' = AfterRateCheck(grant)
  /\ Roll(call.agent)

WithinBudgets(grant, agent) ==
  /\ ~is_rate_limited(grant, agent)
  /\ ~is_over_daily_budget(grant, agent)
  /\ ~is_over_token_budget(grant, agent)

\* note_call, note_daily_call and next_call_id: what admission consumes.
Admit(grant, call, class, policy, by) ==
  /\ WithinBudgets(grant, call.agent)
  /\ recent_calls' = AfterRateCheck(grant) \cup
       {[id |-> CallId, agent |-> call.agent, ts |-> now]}
  /\ note_daily_call(call.agent)
  /\ next_call_seq' = next_call_seq + 1
  /\ admissions' = Append(admissions,
       [id |-> CallId, call |-> call, class |-> class, grant |-> grant,
        policy |-> policy, by |-> by, at |-> now, boot |-> boots])
  /\ UNCHANGED <<roster, now, boots, roster_changes, boot_mark, effects, charges>>

AdmitAuto(grant, call, policy, by, before) ==
  /\ Admit(grant, call, "auto", policy, by)
  /\ audit_log' = audit_log \o before \o <<Entry(call.agent, "auto_allowed", call.tool)>>
  /\ running' = [phase |-> "execute", id |-> CallId, call |-> call,
                 shown |-> call, current |-> TRUE, via |-> "auto", tokens |-> 0]
  /\ UNCHANGED <<next_request_id, pending, metrics, cards>>

\* Mutant: requests are numbered by their position in the queue.
QueuePosition == Cardinality(pending)

RequestId == next_request_id

AdmitReview(grant, call, policy, by, before) ==
  LET queue == pending \cup
        {[request_id |-> RequestId, id |-> CallId, call |-> call]}
  IN  /\ Admit(grant, call, "review", policy, by)
      /\ next_request_id' = next_request_id + 1
      /\ audit_log' = audit_log \o before \o
           <<Entry(call.agent, "approval_requested", call.tool)>>
      /\ pending' = queue
      /\ cards' = cards \cup
           {[request_id |-> RequestId, call |-> call, boot |-> boots]}
      /\ record_outcome("review", queue)
      /\ UNCHANGED running

mediate(grant, call, class, policy, by, before) ==
  \/ class = "forbidden" /\ DenyScope(call, before)
  \/ class # "forbidden" /\ RateLimited(grant, call, before)
  \/ class # "forbidden" /\ DailyBudgetExceeded(grant, call, before)
  \/ class # "forbidden" /\ TokenBudgetExceeded(grant, call, before)
  \/ class = "auto"   /\ AdmitAuto(grant, call, policy, by, before)
  \/ class = "review" /\ AdmitReview(grant, call, policy, by, before)

-----------------------------------------------------------------------------
(* The entry points.                                                       *)

\* Calls are handled one at a time; MaxLog bounds how many ever arrive.
CanHandle == running = Idle /\ Len(audit_log) < MaxLog

RefuseUnknown(agent, before) ==
  /\ Refuse(agent, "unknown_agent", "unknown_agent", "none", before)
  /\ UNCHANGED <<recent_calls, daily_usage>>

handle_in_room(call) ==
  /\ CanHandle
  /\ \/ /\ roster[call.agent] = NoGrant
        /\ RefuseUnknown(call.agent, <<>>)
     \/ /\ roster[call.agent] # NoGrant
        /\ mediate(roster[call.agent], call,
                   classify(roster[call.agent], call.tool, call.room),
                   NoPolicy, call.agent, <<>>)

\* Mutant: the worker's limits, but the class the orchestrator's grant gives.
DelegatedInOrchestratorsClass(orchestrator, call) ==
  /\ CanHandle
  /\ roster[orchestrator] # NoGrant
  /\ roster[call.agent] # NoGrant
  /\ mediate(roster[call.agent], call,
             classify(roster[orchestrator], call.tool, call.room),
             NoPolicy, orchestrator,
             <<Entry(call.agent, "delegated_by", call.tool)>>)

handle_delegated(orchestrator, call) ==
  /\ CanHandle
  /\ \/ /\ roster[orchestrator] = NoGrant
        /\ RefuseUnknown(orchestrator, <<>>)
     \/ /\ roster[orchestrator] # NoGrant
        /\ roster[call.agent] = NoGrant
        /\ RefuseUnknown(call.agent, <<>>)
     \/ /\ roster[orchestrator] # NoGrant
        /\ roster[call.agent] # NoGrant
        /\ mediate(roster[call.agent], call,
                   classify(roster[call.agent], call.tool, call.room),
                   NoPolicy, orchestrator,
                   <<Entry(call.agent, "delegated_by", call.tool)>>)

\* handle_managed and handle_with_policy are given the grant by their caller,
\* which looks the calling agent up.
handle_managed(call) ==
  /\ CanHandle
  /\ roster[call.agent] # NoGrant
  /\ \/ /\ call.agent \notin Managed
        /\ Refuse(call.agent, "unmanaged_agent", "unmanaged", "none", <<>>)
        /\ UNCHANGED <<recent_calls, daily_usage>>
     \/ /\ call.agent \in Managed
        /\ mediate(roster[call.agent], call,
                   classify(roster[call.agent], call.tool, call.room),
                   NoPolicy, call.agent, <<>>)

DenyPolicy(call) ==
  /\ Refuse(call.agent, "policy_denied", "denied_policy", call.tool, <<>>)
  /\ UNCHANGED <<recent_calls, daily_usage>>

handle_with_policy(call, policy) ==
  /\ CanHandle
  /\ roster[call.agent] # NoGrant
  /\ LET grant  == roster[call.agent]
         base   == classify(grant, call.tool, call.room)
         effect == evaluate(policy, call)
     IN  \/ /\ base = "forbidden"
            /\ mediate(grant, call, "forbidden", policy, call.agent, <<>>)
         \/ /\ base # "forbidden" /\ effect = "deny"
            /\ DenyPolicy(call)
         \/ /\ base # "forbidden" /\ effect # "deny"
            /\ mediate(grant, call, refine(base, effect), policy, call.agent, <<>>)

-----------------------------------------------------------------------------
(* Human decisions.  A human answers a card; the card stays in the room,   *)
(* so it can be answered again.  An id that is not pending is refused      *)
(* (UnknownRequest) and changes nothing.                                   *)

\* Mutant: the approval is not audited.
ApproveUnlogged(p, card) ==
  /\ running' = [phase |-> "execute", id |-> p.id, call |-> p.call,
                 shown |-> card.call, current |-> card.boot = boots,
                 via |-> "review", tokens |-> 0]
  /\ UNCHANGED <<audit_log, metrics>>

Approve(p, card) ==
  /\ running' = [phase |-> "execute", id |-> p.id, call |-> p.call,
                 shown |-> card.call, current |-> card.boot = boots,
                 via |-> "review", tokens |-> 0]
  /\ audit_log' = Append(audit_log, Entry(p.call.agent, "approved_by", p.call.tool))
  /\ UNCHANGED metrics

\* Mutant: an answered request stays in the queue.
NothingTaken(p) == pending
\* Mutant: answering a request drops every request for the same call.
TakenByCall(p) == {q \in pending : q.call # p.call}

\* The queue once the request was taken out of it.
Remaining(p) == pending \ {p}

Deny(p) ==
  /\ audit_log' = Append(audit_log, Entry(p.call.agent, "denied_by", p.call.tool))
  /\ record_outcome("denied_human", Remaining(p))
  /\ UNCHANGED running

resolve(card, approved) ==
  /\ running = Idle
  /\ \E p \in pending :
       /\ p.request_id = card.request_id
       /\ pending' = Remaining(p)
       /\ \/ approved /\ Approve(p, card)
          \/ ~approved /\ Deny(p)
  /\ UNCHANGED <<next_request_id, next_call_seq, recent_calls, daily_usage,
                 roster, now, cards, boots, roster_changes, history>>

-----------------------------------------------------------------------------
(* Running a tool.                                                         *)

Execute(tokens) ==
  /\ running # Idle
  /\ running.phase = "execute"
  /\ running' = [running EXCEPT !.phase = "record", !.tokens = tokens]
  /\ effects' = Append(effects,
       [id |-> running.id, call |-> running.call, shown |-> running.shown,
        current |-> running.current, via |-> running.via])
  /\ UNCHANGED <<next_request_id, next_call_seq, pending, recent_calls,
                 daily_usage, metrics, audit_log, roster, now, cards, boots,
                 roster_changes, boot_mark, admissions, charges>>

Record ==
  /\ running # Idle
  /\ running.phase = "record"
  /\ running' = Idle
  /\ note_tokens(running.call.agent, running.tokens)
  /\ charges' = Append(charges, [agent |-> running.call.agent, at |-> now,
                                 tokens |-> running.tokens, boot |-> boots])
  /\ audit_log' = Append(audit_log,
                         Entry(running.call.agent, "executed", running.call.tool))
  /\ record_outcome("executed", pending)
  /\ UNCHANGED <<next_request_id, next_call_seq, pending, recent_calls, roster,
                 now, cards, boots, roster_changes, boot_mark, admissions,
                 effects>>

-----------------------------------------------------------------------------
(* The world around the gateway.                                           *)

\* A call is mediated under a borrow of the roster; only while an approved call
\* runs can the roster be edited under it.
RosterFree == IF running = Idle THEN TRUE ELSE running.via = "review"

InsertGrant(grant) ==
  /\ RosterFree
  /\ roster_changes < MaxRosterChanges
  /\ roster' = [roster EXCEPT ![grant.agent] = grant]
  /\ roster_changes' = roster_changes + 1
  /\ UNCHANGED <<process, audit_log, now, cards, boots, history>>

RemoveAgent(agent) ==
  /\ RosterFree
  /\ roster_changes < MaxRosterChanges
  /\ roster[agent] # NoGrant
  /\ roster' = [roster EXCEPT ![agent] = NoGrant]
  /\ roster_changes' = roster_changes + 1
  /\ UNCHANGED <<process, audit_log, now, cards, boots, history>>

Tick(step) ==
  /\ now + step \in 0..MaxTime
  /\ now' = now + step
  /\ UNCHANGED <<process, audit_log, roster, cards, boots, roster_changes, history>>

\* The empty usage and metrics with_store_and_clock starts from.
NoUsage   == [a \in Agents |-> [day |-> 0, calls |-> 0, tokens |-> 0]]
NoMetrics == [actions |-> [o \in Outcomes |-> 0], pending |-> 0]

\* The process dies at any point and a new gateway is built over the store.
CrashRestart ==
  /\ boots < MaxCrashes
  /\ next_request_id' = 0
  /\ next_call_seq' = 0
  /\ pending' = {}
  /\ recent_calls' = {}
  /\ daily_usage' = NoUsage
  /\ metrics' = NoMetrics
  /\ running' = Idle
  /\ boots' = boots + 1
  /\ boot_mark' = Len(audit_log)
  /\ UNCHANGED <<audit_log, roster, now, cards, roster_changes, admissions,
                 effects, charges>>

Init ==
  /\ next_request_id = 0
  /\ next_call_seq = 0
  /\ pending = {}
  /\ recent_calls = {}
  /\ daily_usage = NoUsage
  /\ metrics = NoMetrics
  /\ running = Idle
  /\ audit_log = <<>>
  /\ roster = InitialRoster
  /\ now = StartTime
  /\ cards = {}
  /\ boots = 0
  /\ roster_changes = 0
  /\ boot_mark = 0
  /\ admissions = <<>>
  /\ effects = <<>>
  /\ charges = <<>>

Next ==
  \/ \E call \in Calls : handle_in_room(call)
  \/ \E call \in Calls, orchestrator \in Agents : handle_delegated(orchestrator, call)
  \/ \E call \in Calls : handle_managed(call)
  \/ \E call \in Calls, policy \in Policies : handle_with_policy(call, policy)
  \/ \E card \in cards, approved \in BOOLEAN : resolve(card, approved)
  \/ \E tokens \in TokenCosts : Execute(tokens)
  \/ Record
  \/ \E grant \in Grants : InsertGrant(grant)
  \/ \E agent \in Agents : RemoveAgent(agent)
  \/ \E step \in ClockSteps : Tick(step)
  \/ CrashRestart

Spec == Init /\ [][Next]_vars

-----------------------------------------------------------------------------
(* Types.                                                                  *)

Ids == Nat \X Nat

PendingApproval == [request_id : Nat, id : Ids, call : Calls]
Running    == [phase : {"execute", "record"}, id : Ids, call : Calls,
               shown : Calls, current : BOOLEAN, via : {"auto", "review"},
               tokens : 0..U64Max]
RecentCall == [id : Ids, agent : Agents, ts : Nat]
Usage      == [day : Nat, calls : Nat, tokens : 0..U64Max]
AuditEntry == [actor : Agents, event : AuditEvents, tool : Tools \cup {"none"}]
Card       == [request_id : Nat, call : Calls, boot : Nat]
Admission  == [id : Ids, call : Calls, class : {"auto", "review"}, grant : Grants,
               policy : Policies \cup {NoPolicy}, by : Agents, at : Nat, boot : Nat]
Executed   == [id : Ids, call : Calls, shown : Calls, current : BOOLEAN, via : {"auto", "review"}]
Charge     == [agent : Agents, at : Nat, tokens : 0..U64Max, boot : Nat]

ASSUME IdleAssumption == Idle \notin Running

(* The shape of every variable: the process state is what the fields of
   AgentGateway can hold, the log holds only the gateway's own vocabulary. *)
TypeOK ==
  /\ next_request_id \in Nat
  /\ next_call_seq \in Nat
  /\ pending \in SUBSET PendingApproval
  /\ recent_calls \in SUBSET RecentCall
  /\ daily_usage \in [Agents -> Usage]
  /\ DOMAIN metrics = {"actions", "pending"}
  /\ metrics.actions \in [Outcomes -> Nat]
  /\ running \in Running \cup {Idle}
  /\ audit_log \in Seq(AuditEntry)
  /\ roster \in [Agents -> Grants \cup {NoGrant}]
  /\ now \in Nat
  /\ cards \in SUBSET Card
  /\ boots \in Nat
  /\ roster_changes \in Nat
  /\ boot_mark \in Nat
  /\ admissions \in Seq(Admission)
  /\ effects \in Seq(Executed)
  /\ charges \in Seq(Charge)

-----------------------------------------------------------------------------
(* Safety.                                                                 *)

Logged(events, agent, tool, from) ==
  Cardinality({i \in from + 1 .. Len(audit_log) :
                 /\ audit_log[i].event \in events
                 /\ audit_log[i].actor = agent
                 /\ audit_log[i].tool = tool})

(* No tool ever runs twice for one call, and none runs that was not admitted:
   an effect carries the id and the very call of an admission, made in the
   class by which it came to run.  This is what the two paths into
   `executor.execute` (mediate and resolve) owe between them, across human
   decisions repeated on an old card and restarts. *)
EffectsAuthorisedOnce ==
  /\ \A i, j \in DOMAIN effects : effects[i].id = effects[j].id => i = j
  /\ \A i \in DOMAIN effects : \E j \in DOMAIN admissions :
       /\ admissions[j].id = effects[i].id
       /\ admissions[j].call = effects[i].call
       /\ admissions[j].class = effects[i].via

(* What a replay of the log can be wrong by (replay.rs, executions()): the log
   never reports an execution that did not happen, nothing happens without an
   authorising entry written before it, and authorised calls that were never
   reported are the one running plus at most one per crash. *)
AuditAccountsForEffects ==
  \A a \in Agents, t \in Tools :
    LET authorised == Logged({"auto_allowed", "approved_by"}, a, t, 0)
        reported   == Logged({"executed"}, a, t, 0)
        done       == Cardinality({i \in DOMAIN effects :
                        effects[i].call.agent = a /\ effects[i].call.tool = t})
    IN  /\ reported <= done
        /\ done <= authorised
        /\ authorised - reported <= boots + (IF running = Idle THEN 0 ELSE 1)

(* Within one process no approval request is lost, answered twice or conjured
   up: each one logged since the start is still pending or was decided. *)
ApprovalsConserved ==
  \A a \in Agents, t \in Tools :
    Logged({"approval_requested"}, a, t, boot_mark) =
      Logged({"approved_by", "denied_by"}, a, t, boot_mark) +
      Cardinality({p \in pending : p.call.agent = a /\ p.call.tool = t})

OutcomeOf(event) ==
  CASE event = "denied_by_scope"       -> "denied_scope"
    [] event = "daily_budget_exceeded" -> "budget_exceeded"
    [] event = "policy_denied"         -> "denied_policy"
    [] event = "denied_by"             -> "denied_human"
    [] event = "unmanaged_agent"       -> "unmanaged"
    [] event = "approval_requested"    -> "review"
    [] event \in Outcomes              -> event
    [] OTHER                           -> "uncounted"

(* The metrics an operator alerts on and the audit log agree: every outcome is
   counted exactly as often as it was audited since the process started, and
   between operations the pending gauge is the length of the queue. *)
MetricsAgreeWithAudit ==
  /\ \A o \in Outcomes :
       metrics.actions[o] =
         Cardinality({i \in boot_mark + 1 .. Len(audit_log) :
                        OutcomeOf(audit_log[i].event) = o})
  /\ running = Idle => metrics.pending = Cardinality(pending)

(* The call that runs is the call on the card the human approved, as long as
   the card was rendered by this process: answering requests in any order, or
   an answered request again, never shifts a number to another call. *)
ApprovedCallIsTheOneShown ==
  \A i \in DOMAIN effects :
    effects[i].current => effects[i].call = effects[i].shown

-----------------------------------------------------------------------------
(* Budgets.                                                                *)

SameBudget(i, j) ==
  /\ admissions[j].call.agent = admissions[i].call.agent
  /\ admissions[j].boot = admissions[i].boot

(* No more calls of an agent are admitted within any window than the rate
   limit of the grant that admitted the last of them: the pruned list the
   limiter keeps is enough to decide this, whatever grants came in between. *)
RateCeiling ==
  \A i \in DOMAIN admissions :
    LET limit == admissions[i].grant.rate_limit_per_min
    IN  limit # 0 =>
          Cardinality({j \in 1..i :
            SameBudget(i, j) /\ admissions[j].at > admissions[i].at - RateWindow})
          <= limit

Day(time) == time \div DayLength

(* The same for calendar days and the daily call limit, within one process. *)
DailyCallCeiling ==
  \A i \in DOMAIN admissions :
    LET limit == admissions[i].grant.daily_call_limit
    IN  limit # 0 =>
          Cardinality({j \in 1..i :
            SameBudget(i, j) /\ Day(admissions[j].at) = Day(admissions[i].at)})
          <= limit

SpentToday(agent) ==
  MapThenSumSet(LAMBDA i : charges[i].tokens,
    {i \in DOMAIN charges : /\ charges[i].agent = agent
                            /\ charges[i].boot = boots
                            /\ Day(charges[i].at) = Day(now)})

NewAdmission == admissions' # admissions
Admitted == admissions'[Len(admissions')]

(* A call is admitted only while the tokens booked to its agent today leave
   some of the budget, however the bookings were spread over days, tools and
   saturated additions. *)
TokenBudgetGatesAdmission ==
  [][NewAdmission => LET b == Admitted.grant.daily_token_budget
                     IN  b # 0 => SpentToday(Admitted.call.agent) < b]_vars

\* Whom a step books a call to: the limiter's memory and the day's count of
\* the agent grow by that call, and nobody else's do.
BookedTo(agent) ==
  /\ \E c \in recent_calls' : c.agent = agent /\ c.id = Admitted.id
  /\ \A c \in recent_calls' \ recent_calls : c.agent = agent
  /\ daily_usage'[agent].calls = daily_entry(agent).calls + 1
  /\ \A other \in Agents \ {agent} : daily_usage'[other] = daily_usage[other]

(* An admission is decided by the grant the roster holds for the calling agent
   at that moment, never by the orchestrator's: the call has the class that
   grant gives it (a policy may tighten it, but not free what the grant
   forbids), it is booked to the caller, and if an orchestrator asked for it,
   the log entry before its admission attributes it to the caller. *)
WorkersGrantDecides ==
  [][NewAdmission =>
       LET worker == Admitted.call.agent
           class  == classify(roster[worker], Admitted.call.tool, Admitted.call.room)
       IN  /\ Admitted.grant = roster[worker] /\ Admitted.grant.agent = worker
           /\ class # "forbidden" /\ (Admitted.policy = NoPolicy => Admitted.class = class)
           /\ BookedTo(worker)
           /\ roster[Admitted.by] # NoGrant
           /\ Admitted.by # worker =>
                audit_log'[Len(audit_log') - 1] =
                  Entry(worker, "delegated_by", Admitted.call.tool)]_vars

(* Policy can only tighten: a call admitted under a policy has the grant's
   class or a stricter one, and no rule that is the first to match it denies
   it, or demands review of what ran unreviewed. *)
PolicyOnlyTightens ==
  \A i \in DOMAIN admissions :
    LET ad == admissions[i] IN
    ad.policy # NoPolicy =>
      /\ Freedom(ad.class) <= Freedom(classify(ad.grant, ad.call.tool, ad.call.room))
      /\ \A r \in DOMAIN ad.policy.rules :
           (/\ matches(ad.policy.rules[r], ad.call)
            /\ \A q \in 1 .. r - 1 : ~matches(ad.policy.rules[q], ad.call))
           => /\ ad.policy.rules[r].effect # "deny"
              /\ ad.policy.rules[r].effect = "review" => ad.class = "review"

StartsRunning == running = Idle /\ running' # Idle
Starter == running'.call.agent

(* "An agent that has already spent its budget starts no new work" (the doc of
   is_over_token_budget): nothing is handed to the executor for such an agent. *)
SpentBudgetStartsNoWork ==
  [][StartsRunning /\ roster[Starter] # NoGrant =>
       LET b == roster[Starter].daily_token_budget
       IN  b # 0 => SpentToday(Starter) < b]_vars

=============================================================================
