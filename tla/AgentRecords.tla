---------------------------- MODULE AgentRecords ----------------------------
(***************************************************************************)
(* What the agentic gateway keeps and tells: an agent's scoped memory      *)
(* (gm-agent/src/memory.rs), the discovery of tools and the reading of     *)
(* room resources (catalog.rs, resources.rs), and the audit log under all  *)
(* of them, over a store whose writes may fail and a process that may die. *)
(*                                                                         *)
(* The gateway is driven through `&mut self`: operations do not overlap.   *)
(* remember and forget change the memory before they append their audit    *)
(* entry, so the process may die between the two; the other operations     *)
(* write nothing but that entry.  Mediated tool calls, whose pipeline is   *)
(* AgentGateway's, appear here by the audit entry they append.             *)
(***************************************************************************)
EXTENDS AuditLog, GrantContent

CONSTANTS
  Grants,        \* the grants callers act under
  Sessions,      \* what callers do: {[requests, mediated]}.  A request is an
                 \* operation, a grant, a room (or for a resource any URI)
                 \* and a memory key, which is a text; a mediated call is by
                 \* its grant, the step of the pipeline it takes, and the
                 \* names and numbers its audit entry mentions
  Values,        \* remembered values
  Catalog,       \* the tools of the deployment's catalog
  Policies,      \* policy sets that are published
  Contents,      \* event contents that a grant may be decoded from
  PolicyContents,
  Idle,          \* no operation between its two writes
  MaxLog,        \* bound: appends after which no operation starts
  MaxUnknown,    \* bound: unknown URIs asked for, before the first restart
  MaxFailures,   \* bound: writes the backend fails to persist
  MaxCrashes     \* bound: restarts

Requests == UNION {session.requests : session \in Sessions}

\* Callers act under the deployment's grants, and those are for rooms whose ids
\* hold no separator (RoomId::parse would let one through, and others may be
\* asked for); nor does an agent's id, which UserId::parse would let through too.
ASSUME RecordsAssumption ==
  /\ \A r \in Requests : r.grant \in Grants /\ r.key \in Seq(Range(r.key))
  /\ \A grant \in Grants : (grant.accessible_rooms \cup {grant.agent}) \cap DOMAIN Spelling = {}

VARIABLES
  session,     \* what callers do in this behaviour
  store,       \* the store the gateway was built over
  doing,       \* the operation that changed the memory and has not reported yet
  metrics,     \* gm_agent_{memory_ops,resource_reads,resource_lists,tool_lists}_total
  answer,      \* what the last operation returned
  history,     \* history: every append, what it was about, and when it was lost
  writes,      \* history: every memory item ever accepted
  remembered,  \* history: the memory as the accepted operations leave it
  failures, crashes, boot_mark

vars == <<session, store, doing, metrics, answer, history, writes, remembered,
          failures, crashes, boot_mark>>

-----------------------------------------------------------------------------
(* The memory family: keys are {agent}, {room} and the key, delimited by   *)
(* the separator, so a key of two parts gives a storage key of four.  No    *)
(* item is looked for in a room that the grant is not for.                 *)

item_key(agent, room, key) == <<agent, room>> \o key

\* Mutant: the prefix of all of the agent's memories.
AgentPrefix(agent, room) == <<agent>>

room_prefix(agent, room) == <<agent, room>>

check_key(key) == Len(key) = 1

recall(s, agent, room, key) == get(s, "AGENT_MEMORY", item_key(agent, room, key), None)

\* The items under the prefix, by the rest of their key.
recall_all(s, agent, room) ==
  LET prefix == room_prefix(agent, room)
      hits == {k \in DOMAIN s.resident.AGENT_MEMORY : IsPrefix(prefix, k)}
  IN  { [key |-> SubSeq(k, Len(prefix) + 1, Len(k)),
         value |-> s.resident.AGENT_MEMORY[k]] : k \in hits }

-----------------------------------------------------------------------------
(* Reporting: the audit entry, the counter and the answer.                 *)

Series == ({"store", "recall", "recall_all", "forget"} \X {"ok", "denied"})
          \cup ({"resource_read"} \X {"ok", "denied", "unknown"})
          \cup ({"resource_list", "tool_list"} \X {"ok"})

inc_counter(op, result) == metrics' = [metrics EXCEPT ![<<op, result>>] = @ + 1]

Failing(write) ==
  /\ write.ok \/ failures < MaxFailures
  /\ failures' = failures + IF write.ok THEN 0 ELSE 1

Holds(s, hash) == \E k \in DOMAIN s.resident.AUDIT_LOG : s.resident.AUDIT_LOG[k].hash = hash

\* The history, with the appends the log no longer holds marked by the moment
\* they went.
LossesMarked(s, past) ==
  [ i \in DOMAIN past |->
      IF past[i].lost = 0 /\ ~Holds(s, past[i].hash)
      THEN [past[i] EXCEPT !.lost = Len(past)] ELSE past[i] ]

Appends(s, actor, event, outcome) ==
  \E w \in append(s, actor, event) :
    /\ Failing(w)
    /\ store' = w.store
    /\ history' = LossesMarked(w.store,
                    Append(history, [actor |-> actor, event |-> event, lost |-> 0,
                                     outcome |-> outcome,
                                     hash |-> NewEntry(s, actor, event).hash]))
    /\ UNCHANGED session

Answer(op, result, agent, room, items) ==
  answer' = [op |-> op, result |-> result, agent |-> agent, room |-> room,
             items |-> items]

\* How a call ended, and what it spent.
Outcome(end, ok, tokens) == [end |-> end, ok |-> ok, tokens |-> tokens]
Done    == Outcome("done", FALSE, 0)
Refused == Outcome("refused", FALSE, 0)

Reports(op, result, agent, room, event, items) ==
  /\ Appends(store, agent, event,
             IF result = "denied" /\ op # "resource_read" THEN Refused ELSE Done)
  /\ inc_counter(op, result)
  /\ Answer(op, result, agent, room, items)

\* The requests for an operation that may be handled now.
Asked(op) ==
  {r \in session.requests : doing = Idle /\ Len(history) < MaxLog /\ r.op = op}

\* The answers that change nothing but what they count.
Ghosts == <<writes, remembered, crashes, boot_mark>>

-----------------------------------------------------------------------------
(* Memory.                                                                 *)

\* "memory_{what}: {room}/{key}"
MemoryEvent(what, room, key) == AuditEvent(<<"memory_", what>>, <<Spelt(room), key>>)
All == << <<"*">> >>

MemoryDenied(op, grant, room, key) ==
  /\ ~permits_room(grant, room)
  /\ Reports(op, "denied", grant.agent, room, MemoryEvent("denied", room, key), {})
  /\ UNCHANGED <<doing, Ghosts>>

\* remember and forget: the change of the memory, its own failure dropped.
MemoryWrite(op, what, grant, room, key, outcomes) ==
  \E w \in outcomes :
    /\ Failing(w)
    /\ store' = w.store
    /\ doing' = [op |-> op, agent |-> grant.agent, room |-> room,
                 event |-> MemoryEvent(what, room, key)]
    /\ UNCHANGED <<session, metrics, answer, history, crashes, boot_mark>>

StoreItem(grant, room, key, value) ==
  /\ permits_room(grant, room) /\ check_key(key)
  /\ MemoryWrite("store", "stored", grant, room, key,
       put(store, "AGENT_MEMORY", item_key(grant.agent, room, key), value))
  /\ writes' = writes \cup {[agent |-> grant.agent, room |-> room, key |-> key,
                             value |-> value]}
  /\ remembered' = (item_key(grant.agent, room, key) :> value) @@ remembered

\* A key with the separator is refused without an entry or a count.
InvalidKey(grant, room, key) ==
  /\ permits_room(grant, room) /\ ~check_key(key)
  /\ Answer("store", "invalid", grant.agent, room, {})
  /\ UNCHANGED <<session, store, doing, metrics, history, failures, Ghosts>>

Remember ==
  \E r \in Asked("remember"), value \in Values :
    \/ MemoryDenied("store", r.grant, r.room, r.key)
    \/ InvalidKey(r.grant, r.room, r.key)
    \/ StoreItem(r.grant, r.room, r.key, value)

ForgetItem(grant, room, key) ==
  /\ permits_room(grant, room)
  /\ MemoryWrite("forget", "forgotten", grant, room, key,
       delete(store, "AGENT_MEMORY", item_key(grant.agent, room, key)))
  /\ remembered' = [k \in (DOMAIN remembered) \ {item_key(grant.agent, room, key)}
                      |-> remembered[k]]
  /\ UNCHANGED writes

Forget ==
  \E r \in Asked("forget") :
    MemoryDenied("forget", r.grant, r.room, r.key) \/ ForgetItem(r.grant, r.room, r.key)

\* The second half of remember and forget.
Report ==
  /\ doing # Idle
  /\ Reports(doing.op, "ok", doing.agent, doing.room, doing.event, {})
  /\ doing' = Idle
  /\ UNCHANGED Ghosts

RecallItem(grant, room, key) ==
  LET value == recall(store, grant.agent, room, key)
      items == {[key |-> key, value |-> v] : v \in {value} \ {None}}
  IN  /\ permits_room(grant, room)
      /\ Reports("recall", "ok", grant.agent, room, MemoryEvent("recalled", room, key), items)
      /\ UNCHANGED <<doing, Ghosts>>

Recall ==
  \E r \in Asked("recall") :
    MemoryDenied("recall", r.grant, r.room, r.key) \/ RecallItem(r.grant, r.room, r.key)

RecallItems(grant, room) ==
  /\ permits_room(grant, room)
  /\ Reports("recall_all", "ok", grant.agent, room, MemoryEvent("recalled", room, All),
             recall_all(store, grant.agent, room))
  /\ UNCHANGED <<doing, Ghosts>>

RecallAll ==
  \E r \in Asked("recall_all") :
    MemoryDenied("recall_all", r.grant, r.room, All) \/ RecallItems(r.grant, r.room)

-----------------------------------------------------------------------------
(* Discovery and resources.                                                *)

ListResources ==
  \E r \in Asked("list_resources") :
    /\ Reports("resource_list", "ok", r.grant.agent, None,
               AuditEvent(<<"resource", "s_listed">>, <<>>), r.grant.accessible_rooms)
    /\ UNCHANGED <<doing, Ghosts>>

ListTools ==
  \E r \in Asked("list_tools") :
    /\ Reports("tool_list", "ok", r.grant.agent, None,
               AuditEvent(<<"tools_listed">>, <<>>), list_for(Catalog, r.grant))
    /\ UNCHANGED <<doing, Ghosts>>

\* The room a URI names, None if it names none.
room_from_uri(uri) == IF uri \in Rooms THEN uri ELSE None

\* An answer's text is that of the room it was read from.
ReadResource ==
  \E r \in Asked("read_resource") :
    LET room == room_from_uri(r.room) IN
    /\ \/ /\ room = None
          /\ crashes = 0 /\ metrics[<<"resource_read", "unknown">>] < MaxUnknown
          /\ inc_counter("resource_read", "unknown")
          /\ Answer("resource_read", "unknown", r.grant.agent, None, {})
          /\ UNCHANGED <<session, store, history, failures>>
       \/ /\ room # None /\ ~permits_room(r.grant, room)
          /\ Reports("resource_read", "denied", r.grant.agent, room,
                     AuditEvent(<<"resource", "_denied">>, <<Spelt(room)>>), {})
       \/ /\ room # None /\ permits_room(r.grant, room)
          /\ Reports("resource_read", "ok", r.grant.agent, room,
                     AuditEvent(<<"resource", "_read">>, <<Spelt(room)>>), {room})
    /\ UNCHANGED <<doing, Ghosts>>

-----------------------------------------------------------------------------
(* Mediated calls, the process and the specification.                      *)

\* What each step of the pipeline writes, and a call outside it.
OnTool     == {"rate_limited", "daily_budget_exceeded", "token_budget_exceeded",
               "auto_allowed", "approval_requested"}
OnToolRoom == [denied_by_scope |-> <<"denied_by", "_scope">>, policy_denied |-> <<"policy_denied">>]
BySomebody == {"denied_by", "approved_by", "delegated_by"}
OfAgents   == {"unmanaged_agent", "unknown_agent"}

MediatedEvent(call) ==
  LET tool == Spelt(call.tool)
  IN  CASE call.step \in OnTool -> AuditEvent(<<call.step>>, <<tool>>)
        [] call.step \in DOMAIN OnToolRoom ->
             AuditEvent(OnToolRoom[call.step], <<tool, << <<" in ">> >>, Spelt(call.room)>>)
        [] call.step \in BySomebody -> AuditEvent(<<call.step, " ", call.by>>, <<tool>>)
        [] call.step = "executed" ->
             AuditEvent(<<"executed", ":">>,
               <<tool, << <<"ok=", IF call.ok THEN "true" ELSE "false", "tokens=", call.tokens>> >> >>)
        [] call.step \in OfAgents -> AuditEvent(<<call.step>>, <<Spelt(call.grant.agent)>>)

\* The pipeline's refusals; a human's denial is one of them.
Refusing == {"denied_by_scope", "rate_limited", "daily_budget_exceeded",
             "token_budget_exceeded", "policy_denied", "denied_by"}

Mediate ==
  \E call \in session.mediated :
    /\ doing = Idle /\ Len(history) < MaxLog
    /\ Appends(store, call.grant.agent, MediatedEvent(call),
               IF call.step \in Refusing THEN Refused
               ELSE IF call.step = "executed" THEN Outcome("executed", call.ok, Number[call.tokens])
               ELSE Done)
    /\ UNCHANGED <<doing, metrics, answer, Ghosts>>

NoAnswer == [op |-> "none", result |-> "none", agent |-> None, room |-> None,
             items |-> {}]
Unstarted == [s \in Series |-> 0]

\* The process dies and is started again over what its backend kept.
Restart ==
  /\ crashes < MaxCrashes
  /\ crashes' = crashes + 1
  /\ store' = open(store)
  /\ history' = LossesMarked(open(store), history)
  /\ boot_mark' = Len(history)
  /\ doing' = Idle /\ metrics' = Unstarted /\ answer' = NoAnswer
  /\ UNCHANGED <<session, writes, remembered, failures>>

Init ==
  /\ session \in Sessions
  /\ store \in {Fresh(b) : b \in Backends}
  /\ doing = Idle /\ metrics = Unstarted /\ answer = NoAnswer
  /\ history = <<>> /\ writes = {} /\ remembered = <<>>
  /\ failures = 0 /\ crashes = 0 /\ boot_mark = 0

Next == Remember \/ Forget \/ Report \/ Recall \/ RecallAll \/ ListResources
        \/ ListTools \/ ReadResource \/ Mediate \/ Restart

Spec == Init /\ [][Next]_vars

-----------------------------------------------------------------------------
(* Properties.                                                             *)

\* Nothing was ever lost: no write failed, and no volatile store restarted.
Unbroken == failures = 0 /\ (store.backend = "memory" => crashes = 0)

Readable(past) == SelectSeq(past, Decodes)

\* An entry whose own text is taken for its hashes.
Misread(entry) == Len(entry.event) > 1 /\ Decodes(entry)

Same(log, past) ==
  /\ Len(log) = Len(past)
  /\ \A i \in DOMAIN past :
       log[i].actor = past[i].actor /\ Head(log[i].event) = Head(past[i].event)

Counted(what) ==
  Cardinality({i \in (boot_mark + 1)..Len(history) :
                 IsPrefix(<<"memory_", what>>, Head(history[i].event))})

(* Without a failed write nothing is lost, however often the process dies   *)
(* and wherever: the log holds every append and reads as the readable ones  *)
(* in order, up to a separator in them; the chain verifies unless a key, a  *)
(* tool or a URI that somebody chose had a separator and a number after it  *)
(* (audit.rs:22 takes it that no field has one), and then it does not; the  *)
(* memory is what the accepted operations left, and the counters of this    *)
(* process agree with the appends since it started (append, decode, verify, *)
(* FileStore::open; gm-store audit.rs, file.rs).                            *)
NothingLost ==
  Unbroken =>
    /\ verify(store) <=> \A i \in DOMAIN history : ~Misread(history[i])
    /\ count(store, "AUDIT_LOG") = Len(history)
    /\ Same(entries(store), Readable(history))
    /\ store.resident.AGENT_MEMORY = remembered
    /\ metrics[<<"store", "ok">>] = Counted("stored")
    /\ metrics[<<"forget", "ok">>] = Counted("forgotten")
    /\ metrics[<<"recall", "ok">>] + metrics[<<"recall_all", "ok">>] = Counted("recalled")
    /\ metrics[<<"store", "denied">>] + metrics[<<"recall", "denied">>]
       + metrics[<<"recall_all", "denied">>] + metrics[<<"forget", "denied">>]
         = Counted("denied")

(* A loss in the middle shows: when the chain verifies, no entry that was   *)
(* appended while a lost one was still in the log has survived it.  Only    *)
(* the end of the log can go unnoticed, and an entry that was misread while *)
(* it was there (verify against the file backend's failed writes and a      *)
(* restart; audit.rs, file.rs).                                             *)
LossShows ==
  verify(store) =>
    \A i \in DOMAIN history :
      history[i].lost # 0 /\ Decodes(history[i]) /\ ~Misread(history[i]) =>
        \A j \in (i + 1)..history[i].lost :
          Decodes(history[j]) => history[j].lost # 0

(* What an agent is told stays inside its scope: recalled items were stored *)
(* by this agent for this room, listed and read resources are rooms of its  *)
(* grant, and a listed tool has the class that mediation will give it in    *)
(* every room of the grant (memory.rs room_prefix, list_for, classify).     *)
MemoryConfined ==
  /\ answer.op \in {"recall", "recall_all"} =>
       \A item \in answer.items :
         [agent |-> answer.agent, room |-> answer.room, key |-> item.key,
          value |-> item.value] \in writes
  /\ answer.op \in {"resource_list", "resource_read"} =>
       \E grant \in Grants :
         grant.agent = answer.agent /\ answer.items \subseteq grant.accessible_rooms
  /\ answer.op = "tool_list" =>
       \E grant \in Grants : grant.agent = answer.agent /\
         \A tool \in answer.items, room \in grant.accessible_rooms :
           classify(grant, tool.name, room) = tool.class

\* No name in the event looks like the figures after it.
Clear(entry) ==
  \A key \in {"ok=", "tokens="} :
    Cardinality({i \in DOMAIN Head(entry.event) : Head(entry.event)[i] = key}) <= 1


(* What an agent may do survives its way through room state: decoding what  *)
(* to_content wrote gives the grant or the policy back, content without the *)
(* optional budgets gives the grant without them, and any other content is  *)
(* refused at a bad field unless what it says is exactly what it decodes    *)
(* to.  It is a property of the conversions alone, looked at when a grant   *)
(* is first acted under, on one backend and before a restart (to_content,   *)
(* from_content; capability.rs, policy.rs).                                 *)
GrantSurvivesRoomState ==
  Len(history) = 1 /\ crashes = 0 /\ store.backend = "memory" =>
    /\ \A policy \in Policies :
         policy_from_content(policy_to_content(policy)) = [ok |-> TRUE, policy |-> policy]
    /\ \A damaged \in PolicyContents :
         LET decoded == policy_from_content(damaged)
         IN  decoded.ok => policy_to_content(decoded.policy) = damaged
    /\ \A grant \in {g \in Grants : g.agent = history[1].actor} :
         LET content == to_content(grant)
             Without(field) == [f \in (DOMAIN content) \ {field} |-> content[f]]
             Accepted(g)    == [ok |-> TRUE, grant |-> g]
         IN
         /\ from_content(content) = Accepted(grant)
         /\ \A field \in (DOMAIN content) \ OptionalFields :
              from_content(Without(field))
                = [ok |-> FALSE, field |-> field, error |-> "MissingField"]
         /\ from_content(Without("daily_call_limit"))
              = Accepted([grant EXCEPT !.daily_call_limit = 0])
         /\ from_content(Without("daily_token_budget"))
              = Accepted([grant EXCEPT !.daily_token_budget = 0])
         /\ \A damaged \in Contents :
              LET decoded == from_content(damaged) IN
              IF decoded.ok
              THEN to_content(decoded.grant) = damaged
              ELSE ~WellFormed(damaged, decoded.field)

-----------------------------------------------------------------------------
(* Deployments and contents whose way through room state loses nothing.    *)

Fields == {"agent", "rate_limit_per_min", "daily_call_limit", "daily_token_budget",
           "default_class", "allowed_tools", "accessible_rooms", "overrides"}

\* The grants of a deployment: their types, and limits that fit their widths.
GrantsFit ==
  \A grant \in Grants :
    /\ grant \in CapabilityGrant
    /\ IsFiniteSet(grant.allowed_tools) /\ IsFiniteSet(grant.accessible_rooms)
    /\ grant.rate_limit_per_min <= U32Max /\ grant.daily_call_limit <= U32Max
    /\ grant.daily_token_budget <= U64Max

\* An empty matcher is written as an absent one, so no rule has one.
PoliciesFit == Policies \subseteq PolicySet /\ "" \notin Tools \cup Rooms \cup Needles

\* A value of event content.
IsValue(v) ==
  \/ v.kind = "Str" /\ v = StrValue(v.str)
  \/ v.kind = "U64" /\ v = NumValue(v.num)
  \/ v.kind = "List" /\ v = ListValue(v.list) /\ v.list \in Seq(Range(v.list))

Items(v) == IF v.kind = "List" THEN Range(v.list) ELSE {}

\* Contents of a grant with each field there, and sets listed as to_content does.
ContentsCanonical ==
  \A c \in Contents :
    /\ c = [f \in Fields |-> c[f]]
    /\ \A f \in Fields :
         IsValue(c[f]) /\ \A v \in Items(c[f]) : IsValue(v) /\ \A w \in Items(v) : IsValue(w)
    /\ \A f \in {"allowed_tools", "accessible_rooms"} :
         c[f].kind = "List" /\ (\A v \in Items(c[f]) : v.kind = "Str") =>
           c[f].list = Strings(StringsIn(c[f]))

PolicyContentsCanonical ==
  \A c \in PolicyContents :
    /\ DOMAIN c \subseteq {"default_effect", "rules"} /\ c = [f \in DOMAIN c |-> c[f]]
    /\ \A f \in DOMAIN c :
         IsValue(c[f]) /\ \A v \in Items(c[f]) :
           IsValue(v) /\ \A w \in Items(v) : IsValue(w) /\ w # StrValue(None)
=============================================================================
