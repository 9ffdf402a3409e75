----------------------- MODULE AgentGatewayAccounting -----------------------
(***************************************************************************)
(* What the audit log can be trusted to say.  The queue, the metrics and   *)
(* the tools' effects are each matched with a count of log entries, and    *)
(* every step of the gateway is shown to keep the accounts balanced,       *)
(* crashes between an entry and what it stands for included.               *)
(***************************************************************************)
EXTENDS AgentGatewayProofs, FiniteSetTheorems

-----------------------------------------------------------------------------
(* Counting entries.                                                       *)

\* How many entries of the log after position `from` belong to a set.
Tally(log, from, M) == Cardinality({i \in from + 1 .. Len(log) : log[i] \in M})

LEMMA TallyType ==
  ASSUME NEW log \in Seq(AuditEntry), NEW from \in Nat, NEW M
  PROVE  /\ Tally(log, from, M) \in Nat
         /\ IsFiniteSet({i \in from + 1 .. Len(log) : log[i] \in M})
<1>1. IsFiniteSet(from + 1 .. Len(log))
  BY FS_Interval
<1>. DEFINE S == {i \in from + 1 .. Len(log) : log[i] \in M}
<1>2. S \in SUBSET (from + 1 .. Len(log))
  OBVIOUS
<1>. HIDE DEF S
<1>3. IsFiniteSet(S) /\ Cardinality(S) \in Nat
  BY <1>1, <1>2, FS_Subset, FS_CardinalityType
<1>. QED
  BY <1>3 DEF S, Tally

LEMMA TallyNothing ==
  ASSUME NEW log, NEW from \in Nat, from = Len(log), NEW M
  PROVE  Tally(log, from, M) = 0
<1>1. {i \in from + 1 .. Len(log) : log[i] \in M} = {}
  OBVIOUS
<1>. QED
  BY <1>1, FS_EmptySet DEF Tally

LEMMA TallyAppend ==
  ASSUME NEW log \in Seq(AuditEntry), NEW from \in Nat, from <= Len(log),
         NEW M, NEW e \in AuditEntry
  PROVE  Tally(Append(log, e), from, M) =
           Tally(log, from, M) + (IF e \in M THEN 1 ELSE 0)
<1>. DEFINE S == {i \in from + 1 .. Len(log) : log[i] \in M}
            T == {i \in from + 1 .. Len(Append(log, e)) : Append(log, e)[i] \in M}
<1>1. IsFiniteSet(S) /\ Cardinality(S) \in Nat
  BY TallyType DEF Tally
<1>2. Len(log) + 1 \notin S
  OBVIOUS
<1>3. CASE e \in M
  <2>1. T = S \cup {Len(log) + 1}
    BY <1>3
  <2>. HIDE DEF S, T
  <2>2. Cardinality(T) = Cardinality(S) + 1
    BY <1>1, <1>2, <2>1, FS_AddElement
  <2>. QED
    BY <1>3, <2>2 DEF Tally, S, T
<1>4. CASE e \notin M
  <2>1. T = S
    BY <1>4
  <2>2. Tally(log, from, M) = Cardinality(S) /\ Tally(Append(log, e), from, M) = Cardinality(T)
    BY DEF Tally
  <2>. HIDE DEF S, T
  <2>. QED
    BY <1>1, <1>4, <2>1, <2>2
<1>. QED
  BY <1>3, <1>4

\* A log with a decision appended, after the caller's attribution if any.
Decision(log, before, e) == log \o before \o <<e>>

\* A decision adds itself to the count; an attribution before it does not.
LEMMA TallyDecision ==
  ASSUME NEW log \in Seq(AuditEntry), NEW from \in Nat, from <= Len(log), NEW M,
         NEW before \in Attributions, NEW e \in AuditEntry,
         \A d \in M : d.event # "delegated_by",
         NEW new, new = Decision(log, before, e)
  PROVE  /\ new \in Seq(AuditEntry)
         /\ from <= Len(new)
         /\ Tally(new, from, M) = Tally(log, from, M) + (IF e \in M THEN 1 ELSE 0)
<1>1. CASE before = <<>>
  <2>1. new = Append(log, e)
    BY <1>1 DEF Decision
  <2>2. Append(log, e) \in Seq(AuditEntry) /\ from <= Len(Append(log, e))
    OBVIOUS
  <2>3. Tally(Append(log, e), from, M) = Tally(log, from, M) + (IF e \in M THEN 1 ELSE 0)
    BY TallyAppend
  <2>. QED
    BY <2>1, <2>2, <2>3, Zenon
<1>2. CASE before # <<>>
  <2>1. PICK a \in Agents, t \in Tools : before = <<Entry(a, "delegated_by", t)>>
    BY <1>2 DEF Attributions
  <2>. DEFINE d == Entry(a, "delegated_by", t)
  <2>2. d \in AuditEntry /\ d \notin M
    BY EntryType, EventNames DEF Entry
  <2>. HIDE DEF d
  <2>3. new = Append(Append(log, d), e)
    BY <2>1, <2>2 DEF d, Decision
  <2>. DEFINE attributed == Append(log, d)
  <2>4. attributed \in Seq(AuditEntry) /\ from <= Len(attributed)
    BY <2>2
  <2>5. Tally(attributed, from, M) = Tally(log, from, M) /\ Tally(log, from, M) \in Nat
    <3>1. Tally(attributed, from, M) = Tally(log, from, M) + (IF d \in M THEN 1 ELSE 0)
      BY <2>2, TallyAppend
    <3>2. Tally(log, from, M) \in Nat
      BY TallyType
    <3>. QED
      BY <2>2, <3>1, <3>2
  <2>. HIDE DEF attributed
  <2>6. Tally(Append(attributed, e), from, M) =
          Tally(attributed, from, M) + (IF e \in M THEN 1 ELSE 0)
    BY <2>4, TallyAppend
  <2>7. new = Append(attributed, e)
    BY <2>3 DEF attributed
  <2>8. /\ Append(attributed, e) \in Seq(AuditEntry)
        /\ from <= Len(Append(attributed, e))
    BY <2>4
  <2>. QED
    BY <2>5, <2>6, <2>7, <2>8
<1>. QED
  BY <1>1, <1>2

\* The entries `Logged` counts.
About(events, agent, tool) ==
  {e \in AuditEntry : e.event \in events /\ e.actor = agent /\ e.tool = tool}

LEMMA LoggedIsTally ==
  ASSUME NEW log \in Seq(AuditEntry), NEW from \in Nat, NEW events, NEW a, NEW t
  PROVE  Cardinality({i \in from + 1 .. Len(log) :
                        /\ log[i].event \in events
                        /\ log[i].actor = a
                        /\ log[i].tool = t})
         = Tally(log, from, About(events, a, t))
<1>1. \A i \in from + 1 .. Len(log) : log[i] \in AuditEntry
  OBVIOUS
<1>2. {i \in from + 1 .. Len(log) :
         /\ log[i].event \in events
         /\ log[i].actor = a
         /\ log[i].tool = t}
      = {i \in from + 1 .. Len(log) : log[i] \in About(events, a, t)}
  BY <1>1 DEF About
<1>. QED
  BY <1>2 DEF Tally

-----------------------------------------------------------------------------
(* What each step books in the log.                                        *)

\* The step logs the entry.
Logs(before, e) ==
  /\ before \in Attributions
  /\ e \in AuditEntry
  /\ audit_log' = Decision(audit_log, before, e)

\* A restart marks a position the log has reached.
MarkInLog == boot_mark \in Nat /\ boot_mark <= Len(audit_log)

LEMMA Booked ==
  ASSUME TypeOK, NEW from \in Nat, from <= Len(audit_log), NEW before, NEW e,
         Logs(before, e), NEW M, \A d \in M : d.event # "delegated_by"
  PROVE  /\ audit_log' \in Seq(AuditEntry)
         /\ from <= Len(audit_log')
         /\ Tally(audit_log, from, M) \in Nat
         /\ Tally(audit_log', from, M) =
              Tally(audit_log, from, M) + (IF e \in M THEN 1 ELSE 0)
<1>1. audit_log \in Seq(AuditEntry) /\ before \in Attributions /\ e \in AuditEntry
  BY DEF TypeOK, Logs
<1>2. audit_log' = Decision(audit_log, before, e)
  BY DEF Logs
<1>3. /\ audit_log' \in Seq(AuditEntry)
      /\ from <= Len(audit_log')
      /\ Tally(audit_log', from, M) =
           Tally(audit_log, from, M) + (IF e \in M THEN 1 ELSE 0)
  BY <1>1, <1>2, TallyDecision
<1>4. Tally(audit_log, from, M) \in Nat
  BY <1>1, TallyType
<1>. QED
  BY <1>3, <1>4

\* One entry appended is one entry logged without attribution.
LEMMA AppendLogs ==
  ASSUME TypeOK, NEW e \in AuditEntry, audit_log' = Append(audit_log, e)
  PROVE  Logs(<<>>, e)
<1>1. audit_log \in Seq(AuditEntry)
  BY DEF TypeOK
<1>2. Append(audit_log, e) = Decision(audit_log, <<>>, e)
  BY <1>1 DEF Decision
<1>. QED
  BY <1>2 DEF Logs, Attributions

LEMMA RefusingLogs ==
  ASSUME TypeOK, Refusing
  PROVE  \E actor \in Agents, event \in Refusals, tool \in Tools \cup {"none"},
            before \in Attributions :
              /\ Logs(before, Entry(actor, event, tool))
              /\ record_outcome(OutcomeOf(event), pending)
              /\ running = Idle
              /\ UNCHANGED <<next_request_id, next_call_seq, pending, running, roster,
                             now, cards, boots, roster_changes, history>>
<1>1. PICK actor \in Agents, event \in Refusals, tool \in Tools \cup {"none"},
           before \in Attributions :
             running = Idle /\ Refuse(actor, event, OutcomeOf(event), tool, before)
  BY DEF Refusing
<1>2. Entry(actor, event, tool) \in AuditEntry
  BY EntryType, EventNames
<1>. QED
  BY <1>1, <1>2 DEF Refuse, Logs, Decision

\* A call handed to the tool is a call that runs.
LEMMA HandedToTool ==
  ASSUME NEW id \in Ids, NEW call \in Calls, NEW shown \in Calls,
         NEW current \in BOOLEAN, NEW via \in {"auto", "review"}
  PROVE  [phase |-> "execute", id |-> id, call |-> call, shown |-> shown,
          current |-> current, via |-> via, tokens |-> 0] # Idle
<1>1. [phase |-> "execute", id |-> id, call |-> call, shown |-> shown,
       current |-> current, via |-> via, tokens |-> 0] \in Running
  BY GatewayAssumption DEF Running, GatewayAssumption
<1>. QED
  BY <1>1, IdleAssumption

\* An admission to run at once: logged as allowed, and handed to the tool.
LEMMA AutoLogs ==
  ASSUME TypeOK, NEW grant, NEW call \in Calls, NEW policy, NEW by,
         NEW before \in Attributions, AdmitAuto(grant, call, policy, by, before)
  PROVE  /\ Logs(before, Entry(call.agent, "auto_allowed", call.tool))
         /\ running' # Idle /\ running'.phase = "execute" /\ running'.call = call
         /\ UNCHANGED <<next_request_id, pending, metrics, boots, boot_mark, effects>>
<1>1. Entry(call.agent, "auto_allowed", call.tool) \in AuditEntry
  BY EntryType, EventNames DEF Calls
<1>2. CallId \in Ids
  BY DEF CallId, Ids, TypeOK
<1>3. running' # Idle
  BY <1>2, HandedToTool DEF AdmitAuto
<1>. QED
  BY <1>1, <1>3 DEF AdmitAuto, Admit, Logs, Decision

\* An admission for review: logged as a request and queued under a new number.
LEMMA ReviewLogs ==
  ASSUME TypeOK, CardsMatchQueue, NEW grant, NEW call \in Calls, NEW policy, NEW by,
         NEW before \in Attributions, AdmitReview(grant, call, policy, by, before)
  PROVE  /\ Logs(before, Entry(call.agent, "approval_requested", call.tool))
         /\ \E p : /\ p.call = call /\ p \notin pending /\ pending' = pending \cup {p}
                   /\ record_outcome("review", pending \cup {p})
         /\ UNCHANGED <<running, boots, boot_mark, effects>>
<1>1. Entry(call.agent, "approval_requested", call.tool) \in AuditEntry
  BY EntryType, EventNames DEF Calls
<1>. DEFINE p == [request_id |-> RequestId, id |-> CallId, call |-> call]
<1>2. p.call = call /\ p.request_id = next_request_id
  BY DEF RequestId
<1>3. p \notin pending
  BY <1>2 DEF CardsMatchQueue, TypeOK, PendingApproval
<1>4. pending' = pending \cup {p} /\ record_outcome("review", pending \cup {p})
  BY DEF AdmitReview
<1>. HIDE DEF p
<1>. QED
  BY <1>1, <1>2, <1>3, <1>4 DEF AdmitReview, Admit, Logs, Decision

\* A human's answer: logged, and the request leaves the queue.
LEMMA ResolveLogs ==
  ASSUME TypeOK, NEW card \in cards, NEW approved \in BOOLEAN, resolve(card, approved)
  PROVE  /\ UNCHANGED <<boots, boot_mark, effects>> /\ running = Idle
         /\ \E p \in pending :
              /\ pending' = pending \ {p}
              /\ p.call \in Calls
              /\ \/ /\ Logs(<<>>, Entry(p.call.agent, "approved_by", p.call.tool))
                    /\ running' # Idle
                    /\ running'.phase = "execute" /\ running'.call = p.call
                    /\ UNCHANGED metrics
                 \/ /\ Logs(<<>>, Entry(p.call.agent, "denied_by", p.call.tool))
                    /\ UNCHANGED running
                    /\ record_outcome("denied_human", pending \ {p})
<1>1. PICK p \in pending :
        /\ pending' = pending \ {p}
        /\ \/ approved /\ Approve(p, card)
           \/ ~approved /\ Deny(p)
  BY DEF resolve, Remaining
<1>2. p.call \in Calls /\ p.call.agent \in Agents /\ p.call.tool \in Tools
  BY DEF TypeOK, PendingApproval, Calls
<1>3. /\ Entry(p.call.agent, "approved_by", p.call.tool) \in AuditEntry
      /\ Entry(p.call.agent, "denied_by", p.call.tool) \in AuditEntry
  BY <1>2, EntryType, EventNames
<1>4. running = Idle /\ UNCHANGED <<boots, boot_mark, effects>>
  BY DEF resolve, history
<1>5. CASE Approve(p, card)
  <2>1. /\ Logs(<<>>, Entry(p.call.agent, "approved_by", p.call.tool))
        /\ running'.phase = "execute" /\ running'.call = p.call
        /\ UNCHANGED metrics
    BY <1>3, <1>5, AppendLogs DEF Approve
  <2>2. /\ p.id \in Ids /\ card.call \in Calls /\ (card.boot = boots) \in BOOLEAN
    BY DEF TypeOK, PendingApproval, Card
  <2>3. running' # Idle
    BY <1>2, <1>5, <2>2, HandedToTool DEF Approve
  <2>. QED
    BY <1>1, <1>2, <1>4, <2>1, <2>3
<1>6. CASE Deny(p)
  <2>1. /\ Logs(<<>>, Entry(p.call.agent, "denied_by", p.call.tool))
        /\ UNCHANGED running
        /\ record_outcome("denied_human", pending \ {p})
    BY <1>3, <1>6, AppendLogs DEF Deny, Remaining
  <2>. QED
    BY <1>1, <1>2, <1>4, <2>1
<1>. QED
  BY <1>1, <1>5, <1>6

-----------------------------------------------------------------------------
(* Approvals are conserved.                                                *)

\* The requests of one agent for one tool in a queue.
Waiting(queue, a, t) == {p \in queue : p.call.agent = a /\ p.call.tool = t}

Requested(a, t) == About({"approval_requested"}, a, t)
Answered(a, t)  == About({"approved_by", "denied_by"}, a, t)

Conserved(log, from, queue, a, t) ==
  Tally(log, from, Requested(a, t)) =
    Tally(log, from, Answered(a, t)) + Cardinality(Waiting(queue, a, t))

QueueInv == MarkInLog /\ IsFiniteSet(pending) /\ ApprovalsConserved

LEMMA ConservedMeans ==
  ASSUME NEW log \in Seq(AuditEntry), NEW from \in Nat, NEW queue, NEW a, NEW t
  PROVE  Conserved(log, from, queue, a, t) <=>
           Cardinality({i \in from + 1 .. Len(log) :
                          /\ log[i].event \in {"approval_requested"}
                          /\ log[i].actor = a
                          /\ log[i].tool = t}) =
           Cardinality({i \in from + 1 .. Len(log) :
                          /\ log[i].event \in {"approved_by", "denied_by"}
                          /\ log[i].actor = a
                          /\ log[i].tool = t}) +
           Cardinality({p \in queue : p.call.agent = a /\ p.call.tool = t})
<1>1. /\ Cardinality({i \in from + 1 .. Len(log) :
                        /\ log[i].event \in {"approval_requested"}
                        /\ log[i].actor = a
                        /\ log[i].tool = t}) = Tally(log, from, Requested(a, t))
      /\ Cardinality({i \in from + 1 .. Len(log) :
                        /\ log[i].event \in {"approved_by", "denied_by"}
                        /\ log[i].actor = a
                        /\ log[i].tool = t}) = Tally(log, from, Answered(a, t))
  BY LoggedIsTally DEF Requested, Answered
<1>. QED
  BY <1>1 DEF Conserved, Waiting

LEMMA WaitingFinite ==
  ASSUME NEW queue, IsFiniteSet(queue), NEW a, NEW t
  PROVE  IsFiniteSet(Waiting(queue, a, t)) /\ Cardinality(Waiting(queue, a, t)) \in Nat
<1>1. Waiting(queue, a, t) \in SUBSET queue
  BY DEF Waiting
<1>. QED
  BY <1>1, FS_Subset, FS_CardinalityType

\* Queueing a request adds one to those waiting for its call, and only to those.
LEMMA WaitingAdd ==
  ASSUME NEW queue, IsFiniteSet(queue), NEW a, NEW t, NEW p, p \notin queue
  PROVE  /\ IsFiniteSet(queue \cup {p})
         /\ Cardinality(Waiting(queue \cup {p}, a, t)) =
              Cardinality(Waiting(queue, a, t)) +
              (IF p.call.agent = a /\ p.call.tool = t THEN 1 ELSE 0)
<1>1. IsFiniteSet(queue \cup {p})
  BY FS_AddElement
<1>2. IsFiniteSet(Waiting(queue, a, t)) /\ Cardinality(Waiting(queue, a, t)) \in Nat
  BY WaitingFinite
<1>3. CASE p.call.agent = a /\ p.call.tool = t
  <2>1. Waiting(queue \cup {p}, a, t) = Waiting(queue, a, t) \cup {p}
    BY <1>3 DEF Waiting
  <2>2. p \notin Waiting(queue, a, t)
    BY DEF Waiting
  <2>3. Cardinality(Waiting(queue, a, t) \cup {p}) = Cardinality(Waiting(queue, a, t)) + 1
    BY <1>2, <2>2, FS_AddElement
  <2>. QED
    BY <1>1, <1>3, <2>1, <2>3
<1>4. CASE ~(p.call.agent = a /\ p.call.tool = t)
  <2>1. Waiting(queue \cup {p}, a, t) = Waiting(queue, a, t)
    BY <1>4 DEF Waiting
  <2>. QED
    BY <1>1, <1>2, <1>4, <2>1
<1>. QED
  BY <1>3, <1>4

\* Taking a request out of the queue is the reverse.
LEMMA WaitingRemove ==
  ASSUME NEW queue, IsFiniteSet(queue), NEW a, NEW t, NEW p \in queue
  PROVE  /\ IsFiniteSet(queue \ {p})
         /\ Cardinality(Waiting(queue, a, t)) =
              Cardinality(Waiting(queue \ {p}, a, t)) +
              (IF p.call.agent = a /\ p.call.tool = t THEN 1 ELSE 0)
<1>1. IsFiniteSet(queue \ {p})
  BY FS_RemoveElement
<1>2. (queue \ {p}) \cup {p} = queue /\ p \notin queue \ {p}
  OBVIOUS
<1>3. Cardinality(Waiting((queue \ {p}) \cup {p}, a, t)) =
        Cardinality(Waiting(queue \ {p}, a, t)) +
        (IF p.call.agent = a /\ p.call.tool = t THEN 1 ELSE 0)
  BY <1>1, <1>2, WaitingAdd
<1>. QED
  BY <1>1, <1>2, <1>3

LEMMA AboutEntry ==
  ASSUME NEW actor, NEW event, NEW tool, Entry(actor, event, tool) \in AuditEntry,
         NEW events, NEW a, NEW t
  PROVE  Entry(actor, event, tool) \in About(events, a, t) <=>
           event \in events /\ actor = a /\ tool = t
BY DEF Entry, About

LEMMA NoAttributionCounted ==
  ASSUME NEW a, NEW t
  PROVE  /\ \A d \in Requested(a, t) : d.event # "delegated_by"
         /\ \A d \in Answered(a, t) : d.event # "delegated_by"
BY DEF Requested, Answered, About

\* A logged step balances when the queue changes by what the entry says.
LEMMA ConservedBooked ==
  ASSUME TypeOK, MarkInLog, NEW before, NEW e, Logs(before, e), NEW a, NEW t,
         Conserved(audit_log, boot_mark, pending, a, t),
         Cardinality(Waiting(pending, a, t)) \in Nat,
         Cardinality(Waiting(pending', a, t)) \in Nat,
         Cardinality(Waiting(pending', a, t)) + (IF e \in Answered(a, t) THEN 1 ELSE 0) =
         Cardinality(Waiting(pending, a, t)) + (IF e \in Requested(a, t) THEN 1 ELSE 0)
  PROVE  Conserved(audit_log', boot_mark, pending', a, t)
<1>1. /\ Tally(audit_log, boot_mark, Requested(a, t)) \in Nat
      /\ Tally(audit_log', boot_mark, Requested(a, t)) =
           Tally(audit_log, boot_mark, Requested(a, t)) +
           (IF e \in Requested(a, t) THEN 1 ELSE 0)
  BY Booked, NoAttributionCounted DEF MarkInLog
<1>2. /\ Tally(audit_log, boot_mark, Answered(a, t)) \in Nat
      /\ Tally(audit_log', boot_mark, Answered(a, t)) =
           Tally(audit_log, boot_mark, Answered(a, t)) +
           (IF e \in Answered(a, t) THEN 1 ELSE 0)
  BY Booked, NoAttributionCounted DEF MarkInLog
<1>. QED
  BY <1>1, <1>2 DEF Conserved

\* An entry that neither asks for an approval nor answers one.
LEMMA ConservedBystander ==
  ASSUME TypeOK, MarkInLog, IsFiniteSet(pending), UNCHANGED pending,
         NEW actor, NEW event, NEW tool, NEW before, NEW a, NEW t,
         Logs(before, Entry(actor, event, tool)),
         event \notin {"approval_requested", "approved_by", "denied_by"},
         Conserved(audit_log, boot_mark, pending, a, t)
  PROVE  Conserved(audit_log', boot_mark, pending', a, t)
<1>. DEFINE e == Entry(actor, event, tool)
<1>1. e \notin Answered(a, t) /\ e \notin Requested(a, t)
  BY AboutEntry DEF Answered, Requested, Logs
<1>2. Cardinality(Waiting(pending, a, t)) \in Nat
  BY WaitingFinite
<1>. HIDE DEF e
<1>3. Logs(before, e)
  BY DEF e
<1>. QED
  BY <1>1, <1>2, <1>3, ConservedBooked

LEMMA ConservedStep ==
  ASSUME TypeOK, TypeOK', CardsMatchQueue, MarkInLog, IsFiniteSet(pending), Next,
         NEW a, NEW t, Conserved(audit_log, boot_mark, pending, a, t)
  PROVE  Conserved(audit_log', boot_mark', pending', a, t) /\ IsFiniteSet(pending')
<1>1. CASE Refusing
  <2>1. PICK actor \in Agents, event \in Refusals, tool \in Tools \cup {"none"},
             before \in Attributions :
               /\ Logs(before, Entry(actor, event, tool))
               /\ UNCHANGED <<pending, boot_mark>>
    BY <1>1, RefusingLogs DEF history
  <2>2. event \notin {"approval_requested", "approved_by", "denied_by"}
    BY DEF Refusals
  <2>. QED
    BY <2>1, <2>2, ConservedBystander
<1>2. CASE Admitting
  <2>1. PICK grant \in Grants, call \in Calls, policy \in Policies \cup {NoPolicy},
             by \in Agents, before \in Attributions :
               \/ AdmitAuto(grant, call, policy, by, before)
               \/ AdmitReview(grant, call, policy, by, before)
    BY <1>2 DEF Admitting
  <2>2. CASE AdmitAuto(grant, call, policy, by, before)
    BY <2>2, AutoLogs, ConservedBystander
  <2>3. CASE AdmitReview(grant, call, policy, by, before)
    <3>. DEFINE e == Entry(call.agent, "approval_requested", call.tool)
    <3>1. Logs(before, e) /\ boot_mark' = boot_mark
      BY <2>3, ReviewLogs
    <3>2. PICK p : p.call = call /\ p \notin pending /\ pending' = pending \cup {p}
      BY <2>3, ReviewLogs
    <3>3. /\ e \in Requested(a, t) <=> call.agent = a /\ call.tool = t
          /\ e \notin Answered(a, t)
      BY <3>1, AboutEntry DEF Requested, Answered, Logs
    <3>4. /\ IsFiniteSet(pending')
          /\ Cardinality(Waiting(pending', a, t)) =
               Cardinality(Waiting(pending, a, t)) +
               (IF call.agent = a /\ call.tool = t THEN 1 ELSE 0)
      BY <3>2, WaitingAdd
    <3>5. Cardinality(Waiting(pending, a, t)) \in Nat
      BY WaitingFinite
    <3>. HIDE DEF e
    <3>6. Conserved(audit_log', boot_mark, pending', a, t)
      BY <3>1, <3>3, <3>4, <3>5, ConservedBooked
    <3>. QED
      BY <3>1, <3>4, <3>6
  <2>. QED
    BY <2>1, <2>2, <2>3
<1>3. ASSUME NEW card \in cards, NEW approved \in BOOLEAN, resolve(card, approved)
      PROVE  Conserved(audit_log', boot_mark', pending', a, t) /\ IsFiniteSet(pending')
  <2>1. boot_mark' = boot_mark
    BY <1>3, ResolveLogs
  <2>2. PICK p \in pending, event \in {"approved_by", "denied_by"} :
               /\ pending' = pending \ {p}
               /\ Logs(<<>>, Entry(p.call.agent, event, p.call.tool))
    BY <1>3, ResolveLogs
  <2>. DEFINE e == Entry(p.call.agent, event, p.call.tool)
  <2>3. /\ e \in Answered(a, t) <=> p.call.agent = a /\ p.call.tool = t
        /\ e \notin Requested(a, t)
    BY <2>2, AboutEntry DEF Requested, Answered, Logs
  <2>4. /\ IsFiniteSet(pending')
        /\ Cardinality(Waiting(pending, a, t)) =
             Cardinality(Waiting(pending', a, t)) +
             (IF p.call.agent = a /\ p.call.tool = t THEN 1 ELSE 0)
    BY <2>2, WaitingRemove
  <2>5. /\ Cardinality(Waiting(pending, a, t)) \in Nat
        /\ Cardinality(Waiting(pending', a, t)) \in Nat
    BY <2>4, WaitingFinite
  <2>6. Logs(<<>>, e)
    BY <2>2
  <2>. HIDE DEF e
  <2>7. Conserved(audit_log', boot_mark, pending', a, t)
    BY <2>3, <2>4, <2>5, <2>6, ConservedBooked
  <2>. QED
    BY <2>1, <2>4, <2>7
<1>4. CASE Record
  <2>1. running \in Running
    BY <1>4 DEF Record, TypeOK
  <2>2. Entry(running.call.agent, "executed", running.call.tool) \in AuditEntry
    BY <2>1, EntryType, EventNames DEF Running, Calls
  <2>3. /\ Logs(<<>>, Entry(running.call.agent, "executed", running.call.tool))
        /\ UNCHANGED <<pending, boot_mark>>
    BY <1>4, <2>2, AppendLogs DEF Record
  <2>. QED
    BY <2>3, ConservedBystander
<1>5. CASE UNCHANGED <<audit_log, boot_mark, pending>>
  BY <1>5
<1>6. CASE CrashRestart
  <2>1. /\ audit_log' = audit_log /\ boot_mark' = Len(audit_log) /\ pending' = {}
        /\ Len(audit_log) \in Nat
    BY <1>6 DEF CrashRestart, TypeOK
  <2>2. boot_mark' = Len(audit_log') /\ boot_mark' \in Nat
    BY <2>1
  <2>3. \A M : Tally(audit_log', boot_mark', M) = 0
    BY <2>2, TallyNothing
  <2>4. Waiting(pending', a, t) = {}
    BY <2>1 DEF Waiting
  <2>5. Cardinality(Waiting(pending', a, t)) = 0 /\ IsFiniteSet(pending')
    BY <2>1, <2>4, FS_EmptySet
  <2>6. /\ Tally(audit_log', boot_mark', Requested(a, t)) = 0
        /\ Tally(audit_log', boot_mark', Answered(a, t)) = 0
    BY <2>3
  <2>. QED
    BY <2>5, <2>6 DEF Conserved
<1>7. World \/ (\E tokens \in TokenCosts : Execute(tokens))
        => UNCHANGED <<audit_log, boot_mark, pending>>
  BY DEF World, InsertGrant, RemoveAgent, Tick, Execute, process, history
<1>. QED
  BY <1>1, <1>2, <1>3, <1>4, <1>5, <1>6, <1>7, StepShapes

\* The log only grows, so a mark in it stays in it.
LEMMA MarkStep ==
  ASSUME TypeOK, CardsMatchQueue, MarkInLog, [Next]_vars
  PROVE  MarkInLog'
<1>1. ASSUME NEW before, NEW e, Logs(before, e), boot_mark' = boot_mark PROVE MarkInLog'
  <2>1. boot_mark <= Len(audit_log') /\ boot_mark \in Nat
    <3>. DEFINE M == {}
    <3>1. \A d \in M : d.event # "delegated_by"
      OBVIOUS
    <3>. HIDE DEF M
    <3>. QED
      BY <1>1, <3>1, Booked DEF MarkInLog
  <2>. QED
    BY <1>1, <2>1 DEF MarkInLog
<1>2. CASE Refusing
  BY <1>1, <1>2, RefusingLogs DEF history
<1>3. CASE Admitting
  BY <1>1, <1>3, AutoLogs, ReviewLogs DEF Admitting
<1>4. ASSUME NEW card \in cards, NEW approved \in BOOLEAN, resolve(card, approved)
      PROVE  MarkInLog'
  BY <1>1, <1>4, ResolveLogs
<1>5. CASE Record
  <2>1. running \in Running
    BY <1>5 DEF Record, TypeOK
  <2>2. Entry(running.call.agent, "executed", running.call.tool) \in AuditEntry
    BY <2>1, EntryType, EventNames DEF Running, Calls
  <2>. QED
    BY <1>1, <1>5, <2>2, AppendLogs DEF Record
<1>6. CASE UNCHANGED <<audit_log, boot_mark>>
  BY <1>6 DEF MarkInLog
<1>7. CASE CrashRestart
  BY <1>7 DEF CrashRestart, MarkInLog, TypeOK
<1>8. World \/ (\E tokens \in TokenCosts : Execute(tokens)) \/ UNCHANGED vars
        => UNCHANGED <<audit_log, boot_mark>>
  BY DEF World, InsertGrant, RemoveAgent, Tick, Execute, vars, history
<1>. QED
  BY <1>2, <1>3, <1>4, <1>5, <1>6, <1>7, <1>8, StepShapes

LEMMA PendingFinite ==
  ASSUME TypeOK, CardsMatchQueue, IsFiniteSet(pending), [Next]_vars
  PROVE  IsFiniteSet(pending')
<1>1. CASE UNCHANGED pending
  BY <1>1
<1>2. CASE Admitting
  <2>1. ASSUME NEW grant \in Grants, NEW call \in Calls, NEW policy, NEW by \in Agents,
               NEW before \in Attributions, AdmitReview(grant, call, policy, by, before)
        PROVE  IsFiniteSet(pending')
    <3>1. PICK p : pending' = pending \cup {p}
      BY <2>1, ReviewLogs
    <3>. QED
      BY <3>1, FS_AddElement
  <2>. QED
    BY <1>1, <1>2, <2>1, AutoLogs DEF Admitting
<1>3. ASSUME NEW card \in cards, NEW approved \in BOOLEAN, resolve(card, approved)
      PROVE  IsFiniteSet(pending')
  BY <1>3, ResolveLogs, FS_RemoveElement
<1>4. CASE CrashRestart
  BY <1>4, FS_EmptySet DEF CrashRestart
<1>5. Refusing \/ World \/ Record \/ (\E tokens \in TokenCosts : Execute(tokens)) \/ UNCHANGED vars
        => UNCHANGED pending
  BY DEF Refusing, Refuse, World, InsertGrant, RemoveAgent, Tick, Execute, Record,
         vars, process
<1>. QED
  BY <1>1, <1>2, <1>3, <1>4, <1>5, StepShapes

LEMMA QueueStep ==
  ASSUME TypeOK, TypeOK', ShownInv, QueueInv, [Next]_vars
  PROVE  QueueInv'
<1>1. CardsMatchQueue /\ MarkInLog /\ IsFiniteSet(pending)
  BY DEF ShownInv, QueueInv
<1>2. MarkInLog'
  BY <1>1, MarkStep
<1>3. CASE UNCHANGED vars
  BY <1>2, <1>3 DEF QueueInv, ApprovalsConserved, Logged, vars, process, history
<1>4. CASE Next
  <2>1. /\ audit_log \in Seq(AuditEntry) /\ boot_mark \in Nat
        /\ audit_log' \in Seq(AuditEntry) /\ boot_mark' \in Nat
    BY DEF TypeOK
  <2>2. ASSUME NEW a \in Agents, NEW t \in Tools
        PROVE  Conserved(audit_log', boot_mark', pending', a, t) /\ IsFiniteSet(pending')
    <3>1. Conserved(audit_log, boot_mark, pending, a, t)
      BY <2>1, ConservedMeans DEF QueueInv, ApprovalsConserved, Logged
    <3>. QED
      BY <1>1, <1>4, <3>1, ConservedStep
  <2>3. IsFiniteSet(pending')
    BY <1>1, <1>4, PendingFinite
  <2>4. ApprovalsConserved'
    BY <2>1, <2>2, ConservedMeans DEF ApprovalsConserved, Logged
  <2>. QED
    BY <1>2, <2>3, <2>4 DEF QueueInv
<1>. QED
  BY <1>3, <1>4

LEMMA QueueCorrect == Spec => []QueueInv
<1>1. Init => QueueInv
  <2>. SUFFICES ASSUME Init PROVE QueueInv
    OBVIOUS
  <2>1. audit_log \in Seq(AuditEntry) /\ boot_mark = 0 /\ Len(audit_log) = 0 /\ pending = {}
    BY DEF Init
  <2>2. IsFiniteSet(pending) /\ MarkInLog
    BY <2>1, FS_EmptySet DEF MarkInLog
  <2>3. ASSUME NEW a \in Agents, NEW t \in Tools
        PROVE  Conserved(audit_log, boot_mark, pending, a, t)
    <3>1. Waiting(pending, a, t) = {}
      BY <2>1 DEF Waiting
    <3>2. Cardinality(Waiting(pending, a, t)) = 0
      BY <3>1, FS_EmptySet
    <3>3. /\ Tally(audit_log, boot_mark, Requested(a, t)) = 0
          /\ Tally(audit_log, boot_mark, Answered(a, t)) = 0
      BY <2>1, TallyNothing
    <3>. QED
      BY <3>2, <3>3 DEF Conserved
  <2>4. audit_log \in Seq(AuditEntry) /\ boot_mark \in Nat
    BY <2>1
  <2>5. ApprovalsConserved
    BY <2>3, <2>4, ConservedMeans DEF ApprovalsConserved, Logged
  <2>. QED
    BY <2>2, <2>5 DEF QueueInv
<1>2. TypeOK /\ TypeOK' /\ ShownInv /\ QueueInv /\ [Next]_vars => QueueInv'
  BY QueueStep
<1>. QED
  BY <1>1, <1>2, TypeCorrect, ShownCorrect, PTL DEF Spec

(* Within one process no approval request is lost, answered twice or conjured
   up: the requests logged since the start are those pending and those decided
   (mediate, resolve and restarts), for any number of agents, tools, repeated
   answers and crashes. *)
THEOREM ApprovalsBalance == Spec => []ApprovalsConserved
<1>1. QueueInv => ApprovalsConserved
  BY DEF QueueInv
<1>. QED
  BY <1>1, QueueCorrect, PTL

-----------------------------------------------------------------------------
(* The metrics agree with the log.                                         *)

\* The entries an outcome counter counts.
Counted(o) == {e \in AuditEntry : OutcomeOf(e.event) = o}

Counters(counts, log, from) == \A o \in Outcomes : counts[o] = Tally(log, from, Counted(o))

Gauge == running = Idle => metrics.pending = Cardinality(pending)

LEMMA CountersMean ==
  ASSUME NEW log \in Seq(AuditEntry), NEW from \in Nat, NEW counts
  PROVE  Counters(counts, log, from) <=>
           \A o \in Outcomes :
             counts[o] = Cardinality({i \in from + 1 .. Len(log) :
                                        OutcomeOf(log[i].event) = o})
<1>1. ASSUME NEW o
      PROVE  Cardinality({i \in from + 1 .. Len(log) : OutcomeOf(log[i].event) = o})
             = Tally(log, from, Counted(o))
  <2>1. \A i \in from + 1 .. Len(log) : log[i] \in AuditEntry
    OBVIOUS
  <2>2. {i \in from + 1 .. Len(log) : OutcomeOf(log[i].event) = o}
        = {i \in from + 1 .. Len(log) : log[i] \in Counted(o)}
    BY <2>1 DEF Counted
  <2>. QED
    BY <2>2 DEF Tally
<1>. QED
  BY <1>1 DEF Counters

LEMMA OtherOutcomes ==
  /\ OutcomeOf("delegated_by") = "uncounted"
  /\ OutcomeOf("auto_allowed") = "uncounted"
  /\ OutcomeOf("approved_by") = "uncounted"
  /\ OutcomeOf("approval_requested") = "review"
  /\ OutcomeOf("denied_by") = "denied_human"
  /\ OutcomeOf("executed") = "executed"
  /\ "uncounted" \notin Outcomes
BY DEF OutcomeOf, Outcomes

\* An entry is counted when, and only when, the step records its outcome.
LEMMA CountersBooked ==
  ASSUME TypeOK, MarkInLog, NEW before, NEW actor, NEW event, NEW tool,
         Logs(before, Entry(actor, event, tool)),
         Counters(metrics.actions, audit_log, boot_mark), NEW queue,
         \/ OutcomeOf(event) \in Outcomes /\ record_outcome(OutcomeOf(event), queue)
         \/ OutcomeOf(event) = "uncounted" /\ UNCHANGED metrics
  PROVE  Counters(metrics'.actions, audit_log', boot_mark)
<1>. SUFFICES ASSUME NEW o \in Outcomes
              PROVE  metrics'.actions[o] = Tally(audit_log', boot_mark, Counted(o))
  BY DEF Counters
<1>. DEFINE e == Entry(actor, event, tool)
<1>1. e \in AuditEntry /\ e.event = event
  BY DEF Logs, Entry
<1>2. e \in Counted(o) <=> OutcomeOf(event) = o
  BY <1>1 DEF Counted
<1>3. \A d \in Counted(o) : d.event # "delegated_by"
  BY OtherOutcomes DEF Counted
<1>4. Logs(before, e)
  OBVIOUS
<1>. HIDE DEF e
<1>5. /\ Tally(audit_log, boot_mark, Counted(o)) \in Nat
      /\ Tally(audit_log', boot_mark, Counted(o)) =
           Tally(audit_log, boot_mark, Counted(o)) + (IF e \in Counted(o) THEN 1 ELSE 0)
  BY <1>3, <1>4, Booked DEF MarkInLog
<1>6. metrics.actions[o] = Tally(audit_log, boot_mark, Counted(o))
  BY DEF Counters
<1>7. metrics.actions \in [Outcomes -> Nat]
  BY DEF TypeOK
<1>8. metrics'.actions[o] = metrics.actions[o] + (IF OutcomeOf(event) = o THEN 1 ELSE 0)
  <2>1. CASE OutcomeOf(event) \in Outcomes /\ record_outcome(OutcomeOf(event), queue)
    BY <1>7, <2>1 DEF record_outcome
  <2>2. CASE OutcomeOf(event) = "uncounted" /\ UNCHANGED metrics
    BY <1>7, <2>2, OtherOutcomes
  <2>. QED
    BY <2>1, <2>2
<1>. QED
  BY <1>2, <1>5, <1>6, <1>8

LEMMA RefusalCounted ==
  ASSUME NEW event \in Refusals
  PROVE  OutcomeOf(event) \in Outcomes
BY RefusalOutcomes DEF Refusals, Outcomes

LEMMA CountersStep ==
  ASSUME TypeOK, CardsMatchQueue, MarkInLog, Next,
         Counters(metrics.actions, audit_log, boot_mark), Gauge
  PROVE  Counters(metrics'.actions, audit_log', boot_mark') /\ Gauge'
<1>1. CASE Refusing
  <2>1. PICK actor \in Agents, event \in Refusals, tool \in Tools \cup {"none"},
             before \in Attributions :
               /\ Logs(before, Entry(actor, event, tool))
               /\ record_outcome(OutcomeOf(event), pending)
               /\ UNCHANGED <<pending, boot_mark>>
    BY <1>1, RefusingLogs DEF history
  <2>2. Counters(metrics'.actions, audit_log', boot_mark)
    BY <2>1, RefusalCounted, CountersBooked
  <2>3. Gauge'
    BY <2>1 DEF Gauge, record_outcome
  <2>. QED
    BY <2>1, <2>2, <2>3
<1>2. CASE Admitting
  <2>1. PICK grant \in Grants, call \in Calls, policy \in Policies \cup {NoPolicy},
             by \in Agents, before \in Attributions :
               \/ AdmitAuto(grant, call, policy, by, before)
               \/ AdmitReview(grant, call, policy, by, before)
    BY <1>2 DEF Admitting
  <2>2. CASE AdmitAuto(grant, call, policy, by, before)
    <3>1. /\ Logs(before, Entry(call.agent, "auto_allowed", call.tool))
          /\ running' # Idle /\ UNCHANGED <<metrics, boot_mark>>
      BY <2>2, AutoLogs
    <3>2. Counters(metrics'.actions, audit_log', boot_mark)
      BY <3>1, OtherOutcomes, CountersBooked
    <3>. QED
      BY <3>1, <3>2 DEF Gauge
  <2>3. CASE AdmitReview(grant, call, policy, by, before)
    <3>1. Logs(before, Entry(call.agent, "approval_requested", call.tool))
          /\ boot_mark' = boot_mark
      BY <2>3, ReviewLogs
    <3>2. PICK p : /\ pending' = pending \cup {p}
                   /\ record_outcome("review", pending \cup {p})
      BY <2>3, ReviewLogs
    <3>3. "review" \in Outcomes
      BY DEF Outcomes
    <3>4. Counters(metrics'.actions, audit_log', boot_mark)
      BY <3>1, <3>2, <3>3, OtherOutcomes, CountersBooked
    <3>5. Gauge'
      BY <3>2 DEF Gauge, record_outcome
    <3>. QED
      BY <3>1, <3>4, <3>5
  <2>. QED
    BY <2>1, <2>2, <2>3
<1>3. ASSUME NEW card \in cards, NEW approved \in BOOLEAN, resolve(card, approved)
      PROVE  Counters(metrics'.actions, audit_log', boot_mark') /\ Gauge'
  <2>1. boot_mark' = boot_mark
    BY <1>3, ResolveLogs
  <2>2. PICK p \in pending :
          /\ pending' = pending \ {p}
          /\ \/ /\ Logs(<<>>, Entry(p.call.agent, "approved_by", p.call.tool))
                /\ running' # Idle
                /\ UNCHANGED metrics
             \/ /\ Logs(<<>>, Entry(p.call.agent, "denied_by", p.call.tool))
                /\ record_outcome("denied_human", pending \ {p})
    BY <1>3, ResolveLogs
  <2>3. "denied_human" \in Outcomes
    BY DEF Outcomes
  <2>4. Counters(metrics'.actions, audit_log', boot_mark)
    BY <2>2, <2>3, OtherOutcomes, CountersBooked
  <2>5. Gauge'
    BY <2>2 DEF Gauge, record_outcome
  <2>. QED
    BY <2>1, <2>4, <2>5
<1>4. CASE Record
  <2>1. running \in Running
    BY <1>4 DEF Record, TypeOK
  <2>2. Entry(running.call.agent, "executed", running.call.tool) \in AuditEntry
    BY <2>1, EntryType, EventNames DEF Running, Calls
  <2>3. /\ Logs(<<>>, Entry(running.call.agent, "executed", running.call.tool))
        /\ record_outcome("executed", pending)
        /\ UNCHANGED <<pending, boot_mark>>
    BY <1>4, <2>2, AppendLogs DEF Record
  <2>4. "executed" \in Outcomes
    BY DEF Outcomes
  <2>5. Counters(metrics'.actions, audit_log', boot_mark)
    BY <2>3, <2>4, OtherOutcomes, CountersBooked
  <2>6. Gauge'
    BY <2>3 DEF Gauge, record_outcome
  <2>. QED
    BY <2>3, <2>5, <2>6
<1>5. CASE UNCHANGED <<audit_log, boot_mark, pending, metrics>> /\ (running' = Idle => running = Idle)
  BY <1>5 DEF Gauge
<1>6. CASE CrashRestart
  <2>1. /\ boot_mark' = Len(audit_log') /\ boot_mark' \in Nat
        /\ metrics' = NoMetrics /\ pending' = {}
    BY <1>6 DEF CrashRestart, TypeOK
  <2>2. \A o \in Outcomes : metrics'.actions[o] = 0
    BY <2>1 DEF NoMetrics
  <2>3. \A o : Tally(audit_log', boot_mark', Counted(o)) = 0
    BY <2>1, TallyNothing
  <2>4. Cardinality(pending') = 0 /\ metrics'.pending = 0
    BY <2>1, FS_EmptySet DEF NoMetrics
  <2>. QED
    BY <2>2, <2>3, <2>4 DEF Counters, Gauge
<1>7. World => UNCHANGED <<audit_log, boot_mark, pending, metrics, running>>
  BY DEF World, InsertGrant, RemoveAgent, Tick, process, history
<1>8. ASSUME NEW tokens \in TokenCosts, Execute(tokens)
      PROVE  UNCHANGED <<audit_log, boot_mark, pending, metrics>> /\ running' # Idle
  <2>1. running \in Running
    BY <1>8 DEF Execute, TypeOK
  <2>2. tokens \in 0..U64Max
    BY GatewayAssumption DEF GatewayAssumption
  <2>3. running' \in Running
    BY <1>8, <2>1, <2>2 DEF Execute, Running
  <2>. QED
    BY <1>8, <2>3, IdleAssumption DEF Execute
<1>. QED
  BY <1>1, <1>2, <1>3, <1>4, <1>5, <1>6, <1>7, <1>8, StepShapes

LEMMA MetricsMean ==
  ASSUME TypeOK
  PROVE  MetricsAgreeWithAudit <=> Counters(metrics.actions, audit_log, boot_mark) /\ Gauge
<1>1. audit_log \in Seq(AuditEntry) /\ boot_mark \in Nat
  BY DEF TypeOK
<1>. QED
  BY <1>1, CountersMean DEF MetricsAgreeWithAudit, Gauge

LEMMA MetricsMeanNext ==
  ASSUME TypeOK'
  PROVE  MetricsAgreeWithAudit' <=> Counters(metrics'.actions, audit_log', boot_mark') /\ Gauge'
<1>1. audit_log' \in Seq(AuditEntry) /\ boot_mark' \in Nat
  BY DEF TypeOK
<1>. QED
  BY <1>1, CountersMean DEF MetricsAgreeWithAudit, Gauge

(* Every outcome counter is the number of entries of that outcome since the
   process started, and between operations the pending gauge is the length of
   the queue: what an operator alerts on (record_outcome) is what the audit
   log shows, whatever is refused, queued, answered, run or lost in a crash. *)
THEOREM MetricsAgree == Spec => []MetricsAgreeWithAudit
<1>1. Init => MetricsAgreeWithAudit
  <2>. SUFFICES ASSUME Init PROVE MetricsAgreeWithAudit
    OBVIOUS
  <2>1. /\ boot_mark = Len(audit_log) /\ boot_mark \in Nat
        /\ metrics = NoMetrics /\ pending = {}
    BY DEF Init
  <2>2. \A o \in Outcomes : metrics.actions[o] = 0
    BY <2>1 DEF NoMetrics
  <2>3. \A o : Tally(audit_log, boot_mark, Counted(o)) = 0
    BY <2>1, TallyNothing
  <2>4. Cardinality(pending) = 0 /\ metrics.pending = 0
    BY <2>1, FS_EmptySet DEF NoMetrics
  <2>. QED
    BY <2>2, <2>3, <2>4, TypeInit, MetricsMean DEF Counters, Gauge
<1>2. TypeOK /\ TypeOK' /\ ShownInv /\ QueueInv /\ MetricsAgreeWithAudit /\ [Next]_vars
        => MetricsAgreeWithAudit'
  <2>. SUFFICES ASSUME TypeOK, TypeOK', ShownInv, QueueInv, MetricsAgreeWithAudit,
                       [Next]_vars
                PROVE  MetricsAgreeWithAudit'
    OBVIOUS
  <2>1. CASE UNCHANGED vars
    BY <2>1 DEF MetricsAgreeWithAudit, vars, process, history
  <2>2. CASE Next
    BY <2>2, MetricsMean, MetricsMeanNext, CountersStep DEF ShownInv, QueueInv
  <2>. QED
    BY <2>1, <2>2
<1>. QED
  BY <1>1, <1>2, TypeCorrect, ShownCorrect, QueueCorrect, PTL DEF Spec

-----------------------------------------------------------------------------
(* The log accounts for what the tools did.                                *)

Authorised(a, t) == About({"auto_allowed", "approved_by"}, a, t)
Reported(a, t)   == About({"executed"}, a, t)

DoneAt(log, a, t) == {i \in DOMAIN log : log[i].call.agent = a /\ log[i].call.tool = t}
Done(log, a, t)   == Cardinality(DoneAt(log, a, t))

\* A tool runs for this agent and tool, in this phase.
Busy(run, phase, a, t) ==
  /\ run # Idle
  /\ run.phase = phase
  /\ run.call.agent = a /\ run.call.tool = t

One(b) == IF b THEN 1 ELSE 0

(* The books of one agent and tool: a call about to run is authorised and not
   done, a call about to be recorded is done and not reported, and each crash
   leaves at most one authorised call unreported. *)
Books(log, done, run, crashes, a, t) ==
  /\ Tally(log, 0, Reported(a, t)) + One(Busy(run, "record", a, t)) <= Done(done, a, t)
  /\ Done(done, a, t) + One(Busy(run, "execute", a, t)) <= Tally(log, 0, Authorised(a, t))
  /\ Tally(log, 0, Authorised(a, t)) <=
       Tally(log, 0, Reported(a, t)) + crashes +
       One(Busy(run, "record", a, t)) + One(Busy(run, "execute", a, t))

LEMMA DoneType ==
  ASSUME NEW log \in Seq(Executed), NEW a, NEW t
  PROVE  Done(log, a, t) \in Nat /\ IsFiniteSet(DoneAt(log, a, t))
<1>1. DOMAIN log = 1 .. Len(log) /\ Len(log) \in Nat
  OBVIOUS
<1>2. IsFiniteSet(DOMAIN log)
  BY <1>1, FS_Interval
<1>3. DoneAt(log, a, t) \in SUBSET DOMAIN log
  BY DEF DoneAt
<1>. QED
  BY <1>2, <1>3, FS_Subset, FS_CardinalityType DEF Done

LEMMA DoneAppend ==
  ASSUME NEW log \in Seq(Executed), NEW e \in Executed, NEW a, NEW t
  PROVE  Done(Append(log, e), a, t) =
           Done(log, a, t) + One(e.call.agent = a /\ e.call.tool = t)
<1>. DEFINE S == DoneAt(log, a, t)
            new == Append(log, e)
            T == DoneAt(new, a, t)
<1>1. IsFiniteSet(S) /\ Cardinality(S) \in Nat
  BY DoneType DEF Done
<1>2. Done(log, a, t) = Cardinality(S) /\ Done(new, a, t) = Cardinality(T)
  BY DEF Done
<1>3. /\ DOMAIN new = DOMAIN log \cup {Len(log) + 1} /\ Len(log) + 1 \notin DOMAIN log
      /\ \A i \in DOMAIN log : new[i] = log[i]
      /\ new[Len(log) + 1] = e
  OBVIOUS
<1>. HIDE DEF new
<1>4. CASE e.call.agent = a /\ e.call.tool = t
  <2>1. T = S \cup {Len(log) + 1} /\ Len(log) + 1 \notin S
    BY <1>3, <1>4 DEF DoneAt
  <2>. HIDE DEF S, T
  <2>2. Cardinality(T) = Cardinality(S) + 1
    BY <1>1, <2>1, FS_AddElement
  <2>. QED
    BY <1>2, <1>4, <2>2 DEF One, new
<1>5. CASE ~(e.call.agent = a /\ e.call.tool = t)
  <2>1. T = S
    BY <1>3, <1>5 DEF DoneAt
  <2>. HIDE DEF S, T
  <2>. QED
    BY <1>1, <1>2, <1>5, <2>1 DEF One, new
<1>. QED
  BY <1>4, <1>5

LEMMA NoAttributionAuthorises ==
  ASSUME NEW a, NEW t
  PROVE  /\ \A d \in Authorised(a, t) : d.event # "delegated_by"
         /\ \A d \in Reported(a, t) : d.event # "delegated_by"
BY DEF Authorised, Reported, About

\* How an entry moves the books of its agent and tool.
LEMMA TalliesBooked ==
  ASSUME TypeOK, NEW before, NEW actor, NEW event, NEW tool, NEW a, NEW t,
         Logs(before, Entry(actor, event, tool))
  PROVE  /\ Tally(audit_log, 0, Authorised(a, t)) \in Nat
         /\ Tally(audit_log, 0, Reported(a, t)) \in Nat
         /\ Tally(audit_log', 0, Authorised(a, t)) =
              Tally(audit_log, 0, Authorised(a, t)) +
              One(event \in {"auto_allowed", "approved_by"} /\ actor = a /\ tool = t)
         /\ Tally(audit_log', 0, Reported(a, t)) =
              Tally(audit_log, 0, Reported(a, t)) +
              One(event = "executed" /\ actor = a /\ tool = t)
<1>. DEFINE e == Entry(actor, event, tool)
<1>1. /\ e \in Authorised(a, t) <=>
           event \in {"auto_allowed", "approved_by"} /\ actor = a /\ tool = t
      /\ e \in Reported(a, t) <=> event = "executed" /\ actor = a /\ tool = t
  BY AboutEntry DEF Authorised, Reported, Logs
<1>2. Logs(before, e)
  OBVIOUS
<1>3. 0 \in Nat /\ 0 <= Len(audit_log)
  BY DEF TypeOK
<1>. HIDE DEF e
<1>4. /\ Tally(audit_log, 0, Authorised(a, t)) \in Nat
      /\ Tally(audit_log', 0, Authorised(a, t)) =
           Tally(audit_log, 0, Authorised(a, t)) + (IF e \in Authorised(a, t) THEN 1 ELSE 0)
  BY <1>2, <1>3, Booked, NoAttributionAuthorises
<1>5. /\ Tally(audit_log, 0, Reported(a, t)) \in Nat
      /\ Tally(audit_log', 0, Reported(a, t)) =
           Tally(audit_log, 0, Reported(a, t)) + (IF e \in Reported(a, t) THEN 1 ELSE 0)
  BY <1>2, <1>3, Booked, NoAttributionAuthorises
<1>. QED
  BY <1>1, <1>4, <1>5 DEF One

LEMMA BooksBystander ==
  ASSUME TypeOK, NEW before, NEW actor, NEW event, NEW tool, NEW a, NEW t,
         Logs(before, Entry(actor, event, tool)),
         event \notin {"auto_allowed", "approved_by", "executed"},
         UNCHANGED <<running, effects, boots>>,
         Books(audit_log, effects, running, boots, a, t)
  PROVE  Books(audit_log', effects', running', boots', a, t)
<1>1. /\ Tally(audit_log', 0, Authorised(a, t)) = Tally(audit_log, 0, Authorised(a, t))
      /\ Tally(audit_log', 0, Reported(a, t)) = Tally(audit_log, 0, Reported(a, t))
  BY TalliesBooked DEF One
<1>. QED
  BY <1>1 DEF Books

\* A call is authorised and handed to its tool.
LEMMA BooksAuthorise ==
  ASSUME TypeOK, NEW before, NEW event \in {"auto_allowed", "approved_by"},
         NEW call, NEW a, NEW t, Logs(before, Entry(call.agent, event, call.tool)),
         running = Idle, running' # Idle, running'.phase = "execute",
         running'.call = call, UNCHANGED <<effects, boots>>,
         Books(audit_log, effects, running, boots, a, t)
  PROVE  Books(audit_log', effects', running', boots', a, t)
<1>1. /\ Tally(audit_log, 0, Authorised(a, t)) \in Nat
      /\ Tally(audit_log, 0, Reported(a, t)) \in Nat
      /\ Tally(audit_log', 0, Authorised(a, t)) =
           Tally(audit_log, 0, Authorised(a, t)) + One(call.agent = a /\ call.tool = t)
      /\ Tally(audit_log', 0, Reported(a, t)) = Tally(audit_log, 0, Reported(a, t))
  BY TalliesBooked DEF One
<1>2. /\ ~Busy(running, "record", a, t) /\ ~Busy(running, "execute", a, t)
      /\ ~Busy(running', "record", a, t)
      /\ Busy(running', "execute", a, t) <=> call.agent = a /\ call.tool = t
  BY DEF Busy
<1>3. Done(effects, a, t) \in Nat /\ boots \in Nat
  BY DoneType DEF TypeOK
<1>. QED
  BY <1>1, <1>2, <1>3 DEF Books, One

LEMMA BooksExecute ==
  ASSUME TypeOK, NEW tokens \in TokenCosts, Execute(tokens), NEW a, NEW t,
         Books(audit_log, effects, running, boots, a, t)
  PROVE  Books(audit_log', effects', running', boots', a, t)
<1>. DEFINE done == [id |-> running.id, call |-> running.call,
                     shown |-> running.shown, current |-> running.current,
                     via |-> running.via]
<1>1. /\ running # Idle /\ running.phase = "execute" /\ running \in Running
      /\ effects \in Seq(Executed) /\ effects' = Append(effects, done)
      /\ audit_log' = audit_log /\ boots' = boots
  BY DEF Execute, TypeOK
<1>2. done \in Executed /\ done.call = running.call
  BY <1>1 DEF Running, Executed
<1>. HIDE DEF done
<1>3. tokens \in 0..U64Max
  BY GatewayAssumption DEF GatewayAssumption
<1>4. running' \in Running /\ running'.phase = "record" /\ running'.call = running.call
  BY <1>1, <1>3 DEF Execute, Running
<1>5. running' # Idle
  BY <1>4, IdleAssumption
<1>6. /\ ~Busy(running, "record", a, t) /\ ~Busy(running', "execute", a, t)
      /\ Busy(running, "execute", a, t) <=> done.call.agent = a /\ done.call.tool = t
      /\ Busy(running', "record", a, t) <=> done.call.agent = a /\ done.call.tool = t
  BY <1>1, <1>2, <1>4, <1>5 DEF Busy
<1>7. /\ Done(effects', a, t) =
           Done(effects, a, t) + One(done.call.agent = a /\ done.call.tool = t)
      /\ Done(effects, a, t) \in Nat
  BY <1>1, <1>2, DoneAppend, DoneType
<1>8. /\ Tally(audit_log, 0, Authorised(a, t)) \in Nat
      /\ Tally(audit_log, 0, Reported(a, t)) \in Nat
      /\ boots \in Nat
  BY TallyType DEF TypeOK
<1>. QED
  BY <1>1, <1>6, <1>7, <1>8 DEF Books, One

LEMMA BooksRecord ==
  ASSUME TypeOK, Record, NEW a, NEW t,
         Books(audit_log, effects, running, boots, a, t)
  PROVE  Books(audit_log', effects', running', boots', a, t)
<1>1. /\ running # Idle /\ running.phase = "record" /\ running \in Running
      /\ running' = Idle /\ UNCHANGED <<effects, boots>>
  BY DEF Record, TypeOK
<1>2. Entry(running.call.agent, "executed", running.call.tool) \in AuditEntry
  BY <1>1, EntryType, EventNames DEF Running, Calls
<1>3. Logs(<<>>, Entry(running.call.agent, "executed", running.call.tool))
  BY <1>2, AppendLogs DEF Record
<1>4. /\ Tally(audit_log, 0, Authorised(a, t)) \in Nat
      /\ Tally(audit_log, 0, Reported(a, t)) \in Nat
      /\ Tally(audit_log', 0, Authorised(a, t)) = Tally(audit_log, 0, Authorised(a, t))
      /\ Tally(audit_log', 0, Reported(a, t)) =
           Tally(audit_log, 0, Reported(a, t)) +
           One(running.call.agent = a /\ running.call.tool = t)
  BY <1>3, TalliesBooked DEF One
<1>5. /\ ~Busy(running, "execute", a, t)
      /\ ~Busy(running', "execute", a, t) /\ ~Busy(running', "record", a, t)
      /\ Busy(running, "record", a, t) <=> running.call.agent = a /\ running.call.tool = t
  BY <1>1 DEF Busy
<1>6. Done(effects, a, t) \in Nat /\ boots \in Nat
  BY DoneType DEF TypeOK
<1>. QED
  BY <1>1, <1>4, <1>5, <1>6 DEF Books, One

\* A crash turns the running call, if any, into one more unreported one.
LEMMA BooksCrash ==
  ASSUME TypeOK, CrashRestart, NEW a, NEW t,
         Books(audit_log, effects, running, boots, a, t)
  PROVE  Books(audit_log', effects', running', boots', a, t)
<1>1. /\ running' = Idle /\ UNCHANGED <<audit_log, effects>> /\ boots' = boots + 1
      /\ boots \in Nat
  BY DEF CrashRestart, TypeOK
<1>2. ~Busy(running', "execute", a, t) /\ ~Busy(running', "record", a, t)
  BY <1>1 DEF Busy
<1>3. ~(Busy(running, "execute", a, t) /\ Busy(running, "record", a, t))
  BY DEF Busy
<1>4. /\ Tally(audit_log, 0, Authorised(a, t)) \in Nat
      /\ Tally(audit_log, 0, Reported(a, t)) \in Nat
      /\ Done(effects, a, t) \in Nat
  BY TallyType, DoneType DEF TypeOK
<1>. QED
  BY <1>1, <1>2, <1>3, <1>4 DEF Books, One

BooksInv == \A a \in Agents, t \in Tools : Books(audit_log, effects, running, boots, a, t)

LEMMA BooksStep ==
  ASSUME TypeOK, CardsMatchQueue, BooksInv, [Next]_vars
  PROVE  BooksInv'
<1>. SUFFICES ASSUME NEW a \in Agents, NEW t \in Tools
              PROVE  Books(audit_log', effects', running', boots', a, t)
  BY DEF BooksInv
<1>0. Books(audit_log, effects, running, boots, a, t)
  BY DEF BooksInv
<1>1. CASE Refusing
  <2>1. PICK actor \in Agents, event \in Refusals, tool \in Tools \cup {"none"},
             before \in Attributions :
               /\ Logs(before, Entry(actor, event, tool))
               /\ UNCHANGED <<running, effects, boots>>
    BY <1>1, RefusingLogs DEF history
  <2>2. event \notin {"auto_allowed", "approved_by", "executed"}
    BY DEF Refusals
  <2>. QED
    BY <1>0, <2>1, <2>2, BooksBystander
<1>2. CASE Admitting
  <2>1. PICK grant \in Grants, call \in Calls, policy \in Policies \cup {NoPolicy},
             by \in Agents, before \in Attributions :
               /\ running = Idle
               /\ \/ AdmitAuto(grant, call, policy, by, before)
                  \/ AdmitReview(grant, call, policy, by, before)
    BY <1>2 DEF Admitting, Decided
  <2>2. CASE AdmitAuto(grant, call, policy, by, before)
    BY <1>0, <2>1, <2>2, AutoLogs, BooksAuthorise
  <2>3. CASE AdmitReview(grant, call, policy, by, before)
    BY <1>0, <2>3, ReviewLogs, BooksBystander
  <2>. QED
    BY <2>1, <2>2, <2>3
<1>3. ASSUME NEW card \in cards, NEW approved \in BOOLEAN, resolve(card, approved)
      PROVE  Books(audit_log', effects', running', boots', a, t)
  <2>1. UNCHANGED <<boots, effects>> /\ running = Idle
    BY <1>3, ResolveLogs
  <2>2. PICK p \in pending :
          \/ /\ Logs(<<>>, Entry(p.call.agent, "approved_by", p.call.tool))
             /\ running' # Idle /\ running'.phase = "execute" /\ running'.call = p.call
          \/ /\ Logs(<<>>, Entry(p.call.agent, "denied_by", p.call.tool))
             /\ UNCHANGED running
    BY <1>3, ResolveLogs
  <2>3. CASE /\ Logs(<<>>, Entry(p.call.agent, "approved_by", p.call.tool))
             /\ running' # Idle /\ running'.phase = "execute" /\ running'.call = p.call
    BY <1>0, <2>1, <2>3, BooksAuthorise
  <2>4. CASE /\ Logs(<<>>, Entry(p.call.agent, "denied_by", p.call.tool))
             /\ UNCHANGED running
    BY <1>0, <2>1, <2>4, BooksBystander
  <2>. QED
    BY <2>2, <2>3, <2>4
<1>4. CASE World \/ UNCHANGED vars
  <2>1. UNCHANGED <<audit_log, effects, running, boots>>
    BY <1>4 DEF World, InsertGrant, RemoveAgent, Tick, vars, process, history
  <2>. QED
    BY <1>0, <2>1
<1>. QED
  BY <1>0, <1>1, <1>2, <1>3, <1>4, BooksExecute, BooksRecord, BooksCrash, StepShapes

LEMMA BooksMean ==
  ASSUME TypeOK, BooksInv
  PROVE  AuditAccountsForEffects
<1>. SUFFICES ASSUME NEW a \in Agents, NEW t \in Tools
              PROVE  LET authorised == Logged({"auto_allowed", "approved_by"}, a, t, 0)
                         reported   == Logged({"executed"}, a, t, 0)
                         done       == Cardinality({i \in DOMAIN effects :
                           effects[i].call.agent = a /\ effects[i].call.tool = t})
                     IN  /\ reported <= done
                         /\ done <= authorised
                         /\ authorised - reported <= boots + (IF running = Idle THEN 0 ELSE 1)
  BY DEF AuditAccountsForEffects
<1>1. audit_log \in Seq(AuditEntry) /\ effects \in Seq(Executed) /\ boots \in Nat
  BY DEF TypeOK
<1>2. /\ Logged({"auto_allowed", "approved_by"}, a, t, 0) = Tally(audit_log, 0, Authorised(a, t))
      /\ Logged({"executed"}, a, t, 0) = Tally(audit_log, 0, Reported(a, t))
  BY <1>1, LoggedIsTally DEF Logged, Authorised, Reported
<1>3. Cardinality({i \in DOMAIN effects :
        effects[i].call.agent = a /\ effects[i].call.tool = t}) = Done(effects, a, t)
  BY DEF Done, DoneAt
<1>4. /\ Tally(audit_log, 0, Authorised(a, t)) \in Nat
      /\ Tally(audit_log, 0, Reported(a, t)) \in Nat
      /\ Done(effects, a, t) \in Nat
  BY <1>1, TallyType, DoneType
<1>5. /\ ~(Busy(running, "execute", a, t) /\ Busy(running, "record", a, t))
      /\ running = Idle => ~Busy(running, "execute", a, t) /\ ~Busy(running, "record", a, t)
  BY DEF Busy
<1>6. Books(audit_log, effects, running, boots, a, t)
  BY DEF BooksInv
<1>7. /\ Tally(audit_log, 0, Reported(a, t)) <= Done(effects, a, t)
      /\ Done(effects, a, t) <= Tally(audit_log, 0, Authorised(a, t))
      /\ Tally(audit_log, 0, Authorised(a, t)) - Tally(audit_log, 0, Reported(a, t))
           <= boots + (IF running = Idle THEN 0 ELSE 1)
  BY <1>1, <1>4, <1>5, <1>6 DEF Books, One
<1>. QED
  BY <1>2, <1>3, <1>7

(* The log never reports an execution that did not happen, nothing runs without
   an authorising entry written before it, and the authorised calls that were
   never reported are the one running plus at most one per crash: what a replay
   of the log (replay.rs) can be wrong by, for every number of crashes. *)
THEOREM LogAccountsForEffects == Spec => []AuditAccountsForEffects
<1>1. Init => BooksInv
  <2>. SUFFICES ASSUME Init, NEW a \in Agents, NEW t \in Tools
                PROVE  Books(audit_log, effects, running, boots, a, t)
    BY DEF BooksInv
  <2>1. Len(audit_log) = 0 /\ effects = <<>> /\ running = Idle /\ boots = 0
    BY DEF Init
  <2>2. /\ Tally(audit_log, 0, Authorised(a, t)) = 0
        /\ Tally(audit_log, 0, Reported(a, t)) = 0
    BY <2>1, TallyNothing
  <2>3. DoneAt(effects, a, t) = {}
    BY <2>1 DEF DoneAt
  <2>4. Done(effects, a, t) = 0
    BY <2>3, FS_EmptySet DEF Done
  <2>5. ~Busy(running, "execute", a, t) /\ ~Busy(running, "record", a, t)
    BY <2>1 DEF Busy
  <2>. QED
    BY <2>1, <2>2, <2>4, <2>5 DEF Books, One
<1>2. TypeOK /\ ShownInv /\ BooksInv /\ [Next]_vars => BooksInv'
  BY BooksStep DEF ShownInv
<1>3. TypeOK /\ BooksInv => AuditAccountsForEffects
  BY BooksMean
<1>. QED
  BY <1>1, <1>2, <1>3, TypeCorrect, ShownCorrect, PTL DEF Spec
=============================================================================
