------------------------------ MODULE AuditLog ------------------------------
(***************************************************************************)
(* The hash-chained audit log (gm-store/src/audit.rs) over a store, its    *)
(* emission to a SIEM (gm-obs/src/siem.rs) and the replay of an agent's    *)
(* session from it (gm-agent/src/replay.rs).                               *)
(*                                                                         *)
(* A text is a list of parts, cut at the unit separator (SEP), and a part *)
(* is a list of words, cut where the code looks for a prefix or a name     *)
(* begins.  A name is a word, or has a Spelling of its own when it holds a *)
(* separator or what looks like one of the gateway's words.  An event is a *)
(* text, and so is a memory key.  The hasher is taken to be injective.     *)
(***************************************************************************)
EXTENDS DurableStore

CONSTANTS
  Spelling,    \* [names that are no single word -> their text]
  Number       \* [words that parse as a number -> that number]

Spelt(name) == IF name \in DOMAIN Spelling THEN Spelling[name] ELSE << <<name>> >>

Joined(text, next) == Front(text) \o <<Last(text) \o Head(next)>> \o Tail(next)

\* format!: an event that starts with these words, and goes on with these texts.
AuditEvent(words, texts) == FoldLeft(Joined, <<words>>, texts)

-----------------------------------------------------------------------------
(* The log.                                                                *)

Genesis == <<0>>    \* the previous hash of the first entry

digest(actor, event, prev_hash) == <<actor, event, prev_hash>>

\* encode writes the actor, the event and the two hashes with a separator
\* between them.  decode takes the first four parts of that: two of an event
\* of several parts are read for the hashes, which they pass for if they are
\* numbers.
IsNumber(part) == Len(part) = 1 /\ Head(part) \in DOMAIN Number

Decodes(entry) ==
  \A i \in 2..Len(entry.event) : i <= 3 => IsNumber(entry.event[i])

AfterEvent(entry, i) ==
  LET others == Tail(entry.event)
  IN  IF i <= Len(others) THEN <<Number[Head(others[i])]>>
      ELSE <<entry.prev_hash, entry.hash>>[i - Len(others)]

decode(entry) ==
  [ actor |-> entry.actor, event |-> <<Head(entry.event)>>,
    prev_hash |-> AfterEvent(entry, 1), hash |-> AfterEvent(entry, 2) ]

entries(s) ==
  LET stored == scan(s, "AUDIT_LOG")
      values == [i \in DOMAIN stored |-> stored[i][2]]
      readable == SelectSeq(values, Decodes)
  IN  [i \in DOMAIN readable |-> decode(readable[i])]

TipHash(s) ==
  LET readable == entries(s)
  IN  IF readable = <<>> THEN Genesis ELSE Last(readable).hash

NewEntry(s, actor, event) ==
  [ actor |-> actor, event |-> event, prev_hash |-> TipHash(s),
    hash |-> digest(actor, event, TipHash(s)) ]

\* Mutant: the next key is the number of entries that can be read.
SeqOfReadable(s) == Len(entries(s))

next_seq(s) == count(s, "AUDIT_LOG")

\* The outcomes of an append; the caller drops the put's result.
append(s, actor, event) ==
  put(s, "AUDIT_LOG", next_seq(s), NewEntry(s, actor, event))

\* Mutant: entries are only checked one by one.
VerifyEachEntry(s) ==
  \A i \in DOMAIN entries(s) :
    LET e == entries(s)[i] IN e.hash = digest(e.actor, e.event, e.prev_hash)

\* verify(..).is_ok()
verify(s) ==
  LET log == entries(s)
      expected_prev(i) == IF i = 1 THEN Genesis ELSE log[i - 1].hash
  IN  \A i \in DOMAIN log :
        /\ log[i].prev_hash = expected_prev(i)
        /\ log[i].hash = digest(log[i].actor, log[i].event, log[i].prev_hash)

\* What stream_audit emits to a sink: one record per entry, numbered.
stream_audit(s) ==
  LET log == entries(s)
  IN  [ i \in DOMAIN log |->
          [ seq |-> i - 1, actor |-> log[i].actor, action |-> log[i].event,
            prev_hash |-> log[i].prev_hash, hash |-> log[i].hash ] ]

-----------------------------------------------------------------------------
(* Replay.                                                                 *)

Step(kind, reason) == [kind |-> kind, reason |-> reason, ok |-> FALSE, tokens |-> 0]

\* What classify looks for at the start of an event, in its order.
Refusals ==
  << << <<"denied_by", "_scope">>, Step("Denied", "Scope") >>,
     << <<"rate_limited">>, Step("Denied", "RateLimit") >>,
     << <<"daily_budget_exceeded">>, Step("Denied", "DailyCallBudget") >>,
     << <<"token_budget_exceeded">>, Step("Denied", "TokenBudget") >>,
     << <<"policy_denied">>, Step("Denied", "Policy") >>,
     << <<"denied_by", " ">>, Step("Denied", "Human") >> >>

CallSteps ==
  << << <<"approved_by", " ">>, Step("Approved", "") >>,
     << <<"delegated_by", " ">>, Step("Delegated", "") >>,
     << <<"auto_allowed">>, Step("AutoAllowed", "") >>,
     << <<"approval_requested">>, Step("ApprovalRequested", "") >>,
     << <<"executed", ":">>, Step("Executed", "") >> >>

AccessSteps ==
  << << <<"resource", "_read">>, Step("ResourceAccess", "") >>,
     << <<"resource", "_denied">>, Step("ResourceAccess", "") >>,
     << <<"resource", "s_listed">>, Step("Discovery", "") >>,
     << <<"tools_listed">>, Step("Discovery", "") >> >>


MemorySteps ==
  << << <<"memory_", "denied">>, Step("Denied", "Scope") >>,
     << <<"memory_">>, Step("Memory", "") >> >>

Vocabulary ==
  Refusals \o CallSteps \o AccessSteps \o MemorySteps
  \o << << <<"unmanaged_agent">>, Step("UnmanagedAgent", "") >>, << <<>>, Step("Other", "") >> >>

\* The word after the first such key, "" if there is none.
parse_kv(words, key) ==
  LET at == {i \in 2..Len(words) : words[i - 1] = key}
  IN  IF at = {} THEN "" ELSE words[Min(at)]

parse_tokens(word) == IF word \in DOMAIN Number THEN Number[word] ELSE 0

classify_entry(entry) ==
  LET words   == Head(entry.event)
      matches == {i \in DOMAIN Vocabulary : IsPrefix(Vocabulary[i][1], words)}
      step    == Vocabulary[Min(matches)][2]
  IN  IF step.kind # "Executed" THEN step
      ELSE [step EXCEPT !.ok = parse_kv(words, "ok=") = "true",
                        !.tokens = parse_tokens(parse_kv(words, "tokens="))]

\* One agent's steps, each with its position in the whole chain.
StepsOf(s, agent) ==
  LET log == entries(s)
      placed == [i \in DOMAIN log |->
                   [seq |-> i - 1, actor |-> log[i].actor,
                    kind |-> classify_entry(log[i]), event |-> log[i].event]]
      OfAgent(step) == step.actor = agent
  IN  SelectSeq(placed, OfAgent)

replay_session(s, agent) ==
  [agent |-> agent, steps |-> StepsOf(s, agent), chain_intact |-> verify(s)]

\* One session per actor, in the order of first appearance.
replay_all(s) ==
  LET log == entries(s)
      actors == [i \in DOMAIN log |-> log[i].actor]
      First(i) == \A j \in 1..(i - 1) : actors[j] # actors[i]
      firsts == SetToSortSeq({i \in DOMAIN log : First(i)}, <)
  IN  [k \in DOMAIN firsts |-> replay_session(s, actors[firsts[k]])]

StepsWithin(steps, kind) == {i \in DOMAIN steps : steps[i].kind.kind = kind}

executions(replay) == Cardinality(StepsWithin(replay.steps, "Executed"))

denials(replay) == Cardinality(StepsWithin(replay.steps, "Denied"))

total_tokens(replay) ==
  FoldSet(LAMBDA i, sum : sum + replay.steps[i].kind.tokens, 0,
          StepsWithin(replay.steps, "Executed"))
=============================================================================
