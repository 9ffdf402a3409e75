--------------------------- MODULE StateResolution ---------------------------
(***************************************************************************)
(* State resolution v2 and the engine that runs it on a pool of threads    *)
(* over a shared cache (gm-stateres/src/lib.rs).                           *)
(*                                                                         *)
(* A state map takes slots <<kind, state_key>> to event ids, which are     *)
(* numbers in the order of the id strings; pdus is a set of events.  A     *)
(* hash set is iterated in an order that differs from one set to the next: *)
(* hash, a sequence of ids, is such an order, and decides between events a *)
(* (stable) sort cannot tell apart.                                        *)
(***************************************************************************)
EXTENDS RoomAuth, SequencesExt

CONSTANTS
  Workers,
  Batches,      \* what may be asked of the engine: a set of sequences of batches,
                \* a batch being a sequence of jobs [states, pdus]
  HashOrders    \* orders in which a hash set may be iterated

VARIABLES
  batches,    \* the batches yet to come
  jobs,       \* the batch under way
  next,       \* the index of the job to fetch next
  worker,     \* [Workers -> [pc, job, resolved]]
  results,    \* [1..Len(jobs) -> state map or None]
  cache,      \* {[key, value]}
  hits, misses,
  history,    \* the jobs of earlier batches and their results, <<[job, got]>>
  sequential  \* a CachedResolver given the same jobs: [cache, hits, misses, history]

vars == <<batches, jobs, next, worker, results, cache, hits, misses, history, sequential>>

-----------------------------------------------------------------------------
(* The partition.                                                          *)

SlotsOf(states) == UNION {DOMAIN states[i] : i \in DOMAIN states}
Candidates(states, slot) ==
  {states[i][slot] : i \in {i \in DOMAIN states : slot \in DOMAIN states[i]}}
Agreed(states, slot) ==
  /\ \A i \in DOMAIN states : slot \in DOMAIN states[i]
  /\ Cardinality(Candidates(states, slot)) = 1

separate(states) ==
  LET agreed == {slot \in SlotsOf(states) : Agreed(states, slot)}
  IN  [unconflicted |-> [slot \in agreed |-> CHOOSE id \in Candidates(states, slot) : TRUE],
       conflicted   |-> [slot \in SlotsOf(states) \ agreed |-> Candidates(states, slot)]]

Conflicted(states) == \E slot \in SlotsOf(states) : ~Agreed(states, slot)

-----------------------------------------------------------------------------
(* Events.                                                                 *)

EventsIn(state, pdus) == Cited(Range(state), pdus)
Known(id, pdus)       == Cited({id}, pdus) # {}
EventOf(id, pdus)     == CHOOSE e \in pdus : e.id = id
TimeOf(id, pdus)      == IF Known(id, pdus) THEN EventOf(id, pdus).ts ELSE 0

state_slot(event) == <<event.kind, event.state_key>>

\* Mutant: a membership is never a power event.
BansAreOrdinary(event) == event.kind \in {"create", "power_levels", "join_rules"}

\* A ban, or a kick: a leave somebody else set.
is_power_event(event) ==
  \/ event.kind \in {"create", "power_levels", "join_rules"}
  \/ /\ event.kind = "member"
     /\ \/ event.content.membership = "ban"
        \/ event.content.membership = "leave" /\ event.state_key # event.sender

\* The event is judged by the state without its own slot.
try_apply(resolved, id, pdus) ==
  IF ~Known(id, pdus) \/ ~is_state(EventOf(id, pdus)) THEN resolved
  ELSE LET event   == EventOf(id, pdus)
           slot    == state_slot(event)
           context == EventsIn(Restrict(resolved, DOMAIN resolved \ {slot}), pdus)
       IN  IF check_auth(event, context) THEN (slot :> id) @@ resolved ELSE resolved

apply_all(base, order, pdus) ==
  FoldLeft(LAMBDA resolved, id : try_apply(resolved, id, pdus), base, order)

\* The ids some input's auth chain has and another's lacks.
auth_difference(states, pdus) ==
  LET chains == {auth_chain(Range(states[i]), pdus) : i \in DOMAIN states}
  IN  {id \in UNION chains : \E chain \in chains : id \notin chain}

sender_power(sender, base, pdus) == power_level(EventsIn(base, pdus), sender)

-----------------------------------------------------------------------------
(* The two orders.                                                         *)

Position(order, id) == CHOOSE i \in DOMAIN order : order[i] = id
IteratedBefore(hash, a, b) == Position(hash, a) < Position(hash, b)

\* The ids one after another: of those that are ready, the one that precedes
\* the others, until none is left.
Arranged(ids, Ready(_, _), Precedes(_, _)) ==
  LET Chosen(placed) ==
        LET left  == ids \ placed
            ready == {id \in left : Ready(id, placed)}
            pool  == IF ready = {} THEN left ELSE ready
        IN  CHOOSE id \in pool : \A other \in pool \ {id} : Precedes(id, other)
  IN  FoldLeft(LAMBDA order, i : Append(order, Chosen(Range(order))),
               <<>>, [i \in 1..Cardinality(ids) |-> i])

\* Mutant: ties are left to the order of iteration.
PowerPrecedesNoId(a, b, base, pdus, hash) ==
  LET power(id) == sender_power(EventOf(id, pdus).sender, base, pdus)
  IN  \/ power(a) > power(b)
      \/ power(a) = power(b) /\ TimeOf(a, pdus) < TimeOf(b, pdus)
      \/ /\ power(a) = power(b) /\ TimeOf(a, pdus) = TimeOf(b, pdus)
         /\ IteratedBefore(hash, a, b)

\* Greatest power, least time, least id; ids differ, so the order of iteration
\* never decides.
PowerPrecedes(a, b, base, pdus, hash) ==
  LET power(id) == sender_power(EventOf(id, pdus).sender, base, pdus)
  IN  \/ power(a) > power(b)
      \/ power(a) = power(b) /\ TimeOf(a, pdus) < TimeOf(b, pdus)
      \/ power(a) = power(b) /\ TimeOf(a, pdus) = TimeOf(b, pdus) /\ a < b

\* After the events it cites.
reverse_topological_power_sort(ids, pdus, base, hash) ==
  Arranged(ids, LAMBDA id, placed : EventOf(id, pdus).auth_events \cap ids \subseteq placed,
           LAMBDA a, b : PowerPrecedes(a, b, base, pdus, hash))

\* The power levels it cites (an event cites one such event at most).
power_levels_ancestor(id, pdus) ==
  LET cited == IF Known(id, pdus) THEN Cited(EventOf(id, pdus).auth_events, pdus) ELSE {}
      found == {e.id : e \in {e \in cited : e.kind = "power_levels"}}
  IN  IF found = {} THEN None ELSE Min(found)

\* id, its power-levels ancestor, the ancestor of that, and so on.
Lineage(id, pdus) ==
  FoldLeft(LAMBDA line, i : LET up == power_levels_ancestor(Last(line), pdus)
                            IN  IF up = None THEN line ELSE Append(line, up),
           <<id>>, [i \in 1..Cardinality(pdus) |-> i])

\* How deep on the mainline of the resolved power levels the first of the
\* event's lineage is that is on it; 0 is the root, and stands for none too.
MainlineDepth(id, power_levels, pdus) ==
  LET mainline == IF power_levels = None THEN <<>> ELSE Lineage(power_levels, pdus)
      met      == SelectSeq(Lineage(id, pdus), LAMBDA up : up \in Range(mainline))
  IN  IF met = <<>> THEN 0 ELSE Len(mainline) - Position(mainline, Head(met))

mainline_sort(ids, power_levels, pdus) ==
  LET depth == [id \in ids |-> MainlineDepth(id, power_levels, pdus)]
  IN  Arranged(ids, LAMBDA id, placed : TRUE,
        LAMBDA a, b :
          \/ depth[a] < depth[b]
          \/ depth[a] = depth[b] /\ TimeOf(a, pdus) < TimeOf(b, pdus)
          \/ depth[a] = depth[b] /\ TimeOf(a, pdus) = TimeOf(b, pdus) /\ a < b)

-----------------------------------------------------------------------------
(* The resolution.                                                         *)

FullConflict(states, pdus) ==
  (UNION Range(separate(states).conflicted)) \cup auth_difference(states, pdus)

\* Steps (3) and (4): power events onto the base, then the rest.
Iterated(base, full, pdus, hash) ==
  LET power  == {id \in full : Known(id, pdus) /\ is_power_event(EventOf(id, pdus))}
      order1 == reverse_topological_power_sort(power, pdus, base, hash)
      partial == apply_all(base, order1, pdus)
      levels == IF <<"power_levels", "">> \in DOMAIN partial
                THEN partial[<<"power_levels", "">>] ELSE None
  IN  apply_all(partial, mainline_sort(full \ power, levels, pdus), pdus)

\* Mutant: the last step is left out.
ResolveWithoutOverlay(states, pdus, hash) ==
  LET base == separate(states).unconflicted
  IN  IF Conflicted(states) THEN Iterated(base, FullConflict(states, pdus), pdus, hash) ELSE base

\* Step (5): the unconflicted state on top.
Overlay(base, state) ==
  [slot \in DOMAIN base \cup DOMAIN state |->
     IF slot \in DOMAIN base THEN base[slot] ELSE state[slot]]

resolve(states, pdus, hash) ==
  LET base == separate(states).unconflicted
  IN  IF Conflicted(states)
      THEN Overlay(base, Iterated(base, FullConflict(states, pdus), pdus, hash))
      ELSE base

\* Every job the engine may be given.
Jobs == UNION {UNION {Range(asked[b]) : b \in DOMAIN asked} : asked \in Batches}

\* Batches are sequences of jobs, and the pool has a thread at least
\* (ParallelResolver::new).
ASSUME EngineAssumption ==
  /\ IsFiniteSet(Workers) /\ Workers # {}
  /\ \A asked \in Batches : asked \in Seq(Seq(Jobs))

\* A slot of the results is an Option of a state map, and a state map is not
\* its None.
ASSUME ResolutionAssumption ==
  \A job \in Jobs :
    /\ separate(job.states).unconflicted # None
    /\ \A hash \in HashOrders : resolve(job.states, job.pdus, hash) # None

-----------------------------------------------------------------------------
(* The cache and the engine.                                               *)

input_key(states) == UNION {Range(states[i]) : i \in DOMAIN states}

Cached(entries, key) == {e \in entries : e.key = key}
CachedValue(entries, key) == (CHOOSE e \in Cached(entries, key) : TRUE).value
Inserted(entries, key, value) ==
  (entries \ Cached(entries, key)) \cup {[key |-> key, value |-> value]}

Idle == [pc |-> "fetch", job |-> 0, resolved |-> None]
JobOf(w) == jobs[worker[w].job]

\* CachedResolver::resolve, one job.
SequentialStep(r, job, hash) ==
  LET states == job.states
      key    == input_key(states)
      fresh  == resolve(states, job.pdus, hash)
      With(got) == Append(r.history, [job |-> job, got |-> got])
  IN  IF ~Conflicted(states)
      THEN [r EXCEPT !.history = With(separate(states).unconflicted)]
      ELSE IF Cached(r.cache, key) # {}
      THEN [r EXCEPT !.hits = @ + 1, !.history = With(CachedValue(r.cache, key))]
      ELSE [r EXCEPT !.misses = @ + 1, !.cache = Inserted(@, key, fresh),
                     !.history = With(fresh)]

StopsBeforeTheLast(i) == i >= Len(jobs)                             \* mutant
NoMoreJobs(i) == i > Len(jobs)

Fetch(w) ==
  /\ worker[w].pc = "fetch"
  /\ next' = next + 1
  /\ worker' = [worker EXCEPT ![w] =
       IF NoMoreJobs(next) THEN [Idle EXCEPT !.pc = "done"]
       ELSE [Idle EXCEPT !.pc = "lookup", !.job = next]]
  /\ UNCHANGED <<batches, jobs, results, cache, hits, misses, history>>

\* The sequential resolver is given the jobs in the order of the batch, each
\* when a worker of the engine fetches it.
Sequentially(i) ==
  IF NoMoreJobs(i) THEN UNCHANGED sequential
  ELSE \E hash \in HashOrders : sequential' = SequentialStep(sequential, jobs[i], hash)

\* resolve_cached up to the end of the first lock of the cache.
Lookup(w) ==
  /\ worker[w].pc = "lookup"
  /\ LET states == JobOf(w).states
         key    == input_key(states)
         To(pc, value) == worker' = [worker EXCEPT ![w].pc = pc, ![w].resolved = value]
     IN  \/ /\ ~Conflicted(states)
            /\ To("store", separate(states).unconflicted)
            /\ UNCHANGED hits
         \/ /\ Conflicted(states) /\ Cached(cache, key) # {}
            /\ To("store", CachedValue(cache, key))
            /\ hits' = hits + 1
         \/ /\ Conflicted(states) /\ Cached(cache, key) = {}
            /\ To("resolve", None)
            /\ UNCHANGED hits
  /\ UNCHANGED <<batches, jobs, next, results, cache, misses, history, sequential>>

\* Mutant: a miss somebody else has filled meanwhile is not counted.
MissesIfNew(w) ==
  IF Cached(cache, input_key(JobOf(w).states)) = {} THEN misses + 1 ELSE misses
MissCounted(w) == misses + 1

Resolve(w) ==
  /\ worker[w].pc = "resolve"
  /\ \E hash \in HashOrders :
       worker' = [worker EXCEPT ![w].pc = "insert",
                                ![w].resolved = resolve(JobOf(w).states, JobOf(w).pdus, hash)]
  /\ misses' = MissCounted(w)
  /\ UNCHANGED <<batches, jobs, next, results, cache, hits, history, sequential>>

\* The second lock of the cache; a worker that was as quick is overwritten.
Insert(w) ==
  /\ worker[w].pc = "insert"
  /\ cache' = Inserted(cache, input_key(JobOf(w).states), worker[w].resolved)
  /\ worker' = [worker EXCEPT ![w].pc = "store"]
  /\ UNCHANGED <<batches, jobs, next, results, hits, misses, history, sequential>>

KeepsItsJob(w) == [worker[w] EXCEPT !.pc = "fetch"]                  \* mutant
Released(w) == Idle

Store(w) ==
  /\ worker[w].pc = "store"
  /\ results' = [results EXCEPT ![worker[w].job] = worker[w].resolved]
  /\ worker' = [worker EXCEPT ![w] = Released(w)]
  /\ UNCHANGED <<batches, jobs, next, cache, hits, misses, history, sequential>>

BatchDone == \A w \in Workers : worker[w].pc = "done"
Collected == history \o [i \in DOMAIN jobs |-> [job |-> jobs[i], got |-> results[i]]]

\* The scope ends, the results are collected, and the next batch is given.
NextBatch ==
  /\ BatchDone /\ batches # <<>>
  /\ history' = Collected
  /\ jobs' = Head(batches)
  /\ batches' = Tail(batches)
  /\ next' = 1
  /\ results' = [i \in DOMAIN Head(batches) |-> None]
  /\ worker' = [w \in Workers |-> Idle]
  /\ UNCHANGED <<cache, hits, misses, sequential>>

Init ==
  /\ batches \in Batches
  /\ jobs = <<>> /\ next = 1 /\ results = <<>>
  /\ worker = [w \in Workers |-> [Idle EXCEPT !.pc = "done"]]
  /\ cache = {} /\ hits = 0 /\ misses = 0 /\ history = <<>>
  /\ sequential = [cache |-> {}, hits |-> 0, misses |-> 0, history |-> <<>>]

WorkerStep(w) ==
  \/ Fetch(w) /\ Sequentially(next)
  \/ Lookup(w) \/ Resolve(w) \/ Insert(w) \/ Store(w)
Next == NextBatch \/ \E w \in Workers : WorkerStep(w)

Spec == Init /\ [][Next]_vars

-----------------------------------------------------------------------------
(* Properties.                                                             *)

\* What was answered so far, by the engine and by the sequential resolver.
EngineAnswers == {answer \in Range(Collected) : answer.got # None}
Answers       == EngineAnswers \cup Range(sequential.history)

\* Types of the engine's state (ParallelResolver, resolve_batch).
ResolverTypeOK ==
  /\ next \in 1..Len(jobs) + 1 + Cardinality(Workers)
  /\ hits \in Nat /\ misses \in Nat
  /\ DOMAIN results = DOMAIN jobs
  /\ \A w \in Workers : /\ worker[w].pc \in {"fetch", "lookup", "resolve", "insert", "store", "done"}
                        /\ worker[w].pc \in {"fetch", "done"} <=> worker[w].job = 0

\* When the pool has stopped, every job has a result: resolve_batch unwraps
\* each, and would panic on one that two workers skipped.
EveryJobAnswered == BatchDone => None \notin Range(results)

\* Every lookup of a conflicted input is counted once, as a hit or a miss, at
\* whatever moment the counters are read, though lookup, count and insert are
\* separate steps; and the cache holds nothing that was not computed.
LookupsAccounted ==
  LET Looked(answers) == Cardinality({i \in DOMAIN answers :
        answers[i].got # None /\ Conflicted(answers[i].job.states)})
      pending == {w \in Workers : /\ worker[w].pc \in {"insert", "store"}
                                  /\ Conflicted(JobOf(w).states)}
  IN  /\ hits + misses = Looked(Collected) + Cardinality(pending)
      /\ Cardinality(cache) <= misses
      /\ sequential.hits + sequential.misses = Looked(sequential.history)

\* The jobs asked so far.
Seen == {a.job : a \in Answers} \cup Range(jobs)

\* Another job has the same key, but other state maps or other events.
Collides(job) ==
  \E other \in Seen :
    /\ input_key(other.states) = input_key(job.states)
    /\ Range(other.states) # Range(job.states) \/ other.pdus # job.pdus

\* The same state maps give the same resolution, in whatever order and however
\* often they are given, however hash sets are iterated, from the cache or not,
\* on any thread or sequentially.  Inputs that collide in the cache's key are
\* excepted: they do get each other's resolution (input_key is the union of
\* the ids; the partition into states is lost, and so are the events that had
\* not been fetched).
EqualInputsEqualResults ==
  \A a, b \in Answers :
    /\ Range(a.job.states) = Range(b.job.states) /\ a.job.pdus = b.job.pdus
    /\ ~Collides(a.job)
    => a.got = b.got

\* What every input agrees on is in the result, though the auth difference may
\* hold older events of the same slots, which are applied on the way.
AgreedStays ==
  \A a \in Answers : \A slot \in SlotsOf(a.job.states) :
    Agreed(a.job.states, slot) /\ ~Collides(a.job) =>
      slot \in DOMAIN a.got /\ a.got[slot] \in Candidates(a.job.states, slot)

\* The users removed by others in a set of state events.
Removed(state) ==
  {e.state_key : e \in {e \in state : /\ e.kind = "member" /\ e.sender # e.state_key
                                      /\ e.content.membership \in {"ban", "leave"}}}

\* A contested event such as a name stands only if its sender has the
\* power for it under the resolved power levels, and has not been banned or
\* kicked in the resolved state: the action of a moderator on one fork is not
\* outrun by what the moderated user did on the other.
NoVoiceWithoutPower ==
  \A a \in Answers :
    LET state == EventsIn(a.got, a.job.pdus)
    IN  ~Collides(a.job) => \A e \in state :
          /\ ~Agreed(a.job.states, state_slot(e))
          /\ e.kind \notin {"create", "power_levels", "join_rules", "member"}
          => /\ power_level(state, e.sender) >= event_level(state, e)
             /\ e.sender \notin Removed(state)

\* One slot is contested between a value and the one that replaced it, which
\* cites it and was allowed on top of it: the newer value stands, since "a
\* transition is checked against the prior value" (try_apply).
NewerValueStands ==
  \A a \in Answers : \A i, j \in DOMAIN a.job.states : \A slot \in DOMAIN a.job.states[i] :
    LET older == a.job.states[i]
        newer == a.job.states[j]
        event == EventOf(newer[slot], a.job.pdus)
    IN  /\ Range(a.job.states) = {older, newer}
        /\ newer = [older EXCEPT ![slot] = newer[slot]]
        /\ older[slot] \in event.auth_events
        /\ check_auth(event, EventsIn(older, a.job.pdus))
        => a.got = newer
=============================================================================
