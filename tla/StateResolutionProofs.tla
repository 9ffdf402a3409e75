------------------------ MODULE StateResolutionProofs ------------------------
(***************************************************************************)
(* The engine answers every job, exactly once, with the resolution of its  *)
(* input, and counts its lookups, for any number of workers and any        *)
(* batches.  What a resolution is made of (folds and sorts) is opaque      *)
(* here; that it depends on the set of state maps alone is proved.         *)
(***************************************************************************)
EXTENDS StateResolution, TLAPS, FiniteSetTheorems

-----------------------------------------------------------------------------
(* A resolution depends on the set of the state maps and on the events,    *)
(* not on the order of the maps or of hash sets.                           *)

LEMMA PowerOrderIgnoresHash ==
  ASSUME NEW ids, NEW pdus, NEW base, NEW h, NEW g
  PROVE  reverse_topological_power_sort(ids, pdus, base, h)
           = reverse_topological_power_sort(ids, pdus, base, g)
BY DEF reverse_topological_power_sort, PowerPrecedes

LEMMA IteratedIgnoresHash ==
  ASSUME NEW base, NEW full, NEW pdus, NEW h, NEW g
  PROVE  Iterated(base, full, pdus, h) = Iterated(base, full, pdus, g)
BY PowerOrderIgnoresHash DEF Iterated

LEMMA SlotsOfSet ==
  ASSUME NEW s, NEW t, Range(s) = Range(t)
  PROVE  SlotsOf(s) \subseteq SlotsOf(t)
<1>1. ASSUME NEW i \in DOMAIN s, NEW slot \in DOMAIN s[i] PROVE slot \in SlotsOf(t)
  <2>1. PICK j \in DOMAIN t : t[j] = s[i]
    BY DEF Range
  <2>. QED
    BY <2>1 DEF SlotsOf
<1>. QED
  BY <1>1 DEF SlotsOf

LEMMA CandidatesOfSet ==
  ASSUME NEW s, NEW t, Range(s) = Range(t), NEW slot
  PROVE  Candidates(s, slot) \subseteq Candidates(t, slot)
<1>1. ASSUME NEW i \in DOMAIN s, slot \in DOMAIN s[i] PROVE s[i][slot] \in Candidates(t, slot)
  <2>1. PICK j \in DOMAIN t : t[j] = s[i]
    BY DEF Range
  <2>. QED
    BY <1>1, <2>1 DEF Candidates
<1>. QED
  BY <1>1 DEF Candidates

LEMMA AgreedOfSet ==
  ASSUME NEW s, NEW t, Range(s) = Range(t), NEW slot, Agreed(s, slot)
  PROVE  Agreed(t, slot)
<1>1. ASSUME NEW i \in DOMAIN t PROVE slot \in DOMAIN t[i]
  <2>1. PICK j \in DOMAIN s : s[j] = t[i]
    BY DEF Range
  <2>. QED
    BY <2>1 DEF Agreed
<1>2. Candidates(s, slot) = Candidates(t, slot)
  BY CandidatesOfSet
<1>. QED
  BY <1>1, <1>2 DEF Agreed

LEMMA ChainsOfSet ==
  ASSUME NEW s, NEW t, Range(s) = Range(t), NEW pdus
  PROVE  auth_difference(s, pdus) = auth_difference(t, pdus)
<1>. DEFINE C(u) == {auth_chain(Range(u[i]), pdus) : i \in DOMAIN u}
<1>1. ASSUME NEW u, NEW v, Range(u) = Range(v) PROVE C(u) \subseteq C(v)
  <2>1. ASSUME NEW i \in DOMAIN u PROVE \E j \in DOMAIN v : v[j] = u[i]
    BY <1>1 DEF Range
  <2>. QED
    BY <2>1
<1>2. C(s) = C(t)
  BY <1>1
<1>. QED
  BY <1>2 DEF auth_difference

LEMMA KeyOfSet ==
  ASSUME NEW s, NEW t, Range(s) = Range(t)
  PROVE  input_key(s) = input_key(t)
<1>1. ASSUME NEW u, NEW v, Range(u) = Range(v) PROVE input_key(u) \subseteq input_key(v)
  <2>1. ASSUME NEW i \in DOMAIN u PROVE \E j \in DOMAIN v : v[j] = u[i]
    BY <1>1 DEF Range
  <2>. QED
    BY <2>1 DEF input_key
<1>. QED
  BY <1>1

LEMMA PartitionOfSet ==
  ASSUME NEW s, NEW t, Range(s) = Range(t)
  PROVE  separate(s) = separate(t) /\ (Conflicted(s) <=> Conflicted(t))
<1>1. SlotsOf(s) = SlotsOf(t)
  BY SlotsOfSet
<1>2. \A slot : Candidates(s, slot) = Candidates(t, slot)
  BY CandidatesOfSet
<1>3. \A slot : Agreed(s, slot) <=> Agreed(t, slot)
  BY AgreedOfSet
<1>. DEFINE A(u) == {slot \in SlotsOf(u) : Agreed(u, slot)}
            U(u) == [slot \in A(u) |-> CHOOSE id \in Candidates(u, slot) : TRUE]
            V(u) == [slot \in SlotsOf(u) \ A(u) |-> Candidates(u, slot)]
<1>4. A(s) = A(t)
  BY <1>1, <1>3
<1>. HIDE DEF A
<1>5. U(s) = U(t) /\ V(s) = V(t)
  BY <1>1, <1>2, <1>4
<1>6. separate(s) = [unconflicted |-> U(s), conflicted |-> V(s)]
      /\ separate(t) = [unconflicted |-> U(t), conflicted |-> V(t)]
  BY DEF separate, A
<1>. HIDE DEF U, V
<1>. QED
  BY <1>1, <1>3, <1>5, <1>6 DEF Conflicted

\* The same state maps, in any order and any number, with the same events have
\* the same resolution, whatever the order of hash sets.
LEMMA ResolveOfSet ==
  ASSUME NEW s, NEW t, Range(s) = Range(t), NEW pdus, NEW h, NEW g
  PROVE  resolve(s, pdus, h) = resolve(t, pdus, g)
<1>1. separate(s) = separate(t) /\ (Conflicted(s) <=> Conflicted(t))
  BY PartitionOfSet
<1>2. FullConflict(s, pdus) = FullConflict(t, pdus)
  BY <1>1, ChainsOfSet DEF FullConflict
<1>. DEFINE B == separate(t).unconflicted
            F == FullConflict(t, pdus)
<1>3. Iterated(B, F, pdus, h) = Iterated(B, F, pdus, g)
  BY IteratedIgnoresHash
<1>. QED
  BY <1>1, <1>2, <1>3 DEF resolve

-----------------------------------------------------------------------------
(* The engine's state.                                                     *)

\* What a worker may come up with.
Got == {separate(job.states).unconflicted : job \in Jobs}
         \cup UNION {{resolve(job.states, job.pdus, hash) : hash \in HashOrders} : job \in Jobs}

LEMMA GotIsSome == None \notin Got
BY ResolutionAssumption DEF Got, ResolutionAssumption

WorkerStates == {"fetch", "lookup", "resolve", "insert", "store", "done"}
WorkerState  == [pc : WorkerStates, job : Nat, resolved : Got \cup {None}]
CacheEntry   == [key : {input_key(job.states) : job \in Jobs}, value : Got]
Answer       == [job : Jobs, got : Got]
SequentialState ==
  [cache : SUBSET CacheEntry, hits : Nat, misses : Nat, history : Seq(Answer)]

EngineType ==
  /\ batches \in Seq(Seq(Jobs))
  /\ jobs \in Seq(Jobs)
  /\ next \in Nat \ {0}
  /\ worker \in [Workers -> WorkerState]
  /\ results \in [DOMAIN jobs -> Got \cup {None}]
  /\ cache \in SUBSET CacheEntry
  /\ hits \in Nat /\ misses \in Nat
  /\ history \in Seq(Answer)
  /\ sequential \in SequentialState

\* A worker holds a job from when it fetched it to when it stored the result.
Holding ==
  \A w \in Workers :
    /\ worker[w].pc \in {"fetch", "done"} <=> worker[w].job = 0
    /\ worker[w].job # 0 => /\ worker[w].job \in DOMAIN jobs
                            /\ worker[w].job < next
                            /\ results[worker[w].job] = None
    /\ worker[w].pc \in {"insert", "store"} => worker[w].resolved \in Got

Exclusive ==
  \A v, w \in Workers : worker[v].job = worker[w].job /\ worker[v].job # 0 => v = w

\* What was fetched is answered or held; the rest is not answered.
Covered ==
  \A i \in DOMAIN jobs :
    /\ i < next => results[i] # None \/ \E w \in Workers : worker[w].job = i
    /\ i >= next => results[i] = None

Finished == {w \in Workers : worker[w].pc = "done"}

\* A worker stops when nothing is left, and each stops once.
Stopping ==
  /\ \A w \in Finished : next > Len(jobs)
  /\ next <= Len(jobs) + 1 + Cardinality(Finished)

EngineInv == EngineType /\ Holding /\ Exclusive /\ Covered /\ Stopping

\* One worker moves.
Moved(w, pc, job, value) ==
  worker' = [worker EXCEPT ![w] = [pc |-> pc, job |-> job, resolved |-> value]]

LEMMA MovedOnly ==
  ASSUME EngineType, NEW w \in Workers, NEW pc \in WorkerStates, NEW job \in Nat,
         NEW value \in Got \cup {None}, Moved(w, pc, job, value)
  PROVE  /\ worker' \in [Workers -> WorkerState]
         /\ worker'[w].pc = pc /\ worker'[w].job = job /\ worker'[w].resolved = value
         /\ \A v \in Workers \ {w} : worker'[v] = worker[v]
<1>. DEFINE x == [pc |-> pc, job |-> job, resolved |-> value]
<1>1. worker \in [Workers -> WorkerState]
  BY DEF EngineType
<1>2. x \in WorkerState /\ x.pc = pc /\ x.job = job /\ x.resolved = value
  BY DEF WorkerState
<1>3. worker' = [worker EXCEPT ![w] = x]
  BY DEF Moved
<1>. HIDE DEF x
<1>. QED
  BY <1>1, <1>2, <1>3

LEMMA WorkerFields ==
  ASSUME EngineType, NEW w \in Workers
  PROVE  /\ worker[w].pc \in WorkerStates /\ worker[w].job \in Nat
         /\ worker[w].resolved \in Got \cup {None}
         /\ worker[w] = [pc |-> worker[w].pc, job |-> worker[w].job,
                         resolved |-> worker[w].resolved]
<1>1. worker[w] \in WorkerState
  BY DEF EngineType
<1>. QED
  BY <1>1 DEF WorkerState

LEMMA FetchMoves ==
  ASSUME EngineType, NEW w \in Workers, Fetch(w)
  PROVE  /\ next > Len(jobs) => Moved(w, "done", 0, None)
         /\ ~(next > Len(jobs)) => Moved(w, "lookup", next, None)
<1>1. [Idle EXCEPT !.pc = "done"] = [pc |-> "done", job |-> 0, resolved |-> None]
  BY DEF Idle
<1>2. [Idle EXCEPT !.pc = "lookup", !.job = next] = [pc |-> "lookup", job |-> next, resolved |-> None]
  <2>1. [Idle EXCEPT !.pc = "lookup"] = [pc |-> "lookup", job |-> 0, resolved |-> None]
    BY DEF Idle
  <2>2. [[pc |-> "lookup", job |-> 0, resolved |-> None] EXCEPT !.job = next]
          = [pc |-> "lookup", job |-> next, resolved |-> None]
    OBVIOUS
  <2>. QED
    BY <2>1, <2>2, Zenon
<1>. QED
  BY <1>1, <1>2 DEF Fetch, NoMoreJobs, Moved

\* A change of the fields pc and resolved, or of pc alone, leaves the job.
LEMMA OneField ==
  ASSUME NEW ws \in [Workers -> WorkerState], NEW w \in Workers, NEW pc
  PROVE  [ws EXCEPT ![w].pc = pc]
           = [ws EXCEPT ![w] = [pc |-> pc, job |-> ws[w].job, resolved |-> ws[w].resolved]]
<1>1. [ws[w] EXCEPT !.pc = pc] = [pc |-> pc, job |-> ws[w].job, resolved |-> ws[w].resolved]
  <2>. DEFINE x == ws[w]
  <2>1. x \in WorkerState
    OBVIOUS
  <2>. HIDE DEF x
  <2>2. [x EXCEPT !.pc = pc] = [pc |-> pc, job |-> x.job, resolved |-> x.resolved]
    BY <2>1 DEF WorkerState
  <2>. QED
    BY <2>2 DEF x
<1>2. [ws EXCEPT ![w].pc = pc] = [ws EXCEPT ![w] = [ws[w] EXCEPT !.pc = pc]]
  OBVIOUS
<1>. QED
  BY <1>1, <1>2

LEMMA FieldsMove ==
  ASSUME EngineType, NEW w \in Workers, NEW pc, NEW value
  PROVE  /\ worker' = [worker EXCEPT ![w].pc = pc, ![w].resolved = value]
              => Moved(w, pc, worker[w].job, value)
         /\ worker' = [worker EXCEPT ![w].pc = pc]
              => Moved(w, pc, worker[w].job, worker[w].resolved)
<1>. DEFINE j == worker[w].job
            u == worker[w].resolved
            x == [pc |-> pc, job |-> j, resolved |-> u]
            ws == [worker EXCEPT ![w] = x]
<1>1. worker \in [Workers -> WorkerState]
  BY DEF EngineType
<1>2. [worker EXCEPT ![w].pc = pc] = ws
  BY <1>1, OneField
<1>3. [ws EXCEPT ![w].resolved = value]
        = [worker EXCEPT ![w] = [pc |-> pc, job |-> j, resolved |-> value]]
  <2>1. [x EXCEPT !.resolved = value] = [pc |-> pc, job |-> j, resolved |-> value]
    OBVIOUS
  <2>. HIDE DEF x
  <2>2. ws[w] = x
    BY <1>1
  <2>3. [ws EXCEPT ![w].resolved = value] = [worker EXCEPT ![w] = [x EXCEPT !.resolved = value]]
    BY <1>1, <2>2
  <2>. QED
    BY <2>1, <2>3
<1>4. [worker EXCEPT ![w].pc = pc, ![w].resolved = value] = [ws EXCEPT ![w].resolved = value]
  BY <1>2
<1>. QED
  BY <1>2, <1>3, <1>4 DEF Moved

LEMMA KnownJob ==
  ASSUME EngineType, Holding, NEW w \in Workers, worker[w].pc \notin {"fetch", "done"}
  PROVE  /\ JobOf(w) \in Jobs /\ worker[w].job \in DOMAIN jobs
         /\ separate(JobOf(w).states).unconflicted \in Got
         /\ \A hash \in HashOrders : resolve(JobOf(w).states, JobOf(w).pdus, hash) \in Got
         /\ input_key(JobOf(w).states) \in {input_key(job.states) : job \in Jobs}
<1>1. worker[w].job \in DOMAIN jobs
  BY DEF Holding
<1>2. JobOf(w) \in Jobs
  BY <1>1 DEF JobOf, EngineType
<1>. QED
  BY <1>1, <1>2 DEF Got

\* What the cache gives was put there.
LEMMA CachedIsThere ==
  ASSUME NEW entries \in SUBSET CacheEntry, NEW key, Cached(entries, key) # {}
  PROVE  \E e \in entries : e.key = key /\ CachedValue(entries, key) = e.value /\ e.value \in Got
<1>1. (CHOOSE e \in Cached(entries, key) : TRUE) \in Cached(entries, key)
  OBVIOUS
<1>. QED
  BY <1>1 DEF Cached, CachedValue, CacheEntry

LEMMA InsertedType ==
  ASSUME NEW entries \in SUBSET CacheEntry, NEW value \in Got,
         NEW key \in {input_key(job.states) : job \in Jobs}
  PROVE  Inserted(entries, key, value) \in SUBSET CacheEntry
BY DEF Inserted, CacheEntry

LEMMA LookupMoves ==
  ASSUME EngineType, Holding, NEW w \in Workers, Lookup(w)
  PROVE  \E pc \in {"store", "resolve"}, value \in Got \cup {None} :
           /\ Moved(w, pc, worker[w].job, value)
           /\ pc = "store" => value \in Got
<1>1. separate(JobOf(w).states).unconflicted \in Got
  BY KnownJob DEF Lookup
<1>2. Cached(cache, input_key(JobOf(w).states)) # {}
        => CachedValue(cache, input_key(JobOf(w).states)) \in Got
  BY CachedIsThere DEF EngineType
<1>. QED
  BY <1>1, <1>2, FieldsMove DEF Lookup

LEMMA ResolveMoves ==
  ASSUME EngineType, Holding, NEW w \in Workers, Resolve(w)
  PROVE  \E value \in Got : Moved(w, "insert", worker[w].job, value)
BY KnownJob, FieldsMove DEF Resolve

LEMMA InsertMoves ==
  ASSUME EngineType, Holding, NEW w \in Workers, Insert(w)
  PROVE  Moved(w, "store", worker[w].job, worker[w].resolved) /\ worker[w].resolved \in Got
BY FieldsMove DEF Insert, Holding

LEMMA StoreMoves ==
  ASSUME EngineType, Holding, NEW w \in Workers, Store(w)
  PROVE  Moved(w, "fetch", 0, None) /\ worker[w].resolved \in Got
BY DEF Store, Released, Idle, Moved, Holding

\* What the sequential resolver makes of a job.
SequentialAnswer(r, job, hash, got, c, h, m) ==
  /\ SequentialStep(r, job, hash)
       = [cache |-> c, hits |-> h, misses |-> m,
          history |-> Append(r.history, [job |-> job, got |-> got])]
  /\ \/ /\ ~Conflicted(job.states) /\ got = separate(job.states).unconflicted
        /\ c = r.cache /\ h = r.hits /\ m = r.misses
     \/ /\ Conflicted(job.states) /\ h = r.hits + 1 /\ m = r.misses /\ c = r.cache
        /\ Cached(r.cache, input_key(job.states)) # {}
        /\ got = CachedValue(r.cache, input_key(job.states))
     \/ /\ Conflicted(job.states) /\ h = r.hits /\ m = r.misses + 1
        /\ got = resolve(job.states, job.pdus, hash)
        /\ c = Inserted(r.cache, input_key(job.states), got)

LEMMA SequentialType ==
  ASSUME NEW job \in Jobs, NEW hash \in HashOrders, NEW r \in SequentialState
  PROVE  \E got \in Got, c \in SUBSET CacheEntry, h \in Nat, m \in Nat :
           SequentialAnswer(r, job, hash, got, c, h, m)
<1>. DEFINE states == job.states
            key == input_key(states)
            plain == separate(states).unconflicted
            fresh == resolve(states, job.pdus, hash)
            With(got) == Append(r.history, [job |-> job, got |-> got])
<1>0. /\ r.cache \in SUBSET CacheEntry /\ r.hits \in Nat /\ r.misses \in Nat
      /\ r = [cache |-> r.cache, hits |-> r.hits, misses |-> r.misses, history |-> r.history]
  BY DEF SequentialState
<1>1. plain \in Got /\ fresh \in Got /\ key \in {input_key(j.states) : j \in Jobs}
  BY DEF Got
<1>. HIDE DEF key, plain, fresh, With, states
<1>2. CASE ~Conflicted(states)
  <2>1. [r EXCEPT !.history = With(plain)]
          = [cache |-> r.cache, hits |-> r.hits, misses |-> r.misses, history |-> With(plain)]
    BY <1>0
  <2>2. SequentialStep(r, job, hash) = [r EXCEPT !.history = With(plain)]
    BY <1>2 DEF SequentialStep, states, plain, With
  <2>. QED
    BY <1>0, <1>1, <1>2, <2>1, <2>2 DEF SequentialAnswer, With, states, plain
<1>3. CASE Conflicted(states) /\ Cached(r.cache, key) # {}
  <2>. DEFINE v == CachedValue(r.cache, key)
  <2>0. v \in Got
    BY <1>0, <1>3, CachedIsThere
  <2>1. [r EXCEPT !.hits = @ + 1]
          = [cache |-> r.cache, hits |-> r.hits + 1, misses |-> r.misses, history |-> r.history]
    BY <1>0
  <2>2. [[cache |-> r.cache, hits |-> r.hits + 1, misses |-> r.misses, history |-> r.history]
           EXCEPT !.history = With(v)]
          = [cache |-> r.cache, hits |-> r.hits + 1, misses |-> r.misses, history |-> With(v)]
    OBVIOUS
  <2>3. SequentialStep(r, job, hash) = [r EXCEPT !.hits = @ + 1, !.history = With(v)]
    BY <1>3 DEF SequentialStep, states, key, With
  <2>4. SequentialStep(r, job, hash)
          = [cache |-> r.cache, hits |-> r.hits + 1, misses |-> r.misses, history |-> With(v)]
    BY <2>1, <2>2, <2>3, Zenon
  <2>5. r.hits + 1 \in Nat
    BY <1>0
  <2>. QED
    BY <1>0, <1>3, <2>0, <2>4, <2>5 DEF SequentialAnswer, With, states, key
<1>4. CASE Conflicted(states) /\ Cached(r.cache, key) = {}
  <2>. DEFINE c == Inserted(r.cache, key, fresh)
  <2>0. c \in SUBSET CacheEntry
    BY <1>0, <1>1, InsertedType
  <2>. HIDE DEF c
  <2>1. [r EXCEPT !.misses = @ + 1]
          = [cache |-> r.cache, hits |-> r.hits, misses |-> r.misses + 1, history |-> r.history]
    BY <1>0
  <2>2. [[cache |-> r.cache, hits |-> r.hits, misses |-> r.misses + 1, history |-> r.history]
           EXCEPT !.cache = c]
          = [cache |-> c, hits |-> r.hits, misses |-> r.misses + 1, history |-> r.history]
    OBVIOUS
  <2>3. [[cache |-> c, hits |-> r.hits, misses |-> r.misses + 1, history |-> r.history]
           EXCEPT !.history = With(fresh)]
          = [cache |-> c, hits |-> r.hits, misses |-> r.misses + 1, history |-> With(fresh)]
    OBVIOUS
  <2>4. SequentialStep(r, job, hash)
          = [r EXCEPT !.misses = @ + 1, !.cache = Inserted(@, key, fresh), !.history = With(fresh)]
    BY <1>4 DEF SequentialStep, states, key, With, fresh
  <2>5. [r EXCEPT !.misses = @ + 1, !.cache = Inserted(@, key, fresh), !.history = With(fresh)]
          = [r EXCEPT !.misses = @ + 1, !.cache = c, !.history = With(fresh)]
    BY <2>1 DEF c
  <2>6. SequentialStep(r, job, hash)
          = [cache |-> c, hits |-> r.hits, misses |-> r.misses + 1, history |-> With(fresh)]
    BY <2>1, <2>2, <2>3, <2>4, <2>5, Zenon
  <2>7. r.misses + 1 \in Nat
    BY <1>0
  <2>. QED
    BY <1>0, <1>1, <1>4, <2>0, <2>6, <2>7 DEF SequentialAnswer, With, states, key, fresh, c
<1>. QED
  BY <1>2, <1>3, <1>4

-----------------------------------------------------------------------------
(* Every job is answered.                                                  *)

\* A record of these fields has this type.
LEMMA SequentialRecord ==
  ASSUME NEW c \in SUBSET CacheEntry, NEW h \in Nat, NEW m \in Nat,
         NEW log \in Seq(Answer), NEW job \in Jobs, NEW got \in Got
  PROVE  [cache |-> c, hits |-> h, misses |-> m,
          history |-> Append(log, [job |-> job, got |-> got])] \in SequentialState
<1>1. [job |-> job, got |-> got] \in Answer
  BY DEF Answer
<1>2. Append(log, [job |-> job, got |-> got]) \in Seq(Answer)
  BY <1>1
<1>. QED
  BY <1>2 DEF SequentialState

LEMMA SequentiallyType ==
  ASSUME EngineType, Sequentially(next)
  PROVE  sequential' \in SequentialState
<1>0. sequential \in SequentialState /\ sequential.history \in Seq(Answer)
  BY DEF EngineType, SequentialState
<1>1. CASE NoMoreJobs(next)
  BY <1>0, <1>1 DEF Sequentially
<1>2. CASE ~NoMoreJobs(next)
  <2>1. PICK hash \in HashOrders : sequential' = SequentialStep(sequential, jobs[next], hash)
    BY <1>2 DEF Sequentially
  <2>2. jobs[next] \in Jobs
    BY <1>2 DEF EngineType, NoMoreJobs
  <2>. DEFINE job == jobs[next]
  <2>. HIDE DEF job
  <2>3. PICK got \in Got, c \in SUBSET CacheEntry, h \in Nat, m \in Nat :
          SequentialAnswer(sequential, job, hash, got, c, h, m)
    BY <1>0, <2>2, SequentialType DEF job
  <2>. QED
    BY <1>0, <2>1, <2>2, <2>3, SequentialRecord DEF job, SequentialAnswer
<1>. QED
  BY <1>1, <1>2

\* A worker that goes on with its job, or has just stopped, or has just
\* fetched the next one, or has just stored its result.
Continues(w) ==
  \E pc \in {"resolve", "insert", "store"}, value \in Got \cup {None} :
    /\ worker[w].pc \in {"lookup", "resolve", "insert"}
    /\ Moved(w, pc, worker[w].job, value)
    /\ pc # "resolve" => value \in Got
    /\ UNCHANGED <<batches, jobs, next, results, history, sequential>>
    /\ cache' \in SUBSET CacheEntry /\ hits' \in Nat /\ misses' \in Nat

LEMMA WorkerShapes ==
  ASSUME EngineType, Holding, NEW w \in Workers, WorkerStep(w)
  PROVE  (Fetch(w) /\ Sequentially(next)) \/ Continues(w) \/ Store(w)
<1>0. cache \in SUBSET CacheEntry /\ hits \in Nat /\ misses \in Nat
  BY DEF EngineType
<1>1. CASE Lookup(w)
  <2>1. PICK pc \in {"store", "resolve"}, value \in Got \cup {None} :
          Moved(w, pc, worker[w].job, value) /\ (pc = "store" => value \in Got)
    BY <1>1, LookupMoves
  <2>2. hits' = hits \/ hits' = hits + 1
    BY <1>1 DEF Lookup
  <2>3. hits' \in Nat
    BY <1>0, <2>2
  <2>. QED
    BY <1>0, <1>1, <2>1, <2>3 DEF Lookup, Continues
<1>2. CASE Resolve(w)
  <2>1. PICK value \in Got : Moved(w, "insert", worker[w].job, value)
    BY <1>2, ResolveMoves
  <2>2. misses' \in Nat
    BY <1>0, <1>2 DEF Resolve, MissCounted
  <2>. QED
    BY <1>0, <1>2, <2>1, <2>2 DEF Resolve, Continues
<1>3. CASE Insert(w)
  <2>1. Moved(w, "store", worker[w].job, worker[w].resolved) /\ worker[w].resolved \in Got
    BY <1>3, InsertMoves
  <2>2. input_key(JobOf(w).states) \in {input_key(job.states) : job \in Jobs}
    BY <1>3, KnownJob DEF Insert
  <2>3. cache' \in SUBSET CacheEntry
    BY <1>0, <1>3, <2>1, <2>2, InsertedType DEF Insert
  <2>. QED
    BY <1>0, <1>3, <2>1, <2>3 DEF Insert, Continues
<1>. QED
  BY <1>1, <1>2, <1>3 DEF WorkerStep

LEMMA ContinuesStep ==
  ASSUME EngineInv, NEW w \in Workers, Continues(w)
  PROVE  EngineInv'
<1>0. EngineType /\ Holding /\ Exclusive /\ Covered /\ Stopping
  BY DEF EngineInv
<1>1. PICK pc \in {"resolve", "insert", "store"}, value \in Got \cup {None} :
        /\ worker[w].pc \in {"lookup", "resolve", "insert"}
        /\ Moved(w, pc, worker[w].job, value)
        /\ pc # "resolve" => value \in Got
        /\ UNCHANGED <<batches, jobs, next, results, history, sequential>>
        /\ cache' \in SUBSET CacheEntry /\ hits' \in Nat /\ misses' \in Nat
  BY DEF Continues
<1>2. worker[w].job \in Nat /\ pc \in WorkerStates
  BY <1>0, WorkerFields DEF WorkerStates
<1>3. /\ worker' \in [Workers -> WorkerState]
      /\ worker'[w].pc = pc /\ worker'[w].job = worker[w].job /\ worker'[w].resolved = value
      /\ \A v \in Workers \ {w} : worker'[v] = worker[v]
  BY <1>0, <1>1, <1>2, MovedOnly
<1>4. \A v \in Workers : worker'[v].job = worker[v].job
  BY <1>3
<1>5. EngineType'
  BY <1>0, <1>1, <1>3 DEF EngineType
<1>6. Holding'
  BY <1>0, <1>1, <1>3 DEF Holding
<1>7. Exclusive' /\ Covered'
  BY <1>0, <1>1, <1>4 DEF Exclusive, Covered
<1>8. Finished' = Finished
  BY <1>1, <1>3 DEF Finished
<1>9. Stopping'
  BY <1>0, <1>1, <1>8 DEF Stopping
<1>. QED
  BY <1>5, <1>6, <1>7, <1>9 DEF EngineInv

LEMMA StoreStep ==
  ASSUME EngineInv, NEW w \in Workers, Store(w)
  PROVE  EngineInv'
<1>0. EngineType /\ Holding /\ Exclusive /\ Covered /\ Stopping
  BY DEF EngineInv
<1>. DEFINE job == worker[w].job
<1>1. Moved(w, "fetch", 0, None) /\ worker[w].resolved \in Got /\ job \in DOMAIN jobs /\ job # 0
  BY <1>0, StoreMoves DEF Store, Holding
<1>2. /\ worker' \in [Workers -> WorkerState]
      /\ worker'[w].pc = "fetch" /\ worker'[w].job = 0
      /\ \A v \in Workers \ {w} : worker'[v] = worker[v]
  BY <1>0, <1>1, MovedOnly DEF WorkerStates
<1>3. /\ UNCHANGED <<batches, jobs, next, cache, hits, misses, history, sequential>>
      /\ results' = [results EXCEPT ![job] = worker[w].resolved]
  BY DEF Store
<1>4. results \in [DOMAIN jobs -> Got \cup {None}]
  BY <1>0 DEF EngineType
<1>5. /\ results' \in [DOMAIN jobs -> Got \cup {None}]
      /\ results'[job] # None
      /\ \A i \in DOMAIN jobs \ {job} : results'[i] = results[i]
  BY <1>1, <1>3, <1>4, GotIsSome
<1>6. EngineType'
  BY <1>0, <1>2, <1>3, <1>5 DEF EngineType
<1>7. \A v \in Workers \ {w} : worker[v].job # job
  BY <1>0, <1>1 DEF Exclusive
<1>8. Holding'
  BY <1>0, <1>2, <1>3, <1>5, <1>7 DEF Holding
<1>9. Exclusive'
  BY <1>0, <1>2 DEF Exclusive
<1>10. Covered'
  <2>0. job < next /\ job \in Nat /\ next \in Nat
    BY <1>0, <1>1, WorkerFields DEF Holding, EngineType
  <2>1. ASSUME NEW i \in DOMAIN jobs
        PROVE  /\ i < next => results'[i] # None \/ \E v \in Workers : worker'[v].job = i
               /\ i >= next => results'[i] = None
    <3>1. CASE i = job
      BY <1>5, <2>0, <3>1
    <3>2. CASE i # job
      <4>1. results'[i] = results[i]
        BY <1>5, <3>2
      <4>2. \A v \in Workers : worker[v].job = i => worker'[v].job = i
        BY <1>2, <3>2
      <4>. QED
        BY <1>0, <4>1, <4>2 DEF Covered
    <3>. QED
      BY <3>1, <3>2
  <2>. QED
    BY <1>3, <2>1 DEF Covered
<1>11. Finished' = Finished
  BY <1>2 DEF Finished, Store
<1>12. Stopping'
  BY <1>0, <1>3, <1>11 DEF Stopping
<1>. QED
  BY <1>6, <1>8, <1>9, <1>10, <1>12 DEF EngineInv

LEMMA FinishedFinite ==
  EngineType => IsFiniteSet(Finished) /\ Cardinality(Finished) \in Nat
                /\ Cardinality(Finished) <= Cardinality(Workers)
                /\ Cardinality(Workers) \in Nat
<1>1. Finished \in SUBSET Workers
  BY DEF Finished
<1>2. IsFiniteSet(Workers)
  BY EngineAssumption DEF EngineAssumption
<1>. QED
  BY <1>1, <1>2, FS_Subset, FS_CardinalityType

LEMMA FetchStep ==
  ASSUME EngineInv, NEW w \in Workers, Fetch(w), Sequentially(next)
  PROVE  EngineInv'
<1>0. EngineType /\ Holding /\ Exclusive /\ Covered /\ Stopping
  BY DEF EngineInv
<1>1. /\ next \in Nat /\ next # 0 /\ Len(jobs) \in Nat /\ jobs \in Seq(Jobs)
      /\ DOMAIN jobs = 1..Len(jobs)
  BY <1>0 DEF EngineType
<1>2. /\ next' = next + 1 /\ worker[w].pc = "fetch"
      /\ UNCHANGED <<batches, jobs, results, cache, hits, misses, history>>
  BY DEF Fetch
<1>3. sequential' \in SequentialState
  BY <1>0, SequentiallyType
<1>4. \A v \in Workers : worker[v].job \in Nat
  BY <1>0, WorkerFields
<1>5. IsFiniteSet(Finished) /\ Cardinality(Finished) \in Nat
  BY <1>0, FinishedFinite
<1>6. CASE next > Len(jobs)
  <2>1. /\ worker' \in [Workers -> WorkerState]
        /\ worker'[w].pc = "done" /\ worker'[w].job = 0
        /\ \A v \in Workers \ {w} : worker'[v] = worker[v]
    BY <1>0, <1>6, FetchMoves, MovedOnly DEF WorkerStates
  <2>2. EngineType'
    BY <1>0, <1>1, <1>2, <1>3, <2>1 DEF EngineType
  <2>3. worker[w].job = 0
    BY <1>0, <1>2 DEF Holding
  <2>4. \A v \in Workers : worker'[v].job = worker[v].job
    BY <2>1, <2>3
  <2>5. Holding'
    BY <1>0, <1>1, <1>2, <1>4, <2>1 DEF Holding
  <2>6. Exclusive'
    BY <1>0, <2>4 DEF Exclusive
  <2>7. Covered'
    BY <1>0, <1>1, <1>2, <1>6, <2>4 DEF Covered
  <2>8. Finished' = Finished \cup {w} /\ w \notin Finished
    BY <1>2, <2>1 DEF Finished
  <2>9. Cardinality(Finished') = Cardinality(Finished) + 1
    BY <1>5, <2>8, FS_AddElement
  <2>10. next' > Len(jobs') /\ next' <= Len(jobs') + 1 + Cardinality(Finished')
    BY <1>0, <1>1, <1>2, <1>5, <1>6, <2>9 DEF Stopping
  <2>. QED
    BY <2>2, <2>5, <2>6, <2>7, <2>10 DEF EngineInv, Stopping
<1>7. CASE ~(next > Len(jobs))
  <2>1. /\ worker' \in [Workers -> WorkerState]
        /\ worker'[w].pc = "lookup" /\ worker'[w].job = next
        /\ \A v \in Workers \ {w} : worker'[v] = worker[v]
    BY <1>0, <1>1, <1>7, FetchMoves, MovedOnly DEF WorkerStates
  <2>2. EngineType'
    BY <1>0, <1>1, <1>2, <1>3, <2>1 DEF EngineType
  <2>3. next \in DOMAIN jobs /\ results[next] = None
    BY <1>0, <1>1, <1>7 DEF Covered
  <2>4. \A v \in Workers : worker[v].job # 0 => worker[v].job < next
    BY <1>0 DEF Holding
  <2>5. Holding'
    BY <1>0, <1>1, <1>2, <1>4, <2>1, <2>3 DEF Holding
  <2>6. Exclusive'
    BY <1>0, <1>1, <1>4, <2>1, <2>4 DEF Exclusive
  <2>7. worker[w].job = 0
    BY <1>0, <1>2 DEF Holding
  <2>8. Covered'
    <3>1. ASSUME NEW i \in DOMAIN jobs
          PROVE  /\ i < next + 1 => results[i] # None \/ \E v \in Workers : worker'[v].job = i
                 /\ i >= next + 1 => results[i] = None
      <4>1. CASE i = next
        BY <1>1, <2>1, <4>1
      <4>2. CASE i # next
        <5>1. \A v \in Workers : worker[v].job = i => worker'[v].job = i
          BY <1>1, <2>1, <2>7
        <5>2. i \in Nat /\ (i < next + 1 => i < next) /\ (i >= next + 1 => i >= next)
          BY <1>1, <4>2
        <5>. QED
          BY <1>0, <5>1, <5>2 DEF Covered
      <4>. QED
        BY <4>1, <4>2
    <3>. QED
      BY <1>2, <3>1 DEF Covered
  <2>9. Finished = {}
    BY <1>0, <1>7 DEF Stopping
  <2>10. Finished' = {}
    BY <1>2, <2>1, <2>9 DEF Finished
  <2>11. Stopping'
    BY <1>1, <1>2, <1>7, <2>10, FS_EmptySet DEF Stopping
  <2>. QED
    BY <2>2, <2>5, <2>6, <2>8, <2>11 DEF EngineInv
<1>. QED
  BY <1>6, <1>7

LEMMA AllAnswered ==
  ASSUME EngineInv, BatchDone
  PROVE  results \in [DOMAIN jobs -> Got]
<1>1. PICK w \in Workers : TRUE
  BY EngineAssumption DEF EngineAssumption
<1>2. w \in Finished
  BY DEF BatchDone, Finished
<1>3. next > Len(jobs) /\ next \in Nat /\ jobs \in Seq(Jobs)
  BY <1>2 DEF EngineInv, Stopping, EngineType
<1>4. \A v \in Workers : worker[v].job = 0
  BY DEF EngineInv, Holding, BatchDone
<1>5. \A i \in DOMAIN jobs : results[i] # None
  BY <1>3, <1>4 DEF EngineInv, Covered
<1>6. results \in [DOMAIN jobs -> Got \cup {None}]
  BY DEF EngineInv, EngineType
<1>. QED
  BY <1>5, <1>6

\* What the batch under way adds to the history.
Batch == [i \in DOMAIN jobs |-> [job |-> jobs[i], got |-> results[i]]]

LEMMA BatchType ==
  ASSUME NEW js \in Seq(Jobs), NEW rs \in [DOMAIN js -> Got]
  PROVE  [i \in DOMAIN js |-> [job |-> js[i], got |-> rs[i]]] \in Seq(Answer)
<1>1. \A i \in DOMAIN js : [job |-> js[i], got |-> rs[i]] \in Answer
  BY DEF Answer
<1>. DEFINE f == [i \in DOMAIN js |-> [job |-> js[i], got |-> rs[i]]]
<1>2. DOMAIN f = 1..Len(js) /\ Len(js) \in Nat
  OBVIOUS
<1>3. \A i \in 1..Len(js) : f[i] \in Answer
  BY <1>1, <1>2
<1>. HIDE DEF f
<1>4. f \in [1..Len(js) -> Answer]
  <2>1. f = [i \in DOMAIN f |-> f[i]]
    BY DEF f
  <2>. QED
    BY <1>2, <1>3, <2>1
<1>5. f \in Seq(Answer)
  BY <1>2, <1>4
<1>. QED
  BY <1>5 DEF f

LEMMA NextBatchStep ==
  ASSUME EngineInv, NextBatch
  PROVE  EngineInv'
<1>0. EngineType
  BY DEF EngineInv
<1>1. /\ history' = history \o Batch /\ jobs' = Head(batches) /\ batches' = Tail(batches)
      /\ next' = 1 /\ results' = [i \in DOMAIN jobs' |-> None]
      /\ worker' = [w \in Workers |-> Idle]
      /\ UNCHANGED <<cache, hits, misses, sequential>>
      /\ BatchDone /\ batches # <<>>
  BY DEF NextBatch, Collected, Batch
<1>2. jobs' \in Seq(Jobs) /\ batches' \in Seq(Seq(Jobs))
  BY <1>0, <1>1 DEF EngineType
<1>3. Batch \in Seq(Answer)
  BY <1>0, <1>1, AllAnswered, BatchType DEF Batch, EngineType
<1>4. history' \in Seq(Answer)
  BY <1>0, <1>1, <1>3 DEF EngineType
<1>5. Idle \in WorkerState /\ Idle.pc = "fetch" /\ Idle.job = 0
  BY DEF Idle, WorkerState, WorkerStates
<1>6. EngineType'
  BY <1>0, <1>1, <1>2, <1>4, <1>5 DEF EngineType
<1>7. \A w \in Workers : worker'[w].pc = "fetch" /\ worker'[w].job = 0
  BY <1>1, <1>5
<1>8. Holding' /\ Exclusive'
  BY <1>7 DEF Holding, Exclusive
<1>9. Covered'
  BY <1>1, <1>2 DEF Covered
<1>10. Finished' = {}
  BY <1>7 DEF Finished
<1>11. Stopping'
  BY <1>1, <1>2, <1>10, FS_EmptySet DEF Stopping
<1>. QED
  BY <1>6, <1>8, <1>9, <1>11 DEF EngineInv

LEMMA EngineInit == Init => EngineInv
<1>. SUFFICES ASSUME Init PROVE EngineInv
  OBVIOUS
<1>1. /\ batches \in Seq(Seq(Jobs)) /\ jobs = <<>> /\ next = 1 /\ results = <<>>
      /\ worker = [w \in Workers |-> [Idle EXCEPT !.pc = "done"]]
      /\ cache = {} /\ hits = 0 /\ misses = 0 /\ history = <<>>
      /\ sequential = [cache |-> {}, hits |-> 0, misses |-> 0, history |-> <<>>]
  BY EngineAssumption DEF Init, EngineAssumption
<1>2. [Idle EXCEPT !.pc = "done"] = [pc |-> "done", job |-> 0, resolved |-> None]
  BY DEF Idle
<1>3. \A w \in Workers : worker[w] = [pc |-> "done", job |-> 0, resolved |-> None]
  BY <1>1, <1>2
<1>4. \A w \in Workers : worker[w].pc = "done" /\ worker[w].job = 0 /\ worker[w] \in WorkerState
  BY <1>3 DEF WorkerState, WorkerStates
<1>5. worker \in [Workers -> WorkerState]
  BY <1>1, <1>4
<1>6. sequential \in SequentialState
  BY <1>1 DEF SequentialState
<1>7. EngineType
  BY <1>1, <1>5, <1>6 DEF EngineType
<1>8. Holding /\ Exclusive /\ Covered
  <2>1. Holding /\ Exclusive
    BY <1>4 DEF Holding, Exclusive
  <2>2. DOMAIN jobs = {}
    BY <1>1
  <2>3. Covered
    BY <2>2 DEF Covered
  <2>. QED
    BY <2>1, <2>3
<1>9. Stopping
  BY <1>1, <1>7, FinishedFinite DEF Stopping
<1>. QED
  BY <1>7, <1>8, <1>9 DEF EngineInv

LEMMA EngineStep == EngineInv /\ [Next]_vars => EngineInv'
<1>. SUFFICES ASSUME EngineInv, [Next]_vars PROVE EngineInv'
  OBVIOUS
<1>1. ASSUME NEW w \in Workers, WorkerStep(w) PROVE EngineInv'
  BY <1>1, WorkerShapes, FetchStep, ContinuesStep, StoreStep DEF EngineInv
<1>2. CASE UNCHANGED vars
  BY <1>2 DEF vars, EngineInv, EngineType, Holding, Exclusive, Covered, Stopping, Finished
<1>. QED
  BY <1>1, <1>2, NextBatchStep DEF Next

LEMMA EngineCorrect == Spec => []EngineInv
BY EngineInit, EngineStep, PTL DEF Spec

(* The engine keeps its types, and the index of the next job never passes the
   batch by more than the one fetch with which each worker stops
   (fetch_add in resolve_batch), whatever the number of workers. *)
THEOREM ResolverTypes == Spec => []ResolverTypeOK
<1>1. EngineInv => ResolverTypeOK
  <2>. SUFFICES ASSUME EngineInv PROVE ResolverTypeOK
    OBVIOUS
  <2>1. EngineType /\ Holding /\ Stopping
    BY DEF EngineInv
  <2>2. next \in 1..Len(jobs) + 1 + Cardinality(Workers)
    BY <2>1, FinishedFinite DEF EngineType, Stopping
  <2>3. \A w \in Workers : worker[w].pc \in WorkerStates
    BY <2>1, WorkerFields
  <2>. QED
    BY <2>1, <2>2, <2>3 DEF ResolverTypeOK, EngineType, Holding, WorkerStates
<1>. QED
  BY <1>1, EngineCorrect, PTL

(* When every worker has stopped no job is left without a result, so the
   unwrap of each slot in resolve_batch cannot panic: for any number of
   workers, batches and interleavings. *)
THEOREM NoJobLeftOut == Spec => []EveryJobAnswered
<1>1. EngineInv => EveryJobAnswered
  BY AllAnswered, GotIsSome DEF EveryJobAnswered, Range
<1>. QED
  BY <1>1, EngineCorrect, PTL

-----------------------------------------------------------------------------
(* Every answer is the resolution of an input with the same key.           *)

Resolution(job) == resolve(job.states, job.pdus, <<>>)

LEMMA ResolutionMeans ==
  ASSUME NEW job
  PROVE  /\ \A hash : resolve(job.states, job.pdus, hash) = Resolution(job)
         /\ ~Conflicted(job.states) => separate(job.states).unconflicted = Resolution(job)
<1>1. \A hash : resolve(job.states, job.pdus, hash) = resolve(job.states, job.pdus, <<>>)
  BY ResolveOfSet
<1>2. ~Conflicted(job.states)
        => separate(job.states).unconflicted = resolve(job.states, job.pdus, <<>>)
  BY DEF resolve
<1>. QED
  BY <1>1, <1>2 DEF Resolution

\* The jobs the engine and the sequential resolver were given.
Asked ==
  {history[i].job : i \in DOMAIN history}
    \cup {sequential.history[i].job : i \in DOMAIN sequential.history}
    \cup Range(jobs)

From(asked, job, got) ==
  \E c \in asked : input_key(c.states) = input_key(job.states) /\ got = Resolution(c)

ValidCache(asked, entries) ==
  \A e \in entries : \E c \in asked : e.key = input_key(c.states) /\ e.value = Resolution(c)

ValidLog(asked, log) == \A i \in DOMAIN log : From(asked, log[i].job, log[i].got)

Sound ==
  /\ ValidCache(Asked, cache) /\ ValidCache(Asked, sequential.cache)
  /\ ValidLog(Asked, history) /\ ValidLog(Asked, sequential.history)
  /\ \A w \in Workers :
       worker[w].pc \in {"insert", "store"} => From(Asked, JobOf(w), worker[w].resolved)
  /\ \A i \in DOMAIN jobs : results[i] # None => From(Asked, jobs[i], results[i])

LEMMA FromGrows ==
  ASSUME NEW A, NEW B, A \subseteq B, NEW entries, NEW log
  PROVE  /\ \A job, got : From(A, job, got) => From(B, job, got)
         /\ ValidCache(A, entries) => ValidCache(B, entries)
         /\ ValidLog(A, log) => ValidLog(B, log)
BY DEF From, ValidCache, ValidLog

LEMMA CachedIsFrom ==
  ASSUME NEW asked, NEW entries \in SUBSET CacheEntry, ValidCache(asked, entries), NEW job,
         Cached(entries, input_key(job.states)) # {}
  PROVE  From(asked, job, CachedValue(entries, input_key(job.states)))
<1>1. PICK e \in entries : /\ e.key = input_key(job.states)
                           /\ CachedValue(entries, input_key(job.states)) = e.value
  BY CachedIsThere
<1>. QED
  BY <1>1 DEF ValidCache, From

LEMMA InsertedIsFrom ==
  ASSUME NEW asked, NEW entries, ValidCache(asked, entries), NEW job, NEW got,
         From(asked, job, got)
  PROVE  ValidCache(asked, Inserted(entries, input_key(job.states), got))
<1>1. PICK c \in asked : input_key(c.states) = input_key(job.states) /\ got = Resolution(c)
  BY DEF From
<1>. DEFINE k == input_key(job.states)
<1>. HIDE DEF k
<1>2. \A e \in Inserted(entries, k, got) : e \in entries \/ (e.key = k /\ e.value = got)
  BY DEF Inserted
<1>. QED
  BY <1>1, <1>2 DEF ValidCache, k

LEMMA OwnResolution ==
  ASSUME NEW asked, NEW job \in asked
  PROVE  /\ \A hash : From(asked, job, resolve(job.states, job.pdus, hash))
         /\ ~Conflicted(job.states) => From(asked, job, separate(job.states).unconflicted)
BY ResolutionMeans DEF From

LEMMA LogGrows ==
  ASSUME NEW asked, NEW log \in Seq(Answer), ValidLog(asked, log), NEW a \in Answer,
         From(asked, a.job, a.got)
  PROVE  ValidLog(asked, Append(log, a))
BY DEF ValidLog

\* The sequential resolver's answers come from jobs it has been given.
LEMMA SequentialSound ==
  ASSUME NEW asked, NEW job \in Jobs, job \in asked, NEW hash \in HashOrders,
         NEW r \in SequentialState, ValidCache(asked, r.cache), ValidLog(asked, r.history)
  PROVE  /\ ValidCache(asked, SequentialStep(r, job, hash).cache)
         /\ ValidLog(asked, SequentialStep(r, job, hash).history)
<1>1. PICK got \in Got, c \in SUBSET CacheEntry, h \in Nat, m \in Nat :
        SequentialAnswer(r, job, hash, got, c, h, m)
  BY SequentialType
<1>2. From(asked, job, got) /\ ValidCache(asked, c)
  <2>0. r.cache \in SUBSET CacheEntry
    BY DEF SequentialState
  <2>1. CASE ~Conflicted(job.states)
    BY <1>1, <2>1, OwnResolution DEF SequentialAnswer
  <2>2. CASE /\ Conflicted(job.states) /\ c = r.cache
             /\ Cached(r.cache, input_key(job.states)) # {}
             /\ got = CachedValue(r.cache, input_key(job.states))
    BY <2>0, <2>2, CachedIsFrom
  <2>3. CASE /\ Conflicted(job.states) /\ got = resolve(job.states, job.pdus, hash)
             /\ c = Inserted(r.cache, input_key(job.states), got)
    BY <2>3, OwnResolution, InsertedIsFrom
  <2>. QED
    BY <1>1, <2>1, <2>2, <2>3 DEF SequentialAnswer
<1>. DEFINE a == [job |-> job, got |-> got]
<1>3. a \in Answer /\ a.job = job /\ a.got = got
  BY DEF Answer
<1>. HIDE DEF a
<1>4. ValidLog(asked, Append(r.history, a))
  BY <1>2, <1>3, LogGrows DEF SequentialState
<1>5. SequentialStep(r, job, hash)
        = [cache |-> c, hits |-> h, misses |-> m, history |-> Append(r.history, a)]
  BY <1>1 DEF SequentialAnswer, a
<1>. QED
  BY <1>2, <1>4, <1>5

\* What has been asked stays asked: a batch that is collected is all answered.
LEMMA AskedGrows ==
  ASSUME EngineInv, [Next]_vars
  PROVE  Asked \subseteq Asked'
<1>0. /\ history \in Seq(Answer) /\ sequential.history \in Seq(Answer)
      /\ jobs \in Seq(Jobs) /\ sequential \in SequentialState /\ next \in Nat \ {0}
  BY DEF EngineInv, EngineType, SequentialState
<1>1. ASSUME NEW w \in Workers, Fetch(w), Sequentially(next) PROVE Asked \subseteq Asked'
  <2>1. UNCHANGED <<jobs, history>>
    BY <1>1 DEF Fetch
  <2>2. CASE NoMoreJobs(next)
    BY <1>1, <2>1, <2>2 DEF Sequentially, Asked
  <2>3. CASE ~NoMoreJobs(next)
    <3>1. PICK hash \in HashOrders : sequential' = SequentialStep(sequential, jobs[next], hash)
      BY <1>1, <2>3 DEF Sequentially
    <3>2. jobs[next] \in Jobs
      BY <1>0, <2>3 DEF NoMoreJobs
    <3>3. PICK got \in Got, c \in SUBSET CacheEntry, h \in Nat, m \in Nat :
            SequentialAnswer(sequential, jobs[next], hash, got, c, h, m)
      BY <1>0, <3>2, SequentialType
    <3>4. sequential'.history = Append(sequential.history, [job |-> jobs[next], got |-> got])
      BY <3>1, <3>3 DEF SequentialAnswer
    <3>5. \A i \in DOMAIN sequential.history :
            /\ i \in DOMAIN sequential'.history
            /\ sequential'.history[i] = sequential.history[i]
      BY <1>0, <3>4
    <3>. QED
      BY <2>1, <3>5 DEF Asked
  <2>. QED
    BY <2>2, <2>3
<1>2. ASSUME NEW w \in Workers, Continues(w) \/ Store(w) PROVE Asked \subseteq Asked'
  BY <1>2 DEF Continues, Store, Asked
<1>3. CASE NextBatch
  <2>1. history' = history \o Batch /\ sequential' = sequential /\ BatchDone
    BY <1>3 DEF NextBatch, Collected, Batch
  <2>2. Batch \in Seq(Answer) /\ DOMAIN Batch = DOMAIN jobs
        /\ \A i \in DOMAIN jobs : Batch[i].job = jobs[i]
    BY <1>0, <2>1, AllAnswered, BatchType DEF Batch
  <2>3. \A i \in DOMAIN history : i \in DOMAIN history' /\ history'[i] = history[i]
    BY <1>0, <2>1, <2>2
  <2>4. \A i \in DOMAIN Batch : /\ Len(history) + i \in DOMAIN history'
                                /\ history'[Len(history) + i] = Batch[i]
    BY <1>0, <2>1, <2>2
  <2>5. Range(jobs) \subseteq {history'[i].job : i \in DOMAIN history'}
    BY <2>2, <2>4 DEF Range
  <2>. QED
    BY <2>1, <2>3, <2>5 DEF Asked
<1>4. CASE UNCHANGED vars
  BY <1>4 DEF vars, Asked
<1>. QED
  BY <1>1, <1>2, <1>3, <1>4, WorkerShapes DEF Next, EngineInv

LEMMA HeldIsAsked ==
  ASSUME EngineInv, NEW w \in Workers, worker[w].pc \notin {"fetch", "done"}
  PROVE  JobOf(w) \in Asked
<1>1. worker[w].job \in DOMAIN jobs
  BY KnownJob DEF EngineInv
<1>. QED
  BY <1>1 DEF JobOf, Asked, Range

\* A step of a worker that leaves the logs and the results alone.
LEMMA ContinuesSound ==
  ASSUME EngineInv, Sound, Asked \subseteq Asked', NEW w \in Workers, Continues(w),
         ValidCache(Asked, cache'),
         worker'[w].pc \in {"insert", "store"} => From(Asked, JobOf(w), worker'[w].resolved)
  PROVE  Sound'
<1>1. PICK pc \in {"resolve", "insert", "store"}, value \in Got \cup {None} :
        /\ Moved(w, pc, worker[w].job, value)
        /\ UNCHANGED <<jobs, results, history, sequential>>
  BY DEF Continues
<1>2. worker[w].job \in Nat /\ pc \in WorkerStates /\ EngineType
  BY WorkerFields DEF WorkerStates, EngineInv
<1>3. /\ worker'[w].job = worker[w].job
      /\ \A v \in Workers \ {w} : worker'[v] = worker[v]
  BY <1>1, <1>2, MovedOnly
<1>4. \A v \in Workers : jobs'[worker'[v].job] = JobOf(v)
  BY <1>1, <1>3 DEF JobOf
<1>5. \A v \in Workers :
        worker'[v].pc \in {"insert", "store"} => From(Asked, JobOf(v), worker'[v].resolved)
  BY <1>3 DEF Sound
<1>6. \A v \in Workers :
        worker'[v].pc \in {"insert", "store"}
          => From(Asked', jobs'[worker'[v].job], worker'[v].resolved)
  BY <1>4, <1>5, FromGrows
<1>7. \A i \in DOMAIN jobs' : results'[i] # None => From(Asked', jobs'[i], results'[i])
  BY <1>1, FromGrows DEF Sound
<1>8. /\ ValidCache(Asked', cache') /\ ValidCache(Asked', sequential'.cache)
      /\ ValidLog(Asked', history') /\ ValidLog(Asked', sequential'.history)
  BY <1>1, FromGrows DEF Sound
<1>. QED
  BY <1>6, <1>7, <1>8 DEF Sound, JobOf, From, ValidCache, ValidLog, Resolution

LEMMA WorkerSound ==
  ASSUME EngineInv, Sound, Asked \subseteq Asked', NEW w \in Workers,
         Lookup(w) \/ Resolve(w) \/ Insert(w)
  PROVE  Sound'
<1>0. EngineType /\ Holding /\ ValidCache(Asked, cache) /\ cache \in SUBSET CacheEntry
  BY DEF EngineInv, EngineType, Sound
<1>1. WorkerStep(w) /\ worker[w].pc \notin {"fetch", "done"}
  BY DEF WorkerStep, Lookup, Resolve, Insert
<1>2. Continues(w)
  BY <1>0, <1>1, WorkerShapes DEF Lookup, Resolve, Insert, Fetch, Store
<1>3. JobOf(w) \in Asked /\ JobOf(w) \in Jobs
  BY <1>0, <1>1, HeldIsAsked, KnownJob
<1>. DEFINE job == JobOf(w)
            key == input_key(job.states)
<1>4. ASSUME NEW pc \in WorkerStates, NEW value \in Got \cup {None},
             Moved(w, pc, worker[w].job, value)
      PROVE  worker'[w].pc = pc /\ worker'[w].resolved = value
  <2>1. worker[w].job \in Nat
    BY <1>0, WorkerFields
  <2>. QED
    BY <1>0, <1>4, <2>1, MovedOnly
<1>5. CASE Lookup(w)
  <2>1. cache' = cache
    BY <1>5 DEF Lookup
  <2>2. CASE /\ ~Conflicted(job.states)
             /\ worker' = [worker EXCEPT ![w].pc = "store",
                                         ![w].resolved = separate(job.states).unconflicted]
    <3>1. worker'[w].resolved = separate(job.states).unconflicted
      BY <1>0, <1>1, <1>4, <2>2, FieldsMove, KnownJob DEF WorkerStates
    <3>. QED
      BY <1>0, <1>2, <1>3, <2>1, <2>2, <3>1, OwnResolution, ContinuesSound
  <2>3. CASE /\ Cached(cache, key) # {}
             /\ worker' = [worker EXCEPT ![w].pc = "store",
                                         ![w].resolved = CachedValue(cache, key)]
    <3>0. CachedValue(cache, key) \in Got
      BY <1>0, <2>3, CachedIsThere
    <3>1. worker'[w].resolved = CachedValue(cache, key)
      BY <1>0, <1>4, <2>3, <3>0, FieldsMove DEF WorkerStates
    <3>2. From(Asked, JobOf(w), CachedValue(cache, key))
      BY <1>0, <2>3, CachedIsFrom
    <3>. QED
      BY <1>0, <1>2, <2>1, <3>1, <3>2, ContinuesSound
  <2>4. CASE worker' = [worker EXCEPT ![w].pc = "resolve", ![w].resolved = None]
    <3>1. worker'[w].pc = "resolve"
      BY <1>0, <1>4, <2>4, FieldsMove DEF WorkerStates
    <3>. QED
      BY <1>0, <1>2, <2>1, <3>1, ContinuesSound
  <2>. QED
    BY <1>5, <2>2, <2>3, <2>4 DEF Lookup
<1>6. CASE Resolve(w)
  <2>1. PICK hash \in HashOrders :
          worker' = [worker EXCEPT ![w].pc = "insert",
                                   ![w].resolved = resolve(job.states, job.pdus, hash)]
    BY <1>6 DEF Resolve
  <2>2. cache' = cache
    BY <1>6 DEF Resolve
  <2>3. worker'[w].resolved = resolve(job.states, job.pdus, hash)
    BY <1>0, <1>1, <1>4, <2>1, FieldsMove, KnownJob DEF WorkerStates
  <2>. QED
    BY <1>0, <1>2, <1>3, <2>2, <2>3, OwnResolution, ContinuesSound
<1>7. CASE Insert(w)
  <2>1. worker'[w].resolved = worker[w].resolved
    BY <1>0, <1>4, <1>7, InsertMoves DEF WorkerStates
  <2>2. From(Asked, JobOf(w), worker[w].resolved)
    BY <1>7 DEF Insert, Sound
  <2>3. ValidCache(Asked, cache')
    BY <1>0, <1>7, <2>2, InsertedIsFrom DEF Insert
  <2>. QED
    BY <1>2, <2>1, <2>2, <2>3, ContinuesSound
<1>. QED
  BY <1>5, <1>6, <1>7

LEMMA StoreSound ==
  ASSUME EngineInv, Sound, Asked \subseteq Asked', NEW w \in Workers, Store(w)
  PROVE  Sound'
<1>. DEFINE job == worker[w].job
<1>0. EngineType /\ Holding /\ results \in [DOMAIN jobs -> Got \cup {None}]
  BY DEF EngineInv, EngineType
<1>1. Moved(w, "fetch", 0, None) /\ job \in DOMAIN jobs
  BY <1>0, StoreMoves DEF Store, Holding
<1>2. /\ worker'[w].pc = "fetch"
      /\ \A v \in Workers \ {w} : worker'[v] = worker[v]
  BY <1>0, <1>1, MovedOnly DEF WorkerStates
<1>3. /\ UNCHANGED <<jobs, cache, history, sequential>>
      /\ results' = [results EXCEPT ![job] = worker[w].resolved]
  BY DEF Store
<1>4. From(Asked, jobs[job], worker[w].resolved)
  BY DEF Store, Sound, JobOf
<1>5. \A i \in DOMAIN jobs : results'[i] # None => From(Asked, jobs[i], results'[i])
  BY <1>0, <1>1, <1>3, <1>4 DEF Sound
<1>6. \A v \in Workers :
        worker'[v].pc \in {"insert", "store"}
          => From(Asked, jobs[worker'[v].job], worker'[v].resolved)
  BY <1>2 DEF Sound, JobOf
<1>7. /\ \A i \in DOMAIN jobs' : results'[i] # None => From(Asked', jobs'[i], results'[i])
      /\ \A v \in Workers : worker'[v].pc \in {"insert", "store"}
                              => From(Asked', jobs'[worker'[v].job], worker'[v].resolved)
  BY <1>3, <1>5, <1>6, FromGrows
<1>8. /\ ValidCache(Asked', cache') /\ ValidCache(Asked', sequential'.cache)
      /\ ValidLog(Asked', history') /\ ValidLog(Asked', sequential'.history)
  BY <1>3, FromGrows DEF Sound
<1>. QED
  BY <1>7, <1>8 DEF Sound, JobOf, From, ValidCache, ValidLog, Resolution

LEMMA FetchSound ==
  ASSUME EngineInv, Sound, Asked \subseteq Asked', NEW w \in Workers, Fetch(w), Sequentially(next)
  PROVE  Sound'
<1>0. /\ EngineType /\ Holding /\ sequential \in SequentialState
      /\ next \in Nat \ {0} /\ jobs \in Seq(Jobs)
  BY DEF EngineInv, EngineType
<1>1. /\ worker'[w].pc \in {"lookup", "done"}
      /\ \A v \in Workers \ {w} : worker'[v] = worker[v]
  BY <1>0, FetchMoves, MovedOnly DEF WorkerStates
<1>2. UNCHANGED <<jobs, results, cache, history>>
  BY DEF Fetch
<1>3. ValidCache(Asked, sequential'.cache) /\ ValidLog(Asked, sequential'.history)
  <2>1. CASE NoMoreJobs(next)
    BY <2>1 DEF Sequentially, Sound
  <2>2. CASE ~NoMoreJobs(next)
    <3>1. PICK hash \in HashOrders : sequential' = SequentialStep(sequential, jobs[next], hash)
      BY <2>2 DEF Sequentially
    <3>2. jobs[next] \in Jobs /\ jobs[next] \in Asked
      BY <1>0, <2>2 DEF NoMoreJobs, Asked, Range
    <3>. QED
      BY <1>0, <3>1, <3>2, SequentialSound DEF Sound
  <2>. QED
    BY <2>1, <2>2
<1>4. \A v \in Workers : worker'[v].pc \in {"insert", "store"}
        => From(Asked, jobs[worker'[v].job], worker'[v].resolved)
  BY <1>1 DEF Sound, JobOf
<1>5. /\ \A i \in DOMAIN jobs' : results'[i] # None => From(Asked', jobs'[i], results'[i])
      /\ \A v \in Workers : worker'[v].pc \in {"insert", "store"}
                              => From(Asked', jobs'[worker'[v].job], worker'[v].resolved)
  BY <1>2, <1>4, FromGrows DEF Sound
<1>6. /\ ValidCache(Asked', cache') /\ ValidCache(Asked', sequential'.cache)
      /\ ValidLog(Asked', history') /\ ValidLog(Asked', sequential'.history)
  BY <1>2, <1>3, FromGrows DEF Sound
<1>. QED
  BY <1>5, <1>6 DEF Sound, JobOf, From, ValidCache, ValidLog, Resolution

LEMMA NextBatchSound ==
  ASSUME EngineInv, Sound, Asked \subseteq Asked', NextBatch
  PROVE  Sound'
<1>0. history \in Seq(Answer) /\ jobs \in Seq(Jobs)
  BY DEF EngineInv, EngineType
<1>1. /\ history' = history \o Batch /\ results' = [i \in DOMAIN jobs' |-> None]
      /\ worker' = [w \in Workers |-> Idle] /\ BatchDone
      /\ UNCHANGED <<cache, sequential>>
  BY DEF NextBatch, Collected, Batch
<1>2. Batch \in Seq(Answer) /\ DOMAIN Batch = DOMAIN jobs /\ results \in [DOMAIN jobs -> Got]
      /\ \A i \in DOMAIN jobs : Batch[i].job = jobs[i] /\ Batch[i].got = results[i]
  BY <1>0, <1>1, AllAnswered, BatchType DEF Batch
<1>3. \A i \in DOMAIN Batch : From(Asked, Batch[i].job, Batch[i].got)
  BY <1>2, GotIsSome DEF Sound
<1>4. \A i \in DOMAIN history' :
        \/ i \in DOMAIN history /\ history'[i] = history[i]
        \/ \E j \in DOMAIN Batch : history'[i] = Batch[j]
  <2>1. \A i \in DOMAIN history' :
          \/ i \in DOMAIN history /\ history'[i] = history[i]
          \/ i - Len(history) \in DOMAIN Batch /\ history'[i] = Batch[i - Len(history)]
    BY <1>0, <1>1, <1>2
  <2>. QED
    BY <2>1
<1>5. ValidLog(Asked, history')
  BY <1>3, <1>4 DEF ValidLog, Sound
<1>6. /\ \A i \in DOMAIN jobs' : results'[i] = None
      /\ \A v \in Workers : worker'[v].pc = "fetch"
  BY <1>1 DEF Idle
<1>7. /\ ValidCache(Asked', cache') /\ ValidCache(Asked', sequential'.cache)
      /\ ValidLog(Asked', history') /\ ValidLog(Asked', sequential'.history)
  BY <1>1, <1>5, FromGrows DEF Sound
<1>. QED
  BY <1>6, <1>7 DEF Sound, JobOf, From, ValidCache, ValidLog, Resolution

LEMMA SoundCorrect == Spec => []Sound
<1>1. Init => Sound
  <2>. SUFFICES ASSUME Init PROVE Sound
    OBVIOUS
  <2>1. cache = {} /\ sequential.cache = {} /\ DOMAIN history = {}
        /\ DOMAIN sequential.history = {} /\ DOMAIN jobs = {}
    BY DEF Init
  <2>2. \A w \in Workers : worker[w].pc = "done"
    BY DEF Init, Idle
  <2>. QED
    BY <2>1, <2>2 DEF Sound, ValidCache, ValidLog
<1>2. EngineInv /\ Sound /\ [Next]_vars => Sound'
  <2>. SUFFICES ASSUME EngineInv, Sound, [Next]_vars PROVE Sound'
    OBVIOUS
  <2>1. Asked \subseteq Asked'
    BY AskedGrows
  <2>2. ASSUME NEW w \in Workers, WorkerStep(w) PROVE Sound'
    BY <2>1, <2>2, WorkerSound, StoreSound, FetchSound DEF WorkerStep
  <2>3. CASE UNCHANGED vars
    BY <2>3 DEF vars, Sound, Asked, JobOf, From, ValidCache, ValidLog, Resolution
  <2>. QED
    BY <2>1, <2>2, <2>3, NextBatchSound DEF Next
<1>. QED
  BY <1>1, <1>2, EngineCorrect, PTL DEF Spec

-----------------------------------------------------------------------------
(* What the answers have in common.                                        *)

LEMMA SeqWidens ==
  ASSUME NEW S, NEW T, S \subseteq T, NEW s \in Seq(S)
  PROVE  s \in Seq(T)
<1>1. s \in [1..Len(s) -> T] /\ Len(s) \in Nat
  OBVIOUS
<1>. QED
  BY <1>1

LEMMA BatchOptions ==
  ASSUME EngineType
  PROVE  /\ Collected = history \o Batch
         /\ history \in Seq([job : Jobs, got : Got \cup {None}])
         /\ Batch \in Seq([job : Jobs, got : Got \cup {None}])
         /\ DOMAIN Batch = DOMAIN jobs
         /\ \A i \in DOMAIN jobs : Batch[i].job = jobs[i] /\ Batch[i].got = results[i]
<1>1. history \in Seq(Answer) /\ jobs \in Seq(Jobs) /\ results \in [DOMAIN jobs -> Got \cup {None}]
  BY DEF EngineType
<1>2. Answer \subseteq [job : Jobs, got : Got \cup {None}]
  BY DEF Answer
<1>3. history \in Seq([job : Jobs, got : Got \cup {None}])
  BY <1>1, <1>2, SeqWidens
<1>. DEFINE Option == [job : Jobs, got : Got \cup {None}]
<1>4. Batch \in [1..Len(jobs) -> Option]
  <2>1. \A i \in DOMAIN jobs : [job |-> jobs[i], got |-> results[i]] \in Option
    BY <1>1
  <2>2. DOMAIN jobs = 1..Len(jobs)
    BY <1>1
  <2>. HIDE DEF Option
  <2>. QED
    BY <2>1, <2>2 DEF Batch
<1>5. Batch \in Seq(Option)
  <2>. HIDE DEF Option
  <2>1. Len(jobs) \in Nat
    BY <1>1
  <2>. QED
    BY <1>4, <2>1
<1>. QED
  BY <1>3, <1>5 DEF Collected, Batch

\* Every answer comes from a job that was asked, and what was asked is seen.
LEMMA AnswersAreSound ==
  ASSUME EngineInv, Sound
  PROVE  /\ Asked = Seen
         /\ \A a \in Answers : From(Seen, a.job, a.got)
<1>. DEFINE Option == [job : Jobs, got : Got \cup {None}]
<1>0. /\ EngineType /\ history \in Seq(Answer) /\ sequential.history \in Seq(Answer)
      /\ jobs \in Seq(Jobs)
  BY DEF EngineInv, EngineType, SequentialState
<1>1. /\ Collected = history \o Batch /\ history \in Seq(Option) /\ Batch \in Seq(Option)
      /\ DOMAIN Batch = DOMAIN jobs
      /\ \A i \in DOMAIN jobs : Batch[i].job = jobs[i] /\ Batch[i].got = results[i]
  BY <1>0, BatchOptions
<1>. HIDE DEF Option
<1>2. \A i \in DOMAIN Collected :
        \/ i \in DOMAIN history /\ Collected[i] = history[i]
        \/ i - Len(history) \in DOMAIN Batch /\ Collected[i] = Batch[i - Len(history)]
  BY <1>1
<1>3. \A i \in DOMAIN history : i \in DOMAIN Collected /\ Collected[i] = history[i]
  BY <1>1
<1>4. \A i \in DOMAIN history : history[i].got # None
  <2>1. \A i \in DOMAIN history : history[i] \in Answer
    BY <1>0
  <2>. QED
    BY <2>1, GotIsSome DEF Answer
<1>5. ASSUME NEW a \in Answers
      PROVE  From(Asked, a.job, a.got) /\ a.job \in Asked
  <2>1. CASE a \in Range(sequential.history)
    <3>1. PICK i \in DOMAIN sequential.history : a = sequential.history[i]
      BY <2>1 DEF Range
    <3>. QED
      BY <3>1 DEF Sound, ValidLog, Asked
  <2>2. CASE a \in EngineAnswers
    <3>1. PICK i \in DOMAIN Collected : a = Collected[i]
      BY <2>2 DEF EngineAnswers, Range
    <3>2. a.got # None
      BY <2>2 DEF EngineAnswers
    <3>3. CASE i \in DOMAIN history /\ Collected[i] = history[i]
      BY <3>1, <3>3 DEF Sound, ValidLog, Asked
    <3>4. CASE i - Len(history) \in DOMAIN Batch /\ Collected[i] = Batch[i - Len(history)]
      <4>. DEFINE k == i - Len(history)
      <4>1. k \in DOMAIN jobs /\ a.job = jobs[k] /\ a.got = results[k]
        BY <1>1, <3>1, <3>4
      <4>. HIDE DEF k
      <4>. QED
        BY <3>2, <4>1 DEF Sound, Asked, Range
    <3>. QED
      BY <1>2, <3>3, <3>4
  <2>. QED
    BY <2>1, <2>2 DEF Answers
<1>6. \A i \in DOMAIN history : history[i] \in Answers
  BY <1>3, <1>4 DEF Answers, EngineAnswers, Range
<1>7. \A i \in DOMAIN sequential.history : sequential.history[i] \in Answers
  BY DEF Answers, Range
<1>8. Asked = Seen
  BY <1>5, <1>6, <1>7 DEF Asked, Seen
<1>. QED
  BY <1>5, <1>8

\* An answer to a job that collides with none is the job's own resolution.
LEMMA OwnAnswer ==
  ASSUME EngineInv, Sound, NEW a \in Answers, NEW job, ~Collides(job),
         input_key(a.job.states) = input_key(job.states)
  PROVE  a.got = Resolution(job)
<1>1. PICK c \in Seen : input_key(c.states) = input_key(a.job.states) /\ a.got = Resolution(c)
  BY AnswersAreSound DEF From
<1>2. Range(c.states) = Range(job.states) /\ c.pdus = job.pdus
  BY <1>1 DEF Collides
<1>. QED
  BY <1>1, <1>2, ResolveOfSet DEF Resolution

(* The same state maps with the same events give the same resolution, in
   whatever order and number they are given, however hash sets are iterated,
   from the cache or not, on any thread (resolve_batch) or sequentially
   (CachedResolver), unless another job collides with them in the cache's
   key. *)
THEOREM ResolutionsAgree == Spec => []EqualInputsEqualResults
<1>1. EngineInv /\ Sound => EqualInputsEqualResults
  <2>. SUFFICES ASSUME EngineInv, Sound, NEW a \in Answers, NEW b \in Answers,
                       Range(a.job.states) = Range(b.job.states), ~Collides(a.job)
                PROVE  a.got = b.got
    BY DEF EqualInputsEqualResults
  <2>1. input_key(a.job.states) = input_key(b.job.states)
    BY KeyOfSet
  <2>. QED
    BY <2>1, OwnAnswer
<1>. QED
  BY <1>1, EngineCorrect, SoundCorrect, PTL

LEMMA AgreedInResolution ==
  ASSUME NEW job, NEW slot \in SlotsOf(job.states), Agreed(job.states, slot)
  PROVE  slot \in DOMAIN Resolution(job)
         /\ Resolution(job)[slot] \in Candidates(job.states, slot)
<1>. DEFINE states == job.states
            base == separate(states).unconflicted
            rest == Iterated(base, FullConflict(states, job.pdus), job.pdus, <<>>)
<1>1. Candidates(states, slot) # {}
  <2>1. Cardinality(Candidates(states, slot)) = 1
    BY DEF Agreed
  <2>. QED
    BY <2>1, FS_EmptySet
<1>2. base = [s \in {s \in SlotsOf(states) : Agreed(states, s)} |->
                CHOOSE id \in Candidates(states, s) : TRUE]
  BY DEF separate
<1>3. slot \in DOMAIN base /\ base[slot] = CHOOSE id \in Candidates(states, slot) : TRUE
  BY <1>2
<1>4. base[slot] \in Candidates(states, slot)
  BY <1>1, <1>3
<1>5. Resolution(job) = IF Conflicted(states) THEN Overlay(base, rest) ELSE base
  BY DEF Resolution, resolve
<1>. HIDE DEF base, rest
<1>6. slot \in DOMAIN Overlay(base, rest) /\ Overlay(base, rest)[slot] = base[slot]
  BY <1>3 DEF Overlay
<1>. QED
  BY <1>3, <1>4, <1>5, <1>6

(* What every input agrees on is in the answer to it, whatever older events of
   the same slots the auth difference applied on the way, and whether the
   answer was resolved or came from the cache (resolve's last overlay). *)
THEOREM AgreementHolds == Spec => []AgreedStays
<1>1. EngineInv /\ Sound => AgreedStays
  BY OwnAnswer, AgreedInResolution DEF AgreedStays
<1>. QED
  BY <1>1, EngineCorrect, SoundCorrect, PTL

-----------------------------------------------------------------------------
(* Every lookup is counted once.                                           *)

LookedAt(answers) ==
  {i \in DOMAIN answers : answers[i].got # None /\ Conflicted(answers[i].job.states)}

\* The workers whose lookup is counted and whose result is not yet stored, and
\* those that are about to fill the cache.
Pending == {w \in Workers : /\ worker[w].pc \in {"insert", "store"}
                            /\ Conflicted(JobOf(w).states)}
Inserting == {w \in Workers : worker[w].pc = "insert"}

CountInv ==
  /\ \A w \in Workers : worker[w].pc \in {"resolve", "insert"} => Conflicted(JobOf(w).states)
  /\ hits + misses = Cardinality(LookedAt(Collected)) + Cardinality(Pending)
  /\ IsFiniteSet(cache) /\ Cardinality(cache) + Cardinality(Inserting) <= misses
  /\ sequential.hits + sequential.misses = Cardinality(LookedAt(sequential.history))

LEMMA CountMeans == CountInv /\ EngineType => LookupsAccounted
<1>. SUFFICES ASSUME CountInv, EngineType PROVE LookupsAccounted
  OBVIOUS
<1>1. IsFiniteSet(Workers)
  BY EngineAssumption DEF EngineAssumption
<1>2. Inserting \in SUBSET Workers
  BY DEF Inserting
<1>3. Cardinality(Inserting) \in Nat
  BY <1>1, <1>2, FS_Subset, FS_CardinalityType
<1>4. Cardinality(cache) <= misses
  <2>1. Cardinality(cache) \in Nat
    BY FS_CardinalityType DEF CountInv
  <2>. QED
    BY <1>3, <2>1 DEF CountInv, EngineType
<1>. QED
  BY <1>4 DEF CountInv, LookupsAccounted, LookedAt, Pending

\* Two sets that differ in one element at most.
LEMMA OneApart ==
  ASSUME NEW A, NEW B, NEW w, IsFiniteSet(A), A \ {w} = B \ {w}
  PROVE  /\ IsFiniteSet(B) /\ Cardinality(A) \in Nat /\ Cardinality(B) \in Nat
         /\ (w \in A <=> w \in B) => B = A
         /\ w \notin A /\ w \in B => Cardinality(B) = Cardinality(A) + 1
         /\ w \in A /\ w \notin B => Cardinality(A) = Cardinality(B) + 1
<1>1. CASE w \in A <=> w \in B
  <2>1. A = B
    BY <1>1
  <2>. QED
    BY <1>1, <2>1, FS_CardinalityType
<1>2. CASE w \notin A /\ w \in B
  <2>1. B = A \cup {w}
    BY <1>2
  <2>. QED
    BY <1>2, <2>1, FS_AddElement, FS_CardinalityType
<1>3. CASE w \in A /\ w \notin B
  <2>1. B = A \ {w} /\ A = B \cup {w}
    BY <1>3
  <2>2. IsFiniteSet(B)
    BY <2>1, FS_RemoveElement
  <2>. QED
    BY <1>3, <2>1, <2>2, FS_AddElement, FS_CardinalityType
<1>. QED
  BY <1>1, <1>2, <1>3

LEMMA PendingMoves ==
  ASSUME EngineType, NEW w \in Workers, NEW pc \in WorkerStates, NEW job \in Nat,
         NEW value \in Got \cup {None}, Moved(w, pc, job, value), jobs' = jobs
  PROVE  /\ IsFiniteSet(Pending) /\ Pending \ {w} = Pending' \ {w}
         /\ IsFiniteSet(Inserting) /\ Inserting \ {w} = Inserting' \ {w}
         /\ w \in Pending' <=> pc \in {"insert", "store"} /\ Conflicted(jobs[job].states)
         /\ w \in Inserting' <=> pc = "insert"
<1>1. /\ worker'[w].pc = pc /\ worker'[w].job = job
      /\ \A v \in Workers \ {w} : worker'[v] = worker[v]
  BY MovedOnly
<1>2. /\ jobs'[worker'[w].job] = jobs[job]
      /\ \A v \in Workers \ {w} : jobs'[worker'[v].job] = jobs[worker[v].job]
  BY <1>1
<1>3. Pending \in SUBSET Workers /\ Inserting \in SUBSET Workers
  BY DEF Pending, Inserting
<1>4. IsFiniteSet(Pending) /\ IsFiniteSet(Inserting)
  BY <1>3, EngineAssumption, FS_Subset DEF EngineAssumption
<1>5. Pending \ {w} = Pending' \ {w} /\ Inserting \ {w} = Inserting' \ {w}
  BY <1>1, <1>2 DEF Pending, Inserting, JobOf
<1>6. /\ w \in Pending' <=> pc \in {"insert", "store"} /\ Conflicted(jobs[job].states)
      /\ w \in Inserting' <=> pc = "insert"
  BY <1>1, <1>2 DEF Pending, Inserting, JobOf
<1>. QED
  BY <1>4, <1>5, <1>6

\* The answers so far, by position.
Answered(h, js, rs) == h \o [i \in DOMAIN js |-> [job |-> js[i], got |-> rs[i]]]

LEMMA AnsweredAt ==
  ASSUME NEW h \in Seq(Answer), NEW js \in Seq(Jobs), NEW rs \in [DOMAIN js -> Got \cup {None}]
  PROVE  /\ DOMAIN Answered(h, js, rs) = 1..(Len(h) + Len(js))
         /\ \A i \in DOMAIN h : Answered(h, js, rs)[i] = h[i]
         /\ \A i \in DOMAIN js : /\ Answered(h, js, rs)[Len(h) + i].job = js[i]
                                 /\ Answered(h, js, rs)[Len(h) + i].got = rs[i]
         /\ \A i \in DOMAIN Answered(h, js, rs) :
              i \in DOMAIN h \/ \E j \in DOMAIN js : i = Len(h) + j
<1>. DEFINE Option == [job : Jobs, got : Got \cup {None}]
            batch == [i \in DOMAIN js |-> [job |-> js[i], got |-> rs[i]]]
<1>1. h \in Seq(Option)
  BY SeqWidens DEF Answer
<1>2. \A i \in DOMAIN js : [job |-> js[i], got |-> rs[i]] \in Option
  OBVIOUS
<1>. HIDE DEF Option
<1>3. Len(js) \in Nat /\ DOMAIN js = 1..Len(js)
  OBVIOUS
<1>4. batch \in [1..Len(js) -> Option]
  BY <1>2, <1>3
<1>5. \A i \in DOMAIN js : batch[i].job = js[i] /\ batch[i].got = rs[i]
  OBVIOUS
<1>. HIDE DEF batch
<1>6. batch \in Seq(Option) /\ Len(batch) = Len(js) /\ DOMAIN batch = DOMAIN js
  BY <1>3, <1>4
<1>7. Answered(h, js, rs) = h \o batch
  BY DEF Answered, batch
<1>8. /\ DOMAIN (h \o batch) = 1..(Len(h) + Len(js))
      /\ \A i \in DOMAIN h : (h \o batch)[i] = h[i]
      /\ \A i \in DOMAIN js : (h \o batch)[Len(h) + i] = batch[i]
  <2>1. h \in Seq(Option) /\ batch \in Seq(Option)
    BY <1>1, <1>6
  <2>2. DOMAIN (h \o batch) = 1..(Len(h) + Len(batch))
    BY <2>1
  <2>3. \A i \in DOMAIN h : (h \o batch)[i] = h[i]
    BY <2>1
  <2>4. \A i \in DOMAIN batch : (h \o batch)[Len(h) + i] = batch[i]
    BY <2>1
  <2>. QED
    BY <1>6, <2>2, <2>3, <2>4, Zenon
<1>9. \A i \in 1..(Len(h) + Len(js)) : i \in DOMAIN h \/ i - Len(h) \in DOMAIN js
  BY <1>1, <1>3
<1>10. \A i \in 1..(Len(h) + Len(js)) : i = Len(h) + (i - Len(h))
  BY <1>1
<1>. QED
  BY <1>5, <1>7, <1>8, <1>9, <1>10

LEMMA LookedFinite ==
  ASSUME NEW h \in Seq(Answer), NEW js \in Seq(Jobs), NEW rs \in [DOMAIN js -> Got \cup {None}]
  PROVE  IsFiniteSet(LookedAt(Answered(h, js, rs)))
<1>. DEFINE n == Len(h) + Len(js)
<1>1. n \in Nat
  OBVIOUS
<1>2. LookedAt(Answered(h, js, rs)) \in SUBSET (1..n)
  BY AnsweredAt DEF LookedAt
<1>. HIDE DEF n
<1>3. IsFiniteSet(1..n)
  BY <1>1, FS_Interval
<1>. QED
  BY <1>2, <1>3, FS_Subset

\* Storing a result makes one answer more.
LEMMA StoreLooks ==
  ASSUME NEW h \in Seq(Answer), NEW js \in Seq(Jobs), NEW rs \in [DOMAIN js -> Got \cup {None}],
         NEW new \in [DOMAIN js -> Got \cup {None}], NEW k \in DOMAIN js,
         rs[k] = None, new[k] # None, \A j \in DOMAIN js \ {k} : new[j] = rs[j]
  PROVE  /\ LookedAt(Answered(h, js, rs)) \ {Len(h) + k}
              = LookedAt(Answered(h, js, new)) \ {Len(h) + k}
         /\ Len(h) + k \notin LookedAt(Answered(h, js, rs))
         /\ Len(h) + k \in LookedAt(Answered(h, js, new)) <=> Conflicted(js[k].states)
<1>. DEFINE A == Answered(h, js, rs)
            B == Answered(h, js, new)
            n == Len(h) + k
<1>1. /\ DOMAIN A = 1..(Len(h) + Len(js))
      /\ \A i \in DOMAIN h : A[i] = h[i]
      /\ \A i \in DOMAIN js : A[Len(h) + i].job = js[i] /\ A[Len(h) + i].got = rs[i]
      /\ \A i \in DOMAIN A : i \in DOMAIN h \/ \E j \in DOMAIN js : i = Len(h) + j
  BY AnsweredAt
<1>2. /\ DOMAIN B = 1..(Len(h) + Len(js))
      /\ \A i \in DOMAIN h : B[i] = h[i]
      /\ \A i \in DOMAIN js : B[Len(h) + i].job = js[i] /\ B[Len(h) + i].got = new[i]
  BY AnsweredAt
<1>. HIDE DEF A, B
<1>3. n \in DOMAIN A /\ Len(h) \in Nat
  BY <1>1
<1>4. \A i \in DOMAIN A \ {n} : A[i].got = B[i].got /\ A[i].job = B[i].job
  <2>1. ASSUME NEW i \in DOMAIN A \ {n}, NEW j \in DOMAIN js, i = Len(h) + j
        PROVE  A[i].got = B[i].got /\ A[i].job = B[i].job
    BY <1>1, <1>2, <2>1
  <2>. QED
    BY <1>1, <1>2, <2>1
<1>5. A[n].got = None /\ B[n].got # None /\ B[n].job = js[k]
  BY <1>1, <1>2
<1>6. LookedAt(A) \ {n} = LookedAt(B) \ {n}
  BY <1>1, <1>2, <1>4 DEF LookedAt
<1>7. n \notin LookedAt(A) /\ (n \in LookedAt(B) <=> Conflicted(js[k].states))
  BY <1>1, <1>2, <1>3, <1>5 DEF LookedAt
<1>. QED
  BY <1>6, <1>7 DEF A, B

\* A new batch changes nothing of the answers.
LEMMA BatchLooks ==
  ASSUME NEW h \in Seq(Answer), NEW js \in Seq(Jobs), NEW rs \in [DOMAIN js -> Got],
         NEW more \in Seq(Jobs), NEW none \in [DOMAIN more -> {None}]
  PROVE  LookedAt(Answered(Answered(h, js, rs), more, none)) = LookedAt(Answered(h, js, rs))
<1>. DEFINE A == Answered(h, js, rs)
            B == Answered(A, more, none)
<1>1. A \in Seq(Answer)
  BY BatchType DEF Answered
<1>. HIDE DEF A
<1>2. none \in [DOMAIN more -> Got \cup {None}]
  OBVIOUS
<1>3. /\ DOMAIN A = 1..Len(A) /\ Len(A) \in Nat
      /\ DOMAIN B = 1..(Len(A) + Len(more))
      /\ \A i \in DOMAIN A : B[i] = A[i]
      /\ \A i \in DOMAIN more : B[Len(A) + i].got = None
      /\ \A i \in DOMAIN B : i \in DOMAIN A \/ \E j \in DOMAIN more : i = Len(A) + j
  BY <1>1, <1>2, AnsweredAt
<1>. HIDE DEF B
<1>4. DOMAIN A \subseteq DOMAIN B
  BY <1>3
<1>5. LookedAt(B) = LookedAt(A)
  BY <1>3, <1>4 DEF LookedAt
<1>. QED
  BY <1>5 DEF A, B

LEMMA InsertedSize ==
  ASSUME NEW entries, IsFiniteSet(entries), NEW key, NEW value
  PROVE  /\ IsFiniteSet(Inserted(entries, key, value))
         /\ Cardinality(Inserted(entries, key, value)) <= Cardinality(entries) + 1
         /\ Cardinality(Inserted(entries, key, value)) \in Nat /\ Cardinality(entries) \in Nat
<1>. DEFINE rest == entries \ Cached(entries, key)
            e == [key |-> key, value |-> value]
<1>1. rest \in SUBSET entries
  OBVIOUS
<1>2. Inserted(entries, key, value) = rest \cup {e}
  BY DEF Inserted
<1>. HIDE DEF rest, e
<1>3. IsFiniteSet(rest) /\ Cardinality(rest) <= Cardinality(entries)
  BY <1>1, FS_Subset
<1>4. Cardinality(rest) \in Nat /\ Cardinality(entries) \in Nat
  BY <1>3, FS_CardinalityType
<1>5. /\ IsFiniteSet(rest \cup {e})
      /\ Cardinality(rest \cup {e}) = IF e \in rest THEN Cardinality(rest) ELSE Cardinality(rest) + 1
  BY <1>3, FS_AddElement
<1>. QED
  BY <1>2, <1>3, <1>4, <1>5

\* What every step of a worker keeps of the counts, given what it did to them.
LEMMA CountWorker ==
  ASSUME EngineType, Holding, CountInv, NEW w \in Workers,
         NEW pc \in WorkerStates, NEW job \in Nat, NEW value \in Got \cup {None},
         Moved(w, pc, job, value), UNCHANGED <<jobs, results, history, sequential>>,
         pc \in {"resolve", "insert"} => Conflicted(jobs[job].states),
         hits' + misses' = hits + misses + Cardinality(Pending') - Cardinality(Pending),
         IsFiniteSet(cache'),
         Cardinality(cache') + Cardinality(Inserting') <= misses'
  PROVE  CountInv'
<1>1. /\ worker'[w].pc = pc /\ worker'[w].job = job
      /\ \A v \in Workers \ {w} : worker'[v] = worker[v]
  BY MovedOnly
<1>2. \A v \in Workers :
        worker'[v].pc \in {"resolve", "insert"} => Conflicted(jobs'[worker'[v].job].states)
  BY <1>1 DEF CountInv, JobOf
<1>3. Collected' = Collected
  BY DEF Collected
<1>4. /\ IsFiniteSet(Pending) /\ Pending \ {w} = Pending' \ {w}
  BY PendingMoves
<1>5. Cardinality(Pending) \in Nat /\ Cardinality(Pending') \in Nat
  BY <1>4, OneApart
<1>6. IsFiniteSet(LookedAt(Collected)) /\ Cardinality(LookedAt(Collected)) \in Nat
  BY LookedFinite, FS_CardinalityType DEF EngineType, Collected, Answered
<1>7. hits' + misses' = Cardinality(LookedAt(Collected)) + Cardinality(Pending')
  BY <1>5, <1>6 DEF CountInv
<1>8. LookedAt(Collected') = LookedAt(Collected)
      /\ LookedAt(sequential'.history) = LookedAt(sequential.history)
  BY <1>3
<1>9. /\ hits' + misses' = Cardinality(LookedAt(Collected')) + Cardinality(Pending')
      /\ sequential'.hits + sequential'.misses = Cardinality(LookedAt(sequential'.history))
  BY <1>7, <1>8 DEF CountInv
<1>. QED
  BY <1>2, <1>9 DEF CountInv, LookedAt, JobOf

LEMMA LookupCounts ==
  ASSUME EngineInv, CountInv, NEW w \in Workers, Lookup(w)
  PROVE  CountInv'
<1>0. EngineType /\ Holding /\ hits \in Nat /\ misses \in Nat /\ worker[w].job \in Nat
  BY WorkerFields DEF EngineInv, EngineType
<1>. DEFINE job == worker[w].job
            states == JobOf(w).states
            key == input_key(states)
<1>1. UNCHANGED <<jobs, results, history, sequential, cache, misses>> /\ worker[w].pc = "lookup"
  BY DEF Lookup
<1>2. w \notin Pending /\ w \notin Inserting
  BY <1>1 DEF Pending, Inserting
<1>3. JobOf(w) = jobs[job]
  BY DEF JobOf
<1>. HIDE DEF job
<1>4. ASSUME NEW pc \in {"store", "resolve"}, NEW value \in Got \cup {None},
             Moved(w, pc, job, value), pc = "resolve" => Conflicted(states),
             hits' = IF pc = "store" /\ Conflicted(states) THEN hits + 1 ELSE hits
      PROVE  CountInv'
  <2>1. pc \in WorkerStates /\ job \in Nat
    BY <1>0 DEF WorkerStates, job
  <2>2. /\ IsFiniteSet(Pending) /\ Pending \ {w} = Pending' \ {w}
        /\ IsFiniteSet(Inserting) /\ Inserting \ {w} = Inserting' \ {w}
        /\ w \in Pending' <=> pc \in {"insert", "store"} /\ Conflicted(jobs[job].states)
        /\ w \in Inserting' <=> pc = "insert"
    BY <1>0, <1>1, <1>4, <2>1, PendingMoves
  <2>3. Inserting' = Inserting
    BY <1>2, <2>2, OneApart
  <2>4. /\ Cardinality(Pending) \in Nat /\ Cardinality(Pending') \in Nat
        /\ pc = "store" /\ Conflicted(states) => Cardinality(Pending') = Cardinality(Pending) + 1
        /\ ~(pc = "store" /\ Conflicted(states)) => Pending' = Pending
    BY <1>2, <1>3, <2>2, OneApart
  <2>5. hits' + misses' = hits + misses + Cardinality(Pending') - Cardinality(Pending)
    BY <1>0, <1>1, <1>4, <2>4
  <2>6. IsFiniteSet(cache') /\ Cardinality(cache') + Cardinality(Inserting') <= misses'
    BY <1>1, <2>3 DEF CountInv
  <2>. QED
    BY <1>0, <1>1, <1>3, <1>4, <2>1, <2>5, <2>6, CountWorker
<1>5. CASE /\ ~Conflicted(states)
           /\ worker' = [worker EXCEPT ![w].pc = "store",
                                       ![w].resolved = separate(states).unconflicted]
           /\ UNCHANGED hits
  <2>1. separate(states).unconflicted \in Got
    BY <1>0, <1>1, KnownJob
  <2>. QED
    BY <1>0, <1>4, <1>5, <2>1, FieldsMove DEF job
<1>6. CASE /\ Conflicted(states) /\ Cached(cache, key) # {}
           /\ worker' = [worker EXCEPT ![w].pc = "store", ![w].resolved = CachedValue(cache, key)]
           /\ hits' = hits + 1
  <2>1. CachedValue(cache, key) \in Got
    BY <1>0, <1>6, CachedIsThere DEF EngineType
  <2>. QED
    BY <1>0, <1>4, <1>6, <2>1, FieldsMove DEF job
<1>7. CASE /\ Conflicted(states)
           /\ worker' = [worker EXCEPT ![w].pc = "resolve", ![w].resolved = None]
           /\ UNCHANGED hits
  BY <1>0, <1>4, <1>7, FieldsMove DEF job
<1>. QED
  BY <1>5, <1>6, <1>7 DEF Lookup

LEMMA ResolveCounts ==
  ASSUME EngineInv, CountInv, NEW w \in Workers, Resolve(w)
  PROVE  CountInv'
<1>0. EngineType /\ Holding /\ hits \in Nat /\ misses \in Nat /\ worker[w].job \in Nat
  BY WorkerFields DEF EngineInv, EngineType
<1>1. /\ UNCHANGED <<jobs, results, history, sequential, cache, hits>>
      /\ misses' = misses + 1 /\ worker[w].pc = "resolve"
  BY DEF Resolve, MissCounted
<1>2. PICK value \in Got : Moved(w, "insert", worker[w].job, value)
  BY <1>0, ResolveMoves
<1>3. w \notin Pending /\ w \notin Inserting /\ Conflicted(jobs[worker[w].job].states)
  BY <1>1 DEF Pending, Inserting, CountInv, JobOf
<1>4. /\ IsFiniteSet(Pending) /\ Pending \ {w} = Pending' \ {w} /\ w \in Pending'
      /\ IsFiniteSet(Inserting) /\ Inserting \ {w} = Inserting' \ {w} /\ w \in Inserting'
  BY <1>0, <1>1, <1>2, <1>3, PendingMoves DEF WorkerStates
<1>5. /\ Cardinality(Pending) \in Nat /\ Cardinality(Pending') = Cardinality(Pending) + 1
  BY <1>3, <1>4, OneApart
<1>6. /\ Cardinality(Inserting) \in Nat /\ Cardinality(Inserting') = Cardinality(Inserting) + 1
  BY <1>3, <1>4, OneApart
<1>7. hits' + misses' = hits + misses + Cardinality(Pending') - Cardinality(Pending)
  BY <1>0, <1>1, <1>5
<1>8. IsFiniteSet(cache') /\ Cardinality(cache') + Cardinality(Inserting') <= misses'
  <2>1. Cardinality(cache) \in Nat
    BY FS_CardinalityType DEF CountInv
  <2>. QED
    BY <1>0, <1>1, <1>6, <2>1 DEF CountInv
<1>9. "insert" \in WorkerStates
  BY DEF WorkerStates
<1>. QED
  BY <1>0, <1>1, <1>2, <1>3, <1>7, <1>8, <1>9, CountWorker

LEMMA InsertCounts ==
  ASSUME EngineInv, CountInv, NEW w \in Workers, Insert(w)
  PROVE  CountInv'
<1>0. EngineType /\ Holding /\ hits \in Nat /\ misses \in Nat /\ worker[w].job \in Nat
  BY WorkerFields DEF EngineInv, EngineType
<1>1. /\ UNCHANGED <<jobs, results, history, sequential, misses, hits>>
      /\ worker[w].pc = "insert"
      /\ cache' = Inserted(cache, input_key(JobOf(w).states), worker[w].resolved)
  BY DEF Insert
<1>2. Moved(w, "store", worker[w].job, worker[w].resolved) /\ worker[w].resolved \in Got
  BY <1>0, InsertMoves
<1>3. w \in Pending /\ w \in Inserting /\ Conflicted(jobs[worker[w].job].states)
  BY <1>1 DEF Pending, Inserting, CountInv, JobOf
<1>4. /\ IsFiniteSet(Pending) /\ Pending \ {w} = Pending' \ {w} /\ w \in Pending'
      /\ IsFiniteSet(Inserting) /\ Inserting \ {w} = Inserting' \ {w} /\ w \notin Inserting'
  BY <1>0, <1>1, <1>2, <1>3, PendingMoves DEF WorkerStates
<1>5. Pending' = Pending /\ Cardinality(Pending) \in Nat
  BY <1>3, <1>4, OneApart
<1>6. Cardinality(Inserting') \in Nat /\ Cardinality(Inserting) = Cardinality(Inserting') + 1
  BY <1>3, <1>4, OneApart
<1>7. hits' + misses' = hits + misses + Cardinality(Pending') - Cardinality(Pending)
  BY <1>0, <1>1, <1>5
<1>8. IsFiniteSet(cache') /\ Cardinality(cache') + Cardinality(Inserting') <= misses'
  <2>1. IsFiniteSet(cache) /\ Cardinality(cache) + Cardinality(Inserting) <= misses
    BY DEF CountInv
  <2>2. /\ IsFiniteSet(cache') /\ Cardinality(cache') <= Cardinality(cache) + 1
        /\ Cardinality(cache') \in Nat /\ Cardinality(cache) \in Nat
    BY <1>1, <2>1, InsertedSize
  <2>. QED
    BY <1>0, <1>1, <1>6, <2>1, <2>2
<1>9. "store" \in WorkerStates
  BY DEF WorkerStates
<1>. QED
  BY <1>0, <1>1, <1>2, <1>7, <1>8, <1>9, CountWorker

LEMMA StoreCounts ==
  ASSUME EngineInv, CountInv, NEW w \in Workers, Store(w)
  PROVE  CountInv'
<1>. DEFINE job == worker[w].job
            n == Len(history) + job
            old == LookedAt(Answered(history, jobs, results))
            new == LookedAt(Answered(history, jobs, results'))
<1>0. /\ EngineType /\ Holding /\ hits \in Nat /\ misses \in Nat
      /\ history \in Seq(Answer) /\ jobs \in Seq(Jobs)
      /\ results \in [DOMAIN jobs -> Got \cup {None}]
  BY DEF EngineInv, EngineType
<1>1. /\ UNCHANGED <<jobs, history, sequential, misses, hits, cache>>
      /\ worker[w].pc = "store"
      /\ results' = [results EXCEPT ![job] = worker[w].resolved]
  BY DEF Store
<1>2. Moved(w, "fetch", 0, None) /\ worker[w].resolved \in Got
  BY <1>0, StoreMoves
<1>3. job \in DOMAIN jobs /\ results[job] = None
  BY <1>0, <1>1 DEF Holding
<1>4. /\ old \ {n} = new \ {n} /\ n \notin old
      /\ n \in new <=> Conflicted(jobs[job].states)
  <2>1. /\ results' \in [DOMAIN jobs -> Got \cup {None}] /\ results'[job] # None
        /\ \A j \in DOMAIN jobs \ {job} : results'[j] = results[j]
    BY <1>0, <1>1, <1>2, <1>3, GotIsSome
  <2>. HIDE DEF job
  <2>. QED
    BY <1>0, <1>3, <2>1, StoreLooks
<1>5. IsFiniteSet(old)
  BY <1>0, LookedFinite
<1>6. Collected = Answered(history, jobs, results) /\ Collected' = Answered(history, jobs, results')
  BY <1>1 DEF Collected, Answered
<1>. HIDE DEF n, old, new, job
<1>7. /\ IsFiniteSet(Pending) /\ Pending \ {w} = Pending' \ {w} /\ w \notin Pending'
      /\ IsFiniteSet(Inserting) /\ Inserting \ {w} = Inserting' \ {w} /\ w \notin Inserting'
  BY <1>0, <1>1, <1>2, PendingMoves DEF WorkerStates
<1>8. w \in Pending <=> Conflicted(jobs[job].states)
  BY <1>1 DEF Pending, JobOf, job
<1>9. w \notin Inserting
  BY <1>1 DEF Inserting
<1>10. Inserting' = Inserting
  BY <1>7, <1>9, OneApart
<1>11. Cardinality(old) + Cardinality(Pending) = Cardinality(new) + Cardinality(Pending')
  <2>1. CASE Conflicted(jobs[job].states)
    <3>1. Cardinality(new) = Cardinality(old) + 1 /\ Cardinality(old) \in Nat
      BY <1>4, <1>5, <2>1, OneApart
    <3>2. Cardinality(Pending) = Cardinality(Pending') + 1 /\ Cardinality(Pending') \in Nat
      BY <1>7, <1>8, <2>1, OneApart
    <3>. QED
      BY <3>1, <3>2
  <2>2. CASE ~Conflicted(jobs[job].states)
    <3>1. new = old
      BY <1>4, <1>5, <2>2, OneApart
    <3>2. Pending' = Pending
      BY <1>7, <1>8, <2>2, OneApart
    <3>. QED
      BY <3>1, <3>2
  <2>. QED
    BY <2>1, <2>2
<1>12. hits' + misses' = Cardinality(LookedAt(Collected')) + Cardinality(Pending')
  BY <1>1, <1>6, <1>11 DEF CountInv, old, new
<1>13. /\ worker'[w].pc = "fetch"
       /\ \A v \in Workers \ {w} : worker'[v] = worker[v]
  BY <1>0, <1>2, MovedOnly DEF WorkerStates
<1>14. \A v \in Workers :
         worker'[v].pc \in {"resolve", "insert"} => Conflicted(jobs'[worker'[v].job].states)
  BY <1>1, <1>13 DEF CountInv, JobOf
<1>15. /\ IsFiniteSet(cache') /\ Cardinality(cache') + Cardinality(Inserting') <= misses'
       /\ sequential'.hits + sequential'.misses = Cardinality(LookedAt(sequential'.history))
  BY <1>1, <1>10 DEF CountInv
<1>. QED
  BY <1>12, <1>14, <1>15 DEF CountInv, LookedAt, JobOf

\* The sequential resolver counts its lookups.
LEMMA SequentialCounts ==
  ASSUME NEW job \in Jobs, NEW hash \in HashOrders, NEW r \in SequentialState,
         r.hits + r.misses = Cardinality(LookedAt(r.history))
  PROVE  LET s == SequentialStep(r, job, hash)
         IN  s.hits + s.misses = Cardinality(LookedAt(s.history))
<1>1. PICK got \in Got, c \in SUBSET CacheEntry, h \in Nat, m \in Nat :
        SequentialAnswer(r, job, hash, got, c, h, m)
  BY SequentialType
<1>. DEFINE a == [job |-> job, got |-> got]
            log == r.history
            n == Len(log) + 1
<1>2. a.job = job /\ a.got = got /\ got # None /\ a \in Answer
  BY GotIsSome DEF Answer
<1>3. log \in Seq(Answer) /\ r.hits \in Nat /\ r.misses \in Nat
  BY DEF SequentialState
<1>. HIDE DEF a, log
<1>4. /\ n \notin DOMAIN log /\ DOMAIN Append(log, a) = DOMAIN log \cup {n}
      /\ Append(log, a)[n] = a /\ \A i \in DOMAIN log : Append(log, a)[i] = log[i]
  BY <1>2, <1>3
<1>. HIDE DEF n
<1>5. /\ LookedAt(log) \ {n} = LookedAt(Append(log, a)) \ {n} /\ n \notin LookedAt(log)
      /\ n \in LookedAt(Append(log, a)) <=> Conflicted(job.states)
  BY <1>2, <1>4 DEF LookedAt
<1>6. IsFiniteSet(LookedAt(log))
  <2>1. LookedAt(log) \in SUBSET (1..Len(log)) /\ Len(log) \in Nat
    BY <1>3 DEF LookedAt
  <2>2. IsFiniteSet(1..Len(log))
    BY <2>1, FS_Interval
  <2>. QED
    BY <2>1, <2>2, FS_Subset
<1>7. Cardinality(LookedAt(Append(log, a)))
        = Cardinality(LookedAt(log)) + (IF Conflicted(job.states) THEN 1 ELSE 0)
      /\ Cardinality(LookedAt(log)) \in Nat
  <2>1. CASE Conflicted(job.states)
    BY <1>5, <1>6, <2>1, OneApart
  <2>2. CASE ~Conflicted(job.states)
    BY <1>5, <1>6, <2>2, OneApart
  <2>. QED
    BY <2>1, <2>2
<1>8. h + m = r.hits + r.misses + (IF Conflicted(job.states) THEN 1 ELSE 0)
  <2>1. CASE Conflicted(job.states)
    <3>1. (h = r.hits + 1 /\ m = r.misses) \/ (h = r.hits /\ m = r.misses + 1)
      BY <1>1, <2>1 DEF SequentialAnswer
    <3>2. h + m = r.hits + r.misses + 1
      BY <1>3, <3>1
    <3>. QED
      BY <2>1, <3>2
  <2>2. CASE ~Conflicted(job.states)
    BY <1>1, <1>3, <2>2 DEF SequentialAnswer
  <2>. QED
    BY <2>1, <2>2
<1>9. SequentialStep(r, job, hash)
        = [cache |-> c, hits |-> h, misses |-> m, history |-> Append(log, a)]
  BY <1>1 DEF SequentialAnswer, a, log
<1>10. h + m = Cardinality(LookedAt(Append(log, a)))
  BY <1>7, <1>8 DEF log
<1>. QED
  BY <1>9, <1>10

LEMMA FetchCounts ==
  ASSUME EngineInv, CountInv, NEW w \in Workers, Fetch(w), Sequentially(next)
  PROVE  CountInv'
<1>0. /\ EngineType /\ Holding /\ sequential \in SequentialState
      /\ next \in Nat \ {0} /\ jobs \in Seq(Jobs)
  BY DEF EngineInv, EngineType
<1>1. UNCHANGED <<jobs, results, history, cache, hits, misses>> /\ worker[w].pc = "fetch"
  BY DEF Fetch
<1>2. PICK pc \in {"lookup", "done"}, job \in Nat : Moved(w, pc, job, None)
  BY <1>0, FetchMoves
<1>3. w \notin Pending /\ w \notin Inserting /\ pc \in WorkerStates
  BY <1>1 DEF Pending, Inserting, WorkerStates
<1>4. /\ IsFiniteSet(Pending) /\ Pending \ {w} = Pending' \ {w} /\ w \notin Pending'
      /\ IsFiniteSet(Inserting) /\ Inserting \ {w} = Inserting' \ {w} /\ w \notin Inserting'
  BY <1>0, <1>1, <1>2, <1>3, PendingMoves
<1>5. Pending' = Pending /\ Inserting' = Inserting
  BY <1>3, <1>4, OneApart
<1>6. /\ worker'[w].pc = pc
      /\ \A v \in Workers \ {w} : worker'[v] = worker[v]
  BY <1>0, <1>2, <1>3, MovedOnly
<1>7. \A v \in Workers :
        worker'[v].pc \in {"resolve", "insert"} => Conflicted(jobs'[worker'[v].job].states)
  BY <1>1, <1>6 DEF CountInv, JobOf
<1>8. sequential'.hits + sequential'.misses = Cardinality(LookedAt(sequential'.history))
  <2>1. CASE NoMoreJobs(next)
    BY <2>1 DEF Sequentially, CountInv
  <2>2. CASE ~NoMoreJobs(next)
    <3>1. PICK hash \in HashOrders : sequential' = SequentialStep(sequential, jobs[next], hash)
      BY <2>2 DEF Sequentially
    <3>2. jobs[next] \in Jobs
      BY <1>0, <2>2 DEF NoMoreJobs
    <3>. QED
      BY <1>0, <3>1, <3>2, SequentialCounts DEF CountInv
  <2>. QED
    BY <2>1, <2>2
<1>9. Collected' = Collected
  BY <1>1 DEF Collected
<1>10. hits' + misses' = Cardinality(LookedAt(Collected')) + Cardinality(Pending')
  BY <1>1, <1>5, <1>9 DEF CountInv
<1>11. IsFiniteSet(cache') /\ Cardinality(cache') + Cardinality(Inserting') <= misses'
  BY <1>1, <1>5 DEF CountInv
<1>. QED
  BY <1>7, <1>8, <1>10, <1>11 DEF CountInv, LookedAt, JobOf

LEMMA NextBatchCounts ==
  ASSUME EngineInv, EngineInv', CountInv, NextBatch
  PROVE  CountInv'
<1>0. history \in Seq(Answer) /\ jobs \in Seq(Jobs) /\ jobs' \in Seq(Jobs)
  BY DEF EngineInv, EngineType
<1>1. /\ history' = Answered(history, jobs, results) /\ results' = [i \in DOMAIN jobs' |-> None]
      /\ worker' = [w \in Workers |-> Idle] /\ BatchDone
      /\ UNCHANGED <<cache, sequential, hits, misses>>
  BY DEF NextBatch, Collected, Answered
<1>2. results \in [DOMAIN jobs -> Got]
  BY <1>1, AllAnswered
<1>3. results' \in [DOMAIN jobs' -> {None}]
  BY <1>1
<1>4. Collected = Answered(history, jobs, results)
      /\ Collected' = Answered(Answered(history, jobs, results), jobs', results')
  BY <1>1 DEF Collected, Answered
<1>5. LookedAt(Collected') = LookedAt(Collected)
  BY <1>0, <1>2, <1>3, <1>4, BatchLooks
<1>6. \A w \in Workers : worker[w].pc = "done" /\ worker'[w].pc = "fetch"
  BY <1>1 DEF BatchDone, Idle
<1>7. Pending = {} /\ Pending' = {} /\ Inserting = {} /\ Inserting' = {}
  BY <1>6 DEF Pending, Inserting
<1>8. hits' + misses' = Cardinality(LookedAt(Collected')) + Cardinality(Pending')
  BY <1>1, <1>5, <1>7 DEF CountInv
<1>9. /\ IsFiniteSet(cache') /\ Cardinality(cache') + Cardinality(Inserting') <= misses'
      /\ sequential'.hits + sequential'.misses = Cardinality(LookedAt(sequential'.history))
  BY <1>1, <1>7 DEF CountInv
<1>. QED
  BY <1>6, <1>8, <1>9 DEF CountInv, LookedAt, JobOf

(* At whatever moment the counters are read, hits and misses together are the
   lookups of conflicted inputs that were made, each counted once although
   lookup, count and insert are separate steps of resolve_cached, and the cache
   holds no more entries than there were misses. *)
THEOREM LookupsBalance == Spec => []LookupsAccounted
<1>1. Init => CountInv
  <2>. SUFFICES ASSUME Init PROVE CountInv
    OBVIOUS
  <2>1. /\ hits = 0 /\ misses = 0 /\ cache = {}
        /\ sequential.hits = 0 /\ sequential.misses = 0 /\ DOMAIN sequential.history = {}
        /\ history = <<>> /\ jobs = <<>> /\ results = <<>>
    BY DEF Init
  <2>2. \A w \in Workers : worker[w].pc = "done"
    BY DEF Init, Idle
  <2>3. Pending = {} /\ Inserting = {}
    BY <2>2 DEF Pending, Inserting
  <2>4. LookedAt(sequential.history) = {}
    BY <2>1 DEF LookedAt
  <2>5. LookedAt(Collected) = {}
    <3>1. Len(history) = 0 /\ Len(jobs) = 0 /\ jobs \in Seq(Jobs) /\ history \in Seq(Answer)
          /\ results \in [DOMAIN jobs -> Got \cup {None}]
      BY <2>1, EngineInit DEF EngineInv, EngineType
    <3>2. DOMAIN Answered(history, jobs, results) = 1..(Len(history) + Len(jobs))
      BY <3>1, AnsweredAt
    <3>3. DOMAIN Answered(history, jobs, results) = {}
      BY <3>1, <3>2
    <3>. QED
      BY <3>3 DEF LookedAt, Collected, Answered
  <2>. QED
    BY <2>1, <2>2, <2>3, <2>4, <2>5, FS_EmptySet DEF CountInv
<1>2. EngineInv /\ EngineInv' /\ CountInv /\ [Next]_vars => CountInv'
  <2>. SUFFICES ASSUME EngineInv, EngineInv', CountInv, [Next]_vars PROVE CountInv'
    OBVIOUS
  <2>1. ASSUME NEW w \in Workers, WorkerStep(w) PROVE CountInv'
    BY <2>1, LookupCounts, ResolveCounts, InsertCounts, StoreCounts, FetchCounts DEF WorkerStep
  <2>2. CASE UNCHANGED vars
    <3>1. Collected' = Collected /\ Pending' = Pending /\ Inserting' = Inserting
          /\ UNCHANGED <<jobs, worker, hits, misses, cache, sequential>>
      BY <2>2 DEF vars, Collected, Pending, Inserting, JobOf
    <3>2. LookedAt(Collected') = LookedAt(Collected)
      BY <3>1
    <3>. QED
      BY <3>1, <3>2 DEF CountInv, LookedAt, JobOf
  <2>. QED
    BY <2>1, <2>2, NextBatchCounts DEF Next
<1>3. EngineInv /\ CountInv => LookupsAccounted
  BY CountMeans DEF EngineInv
<1>. QED
  BY <1>1, <1>2, <1>3, EngineCorrect, PTL DEF Spec
=============================================================================
