-------------------------- MODULE AgentRecordsProofs --------------------------
(***************************************************************************)
(* Proofs about the agents' records (AgentRecords): what an agent is told  *)
(* of its memory, of rooms and of tools stays inside its scope, and grants *)
(* and policies survive their way through room state.                      *)
(*                                                                         *)
(* The first argument is about the store alone.  A write is to one key of  *)
(* one family, whether the backend persists it or not, so the memory that  *)
(* is read, and the one a restart finds, hold accepted items only, each    *)
(* under the key of its agent and room.                                    *)
(***************************************************************************)
EXTENDS AgentRecords, SequenceTheorems, FiniteSetTheorems, TLAPS

FamilyNames == {"AUDIT_LOG", "AGENT_MEMORY"}
Parts       == {"resident", "disk"}

StoreShape(s) ==
  /\ DOMAIN s = {"backend"} \cup Parts /\ s.backend \in Backends
  /\ \A part \in Parts : DOMAIN s[part] = FamilyNames

-----------------------------------------------------------------------------
(* The store.                                                              *)

\* A change is to one key.
LEMMA ChangeMeans ==
  ASSUME NEW families, DOMAIN families = FamilyNames,
         NEW change, change.cf \in FamilyNames
  PROVE  /\ DOMAIN Changed(families, change) = FamilyNames
         /\ \A cf \in FamilyNames \ {change.cf} : Changed(families, change)[cf] = families[cf]
         /\ DOMAIN Changed(families, change)[change.cf]
              = (DOMAIN families[change.cf] \ {change.key}) \cup DOMAIN change.as
         /\ \A k \in DOMAIN Changed(families, change)[change.cf] :
              Changed(families, change)[change.cf][k]
                = IF k = change.key THEN change.as[k] ELSE families[change.cf][k]
BY DEF Changed

\* Whatever the backend, each part of the store took the change or stayed.
LEMMA WriteMeans ==
  ASSUME NEW s, StoreShape(s), NEW change, change.cf \in FamilyNames,
         NEW w \in Writes(s, change)
  PROVE  /\ StoreShape(w.store)
         /\ \A part \in Parts : w.store[part] \in {s[part], Changed(s[part], change)}
<1>1. w.store \in {s, Resident(s, change), Persistent(s, change)}
  BY DEF Writes, MemoryStoreWrites, FileStoreWrites, RocksStoreWrites, StoreShape, Backends
<1>2. \A part \in Parts : DOMAIN Changed(s[part], change) = FamilyNames
  BY ChangeMeans DEF StoreShape
<1>3. PICK resident, disk : /\ resident = Changed(s.resident, change)
                            /\ disk = Changed(s.disk, change)
  OBVIOUS
<1>4. CASE w.store = s
  BY <1>4
<1>5. CASE w.store = Resident(s, change)
  <2>1. w.store = [s EXCEPT !.resident = resident]
    BY <1>3, <1>5 DEF Resident
  <2>. QED
    BY <1>2, <1>3, <2>1 DEF StoreShape, Parts
<1>6. CASE w.store = Persistent(s, change)
  <2>1. w.store = [[s EXCEPT !.resident = resident] EXCEPT !.disk = disk]
    BY <1>3, <1>6 DEF Persistent, Resident, StoreShape, Parts
  <2>. QED
    BY <1>2, <1>3, <2>1 DEF StoreShape, Parts
<1>. QED
  BY <1>1, <1>4, <1>5, <1>6

\* A put is to one key, in the parts it reaches.
LEMMA PutMeans ==
  ASSUME NEW s, StoreShape(s), NEW cf \in FamilyNames, NEW key, NEW value,
         NEW w \in put(s, cf, key, value)
  PROVE  /\ StoreShape(w.store)
         /\ \A part \in Parts :
              /\ \A other \in FamilyNames \ {cf} : w.store[part][other] = s[part][other]
              /\ \A k \in DOMAIN w.store[part][cf] :
                   \/ k \in DOMAIN s[part][cf] /\ w.store[part][cf][k] = s[part][cf][k]
                   \/ k = key /\ w.store[part][cf][k] = value
<1>1. PICK change : change = [cf |-> cf, key |-> key, as |-> [k \in {key} |-> value]]
  OBVIOUS
<1>2. w \in Writes(s, change) /\ change.cf = cf /\ change.key = key
      /\ DOMAIN change.as = {key} /\ change.as[key] = value
  BY <1>1 DEF put
<1>3. /\ StoreShape(w.store)
      /\ \A part \in Parts : w.store[part] \in {s[part], Changed(s[part], change)}
  BY <1>2, WriteMeans
<1>. QED
  BY <1>2, <1>3, ChangeMeans DEF StoreShape

\* A deletion leaves the rest as it was.
LEMMA DeleteMeans ==
  ASSUME NEW s, StoreShape(s), NEW cf \in FamilyNames, NEW key, NEW w \in delete(s, cf, key)
  PROVE  /\ StoreShape(w.store)
         /\ \A part \in Parts :
              /\ \A other \in FamilyNames \ {cf} : w.store[part][other] = s[part][other]
              /\ \A k \in DOMAIN w.store[part][cf] :
                   k \in DOMAIN s[part][cf] /\ w.store[part][cf][k] = s[part][cf][k]
<1>1. PICK change : change = [cf |-> cf, key |-> key, as |-> <<>>]
  OBVIOUS
<1>2. w \in Writes(s, change) /\ change.cf = cf /\ change.key = key /\ DOMAIN change.as = {}
  BY <1>1 DEF delete
<1>3. /\ StoreShape(w.store)
      /\ \A part \in Parts : w.store[part] \in {s[part], Changed(s[part], change)}
  BY <1>2, WriteMeans
<1>. QED
  BY <1>2, <1>3, ChangeMeans DEF StoreShape

-----------------------------------------------------------------------------
(* The memory holds accepted items, under the keys of their scopes.        *)

Triple(k) == k = <<k[1], k[2], k[3]>>

Scopes(k, agent, room, key) == k[1] = agent /\ k[2] = room /\ key = <<k[3]>>

Accepted(k, value) ==
  /\ Triple(k)
  /\ [agent |-> k[1], room |-> k[2], key |-> <<k[3]>>, value |-> value] \in writes

MemoryScoped ==
  \A part \in Parts : \A k \in DOMAIN store[part].AGENT_MEMORY :
    Accepted(k, store[part].AGENT_MEMORY[k])

RecordsInv == StoreShape(store) /\ MemoryScoped /\ MemoryConfined

\* Callers keep to what the behaviour's callers do.
Known == session \in Sessions

\* What is asked is a request of some session.
LEMMA AskedMeans ==
  ASSUME Known, NEW op, NEW r \in Asked(op)
  PROVE  r \in Requests
BY DEF Known, Asked, Requests

\* Memory and log are apart: an append to the log leaves the memory alone.
LEMMA AppendsKeepMemory ==
  ASSUME RecordsInv, NEW actor, NEW event, NEW outcome, UNCHANGED writes,
         Appends(store, actor, event, outcome)
  PROVE  StoreShape(store') /\ MemoryScoped'
<1>1. PICK w \in append(store, actor, event) : store' = w.store
  BY DEF Appends
<1>2. PICK key, text : w \in put(store, "AUDIT_LOG", key, text)
  BY <1>1 DEF append
<1>3. "AUDIT_LOG" \in FamilyNames /\ "AGENT_MEMORY" \in FamilyNames \ {"AUDIT_LOG"}
  BY DEF FamilyNames
<1>4. /\ StoreShape(w.store)
      /\ \A part \in Parts : w.store[part]["AGENT_MEMORY"] = store[part]["AGENT_MEMORY"]
  BY <1>2, <1>3, PutMeans DEF RecordsInv
<1>5. \A part \in Parts : store'[part].AGENT_MEMORY = store[part].AGENT_MEMORY
  BY <1>1, <1>4
<1>6. \A k, value : Accepted(k, value) => Accepted(k, value)'
  BY DEF Accepted
<1>. QED
  BY <1>1, <1>4, <1>5, <1>6 DEF RecordsInv, MemoryScoped

\* What an answer may be.
Confined(op, agent, room, items) ==
  /\ op \in {"recall", "recall_all"} =>
       \A item \in items :
         [agent |-> agent, room |-> room, key |-> item.key, value |-> item.value] \in writes
  /\ op \in {"resource_list", "resource_read"} =>
       \E grant \in Grants : grant.agent = agent /\ items \subseteq grant.accessible_rooms
  /\ op = "tool_list" =>
       \E grant \in Grants : grant.agent = agent /\
         \A tool \in items, r \in grant.accessible_rooms :
           classify(grant, tool.name, r) = tool.class

\* An answer that is confined is one the invariant allows.
LEMMA AnswerMeans ==
  ASSUME NEW op, NEW result, NEW agent, NEW room, NEW items, UNCHANGED writes,
         Answer(op, result, agent, room, items), Confined(op, agent, room, items)
  PROVE  MemoryConfined'
<1>1. /\ answer'.op = op /\ answer'.agent = agent /\ answer'.room = room
      /\ answer'.items = items
  BY DEF Answer
<1>. QED
  BY <1>1 DEF Confined, MemoryConfined

\* So does a report.
LEMMA ReportMeans ==
  ASSUME RecordsInv, NEW op, NEW result, NEW agent, NEW room, NEW event, NEW items, UNCHANGED writes,
         Reports(op, result, agent, room, event, items), Confined(op, agent, room, items)
  PROVE  RecordsInv'
BY AppendsKeepMemory, AnswerMeans DEF Reports, RecordsInv

-----------------------------------------------------------------------------
(* The operations.                                                         *)

\* A request's key is stored with the agent and the room before it, and is the key
\* of an item only under that item's agent and room.
LEMMA ItemKeyMeans ==
  ASSUME NEW r \in Requests, NEW agent, NEW room, NEW k, k = item_key(agent, room, r.key)
  PROVE  /\ Len(r.key) = 1 => Triple(k)
         /\ Triple(k) => Scopes(k, agent, room, r.key)
<1>1. PICK S : r.key \in Seq(S)
  BY RecordsAssumption
<1>2. PICK key : key = r.key
  OBVIOUS
<1>3. key \in Seq(S) /\ Len(key) \in Nat
  BY <1>1, <1>2
<1>4. PICK T : key \in Seq(T) /\ <<agent, room>> \in Seq(T)
  <2>1. PICK T : T = S \cup {agent, room}
    OBVIOUS
  <2>. QED
    BY <1>3, <2>1
<1>5. k = <<agent, room>> \o key
  BY <1>2 DEF item_key
<1>6. k \in Seq(T) /\ Len(k) = 2 + Len(key)
  BY <1>4, <1>5
<1>7. /\ k[1] = agent /\ k[2] = room
      /\ \A i \in 1..Len(key) : k[i + 2] = key[i]
  BY <1>3, <1>4, <1>5
<1>8. Len(key) = 1 => Triple(k) /\ key = <<key[1]>>
  BY <1>3, <1>4, <1>6, <1>7 DEF Triple
<1>9. ASSUME Triple(k)
      PROVE  k[1] = agent /\ k[2] = room /\ key = <<k[3]>>
  <2>1. Len(key) = 1
    <3>1. Len(k) = 3
      BY <1>9 DEF Triple
    <3>2. \A n \in Nat : 2 + n = 3 => n = 1
      OBVIOUS
    <3>. QED
      BY <1>3, <1>6, <3>1, <3>2, Zenon
  <2>2. k[3] = key[1]
    BY <1>7, <2>1
  <2>. QED
    BY <1>3, <1>7, <1>8, <2>1, <2>2
<1>. QED
  BY <1>2, <1>8, <1>9 DEF Scopes

\* A denied operation answers nothing.
LEMMA DenialKeeps ==
  ASSUME RecordsInv, NEW op \in {"store", "recall", "recall_all", "forget"}, NEW r \in Requests,
         NEW key, MemoryDenied(op, r.grant, r.room, key)
  PROVE  RecordsInv'
<1>1. PICK event : /\ Reports(op, "denied", r.grant.agent, r.room, event, {})
                   /\ UNCHANGED writes
  BY DEF MemoryDenied, Ghosts
<1>2. Confined(op, r.grant.agent, r.room, {})
  BY DEF Confined
<1>. QED
  BY <1>1, <1>2, ReportMeans

\* Remembering puts the item under the key of its scope.
LEMMA RememberKeeps ==
  ASSUME RecordsInv, Known, Remember
  PROVE  RecordsInv'
<1>1. PICK r \in Requests, value \in Values : \/ MemoryDenied("store", r.grant, r.room, r.key)
                                              \/ InvalidKey(r.grant, r.room, r.key)
                                              \/ StoreItem(r.grant, r.room, r.key, value)
  BY AskedMeans DEF Remember
<1>2. CASE MemoryDenied("store", r.grant, r.room, r.key)
  BY <1>2, DenialKeeps
<1>3. CASE InvalidKey(r.grant, r.room, r.key)
  <2>1. /\ Answer("store", "invalid", r.grant.agent, r.room, {}) /\ UNCHANGED <<store, writes>>
    BY <1>3 DEF InvalidKey, Ghosts
  <2>2. Confined("store", r.grant.agent, r.room, {})
    BY DEF Confined
  <2>3. MemoryConfined'
    BY <2>1, <2>2, AnswerMeans
  <2>. QED
    BY <2>1, <2>3 DEF RecordsInv, MemoryScoped, Accepted
<1>4. CASE StoreItem(r.grant, r.room, r.key, value)
  <2>1. PICK item : item = [agent |-> r.grant.agent, room |-> r.room, key |-> r.key, value |-> value]
    OBVIOUS
  <2>2. PICK k : k = item_key(r.grant.agent, r.room, r.key)
    OBVIOUS
  <2>3. /\ Len(r.key) = 1 /\ writes' = writes \cup {item} /\ UNCHANGED answer
        /\ \E w \in put(store, "AGENT_MEMORY", k, value) : store' = w.store
    BY <1>4, <2>1, <2>2 DEF StoreItem, check_key, MemoryWrite
  <2>4. PICK w \in put(store, "AGENT_MEMORY", k, value) : store' = w.store
    BY <2>3
  <2>5. /\ StoreShape(store')
        /\ \A part \in Parts : \A l \in DOMAIN store'[part].AGENT_MEMORY :
             \/ /\ l \in DOMAIN store[part].AGENT_MEMORY
                /\ store'[part].AGENT_MEMORY[l] = store[part].AGENT_MEMORY[l]
             \/ l = k /\ store'[part].AGENT_MEMORY[l] = value
    BY <2>4, PutMeans DEF RecordsInv, FamilyNames
  <2>6. \A l, v : Accepted(l, v) => Accepted(l, v)'
    BY <2>3 DEF Accepted
  <2>7. Accepted(k, value)'
    <3>1. Triple(k) /\ Scopes(k, r.grant.agent, r.room, r.key)
      BY <2>2, <2>3, ItemKeyMeans
    <3>. QED
      BY <2>1, <2>3, <3>1 DEF Accepted, Scopes
  <2>8. MemoryConfined'
    BY <2>3 DEF RecordsInv, MemoryConfined
  <2>. QED
    BY <2>5, <2>6, <2>7, <2>8 DEF RecordsInv, MemoryScoped
<1>. QED
  BY <1>1, <1>2, <1>3, <1>4

\* Forgetting deletes one key.
LEMMA ForgetKeeps ==
  ASSUME RecordsInv, Known, Forget
  PROVE  RecordsInv'
<1>1. PICK r \in Requests : \/ MemoryDenied("forget", r.grant, r.room, r.key)
                            \/ ForgetItem(r.grant, r.room, r.key)
  BY AskedMeans DEF Forget
<1>2. CASE MemoryDenied("forget", r.grant, r.room, r.key)
  BY <1>2, DenialKeeps
<1>3. CASE ForgetItem(r.grant, r.room, r.key)
  <2>1. PICK k : k = item_key(r.grant.agent, r.room, r.key)
    OBVIOUS
  <2>2. /\ UNCHANGED <<answer, writes>>
        /\ \E w \in delete(store, "AGENT_MEMORY", k) : store' = w.store
    BY <1>3, <2>1 DEF ForgetItem, MemoryWrite
  <2>3. PICK w \in delete(store, "AGENT_MEMORY", k) : store' = w.store
    BY <2>2
  <2>4. /\ StoreShape(store')
        /\ \A part \in Parts : \A l \in DOMAIN store'[part].AGENT_MEMORY :
             /\ l \in DOMAIN store[part].AGENT_MEMORY
             /\ store'[part].AGENT_MEMORY[l] = store[part].AGENT_MEMORY[l]
    BY <2>3, DeleteMeans DEF RecordsInv, FamilyNames
  <2>5. \A l, v : Accepted(l, v) => Accepted(l, v)'
    BY <2>2 DEF Accepted
  <2>6. MemoryConfined'
    BY <2>2 DEF RecordsInv, MemoryConfined
  <2>. QED
    BY <2>4, <2>5, <2>6 DEF RecordsInv, MemoryScoped
<1>. QED
  BY <1>1, <1>2, <1>3

\* What is recalled is under the key that was asked for, which is that of the scope.
LEMMA RecallKeeps ==
  ASSUME RecordsInv, Known, Recall
  PROVE  RecordsInv'
<1>1. PICK r \in Requests : \/ MemoryDenied("recall", r.grant, r.room, r.key)
                            \/ RecallItem(r.grant, r.room, r.key)
  BY AskedMeans DEF Recall
<1>2. CASE MemoryDenied("recall", r.grant, r.room, r.key)
  BY <1>2, DenialKeeps
<1>3. CASE RecallItem(r.grant, r.room, r.key)
  <2>1. PICK value : value = recall(store, r.grant.agent, r.room, r.key)
    OBVIOUS
  <2>2. PICK items : items = {[key |-> r.key, value |-> v] : v \in {value} \ {None}}
    OBVIOUS
  <2>3. PICK event : event = MemoryEvent("recalled", r.room, r.key)
    OBVIOUS
  <2>4. Reports("recall", "ok", r.grant.agent, r.room, event, items) /\ UNCHANGED writes
    BY <1>3, <2>1, <2>2, <2>3 DEF RecallItem, Ghosts
  <2>5. ASSUME NEW item \in items
        PROVE  [agent |-> r.grant.agent, room |-> r.room, key |-> item.key, value |-> item.value] \in writes
    <3>1. PICK k : k = item_key(r.grant.agent, r.room, r.key)
      OBVIOUS
    <3>2. /\ item.key = r.key /\ item.value = value /\ value # None
      BY <2>2, <2>5
    <3>3. k \in DOMAIN store.resident.AGENT_MEMORY /\ value = store.resident.AGENT_MEMORY[k]
      BY <2>1, <3>1, <3>2 DEF recall, get
    <3>4. Accepted(k, value)
      BY <3>3 DEF RecordsInv, MemoryScoped, Parts
    <3>5. /\ Triple(k)
          /\ [agent |-> k[1], room |-> k[2], key |-> <<k[3]>>, value |-> value] \in writes
      BY <3>4 DEF Accepted
    <3>6. Scopes(k, r.grant.agent, r.room, r.key)
      BY <3>1, <3>5, ItemKeyMeans
    <3>. QED
      BY <3>2, <3>5, <3>6 DEF Scopes
  <2>6. Confined("recall", r.grant.agent, r.room, items)
    BY <2>5 DEF Confined
  <2>. QED
    BY <2>4, <2>6, ReportMeans
<1>. QED
  BY <1>1, <1>2, <1>3

\* The key of an item that the scope's prefix finds.
LEMMA PrefixMeans ==
  ASSUME NEW agent, NEW room, NEW k, Triple(k), IsPrefix(room_prefix(agent, room), k)
  PROVE  Scopes(k, agent, room, SubSeq(k, Len(room_prefix(agent, room)) + 1, Len(k)))
<1>1. PICK a, rm, part : a = k[1] /\ rm = k[2] /\ part = k[3]
  OBVIOUS
<1>2. k = <<a, rm, part>>
  BY <1>1 DEF Triple
<1>3. PICK T : agent \in T /\ room \in T /\ a \in T /\ rm \in T /\ part \in T
  <2>1. PICK T : T = {agent, room, a, rm, part}
    OBVIOUS
  <2>. QED
    BY <2>1
<1>4. /\ Len(room_prefix(agent, room)) = 2 /\ Len(k) = 3
      /\ room_prefix(agent, room) \in Seq(T) /\ k \in Seq(T)
  BY <1>2, <1>3 DEF room_prefix
<1>5. SubSeq(room_prefix(agent, room), 1, 2) = SubSeq(k, 1, 2)
  BY <1>4 DEF IsPrefix
<1>6. agent = k[1] /\ room = k[2]
  <2>1. /\ SubSeq(room_prefix(agent, room), 1, 2)[1] = agent
        /\ SubSeq(room_prefix(agent, room), 1, 2)[2] = room
    BY <1>4 DEF room_prefix
  <2>2. SubSeq(k, 1, 2)[1] = k[1] /\ SubSeq(k, 1, 2)[2] = k[2]
    BY <1>4
  <2>. QED
    BY <1>5, <2>1, <2>2
<1>7. SubSeq(k, 3, 3) = <<k[3]>>
  <2>1. SubSeq(k, 3, 3) = <<k[3]>> \o SubSeq(k, 4, 3)
    BY <1>4, SubSeqRecursiveFirst
  <2>2. SubSeq(k, 4, 3) = << >>
    BY SubSeqEmpty
  <2>3. <<k[3]>> \o << >> = <<k[3]>>
    BY <1>4, ConcatEmptySeq
  <2>. QED
    BY <2>1, <2>2, <2>3
<1>. QED
  BY <1>4, <1>6, <1>7 DEF Scopes

\* All that is recalled for a room is under the agent's and the room's prefix.
LEMMA RecallAllKeeps ==
  ASSUME RecordsInv, Known, RecallAll
  PROVE  RecordsInv'
<1>1. PICK r \in Requests : \/ MemoryDenied("recall_all", r.grant, r.room, All)
                            \/ RecallItems(r.grant, r.room)
  BY AskedMeans DEF RecallAll
<1>2. CASE MemoryDenied("recall_all", r.grant, r.room, All)
  BY <1>2, DenialKeeps
<1>3. CASE RecallItems(r.grant, r.room)
  <2>1. PICK agent, room : agent = r.grant.agent /\ room = r.room
    OBVIOUS
  <2>2. PICK items : items = recall_all(store, agent, room)
    OBVIOUS
  <2>3. PICK event : event = MemoryEvent("recalled", room, All)
    OBVIOUS
  <2>4. Reports("recall_all", "ok", agent, room, event, items) /\ UNCHANGED writes
    BY <1>3, <2>1, <2>2, <2>3 DEF RecallItems, Ghosts
  <2>5. ASSUME NEW item \in items
        PROVE  [agent |-> agent, room |-> room, key |-> item.key, value |-> item.value] \in writes
    <3>1. PICK k \in DOMAIN store.resident.AGENT_MEMORY :
            /\ IsPrefix(room_prefix(agent, room), k)
            /\ item.key = SubSeq(k, Len(room_prefix(agent, room)) + 1, Len(k))
            /\ item.value = store.resident.AGENT_MEMORY[k]
      BY <2>2, <2>5 DEF recall_all
    <3>2. Accepted(k, item.value)
      BY <3>1 DEF RecordsInv, MemoryScoped, Parts
    <3>3. /\ Triple(k)
          /\ [agent |-> k[1], room |-> k[2], key |-> <<k[3]>>, value |-> item.value] \in writes
      BY <3>2 DEF Accepted
    <3>4. Scopes(k, agent, room, item.key)
      BY <3>1, <3>3, PrefixMeans
    <3>. QED
      BY <3>3, <3>4 DEF Scopes
  <2>6. Confined("recall_all", agent, room, items)
    BY <2>5 DEF Confined
  <2>. QED
    BY <2>4, <2>6, ReportMeans
<1>. QED
  BY <1>1, <1>2, <1>3

\* Listed rooms are those of the grant.
LEMMA ListResourcesKeeps ==
  ASSUME RecordsInv, Known, ListResources
  PROVE  RecordsInv'
<1>1. PICK r \in Requests :
        /\ \E event : Reports("resource_list", "ok", r.grant.agent, None, event,
                             r.grant.accessible_rooms)
        /\ UNCHANGED writes
  BY AskedMeans DEF ListResources, Ghosts
<1>2. \A room : Confined("resource_list", r.grant.agent, room, r.grant.accessible_rooms)
  BY RecordsAssumption DEF Confined
<1>. QED
  BY <1>1, <1>2, ReportMeans

\* A listed tool has the class that mediation gives it in any room of the grant.
LEMMA ListTells ==
  ASSUME NEW grant, NEW tool \in list_for(Catalog, grant), NEW room \in grant.accessible_rooms
  PROVE  classify(grant, tool.name, room) = tool.class
<1>1. /\ tool.class = tool_class(grant, tool.name) /\ tool.class # None
  BY DEF list_for
<1>2. permits_tool(grant, tool.name) /\ tool.class = OverrideOrDefault(grant, tool.name)
  BY <1>1 DEF tool_class
<1>. QED
  BY <1>2 DEF classify, permits_room

\* Tools are listed with the classes they will be given.
LEMMA ListToolsKeeps ==
  ASSUME RecordsInv, Known, ListTools
  PROVE  RecordsInv'
<1>1. PICK r \in Requests :
        /\ \E event : Reports("tool_list", "ok", r.grant.agent, None, event,
                             list_for(Catalog, r.grant))
        /\ UNCHANGED writes
  BY AskedMeans DEF ListTools, Ghosts
<1>2. \A room : Confined("tool_list", r.grant.agent, room, list_for(Catalog, r.grant))
  BY RecordsAssumption, ListTells DEF Confined
<1>. QED
  BY <1>1, <1>2, ReportMeans

\* What is read is a room of the grant.
LEMMA ReadResourceKeeps ==
  ASSUME RecordsInv, Known, ReadResource
  PROVE  RecordsInv'
<1>1. PICK r \in Requests :
        /\ UNCHANGED writes
        /\ \/ Answer("resource_read", "unknown", r.grant.agent, None, {}) /\ UNCHANGED store
           \/ \E room, event : Reports("resource_read", "denied", r.grant.agent, room, event, {})
           \/ \E room, event : /\ permits_room(r.grant, room)
                               /\ Reports("resource_read", "ok", r.grant.agent, room, event, {room})
  BY AskedMeans DEF ReadResource, Ghosts
<1>2. \A room, items :
        items \subseteq r.grant.accessible_rooms => Confined("resource_read", r.grant.agent, room, items)
  BY RecordsAssumption DEF Confined
<1>3. CASE Answer("resource_read", "unknown", r.grant.agent, None, {}) /\ UNCHANGED store
  <2>1. MemoryConfined'
    BY <1>1, <1>2, <1>3, AnswerMeans
  <2>. QED
    BY <1>1, <1>3, <2>1 DEF RecordsInv, MemoryScoped, Accepted
<1>4. CASE \E room, event : Reports("resource_read", "denied", r.grant.agent, room, event, {})
  BY <1>1, <1>2, <1>4, ReportMeans
<1>5. CASE \E room, event : /\ permits_room(r.grant, room)
                            /\ Reports("resource_read", "ok", r.grant.agent, room, event, {room})
  BY <1>1, <1>2, <1>5, ReportMeans DEF permits_room
<1>. QED
  BY <1>1, <1>3, <1>4, <1>5

\* What is between its two writes is no answer to a recall.
Pending == doing # Idle => doing.op \in {"store", "forget"}

\* Only remember and forget are ever there.
LEMMA PendingSteps ==
  ASSUME Pending, [Next]_vars
  PROVE  Pending'
<1>1. CASE UNCHANGED doing
  BY <1>1 DEF Pending
<1>2. ASSUME NEW op \in {"store", "forget"}, NEW what, NEW grant, NEW room, NEW key, NEW outcomes,
             MemoryWrite(op, what, grant, room, key, outcomes)
      PROVE  Pending'
  BY <1>2 DEF MemoryWrite, Pending
<1>3. CASE Remember
  <2>1. UNCHANGED doing \/ \E what, grant, room, key, outcomes :
                             MemoryWrite("store", what, grant, room, key, outcomes)
    BY <1>3 DEF Remember, MemoryDenied, InvalidKey, StoreItem
  <2>. QED
    BY <1>1, <1>2, <2>1
<1>4. CASE Forget
  <2>1. UNCHANGED doing \/ \E what, grant, room, key, outcomes :
                             MemoryWrite("forget", what, grant, room, key, outcomes)
    BY <1>4 DEF Forget, MemoryDenied, ForgetItem
  <2>. QED
    BY <1>1, <1>2, <2>1
<1>5. CASE Report \/ Restart
  BY <1>5 DEF Report, Restart, Pending
<1>6. CASE Recall \/ RecallAll \/ ListResources \/ ListTools \/ ReadResource \/ Mediate
  BY <1>1, <1>6 DEF Recall, RecallItem, RecallAll, RecallItems, MemoryDenied, ListResources, ListTools,
                    ReadResource, Mediate
<1>7. CASE UNCHANGED vars
  BY <1>1, <1>7 DEF vars
<1>. QED
  BY <1>3, <1>4, <1>5, <1>6, <1>7 DEF Next

\* Nobody else calls.
LEMMA SessionSteps ==
  ASSUME Known, [Next]_vars
  PROVE  Known'
<1>1. \A op, result, agent, room, event, items :
        Reports(op, result, agent, room, event, items) => UNCHANGED session
  BY DEF Reports, Appends
<1>2. Remember \/ Forget => UNCHANGED session
  BY <1>1 DEF Remember, Forget, MemoryDenied, InvalidKey, StoreItem, ForgetItem, MemoryWrite
<1>3. Report \/ Recall \/ RecallAll => UNCHANGED session
  BY <1>1 DEF Report, Recall, RecallAll, MemoryDenied, RecallItem, RecallItems
<1>4. ListResources \/ ListTools \/ ReadResource => UNCHANGED session
  BY <1>1 DEF ListResources, ListTools, ReadResource
<1>5. Mediate \/ Restart \/ UNCHANGED vars => UNCHANGED session
  BY DEF Mediate, Appends, Restart, vars
<1>. QED
  BY <1>2, <1>3, <1>4, <1>5 DEF Next, Known

\* Every step keeps it, the writes that fail and the restarts included.
LEMMA RecordsSteps ==
  ASSUME RecordsInv, Known, Pending, [Next]_vars
  PROVE  RecordsInv'
<1>1. CASE Remember \/ Forget \/ Recall \/ RecallAll
  BY <1>1, RememberKeeps, ForgetKeeps, RecallKeeps, RecallAllKeeps
<1>2. CASE ListResources \/ ListTools \/ ReadResource
  BY <1>2, ListResourcesKeeps, ListToolsKeeps, ReadResourceKeeps
<1>3. CASE Report
  <2>1. /\ Reports(doing.op, "ok", doing.agent, doing.room, doing.event, {})
        /\ doing.op \in {"store", "forget"} /\ UNCHANGED writes
    BY <1>3 DEF Report, Pending, Ghosts
  <2>2. Confined(doing.op, doing.agent, doing.room, {})
    BY <2>1 DEF Confined
  <2>. QED
    BY <2>1, <2>2, ReportMeans
<1>4. CASE Mediate
  <2>1. PICK actor, event, outcome : Appends(store, actor, event, outcome) /\ UNCHANGED <<answer, writes>>
    BY <1>4 DEF Mediate, Ghosts
  <2>2. StoreShape(store') /\ MemoryScoped'
    BY <2>1, AppendsKeepMemory
  <2>. QED
    BY <2>1, <2>2 DEF RecordsInv, MemoryConfined
<1>5. CASE Restart
  <2>1. store' = [store EXCEPT !.resident = store.disk] /\ UNCHANGED writes /\ answer' = NoAnswer
    BY <1>5 DEF Restart, open
  <2>2. StoreShape(store') /\ store'.resident = store.disk /\ store'.disk = store.disk
    BY <2>1 DEF RecordsInv, StoreShape, Parts
  <2>3. MemoryScoped'
    <3>1. \A k, value : Accepted(k, value) => Accepted(k, value)'
      BY <2>1 DEF Accepted
    <3>2. \A part \in Parts : store'[part].AGENT_MEMORY = store.disk.AGENT_MEMORY
      BY <2>2 DEF Parts
    <3>. QED
      BY <3>1, <3>2 DEF RecordsInv, MemoryScoped, Parts
  <2>4. MemoryConfined'
    BY <2>1 DEF MemoryConfined, NoAnswer
  <2>. QED
    BY <2>2, <2>3, <2>4 DEF RecordsInv
<1>6. CASE UNCHANGED vars
  BY <1>6 DEF vars, RecordsInv, MemoryScoped, Accepted, MemoryConfined
<1>. QED
  BY <1>1, <1>2, <1>3, <1>4, <1>5, <1>6 DEF Next

-----------------------------------------------------------------------------
(* The theorem.                                                            *)

\* What an agent recalls it stored itself, in that room; what it lists and reads
\* is in its grant; and a listed tool has the class mediation gives it, on every
\* backend, with any writes failing and any number of restarts (memory.rs,
\* resources.rs, catalog.rs).
THEOREM AgentsKeepToTheirScope == Spec => []MemoryConfined
<1>1. Init => RecordsInv /\ Known /\ Pending
  <2>1. ASSUME NEW backend \in Backends
        PROVE  /\ StoreShape(Fresh(backend))
               /\ \A part \in Parts : DOMAIN Fresh(backend)[part].AGENT_MEMORY = {}
    BY DEF StoreShape, Fresh, NoFamilies, Parts, FamilyNames
  <2>2. Init => StoreShape(store) /\ MemoryScoped
    BY <2>1 DEF Init, MemoryScoped
  <2>3. Init => MemoryConfined
    BY DEF Init, MemoryConfined, NoAnswer
  <2>4. Init => Known /\ Pending
    BY DEF Init, Known, Pending
  <2>. QED
    BY <2>2, <2>3, <2>4 DEF RecordsInv
<1>2. RecordsInv /\ Known /\ Pending /\ [Next]_vars => RecordsInv' /\ Known' /\ Pending'
  BY RecordsSteps, SessionSteps, PendingSteps
<1>3. RecordsInv => MemoryConfined
  BY DEF RecordsInv
<1>. QED
  BY <1>1, <1>2, <1>3, PTL DEF Spec

-----------------------------------------------------------------------------
(* Values and what they hold.                                              *)

LEMMA ValueMeans ==
  ASSUME NEW x
  PROVE  /\ StrValue(x).kind = "Str" /\ StrValue(x).str = x
         /\ NumValue(x).kind = "U64" /\ NumValue(x).num = x
         /\ ListValue(x).kind = "List" /\ ListValue(x).list = x
BY DEF StrValue, NumValue, ListValue

-----------------------------------------------------------------------------
(* Sets as lists.                                                          *)

\* A finite set is listed without repetition, and all of it.
LEMMA Enumerated ==
  ASSUME NEW S, IsFiniteSet(S)
  PROVE  /\ Cardinality(S) \in Nat /\ SetToSeq(S) \in [1..Cardinality(S) -> S]
         /\ \A x \in S : \E i \in 1..Cardinality(S) : SetToSeq(S)[i] = x
<1>1. PICK n : n = Cardinality(S)
  OBVIOUS
<1>2. n \in Nat /\ ExistsBijection(1..n, S)
  BY <1>1, FS_CardinalityType
<1>3. \E f \in [1..n -> S] : IsInjective(f)
  BY <1>2 DEF ExistsBijection, Bijection, Injection
<1>4. SetToSeq(S) \in [1..n -> S] /\ IsInjective(SetToSeq(S))
  BY <1>1, <1>3 DEF SetToSeq
<1>5. SetToSeq(S) \in Injection(1..n, S)
  BY <1>4 DEF Injection
<1>6. Cardinality(1..n) = n
  BY <1>2, FS_Interval
<1>7. SetToSeq(S) \in Surjection(1..n, S)
  BY <1>1, <1>5, <1>6, FS_Injection
<1>. QED
  BY <1>1, <1>2, <1>4, <1>7 DEF Surjection

\* A set of strings is written as values and read back.
LEMMA StringsBack ==
  ASSUME NEW S, IsFiniteSet(S)
  PROVE  /\ \A i \in DOMAIN Strings(S) : \E x \in S : Strings(S)[i] = StrValue(x)
         /\ StringsIn(ListValue(Strings(S))) = S
<1>1. PICK T : T = {StrValue(x) : x \in S}
  OBVIOUS
<1>2. IsFiniteSet(T)
  <2>1. [x \in S |-> StrValue(x)] \in Surjection(S, T)
    BY <1>1 DEF Surjection
  <2>. QED
    BY <2>1, FS_Surjection
<1>3. PICK l : l = Strings(S)
  OBVIOUS
<1>4. l = SetToSeq(T)
  BY <1>1, <1>3 DEF Strings
<1>5. /\ DOMAIN l = 1..Cardinality(T)
      /\ \A i \in DOMAIN l : l[i] \in T
      /\ \A y \in T : \E i \in DOMAIN l : l[i] = y
  BY <1>2, <1>4, Enumerated
<1>6. \A i \in DOMAIN l : \E x \in S : l[i] = StrValue(x)
  BY <1>1, <1>5
<1>7. \A x \in S : \E i \in DOMAIN l : l[i] = StrValue(x)
  BY <1>1, <1>5
<1>8. StringsIn(ListValue(l)) = {l[i].str : i \in DOMAIN l}
  BY DEF StringsIn, ListValue
<1>9. {l[i].str : i \in DOMAIN l} = S
  <2>1. \A x : StrValue(x).str = x
    BY DEF StrValue
  <2>. QED
    BY <1>6, <1>7, <2>1
<1>. QED
  BY <1>3, <1>6, <1>8, <1>9

-----------------------------------------------------------------------------
(* Decoding field by field.                                                *)

LEMMA OrderMeans ==
  /\ DOMAIN FieldOrder = 1..8 /\ \A i \in 1..8 : FieldOrder[i] \in Fields
  /\ \A f \in Fields : \E i \in 1..8 : FieldOrder[i] = f
  /\ \A i, j \in 1..8 : FieldOrder[i] = FieldOrder[j] => i = j
<1>1. /\ FieldOrder[1] = "agent" /\ FieldOrder[2] = "rate_limit_per_min"
      /\ FieldOrder[3] = "daily_call_limit" /\ FieldOrder[4] = "daily_token_budget"
      /\ FieldOrder[5] = "default_class" /\ FieldOrder[6] = "allowed_tools"
      /\ FieldOrder[7] = "accessible_rooms" /\ FieldOrder[8] = "overrides"
      /\ DOMAIN FieldOrder = 1..8
  BY DEF FieldOrder
<1>2. \A i \in 1..8 : i = 1 \/ i = 2 \/ i = 3 \/ i = 4 \/ i = 5 \/ i = 6 \/ i = 7 \/ i = 8
  OBVIOUS
<1>. QED
  BY <1>1, <1>2 DEF Fields

\* The first field that stops the decoding, if one does.
LEMMA FirstBad ==
  ASSUME NEW c, BadFields(c) # {}
  PROVE  \E i \in BadFields(c) : IsFirst(i, BadFields(c))
<1>. DEFINE R == {ss \in Nat \X Nat : ss[1] < ss[2]}
<1>1. IsWellFoundedOn(R, Nat)
  <2>1. R = OpToRel(<, Nat)
    BY DEF OpToRel
  <2>. HIDE DEF R
  <2>. QED
    BY <2>1, NatLessThanWellFounded, Zenon
<1>. HIDE DEF R
<1>2. BadFields(c) \subseteq Nat
  BY OrderMeans DEF BadFields
<1>3. PICK i \in BadFields(c) : \A j \in BadFields(c) : ~ (<<j, i>> \in R)
  BY <1>1, <1>2, WFMin, Zenon
<1>4. ASSUME NEW j \in BadFields(c)
      PROVE  i <= j
  <2>1. i \in Nat /\ j \in Nat
    BY <1>2
  <2>2. <<j, i>>[1] = j /\ <<j, i>>[2] = i /\ <<j, i>> \in Nat \X Nat
    BY <2>1
  <2>3. ~(j < i)
    BY <1>3, <2>2 DEF R
  <2>. QED
    BY <2>1, <2>3
<1>. QED
  BY <1>4 DEF IsFirst

\* Content is decoded when each field is well formed or may be absent.
LEMMA NothingBad ==
  ASSUME NEW c,
         \A f \in Fields : IF f \in DOMAIN c THEN WellFormed(c, f) ELSE f \in OptionalFields
  PROVE  from_content(c) = [ok |-> TRUE, grant |-> Decoded(c)]
<1>1. BadFields(c) = {}
  BY OrderMeans DEF BadFields
<1>. QED
  BY <1>1 DEF from_content

\* A mandatory field that is absent, and the only one, is the error.
LEMMA OneMissing ==
  ASSUME NEW c, NEW field \in Fields \ OptionalFields, field \notin DOMAIN c,
         \A f \in Fields \ {field} : f \in DOMAIN c /\ WellFormed(c, f)
  PROVE  from_content(c) = [ok |-> FALSE, field |-> field, error |-> "MissingField"]
<1>1. PICK i \in 1..8 : FieldOrder[i] = field
  BY OrderMeans
<1>2. BadFields(c) = {i}
  <2>1. \A j \in 1..8 : j # i => FieldOrder[j] \in Fields \ {field}
    BY <1>1, OrderMeans
  <2>. QED
    BY <1>1, <2>1, OrderMeans DEF BadFields
<1>3. (CHOOSE j \in BadFields(c) : IsFirst(j, BadFields(c))) = i
  BY <1>2 DEF IsFirst
<1>. QED
  BY <1>1, <1>2, <1>3 DEF from_content

\* What refuses whole content is a malformed field.
LEMMA RefusedFor ==
  ASSUME NEW c, Fields \subseteq DOMAIN c
  PROVE  \/ /\ \A f \in Fields : WellFormed(c, f)
            /\ from_content(c) = [ok |-> TRUE, grant |-> Decoded(c)]
         \/ ~from_content(c).ok /\ ~WellFormed(c, from_content(c).field)
<1>1. CASE BadFields(c) = {}
  <2>1. \A f \in Fields : WellFormed(c, f)
    BY <1>1, OrderMeans DEF BadFields
  <2>. QED
    BY <1>1, <2>1 DEF from_content
<1>2. CASE BadFields(c) # {}
  <2>1. PICK i : i = CHOOSE j \in BadFields(c) : IsFirst(j, BadFields(c))
    OBVIOUS
  <2>2. i \in BadFields(c)
    BY <1>2, <2>1, FirstBad
  <2>3. FieldOrder[i] \in DOMAIN c /\ ~WellFormed(c, FieldOrder[i])
    BY <2>2, OrderMeans DEF BadFields
  <2>4. from_content(c) = [ok |-> FALSE, field |-> FieldOrder[i], error |-> "InvalidField"]
    BY <1>2, <2>1, <2>3 DEF from_content
  <2>. QED
    BY <2>3, <2>4
<1>. QED
  BY <1>1, <1>2

-----------------------------------------------------------------------------
(* A grant there and back.                                                 *)

LEMMA ListMeans ==
  ASSUME NEW c, NEW f \in Fields
  PROVE  /\ f = "allowed_tools" =>
              (WellFormed(c, f) <=> /\ c[f].kind = "List"
                                    /\ \A i \in DOMAIN c[f].list : IsStr(c[f].list[i], Tools))
         /\ f = "accessible_rooms" =>
              (WellFormed(c, f) <=> /\ c[f].kind = "List"
                                    /\ \A i \in DOMAIN c[f].list : IsStr(c[f].list[i], Rooms))
         /\ f = "overrides" =>
              (WellFormed(c, f) <=> /\ c[f].kind = "List"
                                    /\ \A i \in DOMAIN c[f].list : IsOverride(c[f].list[i]))
BY DEF WellFormed, IsList

LEMMA FieldMeans ==
  ASSUME NEW c, NEW f \in Fields
  PROVE  /\ f = "agent" => (WellFormed(c, f) <=> IsStr(c[f], Agents))
         /\ f = "default_class" => (WellFormed(c, f) <=> IsStr(c[f], ActionClass))
         /\ f \in {"rate_limit_per_min", "daily_call_limit"} =>
              (WellFormed(c, f) <=> IsNum(c[f], U32Max))
         /\ f = "daily_token_budget" => (WellFormed(c, f) <=> IsNum(c[f], U64Max))
BY DEF WellFormed

\* Each field of what to_content wrote.
LEMMA Written ==
  ASSUME NEW grant
  PROVE  /\ to_content(grant) = [f \in Fields |-> to_content(grant)[f]]
         /\ to_content(grant).agent = StrValue(grant.agent)
         /\ to_content(grant).rate_limit_per_min = NumValue(grant.rate_limit_per_min)
         /\ to_content(grant).daily_call_limit = NumValue(grant.daily_call_limit)
         /\ to_content(grant).daily_token_budget = NumValue(grant.daily_token_budget)
         /\ to_content(grant).default_class = StrValue(grant.default_class)
         /\ to_content(grant).allowed_tools = ListValue(Strings(grant.allowed_tools))
         /\ to_content(grant).accessible_rooms = ListValue(Strings(grant.accessible_rooms))
         /\ to_content(grant).overrides
              = ListValue([i \in DOMAIN grant.overrides |->
                  ListValue(<<StrValue(grant.overrides[i][1]), StrValue(grant.overrides[i][2])>>)])
BY DEF to_content, Fields

\* Content that has a field of a grant has it well formed.
LEMMA WrittenWell ==
  ASSUME GrantsFit, NEW grant \in Grants, NEW c, NEW f \in Fields,
         c[f] = to_content(grant)[f]
  PROVE  WellFormed(c, f)
<1>1. /\ grant \in CapabilityGrant
      /\ IsFiniteSet(grant.allowed_tools) /\ IsFiniteSet(grant.accessible_rooms)
      /\ grant.rate_limit_per_min <= U32Max /\ grant.daily_call_limit <= U32Max
      /\ grant.daily_token_budget <= U64Max
  BY DEF GrantsFit
<1>2. ASSUME NEW S, NEW M, IsFiniteSet(S), S \subseteq M
      PROVE  \A i \in DOMAIN ListValue(Strings(S)).list : IsStr(ListValue(Strings(S)).list[i], M)
  <2>1. PICK l : l = Strings(S)
    OBVIOUS
  <2>2. \A i \in DOMAIN l : \E x \in S : l[i] = StrValue(x)
    BY <1>2, <2>1, StringsBack
  <2>3. \A i \in DOMAIN l : IsStr(l[i], M)
    BY <1>2, <2>2, ValueMeans DEF IsStr
  <2>4. ListValue(Strings(S)).list = l
    BY <2>1, ValueMeans
  <2>. QED
    BY <2>3, <2>4
<1>3. CASE f = "allowed_tools"
  <2>1. grant.allowed_tools \subseteq Tools
    BY <1>1 DEF CapabilityGrant
  <2>2. c[f] = ListValue(Strings(grant.allowed_tools))
    BY <1>3, Written
  <2>3. c[f].kind = "List"
    BY <2>2 DEF ListValue
  <2>. QED
    BY <1>1, <1>2, <1>3, <2>1, <2>2, <2>3, ListMeans
<1>4. CASE f = "accessible_rooms"
  <2>1. grant.accessible_rooms \subseteq Rooms
    BY <1>1 DEF CapabilityGrant
  <2>2. c[f] = ListValue(Strings(grant.accessible_rooms))
    BY <1>4, Written
  <2>3. c[f].kind = "List"
    BY <2>2 DEF ListValue
  <2>. QED
    BY <1>1, <1>2, <1>4, <2>1, <2>2, <2>3, ListMeans
<1>5. CASE f = "overrides"
  <2>1. \A i \in DOMAIN grant.overrides :
          grant.overrides[i][1] \in Tools /\ grant.overrides[i][2] \in ActionClass
    BY <1>1 DEF CapabilityGrant
  <2>2. \A t \in Tools, k \in ActionClass : IsOverride(ListValue(<<StrValue(t), StrValue(k)>>))
    BY DEF IsOverride, IsStr, ListValue, StrValue
  <2>3. PICK l : l = [i \in DOMAIN grant.overrides |->
                  ListValue(<<StrValue(grant.overrides[i][1]), StrValue(grant.overrides[i][2])>>)]
    OBVIOUS
  <2>4. \A i \in DOMAIN l : IsOverride(l[i])
    BY <2>1, <2>2, <2>3
  <2>5. c[f] = ListValue(l)
    BY <1>5, <2>3, Written
  <2>6. c[f].kind = "List" /\ c[f].list = l
    BY <2>5 DEF ListValue
  <2>. QED
    BY <1>5, <2>4, <2>6, ListMeans
<1>6. CASE f = "agent"
  <2>1. grant.agent \in Agents
    BY <1>1 DEF CapabilityGrant
  <2>2. c[f] = StrValue(grant.agent)
    BY <1>6, Written
  <2>3. IsStr(c[f], Agents)
    BY <2>1, <2>2, ValueMeans DEF IsStr
  <2>. QED
    BY <1>6, <2>3, FieldMeans
<1>7. CASE f = "default_class"
  <2>1. grant.default_class \in ActionClass
    BY <1>1 DEF CapabilityGrant
  <2>2. c[f] = StrValue(grant.default_class)
    BY <1>7, Written
  <2>3. IsStr(c[f], ActionClass)
    BY <2>1, <2>2, ValueMeans DEF IsStr
  <2>. QED
    BY <1>7, <2>3, FieldMeans
<1>8. CASE f = "rate_limit_per_min"
  <2>1. grant.rate_limit_per_min <= U32Max
    BY <1>1
  <2>2. c[f] = NumValue(grant.rate_limit_per_min)
    BY <1>8, Written
  <2>3. IsNum(c[f], U32Max)
    BY <2>1, <2>2, ValueMeans DEF IsNum
  <2>. QED
    BY <1>8, <2>3, FieldMeans
<1>9. CASE f = "daily_call_limit"
  <2>1. grant.daily_call_limit <= U32Max
    BY <1>1
  <2>2. c[f] = NumValue(grant.daily_call_limit)
    BY <1>9, Written
  <2>3. IsNum(c[f], U32Max)
    BY <2>1, <2>2, ValueMeans DEF IsNum
  <2>. QED
    BY <1>9, <2>3, FieldMeans
<1>10. CASE f = "daily_token_budget"
  <2>1. grant.daily_token_budget <= U64Max
    BY <1>1
  <2>2. c[f] = NumValue(grant.daily_token_budget)
    BY <1>10, Written
  <2>3. IsNum(c[f], U64Max)
    BY <2>1, <2>2, ValueMeans DEF IsNum
  <2>. QED
    BY <1>10, <2>3, FieldMeans
<1>. QED
  BY <1>3, <1>4, <1>5, <1>6, <1>7, <1>8, <1>9, <1>10 DEF Fields

\* Reading the mandatory fields of a grant gives the grant but for its budgets.
LEMMA ReadBack ==
  ASSUME GrantsFit, NEW grant \in Grants, NEW c,
         \A f \in Fields \ OptionalFields : c[f] = to_content(grant)[f]
  PROVE  Decoded(c) = [grant EXCEPT !.daily_call_limit   = LimitIn(c, "daily_call_limit"),
                                    !.daily_token_budget = LimitIn(c, "daily_token_budget")]
<1>1. /\ grant \in CapabilityGrant
      /\ IsFiniteSet(grant.allowed_tools) /\ IsFiniteSet(grant.accessible_rooms)
  BY DEF GrantsFit
<1>2. /\ c.agent = to_content(grant).agent
      /\ c.rate_limit_per_min = to_content(grant).rate_limit_per_min
      /\ c.default_class = to_content(grant).default_class
      /\ c.allowed_tools = to_content(grant).allowed_tools
      /\ c.accessible_rooms = to_content(grant).accessible_rooms
      /\ c.overrides = to_content(grant).overrides
  BY DEF Fields, OptionalFields
<1>3. /\ StringsIn(c.allowed_tools) = grant.allowed_tools
      /\ StringsIn(c.accessible_rooms) = grant.accessible_rooms
  BY <1>1, <1>2, StringsBack, Written
<1>4. /\ c.agent.str = grant.agent /\ c.rate_limit_per_min.num = grant.rate_limit_per_min
      /\ c.default_class.str = grant.default_class
  <2>1. /\ c.agent = StrValue(grant.agent)
        /\ c.rate_limit_per_min = NumValue(grant.rate_limit_per_min)
        /\ c.default_class = StrValue(grant.default_class)
    BY <1>2, Written
  <2>. QED
    BY <2>1, ValueMeans
<1>5. [i \in DOMAIN c.overrides.list |-> << c.overrides.list[i].list[1].str,
                                            c.overrides.list[i].list[2].str >>] = grant.overrides
  <2>1. PICK o : o = grant.overrides
    OBVIOUS
  <2>2. o \in Seq(Tools \X ActionClass)
    BY <1>1, <2>1 DEF CapabilityGrant
  <2>3. /\ DOMAIN o = 1..Len(o) /\ o = [i \in DOMAIN o |-> o[i]]
        /\ \A i \in DOMAIN o : o[i] = <<o[i][1], o[i][2]>>
    BY <2>2
  <2>4. /\ DOMAIN c.overrides.list = DOMAIN o
        /\ \A i \in DOMAIN o :
             c.overrides.list[i] = ListValue(<<StrValue(o[i][1]), StrValue(o[i][2])>>)
    <3>1. PICK l : l = [i \in DOMAIN o |-> ListValue(<<StrValue(o[i][1]), StrValue(o[i][2])>>)]
      OBVIOUS
    <3>2. c.overrides = ListValue(l)
      BY <1>2, <2>1, <3>1, Written
    <3>. QED
      BY <3>1, <3>2, ValueMeans
  <2>5. \A x, y : /\ ListValue(<<StrValue(x), StrValue(y)>>).list[1].str = x
                  /\ ListValue(<<StrValue(x), StrValue(y)>>).list[2].str = y
    BY DEF ListValue, StrValue
  <2>6. \A i \in DOMAIN o : << c.overrides.list[i].list[1].str,
                               c.overrides.list[i].list[2].str >> = o[i]
    <3>1. TAKE i \in DOMAIN o
    <3>2. PICK x, y : x = o[i][1] /\ y = o[i][2]
      OBVIOUS
    <3>3. c.overrides.list[i] = ListValue(<<StrValue(x), StrValue(y)>>)
      BY <2>4, <3>1, <3>2
    <3>4. << c.overrides.list[i].list[1].str, c.overrides.list[i].list[2].str >> = <<x, y>>
      BY <2>5, <3>3
    <3>. QED
      BY <2>3, <3>1, <3>2, <3>4
  <2>. QED
    BY <2>1, <2>3, <2>4, <2>6
<1>. QED
  <2>1. Decoded(c) = [agent |-> grant.agent, allowed_tools |-> grant.allowed_tools,
                      accessible_rooms |-> grant.accessible_rooms,
                      rate_limit_per_min |-> grant.rate_limit_per_min,
                      daily_call_limit |-> LimitIn(c, "daily_call_limit"),
                      daily_token_budget |-> LimitIn(c, "daily_token_budget"),
                      default_class |-> grant.default_class, overrides |-> grant.overrides]
    BY <1>3, <1>4, <1>5 DEF Decoded
  <2>2. PICK calls, tokens : /\ calls = LimitIn(c, "daily_call_limit")
                             /\ tokens = LimitIn(c, "daily_token_budget")
    OBVIOUS
  <2>3. [agent |-> grant.agent, allowed_tools |-> grant.allowed_tools,
         accessible_rooms |-> grant.accessible_rooms,
         rate_limit_per_min |-> grant.rate_limit_per_min,
         daily_call_limit |-> calls, daily_token_budget |-> tokens,
         default_class |-> grant.default_class, overrides |-> grant.overrides]
          = [grant EXCEPT !.daily_call_limit = calls, !.daily_token_budget = tokens]
    <3>1. /\ DOMAIN grant = Fields /\ grant = [f \in Fields |-> grant[f]]
      BY <1>1 DEF CapabilityGrant, Fields
    <3>2. [grant EXCEPT !.daily_call_limit = calls, !.daily_token_budget = tokens]
            = [f \in Fields |-> IF f = "daily_token_budget" THEN tokens
                                ELSE IF f = "daily_call_limit" THEN calls ELSE grant[f]]
      BY <3>1 DEF Fields
    <3>. QED
      BY <3>2 DEF Fields
  <2>. QED
    BY <2>1, <2>2, <2>3

Without(content, field) == [f \in (DOMAIN content) \ {field} |-> content[f]]

\* A grant survives whole content, and content without a budget has none.
LEMMA GrantReturns ==
  ASSUME GrantsFit, NEW grant \in Grants,
         NEW content, content = to_content(grant)
  PROVE  /\ from_content(content) = [ok |-> TRUE, grant |-> grant]
         /\ \A field \in (DOMAIN content) \ OptionalFields :
              from_content(Without(content, field))
                = [ok |-> FALSE, field |-> field, error |-> "MissingField"]
         /\ from_content(Without(content, "daily_call_limit"))
              = [ok |-> TRUE, grant |-> [grant EXCEPT !.daily_call_limit = 0]]
         /\ from_content(Without(content, "daily_token_budget"))
              = [ok |-> TRUE, grant |-> [grant EXCEPT !.daily_token_budget = 0]]
<1>1. DOMAIN content = Fields
  BY Written
<1>2. \A c, f : f \in Fields /\ c[f] = content[f] => WellFormed(c, f)
  BY WrittenWell
<1>3. /\ grant = [grant EXCEPT !.daily_call_limit = grant.daily_call_limit,
                               !.daily_token_budget = grant.daily_token_budget]
      /\ [grant EXCEPT !.daily_call_limit = 0]
           = [grant EXCEPT !.daily_call_limit = 0,
                           !.daily_token_budget = grant.daily_token_budget]
      /\ [grant EXCEPT !.daily_token_budget = 0]
           = [grant EXCEPT !.daily_call_limit = grant.daily_call_limit,
                           !.daily_token_budget = 0]
  BY DEF GrantsFit, CapabilityGrant
<1>4. /\ content.daily_call_limit.num = grant.daily_call_limit
      /\ content.daily_token_budget.num = grant.daily_token_budget
  <2>1. /\ content.daily_call_limit = NumValue(grant.daily_call_limit)
        /\ content.daily_token_budget = NumValue(grant.daily_token_budget)
    BY Written
  <2>. QED
    BY <2>1, ValueMeans
<1>5. from_content(content) = [ok |-> TRUE, grant |-> grant]
  <2>1. from_content(content) = [ok |-> TRUE, grant |-> Decoded(content)]
    BY <1>1, <1>2, NothingBad
  <2>2. /\ LimitIn(content, "daily_call_limit") = grant.daily_call_limit
        /\ LimitIn(content, "daily_token_budget") = grant.daily_token_budget
    BY <1>1, <1>4 DEF LimitIn, Fields
  <2>3. Decoded(content)
          = [grant EXCEPT !.daily_call_limit   = LimitIn(content, "daily_call_limit"),
                          !.daily_token_budget = LimitIn(content, "daily_token_budget")]
    BY ReadBack
  <2>4. Decoded(content) = grant
    BY <1>3, <2>2, <2>3
  <2>. QED
    BY <2>1, <2>4
<1>6. ASSUME NEW field \in Fields \ OptionalFields, NEW c,
             c = Without(content, field)
      PROVE  from_content(c) = [ok |-> FALSE, field |-> field, error |-> "MissingField"]
  <2>1. DOMAIN c = Fields \ {field} /\ \A f \in Fields \ {field} : c[f] = content[f]
    BY <1>1, <1>6 DEF Without
  <2>. QED
    BY <1>2, <2>1, OneMissing
<1>7. ASSUME NEW c, c = Without(content, "daily_call_limit")
      PROVE  from_content(c) = [ok |-> TRUE, grant |-> [grant EXCEPT !.daily_call_limit = 0]]
  <2>1. /\ DOMAIN c = Fields \ {"daily_call_limit"}
        /\ \A f \in Fields \ {"daily_call_limit"} : c[f] = content[f]
    BY <1>1, <1>7 DEF Without
  <2>2. from_content(c) = [ok |-> TRUE, grant |-> Decoded(c)]
    BY <1>2, <2>1, NothingBad DEF OptionalFields
  <2>3. /\ LimitIn(c, "daily_call_limit") = 0
        /\ LimitIn(c, "daily_token_budget") = grant.daily_token_budget
    BY <1>4, <2>1 DEF LimitIn, Fields
  <2>4. \A f \in Fields \ OptionalFields : c[f] = to_content(grant)[f]
    BY <2>1 DEF OptionalFields
  <2>5. Decoded(c)
          = [grant EXCEPT !.daily_call_limit   = LimitIn(c, "daily_call_limit"),
                          !.daily_token_budget = LimitIn(c, "daily_token_budget")]
    BY <2>4, ReadBack
  <2>6. Decoded(c) = [grant EXCEPT !.daily_call_limit = 0]
    BY <1>3, <2>3, <2>5
  <2>. QED
    BY <2>2, <2>6
<1>8. ASSUME NEW c, c = Without(content, "daily_token_budget")
      PROVE  from_content(c) = [ok |-> TRUE, grant |-> [grant EXCEPT !.daily_token_budget = 0]]
  <2>1. /\ DOMAIN c = Fields \ {"daily_token_budget"}
        /\ \A f \in Fields \ {"daily_token_budget"} : c[f] = content[f]
    BY <1>1, <1>8 DEF Without
  <2>2. from_content(c) = [ok |-> TRUE, grant |-> Decoded(c)]
    BY <1>2, <2>1, NothingBad DEF OptionalFields
  <2>3. /\ LimitIn(c, "daily_call_limit") = grant.daily_call_limit
        /\ LimitIn(c, "daily_token_budget") = 0
    BY <1>4, <2>1 DEF LimitIn, Fields
  <2>4. \A f \in Fields \ OptionalFields : c[f] = to_content(grant)[f]
    BY <2>1 DEF OptionalFields
  <2>5. Decoded(c)
          = [grant EXCEPT !.daily_call_limit   = LimitIn(c, "daily_call_limit"),
                          !.daily_token_budget = LimitIn(c, "daily_token_budget")]
    BY <2>4, ReadBack
  <2>6. Decoded(c) = [grant EXCEPT !.daily_token_budget = 0]
    BY <1>3, <2>3, <2>5
  <2>. QED
    BY <2>2, <2>6
<1>. QED
  BY <1>1, <1>5, <1>6, <1>7, <1>8

\* Whole content that decodes is what the grant it decodes to is written as.
LEMMA ContentBack ==
  ASSUME ContentsCanonical, NEW c \in Contents, \A f \in Fields : WellFormed(c, f)
  PROVE  to_content(Decoded(c)) = c
<1>1. /\ c = [f \in Fields |-> c[f]]
      /\ \A f \in Fields :
           IsValue(c[f]) /\ \A v \in Items(c[f]) : IsValue(v) /\ \A w \in Items(v) : IsValue(w)
      /\ \A f \in {"allowed_tools", "accessible_rooms"} :
           c[f].kind = "List" /\ (\A v \in Items(c[f]) : v.kind = "Str") =>
             c[f].list = Strings(StringsIn(c[f]))
  BY DEF ContentsCanonical
<1>2. /\ \A v : IsValue(v) /\ v.kind = "Str" => v = StrValue(v.str)
      /\ \A v : IsValue(v) /\ v.kind = "U64" => v = NumValue(v.num)
      /\ \A v : IsValue(v) /\ v.kind = "List" => v = ListValue(v.list) /\ v.list \in Seq(Range(v.list))
  BY DEF IsValue
<1>3. c.agent = StrValue(c.agent.str) /\ c.default_class = StrValue(c.default_class.str)
  <2>1. IsStr(c.agent, Agents) /\ IsStr(c.default_class, ActionClass)
    BY FieldMeans DEF Fields
  <2>2. IsValue(c.agent) /\ IsValue(c.default_class)
    BY <1>1 DEF Fields
  <2>. QED
    BY <1>2, <2>1, <2>2 DEF IsStr
<1>4. /\ c.rate_limit_per_min = NumValue(c.rate_limit_per_min.num)
      /\ c.daily_call_limit = NumValue(c.daily_call_limit.num)
      /\ c.daily_token_budget = NumValue(c.daily_token_budget.num)
  <2>1. /\ IsNum(c.rate_limit_per_min, U32Max) /\ IsNum(c.daily_call_limit, U32Max)
        /\ IsNum(c.daily_token_budget, U64Max)
    BY FieldMeans DEF Fields
  <2>2. IsValue(c.rate_limit_per_min) /\ IsValue(c.daily_call_limit) /\ IsValue(c.daily_token_budget)
    BY <1>1 DEF Fields
  <2>. QED
    BY <1>2, <2>1, <2>2 DEF IsNum
<1>5. ASSUME NEW f \in {"allowed_tools", "accessible_rooms"}
      PROVE  c[f] = ListValue(Strings(StringsIn(c[f])))
  <2>1. PICK M : \/ f = "allowed_tools" /\ M = Tools
                 \/ f = "accessible_rooms" /\ M = Rooms
    OBVIOUS
  <2>2. c[f].kind = "List" /\ \A i \in DOMAIN c[f].list : IsStr(c[f].list[i], M)
    BY <2>1, ListMeans DEF Fields
  <2>3. \A v \in Items(c[f]) : v.kind = "Str"
    BY <2>2 DEF Items, Range, IsStr
  <2>4. c[f].list = Strings(StringsIn(c[f])) /\ IsValue(c[f])
    BY <1>1, <2>2, <2>3 DEF Fields
  <2>. QED
    BY <1>2, <2>2, <2>4
<1>6. PICK l : l = c.overrides.list
  OBVIOUS
<1>7. /\ c.overrides = ListValue(l) /\ l = [i \in DOMAIN l |-> l[i]]
      /\ \A i \in DOMAIN l :
           l[i] = ListValue(<<StrValue(l[i].list[1].str), StrValue(l[i].list[2].str)>>)
  <2>1. c.overrides.kind = "List" /\ IsValue(c.overrides) /\ \A i \in DOMAIN l : IsOverride(l[i])
    BY <1>1, <1>6, ListMeans DEF Fields
  <2>2. c.overrides = ListValue(l) /\ l \in Seq(Range(l))
    BY <1>2, <1>6, <2>1
  <2>3. ASSUME NEW i \in DOMAIN l
        PROVE  l[i] = ListValue(<<StrValue(l[i].list[1].str), StrValue(l[i].list[2].str)>>)
    <3>1. PICK p : p = l[i].list
      OBVIOUS
    <3>2. /\ l[i].kind = "List" /\ Len(p) = 2
          /\ IsStr(p[1], Tools) /\ IsStr(p[2], ActionClass)
      BY <2>1, <3>1 DEF IsOverride
    <3>3. l[i] \in Items(c.overrides)
      BY <1>6, <2>1 DEF Items, Range
    <3>4. IsValue(l[i]) /\ \A w \in Items(l[i]) : IsValue(w)
      BY <1>1, <3>3 DEF Fields
    <3>5. l[i] = ListValue(p) /\ p \in Seq(Range(p))
      BY <1>2, <3>1, <3>2, <3>4
    <3>6. DOMAIN p = 1..2 /\ p = <<p[1], p[2]>>
      BY <3>2, <3>5
    <3>7. IsValue(p[1]) /\ IsValue(p[2])
      BY <3>1, <3>2, <3>4, <3>6 DEF Items, Range
    <3>8. p[1] = StrValue(p[1].str) /\ p[2] = StrValue(p[2].str)
      BY <1>2, <3>2, <3>7 DEF IsStr
    <3>9. p = <<StrValue(p[1].str), StrValue(p[2].str)>>
      BY <3>6, <3>8
    <3>. QED
      BY <3>1, <3>5, <3>9
  <2>. QED
    BY <2>2, <2>3
<1>8. PICK g : g = Decoded(c)
  OBVIOUS
<1>9. /\ g.agent = c.agent.str /\ g.default_class = c.default_class.str
      /\ g.rate_limit_per_min = c.rate_limit_per_min.num
      /\ g.daily_call_limit = c.daily_call_limit.num
      /\ g.daily_token_budget = c.daily_token_budget.num
      /\ g.allowed_tools = StringsIn(c.allowed_tools)
      /\ g.accessible_rooms = StringsIn(c.accessible_rooms)
      /\ g.overrides = [i \in DOMAIN l |-> <<l[i].list[1].str, l[i].list[2].str>>]
  BY <1>1, <1>6, <1>8 DEF Decoded, LimitIn, Fields
<1>10. to_content(g).overrides = c.overrides
  <2>1. PICK m : m = [i \in DOMAIN g.overrides |->
                  ListValue(<<StrValue(g.overrides[i][1]), StrValue(g.overrides[i][2])>>)]
    OBVIOUS
  <2>2. /\ DOMAIN g.overrides = DOMAIN l
        /\ \A i \in DOMAIN l : g.overrides[i][1] = l[i].list[1].str /\ g.overrides[i][2] = l[i].list[2].str
    BY <1>9
  <2>3. m = [i \in DOMAIN l |-> l[i]]
    BY <1>7, <2>1, <2>2
  <2>4. to_content(g).overrides = ListValue(m)
    BY <2>1, Written
  <2>. QED
    BY <1>7, <2>3, <2>4
<1>11. /\ to_content(g).agent = c.agent
       /\ to_content(g).default_class = c.default_class
       /\ to_content(g).rate_limit_per_min = c.rate_limit_per_min
       /\ to_content(g).daily_call_limit = c.daily_call_limit
       /\ to_content(g).daily_token_budget = c.daily_token_budget
       /\ to_content(g).allowed_tools = c.allowed_tools
       /\ to_content(g).accessible_rooms = c.accessible_rooms
  <2>1. /\ c.allowed_tools = ListValue(Strings(StringsIn(c.allowed_tools)))
        /\ c.accessible_rooms = ListValue(Strings(StringsIn(c.accessible_rooms)))
    BY <1>5
  <2>2. /\ to_content(g).agent = StrValue(g.agent)
        /\ to_content(g).default_class = StrValue(g.default_class)
        /\ to_content(g).rate_limit_per_min = NumValue(g.rate_limit_per_min)
        /\ to_content(g).daily_call_limit = NumValue(g.daily_call_limit)
        /\ to_content(g).daily_token_budget = NumValue(g.daily_token_budget)
        /\ to_content(g).allowed_tools = ListValue(Strings(g.allowed_tools))
        /\ to_content(g).accessible_rooms = ListValue(Strings(g.accessible_rooms))
    BY Written
  <2>. QED
    BY <1>3, <1>4, <1>9, <2>1, <2>2
<1>12. \A f \in Fields : to_content(g)[f] = c[f]
  BY <1>10, <1>11 DEF Fields
<1>13. to_content(g) = [f \in Fields |-> to_content(g)[f]]
  BY Written
<1>. QED
  BY <1>1, <1>8, <1>12, <1>13

-----------------------------------------------------------------------------
(* A policy there and back.                                                *)

\* A rule survives when none of its matchers is the empty string.
LEMMA RuleBack ==
  ASSUME PoliciesFit, NEW rule \in PolicyRule
  PROVE  IsRule(RuleValue(rule)) /\ RuleIn(RuleValue(rule)) = rule
<1>1. PICK p : p = <<StrValue(rule.effect), Matcher(rule.tool), Matcher(rule.room),
                     Matcher(rule.args_contains)>>
  OBVIOUS
<1>2. /\ RuleValue(rule).kind = "List" /\ RuleValue(rule).list = p
  BY <1>1, ValueMeans DEF RuleValue
<1>3. /\ Len(p) = 4 /\ p[1] = StrValue(rule.effect) /\ p[2] = Matcher(rule.tool)
      /\ p[3] = Matcher(rule.room) /\ p[4] = Matcher(rule.args_contains)
  BY <1>1
<1>4. ASSUME NEW m, m = None \/ m # ""
      PROVE  MatcherIn(Matcher(m)) = m /\ Matcher(m).kind = "Str"
  <2>1. CASE m = None
    <3>1. PICK e : e = ""
      OBVIOUS
    <3>2. Matcher(m) = StrValue(e)
      BY <2>1, <3>1, Zenon DEF Matcher
    <3>3. Matcher(m).str = e /\ Matcher(m).kind = "Str"
      BY <3>2, ValueMeans
    <3>. QED
      BY <2>1, <3>1, <3>3, Zenon DEF MatcherIn
  <2>2. CASE m # None
    <3>1. Matcher(m) = StrValue(m)
      BY <2>2 DEF Matcher
    <3>2. Matcher(m).str = m /\ Matcher(m).kind = "Str"
      BY <3>1, ValueMeans
    <3>. QED
      BY <1>4, <2>2, <3>2, Zenon DEF MatcherIn
  <2>. QED
    BY <2>1, <2>2
<1>5. /\ rule.effect \in Effect
      /\ rule.tool \in Tools \cup {None} /\ rule.room \in Rooms \cup {None}
      /\ rule.args_contains \in Needles \cup {None}
      /\ rule = [effect |-> rule.effect, tool |-> rule.tool, room |-> rule.room,
                 args_contains |-> rule.args_contains]
  BY DEF PolicyRule
<1>6. \A m \in Tools \cup Rooms \cup Needles \cup {None} :
        MatcherIn(Matcher(m)) = m /\ Matcher(m).kind = "Str"
  BY <1>4 DEF PoliciesFit
<1>7. IsRule(RuleValue(rule))
  <2>1. IsStr(p[1], Effect)
    BY <1>3, <1>5, ValueMeans DEF IsStr
  <2>2. p[2].kind = "Str" /\ p[3].kind = "Str" /\ p[4].kind = "Str"
    BY <1>3, <1>5, <1>6
  <2>3. \A i \in 2..4 : i = 2 \/ i = 3 \/ i = 4
    OBVIOUS
  <2>. QED
    BY <1>2, <1>3, <2>1, <2>2, <2>3 DEF IsRule
<1>8. RuleIn(RuleValue(rule)) = rule
  <2>1. /\ p[1].str = rule.effect /\ MatcherIn(p[2]) = rule.tool
        /\ MatcherIn(p[3]) = rule.room /\ MatcherIn(p[4]) = rule.args_contains
    BY <1>3, <1>5, <1>6, ValueMeans
  <2>. QED
    BY <1>2, <1>5, <2>1 DEF RuleIn
<1>. QED
  BY <1>7, <1>8

\* So does a policy of such rules.
LEMMA PolicyReturns ==
  ASSUME PoliciesFit, NEW policy \in Policies
  PROVE  policy_from_content(policy_to_content(policy)) = [ok |-> TRUE, policy |-> policy]
<1>1. PICK c : c = policy_to_content(policy)
  OBVIOUS
<1>2. policy \in PolicySet
  BY DEF PoliciesFit
<1>3. PICK rules : rules = policy.rules
  OBVIOUS
<1>4. /\ rules \in Seq(PolicyRule) /\ policy.default_effect \in Effect
      /\ policy = [default_effect |-> policy.default_effect, rules |-> rules]
  BY <1>2, <1>3 DEF PolicySet
<1>5. /\ DOMAIN rules = 1..Len(rules) /\ rules = [i \in DOMAIN rules |-> rules[i]]
      /\ \A i \in DOMAIN rules : rules[i] \in PolicyRule
  BY <1>4
<1>6. PICK l : l = [i \in DOMAIN rules |-> RuleValue(rules[i])]
  OBVIOUS
<1>7. /\ DOMAIN c = {"default_effect", "rules"}
      /\ c.default_effect = StrValue(policy.default_effect) /\ c.rules = ListValue(l)
  BY <1>1, <1>3, <1>6 DEF policy_to_content
<1>8. \A i \in DOMAIN l : IsRule(l[i]) /\ RuleIn(l[i]) = rules[i]
  BY <1>5, <1>6, RuleBack
<1>9. /\ IsStr(c.default_effect, Effect) /\ c.default_effect.str = policy.default_effect
      /\ c.rules.kind = "List" /\ c.rules.list = l
  BY <1>4, <1>7, ValueMeans DEF IsStr
<1>10. IsList(c.rules, IsRule)
  BY <1>8, <1>9 DEF IsList
<1>11. [i \in DOMAIN c.rules.list |-> RuleIn(c.rules.list[i])] = rules
  BY <1>5, <1>6, <1>8, <1>9
<1>. QED
  BY <1>1, <1>4, <1>7, <1>9, <1>10, <1>11 DEF policy_from_content

\* Content that decodes is what the policy it decodes to is written as.
LEMMA PolicyContentBack ==
  ASSUME PolicyContentsCanonical, NEW c \in PolicyContents, policy_from_content(c).ok
  PROVE  policy_to_content(policy_from_content(c).policy) = c
<1>1. /\ DOMAIN c \subseteq {"default_effect", "rules"} /\ c = [f \in DOMAIN c |-> c[f]]
      /\ \A f \in DOMAIN c :
           IsValue(c[f]) /\ \A v \in Items(c[f]) :
             IsValue(v) /\ \A w \in Items(v) : IsValue(w) /\ w # StrValue(None)
  BY DEF PolicyContentsCanonical
<1>2. /\ \A v : IsValue(v) /\ v.kind = "Str" => v = StrValue(v.str)
      /\ \A v : IsValue(v) /\ v.kind = "List" => v = ListValue(v.list) /\ v.list \in Seq(Range(v.list))
  BY DEF IsValue
<1>3. /\ "default_effect" \in DOMAIN c /\ IsStr(c.default_effect, Effect)
      /\ "rules" \in DOMAIN c /\ IsList(c.rules, IsRule)
  BY DEF policy_from_content
<1>4. PICK l : l = c.rules.list
  OBVIOUS
<1>5. policy_from_content(c).policy = [default_effect |-> c.default_effect.str,
                                       rules |-> [i \in DOMAIN l |-> RuleIn(l[i])]]
  BY <1>3, <1>4 DEF policy_from_content
<1>6. /\ c.default_effect = StrValue(c.default_effect.str)
      /\ c.rules.kind = "List" /\ c.rules = ListValue(l) /\ l \in Seq(Range(l))
      /\ \A i \in DOMAIN l : IsRule(l[i])
  BY <1>1, <1>2, <1>3, <1>4 DEF IsStr, IsList
<1>7. ASSUME NEW i \in DOMAIN l
      PROVE  RuleValue(RuleIn(l[i])) = l[i]
  <2>1. PICK p : p = l[i].list
    OBVIOUS
  <2>2. /\ l[i].kind = "List" /\ Len(p) = 4 /\ IsStr(p[1], Effect)
        /\ p[2].kind = "Str" /\ p[3].kind = "Str" /\ p[4].kind = "Str"
    BY <1>6, <2>1 DEF IsRule
  <2>3. l[i] \in Items(c.rules)
    BY <1>4, <1>6 DEF Items, Range
  <2>4. IsValue(l[i]) /\ \A w \in Items(l[i]) : IsValue(w) /\ w # StrValue(None)
    BY <1>1, <1>3, <2>3
  <2>5. l[i] = ListValue(p) /\ p \in Seq(Range(p))
    BY <1>2, <2>1, <2>2, <2>4
  <2>6. DOMAIN p = 1..4 /\ p = <<p[1], p[2], p[3], p[4]>>
    BY <2>2, <2>5
  <2>7. \A j \in 1..4 : IsValue(p[j]) /\ p[j] # StrValue(None)
    BY <2>1, <2>2, <2>4, <2>6 DEF Items, Range
  <2>8. p[1] = StrValue(p[1].str)
    BY <1>2, <2>2, <2>7 DEF IsStr
  <2>9. ASSUME NEW j \in 2..4
        PROVE  Matcher(MatcherIn(p[j])) = p[j]
    <3>1. p[j].kind = "Str"
      BY <2>2
    <3>2. p[j] = StrValue(p[j].str) /\ p[j].str # None
      BY <1>2, <2>7, <3>1
    <3>. QED
      BY <3>2 DEF Matcher, MatcherIn
  <2>10. PICK rule : rule = RuleIn(l[i])
    OBVIOUS
  <2>11. /\ rule.effect = p[1].str /\ rule.tool = MatcherIn(p[2])
         /\ rule.room = MatcherIn(p[3]) /\ rule.args_contains = MatcherIn(p[4])
    BY <2>1, <2>10 DEF RuleIn
  <2>12. RuleValue(rule) = ListValue(<<p[1], p[2], p[3], p[4]>>)
    BY <2>8, <2>9, <2>11 DEF RuleValue
  <2>. QED
    BY <2>5, <2>6, <2>10, <2>12
<1>8. PICK rules : rules = [i \in DOMAIN l |-> RuleIn(l[i])]
  OBVIOUS
<1>9. [i \in DOMAIN rules |-> RuleValue(rules[i])] = l
  <2>1. l = [i \in DOMAIN l |-> l[i]]
    BY <1>6
  <2>. QED
    BY <1>7, <1>8, <2>1
<1>10. policy_to_content(policy_from_content(c).policy)
         = [default_effect |-> StrValue(c.default_effect.str), rules |-> ListValue(l)]
  BY <1>5, <1>8, <1>9 DEF policy_to_content
<1>. QED
  BY <1>1, <1>3, <1>6, <1>10

-----------------------------------------------------------------------------
(* The theorem on contents.                                                *)

\* A grant or a policy published as room state decodes to itself, content without
\* a mandatory field or with a malformed one is refused for that field, and what
\* decodes says exactly what it decodes to; for all grants whose limits fit their
\* widths, and for content that lists sets as to_content does (to_content and
\* from_content of capability.rs and of policy.rs).
THEOREM GrantsSurviveRoomState ==
  ASSUME GrantsFit, PoliciesFit, ContentsCanonical, PolicyContentsCanonical
  PROVE  Spec => []GrantSurvivesRoomState
<1>1. ASSUME NEW damaged \in PolicyContents, policy_from_content(damaged).ok
      PROVE  policy_to_content(policy_from_content(damaged).policy) = damaged
  BY <1>1, PolicyContentBack
<1>2. ASSUME NEW policy \in Policies
      PROVE  policy_from_content(policy_to_content(policy)) = [ok |-> TRUE, policy |-> policy]
  BY PolicyReturns
<1>3. ASSUME NEW grant \in Grants, NEW content, content = to_content(grant)
      PROVE  /\ from_content(content) = [ok |-> TRUE, grant |-> grant]
             /\ \A field \in (DOMAIN content) \ OptionalFields :
                  from_content(Without(content, field))
                    = [ok |-> FALSE, field |-> field, error |-> "MissingField"]
             /\ from_content(Without(content, "daily_call_limit"))
                  = [ok |-> TRUE, grant |-> [grant EXCEPT !.daily_call_limit = 0]]
             /\ from_content(Without(content, "daily_token_budget"))
                  = [ok |-> TRUE, grant |-> [grant EXCEPT !.daily_token_budget = 0]]
  BY <1>3, GrantReturns
<1>4. ASSUME NEW damaged \in Contents
      PROVE  IF from_content(damaged).ok
             THEN to_content(from_content(damaged).grant) = damaged
             ELSE ~WellFormed(damaged, from_content(damaged).field)
  <2>1. Fields \subseteq DOMAIN damaged
    BY DEF ContentsCanonical
  <2>2. CASE /\ \A f \in Fields : WellFormed(damaged, f)
             /\ from_content(damaged) = [ok |-> TRUE, grant |-> Decoded(damaged)]
    BY <2>2, ContentBack
  <2>3. CASE ~from_content(damaged).ok /\ ~WellFormed(damaged, from_content(damaged).field)
    BY <2>3
  <2>. QED
    BY <2>1, <2>2, <2>3, RefusedFor
<1>5. GrantSurvivesRoomState
  <2>1. SUFFICES ASSUME NEW grant \in Grants
                 PROVE  LET content == to_content(grant) IN
                        /\ from_content(content) = [ok |-> TRUE, grant |-> grant]
                        /\ \A field \in (DOMAIN content) \ OptionalFields :
                             from_content(Without(content, field))
                               = [ok |-> FALSE, field |-> field, error |-> "MissingField"]
                        /\ from_content(Without(content, "daily_call_limit"))
                             = [ok |-> TRUE, grant |-> [grant EXCEPT !.daily_call_limit = 0]]
                        /\ from_content(Without(content, "daily_token_budget"))
                             = [ok |-> TRUE, grant |-> [grant EXCEPT !.daily_token_budget = 0]]
    BY <1>1, <1>2, <1>4, Zenon DEF GrantSurvivesRoomState, Without
  <2>. QED
    BY <1>3, Zenon
<1>. QED
  BY <1>5, PTL
===============================================================================
