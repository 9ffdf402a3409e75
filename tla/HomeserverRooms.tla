--------------------------- MODULE HomeserverRooms ---------------------------
(***************************************************************************)
(* The rooms of the homeserver (gm-svc): sending, membership changes, room *)
(* creation, federated events and /sync, run by concurrent connection      *)
(* workers over one store.                                                 *)
(*                                                                         *)
(* Each store call locks the store by itself (gm-store/src/shared.rs), so  *)
(* a step of a handler is one store call: between two of them any other    *)
(* handler may run.  The column families are variables: EVENTS is          *)
(* timeline, ROOM_STATE is room_state, EVENT_STREAM is stream (position n  *)
(* of the code is stream[n+1]) and TRANSACTIONS is transactions.  An event *)
(* id stored in ROOM_STATE or EVENT_STREAM stands for the event, which is  *)
(* in EVENTS from before and is never deleted.                             *)
(*                                                                         *)
(* Event ids are content hashes, whose order is arbitrary: events minted   *)
(* here are numbered 1, 2, ... and a federated event brings a number below *)
(* or above all of them, so that a tie in depth can go either way.         *)
(***************************************************************************)
EXTENDS RoomEvents

CONSTANTS
  Rooms, Txns,
  Workers,        \* connection workers that may be inside a writing handler
  Requests,       \* the writing requests that arrive, see RequestTypes
  Tries,          \* bound: how often each request arrives (>1: a retry, or redelivery)
  Overlapping,    \* the requests that may arrive again while being handled
  Syncers,        \* the users whose client syncs
  MaxSyncs,       \* bound: the syncs of one client
  MaxCrashes,     \* bound: the crashes of the process
  Stored          \* the events the store holds at start, in stream order

\* What a request carries, by its operation: a client's, or a transaction of a
\* peer, which is one of several, each a list of PDUs.
RequestTypes(req) ==
  /\ req.op \in {"send", "member", "create", "receive"}
  /\ req.op # "receive" => req.sender \in Users /\ req.room \in Rooms
  /\ req.op = "send" => req.txn \in Txns
  /\ req.op = "member" => MemberContent(req.membership) # None
  /\ req.op = "create" => req.extra \in Seq({"name", "topic"})
  /\ req.op = "receive" => \A pdus \in req.transactions :
       /\ pdus \in Seq(Range(pdus)) /\ pdus # <<>>
       /\ \A pdu \in Range(pdus) : pdu.room \in Rooms /\ pdu.id \in Int /\ pdu.depth \in Nat

\* What the store holds at the start was numbered by this server.
StoredTypes ==
  /\ Stored \in Seq(Range(Stored))
  /\ \A i \in DOMAIN Stored :
       /\ Stored[i].room \in Rooms /\ Stored[i].depth \in Nat
       /\ Stored[i].id \in Int /\ Stored[i].id <= Len(Stored)
       /\ Stored[i].kind = "member" /\ is_state(Stored[i]) => Stored[i].content # None
  /\ \A i, j \in DOMAIN Stored : Stored[i].id = Stored[j].id => i = j

\* What it stores was written by it: the messages and the memberships hang on
\* a parent each, and no two on the same.
StoredChains ==
  LET own == {i \in DOMAIN Stored :
                Stored[i].id >= 1 /\ (is_state(Stored[i]) => Stored[i].kind = "member" /\ Stored[i].depth > 2)}
  IN  /\ \A i \in own : Stored[i].prev_events # {} =>
           \E j \in DOMAIN Stored :
             /\ Stored[j].room = Stored[i].room /\ Stored[j].depth < Stored[i].depth
             /\ Stored[i].prev_events = {Stored[j].id}
      /\ \A i, j \in own :
           Stored[i].room = Stored[j].room /\ Stored[i].prev_events = Stored[j].prev_events => i = j

\* The PDUs of peers.
Transactions == UNION {req.transactions : req \in {req \in Requests : req.op = "receive"}}
Foreign == UNION {Range(pdus) : pdus \in Transactions}

\* An event's id is its hash: it names one event.
IdsNameEvents == \A e, f \in Range(Stored) \cup Foreign : e.id = f.id => e = f

ASSUME RoomsAssumption ==
  /\ \A req \in Requests : Tries[req] \in Nat /\ RequestTypes(req)
  /\ Overlapping \subseteq Requests
  /\ MaxSyncs \in Nat /\ MaxCrashes \in Nat
  /\ StoredTypes /\ StoredChains /\ IdsNameEvents
  /\ None \notin Users \cup Workers \cup Int \cup {"", "join"} /\ Syncers \subseteq Users

VARIABLES
  timeline,      \* [Rooms -> SUBSET event]           (cf::EVENTS)
  room_state,    \* [Rooms -> SUBSET event], one event per slot (cf::ROOM_STATE)
  stream,        \* Seq(event)                        (cf::EVENT_STREAM)
  transactions,  \* [Users \X Txns -> id or None]     (cf::TRANSACTIONS)
  lock,          \* [Rooms -> Workers or None]        (room_locks)
  job,           \* [Workers -> handler]
  fetched,       \* [Workers -> what a transaction was authorized by: `by_id`]
  sync,          \* [Syncers -> sync handler]
  client,        \* [Syncers -> what the client has from its syncs]
  answers,       \* the replies to sends: {[sender, txn, id]}
  minted,        \* ids given out so far
  asked,         \* [Requests -> Nat], arrivals so far
  crashes

store  == <<timeline, room_state, stream, transactions>>
server == <<lock, job, fetched, minted>>
reader == <<sync, client>>
ledger == <<answers, asked, crashes>>
vars   == <<store, server, reader, ledger>>

-----------------------------------------------------------------------------
(* Handlers.                                                               *)

Idle == [pc |-> "idle"]

Doing(w, pc) == job[w].pc = pc

NothingFetched == [todo |-> {}, by_id |-> {}]

\* The handler has left: its guard, if it took the room's lock, is dropped.
Leave(w) ==
  /\ job'  = [job EXCEPT ![w] = Idle]
  /\ lock' = [r \in Rooms |-> IF lock[r] = w THEN None ELSE lock[r]]
  /\ fetched' = [fetched EXCEPT ![w] = NothingFetched]

Goto(w, pc) == job' = [job EXCEPT ![w].pc = pc] /\ UNCHANGED <<lock, fetched>>

Answer(req, id) ==
  answers' = IF req.op = "send" /\ id # None
             THEN answers \cup {[sender |-> req.sender, txn |-> req.txn, id |-> id]}
             ELSE answers

InFlight(req) == \E v \in Workers : job[v].pc # "idle" /\ job[v].req = req

Arrives(w, req) ==
  /\ Doing(w, "idle")
  /\ asked[req] < Tries[req]
  /\ InFlight(req) => req \in Overlapping
  /\ asked' = [asked EXCEPT ![req] = @ + 1]
  /\ UNCHANGED <<reader, crashes>>

Begin(w, req, pc, events) ==
  job' = [job EXCEPT ![w] = [req |-> req, pc |-> pc, events |-> events, seq |-> 0]]

\* The event the handler is at.
Current(w) == Head(job[w].events)

\* On to the next PDU of a transaction, if there is one; what was accepted may
\* be cited by it.
MovesOn(w, accepted) ==
  IF Tail(job[w].events) = <<>> THEN Leave(w)
  ELSE /\ job' = [job EXCEPT ![w].pc = "auth", ![w].events = Tail(job[w].events)]
       /\ fetched' = [fetched EXCEPT ![w].by_id = @ \cup accepted]
       /\ UNCHANGED lock

(* send_message: the transaction is looked up before the lock is taken.    *)

TxnKeyWithoutSender(sender, txn) == <<CHOOSE u \in Users : TRUE, txn>>  \* mutant
TxnKey(sender, txn) == <<sender, txn>>

StartSend(w, req) ==
  LET existing == transactions[TxnKey(req.sender, req.txn)]
  IN  /\ req.op = "send"
      /\ Arrives(w, req)
      /\ IF existing # None
         THEN Answer(req, existing) /\ UNCHANGED <<job, lock>>
         ELSE Begin(w, req, "lock", <<>>) /\ UNCHANGED <<answers, lock>>
      /\ UNCHANGED <<store, fetched, minted>>

StartMembership(w, req) ==
  /\ req.op = "member"
  /\ Arrives(w, req)
  /\ Begin(w, req, "lock", <<>>)
  /\ UNCHANGED <<store, lock, fetched, minted, answers>>

TakesNoLock(w, room) == lock' = lock                               \* mutant
TakesLock(w, room)   == lock[room] = None /\ lock' = [lock EXCEPT ![room] = w]

TakeLock(w) ==
  /\ Doing(w, "lock")
  /\ TakesLock(w, job[w].req.room)
  /\ minted' = minted + 1
  /\ job' = [job EXCEPT ![w].pc = "auth", ![w].events = <<LinkedOn(timeline[job[w].req.room], job[w].req, minted + 1)>>]
  /\ UNCHANGED <<store, fetched, reader, ledger>>

(* receive_transaction takes no lock and does not ask whether it has an     *)
(* event already.  First the timelines of all the rooms the transaction    *)
(* names are read, one after another, into `by_id`.                        *)
StartReceive(w, req) ==
  /\ req.op = "receive"
  /\ Arrives(w, req)
  /\ \E pdus \in req.transactions :
       /\ Begin(w, req, "fetch", pdus)
       /\ fetched' = [fetched EXCEPT ![w] =
            [todo |-> {pdu.room : pdu \in Range(pdus)}, by_id |-> {}]]
  /\ UNCHANGED <<store, lock, minted, answers>>

Fetch(w) ==
  /\ Doing(w, "fetch")
  /\ \E room \in fetched[w].todo :
       /\ fetched' = [fetched EXCEPT ![w] =
            [todo |-> @.todo \ {room}, by_id |-> @.by_id \cup timeline[room]]]
       /\ job' = [job EXCEPT ![w].pc = IF fetched[w].todo = {room} THEN "auth" ELSE "fetch"]
  /\ UNCHANGED <<store, lock, minted, reader, ledger>>

(* create_room takes no lock and asks no authorization.                    *)
StartCreate(w, req) ==
  /\ req.op = "create"
  /\ timeline[req.room] = {}     \* mint_room_id gives an id no room has
  /\ Arrives(w, req)
  /\ Begin(w, req, "event", CreationEvents(req, minted + 1))
  /\ minted' = minted + 3 + Len(req.extra)
  /\ UNCHANGED <<store, lock, fetched, answers>>

(* Authorization: by the events it cites if it cites any, whatever room     *)
(* they are of, else by the room's current state.                          *)
Authorised(event, by_id) ==
  IF event.auth_events = {}
  THEN check_auth(event, room_state[event.room])
  ELSE check_auth_with_chain(event, by_id)

RefusedKeepsLock(w) == job' = [job EXCEPT ![w] = Idle] /\ UNCHANGED <<lock, fetched>>  \* mutant
Refused(w) == MovesOn(w, {})

Authorize(w) ==
  /\ Doing(w, "auth")
  /\ IF Authorised(Current(w), fetched[w].by_id) THEN Goto(w, "event") ELSE Refused(w)
  /\ UNCHANGED <<store, minted, reader, ledger>>

-----------------------------------------------------------------------------
(* RoomService::append, one store call at a time.                          *)

PutEvent(w) ==
  LET event == Current(w)
  IN  /\ Doing(w, "event")
      /\ timeline' = [timeline EXCEPT ![event.room] = @ \cup {event}]
      /\ Goto(w, IF is_state(event) THEN "state" ELSE "count")
      /\ UNCHANGED <<room_state, stream, transactions, minted, reader, ledger>>

PutState(w) ==
  LET event == Current(w)
  IN  /\ Doing(w, "state")
      /\ room_state' = [room_state EXCEPT ![event.room] = Over(@, {event})]
      /\ Goto(w, "count")
      /\ UNCHANGED <<timeline, stream, transactions, minted, reader, ledger>>

CountStream(w) ==
  /\ Doing(w, "count")
  /\ job' = [job EXCEPT ![w].pc = "stream", ![w].seq = Len(stream)]
  /\ UNCHANGED <<store, lock, fetched, minted, reader, ledger>>

\* The put at a position taken meanwhile replaces what is there.
PutStream(w) ==
  LET event == Current(w)
      rest  == Tail(job[w].events)
      at    == job[w].seq + 1
  IN  /\ Doing(w, "stream")
      /\ stream' = IF at <= Len(stream) THEN [stream EXCEPT ![at] = event]
                   ELSE Append(stream, event)
      /\ CASE job[w].req.op = "send" -> Goto(w, "record")
           [] job[w].req.op = "create" /\ rest # <<>> ->
                /\ job' = [job EXCEPT ![w].pc = "event", ![w].events = rest]
                /\ UNCHANGED <<lock, fetched>>
           [] OTHER -> MovesOn(w, {event})
      /\ UNCHANGED <<timeline, room_state, transactions, minted, reader, ledger>>

RecordTxn(w) ==
  LET req == job[w].req
      id  == Current(w).id
  IN  /\ Doing(w, "record")
      /\ transactions' = [transactions EXCEPT ![TxnKey(req.sender, req.txn)] = id]
      /\ Answer(req, id)
      /\ Leave(w)
      /\ UNCHANGED <<timeline, room_state, stream, minted, reader, asked, crashes>>

-----------------------------------------------------------------------------
(* /sync.  A client has one sync under way at a time, and gives the token  *)
(* of the last answer (None at first).                                     *)

is_joined(room, u) == membership(room_state[room], u) = "join"

\* The events of the delta grouped by room: the places of the room's.
DeltaOf(delta, room) == {i \in DOMAIN delta : delta[i].room = room}

OwnMembership(delta, at, u, memberships) ==
  \E i \in at :
    /\ delta[i].kind = "member" /\ delta[i].state_key = u
    /\ delta[i].content.membership \in memberships

joined_in_last(delta, at, u) ==                                     \* mutant
  OwnMembership(delta, {i \in at : \A j \in at : j <= i}, u, {"join"})
joined_in_delta(delta, at, u) == OwnMembership(delta, at, u, {"join"})
left_in_delta(delta, at, u)   == OwnMembership(delta, at, u, {"leave", "ban"})

events_after(since) == SubSeq(stream, since + 2, Len(stream))       \* mutant
events_since(since) == SubSeq(stream, since + 1, Len(stream))

\* `next_batch` is the stream length before anything else is read.
SyncStart(u) ==
  /\ sync[u].pc = "idle"
  /\ client[u].syncs < MaxSyncs
  /\ sync' = [sync EXCEPT ![u] =
       [pc |-> "scan", next_batch |-> Len(stream), delta |-> <<>>, todo |-> {},
        room |-> None, state |-> {}, joined |-> {}, left |-> {}]]
  /\ UNCHANGED <<store, server, client, ledger>>

\* The events since the token, or for an initial sync every room there is.
SyncScan(u) ==
  LET since == client[u].since
      delta == IF since = None THEN <<>> ELSE events_since(since)
  IN  /\ sync[u].pc = "scan"
      /\ sync' = [sync EXCEPT ![u].pc = "room", ![u].delta = delta,
           ![u].todo = IF since = None THEN {r \in Rooms : timeline[r] # {}}
                       ELSE {delta[i].room : i \in DOMAIN delta}]
      /\ UNCHANGED <<store, server, client, ledger>>

\* A room as the answer shows it: its state, and what its timeline ends with.
JoinedRoom(room, state, newer, events) ==
  [room |-> room, state |-> state, newer |-> newer, events |-> events]

\* Is the user joined, now?  If so the state is that of the delta, unless the
\* room is new to the user.
SyncRoom(u) ==
  /\ sync[u].pc = "room"
  /\ \E room \in sync[u].todo :
       LET delta   == sync[u].delta
           at      == DeltaOf(delta, room)
           initial == client[u].since = None
           rest    == [sync[u] EXCEPT !.todo = @ \ {room}]
           next    ==
             IF ~is_joined(room, u)
             THEN IF ~initial /\ left_in_delta(delta, at, u)
                  THEN [rest EXCEPT !.left = @ \cup {room}] ELSE rest
             ELSE IF initial \/ joined_in_delta(delta, at, u)
                  THEN [rest EXCEPT !.pc = "state", !.room = room]
                  ELSE [rest EXCEPT !.joined = @ \cup
                          {JoinedRoom(room, LastPerSlot(delta, at), LastPerSlot(delta, at), Listed(delta, at))}]
       IN  sync' = [sync EXCEPT ![u] = next]
  /\ UNCHANGED <<store, server, client, ledger>>

\* The room's full current state; its whole timeline is read after that.
SyncState(u) ==
  LET room  == sync[u].room
      delta == sync[u].delta
      at    == DeltaOf(delta, room)
      state == room_state[room]
  IN  /\ sync[u].pc = "state"
      /\ sync' = IF client[u].since = None
                 THEN [sync EXCEPT ![u].pc = "timeline", ![u].state = state]
                 ELSE [sync EXCEPT ![u].pc = "room", ![u].joined = @ \cup
                         {JoinedRoom(room, state, LastPerSlot(delta, at), Listed(delta, at))}]
      /\ UNCHANGED <<store, server, client, ledger>>

SyncTimeline(u) ==
  LET room == sync[u].room
  IN  /\ sync[u].pc = "timeline"
      /\ sync' = [sync EXCEPT ![u].pc = "room", ![u].joined = @ \cup
           {JoinedRoom(room, sync[u].state, LatestPerSlot(timeline[room]), timeline[room])}]
      /\ UNCHANGED <<store, server, client, ledger>>

\* The client: it drops the rooms that were left and, in the others, replaces
\* the slots it was sent, those of the state first.
Applied(c, view) ==
  LET shown(r) == {j \in view.joined : j.room = r}
  IN  [ since |-> view.next_batch,
        syncs |-> c.syncs + 1,
        known |-> [r \in Rooms |->
          IF r \in view.left THEN {}
          ELSE IF shown(r) = {} THEN c.known[r]
          ELSE LET j == CHOOSE j \in shown(r) : TRUE
               IN  Over(Over(c.known[r], j.state), j.newer)],
        seen  |-> c.seen \cup UNION {j.events : j \in view.joined} ]

SyncAnswer(u) ==
  /\ sync[u].pc = "room" /\ sync[u].todo = {}
  /\ client' = [client EXCEPT ![u] = Applied(@, sync[u])]
  /\ sync' = [sync EXCEPT ![u] = Idle]
  /\ UNCHANGED <<store, server, ledger>>

-----------------------------------------------------------------------------
(* The process dies: handlers and locks are gone, the store stays.         *)
Crash ==
  /\ crashes < MaxCrashes
  /\ crashes' = crashes + 1
  /\ job'  = [w \in Workers |-> Idle]
  /\ lock' = [r \in Rooms |-> None]
  /\ fetched' = [w \in Workers |-> NothingFetched]
  /\ sync' = [u \in Syncers |-> Idle]
  /\ UNCHANGED <<store, minted, client, answers, asked>>

StoredIn(room) == {Stored[i] : i \in {i \in DOMAIN Stored : Stored[i].room = room}}

Init ==
  /\ timeline = [r \in Rooms |-> StoredIn(r)]
  /\ room_state = [r \in Rooms |-> LatestPerSlot(StoredIn(r))]
  /\ stream = Stored
  /\ transactions = [k \in Users \X Txns |-> None]
  /\ lock = [r \in Rooms |-> None]
  /\ job = [w \in Workers |-> Idle]
  /\ fetched = [w \in Workers |-> NothingFetched]
  /\ sync = [u \in Syncers |-> Idle]
  /\ client = [u \in Syncers |->
       [since |-> None, syncs |-> 0, known |-> [r \in Rooms |-> {}], seen |-> {}]]
  /\ answers = {}
  /\ minted = Len(Stored)
  /\ asked = [req \in Requests |-> 0]
  /\ crashes = 0

Writer(w) ==
  \/ \E req \in Requests : \/ StartSend(w, req) \/ StartMembership(w, req)
                           \/ StartReceive(w, req) \/ StartCreate(w, req)
  \/ TakeLock(w) \/ Fetch(w) \/ Authorize(w) \/ PutEvent(w) \/ PutState(w)
  \/ CountStream(w) \/ PutStream(w) \/ RecordTxn(w)

Reader(u) ==
  \/ SyncStart(u) \/ SyncScan(u) \/ SyncRoom(u)
  \/ SyncState(u) \/ SyncTimeline(u) \/ SyncAnswer(u)

\* Nothing under way and nothing left to arrive: any other state without a
\* successor is a deadlock.
Quiet == \A w \in Workers : Doing(w, "idle")

Finished ==
  /\ Quiet /\ \A req \in Requests : asked[req] = Tries[req]
  /\ \A u \in Syncers : sync[u].pc = "idle" /\ client[u].syncs = MaxSyncs
  /\ crashes = MaxCrashes
  /\ UNCHANGED vars

Next ==
  \/ \E w \in Workers : Writer(w)
  \/ \E u \in Syncers : Reader(u)
  \/ Crash
  \/ Finished

Spec == Init /\ [][Next]_vars

\* What the rooms promise; their locks, streams and states are hidden.
Promised == INSTANCE RoomLog WITH log <- timeline, txns <- transactions

-----------------------------------------------------------------------------
(* Properties.                                                             *)

Pcs  == {"idle", "lock", "fetch", "auth", "event", "state", "count", "stream", "record"}

\* The store and the handlers are well typed: a state slot is filled by one
\* state event, which the timeline holds; a handler that writes a room's local
\* event holds that room's lock, and no lock outlives its handler
\* (`_guard`, server.rs:916).
TypeOK ==
  /\ \A r \in Rooms :
       /\ \A e \in timeline[r] : e.room = r /\ e.depth \in Nat
       /\ room_state[r] \subseteq timeline[r]
       /\ \A e, f \in room_state[r] : is_state(e) /\ (SameSlot(e, f) => e = f)
  /\ Range(stream) \subseteq UNION {timeline[r] : r \in Rooms}
  /\ \A w \in Workers : job[w].pc \in Pcs
  /\ \A r \in Rooms : \A w \in Workers :
       lock[r] = w <=> /\ job[w].pc \notin {"idle", "lock"}
                       /\ job[w].req.op \in {"send", "member"}
                       /\ job[w].req.room = r
  /\ minted \in Nat /\ crashes \in 0..MaxCrashes
  /\ \A req \in Requests : asked[req] \in 0..Tries[req]

\* Written here under the lock: a message, or a membership that is not the
\* join create_room gives the creator (which is at depth 2).
WrittenUnderLock(e) ==
  e.id \in 1..minted /\ (is_state(e) => e.kind = "member" /\ e.depth > 2)

\* "two writers cannot both link onto the same tip and fork the room's DAG"
\* (server.rs:197-199): of the events that send_message and change_membership
\* write, no two have the same parent, however they interleave with each
\* other, with the events of create_room and federation, and with a crash.
LocalEventsChain ==
  \A r \in Rooms : \A e, f \in timeline[r] :
    WrittenUnderLock(e) /\ WrittenUnderLock(f) /\ e.prev_events = f.prev_events => e = f

\* The state a room had at an event's place in its timeline.
StateBefore(e) == LatestPerSlot({f \in timeline[e.room] : f.depth < e.depth})

\* While writers serialise, authorization holds where the event is placed and
\* not only when it was judged: whoever spoke was joined at that point of the
\* timeline, though members come and go between reading the tip, reading the
\* state and appending (server.rs:914-944).
MembersOnlySpeak ==
  \A r \in Rooms : \A e \in timeline[r] :
    e.kind = "message" => membership(StateBefore(e), e.sender) = "join"

\* While writers serialise, the current state is what the timeline replays to,
\* whenever no writer is between its two puts (`append`, lib.rs:76-84).
StateIsReplay ==
  \A r \in Rooms : lock[r] = None => room_state[r] = LatestPerSlot(timeline[r])

\* While writers serialise, the handlers implement the room's promise: each
\* event is, when it becomes visible, the successor of the room's last event
\* and allowed by the events before it, and a transaction is recorded once,
\* although lock, tip, state and append are separate store calls
\* (server.rs:790-818, 907-949).
RoomsArePromisedLogs == Promised!LogSpec

\* One transaction, one answer: a retry returns the event the first try sent,
\* whatever other senders did under the same transaction id
\* (server.rs:907-912, 946-949).
TxnAnsweredOnce ==
  \A a, b \in answers : a.sender = b.sender /\ a.txn = b.txn => a.id = b.id

\* The timeline holds one event per transaction: "a repeated (sender, txn_id)
\* returns the original event, never a duplicate" (server.rs:907-908).
NeverADuplicate ==
  \A r \in Rooms : \A e, f \in timeline[r] :
    e.kind = "message" /\ e.content = f.content /\ e.sender = f.sender => e = f

\* A finished event is in the stream a sync reads: append "also records it in
\* the global event stream so incremental sync can slice by position"
\* (lib.rs:71-72).
StreamHasEveryEvent ==
  Quiet => \A r \in Rooms : timeline[r] \subseteq Range(stream)

UpToDate(u) == Quiet /\ sync[u].pc = "idle" /\ client[u].since = Len(stream)

\* A client whose token has reached the end of the stream has the room's state,
\* slot by slot, if its user is joined, and has dropped the room otherwise,
\* although every sync reads stream, membership and state at different moments
\* (server.rs:360-442).
ClientStateConverges ==
  \A u \in Syncers : UpToDate(u) =>
    \A r \in Rooms :
      client[u].known[r] = IF is_joined(r, u) THEN room_state[r] ELSE {}

\* Such a client has been sent every event since its user joined, if the user
\* stayed: none falls between two tokens (server.rs:362).
SyncMissesNothing ==
  \A u \in Syncers : UpToDate(u) =>
    \A i, j \in DOMAIN stream :
      LET own(e) == e.room = stream[i].room /\ e.kind = "member" /\ e.state_key = u
      IN  (/\ own(stream[i]) /\ i <= j /\ stream[j].room = stream[i].room
           /\ \A k \in i..Len(stream) :
                own(stream[k]) => stream[k].content.membership = "join")
          => stream[j] \in client[u].seen

\* What receive_transaction does not look at: whether an event it is sent cites
\* events of its own room only, and whether a create event, judged by what it
\* cites, is a room's second (auth.rs:78-84, 559-571).
CitesItsOwn(r) ==
  \A e \in timeline[r] : e.auth_events \subseteq {f.id : f \in timeline[r]}
OneCreate(r) == \A e, f \in timeline[r] : e.kind = "create" /\ f.kind = "create" => e = f

\* The creator of a room that has one create event and whose events cite events
\* of that room is not removed from it or banned by someone of lesser power:
\* whichever of the room's events a federated event cites, its power levels
\* left out or not yet put, and whatever its transaction brought along
\* (auth.rs:226-256, 473-489).  A room that took in a second create event, or
\* an event judged by another room's, has no such promise.
CreatorKeepsTheRoom ==
  \A r \in Rooms : OneCreate(r) /\ CitesItsOwn(r) =>
    \A e \in room_state[r] :
      e.kind = "member" /\ e.state_key = creator(room_state[r]) =>
        e.content.membership \in {"join", "leave"} /\ e.sender = e.state_key
=============================================================================
