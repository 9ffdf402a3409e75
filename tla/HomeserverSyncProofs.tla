------------------------- MODULE HomeserverSyncProofs -------------------------
(***************************************************************************)
(* Proofs about /sync (HomeserverRooms): what a client that has caught up  *)
(* with the stream knows of a room, and what it has been sent.             *)
(*                                                                         *)
(* Writers that serialise on the rooms' locks and append one at a time     *)
(* only make the stream grow, by events that their rooms' states already   *)
(* hold (Grows).  What a client knows is therefore right except in the     *)
(* slots that were written since, which the stream or a writer under way   *)
(* shows (Touched), and a client's invariant is about the others.          *)
(***************************************************************************)
EXTENDS HomeserverRoomsProofs, SequenceTheorems

\* No two writers are between counting the stream and the put at that count:
\* what the code needs of them, as the run with two rooms shows.
OneAppendAtATime ==
  \A v, w \in Workers : Doing(v, "stream") /\ Doing(w, "stream") => v = w

-----------------------------------------------------------------------------
(* What is written, and what is being written.                             *)

Underway(w) == job[w].pc \in {"state", "count", "stream"}

\* The events of a room that are in its timeline and not yet in the stream.
Pending(r) == {Current(w) : w \in {v \in Workers : Underway(v) /\ job[v].req.room = r}}

\* The places of a room's events in a list.
Places(s, r) == {i \in DOMAIN s : s[i].room = r}

\* The user's own membership events.
IsOwn(e, u)  == e.kind = "member" /\ e.state_key = u
Joins(e, u)  == IsOwn(e, u) /\ e.content.membership = "join"
Leaves(e, u) == IsOwn(e, u) /\ e.content.membership \in {"leave", "ban"}

\* Membership events have content.
HasContent(e) == e.kind = "member" /\ is_state(e) => e.content # None

ContentsInv ==
  /\ \A r \in Rooms : \A e \in timeline[r] : HasContent(e)
  /\ \A w \in Workers : job[w].pc \notin {"idle", "lock"} => HasContent(Current(w))

\* A writer about to append puts at the end of the stream; the stream's events
\* are in their rooms' states or were replaced there, and a state holds the
\* last event of each slot, or the one that is being appended.
StreamInv ==
  /\ \A w \in Workers : Doing(w, "stream") => job[w].seq = Len(stream)
  /\ \A w \in Workers : job[w].pc \in {"count", "stream"} /\ is_state(Current(w)) =>
       Current(w) \in room_state[job[w].req.room]
  /\ \A r \in Rooms : \A i \in Places(stream, r) : is_state(stream[i]) =>
       \E e \in room_state[r] : SameSlot(stream[i], e)
  /\ \A r \in Rooms : \A e \in room_state[r] :
       \/ e \in Pending(r)
       \/ \E i \in Places(stream, r) : stream[i] = e /\ \A j \in Places(stream, r) : SameSlot(e, stream[j]) => j <= i

\* A user who joined and is not joined any more has left or was banned.
LeftAfter(s, r, u, i, n) ==
  \E k \in DOMAIN s : s[k].room = r /\ i < k /\ k <= n /\ Leaves(s[k], u)

DepartsInv ==
  /\ \A r \in Rooms : \A u \in Users : \A i, j \in Places(stream, r) :
       i < j /\ Joins(stream[i], u) /\ IsOwn(stream[j], u) /\ ~Joins(stream[j], u) => LeftAfter(stream, r, u, i, j)
  /\ \A w \in Workers : job[w].pc \in {"event", "state", "count", "stream"} =>
       \A u \in Users : IsOwn(Current(w), u) /\ ~Joins(Current(w), u) =>
         \/ Leaves(Current(w), u)
         \/ \A i \in Places(stream, job[w].req.room) :
              Joins(stream[i], u) => LeftAfter(stream, job[w].req.room, u, i, Len(stream))

-----------------------------------------------------------------------------
(* The steps of a writer, by what they do to its handler and to the store. *)

Same == timeline' = timeline /\ room_state' = room_state /\ stream' = stream

\* Outside of an append.
Outside(w, h) ==
  /\ Same /\ ~Underway(w) /\ h.pc \in {"idle", "lock", "auth"}
  /\ h.pc = "auth" => HasContent(Head(h.events))

Judged(w, h) ==
  Same /\ job[w].pc = "auth" /\ h = AtPoint(job[w], "event") /\ Authorised(Current(w), fetched[w].by_id)

InTimeline(w, h) ==
  /\ room_state' = room_state /\ stream' = stream
  /\ job[w].pc = "event"
  /\ h = AtPoint(job[w], IF is_state(Current(w)) THEN "state" ELSE "count")
  /\ \A r \in Rooms : timeline'[r] = IF r = job[w].req.room THEN timeline[r] \cup {Current(w)} ELSE timeline[r]

InState(w, h) ==
  /\ timeline' = timeline /\ stream' = stream
  /\ job[w].pc = "state" /\ h = AtPoint(job[w], "count")
  /\ \A r \in Rooms : room_state'[r] = IF r = job[w].req.room THEN Over(room_state[r], {Current(w)})
                                       ELSE room_state[r]

Counts(w, h) == Same /\ job[w].pc = "count" /\ h = Counted(job[w], Len(stream))

InStream(w, h) ==
  /\ timeline' = timeline /\ room_state' = room_state
  /\ job[w].pc = "stream" /\ (h = Idle \/ h = AtPoint(job[w], "record"))
  /\ stream' = IF job[w].seq + 1 <= Len(stream) THEN [stream EXCEPT ![job[w].seq + 1] = Current(w)]
               ELSE Append(stream, Current(w))

Moves(w, h) ==
  \/ Outside(w, h) \/ Judged(w, h) \/ InTimeline(w, h)
  \/ InState(w, h) \/ Counts(w, h) \/ InStream(w, h)

\* A handler that is not moved is its own next.
LEMMA NotMoved ==
  ASSUME JobsType, NEW w \in Workers, job' = job
  PROVE  Becomes(w, job[w])
BY DEF Becomes, JobsType

LEMMA StartsMove ==
  ASSUME TypeInv, OnlyWriters, NEW w \in Workers, NEW req \in Requests,
         StartSend(w, req) \/ StartMembership(w, req) \/ StartReceive(w, req) \/ StartCreate(w, req)
  PROVE  \E h : Becomes(w, h) /\ Moves(w, h)
<1>0. JobsType /\ LocksType
  BY DEF TypeInv
<1>. PICK h : h = [req |-> req, pc |-> "lock", events |-> <<>>, seq |-> 0]
  OBVIOUS
<1>1. StartSend(w, req) \/ StartMembership(w, req)
  BY DEF OnlyWriters, StartReceive, StartCreate
<1>2. Same /\ job[w].pc = "idle"
  BY <1>1 DEF StartSend, StartMembership, store, Same, Arrives, Doing
<1>3. CASE job' = job
  <2>1. Becomes(w, job[w])
    BY <1>0, <1>3, NotMoved
  <2>2. Outside(w, job[w])
    BY <1>2 DEF Outside, Underway
  <2>. QED
    BY <2>1, <2>2 DEF Moves
<1>4. CASE Becomes(w, h)
  <2>1. Outside(w, h)
    BY <1>2 DEF Outside, Underway
  <2>. QED
    BY <1>4, <2>1 DEF Moves
<1>. QED
  BY <1>0, <1>1, <1>3, <1>4, StartSendJobs, StartMembershipJobs

LEMMA LinkedHasContent ==
  ASSUME NEW events, NEW req \in Requests, req.op \in {"send", "member"}, NEW id
  PROVE  HasContent(LinkedOn(events, req, id))
<1>. PICK e : e = LinkedOn(events, req, id)
  OBVIOUS
<1>1. CASE req.op = "send"
  <2>1. e.state_key = None
    BY <1>1 DEF LinkedOn
  <2>. QED
    BY <2>1 DEF HasContent, is_state
<1>2. CASE req.op = "member"
  <2>1. e.content = MemberContent(req.membership)
    BY <1>2 DEF LinkedOn
  <2>2. MemberContent(req.membership) # None
    BY <1>2, RoomsAssumption DEF RequestTypes
  <2>. QED
    BY <2>1, <2>2 DEF HasContent
<1>. QED
  BY <1>1, <1>2

LEMMA TakeLockMoves ==
  ASSUME TypeInv, OnlyWriters, NEW w \in Workers, TakeLock(w)
  PROVE  \E h : Becomes(w, h) /\ Moves(w, h)
<1>0. EventsType /\ JobsType /\ LocksType /\ minted \in Nat
  BY DEF TypeInv, CountsType
<1>1. job[w].pc = "lock" /\ Same
  BY DEF TakeLock, Doing, store, Same
<1>2. job[w].req \in Requests
  BY <1>0, <1>1, HandlerUnderWay
<1>. PICK e : e = LinkedIn(w)
  OBVIOUS
<1>. PICK h : h = [req |-> job[w].req, pc |-> "auth", events |-> <<e>>, seq |-> job[w].seq]
  OBVIOUS
<1>3. Becomes(w, h) /\ h.pc = "auth" /\ Head(h.events) = e
  BY <1>0, TakeLockJobs, ListOfOne
<1>4. HasContent(e)
  BY <1>2, LinkedHasContent DEF LinkedIn, OnlyWriters
<1>5. Outside(w, h)
  BY <1>1, <1>3, <1>4 DEF Outside, Underway
<1>. QED
  BY <1>3, <1>5 DEF Moves

LEMMA AuthorizeMoves ==
  ASSUME TypeInv, OnlyWriters, NEW w \in Workers, Authorize(w)
  PROVE  \E h : Becomes(w, h) /\ Moves(w, h)
<1>0. JobsType
  BY DEF TypeInv
<1>1. job[w].pc = "auth" /\ Same
  BY DEF Authorize, Doing, store, Same
<1>2. CASE Authorised(Current(w), fetched[w].by_id) /\ Goto(w, "event")
  <2>1. Becomes(w, AtPoint(job[w], "event"))
    BY <1>0, <1>1, <1>2, GotoBecomes
  <2>. QED
    BY <1>1, <1>2, <2>1 DEF Moves, Judged
<1>3. CASE Leave(w)
  <2>1. Becomes(w, Idle)
    BY <1>0, <1>3, LeaveBecomes
  <2>2. Outside(w, Idle)
    BY <1>1 DEF Outside, Underway, Idle
  <2>. QED
    BY <2>1, <2>2 DEF Moves
<1>. QED
  BY <1>1, <1>2, <1>3, WritersRoom DEF Authorize, Refused

LEMMA PutEventMoves ==
  ASSUME TypeInv, OnlyWriters, NEW w \in Workers, PutEvent(w)
  PROVE  \E h : Becomes(w, h) /\ Moves(w, h)
<1>0. JobsType /\ EventsType
  BY DEF TypeInv
<1>. PICK h : h = AtPoint(job[w], IF is_state(Current(w)) THEN "state" ELSE "count")
  OBVIOUS
<1>1. job[w].pc = "event" /\ room_state' = room_state /\ stream' = stream
      /\ Goto(w, IF is_state(Current(w)) THEN "state" ELSE "count")
  BY DEF PutEvent, Doing
<1>2. Becomes(w, h)
  BY <1>0, <1>1, GotoBecomes
<1>3. InTimeline(w, h)
  BY <1>0, <1>1, PutEventTimeline, WritersRoom DEF InTimeline
<1>. QED
  BY <1>2, <1>3 DEF Moves

LEMMA PutStateMoves ==
  ASSUME TypeInv, OnlyWriters, NEW w \in Workers, PutState(w)
  PROVE  \E h : Becomes(w, h) /\ Moves(w, h)
<1>0. JobsType /\ StatesType
  BY DEF TypeInv
<1>. PICK e : e = Current(w)
  OBVIOUS
<1>. PICK rm : rm = job[w].req.room
  OBVIOUS
<1>1. job[w].pc = "state" /\ timeline' = timeline /\ stream' = stream /\ Goto(w, "count")
  BY DEF PutState, Doing
<1>2. rm \in Rooms /\ e.room = rm
  BY <1>0, <1>1, WritersRoom
<1>3. room_state' = [room_state EXCEPT ![rm] = Over(@, {e})]
  BY <1>2 DEF PutState
<1>4. \A r \in Rooms : room_state'[r] = IF r = rm THEN Over(room_state[r], {e}) ELSE room_state[r]
  BY <1>0, <1>2, <1>3 DEF StatesType
<1>5. Becomes(w, AtPoint(job[w], "count"))
  BY <1>0, <1>1, GotoBecomes
<1>6. InState(w, AtPoint(job[w], "count"))
  BY <1>1, <1>4 DEF InState
<1>. QED
  BY <1>5, <1>6 DEF Moves

LEMMA StreamMoves ==
  ASSUME TypeInv, OnlyWriters, NEW w \in Workers, CountStream(w) \/ PutStream(w) \/ RecordTxn(w)
  PROVE  \E h : Becomes(w, h) /\ Moves(w, h)
<1>0. JobsType /\ LocksType /\ StreamType
  BY DEF TypeInv
<1>1. CASE CountStream(w)
  <2>1. Becomes(w, Counted(job[w], Len(stream)))
    BY <1>0, <1>1, CountStreamJobs
  <2>2. Counts(w, Counted(job[w], Len(stream)))
    BY <1>1 DEF Counts, CountStream, Same, store, Doing
  <2>. QED
    BY <2>1, <2>2 DEF Moves
<1>2. CASE PutStream(w)
  <2>0. job[w].pc = "stream"
    BY <1>2 DEF PutStream, Doing
  <2>1. job[w].req.op \in {"send", "member"}
    BY <2>0, WritersRoom
  <2>. PICK h : Becomes(w, h) /\ (h = Idle \/ h = AtPoint(job[w], "record"))
    BY <1>0, <1>2, <2>1, PutStreamJobs
  <2>2. InStream(w, h)
    BY <1>2, <2>0 DEF InStream, PutStream
  <2>. QED
    BY <2>2 DEF Moves
<1>3. CASE RecordTxn(w)
  <2>1. Becomes(w, Idle)
    BY <1>0, <1>3, LeaveBecomes DEF RecordTxn
  <2>2. Outside(w, Idle)
    BY <1>3 DEF Outside, Underway, Idle, RecordTxn, Doing, Same
  <2>. QED
    BY <2>1, <2>2 DEF Moves
<1>. QED
  BY <1>1, <1>2, <1>3

\* A writer's step is one of these.
LEMMA WriterMoves ==
  ASSUME TypeInv, OnlyWriters, NEW w \in Workers, Writer(w)
  PROVE  \E h : Becomes(w, h) /\ Moves(w, h)
<1>1. ~Fetch(w)
  BY WritersRoom DEF Fetch, Doing
<1>. QED
  BY <1>1, StartsMove, TakeLockMoves, AuthorizeMoves, PutEventMoves, PutStateMoves, StreamMoves DEF Writer

-----------------------------------------------------------------------------
(* What a reader needs to know of a writer's step.                         *)

\* A state takes in an event that stays pending, or the stream one that was.
Grows ==
  /\ \A r \in Rooms :
       \/ room_state'[r] = room_state[r]
       \/ \E e \in Pending(r) \cap Pending(r)' : is_state(e) /\ room_state'[r] = Over(room_state[r], {e})
  /\ \/ stream' = stream /\ \A r \in Rooms : Pending(r) \subseteq Pending(r)'
     \/ \E rm \in Rooms : \E e \in Pending(rm) :
          /\ stream' = Append(stream, e) /\ e.room = rm /\ room_state' = room_state
          /\ is_state(e) => e \in room_state[rm]
          /\ \A r \in Rooms : \A f \in Pending(r) : f \in Pending(r)' \/ (r = rm /\ f = e)

\* A handler that goes on with its append keeps what is pending.
LEMMA PendingKept ==
  ASSUME NEW w \in Workers, NEW h, Becomes(w, h),
         Underway(w) => /\ h.pc \in {"state", "count", "stream"}
                        /\ Head(h.events) = Current(w) /\ h.req = job[w].req,
         NEW r \in Rooms
  PROVE  Pending(r) \subseteq Pending(r)'
<1>1. SUFFICES ASSUME NEW v \in Workers, Underway(v), job[v].req.room = r
      PROVE  Current(v) \in Pending(r)'
  BY DEF Pending
<1>2. Underway(v)' /\ Current(v)' = Current(v) /\ job'[v].req = job[v].req
  BY <1>1 DEF Becomes, Underway, Current
<1>. QED
  BY <1>1, <1>2 DEF Pending

\* The stream has one more event, or the same.
LEMMA StreamAppended ==
  ASSUME StreamType, NEW e, stream' = Append(stream, e)
  PROVE  /\ Len(stream) \in Nat /\ DOMAIN stream = 1..Len(stream)
         /\ Len(stream') = Len(stream) + 1 /\ DOMAIN stream' = 1..(Len(stream) + 1)
         /\ \A i \in 1..Len(stream) : stream'[i] = stream[i]
         /\ stream'[Len(stream) + 1] = e
<1>. DEFINE S == Range(stream) \cup {e}
<1>1. stream \in Seq(S) /\ e \in S
  BY SeqInMore DEF StreamType
<1>. HIDE DEF S
<1>2. Len(stream) \in Nat /\ DOMAIN stream = 1..Len(stream)
  BY <1>1, SeqElements
<1>3. /\ Len(stream') = Len(stream) + 1 /\ DOMAIN stream' = 1..(Len(stream) + 1)
      /\ \A i \in 1..(Len(stream) + 1) : stream'[i] = IF i <= Len(stream) THEN stream[i] ELSE e
  BY <1>1, AppendFacts
<1>. QED
  BY <1>2, <1>3

\* A writer puts at the end of the stream.
LEMMA InStreamAppends ==
  ASSUME TypeInv, OnlyWriters, StreamInv, NEW w \in Workers, NEW h, InStream(w, h)
  PROVE  /\ stream' = Append(stream, Current(w)) /\ job[w].req.room \in Rooms
         /\ Current(w) \in Pending(job[w].req.room) /\ Current(w).room = job[w].req.room
         /\ is_state(Current(w)) => Current(w) \in room_state[job[w].req.room]
<1>1. job[w].pc = "stream"
  BY DEF InStream
<1>2. job[w].seq = Len(stream)
  BY <1>1 DEF StreamInv, Doing
<1>3. Len(stream) \in Nat
  BY SeqOfValues DEF TypeInv, StreamType
<1>4. stream' = Append(stream, Current(w))
  BY <1>2, <1>3 DEF InStream
<1>5. Fits(Current(w), job[w].req.room) /\ job[w].req.room \in Rooms
  <2>1. Current(w).room = job[w].req.room /\ job[w].req.room \in Rooms
    BY <1>1, WritersRoom
  <2>. QED
    BY <1>1, <2>1, CurrentFits DEF TypeInv
<1>6. Current(w) \in Pending(job[w].req.room)
  BY <1>1 DEF Pending, Underway
<1>7. is_state(Current(w)) => Current(w) \in room_state[job[w].req.room]
  BY <1>1 DEF StreamInv
<1>. QED
  BY <1>4, <1>5, <1>6, <1>7 DEF Fits

LEMMA MovesGrow ==
  ASSUME TypeInv, OnlyWriters, StreamInv, NEW w \in Workers, NEW h, Becomes(w, h), Moves(w, h)
  PROVE  Grows
<1>0. \A pc : AtPoint(job[w], pc).req = job[w].req /\ AtPoint(job[w], pc).events = job[w].events
              /\ AtPoint(job[w], pc).pc = pc
  BY DEF AtPoint
<1>1. CASE InStream(w, h)
  <2>. PICK rm \in Rooms : rm = job[w].req.room
    BY <1>1, InStreamAppends
  <2>. PICK e : e = Current(w)
    OBVIOUS
  <2>1. /\ stream' = Append(stream, e) /\ e \in Pending(rm) /\ e.room = rm
        /\ is_state(e) => e \in room_state[rm]
    BY <1>1, InStreamAppends
  <2>2. ASSUME NEW r \in Rooms, NEW f \in Pending(r), ~(r = rm /\ f = e) PROVE f \in Pending(r)'
    <3>. PICK v \in Workers : Underway(v) /\ job[v].req.room = r /\ f = Current(v)
      BY <2>2 DEF Pending
    <3>1. v # w
      BY <2>2
    <3>2. job'[v] = job[v]
      BY <3>1 DEF Becomes
    <3>3. Underway(v)' /\ Current(v)' = f /\ job'[v].req.room = r
      BY <3>2 DEF Underway, Current
    <3>. QED
      BY <3>3 DEF Pending
  <2>3. room_state' = room_state
    BY <1>1 DEF InStream
  <2>. QED
    BY <2>1, <2>2, <2>3 DEF Grows
<1>2. CASE ~InStream(w, h)
  <2>1. Underway(w) => /\ h.pc \in {"state", "count", "stream"}
                       /\ Head(h.events) = Current(w) /\ h.req = job[w].req
    BY <1>0, <1>2 DEF Moves, Outside, Judged, InTimeline, InState, Counts, Counted, Underway, Current
  <2>2. \A r \in Rooms : Pending(r) \subseteq Pending(r)'
    BY <2>1, PendingKept
  <2>3. stream' = stream
    BY <1>2 DEF Moves, Outside, Judged, InTimeline, InState, Counts, Same
  <2>4. CASE InState(w, h)
    <3>. PICK e : e = Current(w)
      OBVIOUS
    <3>1. is_state(e)
      BY <2>4 DEF InState, TypeInv, AppendsType
    <3>2. \A r \in Rooms : r = job[w].req.room => e \in Pending(r)
      BY <2>4 DEF InState, Pending, Underway
    <3>. QED
      BY <2>2, <2>3, <2>4, <3>1, <3>2 DEF Grows, InState
  <2>5. CASE ~InState(w, h)
    <3>1. room_state' = room_state
      BY <1>2, <2>5 DEF Moves, Outside, Judged, InTimeline, Counts, Same
    <3>. QED
      BY <2>2, <2>3, <3>1 DEF Grows
  <2>. QED
    BY <2>4, <2>5
<1>. QED
  BY <1>1, <1>2

-----------------------------------------------------------------------------
(* The invariants of the writers.                                          *)

LEMMA ContentsStep ==
  ASSUME ContentsInv, TypeInv, NEW w \in Workers, NEW h, Becomes(w, h), Moves(w, h)
  PROVE  ContentsInv'
<1>0. \A pc : AtPoint(job[w], pc).events = job[w].events
  BY DEF AtPoint
<1>1. h.pc \notin {"idle", "lock"} => HasContent(Head(h.events))
  BY <1>0 DEF Moves, Outside, Judged, InTimeline, InState, Counts, InStream, Counted, Current, Idle, ContentsInv
<1>2. ASSUME NEW v \in Workers, job'[v].pc \notin {"idle", "lock"} PROVE HasContent(Current(v)')
  <2>1. CASE v = w
    BY <1>1, <1>2, <2>1 DEF Becomes, Current
  <2>2. CASE v # w
    BY <1>2, <2>2 DEF Becomes, Current, ContentsInv
  <2>. QED
    BY <2>1, <2>2
<1>3. ASSUME NEW r \in Rooms, NEW e \in timeline'[r] PROVE HasContent(e)
  <2>1. CASE e \in timeline[r]
    BY <2>1 DEF ContentsInv
  <2>2. CASE e \notin timeline[r]
    <3>1. InTimeline(w, h)
      BY <1>3, <2>2 DEF Moves, Outside, Judged, InState, Counts, InStream, Same
    <3>2. e = Current(w) /\ job[w].pc = "event"
      BY <1>3, <2>2, <3>1 DEF InTimeline
    <3>. QED
      BY <3>2 DEF ContentsInv
  <2>. QED
    BY <2>1, <2>2
<1>. QED
  BY <1>2, <1>3 DEF ContentsInv, HasContent

LEMMA ContentsInit == Init => ContentsInv
<1>. SUFFICES ASSUME Init PROVE ContentsInv
  OBVIOUS
<1>1. \A i \in DOMAIN Stored : HasContent(Stored[i])
  BY RoomsAssumption DEF StoredTypes, HasContent
<1>2. \A r \in Rooms : timeline[r] = StoredIn(r)
  BY DEF Init
<1>3. \A w \in Workers : job[w].pc = "idle"
  BY DEF Init, Idle
<1>. QED
  BY <1>1, <1>2, <1>3 DEF ContentsInv, StoredIn

\* The user's membership in a room's state is that of the user's member event.
LEMMA MemberOf ==
  ASSUME TypeInv, ContentsInv, NEW r \in Rooms, NEW u \in Users, NEW f \in room_state[r], IsOwn(f, u)
  PROVE  membership(room_state[r], u) = f.content.membership
<1>. DEFINE own == {e \in room_state[r] : e.kind = "member" /\ e.state_key = u}
<1>1. \A e \in own : e = f
  BY DEF TypeInv, StatesType, SameSlot, IsOwn
<1>2. own = {f}
  BY <1>1 DEF IsOwn
<1>3. f.content # None
  <2>1. f \in timeline[r] /\ is_state(f)
    BY DEF TypeInv, StatesType
  <2>. QED
    BY <2>1 DEF ContentsInv, HasContent, IsOwn
<1>4. Slot(room_state[r], "member", u) = f.content
  <2>1. (CHOOSE e \in own : TRUE) = f
    BY <1>2
  <2>. QED
    BY <1>2, <2>1 DEF Slot, ContentOf
<1>. QED
  BY <1>3, <1>4 DEF membership

LEMMA JoinedBy ==
  ASSUME TypeInv, ContentsInv, NEW r \in Rooms, NEW u \in Users
  PROVE  is_joined(r, u) <=> \E f \in room_state[r] : Joins(f, u)
<1>1. ASSUME NEW f \in room_state[r], IsOwn(f, u)
      PROVE  is_joined(r, u) <=> \E g \in room_state[r] : Joins(g, u)
  <2>1. membership(room_state[r], u) = f.content.membership
    BY <1>1, MemberOf
  <2>2. \A g \in room_state[r] : Joins(g, u) => g = f
    BY <1>1 DEF TypeInv, StatesType, SameSlot, IsOwn, Joins
  <2>. QED
    BY <1>1, <2>1, <2>2 DEF is_joined, Joins
<1>2. ASSUME ~\E f \in room_state[r] : IsOwn(f, u)
      PROVE  is_joined(r, u) <=> \E g \in room_state[r] : Joins(g, u)
  <2>1. {e \in room_state[r] : e.kind = "member" /\ e.state_key = u} = {}
    BY <1>2 DEF IsOwn
  <2>2. membership(room_state[r], u) = None
    BY <2>1 DEF membership, Slot, ContentOf
  <2>3. None # "join"
    BY RoomsAssumption
  <2>. QED
    BY <1>2, <2>2, <2>3 DEF is_joined, Joins
<1>. QED
  BY <1>1, <1>2

LEMMA SlotSymmetric == ASSUME NEW e, NEW f, SameSlot(e, f) PROVE SameSlot(f, e)
BY DEF SameSlot

LEMMA SlotTransitive == ASSUME NEW e, NEW f, NEW g, SameSlot(e, f), SameSlot(f, g) PROVE SameSlot(e, g)
BY DEF SameSlot

\* A step that puts nothing in a state or in the stream.
LEMMA StreamInvKept ==
  ASSUME TypeInv, StreamInv, NEW w \in Workers, NEW h, Becomes(w, h), Grows,
         Outside(w, h) \/ Judged(w, h) \/ InTimeline(w, h) \/ Counts(w, h)
  PROVE  StreamInv'
<1>0. \A pc : AtPoint(job[w], pc).events = job[w].events /\ AtPoint(job[w], pc).pc = pc
              /\ AtPoint(job[w], pc).req = job[w].req
  BY DEF AtPoint
<1>1. stream' = stream /\ room_state' = room_state
  BY DEF Outside, Judged, InTimeline, Counts, Same
<1>2. \A v \in Workers : Doing(v, "stream")' => job'[v].seq = Len(stream)
  <2>1. h.pc = "stream" => h.seq = Len(stream)
    BY <1>0 DEF Outside, Judged, InTimeline, Counts, Counted
  <2>. QED
    BY <2>1 DEF Becomes, StreamInv, Doing
<1>3. ASSUME NEW v \in Workers, job'[v].pc \in {"count", "stream"}, is_state(Current(v)')
      PROVE  Current(v)' \in room_state[job'[v].req.room]
  <2>1. CASE v # w
    BY <1>3, <2>1 DEF Becomes, StreamInv, Current
  <2>2. CASE v = w
    <3>1. job'[v] = h
      BY <2>2 DEF Becomes
    <3>2. Head(h.events) = Current(w) /\ h.req = job[w].req
      BY <1>0, <1>3, <3>1 DEF Outside, Judged, InTimeline, Counts, Counted, Current
    <3>3. Counts(w, h)
      BY <1>0, <1>3, <3>1, <3>2 DEF Outside, Judged, InTimeline, Current
    <3>. QED
      BY <1>3, <3>1, <3>2, <3>3 DEF Counts, StreamInv, Current
  <2>. QED
    BY <2>1, <2>2
<1>4. \A r \in Rooms : Places(stream', r) = Places(stream, r)
  BY <1>1 DEF Places
<1>5. \A r \in Rooms : Pending(r) \subseteq Pending(r)'
  <2>1. Len(stream) \in Nat
    BY SeqOfValues DEF TypeInv, StreamType
  <2>2. \A e : stream' = Append(stream, e) => FALSE
    BY <1>1, <2>1, StreamAppended DEF TypeInv
  <2>. QED
    BY <2>2 DEF Grows
<1>. QED
  BY <1>1, <1>2, <1>3, <1>4, <1>5 DEF StreamInv

LEMMA StreamInvInState ==
  ASSUME TypeInv, OnlyWriters, StreamInv, NEW w \in Workers, NEW h, Becomes(w, h), Grows, InState(w, h)
  PROVE  StreamInv'
<1>0. h.events = job[w].events /\ h.pc = "count" /\ h.req = job[w].req
  BY DEF AtPoint, InState
<1>. PICK rm : rm = job[w].req.room
  OBVIOUS
<1>. PICK e : e = Current(w)
  OBVIOUS
<1>1. stream' = stream /\ job[w].pc = "state"
      /\ \A r \in Rooms : room_state'[r] = IF r = rm THEN Over(room_state[r], {e}) ELSE room_state[r]
  BY DEF InState
<1>2. rm \in Rooms /\ is_state(e)
  BY <1>1, WritersRoom DEF TypeInv, AppendsType
<1>3. e \in room_state'[rm] /\ \A f \in room_state[rm] : f \in room_state'[rm] \/ SameSlot(f, e)
  BY <1>1, <1>2 DEF Over
<1>4. \A v \in Workers : Doing(v, "stream")' => job'[v].seq = Len(stream)
  BY <1>0 DEF Becomes, StreamInv, Doing
<1>5. ASSUME NEW v \in Workers, job'[v].pc \in {"count", "stream"}, is_state(Current(v)')
      PROVE  Current(v)' \in room_state'[job'[v].req.room]
  <2>1. CASE v # w
    <3>1. job'[v] = job[v]
      BY <2>1 DEF Becomes
    <3>2. job[v].req.room \in Rooms
      BY <1>5, <3>1, WritersRoom
    <3>3. job[v].req.room # rm
      BY <1>1, <1>5, <2>1, <3>1, OneWriter
    <3>4. Current(v) \in room_state[job[v].req.room]
      BY <1>5, <3>1 DEF StreamInv, Current
    <3>. QED
      BY <1>1, <3>1, <3>2, <3>3, <3>4 DEF Current
  <2>2. CASE v = w
    BY <1>0, <1>3, <2>2 DEF Becomes, Current
  <2>. QED
    BY <2>1, <2>2
<1>6. \A r \in Rooms : Places(stream', r) = Places(stream, r)
  BY <1>1 DEF Places
<1>7. ASSUME NEW r \in Rooms, NEW i \in Places(stream, r), is_state(stream[i])
      PROVE  \E f \in room_state'[r] : SameSlot(stream[i], f)
  <2>. PICK f \in room_state[r] : SameSlot(stream[i], f)
    BY <1>7 DEF StreamInv
  <2>1. CASE f \in room_state'[r]
    BY <2>1
  <2>2. CASE f \notin room_state'[r]
    <3>1. r = rm /\ SameSlot(f, e)
      BY <1>1, <1>3, <2>2
    <3>. QED
      BY <1>3, <3>1, SlotTransitive
  <2>. QED
    BY <2>1, <2>2
<1>8. \A r \in Rooms : Pending(r) \subseteq Pending(r)'
  <2>1. \A x : stream' = Append(stream, x) => FALSE
    BY <1>1, StreamAppended DEF TypeInv
  <2>. QED
    BY <2>1 DEF Grows
<1>9. \A r \in Rooms : \A f \in room_state'[r] : f \in room_state[r] \/ (f = e /\ r = rm)
  BY <1>1 DEF Over
<1>10. e \in Pending(rm)'
  <2>1. e \in Pending(rm)
    BY <1>1 DEF Pending, Underway
  <2>. QED
    BY <1>2, <1>8, <2>1
<1>11. ASSUME NEW r \in Rooms, NEW f \in room_state'[r]
       PROVE  \/ f \in Pending(r)'
              \/ \E i \in Places(stream, r) : stream[i] = f /\ \A j \in Places(stream, r) : SameSlot(f, stream[j]) => j <= i
  <2>1. CASE f = e /\ r = rm
    BY <1>10, <2>1
  <2>2. CASE f \in room_state[r]
    BY <1>8, <2>2 DEF StreamInv
  <2>. QED
    BY <1>9, <2>1, <2>2
<1>. QED
  BY <1>1, <1>4, <1>5, <1>6, <1>7, <1>11 DEF StreamInv

LEMMA StreamInvInStream ==
  ASSUME TypeInv, OnlyWriters, StreamInv, OneAppendAtATime,
         NEW w \in Workers, NEW h, Becomes(w, h), Grows, InStream(w, h)
  PROVE  StreamInv'
<1>0. h.pc \in {"idle", "record"}
  BY DEF AtPoint, InStream, Idle
<1>. PICK rm \in Rooms : rm = job[w].req.room
  BY InStreamAppends
<1>. PICK e : e = Current(w)
  OBVIOUS
<1>1. /\ stream' = Append(stream, e) /\ e \in Pending(rm) /\ e.room = rm /\ room_state' = room_state
      /\ is_state(e) => e \in room_state[rm]
  BY InStreamAppends DEF InStream
<1>2. /\ Len(stream) \in Nat /\ DOMAIN stream = 1..Len(stream)
      /\ Len(stream') = Len(stream) + 1 /\ DOMAIN stream' = 1..(Len(stream) + 1)
      /\ \A i \in 1..Len(stream) : stream'[i] = stream[i]
      /\ stream'[Len(stream) + 1] = e
  BY <1>1, StreamAppended DEF TypeInv
<1>3. \A v \in Workers : ~Doing(v, "stream")'
  <2>1. \A v \in Workers : job'[v].pc = "stream" => v # w /\ job[v].pc = "stream"
    BY <1>0 DEF Becomes
  <2>. QED
    BY <2>1 DEF OneAppendAtATime, Doing, InStream
<1>4. ASSUME NEW v \in Workers, job'[v].pc \in {"count", "stream"}, is_state(Current(v)')
      PROVE  Current(v)' \in room_state'[job'[v].req.room]
  <2>1. v # w
    BY <1>0, <1>4 DEF Becomes
  <2>. QED
    BY <1>1, <1>4, <2>1 DEF Becomes, StreamInv, Current
<1>5. \A r \in Rooms : \A i \in Places(stream', r) :
        \/ i \in Places(stream, r) /\ stream'[i] = stream[i] /\ i <= Len(stream)
        \/ i = Len(stream) + 1 /\ r = rm /\ stream'[i] = e
  BY <1>1, <1>2 DEF Places
<1>6. \A r \in Rooms : \A i \in Places(stream, r) : i \in Places(stream', r) /\ stream'[i] = stream[i] /\ i \in 1..Len(stream)
  BY <1>2 DEF Places
<1>7. ASSUME NEW r \in Rooms, NEW i \in Places(stream', r), is_state(stream'[i])
      PROVE  \E f \in room_state[r] : SameSlot(stream'[i], f)
  <2>1. CASE i \in Places(stream, r) /\ stream'[i] = stream[i]
    BY <1>7, <2>1 DEF StreamInv
  <2>2. CASE r = rm /\ stream'[i] = e
    BY <1>1, <1>7, <2>2 DEF SameSlot
  <2>. QED
    BY <1>5, <2>1, <2>2
<1>8. ASSUME NEW r \in Rooms, NEW f \in room_state[r]
      PROVE  \/ f \in Pending(r)'
             \/ \E i \in Places(stream', r) : stream'[i] = f /\ \A j \in Places(stream', r) : SameSlot(f, stream'[j]) => j <= i
  <2>1. CASE f = e /\ r = rm
    <3>1. Len(stream) + 1 \in Places(stream', r)
      BY <1>1, <1>2, <2>1 DEF Places
    <3>2. \A j \in Places(stream', r) : j <= Len(stream) + 1
      BY <1>2 DEF Places
    <3>. QED
      BY <1>2, <2>1, <3>1, <3>2
  <2>2. CASE ~(f = e /\ r = rm) /\ f \in Pending(r)
    <3>1. \A x : stream' = Append(stream, x) => x = e
      BY <1>1, <1>2, StreamAppended DEF TypeInv
    <3>2. stream' # stream
      BY <1>2
    <3>3. PICK rn \in Rooms : \E x \in Pending(rn) :
            /\ stream' = Append(stream, x) /\ x.room = rn
            /\ \A q \in Rooms : \A g \in Pending(q) : g \in Pending(q)' \/ (q = rn /\ g = x)
      BY <3>2 DEF Grows
    <3>. PICK x \in Pending(rn) :
            /\ stream' = Append(stream, x) /\ x.room = rn
            /\ \A q \in Rooms : \A g \in Pending(q) : g \in Pending(q)' \/ (q = rn /\ g = x)
      BY <3>3
    <3>4. x = e /\ rn = rm
      BY <1>1, <3>1
    <3>. QED
      BY <2>2, <3>4
  <2>3. CASE ~(f = e /\ r = rm) /\ f \notin Pending(r)
    <3>1. PICK i \in Places(stream, r) : stream[i] = f /\ \A j \in Places(stream, r) : SameSlot(f, stream[j]) => j <= i
      BY <2>3 DEF StreamInv
    <3>2. r = rm => ~SameSlot(f, e)
      <4>1. is_state(f)
        BY DEF TypeInv, StatesType
      <4>2. SameSlot(f, e) => is_state(e)
        BY <4>1 DEF SameSlot, is_state
      <4>. QED
        BY <1>1, <2>3, <4>2 DEF TypeInv, StatesType
    <3>3. \A j \in Places(stream', r) : SameSlot(f, stream'[j]) => j <= i
      BY <1>5, <3>1, <3>2
    <3>. QED
      BY <1>6, <3>1, <3>3
  <2>. QED
    BY <2>1, <2>2, <2>3
<1>. QED
  BY <1>1, <1>3, <1>4, <1>7, <1>8 DEF StreamInv

LEMMA StreamStep ==
  ASSUME TypeInv, OnlyWriters, StreamInv, OneAppendAtATime,
         NEW w \in Workers, NEW h, Becomes(w, h), Moves(w, h)
  PROVE  StreamInv' /\ Grows
<1>1. Grows
  BY MovesGrow
<1>. QED
  BY <1>1, StreamInvKept, StreamInvInState, StreamInvInStream DEF Moves

\* What the server starts from, for the readers: the stream has a room's events
\* in the order of their depths.
StoredInOrder ==
  \A i, j \in DOMAIN Stored : i < j /\ Stored[i].room = Stored[j].room => Stored[i].depth < Stored[j].depth

\* A set of places has a last one.
LEMMA LastPlace ==
  ASSUME NEW n \in Nat, NEW S, S # {}, S \subseteq 1..n
  PROVE  \E m \in S : \A k \in S : k <= m
<1>. DEFINE T == {n - i : i \in S}
<1>1. T \subseteq Nat /\ T # {}
  <2>1. \A i \in S : i \in 1..n
    OBVIOUS
  <2>2. \A i \in 1..n : n - i \in Nat
    OBVIOUS
  <2>. QED
    BY <2>1, <2>2
<1>2. PICK x \in T : \A y \in T : x <= y
  <2>. HIDE DEF T
  <2>. QED
    BY <1>1, LeastNumber
<1>3. PICK m \in S : x = n - m
  OBVIOUS
<1>4. ASSUME NEW k \in S PROVE k <= m
  <2>1. n - k \in T
    OBVIOUS
  <2>2. n - m <= n - k /\ m \in Nat /\ k \in Nat
    BY <1>2, <1>3, <2>1
  <2>. QED
    BY <2>2
<1>. QED
  BY <1>4

LEMMA StreamInit == ASSUME StoredInOrder PROVE Init => StreamInv
<1>. SUFFICES ASSUME Init PROVE StreamInv
  OBVIOUS
<1>1. stream = Stored /\ \A r \in Rooms : room_state[r] = LatestPerSlot(StoredIn(r))
  BY DEF Init
<1>2. \A w \in Workers : job[w].pc = "idle"
  BY DEF Init, Idle
<1>3. Len(Stored) \in Nat /\ DOMAIN Stored = 1..Len(Stored)
      /\ \A i \in DOMAIN Stored : Stored[i].depth \in Nat
  BY RoomsAssumption, SeqOfValues DEF StoredTypes
<1>4. \A r \in Rooms : /\ \A i \in Places(stream, r) : i \in DOMAIN Stored /\ Stored[i].room = r /\ Stored[i] \in StoredIn(r)
                       /\ \A e \in StoredIn(r) : \E i \in Places(stream, r) : Stored[i] = e
  BY <1>1 DEF Places, StoredIn
<1>5. \A i, j \in DOMAIN Stored :
        Stored[i].room = Stored[j].room /\ AtOrBefore(Stored[j], Stored[i]) => j <= i
  BY <1>3 DEF StoredInOrder, AtOrBefore
<1>6. ASSUME NEW r \in Rooms, NEW i \in Places(stream, r), is_state(stream[i])
      PROVE  \E e \in room_state[r] : SameSlot(stream[i], e)
  <2>. DEFINE S == {j \in Places(stream, r) : SameSlot(stream[i], stream[j])}
  <2>1. S # {} /\ S \subseteq 1..Len(Stored)
    BY <1>1, <1>3 DEF SameSlot, Places
  <2>. PICK m \in S : \A k \in S : k <= m
    <3>. HIDE DEF S
    <3>. QED
      BY <1>3, <2>1, LastPlace
  <2>2. m \in Places(stream, r) /\ Stored[m] \in StoredIn(r) /\ SameSlot(stream[i], Stored[m])
    BY <1>1, <1>4
  <2>3. is_state(Stored[m])
    BY <1>6, <2>2 DEF is_state, SameSlot
  <2>4. ASSUME NEW f \in StoredIn(r), SameSlot(Stored[m], f) PROVE AtOrBefore(f, Stored[m])
    <3>1. PICK k \in Places(stream, r) : Stored[k] = f
      BY <1>4
    <3>2. k \in S
      BY <1>1, <2>2, <2>4, <3>1, SlotTransitive
    <3>3. k <= m
      BY <3>2
    <3>4. k = m \/ Stored[k].depth < Stored[m].depth
      BY <1>3, <1>4, <2>2, <3>1, <3>3 DEF StoredInOrder
    <3>5. CASE k = m
      <4>1. \A e \in StoredIn(r) : e.id \in Int
        BY StoredHasTip DEF Fits
      <4>. QED
        BY <2>2, <3>1, <3>5, <4>1 DEF AtOrBefore
    <3>. QED
      BY <3>1, <3>4, <3>5 DEF AtOrBefore
  <2>5. Stored[m] \in LatestPerSlot(StoredIn(r))
    BY <2>2, <2>3, <2>4 DEF LatestPerSlot
  <2>. QED
    BY <1>1, <2>2, <2>5
<1>7. ASSUME NEW r \in Rooms, NEW e \in room_state[r]
      PROVE  \E i \in Places(stream, r) : stream[i] = e /\ \A j \in Places(stream, r) : SameSlot(e, stream[j]) => j <= i
  <2>1. e \in StoredIn(r) /\ \A f \in StoredIn(r) : SameSlot(e, f) => AtOrBefore(f, e)
    BY <1>1, <1>7 DEF LatestPerSlot
  <2>2. PICK i \in Places(stream, r) : Stored[i] = e
    BY <1>4, <2>1
  <2>3. \A j \in Places(stream, r) : SameSlot(e, Stored[j]) => AtOrBefore(Stored[j], Stored[i])
    BY <1>4, <2>1, <2>2
  <2>. QED
    BY <1>1, <1>4, <1>5, <2>2, <2>3
<1>. QED
  BY <1>2, <1>6, <1>7 DEF StreamInv, Doing

-----------------------------------------------------------------------------
(* Departures.                                                             *)

\* Whoever is joined is invited or knocks only after leaving.
LEMMA JoinedDepart ==
  ASSUME NEW e, NEW state, check_auth(e, state), e.kind = "member", membership(state, e.state_key) = "join"
  PROVE  e.content.membership \in {"join", "leave", "ban"}
BY DEF check_auth, check_member_auth, MayInvite, MayKnock

\* What has departed by some place has by a later one.
LEMMA LeftStays ==
  ASSUME NEW s, NEW t, NEW r, NEW u, NEW i, NEW n, NEW m,
         DOMAIN s \subseteq DOMAIN t, DOMAIN s \subseteq Int, \A k \in DOMAIN s : t[k] = s[k],
         n \in Int, m \in Int, n <= m, LeftAfter(s, r, u, i, n)
  PROVE  LeftAfter(t, r, u, i, m)
<1>. PICK k \in DOMAIN s : s[k].room = r /\ i < k /\ k <= n /\ Leaves(s[k], u)
  BY DEF LeftAfter
<1>1. k \in Int /\ k \in DOMAIN t /\ t[k] = s[k]
  OBVIOUS
<1>2. k <= m
  BY <1>1
<1>. QED
  BY <1>1, <1>2 DEF LeftAfter

\* Departing is about what the stream holds.
LEMMA LeftInStream ==
  ASSUME StreamType, NEW e, stream' = Append(stream, e), NEW r, NEW u, NEW i, NEW n \in Int, NEW m \in Int, n <= m,
         LeftAfter(stream, r, u, i, n)
  PROVE  LeftAfter(stream', r, u, i, m)
<1>1. /\ Len(stream) \in Nat /\ DOMAIN stream = 1..Len(stream) /\ DOMAIN stream' = 1..(Len(stream) + 1)
      /\ \A k \in 1..Len(stream) : stream'[k] = stream[k]
  BY StreamAppended
<1>2. DOMAIN stream \subseteq DOMAIN stream' /\ DOMAIN stream \subseteq Int
  BY <1>1
<1>. QED
  BY <1>1, <1>2, LeftStays

\* An authorized departure: the user has left by it, or before.
LEMMA JudgedDeparts ==
  ASSUME TypeInv, OnlyWriters, SerialInv, ContentsInv, StreamInv, DepartsInv,
         NEW w \in Workers, NEW h, Judged(w, h),
         NEW u \in Users, IsOwn(Current(w), u), ~Joins(Current(w), u), ~Leaves(Current(w), u),
         NEW i \in Places(stream, job[w].req.room), Joins(stream[i], u)
  PROVE  LeftAfter(stream, job[w].req.room, u, i, Len(stream))
<1>. PICK rm : rm = job[w].req.room
  OBVIOUS
<1>. PICK e : e = Current(w)
  OBVIOUS
<1>0. job[w].pc = "auth" /\ e.kind = "member" /\ e.state_key = u
      /\ e.content.membership \notin {"join", "leave", "ban"}
  BY DEF Judged, IsOwn, Joins, Leaves
<1>1. rm \in Rooms /\ e.room = rm
  BY <1>0, WritersRoom
<1>2. check_auth(e, room_state[rm])
  <2>1. e.auth_events = {}
    BY <1>0 DEF SerialInv, Writers, Writing, Current
  <2>. QED
    BY <1>1, <2>1 DEF Judged, Authorised
<1>3. membership(room_state[rm], u) # "join"
  BY <1>0, <1>2, JoinedDepart
<1>4. u # None
  BY RoomsAssumption
<1>5. PICK f \in room_state[rm] : SameSlot(stream[i], f)
  BY <1>1, <1>4 DEF StreamInv, is_state, Joins, IsOwn
<1>6. IsOwn(f, u)
  BY <1>5 DEF SameSlot, Joins, IsOwn
<1>7. ~Joins(f, u)
  BY <1>1, <1>3, <1>6, MemberOf DEF Joins
<1>8. f \notin Pending(rm)
  <2>1. SUFFICES ASSUME NEW v \in Workers, Underway(v), job[v].req.room = rm PROVE FALSE
    BY DEF Pending
  <2>2. job[v].pc \notin {"idle", "lock", "auth"}
    BY <2>1 DEF Underway
  <2>. QED
    BY <1>0, <2>1, <2>2, OneWriter
<1>9. PICK p \in Places(stream, rm) : stream[p] = f /\ \A j \in Places(stream, rm) : SameSlot(f, stream[j]) => j <= p
  BY <1>1, <1>8 DEF StreamInv
<1>10. i \in Places(stream, rm) /\ i <= p /\ i # p
  BY <1>5, <1>7, <1>9, SlotSymmetric
<1>11. Len(stream) \in Nat /\ DOMAIN stream = 1..Len(stream)
  BY SeqOfValues DEF TypeInv, StreamType
<1>12. i \in 1..Len(stream) /\ p \in 1..Len(stream)
  BY <1>10, <1>11 DEF Places
<1>13. LeftAfter(stream, rm, u, i, p)
  BY <1>1, <1>6, <1>7, <1>9, <1>10, <1>12 DEF DepartsInv
<1>. QED
  BY <1>11, <1>12, <1>13 DEF LeftAfter, Places

LEMMA DepartsStep ==
  ASSUME TypeInv, OnlyWriters, SerialInv, ContentsInv, StreamInv, DepartsInv,
         NEW w \in Workers, NEW h, Becomes(w, h), Moves(w, h)
  PROVE  DepartsInv'
<1>0. StreamType /\ Len(stream) \in Nat /\ DOMAIN stream = 1..Len(stream)
  BY SeqOfValues DEF TypeInv, StreamType
<1>. PICK e : e = Current(w)
  OBVIOUS
<1>1. CASE InStream(w, h)
  <2>. PICK rm \in Rooms : rm = job[w].req.room
    BY <1>1, InStreamAppends
  <2>1. stream' = Append(stream, e) /\ e.room = rm
    BY <1>1, InStreamAppends
  <2>2. /\ Len(stream') = Len(stream) + 1 /\ DOMAIN stream' = 1..(Len(stream) + 1)
        /\ \A i \in 1..Len(stream) : stream'[i] = stream[i]
        /\ stream'[Len(stream) + 1] = e
    BY <1>0, <2>1, StreamAppended
  <2>3. \A r \in Rooms : \A i \in Places(stream', r) :
          \/ i \in Places(stream, r) /\ stream'[i] = stream[i] /\ i \in 1..Len(stream)
          \/ i = Len(stream) + 1 /\ r = rm /\ stream'[i] = e
    BY <1>0, <2>1, <2>2 DEF Places
  <2>4. ASSUME NEW r \in Rooms, NEW u \in Users, NEW i \in Places(stream', r), NEW j \in Places(stream', r),
               i < j, Joins(stream'[i], u), IsOwn(stream'[j], u), ~Joins(stream'[j], u)
        PROVE  LeftAfter(stream', r, u, i, j)
    <3>1. i \in Places(stream, r) /\ stream'[i] = stream[i] /\ i \in 1..Len(stream)
      <4>1. i # Len(stream) + 1
        BY <1>0, <2>3, <2>4
      <4>. QED
        BY <2>3, <4>1
    <3>2. CASE j \in Places(stream, r) /\ stream'[j] = stream[j] /\ j \in 1..Len(stream)
      <4>1. LeftAfter(stream, r, u, i, j)
        BY <2>4, <3>1, <3>2 DEF DepartsInv
      <4>. QED
        BY <1>0, <2>1, <3>2, <4>1, LeftInStream
    <3>3. CASE j = Len(stream) + 1 /\ r = rm /\ stream'[j] = e
      <4>1. \/ Leaves(e, u)
            \/ LeftAfter(stream, rm, u, i, Len(stream))
        BY <1>1, <2>4, <3>1, <3>3 DEF DepartsInv, InStream
      <4>2. CASE Leaves(e, u)
        BY <1>0, <2>1, <2>2, <2>4, <3>3, <4>2 DEF LeftAfter
      <4>3. CASE LeftAfter(stream, rm, u, i, Len(stream))
        BY <1>0, <2>1, <3>3, <4>3, LeftInStream
      <4>. QED
        BY <4>1, <4>2, <4>3
    <3>. QED
      BY <2>3, <3>2, <3>3
  <2>5. ASSUME NEW v \in Workers, job'[v].pc \in {"event", "state", "count", "stream"},
               NEW u \in Users, IsOwn(Current(v)', u), ~Joins(Current(v)', u), ~Leaves(Current(v)', u),
               NEW i \in Places(stream', job'[v].req.room), Joins(stream'[i], u)
        PROVE  LeftAfter(stream', job'[v].req.room, u, i, Len(stream'))
    <3>1. v # w
      <4>1. h.pc \in {"idle", "record"}
        BY <1>1 DEF InStream, Idle, AtPoint
      <4>. QED
        BY <2>5, <4>1 DEF Becomes
    <3>2. job'[v] = job[v] /\ Current(v)' = Current(v)
      BY <3>1 DEF Becomes, Current
    <3>. PICK r : r = job[v].req.room
      OBVIOUS
    <3>3. r \in Rooms
      BY <2>5, <3>2, WritersRoom
    <3>4. r # rm
      BY <1>1, <2>5, <3>1, <3>2, OneWriter DEF InStream
    <3>5. i \in Places(stream, r) /\ stream'[i] = stream[i]
      BY <2>3, <2>5, <3>2, <3>3, <3>4
    <3>6. LeftAfter(stream, r, u, i, Len(stream))
      BY <2>5, <3>2, <3>5 DEF DepartsInv
    <3>7. LeftAfter(stream', r, u, i, Len(stream) + 1)
      <4>1. Len(stream) \in Int /\ Len(stream) + 1 \in Int /\ Len(stream) <= Len(stream) + 1
        BY <1>0
      <4>. QED
        BY <1>0, <2>1, <3>3, <3>6, <4>1, LeftInStream
    <3>. QED
      BY <2>2, <3>2, <3>7
  <2>. QED
    BY <2>4, <2>5 DEF DepartsInv
<1>2. CASE ~InStream(w, h)
  <2>1. stream' = stream
    BY <1>2 DEF Moves, Outside, Judged, InTimeline, InState, Counts, Same
  <2>2. \A r, u, i, n : LeftAfter(stream', r, u, i, n) <=> LeftAfter(stream, r, u, i, n)
    BY <2>1 DEF LeftAfter, Places, Leaves, IsOwn
  <2>3. \A r : Places(stream', r) = Places(stream, r)
    BY <2>1 DEF Places
  <2>4. ASSUME NEW v \in Workers, job'[v].pc \in {"event", "state", "count", "stream"},
               NEW u \in Users, IsOwn(Current(v)', u), ~Joins(Current(v)', u), ~Leaves(Current(v)', u),
               NEW i \in Places(stream, job'[v].req.room), Joins(stream[i], u)
        PROVE  LeftAfter(stream, job'[v].req.room, u, i, Len(stream))
    <3>1. CASE v # w
      <4>1. job'[v] = job[v] /\ Current(v)' = Current(v)
        BY <3>1 DEF Becomes, Current
      <4>. QED
        BY <2>4, <4>1 DEF DepartsInv
    <3>2. CASE v = w
      <4>1. job'[v] = h /\ Current(v)' = Head(h.events)
        BY <3>2 DEF Becomes, Current
      <4>2. h.req = job[w].req /\ Head(h.events) = e /\ ~Outside(w, h)
        BY <1>2, <2>4, <4>1 DEF Moves, Outside, Judged, InTimeline, InState, Counts, Counted, AtPoint, Current
      <4>3. CASE Judged(w, h)
        BY <2>4, <4>1, <4>2, <4>3, JudgedDeparts
      <4>4. CASE ~Judged(w, h)
        <5>1. job[w].pc \in {"event", "state", "count", "stream"}
          BY <1>2, <4>2, <4>4 DEF Moves, InTimeline, InState, Counts
        <5>. QED
          BY <2>4, <4>1, <4>2, <5>1 DEF DepartsInv
      <4>. QED
        BY <4>3, <4>4
    <3>. QED
      BY <3>1, <3>2
  <2>. QED
    BY <2>1, <2>2, <2>3, <2>4 DEF DepartsInv
<1>. QED
  BY <1>1, <1>2

\* What the server starts from, for the readers: whoever was joined and is not
\* has left in between.
StoredDeparts ==
  \A i, j \in DOMAIN Stored : \A u \in Users :
    /\ i < j /\ Stored[i].room = Stored[j].room
    /\ Joins(Stored[i], u) /\ IsOwn(Stored[j], u) /\ ~Joins(Stored[j], u)
    => \E k \in (i + 1)..j : Stored[k].room = Stored[i].room /\ Leaves(Stored[k], u)

LEMMA DepartsInit == ASSUME StoredDeparts PROVE Init => DepartsInv
<1>. SUFFICES ASSUME Init PROVE DepartsInv
  OBVIOUS
<1>1. stream = Stored
  BY DEF Init
<1>2. \A w \in Workers : job[w].pc = "idle"
  BY DEF Init, Idle
<1>3. Len(Stored) \in Nat /\ DOMAIN Stored = 1..Len(Stored)
  BY RoomsAssumption, SeqOfValues DEF StoredTypes
<1>4. ASSUME NEW r \in Rooms, NEW u \in Users, NEW i \in Places(stream, r), NEW j \in Places(stream, r),
             i < j, Joins(stream[i], u), IsOwn(stream[j], u), ~Joins(stream[j], u)
      PROVE  LeftAfter(stream, r, u, i, j)
  <2>1. i \in 1..Len(Stored) /\ j \in 1..Len(Stored) /\ Stored[i].room = r /\ Stored[j].room = r
    BY <1>1, <1>3, <1>4 DEF Places
  <2>2. PICK k \in (i + 1)..j : Stored[k].room = r /\ Leaves(Stored[k], u)
    BY <1>1, <1>3, <1>4, <2>1 DEF StoredDeparts
  <2>3. k \in 1..Len(Stored) /\ i < k /\ k <= j
    BY <1>3, <2>1
  <2>. QED
    BY <1>1, <1>3, <2>2, <2>3 DEF LeftAfter, Places
<1>. QED
  BY <1>2, <1>4 DEF DepartsInv

-----------------------------------------------------------------------------
(* What a client knows of a room, as of the first n events of the stream.  *)

\* All a reader may find of a room: the stream, what is being appended to it,
\* and the state.
View(r) == [room |-> r, stream |-> stream, pending |-> Pending(r), state |-> room_state[r]]
Views   == [r \in Rooms |-> View(r)]

Own(a) == Places(a.stream, a.room)

\* The slot of e was written since, or is being written.
Touched(a, e, n) ==
  \/ \E i \in Own(a) : i > n /\ SameSlot(e, a.stream[i])
  \/ \E f \in a.pending : SameSlot(e, f)

OwnTouched(a, u, n) ==
  \/ \E i \in Own(a) : i > n /\ IsOwn(a.stream[i], u)
  \/ \E f \in a.pending : IsOwn(f, u)

IsMember(a, u) == \E f \in a.state : Joins(f, u)

\* The user joins, or joined and has not left by then.
Tracked(a, u, n) ==
  \/ \E f \in a.pending : Joins(f, u)
  \/ \E i \in Own(a) : Joins(a.stream[i], u) /\ ~LeftAfter(a.stream, a.room, u, i, n)

Slots(a, known) ==
  \A e \in known : is_state(e) /\ ((\E f \in a.state : SameSlot(e, f)) \/ (\E f \in a.pending : SameSlot(e, f)))

\* Right, and complete, in the slots that were not written since.
Fresh(a, known, n) ==
  /\ \A e \in known : Touched(a, e, n) \/ e \in a.state
  /\ \A e \in a.state : Touched(a, e, n) \/ \E f \in known : SameSlot(e, f)

Knows(a, known, u, n) ==
  /\ known # {} => Tracked(a, u, n)
  /\ Slots(a, known)
  /\ \/ OwnTouched(a, u, n)
     \/ IsMember(a, u) /\ Fresh(a, known, n)
     \/ ~IsMember(a, u) /\ known = {}

\* The room is a part of the user's from the event at j, or from before it, on.
Due(a, u, j) ==
  /\ \E i \in Own(a) : /\ i <= j /\ IsOwn(a.stream[i], u)
                       /\ \A k \in Own(a) : i <= k /\ IsOwn(a.stream[k], u) => Joins(a.stream[k], u)
  /\ \A f \in a.pending : IsOwn(f, u) => Joins(f, u)

\* What the invariants of the writers say of a room.
Settled(a) ==
  /\ Len(a.stream) \in Nat /\ DOMAIN a.stream = 1..Len(a.stream)
  /\ \A i \in Own(a) : is_state(a.stream[i]) => \E e \in a.state : SameSlot(a.stream[i], e)
  /\ \A e \in a.state :
       /\ is_state(e)
       /\ \/ e \in a.pending
          \/ \E i \in Own(a) : a.stream[i] = e /\ \A j \in Own(a) : SameSlot(e, a.stream[j]) => j <= i
  /\ \A e, f \in a.state : SameSlot(e, f) => e = f
  /\ \A u \in Users : \A i, j \in Own(a) :
       i < j /\ Joins(a.stream[i], u) /\ IsOwn(a.stream[j], u) /\ ~Joins(a.stream[j], u) =>
         LeftAfter(a.stream, a.room, u, i, j)

\* What a step of a writer does to a room.
Later(a, b) ==
  /\ b.room = a.room
  /\ Len(b.stream) \in Nat /\ DOMAIN b.stream = 1..Len(b.stream) /\ Len(a.stream) <= Len(b.stream)
  /\ \A i \in 1..Len(a.stream) : b.stream[i] = a.stream[i]
  /\ \/ b.state = a.state
     \/ \E e \in a.pending \cap b.pending : is_state(e) /\ b.state = Over(a.state, {e})
  /\ \A f \in a.pending :
       \/ f \in b.pending
       \/ /\ is_state(f) => f \in b.state
          /\ \E i \in Own(b) : i > Len(a.stream) /\ b.stream[i] = f

-----------------------------------------------------------------------------
(* The invariants of the readers.                                          *)

\* What a client has of each room is right as of its token, but for what was
\* written since; and it was sent what its user was to see by then.
ClientOk(V, c, u) ==
  IF c.since = None THEN \A r \in Rooms : c.known[r] = {}
  ELSE \A r \in Rooms : /\ Knows(V[r], c.known[r], u, c.since)
                        /\ \A j \in Own(V[r]) : j <= c.since /\ Due(V[r], u, j) => V[r].stream[j] \in c.seen

Scanned(h) == h.pc \in {"room", "state", "timeline"}
AtRoom(h)  == h.pc \in {"state", "timeline"}

Merged(known, j) == Over(Over(known, j.state), j.newer)

\* The answer has what the client is to know of the room and to see of it.
Shown(a, known, since, h, u) ==
  /\ a.room \in h.left => Knows(a, {}, u, h.next_batch)
  /\ \A j \in h.joined : j.room = a.room => Knows(a, Merged(known, j), u, h.next_batch)
  /\ a.room \notin h.left /\ (\A j \in h.joined : j.room # a.room) => Knows(a, known, u, h.next_batch)
  /\ \A i \in Own(a) : i <= h.next_batch /\ (since = None \/ i > since) /\ Due(a, u, i) =>
       \E j \in h.joined : a.stream[i] \in j.events

Waiting(r, h) == r \notin h.left /\ \A j \in h.joined : j.room # r

\* The room whose state is about to be read, or was: the user was joined.
Opened(a, h, u) ==
  /\ Tracked(a, u, h.next_batch)
  /\ OwnTouched(a, u, h.next_batch) \/ IsMember(a, u)
  /\ h.pc = "timeline" => Slots(a, h.state) /\ Fresh(a, h.state, h.next_batch)

SyncOk(V, c, h, u) ==
  Scanned(h) =>
    /\ \A r \in Rooms : IF r \in h.todo \/ (AtRoom(h) /\ r = h.room) THEN Waiting(r, h)
                        ELSE Shown(V[r], c.known[r], c.since, h, u)
    /\ AtRoom(h) => h.room \notin h.todo /\ Opened(V[h.room], h, u)

\* The delta is the stretch of the stream from the token, up to the new token or
\* farther.
DeltaType(h, since, s) ==
  IF since = None THEN h.delta = <<>>
  ELSE /\ Len(h.delta) \in Nat /\ DOMAIN h.delta = 1..Len(h.delta)
       /\ h.next_batch <= since + Len(h.delta) /\ since + Len(h.delta) <= Len(s)
       /\ \A i \in 1..Len(h.delta) : h.delta[i] = s[since + i]

ClientType(c, s) ==
  /\ c = [since |-> c.since, syncs |-> c.syncs, known |-> c.known, seen |-> c.seen]
  /\ DOMAIN c.known = Rooms
  /\ c.since # None => c.since \in Nat /\ c.since <= Len(s)

SyncType(c, h, s) ==
  h.pc # "idle" =>
    /\ h = [pc |-> h.pc, next_batch |-> h.next_batch, delta |-> h.delta, todo |-> h.todo,
            room |-> h.room, state |-> h.state, joined |-> h.joined, left |-> h.left]
    /\ h.pc \in {"scan", "room", "state", "timeline"}
    /\ h.next_batch \in Nat /\ h.next_batch <= Len(s)
    /\ c.since # None => c.since <= h.next_batch
    /\ h.pc = "scan" => h.joined = {} /\ h.left = {}
    /\ Scanned(h) => DeltaType(h, c.since, s) /\ h.todo \subseteq Rooms
    /\ AtRoom(h) => h.room \in Rooms
    /\ h.pc = "timeline" => c.since = None

ReadersInv ==
  /\ DOMAIN sync = Syncers /\ DOMAIN client = Syncers
  /\ \A u \in Syncers :
       /\ ClientType(client[u], stream) /\ SyncType(client[u], sync[u], stream)
       /\ ClientOk(Views, client[u], u) /\ SyncOk(Views, client[u], sync[u], u)

-----------------------------------------------------------------------------
(* What a writer's step leaves of it.                                      *)

LEMMA OwnPlaces ==
  ASSUME NEW a, Settled(a), NEW i \in Own(a)
  PROVE  i \in 1..Len(a.stream) /\ i \in Nat /\ Len(a.stream) \in Nat /\ a.stream[i].room = a.room
BY DEF Settled, Own, Places

LEMMA OwnStays ==
  ASSUME NEW a, NEW b, Settled(a), Later(a, b)
  PROVE  /\ \A i \in Own(a) : i \in Own(b) /\ b.stream[i] = a.stream[i]
         /\ \A i \in Own(b) : i \in Nat /\ (i <= Len(a.stream) => i \in Own(a) /\ b.stream[i] = a.stream[i])
BY DEF Settled, Later, Own, Places

LEMMA TouchedStays ==
  ASSUME NEW a, NEW b, Settled(a), Later(a, b), NEW e, NEW n \in Nat, n <= Len(a.stream), Touched(a, e, n)
  PROVE  Touched(b, e, n)
<1>1. CASE \E i \in Own(a) : i > n /\ SameSlot(e, a.stream[i])
  BY <1>1, OwnStays DEF Touched
<1>2. CASE \E f \in a.pending : SameSlot(e, f)
  <2>. PICK f \in a.pending : SameSlot(e, f)
    BY <1>2
  <2>1. CASE f \in b.pending
    BY <2>1 DEF Touched
  <2>2. CASE f \notin b.pending
    <3>. PICK i \in Own(b) : i > Len(a.stream) /\ b.stream[i] = f
      BY <2>2 DEF Later
    <3>1. i > n
      BY OwnStays DEF Settled
    <3>. QED
      BY <3>1 DEF Touched
  <2>. QED
    BY <2>1, <2>2
<1>. QED
  BY <1>1, <1>2 DEF Touched

LEMMA OwnTouchedStays ==
  ASSUME NEW a, NEW b, Settled(a), Later(a, b), NEW u, NEW n \in Nat, n <= Len(a.stream), OwnTouched(a, u, n)
  PROVE  OwnTouched(b, u, n)
<1>1. CASE \E i \in Own(a) : i > n /\ IsOwn(a.stream[i], u)
  BY <1>1, OwnStays DEF OwnTouched
<1>2. CASE \E f \in a.pending : IsOwn(f, u)
  <2>. PICK f \in a.pending : IsOwn(f, u)
    BY <1>2
  <2>1. CASE f \in b.pending
    BY <2>1 DEF OwnTouched
  <2>2. CASE f \notin b.pending
    <3>. PICK i \in Own(b) : i > Len(a.stream) /\ b.stream[i] = f
      BY <2>2 DEF Later
    <3>1. i > n
      BY OwnStays DEF Settled
    <3>. QED
      BY <3>1 DEF OwnTouched
  <2>. QED
    BY <2>1, <2>2
<1>. QED
  BY <1>1, <1>2 DEF OwnTouched

\* A state takes in one event at most, which is pending then.
LEMMA StateLater ==
  ASSUME NEW a, NEW b, Later(a, b)
  PROVE  /\ \A f \in a.state : f \in b.state \/ \E e \in b.pending \cap b.state : SameSlot(f, e)
         /\ \A f \in b.state : f \in a.state \/ f \in b.pending
BY DEF Later, Over

LEMMA MemberStays ==
  ASSUME NEW a, NEW b, Later(a, b), NEW u, NEW n, ~OwnTouched(b, u, n)
  PROVE  IsMember(a, u) <=> IsMember(b, u)
<1>1. \A f \in b.pending : ~IsOwn(f, u)
  BY DEF OwnTouched
<1>2. ASSUME NEW f \in a.state, Joins(f, u) PROVE f \in b.state
  BY <1>1, <1>2, StateLater DEF Joins, IsOwn, SameSlot
<1>3. ASSUME NEW f \in b.state, Joins(f, u) PROVE f \in a.state
  BY <1>1, <1>3, StateLater DEF Joins
<1>. QED
  BY <1>2, <1>3 DEF IsMember

LEMMA SlotsStay ==
  ASSUME NEW a, NEW b, Later(a, b), NEW known, Slots(a, known)
  PROVE  Slots(b, known)
<1>1. SUFFICES ASSUME NEW e \in known
      PROVE  is_state(e) /\ ((\E f \in b.state : SameSlot(e, f)) \/ (\E f \in b.pending : SameSlot(e, f)))
  BY DEF Slots
<1>2. is_state(e)
  BY DEF Slots
<1>3. CASE \E f \in a.state : SameSlot(e, f)
  BY <1>2, <1>3, StateLater, SlotTransitive
<1>4. CASE \E f \in a.pending : SameSlot(e, f)
  <2>. PICK f \in a.pending : SameSlot(e, f)
    BY <1>4
  <2>1. is_state(f)
    BY <1>2 DEF SameSlot, is_state
  <2>2. f \in b.pending \/ f \in b.state
    BY <2>1 DEF Later
  <2>. QED
    BY <1>2, <2>2
<1>. QED
  BY <1>3, <1>4 DEF Slots

LEMMA FreshStays ==
  ASSUME NEW a, NEW b, Settled(a), Later(a, b), NEW known, NEW n \in Nat, n <= Len(a.stream),
         Fresh(a, known, n)
  PROVE  Fresh(b, known, n)
<1>1. \A e : Touched(a, e, n) => Touched(b, e, n)
  BY TouchedStays
<1>2. ASSUME NEW e \in known, ~Touched(b, e, n) PROVE e \in b.state
  <2>1. e \in a.state
    BY <1>1, <1>2 DEF Fresh
  <2>. QED
    BY <1>2, <2>1, StateLater DEF Touched
<1>3. ASSUME NEW e \in b.state, ~Touched(b, e, n) PROVE \E f \in known : SameSlot(e, f)
  <2>1. e \notin b.pending
    BY <1>3 DEF Touched, SameSlot
  <2>2. e \in a.state
    BY <2>1, StateLater
  <2>. QED
    BY <1>1, <1>3, <2>2 DEF Fresh
<1>. QED
  BY <1>2, <1>3 DEF Fresh

LEMMA TrackedStays ==
  ASSUME NEW a, NEW b, Settled(a), Later(a, b), NEW u, NEW n \in Nat, n <= Len(a.stream), Tracked(a, u, n)
  PROVE  Tracked(b, u, n)
<1>1. CASE \E f \in a.pending : Joins(f, u)
  <2>. PICK f \in a.pending : Joins(f, u)
    BY <1>1
  <2>1. CASE f \in b.pending
    BY <2>1 DEF Tracked
  <2>2. CASE f \notin b.pending
    <3>. PICK i \in Own(b) : i > Len(a.stream) /\ b.stream[i] = f
      BY <2>2 DEF Later
    <3>1. i \in Nat /\ Len(a.stream) \in Nat
      BY OwnStays DEF Settled
    <3>2. ~LeftAfter(b.stream, b.room, u, i, n)
      <4>1. \A k \in DOMAIN b.stream : k \in Nat
        BY DEF Later
      <4>. QED
        BY <3>1, <4>1 DEF LeftAfter
    <3>. QED
      BY <3>2 DEF Tracked
  <2>. QED
    BY <2>1, <2>2
<1>2. CASE \E i \in Own(a) : Joins(a.stream[i], u) /\ ~LeftAfter(a.stream, a.room, u, i, n)
  <2>. PICK i \in Own(a) : Joins(a.stream[i], u) /\ ~LeftAfter(a.stream, a.room, u, i, n)
    BY <1>2
  <2>1. i \in Own(b) /\ b.stream[i] = a.stream[i]
    BY OwnStays
  <2>2. ~LeftAfter(b.stream, b.room, u, i, n)
    <3>1. b.room = a.room
      BY DEF Later
    <3>2. ASSUME NEW k \in DOMAIN b.stream, b.stream[k].room = b.room, i < k, k <= n, Leaves(b.stream[k], u)
          PROVE  LeftAfter(a.stream, a.room, u, i, n)
      <4>1. k \in Own(b)
        BY <3>2 DEF Own, Places
      <4>2. k \in Own(a) /\ b.stream[k] = a.stream[k]
        BY <3>2, <4>1, OwnStays DEF Settled
      <4>. QED
        BY <3>1, <3>2, <4>2 DEF LeftAfter, Own, Places
    <3>. QED
      BY <3>2 DEF LeftAfter
  <2>. QED
    BY <2>1, <2>2 DEF Tracked
<1>. QED
  BY <1>1, <1>2 DEF Tracked

LEMMA KnowsStays ==
  ASSUME NEW a, NEW b, Settled(a), Later(a, b), NEW known, NEW u, NEW n \in Nat, n <= Len(a.stream),
         Knows(a, known, u, n)
  PROVE  Knows(b, known, u, n)
<1>1. known # {} => Tracked(b, u, n)
  BY TrackedStays DEF Knows
<1>2. Slots(b, known)
  BY SlotsStay DEF Knows
<1>3. \/ OwnTouched(b, u, n)
      \/ IsMember(b, u) /\ Fresh(b, known, n)
      \/ ~IsMember(b, u) /\ known = {}
  BY OwnTouchedStays, MemberStays, FreshStays DEF Knows
<1>. QED
  BY <1>1, <1>2, <1>3 DEF Knows

\* What the user is to see was the user's to see before.
LEMMA DueBefore ==
  ASSUME NEW a, NEW b, Settled(a), Later(a, b), NEW u, NEW j \in Nat, j <= Len(a.stream), Due(b, u, j)
  PROVE  Due(a, u, j)
<1>. PICK i \in Own(b) : /\ i <= j /\ IsOwn(b.stream[i], u)
                         /\ \A k \in Own(b) : i <= k /\ IsOwn(b.stream[k], u) => Joins(b.stream[k], u)
  BY DEF Due
<1>1. i \in Own(a) /\ b.stream[i] = a.stream[i]
  BY OwnStays DEF Settled
<1>2. \A k \in Own(a) : i <= k /\ IsOwn(a.stream[k], u) => Joins(a.stream[k], u)
  BY OwnStays
<1>3. ASSUME NEW f \in a.pending, IsOwn(f, u) PROVE Joins(f, u)
  <2>1. CASE f \in b.pending
    BY <1>3, <2>1 DEF Due
  <2>2. CASE f \notin b.pending
    <3>. PICK k \in Own(b) : k > Len(a.stream) /\ b.stream[k] = f
      BY <2>2 DEF Later
    <3>1. i <= k
      BY OwnStays DEF Settled
    <3>. QED
      BY <1>3, <3>1
  <2>. QED
    BY <2>1, <2>2
<1>. QED
  BY <1>1, <1>2, <1>3 DEF Due

LEMMA ViewFields ==
  ASSUME NEW r \in Rooms
  PROVE  /\ Views[r].room = r /\ Views[r].stream = stream
         /\ Views[r].pending = Pending(r) /\ Views[r].state = room_state[r]
BY DEF Views, View

LEMMA ViewFieldsNext ==
  ASSUME NEW r \in Rooms
  PROVE  /\ Views'[r].room = r /\ Views'[r].stream = stream'
         /\ Views'[r].pending = Pending(r)' /\ Views'[r].state = room_state'[r]
BY DEF Views, View

LEMMA ViewsSettled ==
  ASSUME TypeInv, StreamInv, DepartsInv, NEW r \in Rooms
  PROVE  Settled(Views[r])
<1>. PICK a : a = Views[r]
  OBVIOUS
<1>1. a.room = r /\ a.stream = stream /\ a.pending = Pending(r) /\ a.state = room_state[r]
  BY ViewFields
<1>2. Len(stream) \in Nat /\ DOMAIN stream = 1..Len(stream)
  BY SeqOfValues DEF TypeInv, StreamType
<1>3. Own(a) = Places(stream, r)
  BY <1>1 DEF Own
<1>4. \A e, f \in a.state : is_state(e) /\ (SameSlot(e, f) => e = f)
  BY <1>1 DEF TypeInv, StatesType
<1>5. \A i \in Own(a) : is_state(a.stream[i]) => \E e \in a.state : SameSlot(a.stream[i], e)
  BY <1>1, <1>3 DEF StreamInv
<1>6. \A e \in a.state :
        \/ e \in a.pending
        \/ \E i \in Own(a) : a.stream[i] = e /\ \A j \in Own(a) : SameSlot(e, a.stream[j]) => j <= i
  BY <1>1, <1>3 DEF StreamInv
<1>7. \A u \in Users : \A i, j \in Own(a) :
        i < j /\ Joins(a.stream[i], u) /\ IsOwn(a.stream[j], u) /\ ~Joins(a.stream[j], u) =>
          LeftAfter(a.stream, a.room, u, i, j)
  BY <1>1, <1>3 DEF DepartsInv
<1>8. Settled(a)
  BY <1>1, <1>2, <1>4, <1>5, <1>6, <1>7 DEF Settled
<1>. QED
  BY <1>8

LEMMA ViewsLater ==
  ASSUME StreamType, Grows, NEW r \in Rooms
  PROVE  Later(Views[r], Views'[r])
<1>. PICK a : a = Views[r]
  OBVIOUS
<1>. PICK b : b = Views'[r]
  OBVIOUS
<1>1. a.room = r /\ a.stream = stream /\ a.pending = Pending(r) /\ a.state = room_state[r]
  BY ViewFields
<1>2. b.room = r /\ b.stream = stream' /\ b.pending = Pending(r)' /\ b.state = room_state'[r]
  BY ViewFieldsNext
<1>3. Len(stream) \in Nat /\ DOMAIN stream = 1..Len(stream)
  BY SeqOfValues DEF StreamType
<1>4. \/ b.state = a.state
      \/ \E e \in a.pending \cap b.pending : is_state(e) /\ b.state = Over(a.state, {e})
  BY <1>1, <1>2 DEF Grows
<1>5. CASE stream' = stream /\ a.pending \subseteq b.pending
  <2>1. /\ Len(b.stream) \in Nat /\ DOMAIN b.stream = 1..Len(b.stream) /\ Len(a.stream) <= Len(b.stream)
        /\ \A i \in 1..Len(a.stream) : b.stream[i] = a.stream[i]
    BY <1>1, <1>2, <1>3, <1>5
  <2>2. b.room = a.room /\ \A f \in a.pending : f \in b.pending
    BY <1>1, <1>2, <1>5
  <2>3. Later(a, b)
    BY <1>4, <2>1, <2>2 DEF Later
  <2>. QED
    BY <2>3
<1>6. CASE \E rm \in Rooms : \E e \in Pending(rm) :
             /\ stream' = Append(stream, e) /\ e.room = rm /\ room_state' = room_state
             /\ is_state(e) => e \in room_state[rm]
             /\ \A q \in Rooms : \A f \in Pending(q) : f \in Pending(q)' \/ (q = rm /\ f = e)
  <2>1. PICK rm \in Rooms : \E e \in Pending(rm) :
             /\ stream' = Append(stream, e) /\ e.room = rm /\ room_state' = room_state
             /\ is_state(e) => e \in room_state[rm]
             /\ \A q \in Rooms : \A f \in Pending(q) : f \in Pending(q)' \/ (q = rm /\ f = e)
    BY <1>6
  <2>. PICK e \in Pending(rm) :
             /\ stream' = Append(stream, e) /\ e.room = rm /\ room_state' = room_state
             /\ is_state(e) => e \in room_state[rm]
             /\ \A q \in Rooms : \A f \in Pending(q) : f \in Pending(q)' \/ (q = rm /\ f = e)
    BY <2>1
  <2>2. /\ Len(stream') = Len(stream) + 1 /\ DOMAIN stream' = 1..(Len(stream) + 1)
        /\ \A i \in 1..Len(stream) : stream'[i] = stream[i]
        /\ stream'[Len(stream) + 1] = e
    BY StreamAppended
  <2>3. ASSUME NEW f \in a.pending, f \notin b.pending
        PROVE  /\ is_state(f) => f \in b.state
               /\ \E i \in Own(b) : i > Len(a.stream) /\ b.stream[i] = f
    <3>1. r = rm /\ f = e
      BY <1>1, <1>2, <2>3
    <3>2. Len(stream) + 1 \in Own(b)
      BY <1>2, <1>3, <2>2, <3>1 DEF Own, Places
    <3>. QED
      BY <1>1, <1>2, <1>3, <2>2, <3>1, <3>2
  <2>4. /\ Len(b.stream) \in Nat /\ DOMAIN b.stream = 1..Len(b.stream) /\ Len(a.stream) <= Len(b.stream)
        /\ \A i \in 1..Len(a.stream) : b.stream[i] = a.stream[i]
    BY <1>1, <1>2, <1>3, <2>2
  <2>5. Later(a, b)
    BY <1>1, <1>2, <1>4, <2>3, <2>4 DEF Later
  <2>. QED
    BY <2>5
<1>7. CASE stream' = stream /\ \A q \in Rooms : Pending(q) \subseteq Pending(q)'
  BY <1>1, <1>2, <1>5, <1>7
<1>. QED
  BY <1>6, <1>7 DEF Grows

\* A client keeps what it knows, and an answer what it has, when a writer steps.
LEMMA ClientStays ==
  ASSUME NEW V, NEW W, NEW c, NEW u,
         \A r \in Rooms : Settled(V[r]) /\ Later(V[r], W[r]),
         c.since # None => c.since \in Nat /\ \A r \in Rooms : c.since <= Len(V[r].stream),
         ClientOk(V, c, u)
  PROVE  ClientOk(W, c, u)
<1>1. CASE c.since = None
  BY <1>1 DEF ClientOk
<1>2. CASE c.since # None
  <2>1. ASSUME NEW r \in Rooms PROVE Knows(W[r], c.known[r], u, c.since)
    BY <1>2, KnowsStays DEF ClientOk
  <2>2. ASSUME NEW r \in Rooms, NEW j \in Own(W[r]), j <= c.since, Due(W[r], u, j)
        PROVE  W[r].stream[j] \in c.seen
    <3>. PICK a : a = V[r]
      OBVIOUS
    <3>. PICK b : b = W[r]
      OBVIOUS
    <3>1. Settled(a) /\ Later(a, b) /\ c.since \in Nat /\ c.since <= Len(a.stream)
      BY <1>2
    <3>2. j \in Nat /\ Len(a.stream) \in Nat
      BY <2>2, <3>1, OwnStays DEF Settled
    <3>3. j <= Len(a.stream)
      BY <2>2, <3>1, <3>2
    <3>4. j \in Own(a) /\ b.stream[j] = a.stream[j]
      BY <2>2, <3>1, <3>3, OwnStays
    <3>5. Due(a, u, j)
      BY <2>2, <3>1, <3>2, <3>3, DueBefore
    <3>. QED
      BY <1>2, <2>2, <3>4, <3>5 DEF ClientOk
  <2>. QED
    BY <1>2, <2>1, <2>2 DEF ClientOk
<1>. QED
  BY <1>1, <1>2

LEMMA ShownStays ==
  ASSUME NEW a, NEW b, Settled(a), Later(a, b), NEW known, NEW since, NEW h, NEW u,
         h.next_batch \in Nat, h.next_batch <= Len(a.stream), Shown(a, known, since, h, u)
  PROVE  Shown(b, known, since, h, u)
<1>1. a.room = b.room
  BY DEF Later
<1>2. \A k : Knows(a, k, u, h.next_batch) => Knows(b, k, u, h.next_batch)
  BY KnowsStays
<1>3. ASSUME NEW i \in Own(b), i <= h.next_batch, since = None \/ i > since, Due(b, u, i)
      PROVE  \E j \in h.joined : b.stream[i] \in j.events
  <2>1. i \in Nat /\ Len(a.stream) \in Nat
    BY OwnStays DEF Settled
  <2>2. i <= Len(a.stream)
    BY <1>3, <2>1
  <2>3. i \in Own(a) /\ b.stream[i] = a.stream[i] /\ Due(a, u, i)
    BY <1>3, <2>1, <2>2, OwnStays, DueBefore
  <2>. QED
    BY <1>3, <2>3 DEF Shown
<1>. QED
  BY <1>1, <1>2, <1>3 DEF Shown

LEMMA OpenedStays ==
  ASSUME NEW a, NEW b, Settled(a), Later(a, b), NEW h, NEW u,
         h.next_batch \in Nat, h.next_batch <= Len(a.stream), Opened(a, h, u)
  PROVE  Opened(b, h, u)
BY TrackedStays, OwnTouchedStays, MemberStays, SlotsStay, FreshStays DEF Opened

LEMMA SyncStays ==
  ASSUME NEW V, NEW W, NEW c, NEW h, NEW u,
         \A r \in Rooms : Settled(V[r]) /\ Later(V[r], W[r]) /\ h.next_batch <= Len(V[r].stream),
         Scanned(h) => h.next_batch \in Nat, AtRoom(h) => h.room \in Rooms, SyncOk(V, c, h, u)
  PROVE  SyncOk(W, c, h, u)
<1>1. SUFFICES ASSUME Scanned(h) PROVE SyncOk(W, c, h, u)
  BY DEF SyncOk
<1>2. \A r \in Rooms : Shown(V[r], c.known[r], c.since, h, u) => Shown(W[r], c.known[r], c.since, h, u)
  BY <1>1, ShownStays
<1>3. AtRoom(h) => Opened(W[h.room], h, u)
  BY <1>1, OpenedStays DEF SyncOk
<1>. QED
  BY <1>1, <1>2, <1>3 DEF SyncOk

LEMMA ReadersWait ==
  ASSUME StreamType, ReadersInv, Grows, \A r \in Rooms : Settled(Views[r]), UNCHANGED reader
  PROVE  ReadersInv'
<1>. PICK V : V = Views
  OBVIOUS
<1>. PICK W : W = Views'
  OBVIOUS
<1>1. sync' = sync /\ client' = client
  BY DEF reader
<1>2. ASSUME NEW r \in Rooms
      PROVE  /\ Settled(V[r]) /\ Later(V[r], W[r]) /\ Len(V[r].stream) = Len(stream)
  BY ViewsLater, ViewFields
<1>3. Len(stream) \in Nat /\ DOMAIN stream = 1..Len(stream)
  BY SeqOfValues DEF StreamType
<1>4. /\ Len(stream') \in Nat /\ Len(stream) <= Len(stream')
      /\ \A i \in 1..Len(stream) : stream'[i] = stream[i]
  <2>1. CASE stream' = stream
    BY <1>3, <2>1
  <2>2. ASSUME NEW e, stream' = Append(stream, e)
        PROVE  /\ Len(stream') \in Nat /\ Len(stream) <= Len(stream')
               /\ \A i \in 1..Len(stream) : stream'[i] = stream[i]
    BY <1>3, <2>2, StreamAppended
  <2>. QED
    BY <2>1, <2>2 DEF Grows
<1>5. ASSUME NEW u \in Syncers
      PROVE  /\ ClientType(client[u], stream') /\ SyncType(client[u], sync[u], stream')
             /\ ClientOk(W, client[u], u) /\ SyncOk(W, client[u], sync[u], u)
  <2>. PICK c : c = client[u]
    OBVIOUS
  <2>. PICK h : h = sync[u]
    OBVIOUS
  <2>1. /\ ClientType(c, stream) /\ SyncType(c, h, stream)
        /\ ClientOk(V, c, u) /\ SyncOk(V, c, h, u)
    BY DEF ReadersInv
  <2>2. ClientType(c, stream')
    BY <1>3, <1>4, <2>1 DEF ClientType
  <2>3. SyncType(c, h, stream')
    <3>1. SUFFICES ASSUME h.pc # "idle" PROVE SyncType(c, h, stream')
      BY DEF SyncType
    <3>2. h.next_batch \in Nat /\ h.next_batch <= Len(stream')
      BY <1>3, <1>4, <2>1, <3>1 DEF SyncType
    <3>3. DeltaType(h, c.since, stream) => DeltaType(h, c.since, stream')
      <4>1. SUFFICES ASSUME c.since # None, DeltaType(h, c.since, stream) PROVE DeltaType(h, c.since, stream')
        BY DEF DeltaType
      <4>2. c.since \in Nat
        BY <2>1, <4>1 DEF ClientType
      <4>3. /\ Len(h.delta) \in Nat /\ DOMAIN h.delta = 1..Len(h.delta)
            /\ h.next_batch <= c.since + Len(h.delta) /\ c.since + Len(h.delta) <= Len(stream)
            /\ \A i \in 1..Len(h.delta) : h.delta[i] = stream[c.since + i]
        BY <4>1 DEF DeltaType
      <4>4. c.since + Len(h.delta) <= Len(stream')
        BY <1>3, <1>4, <4>2, <4>3
      <4>5. \A i \in 1..Len(h.delta) : c.since + i \in 1..Len(stream)
        BY <1>3, <4>2, <4>3
      <4>6. \A i \in 1..Len(h.delta) : h.delta[i] = stream'[c.since + i]
        BY <1>4, <4>3, <4>5
      <4>. QED
        BY <4>1, <4>3, <4>4, <4>6 DEF DeltaType
    <3>. QED
      BY <2>1, <3>1, <3>2, <3>3 DEF SyncType
  <2>4. ClientOk(W, c, u)
    BY <1>2, <2>1, ClientStays DEF ClientType
  <2>5. SyncOk(W, c, h, u)
    <3>1. CASE Scanned(h)
      <4>1. h.pc # "idle"
        BY <3>1 DEF Scanned
      <4>2. h.next_batch \in Nat /\ h.next_batch <= Len(stream) /\ (AtRoom(h) => h.room \in Rooms)
        BY <2>1, <4>1 DEF SyncType
      <4>. QED
        BY <1>2, <2>1, <4>2, SyncStays
    <3>2. CASE ~Scanned(h)
      BY <3>2 DEF SyncOk
    <3>. QED
      BY <3>1, <3>2
  <2>. QED
    BY <2>2, <2>3, <2>4, <2>5
<1>. QED
  BY <1>1, <1>5 DEF ReadersInv

-----------------------------------------------------------------------------
(* What an answer tells of a room.                                         *)

\* The last events of the slots, among the room's from s on to m.
Newest(a, s, m) ==
  {a.stream[i] : i \in {i \in Own(a) :
     /\ s < i /\ i <= m /\ is_state(a.stream[i])
     /\ \A j \in Own(a) : s < j /\ j <= m /\ SameSlot(a.stream[i], a.stream[j]) => j <= i}}

LEMMA MemberTracked ==
  ASSUME NEW a, Settled(a), NEW u, IsMember(a, u), NEW n \in Nat
  PROVE  Tracked(a, u, n)
<1>. PICK e \in a.state : Joins(e, u)
  BY DEF IsMember
<1>1. CASE e \in a.pending
  BY <1>1 DEF Tracked
<1>2. CASE e \notin a.pending
  <2>. PICK p \in Own(a) : a.stream[p] = e /\ \A j \in Own(a) : SameSlot(e, a.stream[j]) => j <= p
    BY <1>2 DEF Settled
  <2>1. ~LeftAfter(a.stream, a.room, u, p, n)
    <3>1. SUFFICES ASSUME NEW k \in DOMAIN a.stream, a.stream[k].room = a.room, p < k, Leaves(a.stream[k], u)
                   PROVE  FALSE
      BY DEF LeftAfter
    <3>2. k \in Own(a) /\ SameSlot(e, a.stream[k])
      BY <3>1 DEF Own, Places, Leaves, Joins, IsOwn, SameSlot
    <3>3. k <= p /\ k \in Nat /\ p \in Nat
      BY <3>2, OwnPlaces
    <3>. QED
      BY <3>1, <3>3
  <2>. QED
    BY <2>1 DEF Tracked
<1>. QED
  BY <1>1, <1>2

\* Whoever did not leave in between is tracked on.
LEMMA TrackedOn ==
  ASSUME NEW a, Settled(a), NEW u, NEW s \in Nat, NEW n \in Nat, Tracked(a, u, s),
         \A k \in Own(a) : s < k /\ k <= n => ~Leaves(a.stream[k], u)
  PROVE  Tracked(a, u, n)
<1>1. CASE \E f \in a.pending : Joins(f, u)
  BY <1>1 DEF Tracked
<1>2. CASE \E i \in Own(a) : Joins(a.stream[i], u) /\ ~LeftAfter(a.stream, a.room, u, i, s)
  <2>. PICK i \in Own(a) : Joins(a.stream[i], u) /\ ~LeftAfter(a.stream, a.room, u, i, s)
    BY <1>2
  <2>1. SUFFICES ASSUME NEW k \in DOMAIN a.stream, a.stream[k].room = a.room, i < k, k <= n, Leaves(a.stream[k], u)
                 PROVE  FALSE
    BY DEF LeftAfter, Tracked
  <2>2. k \in Own(a)
    BY <2>1 DEF Own, Places
  <2>3. k \in Nat
    BY <2>2, OwnPlaces
  <2>4. k <= s
    BY <2>1, <2>2, <2>3
  <2>. QED
    BY <2>1, <2>4 DEF LeftAfter
<1>. QED
  BY <1>1, <1>2 DEF Tracked

\* A room without news is known as of later.
LEMMA KnowsOn ==
  ASSUME NEW a, Settled(a), NEW known, NEW u, NEW s \in Nat, NEW n \in Nat, Knows(a, known, u, s),
         \A k \in Own(a) : ~(s < k)
  PROVE  Knows(a, known, u, n)
<1>1. known # {} => Tracked(a, u, n)
  BY TrackedOn DEF Knows
<1>2. \A e : Touched(a, e, s) => Touched(a, e, n)
  BY OwnPlaces DEF Touched
<1>3. OwnTouched(a, u, s) => OwnTouched(a, u, n)
  BY OwnPlaces DEF OwnTouched
<1>4. Fresh(a, known, s) => Fresh(a, known, n)
  BY <1>2 DEF Fresh
<1>. QED
  BY <1>1, <1>3, <1>4 DEF Knows

\* Nothing is to be known of a room the user is not in.
LEMMA KnowsNothing ==
  ASSUME NEW a, NEW u, ~IsMember(a, u), NEW n
  PROVE  Knows(a, {}, u, n)
BY DEF Knows, Slots

\* A user who is not joined, was known to be and has not left since, is being
\* written about: whoever was joined departs by leaving.
LEMMA KnowsStill ==
  ASSUME NEW a, Settled(a), NEW u \in Users, ~IsMember(a, u), NEW s \in Nat, NEW n \in Nat, NEW known,
         Knows(a, known, u, s), \A k \in Own(a) : s < k /\ k <= n => ~Leaves(a.stream[k], u)
  PROVE  Knows(a, known, u, n)
<1>1. known # {} => Tracked(a, u, n)
  BY TrackedOn DEF Knows
<1>2. ASSUME known # {}, ~OwnTouched(a, u, n) PROVE FALSE
  <2>1. ~\E f \in a.pending : Joins(f, u)
    BY <1>2 DEF OwnTouched, Joins
  <2>. PICK i \in Own(a) : Joins(a.stream[i], u) /\ ~LeftAfter(a.stream, a.room, u, i, n)
    BY <1>1, <1>2, <2>1 DEF Tracked
  <2>2. u # None
    BY RoomsAssumption
  <2>3. PICK e \in a.state : SameSlot(a.stream[i], e)
    BY <2>2 DEF Settled, is_state, Joins, IsOwn
  <2>4. IsOwn(e, u) /\ ~Joins(e, u)
    BY <2>3 DEF SameSlot, Joins, IsOwn, IsMember
  <2>5. e \notin a.pending
    BY <1>2, <2>4 DEF OwnTouched
  <2>6. PICK p \in Own(a) : a.stream[p] = e /\ \A j \in Own(a) : SameSlot(e, a.stream[j]) => j <= p
    BY <2>5 DEF Settled
  <2>7. i <= p /\ i # p /\ i \in Nat /\ p \in Nat /\ p <= n
    <3>1. i \in Nat /\ p \in Nat
      BY OwnPlaces
    <3>2. i <= p /\ i # p
      BY <2>3, <2>4, <2>6, SlotSymmetric
    <3>3. ~(p > n)
      BY <1>2, <2>4, <2>6 DEF OwnTouched
    <3>. QED
      BY <3>1, <3>2, <3>3
  <2>8. LeftAfter(a.stream, a.room, u, i, p)
    BY <2>4, <2>6, <2>7 DEF Settled
  <2>9. PICK k \in DOMAIN a.stream : a.stream[k].room = a.room /\ i < k /\ k <= p /\ Leaves(a.stream[k], u)
    BY <2>8 DEF LeftAfter
  <2>10. k \in Own(a) /\ k \in Nat
    BY <2>9, OwnPlaces DEF Own, Places
  <2>11. k <= n
    BY <2>7, <2>9, <2>10
  <2>. QED
    BY <2>9, <2>11 DEF LeftAfter
<1>. QED
  BY <1>1, <1>2 DEF Knows

LEMMA OverSlots ==
  ASSUME NEW a, NEW known, NEW more, Slots(a, known), Slots(a, more)
  PROVE  Slots(a, Over(known, more))
BY DEF Slots, Over

\* What is told, if right where it was not written since, leaves it so.
LEMMA OverFresh ==
  ASSUME NEW a, NEW known, NEW more, NEW n, Fresh(a, known, n),
         \A f \in more : Touched(a, f, n) \/ f \in a.state
  PROVE  Fresh(a, Over(known, more), n)
<1>1. ASSUME NEW e \in Over(known, more) PROVE Touched(a, e, n) \/ e \in a.state
  BY DEF Over, Fresh
<1>2. ASSUME NEW e \in a.state, ~Touched(a, e, n) PROVE \E f \in Over(known, more) : SameSlot(e, f)
  <2>. PICK f \in known : SameSlot(e, f)
    BY <1>2 DEF Fresh
  <2>1. CASE f \in Over(known, more)
    BY <2>1
  <2>2. CASE f \notin Over(known, more)
    <3>. PICK g \in more : SameSlot(f, g)
      BY <2>2 DEF Over
    <3>1. g \in Over(known, more) /\ SameSlot(e, g)
      BY SlotTransitive DEF Over
    <3>. QED
      BY <3>1
  <2>. QED
    BY <2>1, <2>2
<1>. QED
  BY <1>1, <1>2 DEF Fresh

\* The newest events of a room are in slots of its state, and are what it holds
\* unless they were written since.
LEMMA NewestSlots ==
  ASSUME NEW a, Settled(a), NEW s, NEW m
  PROVE  Slots(a, Newest(a, s, m))
BY DEF Settled, Slots, Newest

LEMMA NewestFresh ==
  ASSUME NEW a, Settled(a), NEW s \in Nat, NEW m \in Nat, NEW n \in Nat, n <= m,
         NEW f \in Newest(a, s, m), ~Touched(a, f, n)
  PROVE  f \in a.state
<1>. PICK i \in Own(a) :
       /\ f = a.stream[i] /\ s < i /\ i <= m /\ is_state(f)
       /\ \A j \in Own(a) : s < j /\ j <= m /\ SameSlot(f, a.stream[j]) => j <= i
  BY DEF Newest
<1>1. PICK e \in a.state : SameSlot(f, e)
  BY DEF Settled
<1>2. e \notin a.pending
  BY <1>1 DEF Touched
<1>3. PICK p \in Own(a) : a.stream[p] = e /\ \A j \in Own(a) : SameSlot(e, a.stream[j]) => j <= p
  BY <1>2 DEF Settled
<1>4. i \in Nat /\ p \in Nat
  BY OwnPlaces
<1>5. i <= p
  BY <1>1, <1>3, SlotSymmetric
<1>6. ~(p > n)
  BY <1>1, <1>3 DEF Touched
<1>7. p <= i
  BY <1>1, <1>3, <1>4, <1>5, <1>6
<1>8. p = i
  BY <1>4, <1>5, <1>7
<1>. QED
  BY <1>3, <1>8

\* Each slot written in the stretch is among them.
LEMMA NewestCovers ==
  ASSUME NEW a, Settled(a), NEW s \in Nat, NEW m \in Nat,
         NEW i \in Own(a), s < i, i <= m, is_state(a.stream[i])
  PROVE  \E f \in Newest(a, s, m) : SameSlot(a.stream[i], f)
<1>. DEFINE S == {j \in Own(a) : s < j /\ j <= m /\ SameSlot(a.stream[i], a.stream[j])}
<1>1. S \subseteq 1..Len(a.stream) /\ Len(a.stream) \in Nat
  BY OwnPlaces
<1>2. i \in S
  BY DEF SameSlot
<1>3. PICK p \in S : \A k \in S : k <= p
  BY <1>1, <1>2, LastPlace
<1>4. is_state(a.stream[p])
  BY <1>3 DEF SameSlot, is_state
<1>5. \A j \in Own(a) : s < j /\ j <= m /\ SameSlot(a.stream[p], a.stream[j]) => j <= p
  BY <1>3, SlotTransitive
<1>6. a.stream[p] \in Newest(a, s, m)
  BY <1>3, <1>4, <1>5 DEF Newest
<1>. QED
  BY <1>3, <1>6

\* A slot that was written after s, and not after n, was written in between.
LEMMA TouchedBetween ==
  ASSUME NEW a, Settled(a), NEW s \in Nat, NEW m \in Nat, NEW n \in Nat, n <= m,
         NEW e, is_state(e), Touched(a, e, s), ~Touched(a, e, n)
  PROVE  \E f \in Newest(a, s, m) : SameSlot(e, f)
<1>. PICK i \in Own(a) : i > s /\ SameSlot(e, a.stream[i])
  BY DEF Touched
<1>1. i \in Nat /\ ~(i > n)
  BY OwnPlaces DEF Touched
<1>2. s < i /\ i <= m
  BY <1>1
<1>3. is_state(a.stream[i])
  BY DEF SameSlot, is_state
<1>. QED
  BY <1>2, <1>3, NewestCovers, SlotTransitive

\* A member who did not join in the stretch was not written about in it.
LEMMA MemberThrough ==
  ASSUME NEW a, Settled(a), NEW u, IsMember(a, u), NEW s \in Nat, NEW m \in Nat, NEW n \in Nat, n <= m,
         \A k \in Own(a) : s < k /\ k <= m => ~Joins(a.stream[k], u), OwnTouched(a, u, s)
  PROVE  OwnTouched(a, u, n)
<1>. SUFFICES ASSUME ~OwnTouched(a, u, n) PROVE FALSE
  OBVIOUS
<1>1. \A f \in a.pending : ~IsOwn(f, u)
  BY DEF OwnTouched
<1>. PICK i \in Own(a) : i > s /\ IsOwn(a.stream[i], u)
  BY <1>1 DEF OwnTouched
<1>. PICK e \in a.state : Joins(e, u)
  BY DEF IsMember
<1>2. e \notin a.pending
  BY <1>1 DEF Joins
<1>3. PICK p \in Own(a) : a.stream[p] = e /\ \A j \in Own(a) : SameSlot(e, a.stream[j]) => j <= p
  BY <1>2 DEF Settled
<1>4. i <= p
  BY <1>3 DEF Joins, IsOwn, SameSlot
<1>5. ~(p > n)
  BY <1>3 DEF OwnTouched, Joins
<1>6. i \in Nat /\ p \in Nat
  BY OwnPlaces
<1>7. s < p /\ p <= m
  BY <1>4, <1>5, <1>6
<1>. QED
  BY <1>3, <1>7

\* The room's news bring what is known of it up to date.
LEMMA KnowsNews ==
  ASSUME NEW a, Settled(a), NEW u, IsMember(a, u), NEW s \in Nat, NEW m \in Nat, NEW n \in Nat, n <= m,
         NEW known, Knows(a, known, u, s),
         \A k \in Own(a) : s < k /\ k <= m => ~Joins(a.stream[k], u)
  PROVE  Knows(a, Over(Over(known, Newest(a, s, m)), Newest(a, s, m)), u, n)
<1>. DEFINE N == Newest(a, s, m)
            K == Over(Over(known, N), N)
<1>1. Slots(a, K)
  <2>1. Slots(a, N) /\ Slots(a, known)
    BY NewestSlots DEF Knows
  <2>. HIDE DEF N
  <2>. QED
    BY <2>1, OverSlots
<1>2. Tracked(a, u, n)
  BY MemberTracked
<1>3. ASSUME ~OwnTouched(a, u, n) PROVE Fresh(a, K, n)
  <2>1. Fresh(a, known, s)
    BY <1>3, MemberThrough DEF Knows
  <2>2. \A f \in N : Touched(a, f, n) \/ f \in a.state
    BY NewestFresh
  <2>3. \A e : is_state(e) /\ Touched(a, e, s) /\ ~Touched(a, e, n) => \E f \in N : SameSlot(e, f)
    BY TouchedBetween
  <2>4. \A e \in known : is_state(e)
    BY DEF Knows, Slots
  <2>5. \A e \in a.state : is_state(e)
    BY DEF Settled
  <2>. HIDE DEF N
  <2>6. ASSUME NEW e \in Over(known, N) PROVE Touched(a, e, n) \/ e \in a.state
    BY <2>1, <2>2, <2>3, <2>4 DEF Over, Fresh
  <2>7. ASSUME NEW e \in a.state, ~Touched(a, e, n) PROVE \E f \in Over(known, N) : SameSlot(e, f)
    <3>1. CASE \E f \in N : SameSlot(e, f)
      BY <3>1 DEF Over
    <3>2. CASE ~\E f \in N : SameSlot(e, f)
      <4>1. PICK f \in known : SameSlot(e, f)
        BY <2>1, <2>3, <2>5, <2>7, <3>2 DEF Fresh
      <4>2. \A g \in N : ~SameSlot(f, g)
        BY <3>2, <4>1, SlotTransitive
      <4>. QED
        BY <4>1, <4>2 DEF Over
    <3>. QED
      BY <3>1, <3>2
  <2>8. Fresh(a, Over(known, N), n)
    BY <2>6, <2>7 DEF Fresh
  <2>. QED
    BY <2>2, <2>8, OverFresh
<1>4. Knows(a, K, u, n)
  <2>. HIDE DEF K
  <2>. QED
    BY <1>1, <1>2, <1>3 DEF Knows
<1>. QED
  BY <1>4

\* The room's state, and its news over it, tell the user all there is.
LEMMA KnowsState ==
  ASSUME NEW a, Settled(a), NEW u, NEW s \in Nat, NEW m \in Nat, NEW n \in Nat, n <= m,
         Tracked(a, u, n), OwnTouched(a, u, n) \/ IsMember(a, u), NEW known, Slots(a, known)
  PROVE  Knows(a, Over(Over(known, a.state), Newest(a, s, m)), u, n)
<1>. DEFINE N == Newest(a, s, m)
            K == Over(Over(known, a.state), N)
<1>0. \A e \in a.state : is_state(e)
  BY DEF Settled
<1>1. Slots(a, K)
  <2>1. Slots(a, N)
    BY NewestSlots
  <2>2. Slots(a, a.state)
    BY <1>0 DEF Slots, SameSlot
  <2>. HIDE DEF N
  <2>. QED
    BY <2>1, <2>2, OverSlots
<1>2. Fresh(a, Over(known, a.state), n)
  <2>1. ASSUME NEW e \in Over(known, a.state) PROVE Touched(a, e, n) \/ e \in a.state
    BY DEF Over, Slots, Touched
  <2>2. \A e \in a.state : e \in Over(known, a.state) /\ SameSlot(e, e)
    BY DEF Over, SameSlot
  <2>. QED
    BY <2>1, <2>2 DEF Fresh
<1>3. Fresh(a, K, n)
  <2>1. \A f \in N : Touched(a, f, n) \/ f \in a.state
    BY NewestFresh
  <2>. HIDE DEF N
  <2>. QED
    BY <1>2, <2>1, OverFresh
<1>4. Knows(a, K, u, n)
  <2>. HIDE DEF K
  <2>. QED
    BY <1>1, <1>3 DEF Knows
<1>. QED
  BY <1>4

\* A room shown for the first time: its state, and the timeline read after it.
LEMMA KnowsAll ==
  ASSUME NEW a, Settled(a), NEW u, NEW n, Tracked(a, u, n), OwnTouched(a, u, n) \/ IsMember(a, u),
         NEW state, Slots(a, state), Fresh(a, state, n),
         NEW more, \A e \in more : is_state(e) /\ (e \in a.state \/ e \in a.pending)
  PROVE  Knows(a, Over(Over({}, state), more), u, n)
<1>1. Over({}, state) = state
  BY DEF Over
<1>2. Slots(a, more)
  BY DEF Slots, SameSlot
<1>3. \A e \in more : Touched(a, e, n) \/ e \in a.state
  BY DEF Touched, SameSlot
<1>4. Slots(a, Over(state, more)) /\ Fresh(a, Over(state, more), n)
  BY <1>2, <1>3, OverSlots, OverFresh
<1>. QED
  BY <1>1, <1>4 DEF Knows

\* Whoever the room's events are due to is its member.
LEMMA DueMember ==
  ASSUME NEW a, Settled(a), NEW u \in Users, NEW j, Due(a, u, j)
  PROVE  IsMember(a, u)
<1>. PICK i \in Own(a) : /\ IsOwn(a.stream[i], u)
                         /\ \A k \in Own(a) : i <= k /\ IsOwn(a.stream[k], u) => Joins(a.stream[k], u)
  BY DEF Due
<1>1. is_state(a.stream[i])
  <2>1. u # None
    BY RoomsAssumption
  <2>. QED
    BY <2>1 DEF IsOwn, is_state
<1>2. PICK e \in a.state : SameSlot(a.stream[i], e)
  BY <1>1 DEF Settled
<1>3. IsOwn(e, u)
  BY <1>2 DEF SameSlot, IsOwn
<1>4. CASE e \in a.pending
  BY <1>3, <1>4 DEF Due, IsMember
<1>5. CASE e \notin a.pending
  <2>. PICK p \in Own(a) : a.stream[p] = e /\ \A k \in Own(a) : SameSlot(e, a.stream[k]) => k <= p
    BY <1>5 DEF Settled
  <2>1. i <= p
    BY <1>2, SlotSymmetric
  <2>. QED
    BY <1>3, <2>1 DEF IsMember
<1>. QED
  BY <1>4, <1>5

-----------------------------------------------------------------------------
(* What a sync reads.                                                      *)

\* The delta is a stretch of the stream from s.
Stretch(delta, a, s) ==
  /\ Len(delta) \in Nat /\ DOMAIN delta = 1..Len(delta) /\ s + Len(delta) <= Len(a.stream)
  /\ \A i \in 1..Len(delta) : delta[i] = a.stream[s + i]

\* The room's events in the delta are its events in that stretch.
LEMMA DeltaPlaces ==
  ASSUME NEW a, Settled(a), NEW delta, NEW s \in Nat, Stretch(delta, a, s)
  PROVE  /\ \A i \in DeltaOf(delta, a.room) :
              /\ i \in 1..Len(delta) /\ s + i \in Own(a) /\ s < s + i /\ s + i <= s + Len(delta)
              /\ delta[i] = a.stream[s + i]
         /\ \A k \in Own(a) : s < k /\ k <= s + Len(delta) =>
              k - s \in DeltaOf(delta, a.room) /\ delta[k - s] = a.stream[k] /\ k - s \in Nat
<1>1. Len(delta) \in Nat /\ DOMAIN delta = 1..Len(delta) /\ s + Len(delta) <= Len(a.stream)
      /\ Len(a.stream) \in Nat /\ DOMAIN a.stream = 1..Len(a.stream)
  BY DEF Stretch, Settled
<1>2. ASSUME NEW i \in DeltaOf(delta, a.room)
      PROVE  /\ i \in 1..Len(delta) /\ s + i \in Own(a) /\ s < s + i /\ s + i <= s + Len(delta)
             /\ delta[i] = a.stream[s + i]
  <2>1. i \in 1..Len(delta) /\ delta[i].room = a.room
    BY <1>1 DEF DeltaOf
  <2>2. delta[i] = a.stream[s + i]
    BY <2>1 DEF Stretch
  <2>3. s + i \in 1..Len(a.stream) /\ s < s + i /\ s + i <= s + Len(delta)
    BY <1>1, <2>1
  <2>. QED
    BY <1>1, <2>1, <2>2, <2>3 DEF Own, Places
<1>3. ASSUME NEW k \in Own(a), s < k, k <= s + Len(delta)
      PROVE  k - s \in DeltaOf(delta, a.room) /\ delta[k - s] = a.stream[k] /\ k - s \in Nat
  <2>1. k \in Nat /\ a.stream[k].room = a.room
    BY OwnPlaces
  <2>2. k - s \in 1..Len(delta) /\ s + (k - s) = k /\ k - s \in Nat
    BY <1>1, <1>3, <2>1
  <2>3. delta[k - s] = a.stream[k]
    BY <2>2 DEF Stretch
  <2>. QED
    BY <1>1, <2>1, <2>2, <2>3 DEF DeltaOf
<1>. QED
  BY <1>2, <1>3

LEMMA DeltaMemberships ==
  ASSUME NEW a, Settled(a), NEW delta, NEW s \in Nat, Stretch(delta, a, s), NEW u
  PROVE  LET at    == DeltaOf(delta, a.room)
             in(k) == k \in Own(a) /\ s < k /\ k <= s + Len(delta)
         IN  /\ joined_in_delta(delta, at, u) <=> \E k \in Own(a) : in(k) /\ Joins(a.stream[k], u)
             /\ left_in_delta(delta, at, u) <=> \E k \in Own(a) : in(k) /\ Leaves(a.stream[k], u)
             /\ \A k \in Own(a) : in(k) => a.stream[k] \in Listed(delta, at)
<1>. DEFINE at    == DeltaOf(delta, a.room)
            in(k) == k \in Own(a) /\ s < k /\ k <= s + Len(delta)
<1>1. \A i \in at : in(s + i) /\ delta[i] = a.stream[s + i]
  BY DeltaPlaces
<1>2. \A k \in Own(a) : in(k) => k - s \in at /\ delta[k - s] = a.stream[k]
  BY DeltaPlaces
<1>3. \A ms : OwnMembership(delta, at, u, ms)
         <=> \E k \in Own(a) : in(k) /\ IsOwn(a.stream[k], u) /\ a.stream[k].content.membership \in ms
  <2>1. ASSUME NEW ms, NEW i \in at, delta[i].kind = "member", delta[i].state_key = u, delta[i].content.membership \in ms
        PROVE  \E k \in Own(a) : in(k) /\ IsOwn(a.stream[k], u) /\ a.stream[k].content.membership \in ms
    <3>1. in(s + i) /\ delta[i] = a.stream[s + i]
      BY <1>1
    <3>. QED
      BY <2>1, <3>1 DEF IsOwn
  <2>2. ASSUME NEW ms, NEW k \in Own(a), in(k), IsOwn(a.stream[k], u), a.stream[k].content.membership \in ms
        PROVE  OwnMembership(delta, at, u, ms)
    <3>1. k - s \in at /\ delta[k - s] = a.stream[k]
      BY <1>2, <2>2
    <3>. QED
      BY <2>2, <3>1 DEF OwnMembership, IsOwn
  <2>. QED
    BY <2>1, <2>2 DEF OwnMembership
<1>4. \A k \in Own(a) : in(k) => a.stream[k] \in Listed(delta, at)
  <2>. SUFFICES ASSUME NEW k \in Own(a), in(k) PROVE a.stream[k] \in Listed(delta, at)
    OBVIOUS
  <2>1. k - s \in at /\ delta[k - s] = a.stream[k]
    BY <1>2
  <2>. QED
    BY <2>1 DEF Listed
<1>5. joined_in_delta(delta, at, u) <=> \E k \in Own(a) : in(k) /\ Joins(a.stream[k], u)
  BY <1>3 DEF joined_in_delta, Joins
<1>6. left_in_delta(delta, at, u) <=> \E k \in Own(a) : in(k) /\ Leaves(a.stream[k], u)
  BY <1>3 DEF left_in_delta, Leaves
<1>. QED
  BY <1>4, <1>5, <1>6

LEMMA DeltaNewest ==
  ASSUME NEW a, Settled(a), NEW delta, NEW s \in Nat, Stretch(delta, a, s)
  PROVE  LastPerSlot(delta, DeltaOf(delta, a.room)) = Newest(a, s, s + Len(delta))
<1>. DEFINE at == DeltaOf(delta, a.room)
            in(k) == k \in Own(a) /\ s < k /\ k <= s + Len(delta)
<1>1. \A i \in at : in(s + i) /\ delta[i] = a.stream[s + i] /\ i \in Nat
  BY DeltaPlaces
<1>2. \A k \in Own(a) : in(k) => k - s \in at /\ delta[k - s] = a.stream[k]
  BY DeltaPlaces
<1>3. \A k \in Own(a) : k \in Nat
  BY OwnPlaces
<1>. HIDE DEF at
<1>4. ASSUME NEW i \in at, is_state(delta[i]), \A j \in at : SameSlot(delta[i], delta[j]) => j <= i
      PROVE  delta[i] \in Newest(a, s, s + Len(delta))
  <2>1. in(s + i) /\ delta[i] = a.stream[s + i] /\ i \in Nat
    BY <1>1
  <2>2. ASSUME NEW j \in Own(a), in(j), SameSlot(a.stream[s + i], a.stream[j]) PROVE j <= s + i
    <3>1. j - s \in at /\ delta[j - s] = a.stream[j] /\ j \in Nat
      BY <1>2, <1>3, <2>2
    <3>2. j - s <= i
      BY <1>4, <2>1, <2>2, <3>1
    <3>. QED
      BY <2>1, <3>1, <3>2
  <2>. QED
    BY <1>4, <2>1, <2>2 DEF Newest
<1>5. ASSUME NEW k \in Own(a), in(k), is_state(a.stream[k]),
             \A j \in Own(a) : in(j) /\ SameSlot(a.stream[k], a.stream[j]) => j <= k
      PROVE  a.stream[k] \in LastPerSlot(delta, at)
  <2>1. k - s \in at /\ delta[k - s] = a.stream[k] /\ k \in Nat
    BY <1>2, <1>3, <1>5
  <2>2. ASSUME NEW j \in at, SameSlot(delta[k - s], delta[j]) PROVE j <= k - s
    <3>1. in(s + j) /\ delta[j] = a.stream[s + j] /\ j \in Nat
      BY <1>1
    <3>2. s + j <= k
      BY <1>5, <2>1, <2>2, <3>1
    <3>. QED
      BY <2>1, <3>1, <3>2
  <2>. QED
    BY <1>5, <2>1, <2>2 DEF LastPerSlot
<1>6. LastPerSlot(delta, at) \subseteq Newest(a, s, s + Len(delta))
  BY <1>4 DEF LastPerSlot
<1>7. Newest(a, s, s + Len(delta)) \subseteq LastPerSlot(delta, at)
  BY <1>5 DEF Newest
<1>. QED
  BY <1>6, <1>7 DEF at

\* The lock of a room is free, or held by a worker.
LocksKnown == \A r \in Rooms : lock[r] \in Workers \cup {None}

\* The latest events of a timeline are in the state, or about to be put there.
LEMMA LatestKnown ==
  ASSUME TypeInv, OnlyWriters, SerialInv, LocksKnown, NEW r \in Rooms, NEW e \in LatestPerSlot(timeline[r])
  PROVE  is_state(e) /\ (e \in room_state[r] \/ e \in Pending(r))
<1>1. is_state(e)
  BY DEF LatestPerSlot
<1>2. CASE room_state[r] = LatestPerSlot(timeline[r])
  BY <1>1, <1>2
<1>3. CASE lock[r] = None
  BY <1>1, <1>3 DEF SerialInv, StateIsReplay
<1>4. CASE lock[r] \in Workers
  <2>. PICK w \in Workers : lock[r] = w
    BY <1>4
  <2>1. job[w].pc \notin {"idle", "lock"} /\ job[w].req.room = r
    BY DEF TypeInv, LocksType, Holding
  <2>2. Writing(job[w], timeline[r], room_state[r])
    BY <2>1 DEF SerialInv, Writers
  <2>3. job[w].pc \in {"auth", "event", "state", "count", "stream", "record"}
    BY <2>1, HandlerUnderWay, WritersRoom DEF TypeInv, Handler, Pcs
  <2>4. CASE job[w].pc = "state"
    <3>1. room_state[r] = LatestPerSlot(timeline[r] \ {Current(w)})
      BY <2>2, <2>4 DEF Writing, Current
    <3>2. Current(w) \in Pending(r)
      BY <2>1, <2>4 DEF Pending, Underway
    <3>3. CASE e # Current(w)
      BY <1>1, <3>1, <3>3 DEF LatestPerSlot
    <3>. QED
      BY <1>1, <3>2, <3>3
  <2>5. CASE job[w].pc # "state"
    BY <1>2, <2>2, <2>3, <2>5 DEF Writing
  <2>. QED
    BY <2>4, <2>5
<1>. QED
  BY <1>3, <1>4 DEF LocksKnown

LEMMA LocksKnownStep == ASSUME LocksKnown, [Next]_vars PROVE LocksKnown'
<1>1. ASSUME NEW w \in Workers, Leave(w) PROVE LocksKnown'
  BY <1>1 DEF Leave, LocksKnown
<1>2. ASSUME UNCHANGED lock PROVE LocksKnown'
  BY <1>2 DEF LocksKnown
<1>3. ASSUME NEW w \in Workers, Writer(w) PROVE LocksKnown'
  <2>1. CASE TakeLock(w)
    <3>1. PICK r : lock' = [lock EXCEPT ![r] = w]
      BY <2>1 DEF TakeLock, TakesLock
    <3>. QED
      BY <3>1 DEF LocksKnown
  <2>2. CASE Authorize(w)
    BY <1>1, <1>2, <2>2 DEF Authorize, Refused, MovesOn, Goto
  <2>3. CASE Fetch(w) \/ PutEvent(w) \/ PutState(w) \/ CountStream(w)
    BY <1>2, <2>3 DEF Fetch, PutEvent, PutState, CountStream, Goto
  <2>4. CASE PutStream(w)
    BY <1>1, <1>2, <2>4 DEF PutStream, MovesOn, Goto
  <2>5. CASE RecordTxn(w)
    BY <1>1, <2>5 DEF RecordTxn
  <2>6. ASSUME NEW req \in Requests,
               StartSend(w, req) \/ StartMembership(w, req) \/ StartReceive(w, req) \/ StartCreate(w, req)
        PROVE  LocksKnown'
    BY <1>2, <2>6 DEF StartSend, StartMembership, StartReceive, StartCreate
  <2>. QED
    BY <1>3, <2>1, <2>2, <2>3, <2>4, <2>5, <2>6 DEF Writer
<1>4. ASSUME NEW u \in Syncers, Reader(u) PROVE LocksKnown'
  BY <1>2, <1>4, ReaderWritesNothing DEF server
<1>5. CASE Crash
  BY <1>5 DEF Crash, LocksKnown
<1>6. CASE UNCHANGED vars
  BY <1>2, <1>6 DEF vars, server
<1>. QED
  BY <1>3, <1>4, <1>5, <1>6 DEF Next, Finished

LEMMA LocksKnownHolds == Spec => []LocksKnown
<1>1. Init => LocksKnown
  BY DEF Init, LocksKnown
<1>. QED
  BY <1>1, LocksKnownStep, PTL DEF Spec

-----------------------------------------------------------------------------
(* The steps of a reader.                                                  *)

LEMMA ViewsSame ==
  ASSUME UNCHANGED <<store, server>>
  PROVE  Views' = Views /\ stream' = stream
<1>1. stream' = stream /\ room_state' = room_state /\ job' = job
  BY DEF store, server
<1>2. \A r \in Rooms : Pending(r)' = Pending(r)
  BY <1>1 DEF Pending, Underway, Current
<1>3. \A r \in Rooms : View(r)' = View(r)
  BY <1>1, <1>2 DEF View
<1>. QED
  BY <1>1, <1>3 DEF Views

\* One client syncs at a time, and what it reads stays.
LEMMA OneReads ==
  ASSUME ReadersInv, UNCHANGED <<store, server>>, NEW u \in Syncers,
         DOMAIN sync' = Syncers, DOMAIN client' = Syncers,
         \A v \in Syncers \ {u} : sync'[v] = sync[v] /\ client'[v] = client[v],
         NEW c, NEW h, client'[u] = c, sync'[u] = h,
         ClientType(c, stream), SyncType(c, h, stream), ClientOk(Views, c, u), SyncOk(Views, c, h, u)
  PROVE  ReadersInv'
<1>. PICK V : V = Views
  OBVIOUS
<1>1. Views' = V /\ stream' = stream
  BY ViewsSame
<1>2. ASSUME NEW v \in Syncers
      PROVE  /\ ClientType(client'[v], stream) /\ SyncType(client'[v], sync'[v], stream)
             /\ ClientOk(V, client'[v], v) /\ SyncOk(V, client'[v], sync'[v], v)
  BY DEF ReadersInv
<1>. QED
  BY <1>1, <1>2 DEF ReadersInv

\* A sync starts: nothing is read yet but the length of the stream.
LEMMA SyncStarts ==
  ASSUME TypeInv, ReadersInv, NEW u \in Syncers, SyncStart(u)
  PROVE  ReadersInv'
<1>. PICK c : c = client[u]
  OBVIOUS
<1>. PICK h : h = [pc |-> "scan", next_batch |-> Len(stream), delta |-> <<>>, todo |-> {},
                   room |-> None, state |-> {}, joined |-> {}, left |-> {}]
  OBVIOUS
<1>1. sync' = [sync EXCEPT ![u] = h] /\ client' = client /\ UNCHANGED <<store, server>>
  BY DEF SyncStart
<1>2. DOMAIN sync' = Syncers /\ sync'[u] = h /\ client'[u] = c /\ \A v \in Syncers \ {u} : sync'[v] = sync[v]
  BY <1>1 DEF ReadersInv
<1>3. ClientType(c, stream) /\ ClientOk(Views, c, u)
  BY DEF ReadersInv
<1>4. Len(stream) \in Nat
  BY SeqOfValues DEF TypeInv, StreamType
<1>5. SyncType(c, h, stream)
  BY <1>3, <1>4 DEF SyncType, ClientType, Scanned, AtRoom
<1>6. SyncOk(Views, c, h, u)
  BY DEF SyncOk, Scanned
<1>7. DOMAIN client' = Syncers
  BY <1>1 DEF ReadersInv
<1>. QED
  BY <1>1, <1>2, <1>3, <1>5, <1>6, <1>7, OneReads

\* A room with nothing written since the token, or ever, is shown as it is.
LEMMA NothingSince ==
  ASSUME NEW a, Settled(a), NEW u, NEW c, NEW h, h.next_batch \in Nat,
         h.joined = {}, h.left = {},
         IF c.since = None THEN c.known[a.room] = {} /\ Own(a) = {} /\ a.state = {}
         ELSE /\ c.since \in Nat /\ Knows(a, c.known[a.room], u, c.since)
              /\ \A k \in Own(a) : ~(c.since < k)
  PROVE  Shown(a, c.known[a.room], c.since, h, u)
<1>1. Knows(a, c.known[a.room], u, h.next_batch)
  <2>1. CASE c.since = None
    BY <2>1, KnowsNothing DEF IsMember
  <2>2. CASE c.since # None
    BY <2>2, KnowsOn
  <2>. QED
    BY <2>1, <2>2
<1>2. ASSUME NEW i \in Own(a), c.since = None \/ i > c.since PROVE FALSE
  BY <1>2, OwnPlaces
<1>. QED
  BY <1>1, <1>2 DEF Shown

\* The stream is cut at the token.
LEMMA SinceIsStretch ==
  ASSUME StreamType, NEW since \in Nat, since <= Len(stream)
  PROVE  /\ Len(events_since(since)) = Len(stream) - since
         /\ DOMAIN events_since(since) = 1..(Len(stream) - since)
         /\ \A i \in 1..(Len(stream) - since) : events_since(since)[i] = stream[since + i]
<1>1. Len(stream) \in Nat /\ DOMAIN stream = 1..Len(stream)
  BY SeqOfValues DEF StreamType
<1>. DEFINE S == Range(stream)
            m == since + 1
            n == Len(stream)
            d == SubSeq(stream, m, n)
<1>2. m \in Int /\ n \in Int /\ \A i \in m..n : stream[i] \in S
  BY <1>1 DEF Range
<1>. HIDE DEF m, n, S
<1>3. /\ d \in Seq(S) /\ Len(d) = IF m <= n THEN n - m + 1 ELSE 0
      /\ \A i \in 1..(n - m + 1) : d[i] = stream[m + i - 1]
  BY <1>2, SubSeqProperties
<1>4. Len(d) = Len(stream) - since
  BY <1>1, <1>3 DEF m, n
<1>5. DOMAIN d = 1..Len(d)
  BY <1>3
<1>6. \A i \in 1..(Len(stream) - since) : d[i] = stream[since + i]
  <2>. SUFFICES ASSUME NEW i \in 1..(Len(stream) - since) PROVE d[i] = stream[since + i]
    OBVIOUS
  <2>1. i \in 1..(n - m + 1) /\ m + i - 1 = since + i
    BY <1>1 DEF m, n
  <2>. QED
    BY <1>3, <2>1
<1>. QED
  BY <1>4, <1>5, <1>6 DEF events_since, m, n

\* A room's places in the stream are of events its timeline has.
LEMMA PlaceInTimeline ==
  ASSUME TypeInv, NEW r \in Rooms, NEW i \in Own(Views[r])
  PROVE  i \in DOMAIN stream /\ stream[i].room = r /\ stream[i] \in timeline[r]
<1>1. i \in DOMAIN stream /\ stream[i].room = r
  BY ViewFields DEF Own, Places
<1>2. PICK q \in Rooms : stream[i] \in timeline[q]
  BY <1>1 DEF TypeInv, StreamType
<1>3. stream[i].room = q
  BY <1>2 DEF TypeInv, EventsType, Fits
<1>. QED
  BY <1>1, <1>2, <1>3

\* The rooms the delta has nothing of are as they were.
LEMMA SyncScans ==
  ASSUME TypeInv, ReadersInv, \A r \in Rooms : Settled(Views[r]), NEW u \in Syncers, SyncScan(u)
  PROVE  ReadersInv'
<1>. PICK V : V = Views
  OBVIOUS
<1>. PICK c : c = client[u]
  OBVIOUS
<1>. PICK h : h = sync[u]
  OBVIOUS
<1>. PICK delta : delta = IF c.since = None THEN <<>> ELSE events_since(c.since)
  OBVIOUS
<1>. PICK todo : todo = IF c.since = None THEN {r \in Rooms : timeline[r] # {}}
                        ELSE {delta[i].room : i \in DOMAIN delta}
  OBVIOUS
<1>. PICK g : g = [h EXCEPT !.pc = "room", !.delta = delta, !.todo = todo]
  OBVIOUS
<1>1. h.pc = "scan" /\ sync' = [sync EXCEPT ![u].pc = "room", ![u].delta = delta, ![u].todo = todo]
      /\ UNCHANGED <<store, server, client, ledger>>
  BY DEF SyncScan
<1>2. DOMAIN sync' = Syncers /\ sync'[u] = g /\ \A v \in Syncers \ {u} : sync'[v] = sync[v]
  BY <1>1 DEF ReadersInv
<1>3. ClientType(c, stream) /\ ClientOk(V, c, u) /\ SyncType(c, h, stream)
  BY DEF ReadersInv
<1>4. /\ h = [pc |-> h.pc, next_batch |-> h.next_batch, delta |-> h.delta, todo |-> h.todo,
              room |-> h.room, state |-> h.state, joined |-> h.joined, left |-> h.left]
      /\ h.next_batch \in Nat /\ h.next_batch <= Len(stream) /\ h.joined = {} /\ h.left = {}
      /\ c.since # None => c.since <= h.next_batch
  BY <1>1, <1>3 DEF SyncType
<1>5. g = [pc |-> "room", next_batch |-> h.next_batch, delta |-> delta, todo |-> todo,
           room |-> h.room, state |-> h.state, joined |-> h.joined, left |-> h.left]
  BY <1>4
<1>14. g.joined = {} /\ g.left = {} /\ g.next_batch \in Nat
  BY <1>4, <1>5
<1>6. Len(stream) \in Nat /\ DOMAIN stream = 1..Len(stream)
  BY SeqOfValues DEF TypeInv, StreamType
<1>7. c.since # None =>
        /\ c.since \in Nat /\ c.since <= Len(stream)
        /\ Len(delta) = Len(stream) - c.since /\ DOMAIN delta = 1..(Len(stream) - c.since)
        /\ \A i \in 1..(Len(stream) - c.since) : delta[i] = stream[c.since + i]
  BY <1>3, SinceIsStretch DEF ClientType, TypeInv
<1>8. DeltaType(g, c.since, stream)
  <2>1. CASE c.since = None
    BY <1>5, <2>1 DEF DeltaType
  <2>2. CASE c.since # None
    <3>1. Len(delta) \in Nat /\ c.since + Len(delta) = Len(stream)
      BY <1>6, <1>7, <2>2
    <3>2. DOMAIN delta = 1..Len(delta) /\ \A i \in 1..Len(delta) : delta[i] = stream[c.since + i]
      BY <1>7, <2>2
    <3>3. h.next_batch <= c.since + Len(delta) /\ c.since + Len(delta) <= Len(stream)
      BY <1>4, <1>6, <3>1
    <3>4. g.delta = delta /\ g.next_batch = h.next_batch
      BY <1>5
    <3>. QED
      BY <2>2, <3>1, <3>2, <3>3, <3>4 DEF DeltaType
  <2>. QED
    BY <2>1, <2>2
<1>9. todo \subseteq Rooms
  <2>1. CASE c.since = None
    BY <2>1
  <2>2. ASSUME c.since # None, NEW i \in DOMAIN delta PROVE delta[i].room \in Rooms
    <3>0. i \in 1..(Len(stream) - c.since) /\ c.since \in Nat
      BY <1>7, <2>2
    <3>1. c.since + i \in DOMAIN stream /\ delta[i] = stream[c.since + i]
      <4>1. c.since + i \in 1..Len(stream)
        BY <1>6, <3>0
      <4>. QED
        BY <1>6, <1>7, <2>2, <3>0, <4>1
    <3>2. PICK r \in Rooms : stream[c.since + i] \in timeline[r]
      BY <3>1 DEF TypeInv, StreamType
    <3>. QED
      BY <3>1, <3>2 DEF TypeInv, EventsType, Fits
  <2>. QED
    BY <2>1, <2>2
<1>10. SyncType(c, g, stream)
  BY <1>4, <1>5, <1>8, <1>9 DEF SyncType, Scanned, AtRoom
<1>11. ASSUME NEW r \in Rooms, r \notin todo PROVE Shown(V[r], c.known[r], c.since, g, u)
  <2>. PICK a : a = V[r]
    OBVIOUS
  <2>1. Settled(a) /\ a.room = r /\ a.state = room_state[r] /\ a.stream = stream
    BY ViewFields
  <2>2. CASE c.since = None
    <3>1. timeline[r] = {}
      BY <1>11, <2>2
    <3>2. a.state = {} /\ Own(a) = {}
      BY <2>1, <3>1, PlaceInTimeline DEF TypeInv, StatesType
    <3>3. c.known[r] = {}
      BY <1>3, <2>2 DEF ClientOk
    <3>. QED
      BY <1>14, <2>1, <2>2, <3>2, <3>3, NothingSince
  <2>3. CASE c.since # None
    <3>1. ASSUME NEW k \in Own(a), c.since < k PROVE FALSE
      <4>1. k \in 1..Len(stream) /\ stream[k].room = r
        BY <1>6, <2>1 DEF Own, Places
      <4>2. k - c.since \in 1..(Len(stream) - c.since) /\ c.since + (k - c.since) = k
        BY <1>6, <1>7, <2>3, <3>1, <4>1
      <4>3. delta[k - c.since].room = r /\ k - c.since \in DOMAIN delta
        BY <1>7, <2>3, <4>1, <4>2
      <4>. QED
        BY <1>11, <2>3, <4>3
    <3>2. Knows(a, c.known[r], u, c.since)
      BY <1>3, <2>3 DEF ClientOk
    <3>. QED
      BY <1>7, <1>14, <2>1, <2>3, <3>1, <3>2, NothingSince
  <2>. QED
    BY <2>2, <2>3
<1>12. SyncOk(V, c, g, u)
  BY <1>4, <1>5, <1>11 DEF SyncOk, Waiting, AtRoom
<1>13. DOMAIN client' = Syncers /\ client'[u] = c /\ \A v \in Syncers \ {u} : client'[v] = client[v]
  BY <1>1 DEF ReadersInv
<1>. QED
  BY <1>1, <1>2, <1>3, <1>10, <1>12, <1>13, OneReads

\* A sync goes on to its next room when it has the answer for this one, or
\* stays at it with what it is to read of it.
LEMMA RoomHandled ==
  ASSUME NEW V, \A q \in Rooms : V[q].room = q, NEW c, NEW h, NEW u, Scanned(h), SyncOk(V, c, h, u),
         NEW r \in Rooms, IF AtRoom(h) THEN r = h.room ELSE r \in h.todo,
         NEW g, Scanned(g), g.next_batch = h.next_batch, g.todo = h.todo \ {r},
         h.left \subseteq g.left, g.left \subseteq h.left \cup {r},
         h.joined \subseteq g.joined, \A j \in g.joined : j \in h.joined \/ j.room = r,
         IF AtRoom(g) THEN g.room = r /\ Waiting(r, g) /\ Opened(V[r], g, u)
         ELSE Shown(V[r], c.known[r], c.since, g, u)
  PROVE  SyncOk(V, c, g, u)
<1>1. ASSUME NEW q \in Rooms, q # r, q \in h.todo PROVE Waiting(q, g)
  <2>1. Waiting(q, h)
    BY <1>1 DEF SyncOk
  <2>. QED
    BY <1>1, <2>1 DEF Waiting
<1>2. ASSUME NEW q \in Rooms, q # r, q \notin h.todo PROVE Shown(V[q], c.known[q], c.since, g, u)
  <2>1. Shown(V[q], c.known[q], c.since, h, u)
    BY <1>2 DEF SyncOk
  <2>2. V[q].room = q
    OBVIOUS
  <2>. QED
    BY <1>2, <2>1, <2>2 DEF Shown
<1>3. r \notin g.todo /\ \A q \in Rooms : q # r => (q \in g.todo <=> q \in h.todo)
  OBVIOUS
<1>. QED
  BY <1>1, <1>2, <1>3 DEF SyncOk

\* What an answer says of a room is what it says of it last.
LEMMA RoomWaiting ==
  ASSUME NEW V, NEW c, NEW h, NEW u, Scanned(h), SyncOk(V, c, h, u), NEW r \in Rooms,
         IF AtRoom(h) THEN r = h.room ELSE r \in h.todo
  PROVE  Waiting(r, h)
BY DEF SyncOk

\* A room that is in the answer, among the joined.
LEMMA JoinedShown ==
  ASSUME NEW a, NEW known, NEW since, NEW u, NEW h, Waiting(a.room, h), NEW g, NEW j,
         g.left = h.left, g.joined = h.joined \cup {j}, j.room = a.room,
         Knows(a, Merged(known, j), u, g.next_batch),
         \A i \in Own(a) : i <= g.next_batch /\ (since = None \/ i > since) => a.stream[i] \in j.events
  PROVE  Shown(a, known, since, g, u)
BY DEF Shown, Waiting

\* A room the user is not in: among the left, or not in the answer.
LEMMA UnjoinedShown ==
  ASSUME NEW a, Settled(a), NEW known, NEW since, NEW u \in Users, ~IsMember(a, u), NEW h, Waiting(a.room, h),
         NEW g, g.joined = h.joined,
         \/ g.left = h.left \cup {a.room}
         \/ g.left = h.left /\ Knows(a, known, u, g.next_batch)
  PROVE  Shown(a, known, since, g, u)
<1>1. \A i : ~Due(a, u, i)
  BY DueMember
<1>2. Knows(a, {}, u, g.next_batch)
  BY KnowsNothing
<1>. QED
  BY <1>1, <1>2 DEF Shown, Waiting

LEMMA DeltaIsStretch ==
  ASSUME NEW r \in Rooms, NEW c, NEW h, c.since # None, ClientType(c, stream), DeltaType(h, c.since, stream)
  PROVE  c.since \in Nat /\ Stretch(h.delta, Views[r], c.since) /\ h.next_batch <= c.since + Len(h.delta)
<1>1. Views[r].stream = stream
  BY ViewFields
<1>. QED
  BY <1>1 DEF ClientType, DeltaType, Stretch

\* A sync that has its delta, at some point of its work.
Phase(h, pc, todo, room, state, joined, left) ==
  [pc |-> pc, next_batch |-> h.next_batch, delta |-> h.delta, todo |-> todo,
   room |-> room, state |-> state, joined |-> joined, left |-> left]

LEMMA PhaseFields ==
  ASSUME NEW h, NEW pc, NEW todo, NEW room, NEW state, NEW joined, NEW left, NEW g,
         g = Phase(h, pc, todo, room, state, joined, left)
  PROVE  /\ g.pc = pc /\ g.next_batch = h.next_batch /\ g.delta = h.delta /\ g.todo = todo
         /\ g.room = room /\ g.state = state /\ g.joined = joined /\ g.left = left
         /\ g = [pc |-> g.pc, next_batch |-> g.next_batch, delta |-> g.delta, todo |-> g.todo,
                 room |-> g.room, state |-> g.state, joined |-> g.joined, left |-> g.left]
BY DEF Phase

LEMMA PhaseType ==
  ASSUME NEW c, NEW h, NEW s, SyncType(c, h, s), Scanned(h),
         NEW pc \in {"room", "state", "timeline"}, NEW todo, todo \subseteq h.todo, NEW room,
         pc # "room" => room \in Rooms, pc = "timeline" => c.since = None,
         NEW state, NEW joined, NEW left, NEW g, g = Phase(h, pc, todo, room, state, joined, left)
  PROVE  SyncType(c, g, s) /\ Scanned(g) /\ (AtRoom(g) <=> pc # "room")
<1>1. /\ g.pc = pc /\ g.next_batch = h.next_batch /\ g.delta = h.delta /\ g.todo = todo /\ g.room = room
      /\ g = [pc |-> g.pc, next_batch |-> g.next_batch, delta |-> g.delta, todo |-> g.todo,
              room |-> g.room, state |-> g.state, joined |-> g.joined, left |-> g.left]
  BY PhaseFields
<1>2. /\ h.pc # "idle" /\ h.next_batch \in Nat /\ h.next_batch <= Len(s)
      /\ c.since # None => c.since <= h.next_batch
      /\ DeltaType(h, c.since, s) /\ h.todo \subseteq Rooms
  BY DEF SyncType, Scanned
<1>3. DeltaType(g, c.since, s)
  BY <1>1, <1>2 DEF DeltaType
<1>4. Scanned(g) /\ (AtRoom(g) <=> pc # "room")
  BY <1>1 DEF Scanned, AtRoom
<1>. QED
  BY <1>1, <1>2, <1>3, <1>4 DEF SyncType

\* A sync that is done with a room, and how it may be.
Passed(h, r)    == [h EXCEPT !.todo = @ \ {r}]
Dropped(h, r)   == [Passed(h, r) EXCEPT !.left = @ \cup {r}]
Opening(h, r)   == [Passed(h, r) EXCEPT !.pc = "state", !.room = r]
Telling(h, r, j) == [Passed(h, r) EXCEPT !.joined = @ \cup {j}]

LEMMA PassedPhase ==
  ASSUME NEW h, NEW pc, NEW todo, NEW room, NEW state, NEW joined, NEW left,
         NEW g, g = Phase(h, pc, todo, room, state, joined, left), NEW r
  PROVE  Passed(g, r) = Phase(h, pc, todo \ {r}, room, state, joined, left)
BY DEF Passed, Phase

LEMMA DroppedPhase ==
  ASSUME NEW h, NEW pc, NEW todo, NEW room, NEW state, NEW joined, NEW left,
         NEW g, g = Phase(h, pc, todo, room, state, joined, left), NEW r
  PROVE  Dropped(g, r) = Phase(h, pc, todo \ {r}, room, state, joined, left \cup {r})
<1>. PICK k : k = Passed(g, r)
  OBVIOUS
<1>1. k = Phase(h, pc, todo \ {r}, room, state, joined, left)
  BY PassedPhase
<1>2. [k EXCEPT !.left = @ \cup {r}] = Phase(h, pc, todo \ {r}, room, state, joined, left \cup {r})
  BY <1>1 DEF Phase
<1>. QED
  BY <1>2 DEF Dropped

LEMMA OpeningPhase ==
  ASSUME NEW h, NEW pc, NEW todo, NEW room, NEW state, NEW joined, NEW left,
         NEW g, g = Phase(h, pc, todo, room, state, joined, left), NEW r
  PROVE  Opening(g, r) = Phase(h, "state", todo \ {r}, r, state, joined, left)
<1>. PICK k : k = Passed(g, r)
  OBVIOUS
<1>1. k = Phase(h, pc, todo \ {r}, room, state, joined, left)
  BY PassedPhase
<1>2. PICK l : l = [k EXCEPT !.pc = "state"]
  OBVIOUS
<1>3. l = Phase(h, "state", todo \ {r}, room, state, joined, left)
  BY <1>1, <1>2 DEF Phase
<1>4. [l EXCEPT !.room = r] = Phase(h, "state", todo \ {r}, r, state, joined, left)
  BY <1>3 DEF Phase
<1>. QED
  BY <1>2, <1>4 DEF Opening

LEMMA TellingPhase ==
  ASSUME NEW h, NEW pc, NEW todo, NEW room, NEW state, NEW joined, NEW left,
         NEW g, g = Phase(h, pc, todo, room, state, joined, left), NEW r, NEW j
  PROVE  Telling(g, r, j) = Phase(h, pc, todo \ {r}, room, state, joined \cup {j}, left)
<1>. PICK k : k = Passed(g, r)
  OBVIOUS
<1>1. k = Phase(h, pc, todo \ {r}, room, state, joined, left)
  BY PassedPhase
<1>2. [k EXCEPT !.joined = @ \cup {j}] = Phase(h, pc, todo \ {r}, room, state, joined \cup {j}, left)
  BY <1>1 DEF Phase
<1>. QED
  BY <1>2 DEF Telling

\* The user is asked to be joined, now: the delta tells whether there is more to
\* be said of the room than the delta does.
LEMMA SyncsRoom ==
  ASSUME TypeInv, ContentsInv, ReadersInv, \A r \in Rooms : Settled(Views[r]), NEW u \in Syncers, SyncRoom(u)
  PROVE  ReadersInv'
<1>. PICK V : V = Views
  OBVIOUS
<1>. PICK c : c = client[u]
  OBVIOUS
<1>. PICK h : h = sync[u]
  OBVIOUS
<1>1. h.pc = "room" /\ UNCHANGED <<store, server, client, ledger>>
  BY DEF SyncRoom
<1>2. ClientType(c, stream) /\ ClientOk(V, c, u) /\ SyncType(c, h, stream) /\ SyncOk(V, c, h, u)
  BY DEF ReadersInv
<1>3. /\ h = [pc |-> h.pc, next_batch |-> h.next_batch, delta |-> h.delta, todo |-> h.todo,
              room |-> h.room, state |-> h.state, joined |-> h.joined, left |-> h.left]
      /\ h.next_batch \in Nat /\ h.next_batch <= Len(stream)
      /\ c.since # None => c.since <= h.next_batch
      /\ DeltaType(h, c.since, stream) /\ h.todo \subseteq Rooms
  BY <1>1, <1>2 DEF SyncType, Scanned
<1>. PICK delta : delta = h.delta
  OBVIOUS
<1>4. PICK r \in h.todo :
        LET at  == DeltaOf(delta, r)
            j   == JoinedRoom(r, LastPerSlot(delta, at), LastPerSlot(delta, at), Listed(delta, at))
        IN  sync' = [sync EXCEPT ![u] =
              IF ~is_joined(r, u)
              THEN IF c.since # None /\ left_in_delta(delta, at, u) THEN Dropped(h, r) ELSE Passed(h, r)
              ELSE IF c.since = None \/ joined_in_delta(delta, at, u) THEN Opening(h, r) ELSE Telling(h, r, j)]
  BY DEF SyncRoom, Dropped, Passed, Opening, Telling
<1>. PICK at : at = DeltaOf(delta, r)
  OBVIOUS
<1>. PICK j : j = JoinedRoom(r, LastPerSlot(delta, at), LastPerSlot(delta, at), Listed(delta, at))
  OBVIOUS
<1>16. PICK g : g = IF ~is_joined(r, u)
                    THEN IF c.since # None /\ left_in_delta(delta, at, u) THEN Dropped(h, r) ELSE Passed(h, r)
                    ELSE IF c.since = None \/ joined_in_delta(delta, at, u) THEN Opening(h, r) ELSE Telling(h, r, j)
  OBVIOUS
<1>5. sync' = [sync EXCEPT ![u] = g]
  BY <1>4, <1>16
<1>6. DOMAIN sync' = Syncers /\ sync'[u] = g /\ \A v \in Syncers \ {u} : sync'[v] = sync[v]
  BY <1>5 DEF ReadersInv
<1>7. DOMAIN client' = Syncers /\ client'[u] = c /\ \A v \in Syncers \ {u} : client'[v] = client[v]
  BY <1>1 DEF ReadersInv
<1>8. /\ Passed(h, r) = Phase(h, "room", h.todo \ {r}, h.room, h.state, h.joined, h.left)
      /\ Dropped(h, r) = Phase(h, "room", h.todo \ {r}, h.room, h.state, h.joined, h.left \cup {r})
      /\ Opening(h, r) = Phase(h, "state", h.todo \ {r}, r, h.state, h.joined, h.left)
      /\ Telling(h, r, j) = Phase(h, "room", h.todo \ {r}, h.room, h.state, h.joined \cup {j}, h.left)
  <2>1. h = Phase(h, "room", h.todo, h.room, h.state, h.joined, h.left)
    BY <1>1, <1>3 DEF Phase
  <2>. QED
    BY <2>1, PassedPhase, DroppedPhase, OpeningPhase, TellingPhase
<1>. PICK a : a = V[r]
  OBVIOUS
<1>9. /\ r \in Rooms /\ Settled(a) /\ a.room = r /\ Scanned(h) /\ ~AtRoom(h) /\ u \in Users
      /\ IsMember(a, u) <=> is_joined(r, u)
  <2>1. r \in Rooms /\ u \in Users
    BY <1>3, RoomsAssumption
  <2>2. Settled(a) /\ a.room = r /\ a.state = room_state[r]
    BY <2>1, ViewFields
  <2>. QED
    BY <1>1, <2>1, <2>2, JoinedBy DEF IsMember, Scanned, AtRoom
<1>10. Waiting(r, h)
  BY <1>2, <1>9, RoomWaiting
<1>11. c.since # None =>
         /\ c.since \in Nat /\ Stretch(delta, a, c.since) /\ h.next_batch <= c.since + Len(delta)
         /\ Len(delta) \in Nat
  <2>1. c.since # None =>
          c.since \in Nat /\ Stretch(delta, a, c.since) /\ h.next_batch <= c.since + Len(delta)
    BY <1>2, <1>3, <1>9, DeltaIsStretch
  <2>. QED
    BY <2>1 DEF Stretch
<1>12. Knows(a, c.known[r], u, IF c.since = None THEN h.next_batch ELSE c.since) \/ (c.since = None /\ c.known[r] = {})
  BY <1>2, <1>9 DEF ClientOk
<1>13. \A q \in Rooms : V[q].room = q
  BY ViewFields
<1>14. SyncType(c, g, stream) /\ SyncOk(V, c, g, u)
  <2>1. CASE ~is_joined(r, u) /\ c.since # None /\ left_in_delta(delta, at, u)
    <3>1. g = Phase(h, "room", h.todo \ {r}, h.room, h.state, h.joined, h.left \cup {r})
      BY <1>8, <1>16, <2>1
    <3>2. SyncType(c, g, stream) /\ Scanned(g) /\ ~AtRoom(g)
      BY <1>2, <1>9, <3>1, PhaseType
    <3>4. g.next_batch = h.next_batch /\ g.todo = h.todo \ {r} /\ g.joined = h.joined /\ g.left = h.left \cup {r}
      BY <3>1, PhaseFields
    <3>3. Shown(a, c.known[r], c.since, g, u)
      BY <1>9, <1>10, <2>1, <3>4, UnjoinedShown
    <3>. QED
      BY <1>2, <1>4, <1>9, <1>13, <3>2, <3>3, <3>4, RoomHandled
  <2>2. CASE ~is_joined(r, u) /\ ~(c.since # None /\ left_in_delta(delta, at, u))
    <3>1. g = Phase(h, "room", h.todo \ {r}, h.room, h.state, h.joined, h.left)
      BY <1>8, <1>16, <2>2
    <3>2. SyncType(c, g, stream) /\ Scanned(g) /\ ~AtRoom(g)
      BY <1>2, <1>9, <3>1, PhaseType
    <3>3. Knows(a, c.known[r], u, h.next_batch)
      <4>1. CASE c.since = None
        BY <1>9, <1>12, <2>2, <4>1, KnowsNothing
      <4>2. CASE c.since # None
        <5>1. \A k \in Own(a) : c.since < k /\ k <= c.since + Len(delta) => ~Leaves(a.stream[k], u)
          BY <1>9, <1>11, <2>2, <4>2, DeltaMemberships
        <5>2. \A k \in Own(a) : c.since < k /\ k <= h.next_batch => ~Leaves(a.stream[k], u)
          <6>1. \A k \in Own(a) : k \in Nat
            BY <1>9, OwnPlaces
          <6>. QED
            BY <1>3, <1>11, <4>2, <5>1, <6>1
        <5>. QED
          BY <1>3, <1>9, <1>11, <1>12, <2>2, <4>2, <5>2, KnowsStill
      <4>. QED
        BY <4>1, <4>2
    <3>4. g.next_batch = h.next_batch /\ g.todo = h.todo \ {r} /\ g.left = h.left /\ g.joined = h.joined
      BY <3>1, PhaseFields
    <3>5. Shown(a, c.known[r], c.since, g, u)
      BY <1>9, <1>10, <2>2, <3>3, <3>4, UnjoinedShown
    <3>. QED
      BY <1>2, <1>4, <1>9, <1>13, <3>2, <3>4, <3>5, RoomHandled
  <2>3. CASE is_joined(r, u) /\ (c.since = None \/ joined_in_delta(delta, at, u))
    <3>1. g = Phase(h, "state", h.todo \ {r}, r, h.state, h.joined, h.left)
      BY <1>8, <1>16, <2>3
    <3>2. SyncType(c, g, stream) /\ Scanned(g) /\ AtRoom(g)
      BY <1>2, <1>9, <3>1, PhaseType
    <3>5. g.pc = "state" /\ g.room = r
      BY <3>1, PhaseFields
    <3>6. g.next_batch = h.next_batch /\ g.todo = h.todo \ {r} /\ g.left = h.left /\ g.joined = h.joined
      BY <3>1, PhaseFields
    <3>3. Waiting(r, g)
      BY <1>10, <3>6 DEF Waiting
    <3>4. Opened(a, g, u)
      BY <1>3, <1>9, <2>3, <3>5, <3>6, MemberTracked DEF Opened
    <3>. QED
      BY <1>2, <1>4, <1>9, <1>13, <3>2, <3>3, <3>4, <3>5, <3>6, RoomHandled
  <2>4. CASE is_joined(r, u) /\ c.since # None /\ ~joined_in_delta(delta, at, u)
    <3>1. g = Phase(h, "room", h.todo \ {r}, h.room, h.state, h.joined \cup {j}, h.left)
      BY <1>8, <1>16, <2>4
    <3>2. SyncType(c, g, stream) /\ Scanned(g) /\ ~AtRoom(g)
      BY <1>2, <1>9, <3>1, PhaseType
    <3>3. /\ j.room = r /\ j.state = Newest(a, c.since, c.since + Len(delta))
          /\ j.newer = Newest(a, c.since, c.since + Len(delta)) /\ j.events = Listed(delta, at)
      BY <1>9, <1>11, <2>4, DeltaNewest DEF JoinedRoom
    <3>4. Knows(a, Merged(c.known[r], j), u, h.next_batch)
      <4>1. \A k \in Own(a) : c.since < k /\ k <= c.since + Len(delta) => ~Joins(a.stream[k], u)
        BY <1>9, <1>11, <2>4, DeltaMemberships
      <4>2. c.since + Len(delta) \in Nat
        BY <1>11, <2>4
      <4>. QED
        BY <1>3, <1>9, <1>11, <1>12, <2>4, <3>3, <4>1, <4>2, KnowsNews DEF Merged
    <3>5. ASSUME NEW i \in Own(a), i <= h.next_batch, i > c.since PROVE a.stream[i] \in j.events
      <4>1. i \in Nat
        BY <1>9, OwnPlaces
      <4>2. c.since < i /\ i <= c.since + Len(delta)
        BY <1>3, <1>11, <2>4, <3>5, <4>1
      <4>3. a.stream[i] \in Listed(delta, DeltaOf(delta, a.room))
        BY <1>9, <1>11, <2>4, <4>2, DeltaMemberships
      <4>. QED
        BY <1>9, <3>3, <4>3
    <3>6. g.next_batch = h.next_batch /\ g.todo = h.todo \ {r} /\ g.left = h.left /\ g.joined = h.joined \cup {j}
      BY <3>1, PhaseFields
    <3>7. Shown(a, c.known[r], c.since, g, u)
      BY <1>9, <1>10, <2>4, <3>3, <3>4, <3>5, <3>6, JoinedShown
    <3>. QED
      BY <1>2, <1>4, <1>9, <1>13, <3>2, <3>3, <3>6, <3>7, RoomHandled
  <2>. QED
    BY <2>1, <2>2, <2>3, <2>4
<1>. QED
  BY <1>1, <1>2, <1>6, <1>7, <1>14, OneReads

\* A sync at a room, and how it goes on from there.
Read(h, state) == [h EXCEPT !.pc = "timeline", !.state = state]
Told(h, j)     == [h EXCEPT !.pc = "room", !.joined = @ \cup {j}]

LEMMA ReadPhase ==
  ASSUME NEW h, NEW pc, NEW todo, NEW room, NEW state, NEW joined, NEW left,
         NEW g, g = Phase(h, pc, todo, room, state, joined, left), NEW s
  PROVE  Read(g, s) = Phase(h, "timeline", todo, room, s, joined, left)
<1>1. PICK l : l = [g EXCEPT !.pc = "timeline"]
  OBVIOUS
<1>2. l = Phase(h, "timeline", todo, room, state, joined, left)
  BY <1>1 DEF Phase
<1>3. [l EXCEPT !.state = s] = Phase(h, "timeline", todo, room, s, joined, left)
  BY <1>2 DEF Phase
<1>. QED
  BY <1>1, <1>3 DEF Read

LEMMA ToldPhase ==
  ASSUME NEW h, NEW pc, NEW todo, NEW room, NEW state, NEW joined, NEW left,
         NEW g, g = Phase(h, pc, todo, room, state, joined, left), NEW j
  PROVE  Told(g, j) = Phase(h, "room", todo, room, state, joined \cup {j}, left)
<1>1. PICK l : l = [g EXCEPT !.pc = "room"]
  OBVIOUS
<1>2. l = Phase(h, "room", todo, room, state, joined, left)
  BY <1>1 DEF Phase
<1>3. [l EXCEPT !.joined = @ \cup {j}] = Phase(h, "room", todo, room, state, joined \cup {j}, left)
  BY <1>2 DEF Phase
<1>4. [l EXCEPT !.joined = g.joined \cup {j}] = [l EXCEPT !.joined = @ \cup {j}]
  <2>1. g.joined = joined
    BY DEF Phase
  <2>2. l.joined = joined
    BY <1>2 DEF Phase
  <2>. QED
    BY <2>1, <2>2
<1>. QED
  BY <1>1, <1>3, <1>4 DEF Told

\* Where a sync is that is at a room.
LEMMA AtRoomFacts ==
  ASSUME TypeInv, ReadersInv, \A r \in Rooms : Settled(Views[r]), NEW u \in Syncers, AtRoom(sync[u])
  PROVE  LET c == client[u]
             h == sync[u]
             a == Views[h.room]
         IN  /\ ClientType(c, stream) /\ ClientOk(Views, c, u) /\ SyncType(c, h, stream) /\ SyncOk(Views, c, h, u)
             /\ Scanned(h) /\ h.room \in Rooms /\ h.todo = h.todo \ {h.room} /\ Opened(a, h, u)
             /\ Waiting(h.room, h) /\ h.next_batch \in Nat
             /\ DeltaType(h, c.since, stream)
             /\ h = Phase(h, h.pc, h.todo, h.room, h.state, h.joined, h.left)
             /\ Settled(a) /\ a.room = h.room /\ a.state = room_state[h.room]
             /\ \A q \in Rooms : Views[q].room = q
<1>. PICK c : c = client[u]
  OBVIOUS
<1>. PICK h : h = sync[u]
  OBVIOUS
<1>1. ClientType(c, stream) /\ ClientOk(Views, c, u) /\ SyncType(c, h, stream) /\ SyncOk(Views, c, h, u)
  BY DEF ReadersInv
<1>2. h.pc # "idle" /\ Scanned(h)
  BY DEF AtRoom, Scanned
<1>3. /\ h = [pc |-> h.pc, next_batch |-> h.next_batch, delta |-> h.delta, todo |-> h.todo,
              room |-> h.room, state |-> h.state, joined |-> h.joined, left |-> h.left]
      /\ h.next_batch \in Nat /\ DeltaType(h, c.since, stream) /\ h.room \in Rooms
  BY <1>1, <1>2 DEF SyncType
<1>4. h = Phase(h, h.pc, h.todo, h.room, h.state, h.joined, h.left)
  BY <1>3 DEF Phase
<1>5. h.room \notin h.todo /\ Opened(Views[h.room], h, u) /\ Waiting(h.room, h)
  BY <1>1, <1>2, <1>3 DEF SyncOk
<1>6. h.todo = h.todo \ {h.room}
  BY <1>5
<1>7. Settled(Views[h.room]) /\ Views[h.room].room = h.room /\ Views[h.room].state = room_state[h.room]
      /\ \A q \in Rooms : Views[q].room = q
  BY <1>3, ViewFields
<1>. QED
  BY <1>1, <1>2, <1>3, <1>4, <1>5, <1>6, <1>7

\* The room's state is read. With a token the answer has all it needs of the
\* room; without one the timeline is read as well.
LEMMA SyncsState ==
  ASSUME TypeInv, ReadersInv, \A r \in Rooms : Settled(Views[r]), NEW u \in Syncers, SyncState(u)
  PROVE  ReadersInv'
<1>. PICK V : V = Views
  OBVIOUS
<1>. PICK c : c = client[u]
  OBVIOUS
<1>. PICK h : h = sync[u]
  OBVIOUS
<1>. PICK r : r = h.room
  OBVIOUS
<1>. PICK a : a = V[r]
  OBVIOUS
<1>. PICK delta : delta = h.delta
  OBVIOUS
<1>. PICK at : at = DeltaOf(delta, r)
  OBVIOUS
<1>. PICK j : j = JoinedRoom(r, room_state[r], LastPerSlot(delta, at), Listed(delta, at))
  OBVIOUS
<1>1. h.pc = "state" /\ UNCHANGED <<store, server, client, ledger>>
      /\ sync' = IF c.since = None THEN [sync EXCEPT ![u].pc = "timeline", ![u].state = room_state[r]]
                 ELSE [sync EXCEPT ![u].pc = "room", ![u].joined = @ \cup {j}]
  BY DEF SyncState
<1>2. PICK g : g = IF c.since = None THEN Read(h, room_state[r]) ELSE Told(h, j)
  OBVIOUS
<1>3. DOMAIN sync' = Syncers /\ sync'[u] = g /\ \A v \in Syncers \ {u} : sync'[v] = sync[v]
  <2>1. CASE c.since = None
    BY <1>1, <1>2, <2>1 DEF ReadersInv, Read
  <2>2. CASE c.since # None
    BY <1>1, <1>2, <2>2 DEF ReadersInv, Told
  <2>. QED
    BY <2>1, <2>2
<1>4. DOMAIN client' = Syncers /\ client'[u] = c /\ \A v \in Syncers \ {u} : client'[v] = client[v]
  BY <1>1 DEF ReadersInv
<1>5. /\ ClientType(c, stream) /\ ClientOk(V, c, u) /\ SyncType(c, h, stream) /\ SyncOk(V, c, h, u)
      /\ Scanned(h) /\ r \in Rooms /\ h.todo = h.todo \ {r} /\ Opened(a, h, u)
      /\ Waiting(r, h) /\ h.next_batch \in Nat /\ DeltaType(h, c.since, stream)
      /\ h = Phase(h, h.pc, h.todo, h.room, h.state, h.joined, h.left)
      /\ Settled(a) /\ a.room = r /\ a.state = room_state[r] /\ AtRoom(h)
      /\ \A q \in Rooms : V[q].room = q
  <2>1. AtRoom(h)
    BY <1>1 DEF AtRoom
  <2>. QED
    BY <2>1, AtRoomFacts
<1>6. SyncType(c, g, stream) /\ SyncOk(V, c, g, u)
  <2>1. CASE c.since = None
    <3>1. g = Phase(h, "timeline", h.todo, r, a.state, h.joined, h.left)
      BY <1>2, <1>5, <2>1, ReadPhase
    <3>2. SyncType(c, g, stream) /\ Scanned(g) /\ AtRoom(g)
      BY <1>5, <2>1, <3>1, PhaseType
    <3>3. /\ g.pc = "timeline" /\ g.room = r /\ g.state = a.state
          /\ g.next_batch = h.next_batch /\ g.todo = h.todo /\ g.left = h.left /\ g.joined = h.joined
      BY <3>1, PhaseFields
    <3>4. Waiting(r, g)
      BY <1>5, <3>3 DEF Waiting
    <3>5. Slots(a, a.state)
      BY <1>5 DEF Slots, Settled, SameSlot
    <3>6. Fresh(a, a.state, g.next_batch)
      BY DEF Fresh, SameSlot
    <3>7. Opened(a, g, u)
      BY <1>5, <3>3, <3>5, <3>6 DEF Opened
    <3>. QED
      BY <1>5, <3>2, <3>3, <3>4, <3>7, RoomHandled
  <2>2. CASE c.since # None
    <3>1. g = Phase(h, "room", h.todo, r, h.state, h.joined \cup {j}, h.left)
      BY <1>2, <1>5, <2>2, ToldPhase
    <3>2. SyncType(c, g, stream) /\ Scanned(g) /\ ~AtRoom(g)
      BY <1>5, <3>1, PhaseType
    <3>3. g.next_batch = h.next_batch /\ g.todo = h.todo /\ g.left = h.left /\ g.joined = h.joined \cup {j}
      BY <3>1, PhaseFields
    <3>4. c.since \in Nat /\ Stretch(delta, a, c.since) /\ h.next_batch <= c.since + Len(delta)
      BY <1>5, <2>2, DeltaIsStretch
    <3>5. Len(delta) \in Nat /\ c.since + Len(delta) \in Nat
      BY <3>4 DEF Stretch
    <3>6. /\ j.room = r /\ j.state = a.state /\ j.newer = Newest(a, c.since, c.since + Len(delta))
          /\ j.events = Listed(delta, DeltaOf(delta, a.room))
      BY <1>5, <3>4, DeltaNewest DEF JoinedRoom
    <3>7. Knows(a, Merged(c.known[r], j), u, h.next_batch)
      <4>1. Slots(a, c.known[r])
        BY <1>5, <2>2 DEF ClientOk, Knows
      <4>2. Tracked(a, u, h.next_batch) /\ (OwnTouched(a, u, h.next_batch) \/ IsMember(a, u))
        BY <1>5 DEF Opened
      <4>3. PICK s \in Nat, m \in Nat, n \in Nat : s = c.since /\ m = c.since + Len(delta) /\ n = h.next_batch
        BY <1>5, <3>4, <3>5
      <4>4. n <= m /\ Tracked(a, u, n) /\ (OwnTouched(a, u, n) \/ IsMember(a, u))
        BY <3>4, <4>2, <4>3
      <4>5. Knows(a, Over(Over(c.known[r], a.state), Newest(a, s, m)), u, n)
        BY <1>5, <4>1, <4>4, KnowsState
      <4>. QED
        BY <3>6, <4>3, <4>5 DEF Merged
    <3>8. ASSUME NEW i \in Own(a), i <= h.next_batch, i > c.since PROVE a.stream[i] \in j.events
      <4>1. i \in Nat
        BY <1>5, OwnPlaces
      <4>2. c.since < i /\ i <= c.since + Len(delta)
        BY <1>5, <3>4, <3>5, <3>8, <4>1
      <4>3. a.stream[i] \in Listed(delta, DeltaOf(delta, a.room))
        BY <1>5, <3>4, <4>2, DeltaMemberships
      <4>. QED
        BY <3>6, <4>3
    <3>9. Shown(a, c.known[r], c.since, g, u)
      BY <1>5, <2>2, <3>3, <3>6, <3>7, <3>8, JoinedShown
    <3>. QED
      BY <1>5, <3>2, <3>3, <3>6, <3>9, RoomHandled
  <2>. QED
    BY <2>1, <2>2
<1>. QED
  BY <1>1, <1>3, <1>4, <1>5, <1>6, OneReads

\* A client without a token is shown the state and then, over it, the timeline:
\* what was written in between is in both, or was written since the new token.
LEMMA SyncsTimeline ==
  ASSUME TypeInv, OnlyWriters, SerialInv, LocksKnown, ReadersInv, \A r \in Rooms : Settled(Views[r]),
         NEW u \in Syncers, SyncTimeline(u)
  PROVE  ReadersInv'
<1>. PICK V : V = Views
  OBVIOUS
<1>. PICK c : c = client[u]
  OBVIOUS
<1>. PICK h : h = sync[u]
  OBVIOUS
<1>. PICK r : r = h.room
  OBVIOUS
<1>. PICK a : a = V[r]
  OBVIOUS
<1>. PICK j : j = JoinedRoom(r, h.state, LatestPerSlot(timeline[r]), timeline[r])
  OBVIOUS
<1>1. h.pc = "timeline" /\ UNCHANGED <<store, server, client, ledger>>
      /\ sync' = [sync EXCEPT ![u].pc = "room", ![u].joined = @ \cup {j}]
  BY DEF SyncTimeline
<1>2. PICK g : g = Told(h, j)
  OBVIOUS
<1>3. DOMAIN sync' = Syncers /\ sync'[u] = g /\ \A v \in Syncers \ {u} : sync'[v] = sync[v]
  BY <1>1, <1>2 DEF ReadersInv, Told
<1>4. DOMAIN client' = Syncers /\ client'[u] = c /\ \A v \in Syncers \ {u} : client'[v] = client[v]
  BY <1>1 DEF ReadersInv
<1>5. /\ ClientType(c, stream) /\ ClientOk(V, c, u) /\ SyncType(c, h, stream) /\ SyncOk(V, c, h, u)
      /\ Scanned(h) /\ r \in Rooms /\ h.todo = h.todo \ {r} /\ Opened(a, h, u)
      /\ Waiting(r, h) /\ h.next_batch \in Nat
      /\ h = Phase(h, h.pc, h.todo, h.room, h.state, h.joined, h.left)
      /\ Settled(a) /\ a.room = r /\ a.state = room_state[r] /\ AtRoom(h)
      /\ \A q \in Rooms : V[q].room = q
  <2>1. AtRoom(h)
    BY <1>1 DEF AtRoom
  <2>. QED
    BY <2>1, AtRoomFacts
<1>6. c.since = None
  BY <1>1, <1>5 DEF SyncType
<1>7. g = Phase(h, "room", h.todo, r, h.state, h.joined \cup {j}, h.left)
  BY <1>2, <1>5, ToldPhase
<1>8. SyncType(c, g, stream) /\ Scanned(g) /\ ~AtRoom(g)
  BY <1>5, <1>7, PhaseType
<1>9. g.next_batch = h.next_batch /\ g.todo = h.todo /\ g.left = h.left /\ g.joined = h.joined \cup {j}
  BY <1>7, PhaseFields
<1>10. j.room = r /\ j.state = h.state /\ j.newer = LatestPerSlot(timeline[r]) /\ j.events = timeline[r]
  BY DEF JoinedRoom
<1>11. c.known[r] = {}
  BY <1>5, <1>6 DEF ClientOk
<1>12. Knows(a, Merged(c.known[r], j), u, h.next_batch)
  <2>1. a.pending = Pending(r)
    BY <1>5, ViewFields
  <2>2. \A e \in j.newer : is_state(e) /\ (e \in a.state \/ e \in a.pending)
    BY <1>5, <1>10, <2>1, LatestKnown
  <2>3. /\ Tracked(a, u, h.next_batch) /\ (OwnTouched(a, u, h.next_batch) \/ IsMember(a, u))
        /\ Slots(a, h.state) /\ Fresh(a, h.state, h.next_batch)
    BY <1>1, <1>5 DEF Opened
  <2>4. Knows(a, Over(Over({}, h.state), j.newer), u, h.next_batch)
    BY <1>5, <2>2, <2>3, KnowsAll
  <2>. QED
    BY <1>10, <1>11, <2>4 DEF Merged
<1>13. ASSUME NEW i \in Own(a) PROVE a.stream[i] \in j.events
  <2>1. a.stream = stream
    BY <1>5, ViewFields
  <2>. QED
    BY <1>5, <1>10, <2>1, PlaceInTimeline
<1>14. Shown(a, c.known[r], c.since, g, u)
  BY <1>5, <1>9, <1>10, <1>12, <1>13, JoinedShown
<1>15. SyncOk(V, c, g, u)
  BY <1>5, <1>8, <1>9, <1>10, <1>14, RoomHandled
<1>. QED
  BY <1>1, <1>3, <1>4, <1>5, <1>8, <1>15, OneReads

LEMMA NumberIsSome == ASSUME NEW n \in Nat PROVE n # None
<1>1. n \in Int
  OBVIOUS
<1>2. None \notin Int
  BY RoomsAssumption
<1>. QED
  BY <1>1, <1>2

\* The client takes the answer in, and the new token with it.
LEMMA SyncsAnswer ==
  ASSUME TypeInv, ReadersInv, \A r \in Rooms : Settled(Views[r]), NEW u \in Syncers, SyncAnswer(u)
  PROVE  ReadersInv'
<1>. PICK V : V = Views
  OBVIOUS
<1>. PICK c : c = client[u]
  OBVIOUS
<1>. PICK h : h = sync[u]
  OBVIOUS
<1>1. h.pc = "room" /\ h.todo = {} /\ client' = [client EXCEPT ![u] = Applied(c, h)]
      /\ sync' = [sync EXCEPT ![u] = Idle] /\ UNCHANGED <<store, server, ledger>>
  BY DEF SyncAnswer
<1>2. PICK d : d = Applied(c, h)
  OBVIOUS
<1>3. /\ DOMAIN sync' = Syncers /\ DOMAIN client' = Syncers /\ sync'[u] = Idle /\ client'[u] = d
      /\ \A v \in Syncers \ {u} : sync'[v] = sync[v] /\ client'[v] = client[v]
  BY <1>1, <1>2 DEF ReadersInv
<1>4. ClientType(c, stream) /\ ClientOk(V, c, u) /\ SyncType(c, h, stream) /\ SyncOk(V, c, h, u)
  BY DEF ReadersInv
<1>5. h.next_batch \in Nat /\ h.next_batch <= Len(stream) /\ Scanned(h) /\ ~AtRoom(h)
  BY <1>1, <1>4 DEF SyncType, Scanned, AtRoom
<1>6. d = [since |-> d.since, syncs |-> d.syncs, known |-> d.known, seen |-> d.seen]
      /\ d.since = h.next_batch /\ DOMAIN d.known = Rooms
      /\ d.seen = c.seen \cup UNION {j.events : j \in h.joined}
  BY <1>2 DEF Applied
<1>7. ClientType(d, stream)
  BY <1>5, <1>6 DEF ClientType
<1>8. ASSUME NEW r \in Rooms
      PROVE  /\ Knows(V[r], d.known[r], u, d.since)
             /\ \A i \in Own(V[r]) : i <= d.since /\ Due(V[r], u, i) => V[r].stream[i] \in d.seen
  <2>. PICK a : a = V[r]
    OBVIOUS
  <2>1. a.room = r /\ Settled(a)
    BY ViewFields
  <2>2. Shown(a, c.known[r], c.since, h, u)
    BY <1>1, <1>4, <1>5 DEF SyncOk
  <2>3. Knows(a, d.known[r], u, h.next_batch)
    <3>. PICK S : S = {j \in h.joined : j.room = r}
      OBVIOUS
    <3>1. d.known[r] = IF r \in h.left THEN {}
                       ELSE IF S = {} THEN c.known[r]
                       ELSE Merged(c.known[r], CHOOSE j \in S : TRUE)
      BY <1>2 DEF Applied, Merged
    <3>2. CASE r \in h.left
      BY <2>1, <2>2, <3>1, <3>2 DEF Shown
    <3>3. CASE r \notin h.left /\ S = {}
      BY <2>1, <2>2, <3>1, <3>3 DEF Shown
    <3>4. CASE r \notin h.left /\ S # {}
      <4>1. PICK j \in S : j = CHOOSE i \in S : TRUE
        BY <3>4
      <4>. QED
        BY <2>1, <2>2, <3>1, <3>4, <4>1 DEF Shown
    <3>. QED
      BY <3>2, <3>3, <3>4
  <2>4. ASSUME NEW i \in Own(a), i <= h.next_batch, Due(a, u, i) PROVE a.stream[i] \in d.seen
    <3>1. CASE c.since = None \/ i > c.since
      <4>1. PICK j \in h.joined : a.stream[i] \in j.events
        BY <2>2, <2>4, <3>1 DEF Shown
      <4>. QED
        BY <1>6, <4>1
    <3>2. CASE c.since # None /\ ~(i > c.since)
      <4>1. i \in Nat /\ c.since \in Nat
        BY <1>4, <2>1, <3>2, OwnPlaces DEF ClientType
      <4>2. i <= c.since
        BY <3>2, <4>1
      <4>. QED
        BY <1>4, <1>6, <2>4, <3>2, <4>2 DEF ClientOk
    <3>. QED
      BY <3>1, <3>2
  <2>. QED
    BY <1>6, <2>3, <2>4
<1>9. ClientOk(V, d, u)
  <2>1. d.since # None
    BY <1>5, <1>6, NumberIsSome
  <2>. QED
    BY <1>8, <2>1 DEF ClientOk
<1>10. SyncType(d, Idle, stream) /\ SyncOk(V, d, Idle, u)
  BY DEF SyncType, SyncOk, Scanned, Idle
<1>. QED
  BY <1>1, <1>3, <1>7, <1>9, <1>10, OneReads

-----------------------------------------------------------------------------
(* The invariants together.                                                *)

SyncInv == ContentsInv /\ StreamInv /\ DepartsInv /\ ReadersInv

\* A writer does not move the readers.
LEMMA WriterReadsNothing ==
  ASSUME NEW w \in Workers, Writer(w)
  PROVE  UNCHANGED reader
BY DEF Writer, StartSend, StartMembership, StartReceive, StartCreate, Arrives, TakeLock, Fetch, Authorize, PutEvent,
       PutState, CountStream, PutStream, RecordTxn, reader

LEMMA AllSettled ==
  ASSUME TypeInv, StreamInv, DepartsInv
  PROVE  \A r \in Rooms : Settled(Views[r])
BY ViewsSettled

\* What a step that writes nothing leaves of the writers' invariants.
LEMMA NothingWrites ==
  ASSUME ContentsInv, StreamInv, DepartsInv, UNCHANGED <<store, server>>
  PROVE  ContentsInv' /\ StreamInv' /\ DepartsInv'
<1>1. timeline' = timeline /\ room_state' = room_state /\ stream' = stream /\ job' = job
  BY DEF store, server
<1>2. \A w : Current(w)' = Current(w) /\ Doing(w, "stream")' = Doing(w, "stream")
  BY <1>1 DEF Current, Doing
<1>3. \A r : Pending(r)' = Pending(r)
  BY <1>1, <1>2 DEF Pending, Underway
<1>4. ContentsInv'
  BY <1>1, <1>2 DEF ContentsInv
<1>5. StreamInv'
  BY <1>1, <1>2, <1>3 DEF StreamInv
<1>6. DepartsInv'
  BY <1>1, <1>2 DEF DepartsInv
<1>. QED
  BY <1>4, <1>5, <1>6

LEMMA SyncStep ==
  ASSUME TypeInv, OnlyWriters, SerialInv, LocksKnown, SyncInv, OneAppendAtATime, [Next]_vars, crashes' = 0
  PROVE  SyncInv'
<1>0. ContentsInv /\ StreamInv /\ DepartsInv /\ ReadersInv /\ \A r \in Rooms : Settled(Views[r])
  BY AllSettled DEF SyncInv
<1>1. ASSUME NEW w \in Workers, Writer(w) PROVE SyncInv'
  <2>1. PICK h : Becomes(w, h) /\ Moves(w, h)
    BY <1>1, WriterMoves
  <2>2. ContentsInv'
    BY <1>0, <2>1, ContentsStep
  <2>3. StreamInv' /\ Grows
    BY <1>0, <2>1, StreamStep
  <2>4. DepartsInv'
    BY <1>0, <2>1, DepartsStep
  <2>5. ReadersInv'
    BY <1>0, <1>1, <2>3, WriterReadsNothing, ReadersWait DEF TypeInv
  <2>. QED
    BY <2>2, <2>3, <2>4, <2>5 DEF SyncInv
<1>2. ASSUME NEW u \in Syncers, Reader(u) PROVE SyncInv'
  <2>1. ContentsInv' /\ StreamInv' /\ DepartsInv'
    BY <1>0, <1>2, ReaderWritesNothing, NothingWrites
  <2>2. ReadersInv'
    BY <1>0, <1>2, SyncStarts, SyncScans, SyncsRoom, SyncsState, SyncsTimeline, SyncsAnswer DEF Reader
  <2>. QED
    BY <2>1, <2>2 DEF SyncInv
<1>3. ~Crash
  <2>1. crashes \in Nat
    <3>1. MaxCrashes \in Nat /\ crashes \in 0..MaxCrashes
      BY RoomsAssumption DEF TypeInv, CountsType
    <3>. QED
      BY <3>1
  <2>. QED
    BY <2>1 DEF Crash
<1>4. CASE UNCHANGED vars
  <2>1. UNCHANGED <<store, server>> /\ sync' = sync /\ client' = client
    BY <1>4 DEF vars, reader
  <2>2. Views' = Views /\ stream' = stream
    BY <2>1, ViewsSame
  <2>3. ReadersInv'
    BY <1>0, <2>1, <2>2 DEF ReadersInv
  <2>. QED
    BY <1>0, <2>1, <2>3, NothingWrites DEF SyncInv
<1>. QED
  BY <1>1, <1>2, <1>3, <1>4 DEF Next, Finished

LEMMA SyncInit == ASSUME StoredInOrder, StoredDeparts PROVE Init => SyncInv
<1>. SUFFICES ASSUME Init PROVE SyncInv
  OBVIOUS
<1>1. ReadersInv
  <2>1. DOMAIN sync = Syncers /\ DOMAIN client = Syncers
    BY DEF Init
  <2>2. ASSUME NEW u \in Syncers
        PROVE  /\ ClientType(client[u], stream) /\ SyncType(client[u], sync[u], stream)
               /\ ClientOk(Views, client[u], u) /\ SyncOk(Views, client[u], sync[u], u)
    <3>1. sync[u] = Idle
      BY DEF Init
    <3>2. client[u] = [since |-> None, syncs |-> 0, known |-> [r \in Rooms |-> {}], seen |-> {}]
      BY DEF Init
    <3>3. ClientType(client[u], stream) /\ ClientOk(Views, client[u], u)
      BY <3>2 DEF ClientType, ClientOk
    <3>. QED
      BY <3>1, <3>3 DEF SyncType, SyncOk, Scanned, Idle
  <2>. QED
    BY <2>1, <2>2 DEF ReadersInv
<1>. QED
  BY <1>1, ContentsInit, StreamInit, DepartsInit DEF SyncInv

LEMMA SyncHolds ==
  ASSUME OnlyWriters, StoredInOrder, StoredDeparts
  PROVE  Spec /\ []NoCrash /\ []OneAppendAtATime => [](TypeInv /\ SyncInv)
<1>1. Init => SyncInv
  BY SyncInit
<1>2. TypeInv /\ SerialInv /\ LocksKnown /\ SyncInv /\ OneAppendAtATime /\ [Next]_vars /\ NoCrash' => SyncInv'
  BY SyncStep DEF NoCrash
<1>3. Spec => []TypeInv
  BY TypeInit, TypeStep, PTL DEF Spec
<1>4. Spec /\ []NoCrash => []SerialInv
  BY SerialHolds
<1>5. Spec => []LocksKnown
  BY LocksKnownHolds
<1>. QED
  BY <1>1, <1>2, <1>3, <1>4, <1>5, PTL DEF Spec

-----------------------------------------------------------------------------
(* The promises of /sync.                                                  *)

\* Nothing is written after the token of a client that has caught up.
LEMMA CaughtUp ==
  ASSUME TypeInv, SyncInv, NEW u \in Syncers, UpToDate(u), NEW r \in Rooms
  PROVE  LET a == Views[r]
             c == client[u]
         IN  /\ Settled(a) /\ a.stream = stream /\ a.state = room_state[r] /\ a.room = r /\ a.pending = {}
             /\ c.since = Len(stream) /\ Len(stream) \in Nat /\ DOMAIN stream = 1..Len(stream)
             /\ Knows(a, c.known[r], u, c.since)
             /\ \A j \in Own(a) : j <= c.since /\ Due(a, u, j) => stream[j] \in c.seen
<1>. PICK a : a = Views[r]
  OBVIOUS
<1>. PICK c : c = client[u]
  OBVIOUS
<1>1. Settled(a) /\ a.stream = stream /\ a.state = room_state[r] /\ a.room = r /\ a.pending = Pending(r)
  BY AllSettled, ViewFields DEF SyncInv
<1>2. Pending(r) = {}
  BY DEF UpToDate, Quiet, Doing, Pending, Underway
<1>3. c.since = Len(stream) /\ Len(stream) \in Nat /\ DOMAIN stream = 1..Len(stream)
  BY SeqOfValues DEF UpToDate, TypeInv, StreamType
<1>4. c.since # None
  BY <1>3, NumberIsSome
<1>5. Knows(a, c.known[r], u, c.since) /\ \A j \in Own(a) : j <= c.since /\ Due(a, u, j) => a.stream[j] \in c.seen
  BY <1>4 DEF SyncInv, ReadersInv, ClientOk
<1>. QED
  BY <1>1, <1>2, <1>3, <1>5

\* A client whose token has reached the end of the stream has the state of each
\* room its user is joined to, slot by slot, and nothing of the others, however
\* its syncs interleaved with the writers: the token is taken before the delta,
\* and membership and state are read after it (server.rs:360-442). It is so
\* while sends and membership changes only are handled, until a crash, and as
\* long as no two appends are between their count and their put, which the
\* room's locks do not see to when the rooms are several.
THEOREM ClientsConverge ==
  ASSUME OnlyWriters, StoredInOrder, StoredDeparts
  PROVE  Spec /\ []NoCrash /\ []OneAppendAtATime => []ClientStateConverges
<1>1. ASSUME TypeInv, SyncInv, NEW u \in Syncers, UpToDate(u), NEW r \in Rooms
      PROVE  client[u].known[r] = IF is_joined(r, u) THEN room_state[r] ELSE {}
  <2>. PICK a : a = Views[r]
    OBVIOUS
  <2>. PICK known : known = client[u].known[r]
    OBVIOUS
  <2>. PICK n \in Nat : n = Len(stream)
    BY <1>1, CaughtUp
  <2>1. /\ Settled(a) /\ a.stream = stream /\ a.state = room_state[r] /\ a.pending = {}
        /\ Knows(a, known, u, n)
    BY <1>1, CaughtUp
  <2>2. \A i \in Own(a) : ~(i > n)
    BY <2>1, OwnPlaces
  <2>3. ~OwnTouched(a, u, n) /\ \A e : ~Touched(a, e, n)
    BY <2>1, <2>2 DEF OwnTouched, Touched
  <2>4. IsMember(a, u) <=> is_joined(r, u)
    <3>1. u \in Users
      BY RoomsAssumption
    <3>. QED
      BY <1>1, <2>1, <3>1, JoinedBy DEF IsMember, SyncInv
  <2>5. CASE is_joined(r, u)
    <3>1. Fresh(a, known, n)
      BY <2>1, <2>3, <2>4, <2>5 DEF Knows
    <3>2. \A e \in known : e \in a.state
      BY <2>3, <3>1 DEF Fresh
    <3>3. ASSUME NEW e \in a.state PROVE e \in known
      <4>1. PICK f \in known : SameSlot(e, f)
        BY <2>3, <3>1, <3>3 DEF Fresh
      <4>2. f = e
        BY <2>1, <3>2, <3>3, <4>1 DEF Settled
      <4>. QED
        BY <4>1, <4>2
    <3>. QED
      BY <2>1, <2>5, <3>2, <3>3
  <2>6. CASE ~is_joined(r, u)
    BY <2>1, <2>3, <2>4, <2>6 DEF Knows
  <2>. QED
    BY <2>5, <2>6
<1>2. TypeInv /\ SyncInv => ClientStateConverges
  BY <1>1 DEF ClientStateConverges
<1>. QED
  BY <1>2, SyncHolds, PTL

\* Such a client was sent every event of the rooms its user joined and stayed
\* in, from the join on: none falls between two tokens, nor between the token
\* and the reads that come after it (server.rs:362).
THEOREM SyncsMissNothing ==
  ASSUME OnlyWriters, StoredInOrder, StoredDeparts
  PROVE  Spec /\ []NoCrash /\ []OneAppendAtATime => []SyncMissesNothing
<1>1. ASSUME TypeInv, SyncInv, NEW u \in Syncers, UpToDate(u), NEW i \in DOMAIN stream, NEW j \in DOMAIN stream,
             IsOwn(stream[i], u), i <= j, stream[j].room = stream[i].room,
             \A k \in i..Len(stream) :
               stream[k].room = stream[i].room /\ IsOwn(stream[k], u) => stream[k].content.membership = "join"
      PROVE  stream[j] \in client[u].seen
  <2>. PICK r : r = stream[i].room
    OBVIOUS
  <2>1. r \in Rooms
    <3>1. PICK q \in Rooms : stream[i] \in timeline[q]
      BY <1>1 DEF TypeInv, StreamType
    <3>. QED
      BY <1>1, <3>1 DEF TypeInv, EventsType, Fits
  <2>. PICK a : a = Views[r]
    OBVIOUS
  <2>2. /\ a.stream = stream /\ a.room = r /\ a.pending = {}
        /\ client[u].since = Len(stream) /\ Len(stream) \in Nat /\ DOMAIN stream = 1..Len(stream)
        /\ \A k \in Own(a) : k <= client[u].since /\ Due(a, u, k) => stream[k] \in client[u].seen
    BY <1>1, <2>1, CaughtUp
  <2>3. i \in Own(a) /\ j \in Own(a) /\ \A k \in Own(a) : k \in 1..Len(stream) /\ stream[k].room = r
    BY <1>1, <2>2 DEF Own, Places
  <2>4. ASSUME NEW k \in Own(a), i <= k, IsOwn(stream[k], u) PROVE Joins(stream[k], u)
    <3>1. k \in i..Len(stream) /\ stream[k].room = stream[i].room
      BY <1>1, <2>2, <2>3, <2>4
    <3>. QED
      BY <1>1, <2>4, <3>1 DEF Joins
  <2>5. Due(a, u, j)
    BY <1>1, <2>2, <2>3, <2>4 DEF Due
  <2>. QED
    BY <2>2, <2>3, <2>5
<1>2. TypeInv /\ SyncInv => SyncMissesNothing
  <2>. SUFFICES ASSUME TypeInv, SyncInv PROVE SyncMissesNothing
    OBVIOUS
  <2>. QED
    BY <1>1 DEF SyncMissesNothing, IsOwn
<1>. QED
  BY <1>2, SyncHolds, PTL

\* Of a single room the lock sees to it.
SingleRoom == \A r, q \in Rooms : r = q

LEMMA OneRoomAppends ==
  ASSUME TypeInv, OnlyWriters, SingleRoom
  PROVE  OneAppendAtATime
<1>. SUFFICES ASSUME NEW v \in Workers, NEW w \in Workers, Doing(v, "stream"), Doing(w, "stream") PROVE v = w
  BY DEF OneAppendAtATime
<1>1. job[v].pc = "stream" /\ job[w].pc = "stream"
  BY DEF Doing
<1>2. job[v].req.room = job[w].req.room
  BY <1>1, WritersRoom DEF SingleRoom
<1>. QED
  BY <1>1, <1>2, OneWriter

\* With one room nothing is asked of the writers but that they serialise, which
\* the room's lock makes them do (`_guard`, server.rs:916): clients converge and
\* miss nothing, until a crash.
THEOREM OneRoomConverges ==
  ASSUME OnlyWriters, SingleRoom, StoredInOrder, StoredDeparts
  PROVE  Spec /\ []NoCrash => [](ClientStateConverges /\ SyncMissesNothing)
<1>1. TypeInv => OneAppendAtATime
  BY OneRoomAppends
<1>2. Spec => []TypeInv
  BY TypeInit, TypeStep, PTL DEF Spec
<1>3. Spec /\ []NoCrash /\ []OneAppendAtATime => []ClientStateConverges
  BY ClientsConverge
<1>4. Spec /\ []NoCrash /\ []OneAppendAtATime => []SyncMissesNothing
  BY SyncsMissNothing
<1>. QED
  BY <1>1, <1>2, <1>3, <1>4, PTL

\* What a timeline holds is in the stream or about to be.
StreamComplete == \A r \in Rooms : \A e \in timeline[r] : e \in Range(stream) \/ e \in Pending(r)

LEMMA CompleteStep ==
  ASSUME TypeInv, Grows, StreamComplete, NEW w \in Workers, NEW h, Becomes(w, h), Moves(w, h)
  PROVE  StreamComplete'
<1>1. ASSUME NEW r \in Rooms, NEW e \in timeline[r] PROVE e \in Range(stream') \/ e \in Pending(r)'
  <2>1. CASE stream' = stream /\ \A q \in Rooms : Pending(q) \subseteq Pending(q)'
    BY <1>1, <2>1 DEF StreamComplete
  <2>2. ASSUME NEW rm \in Rooms, NEW f \in Pending(rm), stream' = Append(stream, f),
               \A q \in Rooms : \A g \in Pending(q) : g \in Pending(q)' \/ (q = rm /\ g = f)
        PROVE  e \in Range(stream') \/ e \in Pending(r)'
    <3>1. /\ Len(stream) \in Nat /\ DOMAIN stream = 1..Len(stream) /\ DOMAIN stream' = 1..(Len(stream) + 1)
          /\ \A i \in 1..Len(stream) : stream'[i] = stream[i]
          /\ stream'[Len(stream) + 1] = f
      BY <2>2, StreamAppended DEF TypeInv
    <3>2. f \in Range(stream')
      BY <3>1 DEF Range
    <3>3. Range(stream) \subseteq Range(stream')
      BY <3>1 DEF Range
    <3>. QED
      BY <1>1, <2>2, <3>2, <3>3 DEF StreamComplete
  <2>. QED
    BY <2>1, <2>2 DEF Grows
<1>2. ASSUME NEW r \in Rooms, NEW e \in timeline'[r], e \notin timeline[r] PROVE e \in Pending(r)'
  <2>1. InTimeline(w, h)
    BY <1>2 DEF Moves, Outside, Judged, InState, Counts, InStream, Same
  <2>2. e = Current(w) /\ r = job[w].req.room
    BY <1>2, <2>1 DEF InTimeline
  <2>3. job'[w] = h /\ h.req = job[w].req /\ h.events = job[w].events /\ h.pc \in {"state", "count"}
    BY <2>1 DEF InTimeline, AtPoint, Becomes
  <2>. QED
    BY <2>2, <2>3 DEF Pending, Underway, Current
<1>. QED
  BY <1>1, <1>2 DEF StreamComplete

\* Every event that was finished is in the stream, as `append` says (lib.rs:71-72),
\* if no two appends are between their count and their put: that overlap is all
\* the runs' counterexample needs.
THEOREM StreamIsComplete ==
  ASSUME OnlyWriters, StoredInOrder, StoredDeparts
  PROVE  Spec /\ []NoCrash /\ []OneAppendAtATime => []StreamHasEveryEvent
<1>1. Init => StreamComplete
  <2>. SUFFICES ASSUME Init PROVE StreamComplete
    OBVIOUS
  <2>1. stream = Stored /\ \A r \in Rooms : timeline[r] = StoredIn(r)
    BY DEF Init
  <2>. QED
    BY <2>1 DEF StreamComplete, StoredIn, Range
<1>2. ASSUME TypeInv, SerialInv, SyncInv, StreamComplete, OneAppendAtATime, [Next]_vars, crashes' = 0
      PROVE  StreamComplete'
  <2>1. ASSUME NEW w \in Workers, Writer(w) PROVE StreamComplete'
    <3>1. PICK h : Becomes(w, h) /\ Moves(w, h)
      BY <1>2, <2>1, WriterMoves
    <3>2. Grows
      BY <1>2, <3>1, StreamStep DEF SyncInv
    <3>. QED
      BY <1>2, <3>1, <3>2, CompleteStep
  <2>2. CASE UNCHANGED <<store, server>>
    <3>1. timeline' = timeline /\ stream' = stream /\ job' = job
      BY <2>2 DEF store, server
    <3>. QED
      BY <1>2, <3>1 DEF StreamComplete, Pending, Underway, Current
  <2>3. ~Crash
    <3>1. MaxCrashes \in Nat /\ crashes \in 0..MaxCrashes
      BY <1>2, RoomsAssumption DEF TypeInv, CountsType
    <3>2. crashes \in Nat
      BY <3>1
    <3>. QED
      BY <1>2, <3>2 DEF Crash
  <2>. QED
    BY <1>2, <2>1, <2>2, <2>3, ReaderWritesNothing DEF Next, Finished, vars
<1>3. TypeInv /\ StreamComplete => StreamHasEveryEvent
  <2>. SUFFICES ASSUME StreamComplete, Quiet PROVE \A r \in Rooms : timeline[r] \subseteq Range(stream)
    BY DEF StreamHasEveryEvent
  <2>1. \A r : Pending(r) = {}
    BY DEF Quiet, Doing, Pending, Underway
  <2>. QED
    BY <2>1 DEF StreamComplete
<1>4. TypeInv /\ SerialInv /\ SyncInv /\ StreamComplete /\ OneAppendAtATime /\ [Next]_vars /\ NoCrash'
        => StreamComplete'
  BY <1>2 DEF NoCrash
<1>5. Spec /\ []NoCrash => []SerialInv
  BY SerialHolds
<1>6. Spec /\ []NoCrash /\ []OneAppendAtATime => [](TypeInv /\ SyncInv)
  BY SyncHolds
<1>. QED
  BY <1>1, <1>3, <1>4, <1>5, <1>6, PTL DEF Spec
=============================================================================
