------------------------ MODULE HomeserverRoomsProofs ------------------------
(***************************************************************************)
(* Proofs about the rooms of the homeserver (HomeserverRooms).             *)
(*                                                                         *)
(* TypeInv says what a step needs to know of the store, the handlers and   *)
(* the locks; every other invariant rests on it.                           *)
(***************************************************************************)
EXTENDS HomeserverRooms, TLAPS, WellFoundedInduction

-----------------------------------------------------------------------------
(* The last event of a room.                                               *)

\* Some event of a set is the last in key order.
HasTip(events) == events # {} => \E e \in events : \A f \in events : AtOrBefore(f, e)

\* Events with a place in the key order.
Placed(events) == \A e \in events : e.depth \in Nat /\ e.id \in Int

\* The key order is total.
LEMMA OrderTotal ==
  ASSUME NEW e, NEW f, e.depth \in Nat, e.id \in Int, f.depth \in Nat, f.id \in Int
  PROVE  AtOrBefore(e, f) \/ AtOrBefore(f, e)
BY DEF AtOrBefore

LEMMA OrderTransitive ==
  ASSUME NEW e, NEW f, NEW g, e.depth \in Nat, e.id \in Int, f.depth \in Nat, f.id \in Int,
         g.depth \in Nat, g.id \in Int, AtOrBefore(e, f), AtOrBefore(f, g)
  PROVE  AtOrBefore(e, g)
BY DEF AtOrBefore

\* One more event leaves a set with a last event.
LEMMA TipOfMore ==
  ASSUME NEW events, NEW e, Placed(events), HasTip(events), e.depth \in Nat, e.id \in Int
  PROVE  HasTip(events \cup {e}) /\ Placed(events \cup {e})
<1>1. AtOrBefore(e, e)
  BY OrderTotal
<1>2. CASE events = {}
  BY <1>1, <1>2 DEF HasTip, Placed
<1>3. CASE events # {}
  <2>1. PICK t \in events : \A f \in events : AtOrBefore(f, t)
    BY <1>3 DEF HasTip
  <2>2. CASE AtOrBefore(e, t)
    BY <2>1, <2>2 DEF HasTip, Placed
  <2>3. CASE AtOrBefore(t, e)
    <3>1. \A f \in events : AtOrBefore(f, e)
      BY <2>1, <2>3, OrderTransitive DEF Placed
    <3>. QED
      BY <1>1, <3>1 DEF HasTip, Placed
  <2>. QED
    BY <2>1, <2>2, <2>3, OrderTotal DEF Placed
<1>. QED
  BY <1>2, <1>3

\* The tip is the last event.
LEMMA TipIsLast ==
  ASSUME NEW events, HasTip(events), events # {}
  PROVE  TipOf(events) \in events /\ \A f \in events : AtOrBefore(f, TipOf(events))
BY DEF HasTip, TipOf

-----------------------------------------------------------------------------
(* The events handlers build.                                              *)

\* An event of a room, with a place in the key order.
Fits(e, room) == e.room = room /\ e.depth \in Nat /\ e.id \in Int

\* The event of a send or a membership change.
LEMMA LinkedFits ==
  ASSUME NEW events, NEW req, NEW id \in Int, Placed(events), HasTip(events)
  PROVE  /\ Fits(LinkedOn(events, req, id), req.room)
         /\ LinkedOn(events, req, id).id = id
         /\ LinkedOn(events, req, id).sender = req.sender
         /\ LinkedOn(events, req, id).auth_events = {}
         /\ events = {} => LinkedOn(events, req, id).prev_events = {}
         /\ events # {} => /\ LinkedOn(events, req, id).prev_events = {TipOf(events).id}
                           /\ LinkedOn(events, req, id).depth = TipOf(events).depth + 1
<1>. DEFINE on   == IF events = {} THEN [depth |-> 1, prev_events |-> {}]
                    ELSE [depth |-> TipOf(events).depth + 1, prev_events |-> {TipOf(events).id}]
            e    == LinkedOn(events, req, id)
<1>1. e.room = req.room /\ e.id = id /\ e.sender = req.sender /\ e.auth_events = {}
      /\ e.depth = on.depth /\ e.prev_events = on.prev_events
  BY DEF LinkedOn
<1>2. CASE events = {}
  BY <1>1, <1>2 DEF Fits
<1>3. CASE events # {}
  <2>1. TipOf(events).depth \in Nat
    BY <1>3, TipIsLast DEF Placed
  <2>. QED
    BY <1>1, <1>3, <2>1 DEF Fits
<1>. QED
  BY <1>2, <1>3

\* A function on 1..n is a sequence of its values.
LEMMA FunctionIsSeq ==
  ASSUME NEW s, NEW n \in Nat, DOMAIN s = 1..n, s = [i \in 1..n |-> s[i]]
  PROVE  s \in Seq(Range(s)) /\ Len(s) = n
<1>1. s \in [1..n -> Range(s)]
  BY DEF Range
<1>. QED
  BY <1>1

LEMMA FunctionIsSeqOf ==
  ASSUME NEW S, NEW n \in Nat, NEW s \in [1..n -> S]
  PROVE  s \in Seq(S) /\ Len(s) = n
OBVIOUS

\* A sequence is a sequence of its values.
LEMMA SeqOfValues ==
  ASSUME NEW S, NEW s \in Seq(S)
  PROVE  s \in Seq(Range(s)) /\ Len(s) \in Nat /\ DOMAIN s = 1..Len(s)
<1>1. Len(s) \in Nat /\ DOMAIN s = 1..Len(s) /\ s \in [1..Len(s) -> S]
  OBVIOUS
<1>2. s = [i \in 1..Len(s) |-> s[i]]
  BY <1>1
<1>. QED
  BY <1>1, <1>2, FunctionIsSeq

LEMMA SeqInMore ==
  ASSUME NEW s, s \in Seq(Range(s)), NEW e
  PROVE  s \in Seq(Range(s) \cup {e}) /\ Len(s) \in Nat /\ DOMAIN s = 1..Len(s)
<1>1. Len(s) \in Nat /\ DOMAIN s = 1..Len(s) /\ s \in [1..Len(s) -> Range(s)]
  OBVIOUS
<1>2. s \in [1..Len(s) -> Range(s) \cup {e}]
  BY <1>1
<1>. QED
  BY <1>1, <1>2, FunctionIsSeqOf

LEMMA AppendFacts ==
  ASSUME NEW S, NEW s \in Seq(S), NEW e \in S
  PROVE  /\ Append(s, e) \in Seq(S) /\ Len(Append(s, e)) = Len(s) + 1
         /\ DOMAIN Append(s, e) = 1..(Len(s) + 1)
         /\ \A i \in 1..(Len(s) + 1) : Append(s, e)[i] = IF i <= Len(s) THEN s[i] ELSE e
OBVIOUS

\* The tail of a sequence, element by element.
LEMMA TailFacts ==
  ASSUME NEW s, s \in Seq(Range(s)), s # <<>>
  PROVE  /\ Tail(s) \in Seq(Range(Tail(s)))
         /\ Len(Tail(s)) = Len(s) - 1 /\ Len(s) \in Nat \ {0}
         /\ \A i \in DOMAIN Tail(s) : i + 1 \in DOMAIN s /\ Tail(s)[i] = s[i + 1]
         /\ 1 \in DOMAIN s /\ Head(s) = s[1]
<1>1. /\ Len(Tail(s)) = Len(s) - 1 /\ Len(s) \in Nat \ {0}
      /\ \A i \in 1..Len(Tail(s)) : Tail(s)[i] = s[i + 1]
      /\ Tail(s) \in Seq(Range(s)) /\ DOMAIN s = 1..Len(s) /\ Head(s) = s[1]
  OBVIOUS
<1>2. Tail(s) \in Seq(Range(Tail(s))) /\ DOMAIN Tail(s) = 1..Len(Tail(s))
  BY <1>1, SeqOfValues
<1>. QED
  BY <1>1, <1>2

LEMMA SeqElements ==
  ASSUME NEW S, NEW s \in Seq(S)
  PROVE  Len(s) \in Nat /\ DOMAIN s = 1..Len(s) /\ \A i \in 1..Len(s) : s[i] \in S
OBVIOUS

LEMMA ListOfThree ==
  ASSUME NEW S, NEW a \in S, NEW b \in S, NEW c \in S
  PROVE  /\ <<a, b, c>> \in Seq(S) /\ Len(<<a, b, c>>) = 3
         /\ <<a, b, c>>[1] = a /\ <<a, b, c>>[2] = b /\ <<a, b, c>>[3] = c
OBVIOUS

LEMMA ConcatFacts ==
  ASSUME NEW S, NEW s \in Seq(S), NEW t \in Seq(S)
  PROVE  /\ s \o t \in Seq(S) /\ Len(s \o t) = Len(s) + Len(t) /\ DOMAIN (s \o t) = 1..(Len(s) + Len(t))
         /\ \A i \in 1..(Len(s) + Len(t)) : (s \o t)[i] = IF i <= Len(s) THEN s[i] ELSE t[i - Len(s)]
OBVIOUS

\* The events of create_room: numbered in order, at the depths from 1 on, and
\* each filling a state slot; the only member event is the second.
LEMMA CreationFits ==
  ASSUME NEW req \in Requests, req.op = "create", NEW first \in Nat
  PROVE  LET list == CreationEvents(req, first)
         IN  /\ list \in Seq(Range(list)) /\ Len(list) = 3 + Len(req.extra)
             /\ Len(req.extra) \in Nat
             /\ \A i \in DOMAIN list :
                  /\ i \in 1..Len(list)
                  /\ list[i].room = req.room /\ list[i].id = first + i - 1 /\ list[i].depth = i
                  /\ is_state(list[i]) /\ (list[i].kind = "member" => i = 2)
<1>. DEFINE what(kind, key, content) == [kind |-> kind, state_key |-> key, content |-> content]
            top   == << what("create", "", create_content(req.sender)),
                        what("member", req.sender, MemberContent("join")),
                        what("power_levels", "", power_levels_content(req.sender)) >>
            named == [i \in DOMAIN req.extra |-> what(req.extra[i], "", [value |-> None])]
            all   == top \o named
            n     == 3 + Len(req.extra)
            events == CreationEvents(req, first)
<1>1. /\ req.extra \in Seq({"name", "topic"}) /\ req.sender # None /\ None # ""
  BY RoomsAssumption DEF RequestTypes
<1>2. Len(req.extra) \in Nat /\ DOMAIN req.extra = 1..Len(req.extra)
      /\ \A i \in 1..Len(req.extra) : req.extra[i] \in {"name", "topic"}
  <2>. DEFINE Named == {"name", "topic"}
  <2>1. req.extra \in Seq(Named)
    BY <1>1
  <2>. HIDE DEF Named
  <2>2. Len(req.extra) \in Nat /\ DOMAIN req.extra = 1..Len(req.extra)
        /\ \A i \in 1..Len(req.extra) : req.extra[i] \in Named
    BY <2>1, SeqElements
  <2>. QED
    BY <2>2 DEF Named
<1>. DEFINE S == [kind : {"create", "member", "power_levels", "name", "topic"},
                  state_key : {"", req.sender},
                  content : {create_content(req.sender), MemberContent("join"),
                             power_levels_content(req.sender), [value |-> None]}]
<1>3. top \in Seq(S) /\ Len(top) = 3
      /\ top[1].kind = "create" /\ top[1].state_key = ""
      /\ top[2].kind = "member" /\ top[2].state_key = req.sender
      /\ top[3].kind = "power_levels" /\ top[3].state_key = ""
  <2>. DEFINE a == what("create", "", create_content(req.sender))
              b == what("member", req.sender, MemberContent("join"))
              c == what("power_levels", "", power_levels_content(req.sender))
  <2>1. a \in S /\ b \in S /\ c \in S
    OBVIOUS
  <2>2. a.kind = "create" /\ a.state_key = "" /\ b.kind = "member" /\ b.state_key = req.sender
        /\ c.kind = "power_levels" /\ c.state_key = ""
    OBVIOUS
  <2>. HIDE DEF a, b, c, S
  <2>3. <<a, b, c>> \in Seq(S) /\ Len(<<a, b, c>>) = 3
        /\ <<a, b, c>>[1] = a /\ <<a, b, c>>[2] = b /\ <<a, b, c>>[3] = c
    BY <2>1, ListOfThree
  <2>. QED
    BY <2>2, <2>3 DEF a, b, c
<1>4. /\ named \in Seq(S) /\ Len(named) = Len(req.extra)
      /\ \A i \in 1..Len(req.extra) : named[i].kind = req.extra[i] /\ named[i].state_key = ""
  <2>1. ASSUME NEW i \in 1..Len(req.extra)
        PROVE  named[i] \in S /\ named[i].kind = req.extra[i] /\ named[i].state_key = ""
    <3>1. named[i] = what(req.extra[i], "", [value |-> None])
      BY <1>2
    <3>2. /\ what(req.extra[i], "", [value |-> None]).kind = req.extra[i]
          /\ what(req.extra[i], "", [value |-> None]).state_key = ""
      OBVIOUS
    <3>3. req.extra[i] \in {"create", "member", "power_levels", "name", "topic"}
      BY <1>2
    <3>4. what(req.extra[i], "", [value |-> None]) \in S
      BY <3>3
    <3>. HIDE DEF named, S, what
    <3>. QED
      BY <3>1, <3>2, <3>4
  <2>4. named = [i \in 1..Len(req.extra) |-> named[i]] /\ DOMAIN named = 1..Len(req.extra)
    BY <1>2
  <2>. HIDE DEF named, S
  <2>5. named \in [1..Len(req.extra) -> S]
    BY <2>1, <2>4
  <2>. QED
    <3>1. named \in Seq(S) /\ Len(named) = Len(req.extra)
      BY <1>2, <2>5, FunctionIsSeqOf
    <3>. QED
      BY <2>1, <3>1
<1>. HIDE DEF S, top, named
<1>5. /\ all \in Seq(S) /\ Len(all) = n /\ DOMAIN all = 1..n
      /\ \A i \in 1..n : all[i] = IF i <= 3 THEN top[i] ELSE named[i - 3]
  <2>1. top \in Seq(S) /\ named \in Seq(S) /\ Len(top) = 3 /\ Len(named) = Len(req.extra)
    BY <1>3, <1>4
  <2>. QED
    <3>1. /\ top \o named \in Seq(S) /\ Len(top \o named) = Len(top) + Len(named)
          /\ DOMAIN (top \o named) = 1..(Len(top) + Len(named))
          /\ \A i \in 1..(Len(top) + Len(named)) :
               (top \o named)[i] = IF i <= Len(top) THEN top[i] ELSE named[i - Len(top)]
      <4>1. top \in Seq(S) /\ named \in Seq(S)
        BY <2>1
      <4>. QED
        BY ONLY <4>1, ConcatFacts
    <3>. QED
      BY <2>1, <3>1
<1>6. ASSUME NEW i \in 1..n
      PROVE  all[i].state_key # None /\ (all[i].kind = "member" => i = 2)
  <2>1. CASE i <= 3
    <3>1. i = 1 \/ i = 2 \/ i = 3
      BY <1>2, <2>1
    <3>2. all[i] = top[i]
      BY <1>5, <2>1
    <3>. QED
      BY <1>1, <1>3, <3>1, <3>2
  <2>2. CASE ~(i <= 3)
    <3>1. i - 3 \in 1..Len(req.extra)
      BY <1>2, <2>2
    <3>. QED
      BY <1>1, <1>2, <1>4, <1>5, <2>2, <3>1
  <2>. QED
    BY <2>1, <2>2
<1>7. events = [i \in DOMAIN all |->
        [room |-> req.room, id |-> first + i - 1, sender |-> req.sender,
         kind |-> all[i].kind, state_key |-> all[i].state_key,
         content |-> all[i].content, depth |-> i,
         prev_events |-> IF i = 1 THEN {} ELSE {first + i - 2}, auth_events |-> {}]]
  BY DEF CreationEvents, top, named
<1>. HIDE DEF all, events
<1>8. DOMAIN events = 1..n /\ n \in Nat
  BY <1>2, <1>5, <1>7
<1>9. events \in Seq(Range(events)) /\ Len(events) = n
  <2>. DEFINE F(i) == [room |-> req.room, id |-> first + i - 1, sender |-> req.sender,
                       kind |-> all[i].kind, state_key |-> all[i].state_key,
                       content |-> all[i].content, depth |-> i,
                       prev_events |-> IF i = 1 THEN {} ELSE {first + i - 2}, auth_events |-> {}]
  <2>1. events = [i \in DOMAIN all |-> F(i)]
    BY <1>7
  <2>. HIDE DEF F
  <2>2. events \in [DOMAIN all -> Range(events)]
    BY <2>1 DEF Range
  <2>3. DOMAIN all = 1..n
    BY <1>5
  <2>. HIDE DEF n
  <2>4. events \in [1..n -> Range(events)]
    BY <2>2, <2>3
  <2>. QED
    BY ONLY <1>8, <2>4, FunctionIsSeqOf
<1>10. ASSUME NEW i \in DOMAIN events
       PROVE  /\ i \in 1..n
              /\ events[i].room = req.room /\ events[i].id = first + i - 1 /\ events[i].depth = i
              /\ is_state(events[i]) /\ (events[i].kind = "member" => i = 2)
  <2>1. /\ events[i].room = req.room /\ events[i].id = first + i - 1 /\ events[i].depth = i
        /\ events[i].state_key = all[i].state_key /\ events[i].kind = all[i].kind
    BY <1>5, <1>7, <1>8
  <2>. QED
    BY <1>6, <1>8, <2>1 DEF is_state
<1>11. events \in Seq(Range(events)) /\ Len(events) = 3 + Len(req.extra)
  BY <1>9
<1>12. \A i \in DOMAIN events :
         /\ i \in 1..Len(events)
         /\ events[i].room = req.room /\ events[i].id = first + i - 1 /\ events[i].depth = i
         /\ is_state(events[i]) /\ (events[i].kind = "member" => i = 2)
  BY <1>9, <1>10
<1>. QED
  BY <1>2, <1>11, <1>12 DEF events

-----------------------------------------------------------------------------
(* Types.                                                                  *)

\* What a handler writes: events of its room, or of any room for a transaction
\* of a peer.
Carries(h) ==
  \A i \in DOMAIN h.events :
    /\ h.events[i].room \in Rooms /\ Fits(h.events[i], h.events[i].room)
    /\ h.req.op # "receive" => h.events[i].room = h.req.room

\* A handler under way: there is something for it to write as soon as it is past
\* waiting for the lock, a single event if it waited.
Handler(h) ==
  /\ h = [req |-> h.req, pc |-> h.pc, events |-> h.events, seq |-> h.seq]
  /\ h.req \in Requests /\ h.pc \in Pcs \ {"idle"} /\ h.seq \in Nat
  /\ h.events \in Seq(Range(h.events))
  /\ Carries(h)
  /\ h.pc = "lock" => h.req.op \in {"send", "member"}
  /\ h.pc = "fetch" => h.req.op = "receive"
  /\ h.req.op \in {"send", "member"} /\ h.pc # "lock" => Tail(h.events) = <<>>
  /\ h.pc # "lock" => h.events # <<>>
  /\ h.pc = "record" => h.req.op = "send"

\* What such a handler holds: the lock of its room, if it came by it.
Holding(h, r) ==
  /\ h.pc \notin {"idle", "lock"}
  /\ h.req.op \in {"send", "member"}
  /\ h.req.room = r

EventsType ==
  /\ DOMAIN timeline = Rooms
  /\ \A r \in Rooms : HasTip(timeline[r]) /\ \A e \in timeline[r] : Fits(e, r)

StatesType ==
  /\ DOMAIN room_state = Rooms
  /\ \A r \in Rooms :
       /\ room_state[r] \subseteq timeline[r]
       /\ \A e, f \in room_state[r] : is_state(e) /\ (SameSlot(e, f) => e = f)

StreamType ==
  /\ stream \in Seq(Range(stream))
  /\ \A i \in DOMAIN stream : \E r \in Rooms : stream[i] \in timeline[r]

JobsType == DOMAIN job = Workers /\ \A w \in Workers : job[w] = Idle \/ Handler(job[w])

\* From its second put on, a handler's event is in the timeline.
AppendsType ==
  \A w \in Workers :
    /\ job[w].pc \in {"state", "count", "stream", "record"} => Current(w) \in timeline[Current(w).room]
    /\ job[w].pc = "state" => is_state(Current(w))

LocksType == DOMAIN lock = Rooms /\ \A r \in Rooms : \A w \in Workers : lock[r] = w <=> Holding(job[w], r)

CountsType ==
  /\ minted \in Nat /\ crashes \in 0..MaxCrashes
  /\ DOMAIN asked = Requests /\ \A req \in Requests : asked[req] \in 0..Tries[req]

TypeInv ==
  EventsType /\ StatesType /\ StreamType /\ JobsType /\ AppendsType /\ LocksType /\ CountsType

\* The inductive invariant implies the type invariant of the runs.
LEMMA TypeInvImplies == TypeInv => TypeOK
<1>. SUFFICES ASSUME TypeInv PROVE TypeOK
  OBVIOUS
<1>1. \A r \in Rooms :
        /\ \A e \in timeline[r] : e.room = r /\ e.depth \in Nat
        /\ room_state[r] \subseteq timeline[r]
        /\ \A e, f \in room_state[r] : is_state(e) /\ (SameSlot(e, f) => e = f)
  BY DEF TypeInv, EventsType, StatesType, Fits
<1>2. Range(stream) \subseteq UNION {timeline[r] : r \in Rooms}
  BY DEF TypeInv, StreamType, Range
<1>3. \A w \in Workers : job[w].pc \in Pcs
  BY DEF TypeInv, JobsType, Handler, Idle, Pcs
<1>4. \A r \in Rooms : \A w \in Workers :
        lock[r] = w <=> /\ job[w].pc \notin {"idle", "lock"}
                        /\ job[w].req.op \in {"send", "member"}
                        /\ job[w].req.room = r
  BY DEF TypeInv, LocksType, Holding
<1>5. minted \in Nat /\ crashes \in 0..MaxCrashes /\ \A req \in Requests : asked[req] \in 0..Tries[req]
  BY DEF TypeInv, CountsType
<1>. QED
  BY <1>1, <1>2, <1>3, <1>4, <1>5 DEF TypeOK

-----------------------------------------------------------------------------
(* What a step does to the handlers.                                       *)

\* The worker w's handler becomes h; the others stay.
Becomes(w, h) ==
  DOMAIN job' = Workers /\ job'[w] = h /\ \A v \in Workers \ {w} : job'[v] = job[v]

\* The handler h, at another point.
AtPoint(h, pc) == [req |-> h.req, pc |-> pc, events |-> h.events, seq |-> h.seq]

LEMMA HandlerUnderWay ==
  ASSUME JobsType, NEW w \in Workers, job[w].pc # "idle"
  PROVE  /\ Handler(job[w]) /\ job[w].req \in Requests /\ RequestTypes(job[w].req)
         /\ job[w].req.op # "receive" => job[w].req.room \in Rooms
<1>1. Handler(job[w])
  <2>1. Idle.pc = "idle"
    BY DEF Idle
  <2>. QED
    BY <2>1 DEF JobsType
<1>2. job[w].req \in Requests
  BY <1>1 DEF Handler
<1>3. RequestTypes(job[w].req)
  BY <1>2, RoomsAssumption
<1>. QED
  BY <1>1, <1>2, <1>3 DEF RequestTypes

\* Two fields of a handler, one after the other.
LEMMA PointAndEvents ==
  ASSUME NEW h, NEW pc, NEW events,
         h = [req |-> h.req, pc |-> h.pc, events |-> h.events, seq |-> h.seq]
  PROVE  [[h EXCEPT !.pc = pc] EXCEPT !.events = events]
           = [req |-> h.req, pc |-> pc, events |-> events, seq |-> h.seq]
<1>1. [h EXCEPT !.pc = pc] = [req |-> h.req, pc |-> pc, events |-> h.events, seq |-> h.seq]
  OBVIOUS
<1>2. [[req |-> h.req, pc |-> pc, events |-> h.events, seq |-> h.seq] EXCEPT !.events = events]
        = [req |-> h.req, pc |-> pc, events |-> events, seq |-> h.seq]
  OBVIOUS
<1>. QED
  BY <1>1, <1>2, Zenon

LEMMA PointAndSeq ==
  ASSUME NEW h, NEW pc, NEW seq,
         h = [req |-> h.req, pc |-> h.pc, events |-> h.events, seq |-> h.seq]
  PROVE  [[h EXCEPT !.pc = pc] EXCEPT !.seq = seq]
           = [req |-> h.req, pc |-> pc, events |-> h.events, seq |-> seq]
<1>1. [h EXCEPT !.pc = pc] = [req |-> h.req, pc |-> pc, events |-> h.events, seq |-> h.seq]
  OBVIOUS
<1>2. [[req |-> h.req, pc |-> pc, events |-> h.events, seq |-> h.seq] EXCEPT !.seq = seq]
        = [req |-> h.req, pc |-> pc, events |-> h.events, seq |-> seq]
  OBVIOUS
<1>. QED
  BY <1>1, <1>2, Zenon

LEMMA GotoBecomes ==
  ASSUME JobsType, NEW w \in Workers, job[w].pc # "idle", NEW pc, Goto(w, pc)
  PROVE  Becomes(w, AtPoint(job[w], pc)) /\ lock' = lock
<1>1. job[w] = [req |-> job[w].req, pc |-> job[w].pc, events |-> job[w].events, seq |-> job[w].seq]
  BY HandlerUnderWay DEF Handler
<1>2. [job[w] EXCEPT !.pc = pc] = AtPoint(job[w], pc)
  BY <1>1 DEF AtPoint
<1>3. job' = [job EXCEPT ![w] = [job[w] EXCEPT !.pc = pc]] /\ lock' = lock
  BY DEF Goto
<1>. QED
  BY <1>2, <1>3 DEF JobsType, Becomes

LEMMA LeaveBecomes ==
  ASSUME JobsType, NEW w \in Workers, Leave(w)
  PROVE  Becomes(w, Idle)
BY DEF Leave, JobsType, Becomes

LEMMA BeginBecomes ==
  ASSUME JobsType, NEW w \in Workers, NEW req, NEW pc, NEW events, Begin(w, req, pc, events)
  PROVE  Becomes(w, [req |-> req, pc |-> pc, events |-> events, seq |-> 0])
BY DEF Begin, JobsType, Becomes

LEMMA JobsTypeKept ==
  ASSUME JobsType, NEW w \in Workers, NEW h, Becomes(w, h), h = Idle \/ Handler(h)
  PROVE  JobsType'
BY DEF JobsType, Becomes

\* A handler that is at another point of its work is still one.
LEMMA HandlerAtPoint ==
  ASSUME NEW h, Handler(h), h.pc # "lock", NEW pc \in Pcs \ {"idle", "lock"},
         pc = "record" => h.req.op = "send", pc = "fetch" => h.req.op = "receive"
  PROVE  Handler(AtPoint(h, pc))
<1>. DEFINE g == AtPoint(h, pc)
<1>1. g.req = h.req /\ g.pc = pc /\ g.events = h.events /\ g.seq = h.seq
      /\ g = [req |-> g.req, pc |-> g.pc, events |-> g.events, seq |-> g.seq]
  BY DEF AtPoint
<1>. HIDE DEF g
<1>2. Handler(g)
  BY <1>1 DEF Handler, Carries
<1>. QED
  BY <1>2 DEF g

LEMMA LocksKept ==
  ASSUME LocksType, NEW w \in Workers, NEW h, Becomes(w, h), lock' = lock,
         \A r \in Rooms : Holding(h, r) <=> Holding(job[w], r)
  PROVE  LocksType'
<1>1. \A v \in Workers : \A r \in Rooms : Holding(job'[v], r) <=> Holding(job[v], r)
  BY DEF Becomes
<1>. QED
  BY <1>1 DEF LocksType, Holding

LEMMA LocksLeft ==
  ASSUME LocksType, JobsType, NEW w \in Workers, Leave(w)
  PROVE  LocksType'
<1>1. Becomes(w, Idle)
  BY LeaveBecomes
<1>2. \A r \in Rooms : ~Holding(Idle, r)
  BY DEF Holding, Idle
<1>3. DOMAIN lock' = Rooms /\ \A r \in Rooms : lock'[r] = IF lock[r] = w THEN None ELSE lock[r]
  BY DEF Leave
<1>4. ASSUME NEW r \in Rooms, NEW v \in Workers PROVE lock'[r] = v <=> Holding(job'[v], r)
  <2>1. None \notin Workers
    BY RoomsAssumption
  <2>2. CASE v = w
    BY <1>1, <1>2, <1>3, <2>1, <2>2 DEF Becomes
  <2>3. CASE v # w
    <3>1. job'[v] = job[v]
      BY <1>1, <2>3 DEF Becomes
    <3>2. lock'[r] = v <=> lock[r] = v
      BY <1>3, <2>1, <2>3
    <3>. QED
      BY <3>1, <3>2 DEF LocksType
  <2>. QED
    BY <2>2, <2>3
<1>. QED
  BY <1>3, <1>4 DEF LocksType, Holding

-----------------------------------------------------------------------------
(* Each action of a handler, on the handlers and the locks.                *)

LEMMA StartSendJobs ==
  ASSUME JobsType, LocksType, NEW w \in Workers, NEW req \in Requests, StartSend(w, req)
  PROVE  /\ JobsType' /\ LocksType'
         /\ \/ job' = job
            \/ Becomes(w, [req |-> req, pc |-> "lock", events |-> <<>>, seq |-> 0])
<1>1. CASE job' = job /\ lock' = lock
  BY <1>1 DEF JobsType, LocksType, Holding
<1>2. CASE Begin(w, req, "lock", <<>>) /\ lock' = lock
  <2>. DEFINE h == [req |-> req, pc |-> "lock", events |-> <<>>, seq |-> 0]
  <2>1. Becomes(w, h)
    BY <1>2, BeginBecomes
  <2>2. Handler(h)
    <3>1. <<>> \in Seq(Range(<<>>)) /\ DOMAIN <<>> = {}
      OBVIOUS
    <3>2. req.op = "send"
      BY DEF StartSend
    <3>. QED
      BY <3>1, <3>2 DEF Handler, Carries, Pcs
  <2>3. \A r \in Rooms : ~Holding(h, r) /\ ~Holding(job[w], r)
    BY DEF StartSend, Arrives, Doing, Holding
  <2>. HIDE DEF h
  <2>4. JobsType' /\ LocksType'
    BY <1>2, <2>1, <2>2, <2>3, JobsTypeKept, LocksKept
  <2>. QED
    BY <2>1, <2>4 DEF h
<1>. QED
  BY <1>1, <1>2 DEF StartSend

LEMMA StartMembershipJobs ==
  ASSUME JobsType, LocksType, NEW w \in Workers, NEW req \in Requests, StartMembership(w, req)
  PROVE  /\ JobsType' /\ LocksType'
         /\ Becomes(w, [req |-> req, pc |-> "lock", events |-> <<>>, seq |-> 0])
<1>. DEFINE h == [req |-> req, pc |-> "lock", events |-> <<>>, seq |-> 0]
<1>1. Becomes(w, h) /\ lock' = lock
  BY BeginBecomes DEF StartMembership
<1>2. Handler(h)
  <2>1. <<>> \in Seq(Range(<<>>)) /\ DOMAIN <<>> = {}
    OBVIOUS
  <2>2. req.op = "member"
    BY DEF StartMembership
  <2>. QED
    BY <2>1, <2>2 DEF Handler, Carries, Pcs
<1>3. \A r \in Rooms : ~Holding(h, r) /\ ~Holding(job[w], r)
  BY DEF StartMembership, Arrives, Doing, Holding
<1>. HIDE DEF h
<1>4. JobsType' /\ LocksType'
  BY <1>1, <1>2, <1>3, JobsTypeKept, LocksKept
<1>. QED
  BY <1>1, <1>4 DEF h

LEMMA ListOfOne ==
  ASSUME NEW e
  PROVE  /\ <<e>> \in Seq(Range(<<e>>)) /\ <<e>> # <<>> /\ Head(<<e>>) = e
         /\ DOMAIN <<e>> = {1} /\ <<e>>[1] = e /\ Tail(<<e>>) = <<>>
BY DEF Range

\* The PDUs of a transaction that arrives.
LEMMA PdusFit ==
  ASSUME NEW req \in Requests, req.op = "receive", NEW pdus \in req.transactions
  PROVE  /\ pdus \in Seq(Range(pdus)) /\ pdus # <<>> /\ Range(pdus) \subseteq Foreign
         /\ \A i \in DOMAIN pdus : pdus[i].room \in Rooms /\ Fits(pdus[i], pdus[i].room)
<1>1. /\ pdus \in Seq(Range(pdus)) /\ pdus # <<>>
      /\ \A pdu \in Range(pdus) : pdu.room \in Rooms /\ pdu.id \in Int /\ pdu.depth \in Nat
  BY RoomsAssumption DEF RequestTypes
<1>2. \A i \in DOMAIN pdus : pdus[i] \in Range(pdus)
  BY DEF Range
<1>3. Range(pdus) \subseteq Foreign
  BY DEF Foreign, Transactions
<1>. QED
  BY <1>1, <1>2, <1>3 DEF Fits

\* A handler that has read nothing yet, with the PDUs it is to judge.
Fetching(req, pdus) == [req |-> req, pc |-> "fetch", events |-> pdus, seq |-> 0]

LEMMA StartReceiveJobs ==
  ASSUME JobsType, LocksType, NEW w \in Workers, NEW req \in Requests, StartReceive(w, req)
  PROVE  /\ JobsType' /\ LocksType' /\ req.op = "receive"
         /\ \E pdus \in req.transactions : Becomes(w, Fetching(req, pdus))
<1>1. req.op = "receive" /\ lock' = lock
  BY DEF StartReceive
<1>2. PICK pdus \in req.transactions : Begin(w, req, "fetch", pdus)
  BY DEF StartReceive
<1>. DEFINE h == Fetching(req, pdus)
<1>3. Becomes(w, h)
  BY <1>2, BeginBecomes DEF Fetching
<1>4. h = [req |-> h.req, pc |-> h.pc, events |-> h.events, seq |-> h.seq]
      /\ h.req = req /\ h.pc = "fetch" /\ h.events = pdus /\ h.seq = 0
  BY DEF Fetching
<1>. HIDE DEF h
<1>5. Handler(h)
  BY <1>1, <1>4, PdusFit DEF Handler, Carries, Pcs
<1>6. \A r \in Rooms : ~Holding(h, r) /\ ~Holding(job[w], r)
  BY <1>1, <1>4 DEF StartReceive, Arrives, Doing, Holding
<1>7. JobsType' /\ LocksType'
  BY <1>1, <1>3, <1>5, <1>6, JobsTypeKept, LocksKept
<1>. QED
  BY <1>1, <1>3, <1>7 DEF h

LEMMA StartCreateJobs ==
  ASSUME JobsType, LocksType, minted \in Nat,
         NEW w \in Workers, NEW req \in Requests, StartCreate(w, req)
  PROVE  /\ JobsType' /\ LocksType'
         /\ Becomes(w, [req |-> req, pc |-> "event", events |-> CreationEvents(req, minted + 1),
                        seq |-> 0])
<1>. DEFINE list == CreationEvents(req, minted + 1)
            h == [req |-> req, pc |-> "event", events |-> list, seq |-> 0]
<1>1. Becomes(w, h) /\ lock' = lock
  BY BeginBecomes DEF StartCreate
<1>2. req.op = "create" /\ minted + 1 \in Nat
  BY DEF StartCreate
<1>3. /\ list \in Seq(Range(list)) /\ Len(list) = 3 + Len(req.extra) /\ Len(req.extra) \in Nat
      /\ \A i \in DOMAIN list :
           i \in 1..Len(list) /\ list[i].room = req.room /\ list[i].id = minted + 1 + i - 1
           /\ list[i].depth = i
  BY <1>2, CreationFits
<1>4. list # <<>>
  <2>1. Len(<<>>) = 0
    OBVIOUS
  <2>. HIDE DEF list
  <2>. QED
    BY <1>3, <2>1
<1>5. \A i \in DOMAIN list : Fits(list[i], req.room) /\ list[i].room = req.room
  BY <1>3 DEF Fits
<1>. HIDE DEF list
<1>6. Handler(h)
  <2>1. req.room \in Rooms
    BY <1>2, RoomsAssumption DEF RequestTypes
  <2>. QED
    BY <1>2, <1>3, <1>4, <1>5, <2>1 DEF Handler, Carries, Pcs
<1>7. \A r \in Rooms : ~Holding(h, r) /\ ~Holding(job[w], r)
  BY <1>2 DEF StartCreate, Arrives, Doing, Holding
<1>. HIDE DEF h
<1>8. JobsType' /\ LocksType'
  BY <1>1, <1>6, <1>7, JobsTypeKept, LocksKept
<1>. QED
  BY <1>1, <1>8 DEF h, list

\* A handler that got its lock carries the event it linked.
LinkedIn(w) == LinkedOn(timeline[job[w].req.room], job[w].req, minted + 1)

LEMMA LinkedInFits ==
  ASSUME EventsType, JobsType, minted \in Nat, NEW w \in Workers, job[w].pc # "idle",
         job[w].req.op # "receive"
  PROVE  Fits(LinkedIn(w), job[w].req.room)
<1>1. job[w].req.room \in Rooms
  BY HandlerUnderWay
<1>2. Placed(timeline[job[w].req.room]) /\ HasTip(timeline[job[w].req.room])
  BY <1>1 DEF EventsType, Placed, Fits
<1>3. minted + 1 \in Int
  OBVIOUS
<1>. QED
  BY <1>2, <1>3, LinkedFits DEF LinkedIn

LEMMA TakeLockJobs ==
  ASSUME EventsType, JobsType, LocksType, minted \in Nat, NEW w \in Workers, TakeLock(w)
  PROVE  /\ JobsType' /\ LocksType'
         /\ Becomes(w, [req |-> job[w].req, pc |-> "auth", events |-> <<LinkedIn(w)>>,
                        seq |-> job[w].seq])
<1>. DEFINE h == [req |-> job[w].req, pc |-> "auth", events |-> <<LinkedIn(w)>>, seq |-> job[w].seq]
<1>1. job[w].pc = "lock"
  BY DEF TakeLock, Doing
<1>2. Handler(job[w]) /\ job[w].req \in Requests /\ job[w].req.op # "receive"
      /\ job[w].req.room \in Rooms
  BY <1>1, HandlerUnderWay DEF Handler
<1>3. Becomes(w, h)
  <2>1. job[w] = [req |-> job[w].req, pc |-> job[w].pc, events |-> job[w].events, seq |-> job[w].seq]
    BY <1>2 DEF Handler
  <2>2. [[job[w] EXCEPT !.pc = "auth"] EXCEPT !.events = <<LinkedIn(w)>>] = h
    BY <2>1, PointAndEvents, Zenon
  <2>3. job' = [job EXCEPT ![w] = [[job[w] EXCEPT !.pc = "auth"] EXCEPT !.events = <<LinkedIn(w)>>]]
    BY DEF TakeLock, LinkedIn, JobsType
  <2>. HIDE DEF h
  <2>. QED
    BY <2>2, <2>3 DEF JobsType, Becomes
<1>4. Handler(h)
  <2>1. Fits(LinkedIn(w), job[w].req.room) /\ LinkedIn(w).room = job[w].req.room
    BY <1>1, <1>2, LinkedInFits DEF Fits
  <2>2. job[w].seq \in Nat /\ job[w].req \in Requests
    BY <1>2 DEF Handler
  <2>. QED
    BY <1>2, <2>1, <2>2, ListOfOne DEF Handler, Carries, Pcs
<1>5. LocksType'
  <2>1. job[w].req.op \in {"send", "member"}
    BY <1>1, <1>2 DEF Handler
  <2>2. /\ lock[job[w].req.room] = None /\ DOMAIN lock' = Rooms
        /\ \A r \in Rooms : lock'[r] = IF r = job[w].req.room THEN w ELSE lock[r]
    BY <1>2 DEF TakeLock, TakesLock, LocksType
  <2>3. \A r \in Rooms : Holding(h, r) <=> r = job[w].req.room
    BY <2>1 DEF Holding
  <2>4. \A r \in Rooms : ~Holding(job[w], r)
    BY <1>1 DEF Holding
  <2>. HIDE DEF h
  <2>5. ASSUME NEW r \in Rooms, NEW v \in Workers PROVE lock'[r] = v <=> Holding(job'[v], r)
    <3>1. CASE v = w
      BY <1>3, <2>2, <2>3, <2>4, <3>1 DEF Becomes, LocksType
    <3>2. CASE v # w
      <4>1. job'[v] = job[v]
        BY <1>3, <3>2 DEF Becomes
      <4>2. None \notin Workers
        BY RoomsAssumption
      <4>. QED
        BY <2>2, <3>2, <4>1, <4>2 DEF LocksType
    <3>. QED
      BY <3>1, <3>2
  <2>. QED
    BY <2>2, <2>5 DEF LocksType, Holding
<1>. HIDE DEF h
<1>6. JobsType'
  BY <1>3, <1>4, JobsTypeKept
<1>. QED
  BY <1>3, <1>5, <1>6 DEF h

\* A handler goes on with its event, past the lock.
LEMMA GotoJobs ==
  ASSUME JobsType, LocksType, NEW w \in Workers, job[w].pc \notin {"idle", "lock"},
         NEW pc \in Pcs \ {"idle", "lock"}, Goto(w, pc), pc = "record" => job[w].req.op = "send",
         pc # "fetch"
  PROVE  JobsType' /\ LocksType' /\ Becomes(w, AtPoint(job[w], pc))
<1>. DEFINE h == AtPoint(job[w], pc)
<1>1. Becomes(w, h) /\ lock' = lock
  BY GotoBecomes
<1>2. Handler(job[w])
  BY HandlerUnderWay
<1>3. Handler(h)
  BY <1>2, HandlerAtPoint
<1>4. \A r \in Rooms : Holding(h, r) <=> Holding(job[w], r)
  BY DEF AtPoint, Holding
<1>. HIDE DEF h
<1>5. JobsType' /\ LocksType'
  BY <1>1, <1>3, <1>4, JobsTypeKept, LocksKept
<1>. QED
  BY <1>1, <1>5 DEF h

LEMMA LeaveJobs ==
  ASSUME JobsType, LocksType, NEW w \in Workers, Leave(w)
  PROVE  JobsType' /\ LocksType' /\ Becomes(w, Idle)
BY LeaveBecomes, LocksLeft, JobsTypeKept

\* A handler that has counted the stream.
Counted(h, n) == [req |-> h.req, pc |-> "stream", events |-> h.events, seq |-> n]

LEMMA CountStreamJobs ==
  ASSUME JobsType, LocksType, StreamType, NEW w \in Workers, CountStream(w)
  PROVE  JobsType' /\ LocksType' /\ Becomes(w, Counted(job[w], Len(stream)))
<1>. DEFINE h == Counted(job[w], Len(stream))
<1>1. job[w].pc = "count"
  BY DEF CountStream, Doing
<1>2. Handler(job[w])
  BY <1>1, HandlerUnderWay
<1>3. Becomes(w, h) /\ lock' = lock
  <2>1. job[w] = [req |-> job[w].req, pc |-> job[w].pc, events |-> job[w].events, seq |-> job[w].seq]
    BY <1>2 DEF Handler
  <2>2. [[job[w] EXCEPT !.pc = "stream"] EXCEPT !.seq = Len(stream)] = h
    BY <2>1, PointAndSeq, Zenon DEF Counted
  <2>3. job' = [job EXCEPT ![w] = [[job[w] EXCEPT !.pc = "stream"] EXCEPT !.seq = Len(stream)]]
    BY DEF CountStream, JobsType
  <2>4. lock' = lock
    BY DEF CountStream
  <2>. HIDE DEF h
  <2>. QED
    BY <2>2, <2>3, <2>4 DEF JobsType, Becomes
<1>4. h.req = job[w].req /\ h.pc = "stream" /\ h.events = job[w].events /\ h.seq = Len(stream)
      /\ h = [req |-> h.req, pc |-> h.pc, events |-> h.events, seq |-> h.seq]
  BY DEF Counted
<1>. HIDE DEF h
<1>5. Handler(h)
  <2>1. Len(stream) \in Nat
    BY DEF StreamType
  <2>. QED
    BY <1>1, <1>2, <1>4, <2>1 DEF Handler, Carries, Pcs
<1>6. \A r \in Rooms : Holding(h, r) <=> Holding(job[w], r)
  BY <1>1, <1>4 DEF Holding
<1>7. JobsType' /\ LocksType'
  BY <1>3, <1>5, <1>6, JobsTypeKept, LocksKept
<1>. QED
  BY <1>3, <1>7 DEF h

\* A handler goes on with the rest of its list.
WithRest(h, pc) == [req |-> h.req, pc |-> pc, events |-> Tail(h.events), seq |-> h.seq]

LEMMA RestJobs ==
  ASSUME JobsType, LocksType, NEW w \in Workers, job[w].pc \notin {"idle", "lock"},
         job[w].req.op \notin {"send", "member"}, Tail(job[w].events) # <<>>, NEW pc \in {"auth", "event"},
         job' = [job EXCEPT ![w].pc = pc, ![w].events = Tail(job[w].events)], lock' = lock
  PROVE  JobsType' /\ LocksType' /\ Becomes(w, WithRest(job[w], pc))
<1>1. Handler(job[w])
  BY HandlerUnderWay
<1>. DEFINE h == WithRest(job[w], pc)
<1>2. Becomes(w, h)
  <2>1. job[w] = [req |-> job[w].req, pc |-> job[w].pc, events |-> job[w].events, seq |-> job[w].seq]
    BY <1>1 DEF Handler
  <2>2. [[job[w] EXCEPT !.pc = pc] EXCEPT !.events = Tail(job[w].events)] = h
    BY <2>1, PointAndEvents, Zenon DEF WithRest
  <2>3. job' = [job EXCEPT ![w] = [[job[w] EXCEPT !.pc = pc] EXCEPT !.events = Tail(job[w].events)]]
    BY DEF JobsType
  <2>. HIDE DEF h
  <2>. QED
    BY <2>2, <2>3 DEF JobsType, Becomes
<1>3. h.req = job[w].req /\ h.pc = pc /\ h.events = Tail(job[w].events) /\ h.seq = job[w].seq
      /\ h = [req |-> h.req, pc |-> h.pc, events |-> h.events, seq |-> h.seq]
  BY DEF WithRest
<1>. HIDE DEF h
<1>4. Handler(h)
  <2>. DEFINE s == job[w].events
  <2>1. s \in Seq(Range(s)) /\ s # <<>> /\ Carries(job[w])
    BY <1>1 DEF Handler
  <2>2. Tail(s) \in Seq(Range(Tail(s))) /\ \A i \in DOMAIN Tail(s) : i + 1 \in DOMAIN s /\ Tail(s)[i] = s[i + 1]
    BY <2>1, TailFacts
  <2>3. Carries(h)
    BY <1>3, <2>1, <2>2 DEF Carries
  <2>. QED
    BY <1>1, <1>3, <2>2, <2>3 DEF Handler, Pcs
<1>5. \A r \in Rooms : Holding(h, r) <=> Holding(job[w], r)
  BY <1>3 DEF Holding
<1>6. JobsType' /\ LocksType'
  BY <1>2, <1>4, <1>5, JobsTypeKept, LocksKept
<1>. QED
  BY <1>2, <1>6 DEF h

LEMMA MovesOnJobs ==
  ASSUME JobsType, LocksType, NEW w \in Workers, job[w].pc \notin {"idle", "lock"},
         NEW accepted, MovesOn(w, accepted)
  PROVE  /\ JobsType' /\ LocksType'
         /\ \/ Becomes(w, WithRest(job[w], "auth")) /\ job[w].req.op \notin {"send", "member"}
               /\ Tail(job[w].events) # <<>>
            \/ Becomes(w, Idle)
<1>1. CASE Leave(w)
  BY <1>1, LeaveJobs
<1>2. CASE Tail(job[w].events) # <<>>
  <2>1. job' = [job EXCEPT ![w].pc = "auth", ![w].events = Tail(job[w].events)] /\ lock' = lock
    BY <1>2 DEF MovesOn
  <2>2. job[w].req.op \notin {"send", "member"}
    BY <1>2, HandlerUnderWay DEF Handler
  <2>. QED
    BY <1>2, <2>1, <2>2, RestJobs
<1>. QED
  BY <1>1, <1>2 DEF MovesOn

LEMMA FetchJobs ==
  ASSUME JobsType, LocksType, NEW w \in Workers, Fetch(w)
  PROVE  /\ JobsType' /\ LocksType'
         /\ \E pc \in {"fetch", "auth"} : Becomes(w, AtPoint(job[w], pc))
<1>1. job[w].pc = "fetch" /\ lock' = lock
  BY DEF Fetch, Doing
<1>2. Handler(job[w]) /\ job[w].req.op = "receive"
  BY <1>1, HandlerUnderWay DEF Handler
<1>3. PICK pc \in {"fetch", "auth"} : job' = [job EXCEPT ![w].pc = pc]
  <2>1. PICK room \in fetched[w].todo :
          job' = [job EXCEPT ![w].pc = IF fetched[w].todo = {room} THEN "auth" ELSE "fetch"]
    BY DEF Fetch
  <2>. QED
    BY <2>1
<1>. DEFINE h == AtPoint(job[w], pc)
<1>4. Becomes(w, h)
  <2>1. job[w] = [req |-> job[w].req, pc |-> job[w].pc, events |-> job[w].events, seq |-> job[w].seq]
    BY <1>2 DEF Handler
  <2>2. [job[w] EXCEPT !.pc = pc] = h
    BY <2>1 DEF AtPoint
  <2>3. job' = [job EXCEPT ![w] = [job[w] EXCEPT !.pc = pc]]
    BY <1>3
  <2>. HIDE DEF h
  <2>. QED
    BY <2>2, <2>3 DEF JobsType, Becomes
<1>5. Handler(h)
  BY <1>1, <1>2, HandlerAtPoint DEF Pcs
<1>6. \A r \in Rooms : Holding(h, r) <=> Holding(job[w], r)
  BY <1>1, <1>2 DEF AtPoint, Holding
<1>. HIDE DEF h
<1>7. JobsType' /\ LocksType'
  BY <1>1, <1>4, <1>5, <1>6, JobsTypeKept, LocksKept
<1>. QED
  BY <1>4, <1>7 DEF h

LEMMA PutStreamJobs ==
  ASSUME JobsType, LocksType, NEW w \in Workers, PutStream(w)
  PROVE  /\ JobsType' /\ LocksType'
         /\ \/ Becomes(w, AtPoint(job[w], "record")) /\ job[w].req.op = "send"
            \/ Becomes(w, WithRest(job[w], "event")) /\ job[w].req.op = "create" /\ Tail(job[w].events) # <<>>
            \/ Becomes(w, WithRest(job[w], "auth")) /\ job[w].req.op \notin {"send", "member", "create"}
               /\ Tail(job[w].events) # <<>>
            \/ Becomes(w, Idle)
<1>1. job[w].pc = "stream"
  BY DEF PutStream, Doing
<1>2. CASE job[w].req.op = "send"
  <2>1. Goto(w, "record")
    BY <1>2 DEF PutStream
  <2>. QED
    BY <1>1, <1>2, <2>1, GotoJobs DEF Pcs
<1>3. CASE job[w].req.op = "create" /\ Tail(job[w].events) # <<>>
  <2>1. job' = [job EXCEPT ![w].pc = "event", ![w].events = Tail(job[w].events)] /\ lock' = lock
    BY <1>3 DEF PutStream
  <2>. QED
    BY <1>1, <1>3, <2>1, RestJobs
<1>4. CASE ~(job[w].req.op = "create" /\ Tail(job[w].events) # <<>>) /\ MovesOn(w, {Current(w)})
  BY <1>1, <1>4, MovesOnJobs
<1>. QED
  BY <1>2, <1>3, <1>4 DEF PutStream

-----------------------------------------------------------------------------
(* Each action, on the store.                                              *)

LEMMA CurrentFits ==
  ASSUME JobsType, NEW w \in Workers, job[w].pc \notin {"idle", "lock"}
  PROVE  /\ Current(w).room \in Rooms /\ Fits(Current(w), Current(w).room)
         /\ job[w].req.op # "receive" => Current(w).room = job[w].req.room
<1>1. Handler(job[w])
  BY HandlerUnderWay
<1>. DEFINE s == job[w].events
<1>2. s \in Seq(Range(s)) /\ s # <<>> /\ Carries(job[w])
  BY <1>1 DEF Handler
<1>3. 1 \in DOMAIN s /\ Head(s) = s[1]
  BY <1>2, TailFacts
<1>. QED
  BY <1>2, <1>3 DEF Current, Carries

\* The room's timeline after the put of an event.
LEMMA PutEventTimeline ==
  ASSUME EventsType, JobsType, NEW w \in Workers, PutEvent(w)
  PROVE  /\ DOMAIN timeline' = Rooms /\ Current(w).room \in Rooms
         /\ Fits(Current(w), Current(w).room)
         /\ \A r \in Rooms : timeline'[r] = IF r = Current(w).room THEN timeline[r] \cup {Current(w)}
                                           ELSE timeline[r]
<1>1. job[w].pc = "event"
  BY DEF PutEvent, Doing
<1>2. Fits(Current(w), Current(w).room) /\ Current(w).room \in Rooms
  BY <1>1, CurrentFits
<1>3. timeline' = [timeline EXCEPT ![Current(w).room] = @ \cup {Current(w)}]
  BY DEF PutEvent
<1>. QED
  BY <1>2, <1>3 DEF EventsType

LEMMA PutEventStore ==
  ASSUME EventsType, StatesType, StreamType, JobsType, NEW w \in Workers, PutEvent(w)
  PROVE  EventsType' /\ StatesType' /\ StreamType'
<1>. DEFINE rm == Current(w).room  e == Current(w)
<1>1. /\ DOMAIN timeline' = Rooms /\ rm \in Rooms /\ Fits(e, rm)
      /\ \A r \in Rooms : timeline'[r] = IF r = rm THEN timeline[r] \cup {e} ELSE timeline[r]
  BY PutEventTimeline
<1>. HIDE DEF rm, e
<1>2. ASSUME NEW r \in Rooms
      PROVE  HasTip(timeline'[r]) /\ \A f \in timeline'[r] : Fits(f, r)
  <2>1. HasTip(timeline[r]) /\ Placed(timeline[r]) /\ \A f \in timeline[r] : Fits(f, r)
    BY DEF EventsType, Placed, Fits
  <2>2. CASE r = rm
    <3>1. HasTip(timeline[r] \cup {e})
      BY <1>1, <2>1, TipOfMore DEF Fits
    <3>. QED
      BY <1>1, <2>1, <2>2, <3>1
  <2>3. CASE r # rm
    BY <1>1, <2>1, <2>3
  <2>. QED
    BY <2>2, <2>3
<1>3. \A r \in Rooms : timeline[r] \subseteq timeline'[r]
  BY <1>1
<1>4. room_state' = room_state /\ stream' = stream
  BY DEF PutEvent
<1>. QED
  BY <1>1, <1>2, <1>3, <1>4 DEF EventsType, StatesType, StreamType

LEMMA PutStateStore ==
  ASSUME EventsType, StatesType, StreamType, JobsType, AppendsType, NEW w \in Workers, PutState(w)
  PROVE  EventsType' /\ StatesType' /\ StreamType'
<1>. DEFINE rm == Current(w).room  e == Current(w)
<1>1. job[w].pc = "state"
  BY DEF PutState, Doing
<1>2. Fits(e, rm) /\ rm \in Rooms /\ e \in timeline[rm] /\ is_state(e)
  BY <1>1, CurrentFits DEF AppendsType
<1>3. timeline' = timeline /\ stream' = stream /\ room_state' = [room_state EXCEPT ![rm] = Over(@, {e})]
  BY <1>2 DEF PutState, Fits
<1>. HIDE DEF rm, e
<1>4. DOMAIN room_state' = Rooms
      /\ \A r \in Rooms : room_state'[r] = IF r = rm THEN Over(room_state[r], {e}) ELSE room_state[r]
  BY <1>2, <1>3 DEF StatesType
<1>5. \A f \in Over(room_state[rm], {e}) : f = e \/ (f \in room_state[rm] /\ ~SameSlot(f, e))
  BY DEF Over
<1>6. \A f, g : SameSlot(f, g) <=> SameSlot(g, f)
  BY DEF SameSlot
<1>7. ASSUME NEW r \in Rooms
      PROVE  /\ room_state'[r] \subseteq timeline'[r]
             /\ \A f, g \in room_state'[r] : is_state(f) /\ (SameSlot(f, g) => f = g)
  <2>0. /\ room_state[r] \subseteq timeline[r]
        /\ \A f, g \in room_state[r] : is_state(f) /\ (SameSlot(f, g) => f = g)
    BY DEF StatesType
  <2>1. CASE r = rm
    <3>1. \A f \in room_state'[r] : f = e \/ (f \in room_state[r] /\ ~SameSlot(f, e))
      BY <1>4, <1>5, <2>1
    <3>2. \A f \in room_state'[r] : f \in timeline'[r] /\ is_state(f)
      BY <1>2, <1>3, <2>0, <2>1, <3>1
    <3>3. ASSUME NEW f \in room_state'[r], NEW g \in room_state'[r], SameSlot(f, g) PROVE f = g
      BY <1>6, <2>0, <3>1, <3>3
    <3>. QED
      BY <3>2, <3>3
  <2>2. CASE r # rm
    BY <1>3, <1>4, <2>2 DEF StatesType
  <2>. QED
    BY <2>1, <2>2
<1>8. StatesType'
  BY <1>4, <1>7 DEF StatesType
<1>. QED
  BY <1>3, <1>8 DEF EventsType, StreamType

LEMMA PutStreamStore ==
  ASSUME EventsType, StatesType, StreamType, JobsType, AppendsType, NEW w \in Workers, PutStream(w)
  PROVE  EventsType' /\ StatesType' /\ StreamType'
<1>. DEFINE rm == Current(w).room  e == Current(w)  at == job[w].seq + 1
<1>1. job[w].pc = "stream"
  BY DEF PutStream, Doing
<1>2. rm \in Rooms /\ e \in timeline[rm]
  BY <1>1, CurrentFits DEF AppendsType
<1>3. timeline' = timeline /\ room_state' = room_state
      /\ stream' = IF at <= Len(stream) THEN [stream EXCEPT ![at] = e] ELSE Append(stream, e)
  BY DEF PutStream
<1>4. at \in Nat \ {0}
  <2>1. Handler(job[w])
    BY <1>1, HandlerUnderWay
  <2>2. job[w].seq \in Nat
    BY <2>1 DEF Handler
  <2>. QED
    BY <2>2
<1>. HIDE DEF rm, e, at
<1>5. /\ Len(stream') \in Nat /\ DOMAIN stream' = 1..Len(stream')
      /\ stream' \in Seq(Range(stream) \cup {e})
      /\ \A i \in DOMAIN stream' : stream'[i] = e \/ (i \in DOMAIN stream /\ stream'[i] = stream[i])
  <2>1. stream \in Seq(Range(stream) \cup {e}) /\ Len(stream) \in Nat
    BY SeqInMore DEF StreamType
  <2>. DEFINE S == Range(stream) \cup {e}
  <2>2. stream \in Seq(S) /\ e \in S
    BY <2>1
  <2>. HIDE DEF S
  <2>3. CASE at <= Len(stream)
    BY <1>3, <1>4, <2>2, <2>3 DEF S
  <2>4. CASE ~(at <= Len(stream))
    <3>1. stream' = Append(stream, e)
      BY <1>3, <2>4
    <3>2. Append(stream, e) \in Seq(S) /\ Len(Append(stream, e)) = Len(stream) + 1
          /\ DOMAIN Append(stream, e) = 1..(Len(stream) + 1)
          /\ \A i \in 1..(Len(stream) + 1) :
               Append(stream, e)[i] = IF i <= Len(stream) THEN stream[i] ELSE e
      BY <2>2, AppendFacts
    <3>3. DOMAIN stream = 1..Len(stream)
      BY <2>2
    <3>. QED
      BY <2>1, <3>1, <3>2, <3>3 DEF S
  <2>. QED
    BY <2>3, <2>4
<1>6. stream' \in Seq(Range(stream'))
  BY <1>5, SeqOfValues
<1>7. \A i \in DOMAIN stream' : \E r \in Rooms : stream'[i] \in timeline'[r]
  BY <1>2, <1>3, <1>5 DEF StreamType
<1>. QED
  BY <1>3, <1>6, <1>7 DEF EventsType, StatesType, StreamType

\* Where a handler's event stands after a step that shrinks no timeline.
LEMMA AppendsKept ==
  ASSUME AppendsType, EventsType, JobsType, NEW w \in Workers, NEW h, Becomes(w, h),
         \A r \in Rooms : timeline[r] \subseteq timeline'[r],
         h.pc \in {"state", "count", "stream", "record"} =>
           Head(h.events).room \in Rooms /\ Head(h.events) \in timeline'[Head(h.events).room],
         h.pc = "state" => is_state(Head(h.events))
  PROVE  AppendsType'
<1>1. ASSUME NEW v \in Workers
      PROVE  /\ job'[v].pc \in {"state", "count", "stream", "record"} =>
                  Head(job'[v].events) \in timeline'[Head(job'[v].events).room]
             /\ job'[v].pc = "state" => is_state(Head(job'[v].events))
  <2>1. CASE v = w
    BY <2>1 DEF Becomes
  <2>2. CASE v # w
    <3>1. job'[v] = job[v]
      BY <2>2 DEF Becomes
    <3>2. job[v].pc \notin {"idle", "lock"} => Current(v).room \in Rooms
      BY CurrentFits
    <3>. QED
      BY <3>1, <3>2 DEF AppendsType, Current
  <2>. QED
    BY <2>1, <2>2
<1>. QED
  BY <1>1 DEF AppendsType, Current

LEMMA StoreSame ==
  ASSUME EventsType, StatesType, StreamType, UNCHANGED store
  PROVE  /\ EventsType' /\ StatesType' /\ StreamType'
         /\ \A r \in Rooms : timeline[r] \subseteq timeline'[r]
BY DEF EventsType, StatesType, StreamType, store

LEMMA CountsSame ==
  ASSUME CountsType, minted' = minted, crashes' = crashes, asked' = asked
  PROVE  CountsType'
BY DEF CountsType

LEMMA ArrivalCounted ==
  ASSUME CountsType, NEW w \in Workers, NEW req \in Requests, Arrives(w, req), minted' \in Nat
  PROVE  CountsType'
<1>1. /\ Tries[req] \in Nat /\ asked[req] \in Nat /\ asked[req] < Tries[req]
      /\ crashes' = crashes /\ asked' = [asked EXCEPT ![req] = @ + 1]
  <2>1. Tries[req] \in Nat
    BY RoomsAssumption
  <2>2. asked[req] \in 0..Tries[req]
    BY DEF CountsType
  <2>3. asked[req] < Tries[req] /\ crashes' = crashes /\ asked' = [asked EXCEPT ![req] = @ + 1]
    BY DEF Arrives
  <2>. QED
    BY <2>1, <2>2, <2>3
<1>2. DOMAIN asked' = Requests /\ \A q \in Requests : asked'[q] = IF q = req THEN asked[q] + 1 ELSE asked[q]
  BY <1>1 DEF CountsType
<1>3. \A q \in Requests : asked'[q] \in 0..Tries[q]
  BY <1>1, <1>2 DEF CountsType
<1>. QED
  BY <1>1, <1>2, <1>3 DEF CountsType

\* The steps by which a handler starts.
LEMMA StartsType ==
  ASSUME TypeInv, NEW w \in Workers, NEW req \in Requests,
         StartSend(w, req) \/ StartMembership(w, req) \/ StartReceive(w, req) \/ StartCreate(w, req)
  PROVE  TypeInv'
<1>0. /\ EventsType /\ StatesType /\ StreamType /\ JobsType /\ AppendsType /\ LocksType /\ CountsType
      /\ minted \in Nat
  BY DEF TypeInv, CountsType
<1>1. EventsType' /\ StatesType' /\ StreamType' /\ \A r \in Rooms : timeline[r] \subseteq timeline'[r]
  BY <1>0, StoreSame DEF StartSend, StartMembership, StartReceive, StartCreate
<1>2. CASE StartSend(w, req)
  <2>1. JobsType' /\ LocksType'
    BY <1>0, <1>2, StartSendJobs
  <2>2. AppendsType'
    <3>. DEFINE h == [req |-> req, pc |-> "lock", events |-> <<>>, seq |-> 0]
    <3>1. CASE job' = job
      <4>1. timeline' = timeline
        BY <1>2 DEF StartSend, store
      <4>. QED
        BY <1>0, <3>1, <4>1 DEF AppendsType, Current
    <3>2. CASE Becomes(w, h)
      <4>1. h.pc = "lock"
        OBVIOUS
      <4>. HIDE DEF h
      <4>. QED
        BY <1>0, <1>1, <3>2, <4>1, AppendsKept
    <3>. QED
      BY <1>0, <1>2, <3>1, <3>2, StartSendJobs
  <2>3. CountsType'
    BY <1>0, <1>2, ArrivalCounted DEF StartSend
  <2>. QED
    BY <1>1, <2>1, <2>2, <2>3 DEF TypeInv
<1>3. CASE StartMembership(w, req)
  <2>. DEFINE h == [req |-> req, pc |-> "lock", events |-> <<>>, seq |-> 0]
  <2>1. JobsType' /\ LocksType' /\ Becomes(w, h)
    BY <1>0, <1>3, StartMembershipJobs
  <2>2. h.pc = "lock"
    OBVIOUS
  <2>. HIDE DEF h
  <2>3. AppendsType'
    BY <1>0, <1>1, <2>1, <2>2, AppendsKept
  <2>4. CountsType'
    BY <1>0, <1>3, ArrivalCounted DEF StartMembership
  <2>. QED
    BY <1>1, <2>1, <2>3, <2>4 DEF TypeInv
<1>4. CASE StartReceive(w, req)
  <2>0. PICK pdus \in req.transactions : Becomes(w, Fetching(req, pdus))
    BY <1>0, <1>4, StartReceiveJobs
  <2>. DEFINE h == Fetching(req, pdus)
  <2>1. JobsType' /\ LocksType' /\ Becomes(w, h)
    BY <1>0, <1>4, <2>0, StartReceiveJobs
  <2>2. h.pc = "fetch"
    BY DEF Fetching
  <2>. HIDE DEF h
  <2>3. AppendsType'
    BY <1>0, <1>1, <2>1, <2>2, AppendsKept
  <2>4. CountsType'
    BY <1>0, <1>4, ArrivalCounted DEF StartReceive
  <2>. QED
    BY <1>1, <2>1, <2>3, <2>4 DEF TypeInv
<1>5. CASE StartCreate(w, req)
  <2>. DEFINE h == [req |-> req, pc |-> "event", events |-> CreationEvents(req, minted + 1), seq |-> 0]
  <2>1. JobsType' /\ LocksType' /\ Becomes(w, h)
    BY <1>0, <1>5, StartCreateJobs
  <2>2. h.pc = "event"
    OBVIOUS
  <2>. HIDE DEF h
  <2>3. AppendsType'
    BY <1>0, <1>1, <2>1, <2>2, AppendsKept
  <2>4. minted' \in Nat
    <3>1. req.op = "create" /\ minted' = minted + 3 + Len(req.extra) /\ minted + 1 \in Nat
      BY <1>0, <1>5 DEF StartCreate
    <3>2. Len(req.extra) \in Nat
      BY <3>1, CreationFits
    <3>3. minted \in Nat
      BY <1>0
    <3>4. \A n \in Nat : minted + 3 + n \in Nat
      BY <3>3
    <3>. QED
      BY <3>1, <3>2, <3>4, Zenon
  <2>5. CountsType'
    BY <1>0, <1>5, <2>4, ArrivalCounted DEF StartCreate
  <2>. QED
    BY <1>1, <2>1, <2>3, <2>5 DEF TypeInv
<1>. QED
  BY <1>2, <1>3, <1>4, <1>5

LEMMA IdleAppends ==
  ASSUME AppendsType, EventsType, JobsType, NEW w \in Workers, Becomes(w, Idle),
         \A r \in Rooms : timeline[r] \subseteq timeline'[r]
  PROVE  AppendsType'
<1>1. Idle.pc = "idle"
  BY DEF Idle
<1>. QED
  BY <1>1, AppendsKept

LEMMA RestAppends ==
  ASSUME AppendsType, EventsType, JobsType, NEW w \in Workers, NEW pc \in {"auth", "event"},
         Becomes(w, WithRest(job[w], pc)), \A r \in Rooms : timeline[r] \subseteq timeline'[r]
  PROVE  AppendsType'
<1>. DEFINE h == WithRest(job[w], pc)
<1>1. h.pc \in {"auth", "event"} /\ Becomes(w, h)
  BY DEF WithRest
<1>. HIDE DEF h
<1>. QED
  BY <1>1, AppendsKept

LEMMA AtPointFields ==
  ASSUME NEW h, NEW pc
  PROVE  /\ AtPoint(h, pc).pc = pc /\ AtPoint(h, pc).req = h.req
         /\ AtPoint(h, pc).events = h.events /\ AtPoint(h, pc).seq = h.seq
BY DEF AtPoint

\* The steps of a handler that has started.
LEMMA HandlersType ==
  ASSUME TypeInv, NEW w \in Workers,
         \/ TakeLock(w) \/ Fetch(w) \/ Authorize(w) \/ PutEvent(w) \/ PutState(w)
         \/ CountStream(w) \/ PutStream(w) \/ RecordTxn(w)
  PROVE  TypeInv'
<1>0. /\ EventsType /\ StatesType /\ StreamType /\ JobsType /\ AppendsType /\ LocksType /\ CountsType
      /\ minted \in Nat
  BY DEF TypeInv, CountsType
<1>1. CASE TakeLock(w)
  <2>. DEFINE h == [req |-> job[w].req, pc |-> "auth", events |-> <<LinkedIn(w)>>, seq |-> job[w].seq]
  <2>1. JobsType' /\ LocksType' /\ Becomes(w, h)
    BY <1>0, <1>1, TakeLockJobs
  <2>2. h.pc = "auth"
    OBVIOUS
  <2>. HIDE DEF h
  <2>3. EventsType' /\ StatesType' /\ StreamType' /\ \A r \in Rooms : timeline[r] \subseteq timeline'[r]
    BY <1>0, <1>1, StoreSame DEF TakeLock
  <2>4. AppendsType'
    BY <1>0, <2>1, <2>2, <2>3, AppendsKept
  <2>5. CountsType'
    BY <1>0, <1>1 DEF CountsType, TakeLock, ledger
  <2>. QED
    BY <2>1, <2>3, <2>4, <2>5 DEF TypeInv
<1>2. CASE Authorize(w)
  <2>1. job[w].pc = "auth"
    BY <1>2 DEF Authorize, Doing
  <2>2. EventsType' /\ StatesType' /\ StreamType' /\ \A r \in Rooms : timeline[r] \subseteq timeline'[r]
    BY <1>0, <1>2, StoreSame DEF Authorize
  <2>3. CountsType'
    BY <1>0, <1>2, CountsSame DEF Authorize, ledger
  <2>4. CASE Goto(w, "event")
    <3>1. JobsType' /\ LocksType' /\ Becomes(w, AtPoint(job[w], "event"))
      BY <1>0, <2>1, <2>4, GotoJobs DEF Pcs
    <3>2. AppendsType'
      BY <1>0, <2>2, <3>1, AppendsKept, AtPointFields
    <3>. QED
      BY <2>2, <2>3, <3>1, <3>2 DEF TypeInv
  <2>5. CASE MovesOn(w, {})
    <3>1. JobsType' /\ LocksType'
      BY <1>0, <2>1, <2>5, MovesOnJobs
    <3>2. AppendsType'
      <4>1. CASE Becomes(w, WithRest(job[w], "auth"))
        BY <1>0, <2>2, <4>1, RestAppends
      <4>2. CASE Becomes(w, Idle)
        BY <1>0, <2>2, <4>2, IdleAppends
      <4>. QED
        BY <1>0, <2>1, <2>5, <4>1, <4>2, MovesOnJobs
    <3>. QED
      BY <2>2, <2>3, <3>1, <3>2 DEF TypeInv
  <2>. QED
    BY <1>2, <2>4, <2>5 DEF Authorize, Refused
<1>3. CASE PutEvent(w)
  <2>. DEFINE pc == IF is_state(Current(w)) THEN "state" ELSE "count"
  <2>1. job[w].pc = "event" /\ Goto(w, pc)
    BY <1>3 DEF PutEvent, Doing
  <2>2. pc \in {"state", "count"} /\ (pc = "state" => is_state(Current(w)))
    OBVIOUS
  <2>. HIDE DEF pc
  <2>3. JobsType' /\ LocksType' /\ Becomes(w, AtPoint(job[w], pc))
    BY <1>0, <2>1, <2>2, GotoJobs DEF Pcs
  <2>4. EventsType' /\ StatesType' /\ StreamType'
    BY <1>0, <1>3, PutEventStore
  <2>5. /\ \A r \in Rooms : timeline[r] \subseteq timeline'[r]
        /\ Current(w).room \in Rooms /\ Current(w) \in timeline'[Current(w).room]
    BY <1>0, <1>3, PutEventTimeline
  <2>6. AppendsType'
    BY <1>0, <2>2, <2>3, <2>5, AppendsKept, AtPointFields DEF Current
  <2>7. CountsType'
    BY <1>0, <1>3, CountsSame DEF PutEvent, ledger
  <2>. QED
    BY <2>3, <2>4, <2>6, <2>7 DEF TypeInv
<1>4. CASE PutState(w)
  <2>1. job[w].pc = "state" /\ Goto(w, "count") /\ timeline' = timeline
    BY <1>4 DEF PutState, Doing
  <2>2. JobsType' /\ LocksType' /\ Becomes(w, AtPoint(job[w], "count"))
    BY <1>0, <2>1, GotoJobs DEF Pcs
  <2>3. EventsType' /\ StatesType' /\ StreamType'
    BY <1>0, <1>4, PutStateStore
  <2>4. Current(w).room \in Rooms /\ Current(w) \in timeline'[Current(w).room]
    BY <1>0, <2>1, CurrentFits DEF AppendsType
  <2>5. AppendsType'
    BY <1>0, <2>1, <2>2, <2>4, AppendsKept, AtPointFields DEF Current
  <2>6. CountsType'
    BY <1>0, <1>4, CountsSame DEF PutState, ledger
  <2>. QED
    BY <2>2, <2>3, <2>5, <2>6 DEF TypeInv
<1>5. CASE CountStream(w)
  <2>1. job[w].pc = "count" /\ timeline' = timeline
    BY <1>5 DEF CountStream, Doing, store
  <2>2. JobsType' /\ LocksType' /\ Becomes(w, Counted(job[w], Len(stream)))
    BY <1>0, <1>5, CountStreamJobs
  <2>3. EventsType' /\ StatesType' /\ StreamType'
    BY <1>0, <1>5, StoreSame DEF CountStream
  <2>4. Current(w).room \in Rooms /\ Current(w) \in timeline'[Current(w).room]
    BY <1>0, <2>1, CurrentFits DEF AppendsType
  <2>5. AppendsType'
    <3>. DEFINE h == Counted(job[w], Len(stream))
    <3>1. h.pc = "stream" /\ h.events = job[w].events /\ h.req = job[w].req
      BY DEF Counted
    <3>. HIDE DEF h
    <3>2. Becomes(w, h)
      BY <2>2 DEF h
    <3>. QED
      BY <1>0, <2>1, <2>4, <3>1, <3>2, AppendsKept DEF Current
  <2>6. CountsType'
    BY <1>0, <1>5, CountsSame DEF CountStream, ledger
  <2>. QED
    BY <2>2, <2>3, <2>5, <2>6 DEF TypeInv
<1>6. CASE PutStream(w)
  <2>1. job[w].pc = "stream" /\ timeline' = timeline
    BY <1>6 DEF PutStream, Doing
  <2>2. JobsType' /\ LocksType'
    BY <1>0, <1>6, PutStreamJobs
  <2>3. EventsType' /\ StatesType' /\ StreamType'
    BY <1>0, <1>6, PutStreamStore
  <2>4. Current(w).room \in Rooms /\ Current(w) \in timeline'[Current(w).room]
    BY <1>0, <2>1, CurrentFits DEF AppendsType
  <2>5. AppendsType'
    <3>1. CASE Becomes(w, AtPoint(job[w], "record"))
      BY <1>0, <2>1, <2>4, <3>1, AppendsKept, AtPointFields DEF Current
    <3>2. CASE \E pc \in {"auth", "event"} : Becomes(w, WithRest(job[w], pc))
      BY <1>0, <2>1, <3>2, RestAppends
    <3>3. CASE Becomes(w, Idle)
      BY <1>0, <2>1, <3>3, IdleAppends
    <3>. QED
      BY <1>0, <1>6, <3>1, <3>2, <3>3, PutStreamJobs
  <2>6. CountsType'
    BY <1>0, <1>6, CountsSame DEF PutStream, ledger
  <2>. QED
    BY <2>2, <2>3, <2>5, <2>6 DEF TypeInv
<1>7. CASE RecordTxn(w)
  <2>1. JobsType' /\ LocksType' /\ Becomes(w, Idle)
    BY <1>0, <1>7, LeaveJobs DEF RecordTxn
  <2>2. timeline' = timeline /\ room_state' = room_state /\ stream' = stream
    BY <1>7 DEF RecordTxn
  <2>3. EventsType' /\ StatesType' /\ StreamType'
    BY <1>0, <2>2 DEF EventsType, StatesType, StreamType
  <2>4. AppendsType'
    BY <1>0, <2>1, <2>2, IdleAppends
  <2>5. CountsType'
    BY <1>0, <1>7, CountsSame DEF RecordTxn
  <2>. QED
    BY <2>1, <2>3, <2>4, <2>5 DEF TypeInv
<1>8. CASE Fetch(w)
  <2>1. EventsType' /\ StatesType' /\ StreamType' /\ \A r \in Rooms : timeline[r] \subseteq timeline'[r]
    BY <1>0, <1>8, StoreSame DEF Fetch
  <2>2. JobsType' /\ LocksType'
    BY <1>0, <1>8, FetchJobs
  <2>3. PICK pc \in {"fetch", "auth"} : Becomes(w, AtPoint(job[w], pc))
    BY <1>0, <1>8, FetchJobs
  <2>4. AppendsType'
    BY <1>0, <2>1, <2>3, AppendsKept, AtPointFields
  <2>5. CountsType'
    BY <1>0, <1>8, CountsSame DEF Fetch, ledger
  <2>. QED
    BY <2>1, <2>2, <2>4, <2>5 DEF TypeInv
<1>. QED
  BY <1>1, <1>2, <1>3, <1>4, <1>5, <1>6, <1>7, <1>8

\* A sync writes nothing.
LEMMA ReaderWritesNothing ==
  ASSUME NEW u \in Syncers, Reader(u)
  PROVE  UNCHANGED <<store, server, ledger>>
BY DEF Reader, SyncStart, SyncScan, SyncRoom, SyncState, SyncTimeline, SyncAnswer

LEMMA NothingWritten ==
  ASSUME TypeInv, UNCHANGED <<store, server, ledger>>
  PROVE  TypeInv'
BY DEF TypeInv, EventsType, StatesType, StreamType, JobsType, AppendsType, Current, LocksType,
       Holding, CountsType, store, server, ledger

LEMMA CrashType ==
  ASSUME TypeInv, Crash
  PROVE  TypeInv'
<1>1. EventsType' /\ StatesType' /\ StreamType'
  BY StoreSame DEF TypeInv, Crash
<1>2. JobsType'
  BY DEF Crash, JobsType
<1>3. \A w \in Workers : job'[w].pc = "idle"
  BY DEF Crash, Idle
<1>4. AppendsType'
  BY <1>3 DEF AppendsType
<1>5. LocksType'
  <2>1. None \notin Workers
    BY RoomsAssumption
  <2>2. DOMAIN lock' = Rooms /\ \A r \in Rooms : lock'[r] = None
    BY DEF Crash
  <2>. QED
    BY <1>3, <2>1, <2>2 DEF LocksType, Holding
<1>6. CountsType'
  <2>1. MaxCrashes \in Nat /\ crashes \in 0..MaxCrashes /\ crashes' = crashes + 1 /\ crashes < MaxCrashes
        /\ minted' = minted /\ asked' = asked
    BY RoomsAssumption DEF TypeInv, CountsType, Crash
  <2>. QED
    BY <2>1 DEF TypeInv, CountsType
<1>. QED
  BY <1>1, <1>2, <1>4, <1>5, <1>6 DEF TypeInv

LEMMA TypeStep == TypeInv /\ [Next]_vars => TypeInv'
<1>. SUFFICES ASSUME TypeInv, [Next]_vars PROVE TypeInv'
  OBVIOUS
<1>1. ASSUME NEW w \in Workers, Writer(w) PROVE TypeInv'
  BY <1>1, StartsType, HandlersType DEF Writer
<1>2. ASSUME NEW u \in Syncers, Reader(u) PROVE TypeInv'
  BY <1>2, ReaderWritesNothing, NothingWritten
<1>3. CASE Crash
  BY <1>3, CrashType
<1>4. CASE UNCHANGED vars
  BY <1>4, NothingWritten DEF vars
<1>. QED
  BY <1>1, <1>2, <1>3, <1>4 DEF Next, Finished

-----------------------------------------------------------------------------
(* The store at the start.                                                 *)

\* A set of numbers has a least one.
LEMMA LeastNumber ==
  ASSUME NEW S \in SUBSET Nat, S # {}
  PROVE  \E i \in S : \A j \in S : i <= j
<1>. DEFINE R == {ss \in Nat \X Nat : ss[1] < ss[2]}
<1>1. IsWellFoundedOn(R, Nat)
  <2>1. R = OpToRel(<, Nat)
    BY DEF OpToRel
  <2>. HIDE DEF R
  <2>. QED
    BY <2>1, NatLessThanWellFounded, Zenon
<1>. HIDE DEF R
<1>2. PICK x \in S : \A y \in S : ~ (<<y, x>> \in R)
  BY <1>1, WFMin
<1>3. ASSUME NEW y \in S PROVE x <= y
  <2>1. x \in Nat /\ y \in Nat
    OBVIOUS
  <2>2. ~ (<<y, x>> \in R)
    BY <1>2
  <2>. QED
    BY <2>1, <2>2 DEF R
<1>. QED
  BY <1>3

\* The stored events of a room from a position on.
StoredFrom(room, k) == {Stored[i] : i \in {i \in DOMAIN Stored : Stored[i].room = room /\ i >= k}}

\* The stored events of a room have a last one: position by position, from the
\* end of the list.
LEMMA StoredHasTip ==
  ASSUME NEW room \in Rooms
  PROVE  HasTip(StoredIn(room)) /\ \A e \in StoredIn(room) : Fits(e, room)
<1>1. Stored \in Seq(Range(Stored))
      /\ \A i \in DOMAIN Stored : Stored[i].depth \in Nat /\ Stored[i].id \in Int
  BY RoomsAssumption DEF StoredTypes
<1>2. Len(Stored) \in Nat /\ DOMAIN Stored = 1..Len(Stored)
  BY <1>1, SeqOfValues
<1>3. \A k \in Int : Placed(StoredFrom(room, k))
  BY <1>1 DEF Placed, StoredFrom
<1>. DEFINE Done == {k \in Nat : HasTip(StoredFrom(room, k))}
<1>4. Len(Stored) + 1 \in Done
  <2>1. StoredFrom(room, Len(Stored) + 1) = {}
    BY <1>2 DEF StoredFrom
  <2>. QED
    BY <1>2, <2>1 DEF HasTip
<1>5. PICK k \in Done : \A j \in Done : k <= j
  <2>1. Done \in SUBSET Nat /\ Done # {}
    BY <1>4
  <2>. HIDE DEF Done
  <2>. QED
    BY <2>1, LeastNumber
<1>6. k = 0
  <2>1. SUFFICES ASSUME k # 0 PROVE k - 1 \in Done
    <3>1. k \in Nat
      OBVIOUS
    <3>2. k - 1 \notin Done
      BY <1>5, <3>1
    <3>. QED
      BY <2>1, <3>2
  <2>2. k \in Nat /\ k - 1 \in Nat /\ HasTip(StoredFrom(room, k)) /\ Placed(StoredFrom(room, k))
    BY <1>3, <2>1
  <2>3. CASE k - 1 \in DOMAIN Stored /\ Stored[k - 1].room = room
    <3>1. StoredFrom(room, k - 1) = StoredFrom(room, k) \cup {Stored[k - 1]}
      <4>1. \A i \in DOMAIN Stored : i >= k - 1 <=> i >= k \/ i = k - 1
        BY <1>2, <2>2
      <4>. QED
        BY <2>3, <4>1 DEF StoredFrom
    <3>2. HasTip(StoredFrom(room, k) \cup {Stored[k - 1]})
      BY <1>1, <2>2, <2>3, TipOfMore
    <3>. QED
      BY <2>2, <3>1, <3>2
  <2>4. CASE ~(k - 1 \in DOMAIN Stored /\ Stored[k - 1].room = room)
    <3>1. StoredFrom(room, k - 1) = StoredFrom(room, k)
      <4>1. \A i \in DOMAIN Stored : i >= k - 1 <=> i >= k \/ i = k - 1
        BY <1>2, <2>2
      <4>. QED
        BY <2>4, <4>1 DEF StoredFrom
    <3>. QED
      BY <2>2, <3>1
  <2>. QED
    BY <2>3, <2>4
<1>7. StoredFrom(room, 0) = StoredIn(room)
  BY <1>2 DEF StoredFrom, StoredIn
<1>8. HasTip(StoredIn(room))
  BY <1>6, <1>7
<1>9. \A e \in StoredIn(room) : Fits(e, room)
  BY <1>1 DEF StoredIn, Fits
<1>. QED
  BY <1>8, <1>9

\* Events in the same place of the key order have the same id.
LEMMA SamePlace ==
  ASSUME NEW e, NEW f, e.depth \in Nat, e.id \in Int, f.depth \in Nat, f.id \in Int,
         AtOrBefore(e, f), AtOrBefore(f, e)
  PROVE  e.depth = f.depth /\ e.id = f.id
BY DEF AtOrBefore

\* A state has one event per slot.
LEMMA OnePerSlot ==
  ASSUME NEW events, Placed(events), \A e, f \in events : e.id = f.id => e = f
  PROVE  /\ LatestPerSlot(events) \subseteq events
         /\ \A e, f \in LatestPerSlot(events) : is_state(e) /\ (SameSlot(e, f) => e = f)
<1>1. LatestPerSlot(events) \subseteq events /\ \A e \in LatestPerSlot(events) : is_state(e)
  BY DEF LatestPerSlot
<1>2. ASSUME NEW e \in LatestPerSlot(events), NEW f \in LatestPerSlot(events), SameSlot(e, f)
      PROVE  e = f
  <2>1. SameSlot(f, e)
    BY <1>2 DEF SameSlot
  <2>2. AtOrBefore(e, f) /\ AtOrBefore(f, e)
    BY <1>1, <1>2, <2>1 DEF LatestPerSlot
  <2>3. e.id = f.id
    BY <1>1, <2>2, SamePlace DEF Placed
  <2>. QED
    BY <1>1, <2>3
<1>. QED
  BY <1>1, <1>2

LEMMA StoredIdsUnique ==
  ASSUME NEW r \in Rooms
  PROVE  \A e, f \in StoredIn(r) : e.id = f.id => e = f
BY RoomsAssumption DEF StoredIn, StoredTypes

LEMMA TypeInit == Init => TypeInv
<1>. SUFFICES ASSUME Init PROVE TypeInv
  OBVIOUS
<1>1. DOMAIN timeline = Rooms /\ \A r \in Rooms : timeline[r] = StoredIn(r)
  BY DEF Init
<1>2. EventsType
  BY <1>1, StoredHasTip DEF EventsType
<1>3. StatesType
  <2>1. DOMAIN room_state = Rooms /\ \A r \in Rooms : room_state[r] = LatestPerSlot(StoredIn(r))
    BY DEF Init
  <2>2. ASSUME NEW r \in Rooms
        PROVE  /\ LatestPerSlot(StoredIn(r)) \subseteq StoredIn(r)
               /\ \A e, f \in LatestPerSlot(StoredIn(r)) : is_state(e) /\ (SameSlot(e, f) => e = f)
    <3>1. Placed(StoredIn(r))
      BY StoredHasTip DEF Placed, Fits
    <3>2. \A e, f \in StoredIn(r) : e.id = f.id => e = f
      BY StoredIdsUnique
    <3>. QED
      BY <3>1, <3>2, OnePerSlot
  <2>. QED
    BY <1>1, <2>1, <2>2 DEF StatesType
<1>4. StreamType
  <2>1. stream = Stored
    BY DEF Init
  <2>2. Stored \in Seq(Range(Stored)) /\ \A i \in DOMAIN Stored : Stored[i].room \in Rooms
    BY RoomsAssumption DEF StoredTypes
  <2>3. \A i \in DOMAIN Stored : Stored[i] \in timeline[Stored[i].room]
    BY <1>1, <2>2 DEF StoredIn
  <2>. QED
    BY <2>1, <2>2, <2>3 DEF StreamType
<1>5. JobsType
  BY DEF Init, JobsType
<1>6. \A w \in Workers : job[w].pc = "idle"
  BY DEF Init, Idle
<1>7. AppendsType
  BY <1>6 DEF AppendsType
<1>8. LocksType
  <2>1. None \notin Workers
    BY RoomsAssumption
  <2>2. DOMAIN lock = Rooms /\ \A r \in Rooms : lock[r] = None
    BY DEF Init
  <2>. QED
    BY <1>6, <2>1, <2>2 DEF LocksType, Holding
<1>9. CountsType
  <2>1. minted = Len(Stored) /\ crashes = 0 /\ asked = [req \in Requests |-> 0]
    BY DEF Init
  <2>2. Len(Stored) \in Nat
    BY RoomsAssumption, SeqOfValues DEF StoredTypes
  <2>3. MaxCrashes \in Nat /\ \A req \in Requests : Tries[req] \in Nat
    BY RoomsAssumption
  <2>4. DOMAIN asked = Requests /\ \A req \in Requests : asked[req] \in 0..Tries[req]
    BY <2>1, <2>3
  <2>. QED
    BY <2>1, <2>2, <2>3, <2>4 DEF CountsType
<1>. QED
  BY <1>2, <1>3, <1>4, <1>5, <1>7, <1>8, <1>9 DEF TypeInv

\* The store and the handlers stay well typed, one event fills a state slot
\* and is in the timeline before, and a room's lock is held by exactly the
\* handler that is writing a local event to it, whatever is refused or crashes.
THEOREM RoomTypes == Spec => []TypeOK
<1>1. Spec => []TypeInv
  BY TypeInit, TypeStep, PTL DEF Spec
<1>. QED
  BY <1>1, TypeInvImplies, PTL

-----------------------------------------------------------------------------
(* The events this server writes do not fork.                              *)

\* The numbers this server has given out are not those of peers' events.
IdsApart == \A e \in Foreign : e.id \notin 1..minted

\* The events a handler has before it.
Held(w) == IF job[w].pc = "idle" THEN {} ELSE Range(job[w].events)

\* Every event there is, in the store or in a handler.
InPlay == (UNION {timeline[r] : r \in Rooms}) \cup (UNION {Held(w) : w \in Workers})

\* The event's parent is in the timeline, before it.
HasParent(e, events) ==
  \/ e.prev_events = {}
  \/ \E q \in events : e.prev_events = {q.id} /\ q.depth < e.depth

\* Where events come from: the store, a peer, or this server's numbering.
Origins ==
  /\ Len(Stored) <= minted
  /\ \A e \in InPlay : e \in Range(Stored) \cup Foreign \/ e.id \in (Len(Stored) + 1)..minted

UniqueIds == \A e, f \in InPlay : e.id = f.id => e = f

Parents == \A r \in Rooms : \A e \in timeline[r] : WrittenUnderLock(e) => HasParent(e, timeline[r])

\* No event written under the lock has the parent that e has.
NoSibling(e, r) == \A f \in timeline[r] : WrittenUnderLock(f) => f.prev_events # e.prev_events

\* What a handler is about to append: one event written under the lock, which
\* has no sibling yet; or the state events of a new room; or the events of a peer.
ToAppend(h) ==
  /\ h.req.op \in {"send", "member"} /\ h.pc \in {"auth", "event"} =>
       /\ Head(h.events).auth_events = {}
       /\ HasParent(Head(h.events), timeline[h.req.room])
       /\ NoSibling(Head(h.events), h.req.room)
  /\ h.req.op = "create" =>
       \A i \in DOMAIN h.events :
         is_state(h.events[i]) /\ (h.events[i].kind = "member" => h.events[i].depth = 2)
  /\ h.req.op = "receive" => \A i \in DOMAIN h.events : h.events[i] \in Foreign

Appending == \A w \in Workers : job[w].pc # "idle" => ToAppend(job[w])

\* LocalEventsChain alone is not inductive: it needs the parents of what was
\* written, and that what is about to be written has no sibling.
ChainInv == Origins /\ UniqueIds /\ Parents /\ Appending /\ LocalEventsChain

LEMMA InPlayTimeline ==
  ASSUME NEW r \in Rooms, NEW e \in timeline[r]
  PROVE  e \in InPlay
BY DEF InPlay

LEMMA InPlayHeld ==
  ASSUME JobsType, NEW w \in Workers, job[w].pc # "idle", NEW i \in DOMAIN job[w].events
  PROVE  job[w].events[i] \in InPlay
<1>1. job[w].events[i] \in Held(w)
  BY DEF Held, Range
<1>. QED
  BY <1>1 DEF InPlay

LEMMA InPlayCurrent ==
  ASSUME JobsType, NEW w \in Workers, job[w].pc \notin {"idle", "lock"}
  PROVE  Current(w) \in InPlay /\ \E i \in DOMAIN job[w].events : Current(w) = job[w].events[i]
<1>1. Handler(job[w])
  BY HandlerUnderWay
<1>. DEFINE s == job[w].events
<1>2. s \in Seq(Range(s)) /\ s # <<>>
  BY <1>1 DEF Handler
<1>3. 1 \in DOMAIN s /\ Head(s) = s[1]
  BY <1>2, TailFacts
<1>. QED
  BY <1>3, InPlayHeld DEF Current

\* Numbers given out later make no earlier event one of this server's.
LEMMA WrittenBefore ==
  ASSUME Origins, minted \in Nat, minted' \in Nat, minted <= minted', IdsApart',
         NEW e \in InPlay
  PROVE  WrittenUnderLock(e)' <=> WrittenUnderLock(e)
<1>1. e.id \in 1..minted' <=> e.id \in 1..minted
  <2>1. CASE e \in Range(Stored)
    <3>1. e.id \in Int /\ e.id <= Len(Stored) /\ Len(Stored) \in Nat
      BY <2>1, RoomsAssumption, SeqOfValues DEF StoredTypes, Range
    <3>. QED
      BY <3>1 DEF Origins
  <2>2. CASE e \in Foreign
    BY <2>2 DEF IdsApart
  <2>3. CASE e.id \in (Len(Stored) + 1)..minted
    <3>1. Len(Stored) \in Nat
      BY RoomsAssumption, SeqOfValues DEF StoredTypes
    <3>. QED
      BY <2>3, <3>1
  <2>. QED
    BY <2>1, <2>2, <2>3 DEF Origins
<1>. QED
  BY <1>1 DEF WrittenUnderLock

\* What a step may bring into play.
LEMMA OriginsKept ==
  ASSUME Origins, minted \in Nat, minted' \in Nat, minted <= minted',
         \A e \in InPlay' : e \in InPlay \cup Foreign \/ e.id \in (minted + 1)..minted'
  PROVE  Origins'
<1>1. Len(Stored) \in Nat
  BY RoomsAssumption, SeqOfValues DEF StoredTypes
<1>2. ASSUME NEW e \in InPlay'
      PROVE  e \in Range(Stored) \cup Foreign \/ e.id \in (Len(Stored) + 1)..minted'
  <2>1. CASE e \in InPlay
    BY <1>1, <2>1 DEF Origins
  <2>2. CASE e.id \in (minted + 1)..minted'
    BY <1>1, <2>2 DEF Origins
  <2>. QED
    BY <1>2, <2>1, <2>2
<1>3. Len(Stored) <= minted'
  BY <1>1 DEF Origins
<1>. QED
  BY <1>2, <1>3 DEF Origins

\* Nothing comes into play.
LEMMA NothingNew ==
  ASSUME TypeInv, Origins, UniqueIds, minted' = minted, InPlay' \subseteq InPlay
  PROVE  Origins' /\ UniqueIds'
<1>1. minted \in Nat
  BY DEF TypeInv, CountsType
<1>2. Origins'
  BY <1>1, OriginsKept
<1>. QED
  BY <1>2 DEF UniqueIds

\* Numbers that are new, and the events of a peer, name no event there is.
LEMMA NewIdsUnique ==
  ASSUME TypeInv, Origins, UniqueIds, IdsApart', minted' \in Nat, minted <= minted',
         NEW fresh, \A e \in fresh : e.id \in (minted + 1)..minted',
         \A e, f \in fresh : e.id = f.id => e = f,
         InPlay' \subseteq InPlay \cup fresh
  PROVE  Origins' /\ UniqueIds'
<1>1. minted \in Nat /\ Len(Stored) \in Nat
  BY RoomsAssumption, SeqOfValues DEF TypeInv, CountsType, StoredTypes
<1>2. Origins'
  BY <1>1, OriginsKept
<1>3. ASSUME NEW e \in InPlay, NEW f \in fresh PROVE e.id # f.id
  <2>1. f.id \in (minted + 1)..minted'
    OBVIOUS
  <2>2. CASE e \in Range(Stored)
    <3>1. e.id \in Int /\ e.id <= Len(Stored) /\ Len(Stored) <= minted
      BY <2>2, RoomsAssumption DEF StoredTypes, Range, Origins
    <3>. QED
      BY <1>1, <2>1, <3>1
  <2>3. CASE e \in Foreign
    <3>1. e.id \notin 1..minted'
      BY <2>3 DEF IdsApart
    <3>. QED
      BY <1>1, <2>1, <3>1
  <2>4. CASE e.id \in (Len(Stored) + 1)..minted
    BY <1>1, <2>1, <2>4
  <2>. QED
    BY <2>2, <2>3, <2>4 DEF Origins
<1>4. UniqueIds'
  BY <1>3 DEF UniqueIds
<1>. QED
  BY <1>2, <1>4

LEMMA ForeignIdUnique ==
  ASSUME TypeInv, Origins, UniqueIds, IdsApart, minted' = minted,
         NEW pdus \in SUBSET Foreign, InPlay' \subseteq InPlay \cup pdus
  PROVE  Origins' /\ UniqueIds'
<1>1. minted \in Nat /\ Len(Stored) \in Nat
  BY RoomsAssumption, SeqOfValues DEF TypeInv, CountsType, StoredTypes
<1>2. Origins'
  BY <1>1, OriginsKept
<1>3. ASSUME NEW e \in InPlay, NEW g \in pdus, e.id = g.id PROVE e = g
  <2>1. CASE e \in Range(Stored) \cup Foreign
    BY <1>3, <2>1, RoomsAssumption DEF IdsNameEvents
  <2>2. CASE e.id \in (Len(Stored) + 1)..minted
    <3>1. g.id \notin 1..minted
      BY DEF IdsApart
    <3>. QED
      BY <1>1, <1>3, <2>2, <3>1
  <2>. QED
    BY <2>1, <2>2 DEF Origins
<1>4. \A e, f \in pdus : e.id = f.id => e = f
  BY RoomsAssumption DEF IdsNameEvents
<1>5. UniqueIds'
  BY <1>3, <1>4 DEF UniqueIds
<1>. QED
  BY <1>2, <1>5

\* The timelines stay as they are: what is in them still is, and what handlers
\* were about to append still has no sibling.
LEMMA TimelinesSame ==
  ASSUME TypeInv, ChainInv, IdsApart', minted' \in Nat, minted <= minted', timeline' = timeline
  PROVE  /\ Parents' /\ LocalEventsChain'
         /\ \A r \in Rooms : \A e : NoSibling(e, r) => NoSibling(e, r)'
<1>1. \A r \in Rooms : \A e \in timeline[r] : WrittenUnderLock(e)' <=> WrittenUnderLock(e)
  <2>1. Origins /\ minted \in Nat
    BY DEF TypeInv, CountsType, ChainInv
  <2>. QED
    BY <2>1, WrittenBefore, InPlayTimeline
<1>2. Parents'
  BY <1>1 DEF ChainInv, Parents, HasParent
<1>3. LocalEventsChain'
  BY <1>1 DEF ChainInv, LocalEventsChain
<1>4. \A r \in Rooms : \A e : NoSibling(e, r) => NoSibling(e, r)'
  BY <1>1 DEF NoSibling
<1>. QED
  BY <1>2, <1>3, <1>4

\* A handler goes on or leaves, with no more events than it had.
Shrinks(w, h) ==
  h.pc # "idle" =>
    /\ job[w].pc # "idle" /\ h.req = job[w].req
    /\ \A i \in DOMAIN h.events : \E j \in DOMAIN job[w].events : h.events[i] = job[w].events[j]
    /\ h.req.op \in {"send", "member"} => h.events = job[w].events
    /\ h.req.op \in {"send", "member"} /\ h.pc \in {"auth", "event"} => job[w].pc \in {"auth", "event"}

LEMMA HeldShrinks ==
  ASSUME JobsType, NEW w \in Workers, NEW h, Becomes(w, h), Shrinks(w, h),
         timeline' = timeline
  PROVE  InPlay' \subseteq InPlay
<1>1. ASSUME NEW v \in Workers, NEW e \in Held(v)' PROVE e \in Held(v)
  <2>1. job'[v].pc # "idle" /\ \E i \in DOMAIN job'[v].events : e = job'[v].events[i]
    BY DEF Held, Range
  <2>2. CASE v = w
    <3>1. job'[v] = h
      BY <2>2 DEF Becomes
    <3>2. job[w].pc # "idle" /\ \E j \in DOMAIN job[w].events : e = job[w].events[j]
      BY <2>1, <3>1 DEF Shrinks
    <3>. QED
      BY <2>2, <3>2 DEF Held, Range
  <2>3. CASE v # w
    <3>1. job'[v] = job[v]
      BY <2>3 DEF Becomes
    <3>. QED
      BY <2>1, <3>1 DEF Held, Range
  <2>. QED
    BY <2>2, <2>3
<1>. QED
  BY <1>1 DEF InPlay

\* With the timelines as they were, a handler still has what it is to append.
LEMMA ToAppendStays ==
  ASSUME timeline' = timeline, \A r \in Rooms : \A e : NoSibling(e, r) => NoSibling(e, r)',
         NEW h, h.req.op # "receive" => h.req.room \in Rooms, ToAppend(h)
  PROVE  ToAppend(h)'
BY DEF ToAppend, HasParent

LEMMA AppendingOthers ==
  ASSUME JobsType, Appending, NEW w \in Workers, NEW h, Becomes(w, h),
         timeline' = timeline, \A r \in Rooms : \A e : NoSibling(e, r) => NoSibling(e, r)',
         h.pc # "idle" => ToAppend(h)'
  PROVE  Appending'
<1>1. ASSUME NEW v \in Workers, job'[v].pc # "idle" PROVE ToAppend(job[v])'
  <2>1. CASE v = w
    <3>1. job'[v] = h
      BY <2>1 DEF Becomes
    <3>. QED
      BY <1>1, <3>1 DEF ToAppend, HasParent, NoSibling
  <2>2. CASE v # w
    <3>1. job'[v] = job[v]
      BY <2>2 DEF Becomes
    <3>2. ToAppend(job[v]) /\ (job[v].req.op # "receive" => job[v].req.room \in Rooms)
      BY <1>1, <3>1, HandlerUnderWay DEF Appending
    <3>. DEFINE g == job[v]
    <3>3. ToAppend(g) /\ (g.req.op # "receive" => g.req.room \in Rooms)
      BY <3>2
    <3>4. job'[v] = g
      BY <3>1
    <3>. HIDE DEF g
    <3>. QED
      BY <3>3, <3>4, ToAppendStays
  <2>. QED
    BY <2>1, <2>2
<1>. QED
  BY <1>1 DEF Appending

\* A handler that goes on without a put to EVENTS, or leaves.
LEMMA ShrinkKeepsChain ==
  ASSUME TypeInv, ChainInv, IdsApart', minted' = minted, timeline' = timeline,
         NEW w \in Workers, NEW h, Becomes(w, h), Shrinks(w, h)
  PROVE  ChainInv'
<1>0. JobsType /\ Origins /\ UniqueIds /\ Appending /\ minted \in Nat
  BY DEF TypeInv, ChainInv, CountsType
<1>1. Parents' /\ LocalEventsChain' /\ \A r \in Rooms : \A e : NoSibling(e, r) => NoSibling(e, r)'
  BY <1>0, TimelinesSame
<1>2. Origins' /\ UniqueIds'
  BY <1>0, HeldShrinks, NothingNew
<1>3. h.pc # "idle" => ToAppend(h)'
  <2>1. SUFFICES ASSUME h.pc # "idle" PROVE ToAppend(h)'
    OBVIOUS
  <2>2. /\ job[w].pc # "idle" /\ h.req = job[w].req
        /\ \A i \in DOMAIN h.events : \E j \in DOMAIN job[w].events : h.events[i] = job[w].events[j]
        /\ h.req.op \in {"send", "member"} => h.events = job[w].events
        /\ h.req.op \in {"send", "member"} /\ h.pc \in {"auth", "event"} => job[w].pc \in {"auth", "event"}
    BY <2>1 DEF Shrinks
  <2>3. ToAppend(job[w]) /\ (job[w].req.op # "receive" => job[w].req.room \in Rooms)
    BY <1>0, <2>2, HandlerUnderWay DEF Appending
  <2>4. ToAppend(h)
    <3>1. CASE h.req.op \in {"send", "member"}
      BY <2>2, <2>3, <3>1 DEF ToAppend
    <3>2. CASE h.req.op = "create"
      BY <2>2, <2>3, <3>2 DEF ToAppend
    <3>3. CASE h.req.op \notin {"send", "member", "create"}
      BY <2>2, <2>3, <3>3 DEF ToAppend
    <3>. QED
      BY <3>1, <3>2, <3>3
  <2>5. h.req.op # "receive" => h.req.room \in Rooms
    BY <2>2, <2>3
  <2>. QED
    BY <1>1, <2>4, <2>5, ToAppendStays
<1>4. Appending'
  BY <1>0, <1>1, <1>3, AppendingOthers
<1>. QED
  BY <1>1, <1>2, <1>4 DEF ChainInv

\* A handler that starts, or gets its lock: what is new is what it is to append.
LEMMA NewKeepsChain ==
  ASSUME TypeInv, ChainInv, IdsApart', minted' \in Nat, minted <= minted', timeline' = timeline,
         NEW w \in Workers, NEW h, Becomes(w, h), h.pc # "idle", ToAppend(h)',
         Origins', UniqueIds'
  PROVE  ChainInv'
<1>0. JobsType /\ Appending
  BY DEF TypeInv, ChainInv
<1>1. Parents' /\ LocalEventsChain' /\ \A r \in Rooms : \A e : NoSibling(e, r) => NoSibling(e, r)'
  BY TimelinesSame
<1>2. Appending'
  BY <1>0, <1>1, AppendingOthers
<1>. QED
  BY <1>1, <1>2 DEF ChainInv

LEMMA HeldGrows ==
  ASSUME JobsType, NEW w \in Workers, NEW h, Becomes(w, h), timeline' = timeline,
         NEW fresh, \A i \in DOMAIN h.events : h.events[i] \in fresh
  PROVE  InPlay' \subseteq InPlay \cup fresh
<1>1. ASSUME NEW v \in Workers, NEW e \in Held(v)' PROVE e \in Held(v) \cup fresh
  <2>1. job'[v].pc # "idle" /\ \E i \in DOMAIN job'[v].events : e = job'[v].events[i]
    BY DEF Held, Range
  <2>2. CASE v = w
    BY <2>1, <2>2 DEF Becomes
  <2>3. CASE v # w
    <3>1. job'[v] = job[v]
      BY <2>3 DEF Becomes
    <3>. QED
      BY <2>1, <3>1 DEF Held, Range
  <2>. QED
    BY <2>2, <2>3
<1>. QED
  BY <1>1 DEF InPlay

LEMMA StartsKeepChain ==
  ASSUME TypeInv, ChainInv, IdsApart', NEW w \in Workers, NEW req \in Requests,
         StartSend(w, req) \/ StartMembership(w, req) \/ StartReceive(w, req) \/ StartCreate(w, req)
  PROVE  ChainInv'
<1>0. /\ JobsType /\ LocksType /\ Origins /\ UniqueIds /\ minted \in Nat
  BY DEF TypeInv, CountsType, ChainInv
<1>1. timeline' = timeline
  BY DEF StartSend, StartMembership, StartReceive, StartCreate, store
<1>. DEFINE waits == [req |-> req, pc |-> "lock", events |-> <<>>, seq |-> 0]
<1>2. ASSUME Becomes(w, waits), minted' = minted, req.op \in {"send", "member"}
      PROVE  ChainInv'
  <2>1. waits.pc = "lock" /\ waits.req = req /\ waits.events = <<>>
    OBVIOUS
  <2>. HIDE DEF waits
  <2>2. \A i \in DOMAIN waits.events : waits.events[i] \in {}
    BY <2>1
  <2>3. InPlay' \subseteq InPlay \cup {}
    BY <1>0, <1>1, <1>2, <2>2, HeldGrows
  <2>4. Origins' /\ UniqueIds'
    BY <1>0, <1>2, <2>3, NothingNew
  <2>5. ToAppend(waits)'
    BY <1>2, <2>1 DEF ToAppend
  <2>. QED
    BY <1>0, <1>1, <1>2, <2>1, <2>4, <2>5, NewKeepsChain
<1>3. CASE StartSend(w, req)
  <2>1. minted' = minted /\ req.op = "send"
    BY <1>3 DEF StartSend
  <2>2. CASE job' = job
    <3>1. InPlay' = InPlay
      BY <1>1, <2>2 DEF InPlay, Held
    <3>2. Origins' /\ UniqueIds'
      BY <1>0, <2>1, <3>1, NothingNew
    <3>3. Parents' /\ LocalEventsChain' /\ \A r \in Rooms : \A e : NoSibling(e, r) => NoSibling(e, r)'
      BY <1>0, <1>1, <2>1, TimelinesSame
    <3>4. Appending'
      BY <1>1, <2>1, <2>2 DEF ChainInv, Appending, ToAppend, HasParent, NoSibling, WrittenUnderLock
    <3>. QED
      BY <3>2, <3>3, <3>4 DEF ChainInv
  <2>. QED
    BY <1>0, <1>2, <1>3, <2>1, <2>2, StartSendJobs
<1>4. CASE StartMembership(w, req)
  BY <1>0, <1>2, <1>4, StartMembershipJobs DEF StartMembership
<1>5. CASE StartReceive(w, req)
  <2>1. req.op = "receive" /\ minted' = minted
    BY <1>5 DEF StartReceive
  <2>. PICK pdus \in req.transactions : Becomes(w, Fetching(req, pdus))
    BY <1>0, <1>5, StartReceiveJobs
  <2>. PICK h : h = Fetching(req, pdus)
    OBVIOUS
  <2>2. Becomes(w, h)
    OBVIOUS
  <2>3. h.pc = "fetch" /\ h.req = req /\ h.events = pdus
    BY DEF Fetching
  <2>4. Range(pdus) \subseteq Foreign /\ \A i \in DOMAIN h.events : h.events[i] \in Range(pdus)
    BY <2>1, <2>3, PdusFit DEF Range
  <2>5. InPlay' \subseteq InPlay \cup Range(pdus)
    BY <1>0, <1>1, <2>2, <2>4, HeldGrows
  <2>6. IdsApart
    BY <2>1 DEF IdsApart
  <2>7. Origins' /\ UniqueIds'
    BY <1>0, <2>1, <2>4, <2>5, <2>6, ForeignIdUnique
  <2>8. ToAppend(h)'
    BY <2>1, <2>3, <2>4 DEF ToAppend
  <2>. QED
    BY <1>0, <1>1, <2>1, <2>2, <2>3, <2>7, <2>8, NewKeepsChain
<1>6. CASE StartCreate(w, req)
  <2>. PICK list : list = CreationEvents(req, minted + 1)
    OBVIOUS
  <2>. DEFINE h == [req |-> req, pc |-> "event", events |-> list, seq |-> 0]
  <2>1. req.op = "create" /\ minted' = minted + 3 + Len(req.extra) /\ minted + 1 \in Nat
    BY <1>0, <1>6 DEF StartCreate
  <2>2. Becomes(w, h)
    BY <1>0, <1>6, StartCreateJobs
  <2>3. /\ Len(list) = 3 + Len(req.extra) /\ Len(req.extra) \in Nat
        /\ \A i \in DOMAIN list :
             /\ i \in 1..Len(list)
             /\ list[i].room = req.room /\ list[i].id = minted + 1 + i - 1 /\ list[i].depth = i
             /\ is_state(list[i]) /\ (list[i].kind = "member" => i = 2)
    BY <2>1, CreationFits
  <2>4. h.pc = "event" /\ h.req = req /\ h.events = list
    OBVIOUS
  <2>. HIDE DEF h
  <2>5. \E n \in Nat : n = Len(req.extra) /\ minted' = minted + 3 + n
    BY <2>1, <2>3, Zenon
  <2>m. minted \in Nat
    BY <1>0
  <2>6. minted' \in Nat /\ minted <= minted'
    <3>1. PICK n \in Nat : minted' = minted + 3 + n
      BY <2>5
    <3>2. \A m \in Nat, k \in Nat : m + 3 + k \in Nat /\ m <= m + 3 + k
      OBVIOUS
    <3>. QED
      BY ONLY <2>m, <3>1, <3>2, Zenon
  <2>7. \A i \in DOMAIN list : list[i].id = minted + i /\ list[i].id \in (minted + 1)..minted'
    <3>1. PICK n \in Nat : n = Len(req.extra) /\ minted' = minted + 3 + n
      BY <2>5
    <3>2. Len(list) = 3 + n
      BY <2>3, <3>1
    <3>3. ASSUME NEW i \in DOMAIN list PROVE list[i].id = minted + i /\ list[i].id \in (minted + 1)..minted'
      <4>1. i \in 1..(3 + n) /\ list[i].id = minted + 1 + i - 1
        BY <2>3, <3>2
      <4>2. list[i].id = minted + i
        BY <1>0, <4>1
      <4>. QED
        BY <1>0, <3>1, <4>1, <4>2
    <3>. QED
      BY <3>3
  <2>8. Origins' /\ UniqueIds'
    <3>1. InPlay' \subseteq InPlay \cup Range(list)
      <4>1. \A i \in DOMAIN h.events : h.events[i] \in Range(list)
        BY <2>4 DEF Range
      <4>. QED
        BY <1>0, <1>1, <2>2, <4>1, HeldGrows
    <3>2. \A e \in Range(list) : e.id \in (minted + 1)..minted'
      BY <2>7 DEF Range
    <3>3. \A e, f \in Range(list) : e.id = f.id => e = f
      <4>1. ASSUME NEW i \in DOMAIN list, NEW j \in DOMAIN list, list[i].id = list[j].id PROVE i = j
        <5>1. minted + i = minted + j
          BY <2>7, <4>1
        <5>2. i \in 1..Len(list) /\ j \in 1..Len(list)
          BY <2>3, <4>1
        <5>3. i \in Int /\ j \in Int
          BY ONLY <5>2
        <5>4. \A a, b, c \in Int : a + b = a + c => b = c
          OBVIOUS
        <5>5. minted \in Int
          BY ONLY <2>m
        <5>. QED
          BY ONLY <5>1, <5>3, <5>4, <5>5, Zenon
      <4>. QED
        BY <4>1 DEF Range
    <3>4. Origins /\ UniqueIds
      BY <1>0
    <3>5. IdsApart'
      OBVIOUS
    <3>. DEFINE fresh == Range(list)
    <3>6. /\ \A e \in fresh : e.id \in (minted + 1)..minted'
          /\ \A e, f \in fresh : e.id = f.id => e = f
          /\ InPlay' \subseteq InPlay \cup fresh
      BY <3>1, <3>2, <3>3
    <3>. HIDE DEF fresh
    <3>. QED
      BY <2>6, <3>4, <3>5, <3>6, NewIdsUnique
  <2>9. ToAppend(h)'
    <3>1. h.req.op = "create" /\ h.events = list
      BY <2>1, <2>4
    <3>2. \A i \in DOMAIN list : is_state(list[i]) /\ (list[i].kind = "member" => list[i].depth = 2)
      BY <2>3
    <3>. QED
      BY <3>1, <3>2 DEF ToAppend
  <2>. QED
    BY <1>0, <1>1, <2>2, <2>4, <2>6, <2>8, <2>9, NewKeepsChain
<1>. QED
  BY <1>3, <1>4, <1>5, <1>6

\* The event linked under the lock hangs on the room's last event, which has no
\* child among the events written here: a child would be after it.
LEMMA LinkedHasNoSibling ==
  ASSUME TypeInv, ChainInv, NEW w \in Workers, job[w].pc = "lock", NEW r, r = job[w].req.room,
         NEW e, e = LinkedIn(w)
  PROVE  /\ r \in Rooms /\ e.id = minted + 1 /\ e.auth_events = {}
         /\ HasParent(e, timeline[r]) /\ NoSibling(e, r)
<1>0. EventsType /\ JobsType /\ minted \in Nat /\ Parents /\ UniqueIds
  BY DEF TypeInv, CountsType, ChainInv
<1>1. r \in Rooms
  BY <1>0, HandlerUnderWay DEF Handler
<1>. DEFINE events == timeline[r]  tip == TipOf(events)
<1>2. HasTip(events) /\ Placed(events)
  BY <1>0, <1>1 DEF EventsType, Placed, Fits
<1>3. minted + 1 \in Int
  BY <1>0
<1>4. /\ e.id = minted + 1 /\ e.auth_events = {}
      /\ events = {} => e.prev_events = {}
      /\ events # {} => e.prev_events = {tip.id} /\ e.depth = tip.depth + 1
  BY <1>2, <1>3, LinkedFits DEF LinkedIn
<1>5. CASE events = {}
  BY <1>1, <1>4, <1>5 DEF HasParent, NoSibling
<1>6. CASE events # {}
  <2>1. tip \in events /\ \A f \in events : AtOrBefore(f, tip)
    BY <1>2, <1>6, TipIsLast
  <2>2. e.prev_events = {tip.id} /\ e.depth = tip.depth + 1 /\ tip.depth \in Nat /\ tip.id \in Int
    BY <1>2, <1>4, <1>6, <2>1 DEF Placed
  <2>. HIDE DEF tip
  <2>3. HasParent(e, events)
    BY <2>1, <2>2 DEF HasParent
  <2>4. ASSUME NEW f \in events, WrittenUnderLock(f), f.prev_events = e.prev_events PROVE FALSE
    <3>1. HasParent(f, events)
      BY <1>0, <1>1, <2>4 DEF Parents
    <3>2. f.prev_events = {tip.id}
      BY <2>2, <2>4
    <3>3. PICK q \in events : f.prev_events = {q.id} /\ q.depth < f.depth
      BY <3>1, <3>2 DEF HasParent
    <3>4. q.id = tip.id
      BY <3>2, <3>3
    <3>5. q = tip
      BY <1>0, <1>1, <2>1, <3>4, InPlayTimeline DEF UniqueIds
    <3>6. AtOrBefore(f, tip) /\ f.depth \in Nat /\ f.id \in Int
      BY <1>2, <2>1, <2>4 DEF Placed
    <3>7. tip.depth < f.depth
      BY <3>3, <3>5
    <3>. QED
      BY <2>2, <3>6, <3>7 DEF AtOrBefore
  <2>. QED
    BY <1>1, <1>4, <2>3, <2>4 DEF NoSibling
<1>. QED
  BY <1>5, <1>6

LEMMA TakeLockKeepsChain ==
  ASSUME TypeInv, ChainInv, IdsApart', NEW w \in Workers, TakeLock(w)
  PROVE  ChainInv'
<1>0. EventsType /\ JobsType /\ LocksType /\ Origins /\ UniqueIds
  BY DEF TypeInv, ChainInv
<1>1. minted \in Nat
  BY DEF TypeInv, CountsType
<1>2. timeline' = timeline /\ minted' = minted + 1 /\ job[w].pc = "lock"
  BY DEF TakeLock, Doing, store
<1>3. minted' \in Nat /\ minted <= minted'
  BY <1>1, <1>2
<1>. PICK e : e = LinkedIn(w)
  OBVIOUS
<1>. PICK r : r = job[w].req.room
  OBVIOUS
<1>4. r \in Rooms /\ e.id = minted + 1 /\ e.auth_events = {} /\ HasParent(e, timeline[r]) /\ NoSibling(e, r)
  BY <1>2, LinkedHasNoSibling
<1>. PICK h : h = [req |-> job[w].req, pc |-> "auth", events |-> <<e>>, seq |-> job[w].seq]
  OBVIOUS
<1>5. Becomes(w, h)
  BY <1>0, <1>1, TakeLockJobs
<1>6. h.pc = "auth" /\ h.req = job[w].req /\ h.events = <<e>> /\ h.req.room = r
  OBVIOUS
<1>7. h.req.op \in {"send", "member"}
  BY <1>0, <1>2, <1>6, HandlerUnderWay DEF Handler
<1>8. Origins' /\ UniqueIds'
  <2>. DEFINE fresh == {e}
  <2>1. \A i \in DOMAIN h.events : h.events[i] \in fresh
    BY <1>6, ListOfOne
  <2>2. \A f \in fresh : f.id \in (minted + 1)..minted'
    <3>1. minted + 1 \in (minted + 1)..minted'
      BY <1>1, <1>2
    <3>. QED
      BY <1>4, <3>1
  <2>3. \A f, g \in fresh : f.id = g.id => f = g
    OBVIOUS
  <2>. HIDE DEF fresh
  <2>4. InPlay' \subseteq InPlay \cup fresh
    BY <1>0, <1>2, <1>5, <2>1, HeldGrows
  <2>. QED
    BY <1>0, <1>3, <2>2, <2>3, <2>4, NewIdsUnique
<1>9. ToAppend(h)'
  <2>1. NoSibling(e, r)'
    BY <1>2, <1>3, <1>4, TimelinesSame
  <2>2. HasParent(e, timeline[r])'
    BY <1>2, <1>4 DEF HasParent
  <2>3. Head(h.events) = e
    BY <1>6, ListOfOne
  <2>. QED
    BY <1>4, <1>6, <1>7, <2>1, <2>2, <2>3 DEF ToAppend
<1>10. h.pc # "idle"
  BY <1>6
<1>. QED
  BY <1>2, <1>3, <1>5, <1>8, <1>9, <1>10, NewKeepsChain

\* The event a handler appends: one written under the lock has no sibling, and
\* what create_room and federation append is not written under the lock.
LEMMA AppendedEvent ==
  ASSUME TypeInv, ChainInv, IdsApart, NEW w \in Workers, job[w].pc = "event",
         WrittenUnderLock(Current(w))
  PROVE  /\ job[w].req.op \in {"send", "member"} /\ job[w].req.room = Current(w).room
         /\ HasParent(Current(w), timeline[Current(w).room])
         /\ NoSibling(Current(w), Current(w).room)
<1>0. JobsType /\ ToAppend(job[w])
  BY DEF TypeInv, ChainInv, Appending
<1>1. RequestTypes(job[w].req) /\ job[w].req \in Requests
  BY <1>0, HandlerUnderWay
<1>2. PICK i \in DOMAIN job[w].events : Current(w) = job[w].events[i]
  BY <1>0, InPlayCurrent
<1>3. job[w].req.op # "create"
  <2>1. SUFFICES ASSUME job[w].req.op = "create" PROVE FALSE
    OBVIOUS
  <2>2. is_state(Current(w)) /\ (Current(w).kind = "member" => Current(w).depth = 2)
    BY <1>0, <1>2, <2>1 DEF ToAppend
  <2>3. Current(w).kind = "member" /\ Current(w).depth > 2
    BY <2>2 DEF WrittenUnderLock
  <2>. QED
    BY <2>2, <2>3
<1>4. job[w].req.op # "receive"
  <2>1. SUFFICES ASSUME job[w].req.op = "receive" PROVE FALSE
    OBVIOUS
  <2>2. Current(w) \in Foreign
    BY <1>0, <1>2, <2>1 DEF ToAppend
  <2>. QED
    BY <2>2 DEF IdsApart, WrittenUnderLock
<1>5. job[w].req.op \in {"send", "member"}
  BY <1>1, <1>3, <1>4 DEF RequestTypes
<1>6. job[w].req.room = Current(w).room
  BY <1>0, <1>5, CurrentFits
<1>. QED
  BY <1>0, <1>5, <1>6 DEF ToAppend, Current

LEMMA PutEventKeepsChain ==
  ASSUME TypeInv, ChainInv, IdsApart', NEW w \in Workers, PutEvent(w)
  PROVE  ChainInv'
<1>0. EventsType /\ JobsType /\ LocksType /\ Origins /\ UniqueIds /\ Parents /\ Appending /\ LocalEventsChain
  BY DEF TypeInv, ChainInv
<1>1. job[w].pc = "event" /\ minted' = minted
  BY DEF PutEvent, Doing
<1>2. IdsApart
  BY <1>1 DEF IdsApart
<1>. PICK e : e = Current(w)
  OBVIOUS
<1>. PICK rm : rm = Current(w).room
  OBVIOUS
<1>3. /\ DOMAIN timeline' = Rooms /\ rm \in Rooms /\ Fits(e, rm)
      /\ \A r \in Rooms : timeline'[r] = IF r = rm THEN timeline[r] \cup {e} ELSE timeline[r]
  BY <1>0, PutEventTimeline
<1>. PICK pc \in {"state", "count"} : pc = IF is_state(e) THEN "state" ELSE "count"
  OBVIOUS
<1>. PICK h : h = AtPoint(job[w], pc)
  OBVIOUS
<1>4. Becomes(w, h)
  <2>1. Goto(w, pc)
    BY DEF PutEvent
  <2>. QED
    BY <1>0, <1>1, <2>1, GotoBecomes
<1>5. h.pc = pc /\ h.req = job[w].req /\ h.events = job[w].events
  BY AtPointFields
<1>6. \A f : WrittenUnderLock(f)' <=> WrittenUnderLock(f)
  BY <1>1 DEF WrittenUnderLock
<1>7. WrittenUnderLock(e) =>
        job[w].req.op \in {"send", "member"} /\ job[w].req.room = rm /\ HasParent(e, timeline[rm]) /\ NoSibling(e, rm)
  BY <1>1, <1>2, AppendedEvent
<1>8. e \in InPlay
  BY <1>0, <1>1, InPlayCurrent
<1>9. InPlay' \subseteq InPlay
  <2>1. \A v \in Workers : Held(v)' = Held(v)
    <3>1. ASSUME NEW v \in Workers, v # w PROVE Held(v)' = Held(v)
      BY <1>4, <3>1 DEF Becomes, Held, Range
    <3>2. Held(w)' = Held(w)
      BY <1>1, <1>4, <1>5 DEF Becomes, Held, Range
    <3>. QED
      BY <3>1, <3>2
  <2>2. \A r \in Rooms : \A f \in timeline'[r] : f \in InPlay
    BY <1>3, <1>8, InPlayTimeline
  <2>. QED
    BY <2>1, <2>2 DEF InPlay
<1>10. Origins' /\ UniqueIds'
  BY <1>0, <1>1, <1>9, NothingNew
<1>11. \A f : \A r \in Rooms : HasParent(f, timeline[r]) => HasParent(f, timeline'[r])
  BY <1>3 DEF HasParent
<1>12. Parents'
  <2>1. ASSUME NEW r \in Rooms, NEW f \in timeline'[r], WrittenUnderLock(f)
        PROVE  HasParent(f, timeline'[r])
    <3>1. CASE f \in timeline[r]
      BY <1>0, <1>11, <2>1, <3>1 DEF Parents
    <3>2. CASE f \notin timeline[r]
      <4>1. f = e /\ r = rm
        BY <1>3, <2>1, <3>2
      <4>. QED
        BY <1>7, <1>11, <2>1, <4>1
    <3>. QED
      BY <3>1, <3>2
  <2>. QED
    BY <1>6, <2>1 DEF Parents, HasParent
<1>13. LocalEventsChain'
  <2>1. ASSUME NEW r \in Rooms, NEW f \in timeline'[r], NEW g \in timeline'[r],
               WrittenUnderLock(f), WrittenUnderLock(g), f.prev_events = g.prev_events
        PROVE  f = g
    <3>1. CASE f \in timeline[r] /\ g \in timeline[r]
      BY <1>0, <2>1, <3>1 DEF LocalEventsChain
    <3>2. CASE f \notin timeline[r] \/ g \notin timeline[r]
      <4>1. r = rm /\ (f = e \/ g = e) /\ WrittenUnderLock(e)
        BY <1>3, <2>1, <3>2
      <4>2. NoSibling(e, rm)
        BY <1>7, <4>1
      <4>3. \A k \in timeline'[rm] : k = e \/ k \in timeline[rm]
        BY <1>3
      <4>. QED
        BY <2>1, <4>1, <4>2, <4>3 DEF NoSibling
    <3>. QED
      BY <3>1, <3>2
  <2>. QED
    BY <1>6, <2>1 DEF LocalEventsChain
<1>14. ASSUME NEW v \in Workers, job'[v].pc # "idle" PROVE ToAppend(job[v])'
  <2>1. CASE v = w
    <3>1. job'[v] = h
      BY <1>4, <2>1 DEF Becomes
    <3>2. ToAppend(job[w])
      BY <1>0, <1>1 DEF Appending
    <3>. QED
      BY <1>5, <3>1, <3>2 DEF ToAppend
  <2>2. CASE v # w
    <3>. PICK g : g = job[v]
      OBVIOUS
    <3>1. job'[v] = g
      BY <1>4, <2>2 DEF Becomes
    <3>2. ToAppend(g) /\ (g.req.op # "receive" => g.req.room \in Rooms)
      BY <1>0, <1>14, <3>1, HandlerUnderWay DEF Appending
    <3>3. ASSUME g.req.op \in {"send", "member"}, g.pc \in {"auth", "event"}
          PROVE  NoSibling(Head(g.events), g.req.room)'
      <4>1. NoSibling(Head(g.events), g.req.room)
        BY <3>2, <3>3 DEF ToAppend
      <4>2. CASE g.req.room # rm
        <5>1. timeline'[g.req.room] = timeline[g.req.room]
          BY <1>3, <3>2, <3>3, <4>2
        <5>. QED
          BY <1>6, <4>1, <5>1 DEF NoSibling
      <4>3. CASE g.req.room = rm
        <5>1. ~WrittenUnderLock(e)
          <6>1. SUFFICES ASSUME WrittenUnderLock(e) PROVE FALSE
            OBVIOUS
          <6>2. Holding(job[w], rm)
            BY <1>1, <1>7, <6>1 DEF Holding
          <6>3. Holding(job[v], rm)
            BY <3>3, <4>3 DEF Holding
          <6>. QED
            BY <1>0, <1>3, <2>2, <6>2, <6>3 DEF LocksType
        <5>2. timeline'[rm] = timeline[rm] \cup {e}
          BY <1>3
        <5>. QED
          BY <1>6, <4>1, <4>3, <5>1, <5>2 DEF NoSibling
      <4>. QED
        BY <4>2, <4>3
    <3>4. ASSUME g.req.op \in {"send", "member"}, g.pc \in {"auth", "event"}
          PROVE  Head(g.events).auth_events = {} /\ HasParent(Head(g.events), timeline'[g.req.room])
      BY <1>11, <3>2, <3>4 DEF ToAppend
    <3>5. ToAppend(g)'
      BY <3>2, <3>3, <3>4 DEF ToAppend, HasParent
    <3>. QED
      BY <3>1, <3>5 DEF ToAppend, HasParent, NoSibling, WrittenUnderLock
  <2>. QED
    BY <2>1, <2>2
<1>15. Appending'
  BY <1>14 DEF Appending
<1>. QED
  BY <1>10, <1>12, <1>13, <1>15 DEF ChainInv

\* The steps of a handler past its start.
LEMMA HandlersKeepChain ==
  ASSUME TypeInv, ChainInv, IdsApart', NEW w \in Workers,
         TakeLock(w) \/ Fetch(w) \/ Authorize(w) \/ PutEvent(w) \/ PutState(w) \/ CountStream(w) \/ PutStream(w)
           \/ RecordTxn(w)
  PROVE  ChainInv'
<1>0. JobsType /\ LocksType /\ StreamType
  BY DEF TypeInv
<1>1. ASSUME NEW h, Becomes(w, h), h = Idle, minted' = minted, timeline' = timeline PROVE ChainInv'
  <2>1. Shrinks(w, h)
    BY <1>1 DEF Shrinks, Idle
  <2>. QED
    BY <1>1, <2>1, ShrinkKeepsChain
<1>2. ASSUME NEW h, NEW pc, h = AtPoint(job[w], pc), Becomes(w, h), job[w].pc # "idle",
             pc \in {"auth", "event"} /\ h.req.op # "receive" => job[w].pc \in {"auth", "event"},
             minted' = minted, timeline' = timeline
      PROVE  ChainInv'
  <2>1. h.pc = pc /\ h.req = job[w].req /\ h.events = job[w].events
    BY <1>2, AtPointFields
  <2>2. Shrinks(w, h)
    BY <1>2, <2>1 DEF Shrinks
  <2>. QED
    BY <1>2, <2>2, ShrinkKeepsChain
<1>11. ASSUME NEW pc, Becomes(w, WithRest(job[w], pc)), job[w].pc \notin {"idle", "lock"},
               job[w].req.op \notin {"send", "member"}, minted' = minted, timeline' = timeline
       PROVE   ChainInv'
  <2>. PICK s : s = job[w].events
    OBVIOUS
  <2>. PICK h : h = WithRest(job[w], pc)
    OBVIOUS
  <2>1. h.pc = pc /\ h.req = job[w].req /\ h.events = Tail(s)
    BY DEF WithRest
  <2>2. s \in Seq(Range(s)) /\ s # <<>>
    BY <1>0, <1>11, HandlerUnderWay DEF Handler
  <2>3. \A i \in DOMAIN Tail(s) : i + 1 \in DOMAIN s /\ Tail(s)[i] = s[i + 1]
    BY <2>2, TailFacts
  <2>4. \A i \in DOMAIN h.events : \E j \in DOMAIN job[w].events : h.events[i] = job[w].events[j]
    BY <2>1, <2>3
  <2>5. Shrinks(w, h)
    BY <1>11, <2>1, <2>4 DEF Shrinks
  <2>. QED
    BY <1>11, <2>5, ShrinkKeepsChain
<1>3. CASE TakeLock(w)
  BY <1>3, TakeLockKeepsChain
<1>4. CASE Authorize(w)
  <2>1. job[w].pc = "auth" /\ minted' = minted /\ timeline' = timeline
    BY <1>4 DEF Authorize, Doing, store
  <2>2. CASE Goto(w, "event")
    <3>1. Becomes(w, AtPoint(job[w], "event"))
      BY <1>0, <2>1, <2>2, GotoBecomes
    <3>. QED
      BY <1>2, <2>1, <3>1
  <2>3. CASE MovesOn(w, {})
    BY <1>0, <1>11, <1>1, <2>1, <2>3, MovesOnJobs
  <2>. QED
    BY <1>4, <2>2, <2>3 DEF Authorize, Refused
<1>5. CASE PutEvent(w)
  BY <1>5, PutEventKeepsChain
<1>6. CASE PutState(w)
  <2>1. job[w].pc = "state" /\ minted' = minted /\ timeline' = timeline /\ Goto(w, "count")
    BY <1>6 DEF PutState, Doing
  <2>2. Becomes(w, AtPoint(job[w], "count"))
    BY <1>0, <2>1, GotoBecomes
  <2>. QED
    BY <1>2, <2>1, <2>2
<1>7. CASE CountStream(w)
  <2>1. job[w].pc = "count" /\ minted' = minted /\ timeline' = timeline
    BY <1>7 DEF CountStream, Doing, store
  <2>. PICK h : h = Counted(job[w], Len(stream))
    OBVIOUS
  <2>2. Becomes(w, h)
    BY <1>0, <1>7, CountStreamJobs
  <2>3. h.pc = "stream" /\ h.req = job[w].req /\ h.events = job[w].events
    BY DEF Counted
  <2>4. Shrinks(w, h)
    BY <2>1, <2>3 DEF Shrinks
  <2>. QED
    BY <2>1, <2>2, <2>4, ShrinkKeepsChain
<1>8. CASE PutStream(w)
  <2>1. job[w].pc = "stream" /\ minted' = minted /\ timeline' = timeline
    BY <1>8 DEF PutStream, Doing
  <2>2. CASE Becomes(w, AtPoint(job[w], "record"))
    BY <1>2, <2>1, <2>2
  <2>3. CASE \E pc : Becomes(w, WithRest(job[w], pc)) /\ job[w].req.op \notin {"send", "member"}
    BY <1>11, <2>1, <2>3
  <2>4. CASE Becomes(w, Idle)
    BY <1>1, <2>1, <2>4
  <2>. QED
    BY <1>0, <1>8, <2>2, <2>3, <2>4, PutStreamJobs
<1>9. CASE RecordTxn(w)
  <2>1. minted' = minted /\ timeline' = timeline /\ Leave(w)
    BY <1>9 DEF RecordTxn
  <2>2. Becomes(w, Idle)
    BY <1>0, <2>1, LeaveBecomes
  <2>. QED
    BY <1>1, <2>1, <2>2
<1>10. CASE Fetch(w)
  <2>1. job[w].pc = "fetch" /\ minted' = minted /\ timeline' = timeline
    BY <1>10 DEF Fetch, Doing, store
  <2>2. job[w].req.op = "receive"
    BY <1>0, <2>1, HandlerUnderWay DEF Handler
  <2>3. PICK pc \in {"fetch", "auth"} : Becomes(w, AtPoint(job[w], pc))
    BY <1>0, <1>10, FetchJobs
  <2>. QED
    BY <1>2, <2>1, <2>2, <2>3, AtPointFields
<1>. QED
  BY <1>3, <1>4, <1>5, <1>6, <1>7, <1>8, <1>9, <1>10

\* A crash takes what handlers had before them, and leaves the store.
LEMMA CrashKeepsChain ==
  ASSUME TypeInv, ChainInv, IdsApart', Crash
  PROVE  ChainInv'
<1>0. minted \in Nat /\ minted' = minted /\ timeline' = timeline
  BY DEF TypeInv, CountsType, Crash, store
<1>1. \A v \in Workers : job'[v].pc = "idle"
  BY DEF Crash, Idle
<1>2. InPlay' \subseteq InPlay
  BY <1>0, <1>1 DEF InPlay, Held
<1>3. Origins' /\ UniqueIds'
  BY <1>0, <1>2, NothingNew DEF ChainInv
<1>4. Parents' /\ LocalEventsChain'
  BY <1>0, TimelinesSame
<1>5. Appending'
  BY <1>1 DEF Appending
<1>. QED
  BY <1>3, <1>4, <1>5 DEF ChainInv

LEMMA ChainStep ==
  ASSUME TypeInv, ChainInv, IdsApart', [Next]_vars
  PROVE  ChainInv'
<1>1. ASSUME UNCHANGED <<store, server, ledger>> PROVE ChainInv'
  <2>1. timeline' = timeline /\ minted' = minted /\ job' = job
    BY <1>1 DEF store, server
  <2>. QED
    BY <2>1 DEF ChainInv, Origins, UniqueIds, Parents, Appending, LocalEventsChain, InPlay, Held,
                ToAppend, HasParent, NoSibling, WrittenUnderLock
<1>2. ASSUME NEW w \in Workers, Writer(w) PROVE ChainInv'
  BY <1>2, StartsKeepChain, HandlersKeepChain DEF Writer
<1>3. ASSUME NEW u \in Syncers, Reader(u) PROVE ChainInv'
  BY <1>1, <1>3, ReaderWritesNothing
<1>4. CASE Crash
  BY <1>4, CrashKeepsChain
<1>5. CASE UNCHANGED vars
  BY <1>1, <1>5 DEF vars
<1>. QED
  BY <1>2, <1>3, <1>4, <1>5 DEF Next, Finished

LEMMA ChainInit == Init => ChainInv
<1>. SUFFICES ASSUME Init PROVE ChainInv
  OBVIOUS
<1>1. /\ \A r \in Rooms : timeline[r] = StoredIn(r)
      /\ minted = Len(Stored) /\ Len(Stored) \in Nat
      /\ \A w \in Workers : job[w].pc = "idle"
  BY RoomsAssumption, SeqOfValues DEF Init, Idle, StoredTypes
<1>2. \A e \in InPlay : e \in Range(Stored)
  BY <1>1 DEF InPlay, Held, StoredIn, Range
<1>3. Origins
  <2>1. Len(Stored) <= minted
    BY <1>1
  <2>. QED
    BY <1>2, <2>1 DEF Origins
<1>4. UniqueIds
  BY <1>2, RoomsAssumption DEF UniqueIds, IdsNameEvents
<1>. DEFINE Own(i) == Stored[i].id >= 1 /\ (is_state(Stored[i]) => Stored[i].kind = "member" /\ Stored[i].depth > 2)
<1>5. /\ \A i \in DOMAIN Stored : Own(i) /\ Stored[i].prev_events # {} =>
           \E j \in DOMAIN Stored :
             /\ Stored[j].room = Stored[i].room /\ Stored[j].depth < Stored[i].depth
             /\ Stored[i].prev_events = {Stored[j].id}
      /\ \A i, j \in DOMAIN Stored :
           Own(i) /\ Own(j) /\ Stored[i].room = Stored[j].room
             /\ Stored[i].prev_events = Stored[j].prev_events => i = j
  BY RoomsAssumption DEF StoredChains
<1>6. \A i \in DOMAIN Stored : WrittenUnderLock(Stored[i]) => Own(i)
  BY <1>1 DEF WrittenUnderLock
<1>. HIDE DEF Own
<1>7. Parents
  <2>1. ASSUME NEW r \in Rooms, NEW e \in timeline[r], WrittenUnderLock(e) PROVE HasParent(e, timeline[r])
    <3>1. PICK i \in DOMAIN Stored : Stored[i].room = r /\ e = Stored[i]
      BY <1>1, <2>1 DEF StoredIn
    <3>2. CASE e.prev_events = {}
      BY <3>2 DEF HasParent
    <3>3. CASE e.prev_events # {}
      <4>1. PICK j \in DOMAIN Stored :
              /\ Stored[j].room = Stored[i].room /\ Stored[j].depth < Stored[i].depth
              /\ Stored[i].prev_events = {Stored[j].id}
        BY <1>5, <1>6, <2>1, <3>1, <3>3
      <4>2. Stored[j] \in timeline[r]
        BY <1>1, <3>1, <4>1 DEF StoredIn
      <4>. QED
        BY <3>1, <4>1, <4>2 DEF HasParent
    <3>. QED
      BY <3>2, <3>3
  <2>. QED
    BY <2>1 DEF Parents
<1>8. LocalEventsChain
  <2>1. ASSUME NEW r \in Rooms, NEW e \in timeline[r], NEW f \in timeline[r],
               WrittenUnderLock(e), WrittenUnderLock(f), e.prev_events = f.prev_events
        PROVE  e = f
    <3>1. PICK i \in DOMAIN Stored : Stored[i].room = r /\ e = Stored[i]
      BY <1>1, <2>1 DEF StoredIn
    <3>2. PICK j \in DOMAIN Stored : Stored[j].room = r /\ f = Stored[j]
      BY <1>1, <2>1 DEF StoredIn
    <3>. QED
      BY <1>5, <1>6, <2>1, <3>1, <3>2
  <2>. QED
    BY <2>1 DEF LocalEventsChain
<1>9. Appending
  BY <1>1 DEF Appending
<1>. QED
  BY <1>3, <1>4, <1>7, <1>8, <1>9 DEF ChainInv

\* As long as a number given out here is never that of a peer's event, they are
\* all apart before: numbers are only given out.
LEMMA NumbersGrow ==
  ASSUME TypeInv, [Next]_vars
  PROVE  minted' \in Nat /\ minted <= minted' /\ (IdsApart' => IdsApart)
<1>0. TypeInv'
  BY TypeStep
<1>1. minted \in Nat /\ minted' \in Nat
  BY <1>0 DEF TypeInv, CountsType
<1>2. minted <= minted'
  <2>1. ASSUME NEW w \in Workers, NEW req \in Requests, StartCreate(w, req) PROVE minted <= minted'
    <3>1. req.op = "create" /\ minted' = minted + 3 + Len(req.extra) /\ minted + 1 \in Nat
      BY <1>1, <2>1 DEF StartCreate
    <3>2. Len(req.extra) \in Nat
      BY <3>1, CreationFits
    <3>3. \A m \in Nat, n \in Nat : m <= m + 3 + n
      OBVIOUS
    <3>. QED
      BY <1>1, <3>1, <3>2, <3>3, Zenon
  <2>2. ASSUME NEW w \in Workers, TakeLock(w) PROVE minted <= minted'
    BY <1>1, <2>2 DEF TakeLock
  <2>3. minted' = minted => minted <= minted'
    BY <1>1
  <2>4. ASSUME NEW w \in Workers, Writer(w) PROVE minted <= minted'
    <3>1. CASE \E req \in Requests : StartCreate(w, req)
      BY <2>1, <3>1
    <3>2. CASE TakeLock(w)
      BY <2>2, <3>2
    <3>3. CASE minted' = minted
      BY <2>3, <3>3
    <3>4. \/ \E req \in Requests : StartCreate(w, req)
          \/ TakeLock(w) \/ minted' = minted
      BY <2>4 DEF Writer, StartSend, StartMembership, StartReceive, Fetch, Authorize, PutEvent, PutState,
                  CountStream, PutStream, RecordTxn
    <3>. QED
      BY <3>1, <3>2, <3>3, <3>4
  <2>5. ASSUME NEW u \in Syncers, Reader(u) PROVE minted <= minted'
    <3>1. minted' = minted
      BY <2>5, ReaderWritesNothing DEF server
    <3>. QED
      BY <2>3, <3>1
  <2>6. CASE Crash \/ UNCHANGED vars
    <3>1. minted' = minted
      BY <2>6 DEF Crash, vars, server
    <3>. QED
      BY <2>3, <3>1
  <2>. QED
    BY <2>4, <2>5, <2>6 DEF Next, Finished
<1>3. IdsApart' => IdsApart
  <2>1. 1..minted \subseteq 1..minted'
    BY <1>1, <1>2
  <2>. QED
    BY <2>1 DEF IdsApart
<1>. QED
  BY <1>1, <1>2, <1>3

\* The messages and memberships this server writes form a chain: whatever
\* writers, creations, peers and crashes interleave, no two of them have the
\* same parent, for any rooms, workers and requests. The lock alone does not
\* give it: the tip has no child because whatever hangs on a tip is after it.
THEOREM WritersDoNotFork == Spec => [](IdsApart => LocalEventsChain)
<1>1. Init => (IdsApart => ChainInv)
  BY ChainInit
<1>2. TypeInv /\ (IdsApart => ChainInv) /\ [Next]_vars => (IdsApart => ChainInv)'
  <2>1. SUFFICES ASSUME TypeInv, IdsApart => ChainInv, [Next]_vars, IdsApart' PROVE ChainInv'
    OBVIOUS
  <2>2. IdsApart
    BY <2>1, NumbersGrow
  <2>. QED
    BY <2>1, <2>2, ChainStep
<1>3. Spec => []TypeInv
  BY TypeInit, TypeStep, PTL DEF Spec
<1>4. (IdsApart => ChainInv) => (IdsApart => LocalEventsChain)
  BY DEF ChainInv
<1>. QED
  BY <1>1, <1>2, <1>3, <1>4, PTL DEF Spec

-----------------------------------------------------------------------------
(* A transaction has one answer.                                           *)

\* No transaction is tried again while it is being handled: what the code needs
\* of clients, as the run that overlaps two tries shows.
OneTryAtATime ==
  \A v, w \in Workers :
    /\ job[v].pc # "idle" /\ job[w].pc # "idle"
    /\ job[v].req.op = "send" /\ job[w].req.op = "send"
    /\ job[v].req.sender = job[w].req.sender /\ job[v].req.txn = job[w].req.txn
    => v = w

\* The answers are what is recorded, and a send under way is not recorded yet.
TxnInv ==
  /\ DOMAIN transactions = Users \X Txns
  /\ \A a \in answers :
       /\ <<a.sender, a.txn>> \in Users \X Txns
       /\ a.id # None /\ transactions[<<a.sender, a.txn>>] = a.id
  /\ \A w \in Workers : job[w].pc # "idle" /\ job[w].req.op = "send" =>
       transactions[<<job[w].req.sender, job[w].req.txn>>] = None

LEMMA TxnInvImplies == TxnInv => TxnAnsweredOnce
BY DEF TxnInv, TxnAnsweredOnce

\* A worker goes on with its request, starts one that is not recorded, or stops.
LEMMA TxnKept ==
  ASSUME TypeInv, TxnInv, answers' = answers, transactions' = transactions,
         NEW w \in Workers, NEW h, Becomes(w, h),
         h.pc # "idle" /\ h.req.op = "send" =>
           \/ job[w].pc # "idle" /\ h.req = job[w].req
           \/ transactions[<<h.req.sender, h.req.txn>>] = None
  PROVE  TxnInv'
<1>1. ASSUME NEW v \in Workers, job'[v].pc # "idle", job'[v].req.op = "send"
      PROVE  transactions[<<job'[v].req.sender, job'[v].req.txn>>] = None
  BY <1>1 DEF Becomes, TxnInv
<1>. QED
  BY <1>1 DEF TxnInv

LEMMA TxnStarts ==
  ASSUME TypeInv, TxnInv, NEW w \in Workers, NEW req \in Requests,
         StartSend(w, req) \/ StartMembership(w, req) \/ StartReceive(w, req) \/ StartCreate(w, req)
  PROVE  TxnInv'
<1>0. JobsType /\ LocksType /\ minted \in Nat /\ RequestTypes(req)
  BY RoomsAssumption DEF TypeInv, CountsType
<1>1. transactions' = transactions
  BY DEF StartSend, StartMembership, StartReceive, StartCreate, store
<1>2. CASE StartSend(w, req)
  <2>. PICK id : id = transactions[<<req.sender, req.txn>>]
    OBVIOUS
  <2>0. req.op = "send" /\ <<req.sender, req.txn>> \in Users \X Txns
    BY <1>0, <1>2 DEF StartSend, RequestTypes
  <2>1. CASE id # None
    <3>1. job' = job /\ answers' = answers \cup {[sender |-> req.sender, txn |-> req.txn, id |-> id]}
      BY <1>2, <2>0, <2>1 DEF StartSend, TxnKey, Answer
    <3>. PICK a : a = [sender |-> req.sender, txn |-> req.txn, id |-> id]
      OBVIOUS
    <3>2. a.sender = req.sender /\ a.txn = req.txn /\ a.id = id /\ answers' = answers \cup {a}
      BY <3>1
    <3>. QED
      BY <1>1, <2>0, <2>1, <3>1, <3>2 DEF TxnInv
  <2>2. CASE id = None
    <3>. PICK h : h = [req |-> req, pc |-> "lock", events |-> <<>>, seq |-> 0]
      OBVIOUS
    <3>1. answers' = answers /\ Begin(w, req, "lock", <<>>)
      BY <1>2, <2>2 DEF StartSend, TxnKey
    <3>2. Becomes(w, h)
      BY <1>0, <3>1, BeginBecomes
    <3>3. h.req = req
      OBVIOUS
    <3>. QED
      BY <1>1, <2>2, <3>1, <3>2, <3>3, TxnKept
  <2>. QED
    BY <2>1, <2>2
<1>3. CASE StartMembership(w, req)
  <2>. PICK h : h = [req |-> req, pc |-> "lock", events |-> <<>>, seq |-> 0]
    OBVIOUS
  <2>1. Becomes(w, h) /\ h.req = req /\ req.op # "send" /\ answers' = answers
    BY <1>0, <1>3, StartMembershipJobs DEF StartMembership
  <2>. QED
    BY <1>1, <2>1, TxnKept
<1>4. CASE StartReceive(w, req)
  <2>. PICK pdus \in req.transactions : Becomes(w, Fetching(req, pdus))
    BY <1>0, <1>4, StartReceiveJobs
  <2>. PICK h : h = Fetching(req, pdus)
    OBVIOUS
  <2>1. Becomes(w, h) /\ h.req = req /\ req.op # "send" /\ answers' = answers
    BY <1>4 DEF StartReceive, Fetching
  <2>. QED
    BY <1>1, <2>1, TxnKept
<1>5. CASE StartCreate(w, req)
  <2>. PICK h : h = [req |-> req, pc |-> "event", events |-> CreationEvents(req, minted + 1), seq |-> 0]
    OBVIOUS
  <2>1. Becomes(w, h) /\ h.req = req /\ req.op # "send" /\ answers' = answers
    BY <1>0, <1>5, StartCreateJobs DEF StartCreate
  <2>. QED
    BY <1>1, <2>1, TxnKept
<1>. QED
  BY <1>2, <1>3, <1>4, <1>5

\* The record is written once, and it is the answer.
LEMMA TxnRecords ==
  ASSUME TypeInv, TxnInv, OneTryAtATime, NEW w \in Workers, RecordTxn(w)
  PROVE  TxnInv'
<1>0. JobsType
  BY DEF TypeInv
<1>1. job[w].pc = "record" /\ Leave(w)
  BY DEF RecordTxn, Doing
<1>2. Handler(job[w]) /\ RequestTypes(job[w].req)
  BY <1>0, <1>1, HandlerUnderWay
<1>. PICK req : req = job[w].req
  OBVIOUS
<1>. PICK id : id = Current(w).id
  OBVIOUS
<1>3. req.op = "send" /\ <<req.sender, req.txn>> \in Users \X Txns
  BY <1>1, <1>2 DEF Handler, RequestTypes
<1>4. id # None
  <2>1. id \in Int
    BY <1>0, <1>1, CurrentFits DEF Fits
  <2>. QED
    BY <2>1, RoomsAssumption
<1>. PICK k : k = <<req.sender, req.txn>>
  OBVIOUS
<1>. PICK a : a = [sender |-> req.sender, txn |-> req.txn, id |-> id]
  OBVIOUS
<1>5. transactions' = [transactions EXCEPT ![k] = id] /\ answers' = answers \cup {a}
  BY <1>3, <1>4 DEF RecordTxn, TxnKey, Answer
<1>6. Becomes(w, Idle)
  BY <1>0, <1>1, LeaveBecomes
<1>7. DOMAIN transactions' = Users \X Txns
      /\ \A x \in Users \X Txns : transactions'[x] = IF x = k THEN id ELSE transactions[x]
  BY <1>3, <1>5 DEF TxnInv
<1>8. transactions[k] = None
  BY <1>1, <1>3 DEF TxnInv
<1>9. ASSUME NEW b \in answers'
      PROVE  <<b.sender, b.txn>> \in Users \X Txns /\ b.id # None /\ transactions'[<<b.sender, b.txn>>] = b.id
  <2>1. CASE b = a
    BY <1>3, <1>4, <1>7, <2>1
  <2>2. CASE b \in answers
    <3>1. <<b.sender, b.txn>> \in Users \X Txns /\ b.id # None /\ transactions[<<b.sender, b.txn>>] = b.id
      BY <2>2 DEF TxnInv
    <3>2. <<b.sender, b.txn>> # k
      BY <1>8, <3>1
    <3>. QED
      BY <1>7, <3>1, <3>2
  <2>. QED
    BY <1>5, <2>1, <2>2
<1>10. ASSUME NEW v \in Workers, job'[v].pc # "idle", job'[v].req.op = "send"
       PROVE  transactions'[<<job'[v].req.sender, job'[v].req.txn>>] = None
  <2>1. v # w
    BY <1>6, <1>10 DEF Becomes, Idle
  <2>2. job'[v] = job[v]
    BY <1>6, <2>1 DEF Becomes
  <2>3. transactions[<<job[v].req.sender, job[v].req.txn>>] = None
    BY <1>10, <2>2 DEF TxnInv
  <2>4. <<job[v].req.sender, job[v].req.txn>> # k
    BY <1>1, <1>3, <1>10, <2>1, <2>2 DEF OneTryAtATime
  <2>5. <<job[v].req.sender, job[v].req.txn>> \in Users \X Txns
    <3>1. RequestTypes(job[v].req)
      BY <1>0, <1>10, <2>2, HandlerUnderWay
    <3>. QED
      BY <1>10, <2>2, <3>1 DEF RequestTypes
  <2>. QED
    BY <1>7, <2>2, <2>3, <2>4, <2>5
<1>. QED
  BY <1>7, <1>9, <1>10 DEF TxnInv

LEMMA TxnHandlers ==
  ASSUME TypeInv, TxnInv, NEW w \in Workers,
         TakeLock(w) \/ Fetch(w) \/ Authorize(w) \/ PutEvent(w) \/ PutState(w) \/ CountStream(w) \/ PutStream(w)
  PROVE  TxnInv'
<1>0. EventsType /\ JobsType /\ LocksType /\ StreamType /\ minted \in Nat
  BY DEF TypeInv, CountsType
<1>1. answers' = answers /\ transactions' = transactions /\ job[w].pc # "idle"
  BY DEF TakeLock, Fetch, Authorize, PutEvent, PutState, CountStream, PutStream, Doing, store, ledger
<1>2. ASSUME NEW h, Becomes(w, h), h = Idle \/ h.req = job[w].req PROVE TxnInv'
  BY <1>1, <1>2, TxnKept DEF Idle
<1>3. ASSUME NEW pc, Goto(w, pc) PROVE TxnInv'
  <2>1. Becomes(w, AtPoint(job[w], pc)) /\ AtPoint(job[w], pc).req = job[w].req
    BY <1>0, <1>1, <1>3, GotoBecomes, AtPointFields
  <2>. QED
    BY <1>2, <2>1
<1>4. CASE Fetch(w)
  BY <1>0, <1>2, <1>4, FetchJobs, AtPointFields
<1>5. CASE TakeLock(w)
  <2>. PICK h : h = [req |-> job[w].req, pc |-> "auth", events |-> <<LinkedIn(w)>>, seq |-> job[w].seq]
    OBVIOUS
  <2>1. Becomes(w, h) /\ h.req = job[w].req
    BY <1>0, <1>5, TakeLockJobs
  <2>. QED
    BY <1>2, <2>1
<1>6. CASE Authorize(w)
  <2>1. job[w].pc = "auth" /\ (Goto(w, "event") \/ MovesOn(w, {}))
    BY <1>6 DEF Authorize, Refused, Doing
  <2>2. WithRest(job[w], "auth").req = job[w].req
    BY DEF WithRest
  <2>. QED
    BY <1>0, <1>2, <1>3, <2>1, <2>2, MovesOnJobs
<1>7. CASE PutEvent(w)
  BY <1>3, <1>7 DEF PutEvent
<1>8. CASE PutState(w)
  BY <1>3, <1>8 DEF PutState
<1>9. CASE CountStream(w)
  <2>1. Becomes(w, Counted(job[w], Len(stream))) /\ Counted(job[w], Len(stream)).req = job[w].req
    BY <1>0, <1>9, CountStreamJobs DEF Counted
  <2>. QED
    BY <1>2, <2>1
<1>10. CASE PutStream(w)
  <2>1. AtPoint(job[w], "record").req = job[w].req /\ \A pc : WithRest(job[w], pc).req = job[w].req
    BY DEF AtPoint, WithRest
  <2>. QED
    BY <1>0, <1>2, <1>10, <2>1, PutStreamJobs
<1>. QED
  BY <1>4, <1>5, <1>6, <1>7, <1>8, <1>9, <1>10

LEMMA TxnStep ==
  ASSUME TypeInv, TxnInv, OneTryAtATime, [Next]_vars
  PROVE  TxnInv'
<1>1. ASSUME UNCHANGED <<store, server, ledger>> PROVE TxnInv'
  <2>1. transactions' = transactions /\ answers' = answers /\ job' = job
    BY <1>1 DEF store, server, ledger
  <2>. QED
    BY <2>1 DEF TxnInv
<1>2. ASSUME NEW w \in Workers, Writer(w) PROVE TxnInv'
  BY <1>2, TxnStarts, TxnHandlers, TxnRecords DEF Writer
<1>3. ASSUME NEW u \in Syncers, Reader(u) PROVE TxnInv'
  BY <1>1, <1>3, ReaderWritesNothing
<1>4. CASE Crash
  <2>1. transactions' = transactions /\ answers' = answers /\ \A v \in Workers : job'[v].pc = "idle"
    BY <1>4 DEF Crash, store, Idle
  <2>. QED
    BY <2>1 DEF TxnInv
<1>5. CASE UNCHANGED vars
  BY <1>1, <1>5 DEF vars
<1>. QED
  BY <1>2, <1>3, <1>4, <1>5 DEF Next, Finished

\* A retry is answered with the event the first try sent, whatever other
\* senders and transactions do, across refusals and crashes: the answers agree
\* with the transactions recorded, and a record is never written over. It needs
\* that a transaction is not tried again while it is being handled, because the
\* look-up is before the lock.
THEOREM RetriesAnswerAlike == Spec /\ []OneTryAtATime => []TxnAnsweredOnce
<1>1. Init => TxnInv
  BY DEF Init, TxnInv, Idle
<1>2. TypeInv /\ TxnInv /\ OneTryAtATime /\ [Next]_vars => TxnInv'
  BY TxnStep
<1>3. Spec => []TypeInv
  BY TypeInit, TypeStep, PTL DEF Spec
<1>. QED
  BY <1>1, <1>2, <1>3, TxnInvImplies, PTL DEF Spec

-----------------------------------------------------------------------------
(* Writers that serialise: with sends and membership changes only, and     *)
(* until a crash, a room is what its timeline replays to.                  *)

OnlyWriters == \A req \in Requests : req.op \in {"send", "member"}

\* What the server starts from, for MembersOnlySpeak: who spoke was joined.
StoredSpeakers ==
  \A r \in Rooms : \A e \in StoredIn(r) :
    e.kind = "message" =>
      membership(LatestPerSlot({f \in StoredIn(r) : f.depth < e.depth}), e.sender) = "join"

\* Every event of a set is before this one.
After(e, events) == \A f \in events : f.depth < e.depth

\* The event hangs on the last of a room.
OnTip(e, events) ==
  events # {} => e.depth = TipOf(events).depth + 1 /\ e.prev_events = {TipOf(events).id}

AtRest(r) == room_state[r] = LatestPerSlot(timeline[r])

\* A writer at each point of its work, with what its room holds: what it judged
\* the event by is what the room amounts to when the event is appended.
Writing(h, events, state) ==
  LET e == Head(h.events)
  IN  /\ h.req.op \in {"send", "member"} /\ e.sender = h.req.sender
      /\ h.pc \in {"auth", "event"} =>
           /\ state = LatestPerSlot(events) /\ After(e, events) /\ OnTip(e, events)
           /\ e.auth_events = {}
      /\ h.pc = "event" => check_auth(e, LatestPerSlot(events))
      /\ h.pc = "state" =>
           /\ state = LatestPerSlot(events \ {e})
           /\ After(e, events \ {e})
      /\ h.pc \in {"count", "stream", "record"} => state = LatestPerSlot(events)

Writers ==
  \A w \in Workers : job[w].pc \notin {"idle", "lock"} =>
    Writing(job[w], timeline[job[w].req.room], room_state[job[w].req.room])

\* Who speaks was a member, if that was so of what the server started from.
Speakers == StoredSpeakers => MembersOnlySpeak

SerialInv == StateIsReplay /\ Speakers /\ Writers

\* A state with a later state event put over it.
LEMMA StateOfMore ==
  ASSUME NEW events, NEW e, Placed(events), e.depth \in Nat, e.id \in Int, After(e, events), is_state(e)
  PROVE  LatestPerSlot(events \cup {e}) = Over(LatestPerSlot(events), {e})
<1>1. \A f \in events : AtOrBefore(f, e) /\ ~AtOrBefore(e, f)
  BY DEF Placed, After, AtOrBefore
<1>2. AtOrBefore(e, e)
  BY OrderTotal
<1>3. \A f, g : SameSlot(f, g) <=> SameSlot(g, f)
  BY DEF SameSlot
<1>4. \A f \in LatestPerSlot(events \cup {e}) : f \in Over(LatestPerSlot(events), {e})
  BY <1>1, <1>3 DEF LatestPerSlot, Over
<1>5. \A f \in Over(LatestPerSlot(events), {e}) : f \in LatestPerSlot(events \cup {e})
  BY <1>1, <1>2, <1>3 DEF LatestPerSlot, Over
<1>. QED
  BY <1>4, <1>5

\* A message leaves the state as it is.
LEMMA StateOfMessage ==
  ASSUME NEW events, NEW e, ~is_state(e)
  PROVE  LatestPerSlot(events \cup {e}) = LatestPerSlot(events)
BY DEF LatestPerSlot, SameSlot, is_state

\* Who spoke before was joined then, also after one more event at the end; and
\* who speaks now is judged by all there is.
LEMMA StillSpoken ==
  ASSUME NEW events, NEW e, Placed(events), e.depth \in Nat, After(e, events)
  PROVE  /\ {f \in events \cup {e} : f.depth < e.depth} = events
         /\ \A g \in events : {f \in events \cup {e} : f.depth < g.depth} = {f \in events : f.depth < g.depth}
<1>1. ~(e.depth < e.depth)
  OBVIOUS
<1>2. \A g \in events : g.depth \in Nat /\ g.depth < e.depth
  BY DEF Placed, After
<1>3. \A g \in events : ~(e.depth < g.depth)
  BY <1>2
<1>. QED
  BY <1>1, <1>2, <1>3

\* A writer is of one room, with one event past the lock, and after it leaves.
LEMMA WritersRoom ==
  ASSUME TypeInv, OnlyWriters, NEW w \in Workers, job[w].pc # "idle"
  PROVE  /\ job[w].req.op \in {"send", "member"} /\ job[w].req.room \in Rooms /\ job[w].pc # "fetch"
         /\ job[w].pc # "lock" => /\ Current(w).room = job[w].req.room
                                 /\ \A accepted : MovesOn(w, accepted) => Leave(w)
<1>1. Handler(job[w]) /\ job[w].req \in Requests /\ (job[w].req.op # "receive" => job[w].req.room \in Rooms)
  BY HandlerUnderWay DEF TypeInv
<1>2. job[w].req.op \in {"send", "member"}
  BY <1>1 DEF OnlyWriters
<1>3. job[w].pc # "lock" => Current(w).room = job[w].req.room
  BY <1>2, CurrentFits DEF TypeInv
<1>4. job[w].pc # "lock" => Tail(job[w].events) = <<>>
  BY <1>1, <1>2 DEF Handler
<1>. QED
  BY <1>1, <1>2, <1>3, <1>4 DEF Handler, MovesOn

\* One lock, one writer: the writer of a room is the only one.
LEMMA OneWriter ==
  ASSUME TypeInv, OnlyWriters, NEW w \in Workers, NEW v \in Workers,
         job[w].pc \notin {"idle", "lock"}, job[v].pc \notin {"idle", "lock"},
         job[w].req.room = job[v].req.room
  PROVE  w = v /\ lock[job[w].req.room] = w
<1>1. JobsType /\ LocksType
  BY DEF TypeInv
<1>2. job[w].req.room \in Rooms /\ job[w].req \in Requests /\ job[v].req \in Requests
  BY <1>1, HandlerUnderWay, WritersRoom
<1>3. Holding(job[w], job[w].req.room) /\ Holding(job[v], job[w].req.room)
  BY <1>2 DEF Holding, OnlyWriters
<1>. QED
  BY <1>1, <1>2, <1>3 DEF LocksType

\* A step of a writer, at its room; every other room and writer stays.
LEMMA OthersWrite ==
  ASSUME TypeInv, OnlyWriters, Writers, NEW w \in Workers, NEW h, Becomes(w, h), NEW rm,
         h.pc \notin {"idle", "lock"} =>
           h.req.room = rm /\ Writing(h, timeline'[rm], room_state'[rm]),
         \A r \in Rooms \ {rm} : timeline'[r] = timeline[r] /\ room_state'[r] = room_state[r],
         \/ timeline'[rm] = timeline[rm] /\ room_state'[rm] = room_state[rm]
         \/ job[w].pc \notin {"idle", "lock"} /\ job[w].req.room = rm
  PROVE  Writers'
<1>. SUFFICES ASSUME NEW v \in Workers, job'[v].pc \notin {"idle", "lock"}
     PROVE  Writing(job'[v], timeline'[job'[v].req.room], room_state'[job'[v].req.room])
  BY DEF Writers
<1>1. CASE v = w
  <2>1. job'[v] = h
    BY <1>1 DEF Becomes
  <2>. QED
    BY <2>1
<1>2. CASE v # w
  <2>1. job'[v] = job[v]
    BY <1>2 DEF Becomes
  <2>2. job[v].req.room \in Rooms
    BY <2>1, WritersRoom
  <2>3. Writing(job[v], timeline[job[v].req.room], room_state[job[v].req.room])
    BY <2>1 DEF Writers
  <2>4. timeline'[job[v].req.room] = timeline[job[v].req.room]
        /\ room_state'[job[v].req.room] = room_state[job[v].req.room]
    BY <1>2, <2>1, <2>2, OneWriter
  <2>. QED
    BY <2>1, <2>3, <2>4
<1>. QED
  BY <1>1, <1>2

\* A step that puts nothing: its room rests if it leaves the lock.
LEMMA SerialKept ==
  ASSUME TypeInv, OnlyWriters, SerialInv, timeline' = timeline, room_state' = room_state,
         NEW w \in Workers, NEW h, Becomes(w, h),
         h.pc \notin {"idle", "lock"} => Writing(h, timeline[h.req.room], room_state[h.req.room]),
         \A r \in Rooms : lock'[r] = None => lock[r] = None \/ AtRest(r)
  PROVE  SerialInv'
<1>1. StateIsReplay'
  BY DEF SerialInv, StateIsReplay, AtRest
<1>2. Speakers'
  BY DEF SerialInv, Speakers, MembersOnlySpeak, StateBefore
<1>3. Writers'
  <2>. PICK rm : h.pc \notin {"idle", "lock"} => rm = h.req.room
    OBVIOUS
  <2>. QED
    BY OthersWrite DEF SerialInv
<1>. QED
  BY <1>1, <1>2, <1>3 DEF SerialInv

\* Leaving the lock of a room at rest, or no lock.
LEMMA SerialLeaves ==
  ASSUME TypeInv, OnlyWriters, SerialInv, timeline' = timeline, room_state' = room_state,
         NEW w \in Workers, Leave(w), job[w].pc # "idle",
         Writing(job[w], timeline[job[w].req.room], room_state[job[w].req.room]),
         job[w].pc \in {"auth", "count", "stream", "record"}
  PROVE  SerialInv'
<1>0. JobsType /\ LocksType
  BY DEF TypeInv
<1>1. Becomes(w, Idle)
  BY <1>0, LeaveBecomes
<1>2. AtRest(job[w].req.room)
  BY DEF Writing, AtRest
<1>3. ASSUME NEW r \in Rooms, lock'[r] = None PROVE lock[r] = None \/ AtRest(r)
  <2>1. lock'[r] = IF lock[r] = w THEN None ELSE lock[r]
    BY DEF Leave
  <2>2. CASE lock[r] = w
    <3>1. r = job[w].req.room
      BY <1>0, <2>2 DEF LocksType, Holding
    <3>. QED
      BY <1>2, <3>1
  <2>. QED
    BY <1>3, <2>1, <2>2
<1>4. Idle.pc = "idle"
  BY DEF Idle
<1>. QED
  BY <1>1, <1>3, <1>4, SerialKept

LEMMA SerialStarts ==
  ASSUME TypeInv, OnlyWriters, SerialInv, NEW w \in Workers, NEW req \in Requests,
         StartSend(w, req) \/ StartMembership(w, req) \/ StartReceive(w, req) \/ StartCreate(w, req)
  PROVE  SerialInv'
<1>0. JobsType /\ LocksType
  BY DEF TypeInv
<1>. PICK h : h = [req |-> req, pc |-> "lock", events |-> <<>>, seq |-> 0]
  OBVIOUS
<1>1. StartSend(w, req) \/ StartMembership(w, req)
  BY DEF OnlyWriters, StartReceive, StartCreate
<1>2. timeline' = timeline /\ room_state' = room_state /\ lock' = lock
  BY <1>1 DEF StartSend, StartMembership, store
<1>3. CASE job' = job
  BY <1>2, <1>3 DEF SerialInv, StateIsReplay, Speakers, MembersOnlySpeak, StateBefore, Writers
<1>4. CASE Becomes(w, h)
  BY <1>2, <1>4, SerialKept
<1>. QED
  BY <1>0, <1>1, <1>3, <1>4, StartSendJobs, StartMembershipJobs

LEMMA SerialTakesLock ==
  ASSUME TypeInv, OnlyWriters, SerialInv, NEW w \in Workers, TakeLock(w)
  PROVE  SerialInv'
<1>0. EventsType /\ JobsType /\ LocksType /\ minted \in Nat
  BY DEF TypeInv, CountsType
<1>1. job[w].pc = "lock" /\ timeline' = timeline /\ room_state' = room_state
  BY DEF TakeLock, Doing, store
<1>2. Handler(job[w]) /\ job[w].req.room \in Rooms /\ job[w].req \in Requests
  BY <1>0, <1>1, HandlerUnderWay, WritersRoom
<1>. PICK rm : rm = job[w].req.room
  OBVIOUS
<1>. PICK e : e = LinkedIn(w)
  OBVIOUS
<1>. PICK h : h = [req |-> job[w].req, pc |-> "auth", events |-> <<e>>, seq |-> job[w].seq]
  OBVIOUS
<1>3. Becomes(w, h) /\ h.pc = "auth" /\ h.req = job[w].req /\ Head(h.events) = e
  BY <1>0, TakeLockJobs, ListOfOne
<1>4. lock[rm] = None /\ \A r \in Rooms : lock'[r] = None => lock[r] = None
  BY <1>2 DEF TakeLock, TakesLock, LocksType
<1>5. room_state[rm] = LatestPerSlot(timeline[rm])
  BY <1>2, <1>4 DEF SerialInv, StateIsReplay
<1>6. Placed(timeline[rm]) /\ HasTip(timeline[rm])
  BY <1>0, <1>2 DEF EventsType, Placed, Fits
<1>7. /\ e.sender = job[w].req.sender /\ e.auth_events = {}
      /\ timeline[rm] # {} => /\ e.prev_events = {TipOf(timeline[rm]).id}
                              /\ e.depth = TipOf(timeline[rm]).depth + 1
  <2>1. minted + 1 \in Int
    BY <1>0
  <2>. QED
    BY <1>6, <2>1, LinkedFits DEF LinkedIn
<1>8. After(e, timeline[rm])
  <2>1. SUFFICES ASSUME NEW f \in timeline[rm] PROVE f.depth < e.depth
    BY DEF After
  <2>. PICK tip : tip = TipOf(timeline[rm])
    OBVIOUS
  <2>2. tip \in timeline[rm] /\ AtOrBefore(f, tip) /\ e.depth = tip.depth + 1
    BY <1>6, <1>7, TipIsLast
  <2>3. tip.depth \in Nat /\ f.depth \in Nat
    BY <1>6, <2>2 DEF Placed
  <2>. QED
    BY <2>2, <2>3 DEF AtOrBefore
<1>9. Writing(h, timeline[rm], room_state[rm])
  BY <1>2, <1>3, <1>5, <1>7, <1>8 DEF Writing, OnTip, OnlyWriters
<1>. QED
  BY <1>1, <1>3, <1>4, <1>9, SerialKept

\* The event is judged by the room's current state, which is what its timeline
\* replays to.
LEMMA JudgedByState ==
  ASSUME TypeInv, OnlyWriters, SerialInv, NEW w \in Workers, job[w].pc = "auth",
         Writing(job[w], timeline[job[w].req.room], room_state[job[w].req.room]),
         Authorised(Current(w), fetched[w].by_id)
  PROVE  check_auth(Current(w), LatestPerSlot(timeline[job[w].req.room]))
<1>1. Current(w).room = job[w].req.room
  BY WritersRoom
<1>2. Current(w).auth_events = {} /\ room_state[job[w].req.room] = LatestPerSlot(timeline[job[w].req.room])
  BY DEF Writing, Current
<1>. QED
  BY <1>1, <1>2 DEF Authorised

LEMMA SerialAuthorizes ==
  ASSUME TypeInv, OnlyWriters, SerialInv, NEW w \in Workers, Authorize(w)
  PROVE  SerialInv'
<1>0. JobsType /\ LocksType
  BY DEF TypeInv
<1>1. job[w].pc = "auth" /\ timeline' = timeline /\ room_state' = room_state
  BY DEF Authorize, Doing, store
<1>2. Writing(job[w], timeline[job[w].req.room], room_state[job[w].req.room])
  BY <1>1 DEF SerialInv, Writers
<1>3. CASE Authorised(Current(w), fetched[w].by_id) /\ Goto(w, "event")
  <2>. PICK h : h = AtPoint(job[w], "event")
    OBVIOUS
  <2>1. Becomes(w, h) /\ lock' = lock
    BY <1>0, <1>1, <1>3, GotoBecomes
  <2>2. h.pc = "event" /\ h.req = job[w].req /\ h.events = job[w].events
    BY AtPointFields
  <2>3. check_auth(Head(h.events), LatestPerSlot(timeline[h.req.room]))
    BY <1>1, <1>2, <1>3, <2>2, JudgedByState DEF Current
  <2>4. Writing(h, timeline[h.req.room], room_state[h.req.room])
    BY <1>1, <1>2, <2>2, <2>3 DEF Writing
  <2>. QED
    BY <1>1, <2>1, <2>4, SerialKept
<1>4. CASE Leave(w)
  BY <1>1, <1>2, <1>4, SerialLeaves
<1>. QED
  BY <1>1, <1>3, <1>4, WritersRoom DEF Authorize, Refused

\* The put of an event: whoever speaks was joined by the events there are, and
\* a message leaves the room at rest.
LEMMA SerialPutsEvent ==
  ASSUME TypeInv, OnlyWriters, SerialInv, NEW w \in Workers, PutEvent(w)
  PROVE  SerialInv'
<1>0. EventsType /\ JobsType /\ LocksType /\ StateIsReplay /\ Speakers /\ Writers
  BY DEF TypeInv, SerialInv
<1>. PICK e : e = Current(w)
  OBVIOUS
<1>. PICK rm : rm = job[w].req.room
  OBVIOUS
<1>. PICK events : events = timeline[rm]
  OBVIOUS
<1>1. job[w].pc = "event" /\ room_state' = room_state
  BY DEF PutEvent, Doing
<1>2. /\ DOMAIN timeline' = Rooms /\ rm \in Rooms /\ Fits(e, rm)
      /\ \A r \in Rooms : timeline'[r] = IF r = rm THEN events \cup {e} ELSE timeline[r]
  BY <1>0, <1>1, PutEventTimeline, WritersRoom
<1>. PICK pc \in {"state", "count"} : pc = IF is_state(e) THEN "state" ELSE "count"
  OBVIOUS
<1>. PICK h : h = AtPoint(job[w], pc)
  OBVIOUS
<1>3. Becomes(w, h) /\ lock' = lock
  <2>1. Goto(w, pc)
    BY DEF PutEvent
  <2>. QED
    BY <1>0, <1>1, <2>1, GotoBecomes
<1>4. h.pc = pc /\ h.req = job[w].req /\ h.events = job[w].events /\ Head(h.events) = e
  BY AtPointFields DEF Current
<1>5. /\ job[w].req.op \in {"send", "member"} /\ e.sender = job[w].req.sender
      /\ room_state[rm] = LatestPerSlot(events) /\ After(e, events)
      /\ check_auth(e, LatestPerSlot(events))
  BY <1>0, <1>1 DEF Writers, Writing, Current
<1>6. Placed(events) /\ e.depth \in Nat /\ \A f \in events : f.room = rm
  BY <1>0, <1>2 DEF EventsType, Placed, Fits
<1>7. /\ {f \in events \cup {e} : f.depth < e.depth} = events
      /\ \A g \in events : {f \in events \cup {e} : f.depth < g.depth} = {f \in events : f.depth < g.depth}
  BY <1>5, <1>6, StillSpoken
<1>8. Writing(h, timeline'[rm], room_state'[rm])
  <2>1. (events \cup {e}) \ {e} = events
    <3>1. e \notin events
      BY <1>5, <1>6 DEF After
    <3>. QED
      BY <3>1
  <2>2. CASE is_state(e)
    BY <1>1, <1>2, <1>4, <1>5, <2>1, <2>2 DEF Writing
  <2>3. CASE ~is_state(e)
    <3>1. LatestPerSlot(events \cup {e}) = LatestPerSlot(events)
      BY <2>3, StateOfMessage
    <3>. QED
      BY <1>1, <1>2, <1>4, <1>5, <2>3, <3>1 DEF Writing
  <2>. QED
    BY <2>2, <2>3
<1>9. Writers'
  BY <1>0, <1>1, <1>2, <1>3, <1>4, <1>8, OthersWrite
<1>10. StateIsReplay'
  <2>1. ASSUME NEW r \in Rooms, lock[r] = None PROVE room_state[r] = LatestPerSlot(timeline'[r])
    <3>1. lock[rm] = w /\ None \notin Workers
      BY <1>1, OneWriter, RoomsAssumption
    <3>2. r # rm
      BY <2>1, <3>1
    <3>. QED
      BY <1>0, <1>2, <2>1, <3>2 DEF StateIsReplay
  <2>. QED
    BY <1>1, <1>3, <2>1 DEF StateIsReplay
<1>11. ASSUME StoredSpeakers, NEW r \in Rooms, NEW g \in timeline'[r], g.kind = "message"
       PROVE  membership(LatestPerSlot({f \in timeline'[g.room] : f.depth < g.depth}), g.sender) = "join"
  <2>1. CASE r # rm
    <3>1. g \in timeline[r] /\ g.room = r
      BY <1>0, <1>2, <2>1 DEF EventsType, Fits
    <3>2. timeline'[g.room] = timeline[g.room]
      BY <1>2, <2>1, <3>1
    <3>. QED
      BY <1>0, <1>11, <3>1, <3>2 DEF Speakers, MembersOnlySpeak, StateBefore
  <2>2. CASE r = rm /\ g \in events
    <3>1. g.room = rm /\ timeline'[g.room] = events \cup {e}
      BY <1>2, <1>6, <2>2
    <3>2. {f \in timeline'[g.room] : f.depth < g.depth} = {f \in timeline[g.room] : f.depth < g.depth}
      BY <1>7, <2>2, <3>1
    <3>. QED
      BY <1>0, <1>2, <1>11, <2>2, <3>2 DEF Speakers, MembersOnlySpeak, StateBefore
  <2>3. CASE g = e
    <3>1. g.room = rm /\ timeline'[g.room] = events \cup {e}
      BY <1>2, <2>3 DEF Fits
    <3>2. {f \in timeline'[g.room] : f.depth < g.depth} = events
      BY <1>7, <2>3, <3>1
    <3>3. membership(LatestPerSlot(events), g.sender) = "join"
      BY <1>5, <1>11, <2>3 DEF check_auth, MaySend
    <3>. QED
      BY <3>2, <3>3
  <2>. QED
    BY <1>2, <2>1, <2>2, <2>3
<1>12. Speakers'
  BY <1>11 DEF Speakers, MembersOnlySpeak, StateBefore
<1>. QED
  BY <1>9, <1>10, <1>12 DEF SerialInv

\* The put of a state slot brings the state up to the timeline again.
LEMMA SerialPutsState ==
  ASSUME TypeInv, OnlyWriters, SerialInv, NEW w \in Workers, PutState(w)
  PROVE  SerialInv'
<1>0. EventsType /\ StatesType /\ JobsType /\ LocksType /\ AppendsType /\ StateIsReplay /\ Speakers /\ Writers
  BY DEF TypeInv, SerialInv
<1>. PICK e : e = Current(w)
  OBVIOUS
<1>. PICK rm : rm = job[w].req.room
  OBVIOUS
<1>. PICK events : events = timeline[rm]
  OBVIOUS
<1>. PICK h : h = AtPoint(job[w], "count")
  OBVIOUS
<1>1. job[w].pc = "state" /\ timeline' = timeline /\ Goto(w, "count")
  BY DEF PutState, Doing
<1>2. rm \in Rooms /\ Fits(e, rm) /\ e \in events /\ is_state(e)
  BY <1>0, <1>1, CurrentFits, WritersRoom DEF AppendsType
<1>3. \A r \in Rooms : room_state'[r] = IF r = rm THEN Over(room_state[rm], {e}) ELSE room_state[r]
  <2>1. room_state' = [room_state EXCEPT ![rm] = Over(@, {e})]
    BY <1>2 DEF PutState, Fits
  <2>. QED
    BY <1>0, <1>2, <2>1 DEF StatesType
<1>4. Becomes(w, h) /\ lock' = lock
  BY <1>0, <1>1, GotoBecomes
<1>5. h.pc = "count" /\ h.req = job[w].req /\ h.events = job[w].events
  BY AtPointFields
<1>6. /\ job[w].req.op \in {"send", "member"} /\ e.sender = job[w].req.sender
      /\ room_state[rm] = LatestPerSlot(events \ {e}) /\ After(e, events \ {e})
  BY <1>0, <1>1 DEF Writers, Writing, Current
<1>7. room_state'[rm] = LatestPerSlot(timeline'[rm])
  <2>. PICK before : before = events \ {e}
    OBVIOUS
  <2>1. Placed(before) /\ e.depth \in Nat /\ e.id \in Int
    BY <1>0, <1>2 DEF EventsType, Placed, Fits
  <2>2. LatestPerSlot(before \cup {e}) = Over(LatestPerSlot(before), {e})
    BY <1>2, <1>6, <2>1, StateOfMore
  <2>3. before \cup {e} = events
    BY <1>2
  <2>. QED
    BY <1>1, <1>2, <1>3, <1>6, <2>2, <2>3
<1>8. Writing(h, timeline'[rm], room_state'[rm])
  BY <1>5, <1>6, <1>7 DEF Writing, Current
<1>9. Writers'
  BY <1>0, <1>1, <1>3, <1>4, <1>5, <1>8, OthersWrite
<1>10. StateIsReplay'
  BY <1>0, <1>1, <1>3, <1>4, <1>7 DEF StateIsReplay
<1>11. Speakers'
  BY <1>0, <1>1 DEF Speakers, MembersOnlySpeak, StateBefore
<1>. QED
  BY <1>9, <1>10, <1>11 DEF SerialInv

LEMMA SerialStreams ==
  ASSUME TypeInv, OnlyWriters, SerialInv, NEW w \in Workers,
         CountStream(w) \/ PutStream(w) \/ RecordTxn(w)
  PROVE  SerialInv'
<1>0. JobsType /\ LocksType /\ StreamType
  BY DEF TypeInv
<1>1. /\ job[w].pc \in {"count", "stream", "record"}
      /\ timeline' = timeline /\ room_state' = room_state
  BY DEF CountStream, PutStream, RecordTxn, Doing, store
<1>2. Writing(job[w], timeline[job[w].req.room], room_state[job[w].req.room])
  BY <1>1 DEF SerialInv, Writers
<1>3. job[w].req \in Requests
  BY <1>0, <1>1, HandlerUnderWay
<1>4. CASE CountStream(w)
  <2>. PICK h : h = Counted(job[w], Len(stream))
    OBVIOUS
  <2>1. Becomes(w, h) /\ lock' = lock
    BY <1>0, <1>4, CountStreamJobs DEF CountStream
  <2>2. h.pc = "stream" /\ h.req = job[w].req /\ h.events = job[w].events
    BY DEF Counted
  <2>3. Writing(h, timeline[h.req.room], room_state[h.req.room])
    BY <1>1, <1>2, <2>2 DEF Writing
  <2>. QED
    BY <1>1, <2>1, <2>3, SerialKept
<1>5. CASE Leave(w)
  BY <1>1, <1>2, <1>5, SerialLeaves
<1>6. CASE Goto(w, "record")
  <2>. PICK h : h = AtPoint(job[w], "record")
    OBVIOUS
  <2>1. Becomes(w, h) /\ lock' = lock
    BY <1>0, <1>1, <1>6, GotoBecomes
  <2>2. h.pc = "record" /\ h.req = job[w].req /\ h.events = job[w].events
    BY AtPointFields
  <2>3. Writing(h, timeline[h.req.room], room_state[h.req.room])
    BY <1>1, <1>2, <2>2 DEF Writing
  <2>. QED
    BY <1>1, <2>1, <2>3, SerialKept
<1>7. CASE PutStream(w)
  <2>1. job[w].req.op # "create"
    BY <1>3 DEF OnlyWriters
  <2>2. Goto(w, "record") \/ Leave(w)
    BY <1>1, <1>7, <2>1, WritersRoom DEF PutStream
  <2>. QED
    BY <1>5, <1>6, <2>2
<1>8. CASE RecordTxn(w)
  BY <1>5, <1>8 DEF RecordTxn
<1>. QED
  BY <1>4, <1>7, <1>8

LEMMA SerialStep ==
  ASSUME TypeInv, OnlyWriters, SerialInv, [Next]_vars, crashes' = 0
  PROVE  SerialInv'
<1>1. ASSUME UNCHANGED <<store, server, ledger>> PROVE SerialInv'
  <2>1. timeline' = timeline /\ room_state' = room_state /\ job' = job /\ lock' = lock
    BY <1>1 DEF store, server
  <2>. QED
    BY <2>1 DEF SerialInv, StateIsReplay, Speakers, MembersOnlySpeak, StateBefore, Writers
<1>2. ASSUME NEW w \in Workers, Writer(w) PROVE SerialInv'
  <2>1. ~Fetch(w)
    BY WritersRoom DEF Fetch, Doing
  <2>. QED
    BY <1>2, <2>1, SerialStarts, SerialTakesLock, SerialAuthorizes, SerialPutsEvent, SerialPutsState, SerialStreams
       DEF Writer
<1>3. ASSUME NEW u \in Syncers, Reader(u) PROVE SerialInv'
  BY <1>1, <1>3, ReaderWritesNothing
<1>4. ~Crash
  <2>1. crashes \in Nat
    <3>1. MaxCrashes \in Nat /\ crashes \in 0..MaxCrashes
      BY RoomsAssumption DEF TypeInv, CountsType
    <3>. QED
      BY <3>1
  <2>. QED
    BY <2>1 DEF Crash
<1>5. CASE UNCHANGED vars
  BY <1>1, <1>5 DEF vars
<1>. QED
  BY <1>2, <1>3, <1>4, <1>5 DEF Next, Finished

LEMMA SerialInit == Init => SerialInv
<1>. SUFFICES ASSUME Init PROVE SerialInv
  OBVIOUS
<1>1. \A r \in Rooms : timeline[r] = StoredIn(r) /\ room_state[r] = LatestPerSlot(StoredIn(r))
  BY DEF Init
<1>2. StateIsReplay
  BY <1>1 DEF StateIsReplay
<1>3. Speakers
  <2>1. \A r \in Rooms : \A e \in StoredIn(r) : e.room = r
    BY StoredHasTip DEF Fits
  <2>2. \A r \in Rooms : \A e \in timeline[r] : e.room = r
    BY <1>1, <2>1
  <2>. QED
    BY <1>1, <2>2 DEF Speakers, MembersOnlySpeak, StateBefore, StoredSpeakers
<1>4. Writers
  BY DEF Init, Idle, Writers
<1>. QED
  BY <1>2, <1>3, <1>4 DEF SerialInv

\* The process has not died so far.
NoCrash == crashes = 0

LEMMA SerialHolds ==
  ASSUME OnlyWriters
  PROVE  Spec /\ []NoCrash => []SerialInv
<1>1. Init => SerialInv
  BY SerialInit
<1>2. TypeInv /\ SerialInv /\ [Next]_vars /\ NoCrash' => SerialInv'
  BY SerialStep DEF NoCrash
<1>3. Spec => []TypeInv
  BY TypeInit, TypeStep, PTL DEF Spec
<1>. QED
  BY <1>1, <1>2, <1>3, PTL DEF Spec

\* Writers serialise on the room's lock: with sends and membership changes only,
\* and until a crash, whenever no writer has the lock of a room its state is
\* what its timeline replays to.
THEOREM StateReplays ==
  ASSUME OnlyWriters
  PROVE  Spec /\ []NoCrash => []StateIsReplay
<1>1. SerialInv => StateIsReplay
  BY DEF SerialInv
<1>. QED
  BY <1>1, SerialHolds, PTL

\* And whoever spoke was joined at the place of the message in the timeline,
\* although members come and go between the reads of the tip and of the state
\* and the append: the state the event was judged by is what the timeline
\* amounts to when it is appended.
THEOREM SpeakersWereMembers ==
  ASSUME OnlyWriters, StoredSpeakers
  PROVE  Spec /\ []NoCrash => []MembersOnlySpeak
<1>1. SerialInv => MembersOnlySpeak
  BY DEF SerialInv, Speakers
<1>. QED
  BY <1>1, SerialHolds, PTL

-----------------------------------------------------------------------------
(* The handlers implement the rooms' promise, a step at a time.            *)

\* The promise judges and orders events by the same rules.
LEMMA SameRules ==
  ASSUME NEW e, NEW events
  PROVE  /\ Promised!check_auth(e, Promised!LatestPerSlot(events)) = check_auth(e, LatestPerSlot(events))
         /\ Promised!TipOf(events) = TipOf(events)
<1>1. Promised!TipOf(events) = TipOf(events)
  BY DEF Promised!TipOf, TipOf, Promised!AtOrBefore, AtOrBefore
<1>2. Promised!LatestPerSlot(events) = LatestPerSlot(events)
  BY DEF Promised!LatestPerSlot, LatestPerSlot, Promised!AtOrBefore, AtOrBefore,
         Promised!SameSlot, SameSlot, Promised!is_state, is_state
<1>. PICK state : state = LatestPerSlot(events)
  OBVIOUS
<1>3. Promised!check_auth(e, state) = check_auth(e, state)
  BY DEF
       is_state, Promised!is_state, ContentOf, Promised!ContentOf, Only, Promised!Only, Slot,
       Promised!Slot, HasCreate, Promised!HasCreate, membership, Promised!membership,
       join_rule, Promised!join_rule, level, Promised!level, invite_level,
       Promised!invite_level, kick_level, Promised!kick_level, ban_level, Promised!ban_level,
       redact_level, Promised!redact_level, event_level, Promised!event_level, creator,
       Promised!creator, power_level, Promised!power_level, Outranks, Promised!Outranks,
       restricted_join_authorised, Promised!restricted_join_authorised,
       third_party_invite_is_valid, Promised!third_party_invite_is_valid, MayJoin,
       Promised!MayJoin, MayInvite, Promised!MayInvite, MayLeave, Promised!MayLeave, MayBan,
       Promised!MayBan, MayKnock, Promised!MayKnock, check_member_auth,
       Promised!check_member_auth, MayRedact, Promised!MayRedact, MaySend, Promised!MaySend,
       check_auth, Promised!check_auth, OrElse, Promised!OrElse, DEFAULT_STATE_POWER,
       Promised!DEFAULT_STATE_POWER, DEFAULT_EVENTS_POWER, Promised!DEFAULT_EVENTS_POWER,
       DEFAULT_INVITE_POWER, Promised!DEFAULT_INVITE_POWER, DEFAULT_KICK_POWER,
       Promised!DEFAULT_KICK_POWER, DEFAULT_BAN_POWER, Promised!DEFAULT_BAN_POWER,
       DEFAULT_REDACT_POWER, Promised!DEFAULT_REDACT_POWER, CREATOR_POWER,
       Promised!CREATOR_POWER
<1>. QED
  BY <1>1, <1>2, <1>3

\* The put of an event is the promised append: the others of a handler's steps
\* are hidden.
LEMMA PutIsAppend ==
  ASSUME TypeInv, OnlyWriters, SerialInv, NEW w \in Workers, PutEvent(w)
  PROVE  Promised!LogNext
<1>. PICK e : e = Current(w)
  OBVIOUS
<1>. PICK rm : rm = job[w].req.room
  OBVIOUS
<1>1. /\ DOMAIN timeline' = Rooms /\ rm \in Rooms /\ e.room = rm
      /\ \A r \in Rooms : timeline'[r] = IF r = rm THEN timeline[r] \cup {e} ELSE timeline[r]
  <2>1. job[w].pc = "event"
    BY DEF PutEvent, Doing
  <2>. QED
    BY <2>1, PutEventTimeline, WritersRoom DEF TypeInv, Fits
<1>2. timeline' = [timeline EXCEPT ![rm] = @ \cup {e}] /\ transactions' = transactions
  BY <1>1 DEF PutEvent
<1>3. job[w].pc = "event"
  BY DEF PutEvent, Doing
<1>4. After(e, timeline[rm]) /\ OnTip(e, timeline[rm]) /\ check_auth(e, LatestPerSlot(timeline[rm]))
  BY <1>3 DEF SerialInv, Writers, Writing, Current
<1>5. e \in timeline'[rm] \ timeline[rm]
  <2>1. e \notin timeline[rm]
    <3>1. SUFFICES ASSUME e \in timeline[rm] PROVE FALSE
      OBVIOUS
    <3>2. e.depth \in Nat /\ e.depth < e.depth
      BY <1>1, <1>4, <3>1 DEF After, TypeInv, EventsType, Fits
    <3>. QED
      BY <3>2
  <2>. QED
    BY <1>1, <2>1
<1>6. Promised!AppendLinked(rm, e)
  BY <1>2, <1>4, SameRules DEF Promised!AppendLinked, Promised!StateOf, OnTip
<1>. QED
  BY <1>1, <1>5, <1>6 DEF Promised!LogNext

\* The record of a transaction is the promised one: it is made once, and names
\* an event of its sender that the room has.
LEMMA RecordIsRecord ==
  ASSUME TypeInv, OnlyWriters, SerialInv, TxnInv, NEW w \in Workers, RecordTxn(w)
  PROVE  Promised!LogNext
<1>. PICK e : e = Current(w)
  OBVIOUS
<1>. PICK req : req = job[w].req
  OBVIOUS
<1>. PICK k : k = <<req.sender, req.txn>>
  OBVIOUS
<1>0. JobsType /\ AppendsType
  BY DEF TypeInv
<1>1. job[w].pc = "record" /\ timeline' = timeline /\ transactions' = [transactions EXCEPT ![k] = e.id]
  BY DEF RecordTxn, Doing, TxnKey
<1>2. Handler(job[w]) /\ RequestTypes(req) /\ req.room \in Rooms /\ e.room = req.room
  BY <1>0, <1>1, HandlerUnderWay, WritersRoom
<1>3. req.op = "send" /\ k \in Users \X Txns /\ k[1] = req.sender /\ k[2] = req.txn
  BY <1>1, <1>2 DEF Handler, RequestTypes
<1>4. transactions[k] = None
  BY <1>1, <1>3 DEF TxnInv
<1>5. e \in timeline[req.room] /\ e.sender = req.sender
  BY <1>0, <1>1, <1>2 DEF AppendsType, SerialInv, Writers, Writing, Current
<1>6. transactions'[k] = e.id
  BY <1>1, <1>3 DEF TxnInv
<1>7. Promised!Record(k[1], k[2], transactions'[k])
  BY <1>1, <1>2, <1>3, <1>4, <1>5, <1>6 DEF Promised!Record
<1>. QED
  BY <1>3, <1>7 DEF Promised!LogNext

LEMMA StepIsPromised ==
  ASSUME TypeInv, OnlyWriters, SerialInv, TxnInv, [Next]_vars
  PROVE  Promised!LogNext \/ UNCHANGED <<timeline, transactions>>
<1>1. ASSUME NEW w \in Workers, Writer(w)
      PROVE  Promised!LogNext \/ UNCHANGED <<timeline, transactions>>
  <2>1. CASE PutEvent(w)
    BY <2>1, PutIsAppend
  <2>2. CASE RecordTxn(w)
    BY <2>2, RecordIsRecord
  <2>3. CASE ~PutEvent(w) /\ ~RecordTxn(w)
    BY <1>1, <2>3 DEF Writer, StartSend, StartMembership, StartReceive, StartCreate, TakeLock, Fetch, Authorize,
                      PutState, CountStream, PutStream, store
  <2>. QED
    BY <2>1, <2>2, <2>3
<1>2. ASSUME NEW u \in Syncers, Reader(u) PROVE UNCHANGED <<timeline, transactions>>
  BY <1>2, ReaderWritesNothing DEF store
<1>3. CASE Crash \/ UNCHANGED vars
  BY <1>3 DEF Crash, vars, store
<1>. QED
  BY <1>1, <1>2, <1>3 DEF Next, Finished

\* The handlers implement the rooms' promise: every event is, when it becomes
\* visible, the successor of the room's last event and allowed by the events
\* before it, and a transaction is recorded once, although lock, tip, state and
\* append are separate store calls that other handlers' calls come between.
THEOREM RoomsKeepTheirPromise ==
  ASSUME OnlyWriters
  PROVE  Spec /\ []NoCrash /\ []OneTryAtATime => RoomsArePromisedLogs
<1>1. Init => Promised!LogInit
  BY DEF Init, Promised!LogInit, Promised!StoredIn, StoredIn
<1>2. TypeInv /\ SerialInv /\ TxnInv /\ [Next]_vars => [Promised!LogNext]_<<timeline, transactions>>
  BY StepIsPromised
<1>3. Spec => []TypeInv
  BY TypeInit, TypeStep, PTL DEF Spec
<1>4. Spec /\ []OneTryAtATime => []TxnInv
  <2>1. Init => TxnInv
    BY DEF Init, TxnInv, Idle
  <2>2. TypeInv /\ TxnInv /\ OneTryAtATime /\ [Next]_vars => TxnInv'
    BY TxnStep
  <2>. QED
    BY <1>3, <2>1, <2>2, PTL DEF Spec
<1>. QED
  BY <1>1, <1>2, <1>3, <1>4, SerialHolds, PTL DEF Spec, RoomsArePromisedLogs, Promised!LogSpec
=============================================================================
