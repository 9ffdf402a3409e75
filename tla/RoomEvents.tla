----------------------------- MODULE RoomEvents -----------------------------
(***************************************************************************)
(* Events of a room: their order, the state a set of them amounts to, and  *)
(* the events the homeserver builds itself (gm-svc).  Shared by the        *)
(* specification of what rooms promise (RoomLog), by the handlers step by  *)
(* step (HomeserverRooms) and by the HTTP front (HttpFront).               *)
(***************************************************************************)
EXTENDS RoomAuth, Sequences, FiniteSets, Functions

SameSlot(e, f) == e.kind = f.kind /\ e.state_key = f.state_key

\* A state with some slots replaced.
Over(state, events) ==
  {e \in state : \A f \in events : ~SameSlot(e, f)} \cup events

\* The key order of EVENTS within a room: depth, then event id.
AtOrBefore(e, f) == e.depth < f.depth \/ (e.depth = f.depth /\ e.id <= f.id)

LatestPerSlot(events) ==
  {e \in events : /\ is_state(e)
                  /\ \A f \in events : SameSlot(e, f) => AtOrBefore(f, e)}

\* The events at some places of a list, and those that are last in their slot.
Listed(list, at) == {list[i] : i \in at}
LastPerSlot(list, at) ==
  {list[i] : i \in {i \in at :
     /\ is_state(list[i])
     /\ \A j \in at : SameSlot(list[i], list[j]) => j <= i}}

\* `timeline(room).last()`
TipOf(events) == CHOOSE e \in events : \A f \in events : AtOrBefore(f, e)

-----------------------------------------------------------------------------
(* The content handlers write.                                             *)

MemberContent(m) == [membership |-> m, authorised_via |-> None, third_party |-> None]

create_content(creator_id) == [creator |-> creator_id, room_version |-> 12]

power_levels_content(creator_id) ==
  [ users |-> [u \in {creator_id} |-> 100], users_default |-> 0, events |-> None,
    events_default |-> None, state_default |-> None, invite |-> None,
    kick |-> None, ban |-> None, redact |-> None ]

-----------------------------------------------------------------------------
(* The events handlers build.                                              *)

\* The event of a send or a membership change, linked onto the room's tip.
LinkedOn(events, req, id) ==
  LET on   == IF events = {} THEN [depth |-> 1, prev_events |-> {}]
              ELSE [depth |-> TipOf(events).depth + 1, prev_events |-> {TipOf(events).id}]
      what == IF req.op = "send"
              THEN [kind |-> req.kind, state_key |-> None, content |-> req.content]
              ELSE [kind |-> "member", state_key |-> req.target,
                    content |-> MemberContent(req.membership)]
  IN  [room |-> req.room, id |-> id, sender |-> req.sender, kind |-> what.kind,
       state_key |-> what.state_key, content |-> what.content, depth |-> on.depth,
       prev_events |-> on.prev_events, auth_events |-> {}]

(* The events of create_room: create event, creator's join, power levels,  *)
(* then the name and topic that were given; each has the one before as its *)
(* parent.                                                                 *)
CreationEvents(req, first) ==
  LET what(kind, key, content) == [kind |-> kind, state_key |-> key, content |-> content]
      list == << what("create", "", create_content(req.sender)),
                 what("member", req.sender, MemberContent("join")),
                 what("power_levels", "", power_levels_content(req.sender)) >>
              \o [i \in DOMAIN req.extra |-> what(req.extra[i], "", [value |-> None])]
  IN  [i \in DOMAIN list |->
        [room |-> req.room, id |-> first + i - 1, sender |-> req.sender,
         kind |-> list[i].kind, state_key |-> list[i].state_key,
         content |-> list[i].content, depth |-> i,
         prev_events |-> IF i = 1 THEN {} ELSE {first + i - 2}, auth_events |-> {}]]
=============================================================================
