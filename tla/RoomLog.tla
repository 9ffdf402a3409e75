------------------------------- MODULE RoomLog -------------------------------
(***************************************************************************)
(* What the homeserver promises of a room, whatever its handlers do on the *)
(* way: a room is a growing set of events in which every event written     *)
(* here was, at its place, allowed by the events before it, and has the    *)
(* room's last event as its only parent; a client transaction is recorded  *)
(* once and names an event of its sender.  HomeserverRooms implements this *)
(* with locks and several store calls per event.                           *)
(***************************************************************************)
EXTENDS RoomEvents

CONSTANTS Rooms, Txns, Stored

VARIABLES
  log,    \* [Rooms -> SUBSET event]
  txns    \* [Users \X Txns -> id or None]

StateOf(room) == LatestPerSlot(log[room])

\* send_message and change_membership, from reading the tip to the append.
AppendLinked(room, event) ==
  /\ log[room] # {} =>
       /\ event.depth = TipOf(log[room]).depth + 1
       /\ event.prev_events = {TipOf(log[room]).id}
  /\ check_auth(event, StateOf(room))
  /\ log' = [log EXCEPT ![room] = @ \cup {event}]
  /\ UNCHANGED txns

\* create_room: its events, one after another, into a room nobody else has
\* written to.
AppendCreation(room, event) ==
  /\ \A e \in log[room] : e.sender = event.sender
  /\ event.depth = Cardinality(log[room]) + 1
  /\ event.depth = 1 => event.kind = "create"
  /\ log' = [log EXCEPT ![room] = @ \cup {event}]
  /\ UNCHANGED txns

\* The event a transaction sent is recorded for the retries of its sender.
Record(sender, txn, id) ==
  /\ txns[<<sender, txn>>] = None
  /\ \E room \in Rooms : \E e \in log[room] : e.id = id /\ e.sender = sender
  /\ txns' = [txns EXCEPT ![<<sender, txn>>] = id]
  /\ UNCHANGED log

StoredIn(room) == {Stored[i] : i \in {i \in DOMAIN Stored : Stored[i].room = room}}

LogInit ==
  /\ log = [r \in Rooms |-> StoredIn(r)]
  /\ txns = [k \in Users \X Txns |-> None]

LogNext ==
  \/ \E room \in Rooms : \E event \in log'[room] \ log[room] :
       AppendLinked(room, event) \/ AppendCreation(room, event)
  \/ \E k \in Users \X Txns : Record(k[1], k[2], txns'[k])

LogSpec == LogInit /\ [][LogNext]_<<log, txns>>
=============================================================================
