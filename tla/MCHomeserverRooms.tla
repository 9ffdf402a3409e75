------------------------- MODULE MCHomeserverRooms -------------------------
(* Instances of HomeserverRooms for TLC. *)
EXTENDS HomeserverRooms, FiniteSetsExt, TLC

CONSTANTS alice, bob, r1, r2, t1, w1, w2

WorkerSymmetry == Permutations(Workers)

\* Requests.
Send(user, room, txn, body) ==
  [op |-> "send", sender |-> user, room |-> room, txn |-> txn,
   kind |-> "message", content |-> [body |-> body]]
Member(user, room, target, m) ==
  [op |-> "member", sender |-> user, room |-> room, target |-> target, membership |-> m]
Create(user, room, extra) ==
  [op |-> "create", sender |-> user, room |-> room, extra |-> extra]
Receive(sendings) == [op |-> "receive", transactions |-> sendings]

\* An event of a store, or of another server.
Event(room, id, kind, sender, key, content, depth, cites) ==
  [room |-> room, id |-> id, kind |-> kind, sender |-> sender, state_key |-> key,
   content |-> content, depth |-> depth,
   prev_events |-> IF depth = 1 THEN {} ELSE {id - 1}, auth_events |-> cites]

\* A room as create_room leaves it, and then bob's membership.
RoomOf(room, first, m) ==
  << Event(room, first,     "create", alice, "", create_content(alice), 1, {}),
     Event(room, first + 1, "member", alice, alice, MemberContent("join"), 2, {}),
     Event(room, first + 2, "power_levels", alice, "", power_levels_content(alice), 3, {}) >>
  \o IF m = None THEN <<>>
     ELSE << Event(room, first + 3, "member", alice, bob, MemberContent("invite"), 4, {}) >>
          \o IF m = "invite" THEN <<>>
             ELSE << Event(room, first + 4, "member", bob, bob, MemberContent(m), 5, {}) >>

Once(requests) == [req \in requests |-> 1]

\* Local writers and a syncing client: bob is removed from a public room and
\* joins it again, while both send under the same transaction id and alice
\* retries.
LocalStored ==
  RoomOf(r1, 1, "join")
  \o << Event(r1, 6, "join_rules", alice, "", [join_rule |-> "public"], 6, {}) >>
AliceSends    == Send(alice, r1, t1, "a")
LocalRequests == {AliceSends, Send(bob, r1, t1, "b"), Member(bob, r1, bob, "join"),
                  Member(alice, r1, bob, "leave")}
LocalTries    == [Once(LocalRequests) EXCEPT ![AliceSends] = 2]

\* A retry that arrives while the first try is being handled.
RetryRequests == {AliceSends}
RetryTries    == [req \in RetryRequests |-> 2]

\* One sender in each of two rooms.
TwoRooms        == RoomOf(r1, 1, None) \o RoomOf(r2, 4, None)
TwoRoomRequests == {Send(alice, r1, t1, "a"), Member(alice, r2, bob, "invite")}
TwoRoomTries    == Once(TwoRoomRequests)

\* A room being created, used and federated with a crash at any point: bob's
\* server answers an invitation, along with a message in a room unknown here, and
\* bob bans the creator, by the room's state or citing its create event, bob's
\* join, which may come in the same transaction, and maybe its power levels.  The ids
\* fall below and above those minted here.
BobsJoin == Event(r1, 100, "member", bob, bob, MemberContent("join"), 5, {})
Elsewhere == Event(r2, 101, "message", bob, None, [body |-> "a"], 2, {100})
Number(cites) == MapThenSumSet(LAMBDA i : IF i = 100 THEN 8 ELSE 2 ^ (i - 1), cites)
BansTheCreator(cites) ==
  Event(r1, -Number(cites), "member", bob, alice, MemberContent("ban"), 5, cites)
Cites == {{}, {1, 100}, {1, 2, 3, 100}}
FedRequests  == {Create(alice, r1, <<>>), AliceSends, Member(alice, r1, bob, "invite"),
                 Receive({<<Elsewhere, BobsJoin>>}),
                 Receive({<<BansTheCreator(c)>> : c \in Cites}
                         \cup {<<BobsJoin, BansTheCreator({1, 100})>>})}
FedTries     == Once(FedRequests)
NothingStored == <<>>
=============================================================================
