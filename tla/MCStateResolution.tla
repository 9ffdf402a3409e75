------------------------- MODULE MCStateResolution -------------------------
(***************************************************************************)
(* Two rooms, their forks, and what the engine is asked about them.  A     *)
(* fork is the set of events that led to it; its state map has the latest  *)
(* of each slot.                                                           *)
(***************************************************************************)
EXTENDS StateResolution

CONSTANTS alice, bob, w1, w2

Event(id, ts, kind, sender, key, content, cites) ==
  [id |-> id, kind |-> kind, sender |-> sender, state_key |-> key, content |-> content,
   ts |-> ts, auth_events |-> cites]

MemberContent(m) == [membership |-> m, authorised_via |-> None, third_party |-> None]
Levels(users) ==
  [users |-> users, users_default |-> 0, events |-> None, events_default |-> None,
   state_default |-> None, invite |-> None, kick |-> None, ban |-> None, redact |-> None]
Text == [value |-> None]

Base(first) == {
  Event(first, 1, "create", alice, "", [creator |-> alice, room_version |-> 12], {}),
  Event(first + 1, 2, "member", alice, alice, MemberContent("join"), {first}),
  Event(first + 2, 3, "power_levels", alice, "", Levels(alice :> 100), {first, first + 1}) }

\* A public room in which bob is promoted (6) and then renames it (7), while
\* alice bans him (8), demotes him (9, 10, at the same time) or renames it (11).
\*  Events 12 and 13 cite nothing, as events made by this
\* server do: a promotion again, on top of 9, and a renaming.
Public == Base(1) \cup {
  Event(4, 4, "join_rules", alice, "", [join_rule |-> "public"], {1, 2, 3}),
  Event(5, 5, "member", bob, bob, MemberContent("join"), {1, 3, 4}),
  Event(6, 6, "power_levels", alice, "", Levels(alice :> 100 @@ bob :> 50), {1, 2, 3}),
  Event(7, 7, "name", bob, "", Text, {1, 5, 6}),
  Event(8, 8, "member", alice, bob, MemberContent("ban"), {1, 2, 5, 6}),
  Event(9, 8, "power_levels", alice, "", Levels(alice :> 100), {1, 2, 6}),
  Event(10, 8, "power_levels", alice, "", Levels(alice :> 100 @@ bob :> 10), {1, 2, 6}),
  Event(11, 9, "name", alice, "", Text, {1, 2, 9}),
  Event(12, 10, "power_levels", alice, "", Levels(alice :> 100 @@ bob :> 50), {}),
  Event(13, 12, "name", alice, "", Text, {}) }

\* A room by invitation: bob is invited (24) and joins (25), is promoted (26)
\* and sets the topic (27), and is banned (28) or kicked (29).
Private == Base(21) \cup {
  Event(24, 4, "member", alice, bob, MemberContent("invite"), {21, 22, 23}),
  Event(25, 5, "member", bob, bob, MemberContent("join"), {21, 23, 24}),
  Event(26, 6, "power_levels", alice, "", Levels(alice :> 100 @@ bob :> 50), {21, 22, 23}),
  Event(27, 7, "topic", bob, "", Text, {21, 25, 26}),
  Event(28, 8, "member", alice, bob, MemberContent("ban"), {21, 22, 25, 26}),
  Event(29, 9, "member", alice, bob, MemberContent("leave"), {21, 22, 25, 26}) }

StateMap(ids, pdus) ==
  LET made == Cited(ids, pdus)
  IN  [slot \in {state_slot(e) : e \in made} |->
         Max({e.id : e \in {f \in made : state_slot(f) = slot}})]

PublicForks  == << 1..5, 1..6, 1..6 \cup {7}, 1..6 \cup {8}, 1..6 \cup {9}, 1..6 \cup {10},
                   1..6 \cup {9, 11}, 1..6 \cup {9, 11, 12}, 1..6 \cup {9, 11, 12, 13} >>
PrivateForks == << 21..24, 21..25, 21..26, 21..27, 21..26 \cup {28}, 21..26 \cup {29},
                   21..28 >>

Job(a, b, pdus) == [states |-> <<StateMap(a, pdus), StateMap(b, pdus)>>, pdus |-> pdus]
Swapped(job)    == [job EXCEPT !.states = Reverse(@)]

\* Each fork with each of those after it, and one with itself.
PairsOf(forks, pdus) ==
  {Job(forks[p[1]], forks[p[2]], pdus) :
     p \in {p \in (DOMAIN forks) \X (DOMAIN forks) : p[1] < p[2]}}
Pairs == PairsOf(PublicForks, Public) \cup PairsOf(PrivateForks, Private)
Alike == Job(1..6, 1..6, Public)

\* Three forks; an event that has not been fetched; inputs with the same ids
\* that agree on the topic and that do not.
ThreeForks == [states |-> <<StateMap(1..7, Public), StateMap(1..6 \cup {8}, Public),
                            StateMap(1..6 \cup {9}, Public)>>, pdus |-> Public]
Fetched    == Job(1..7, 1..6 \cup {9}, Public)
Missing    == [Fetched EXCEPT !.pdus = {e \in Public : e.id # 7}]
OneTopic   == Job(21..27, 21..28, Private)
ATopic     == Job(21..26, 21..28, Private)

MCBatches ==
  { << <<job, Swapped(job)>>, <<job>> >> : job \in Pairs \cup {Alike, ThreeForks, Missing} }
  \cup { << <<OneTopic, ATopic>>, <<OneTopic>> >>,
         << <<Missing, Fetched>>, <<Missing>> >> }

\* A state and the one a single event made of it.
PriorBatches == { << <<Job(21..24, 21..25, Private)>>, <<>> >>,
                  << <<Job(1..6, 1..6 \cup {8}, Public)>>, <<>> >> }

Ascending == [i \in 1..29 |-> i]
MCHashOrders == {Ascending, Reverse(Ascending)}
=============================================================================
