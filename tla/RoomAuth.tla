------------------------------ MODULE RoomAuth ------------------------------
(***************************************************************************)
(* The room authorization rules (gm-stateres/src/auth.rs): whether an      *)
(* event is allowed given the current-state events of its room.            *)
(*                                                                         *)
(* An event is a record with at least the fields kind, sender, state_key   *)
(* and content; a state is a set of events holding one per slot.  Content  *)
(* is the part of the JSON the rules read, a field that is absent being    *)
(* None.  Whether a third-party signature verifies and whether a redaction *)
(* targets the sender's own server are facts about the event itself, so    *)
(* content states them (signed_by, own_server).                            *)
(***************************************************************************)
EXTENDS Option, Integers

CONSTANT Users   \* user ids

DEFAULT_STATE_POWER  == 50
DEFAULT_EVENTS_POWER == 0
DEFAULT_INVITE_POWER == 0
DEFAULT_KICK_POWER   == 50
DEFAULT_BAN_POWER    == 50
DEFAULT_REDACT_POWER == 50
CREATOR_POWER        == 100

-----------------------------------------------------------------------------
(* The view of the state.                                                  *)

is_state(event) == event.state_key # None

ContentOf(found) == IF found = {} THEN None ELSE (CHOOSE e \in found : TRUE).content

\* The content of the event of a kind, and of a kind and state key.  The rules
\* take any state key for the first; no state here holds two such events.
Only(state, kind)      == ContentOf({e \in state : e.kind = kind})
Slot(state, kind, key) == ContentOf({e \in state : e.kind = kind /\ e.state_key = key})

HasCreate(state) == \E e \in state : e.kind = "create"

membership(state, user) ==
  LET content == Slot(state, "member", user)
  IN  IF content = None THEN None ELSE content.membership

join_rule(state) ==
  LET content == Only(state, "join_rules")
  IN  IF content = None THEN "invite" ELSE OrElse(content.join_rule, "invite")

\* A field of the power levels, or the default.
level(state, field, default) ==
  LET powers == Only(state, "power_levels")
  IN  IF powers = None THEN default ELSE OrElse(powers[field], default)

invite_level(state) == level(state, "invite", DEFAULT_INVITE_POWER)
kick_level(state)   == level(state, "kick", DEFAULT_KICK_POWER)
ban_level(state)    == level(state, "ban", DEFAULT_BAN_POWER)
redact_level(state) == level(state, "redact", DEFAULT_REDACT_POWER)

\* The power an event of a kind needs: its override, else the default.
event_level(state, event) ==
  LET powers    == Only(state, "power_levels")
      overrides == IF powers = None THEN None ELSE powers.events
      default   == IF is_state(event)
                   THEN level(state, "state_default", DEFAULT_STATE_POWER)
                   ELSE level(state, "events_default", DEFAULT_EVENTS_POWER)
  IN  IF overrides = None THEN default
      ELSE IF event.kind \in DOMAIN overrides THEN overrides[event.kind] ELSE default

\* From room version 11 the creator is the sender of the create event.
creator(state) ==
  IF ~HasCreate(state) THEN None
  ELSE LET create == CHOOSE e \in state : e.kind = "create"
       IN  IF create.content.room_version >= 11
           THEN create.sender ELSE create.content.creator

power_level(state, user) ==
  LET powers == Only(state, "power_levels")
  IN  IF powers = None
      THEN IF creator(state) = user THEN CREATOR_POWER ELSE 0
      ELSE IF user \in DOMAIN powers.users
           THEN powers.users[user] ELSE OrElse(powers.users_default, 0)

Outranks(state, user, other) == power_level(state, user) > power_level(state, other)

-----------------------------------------------------------------------------
(* Membership events.                                                      *)

\* A joined user who may invite vouches for the join (MSC3083).
restricted_join_authorised(event, state) ==
  LET authoriser == event.content.authorised_via
  IN  /\ authoriser # None
      /\ membership(state, authoriser) = "join"
      /\ power_level(state, authoriser) >= invite_level(state)

third_party_invite_is_valid(event, state) ==
  LET invite == event.content.third_party
  IN  /\ invite # None
      /\ LET advertised == Slot(state, "third_party_invite", invite.token)
         IN  advertised # None /\ advertised.public_key \in invite.signed_by

MayJoin(event, state) ==
  LET current == membership(state, event.state_key)
  IN  /\ event.state_key = event.sender
      /\ current # "ban"
      /\ \/ creator(state) = event.sender /\ current = None
         \/ current = "invite"
         \/ join_rule(state) = "public"
         \/ /\ join_rule(state) \in {"restricted", "knock_restricted"}
            /\ restricted_join_authorised(event, state)

MayInvite(event, state) ==
  /\ membership(state, event.sender) = "join"
  /\ membership(state, event.state_key) \notin {"join", "ban"}
  /\ \/ third_party_invite_is_valid(event, state)
     \/ power_level(state, event.sender) >= invite_level(state)

MayLeave(event, state) ==
  \/ event.state_key = event.sender
  \/ /\ membership(state, event.sender) = "join"
     /\ power_level(state, event.sender) >= kick_level(state)
     /\ Outranks(state, event.sender, event.state_key)

MayBan(event, state) ==
  /\ membership(state, event.sender) = "join"
  /\ power_level(state, event.sender) >= ban_level(state)
  /\ Outranks(state, event.sender, event.state_key)

MayKnock(event, state) ==
  /\ event.state_key = event.sender
  /\ join_rule(state) \in {"knock", "knock_restricted"}
  /\ membership(state, event.state_key) \notin {"join", "ban"}

\* Mutant: whoever is joined may kick and ban anyone.
MemberAuthWithoutPower(event, state) ==
  \/ event.content.membership = "join"   /\ MayJoin(event, state)
  \/ event.content.membership = "invite" /\ MayInvite(event, state)
  \/ event.content.membership = "leave"  /\ membership(state, event.sender) = "join"
  \/ event.content.membership = "ban"    /\ membership(state, event.sender) = "join"
  \/ event.content.membership = "knock"  /\ MayKnock(event, state)

check_member_auth(event, state) ==
  /\ is_state(event)
  /\ \/ event.content.membership = "join"   /\ MayJoin(event, state)
     \/ event.content.membership = "invite" /\ MayInvite(event, state)
     \/ event.content.membership = "leave"  /\ MayLeave(event, state)
     \/ event.content.membership = "ban"    /\ MayBan(event, state)
     \/ event.content.membership = "knock"  /\ MayKnock(event, state)

-----------------------------------------------------------------------------
(* Any event.                                                              *)

MayRedact(event, state) ==
  \/ event.content.own_server
  \/ power_level(state, event.sender) >= redact_level(state)

MaySend(event, state) ==
  /\ membership(state, event.sender) = "join"
  /\ IF event.kind = "redaction"
     THEN MayRedact(event, state)
     ELSE power_level(state, event.sender) >= event_level(state, event)

\* Mutant: the sender's membership is not looked at.
CheckAuthOfStrangers(event, state) ==
  IF event.kind = "create" THEN ~HasCreate(state)
  ELSE /\ HasCreate(state)
       /\ IF event.kind = "member" THEN check_member_auth(event, state)
          ELSE power_level(state, event.sender) >= event_level(state, event)

check_auth(event, state) ==
  IF event.kind = "create" THEN ~HasCreate(state)
  ELSE /\ HasCreate(state)
       /\ IF event.kind = "member" THEN check_member_auth(event, state)
          ELSE MaySend(event, state)

-----------------------------------------------------------------------------
(* Events that cite their authorization (`auth_events`).                   *)

Cited(ids, by_id) == {e \in by_id : e.id \in ids}

\* The least set of ids that holds the roots and what its members cite.
auth_chain(roots, by_id) ==
  LET ids    == roots \cup UNION {{e.id} \cup e.auth_events : e \in by_id}
      Closed == {S \in SUBSET ids :
                   /\ roots \subseteq S
                   /\ \A e \in Cited(S, by_id) : e.auth_events \subseteq S}
  IN  {id \in ids : \A S \in Closed : id \in S}

\* Judged by the events it cites, its whole chain present and rooted in a
\* create event.
check_auth_with_chain(event, by_id) ==
  LET chain == auth_chain(event.auth_events, by_id)
  IN  /\ chain \subseteq {e.id : e \in by_id}
      /\ event.kind = "create" \/ \E e \in Cited(chain, by_id) : e.kind = "create"
      /\ check_auth(event, Cited(event.auth_events, by_id))
=============================================================================
