----------------------------- MODULE HttpSurface -----------------------------
(***************************************************************************)
(* The endpoints the homeserver serves, how a request target is resolved   *)
(* to one of them, and how the caller's access token is found              *)
(* (gm-http/src/lib.rs, router.rs, auth.rs).                               *)
(*                                                                         *)
(* A target is a path, the sequence of its non-empty segments, and a       *)
(* query, the sequence of its <<name, value>> pairs (an empty value is     *)
(* None).  Paths are written without the "_matrix" they all begin with.    *)
(***************************************************************************)
EXTENDS Option, Sequences, Functions, FiniteSetsExt, Naturals

CONSTANT Decoded   \* what the segments that stand for an id or an escape decode to

\* What a template captures, by name.
roomId      == "{roomId}"
eventType   == "{eventType}"
stateKey    == "{stateKey}"
eventId     == "{eventId}"
txnId       == "{txnId}"
userId      == "{userId}"
receiptType == "{receiptType}"

\* The arm of `serve` that an endpoint's method and path select ("none" is the
\* last arm, 501) is kept with the endpoint.
Endpoint(method, auth, handler, path) ==
  [method |-> method, auth |-> auth, handler |-> handler, path |-> path]

cs_public(method, handler, path) == Endpoint(method, "none", handler, <<"client">> \o path)
cs(method, handler, path) == Endpoint(method, "access_token", handler, <<"client", "v3">> \o path)
in_room(method, handler, path) == cs(method, handler, <<"rooms", roomId>> \o path)
ss(method, handler, path) == Endpoint(method, "federation", handler, <<"federation", "v1">> \o path)
ss_public(method, handler, path) == Endpoint(method, "none", handler, path)
as_(method, handler, path) == Endpoint(method, "appservice", handler, <<"app", "v1">> \o path)

SURFACE == <<
  cs_public("GET", "versions", <<"versions">>),
  cs_public("GET", "login_flows", <<"v3", "login">>),
  cs_public("POST", "login", <<"v3", "login">>),
  cs("GET", "whoami", <<"account", "whoami">>),
  cs("POST", "create_room", <<"createRoom">>),
  cs("GET", "sync", <<"sync">>),
  in_room("GET", "room_state", <<"state">>),
  in_room("GET", "members", <<"members">>),
  in_room("GET", "joined_members", <<"joined_members">>),
  in_room("GET", "state_event", <<"state", eventType, stateKey>>),
  in_room("GET", "state_event", <<"state", eventType>>),
  in_room("GET", "messages", <<"messages">>),
  in_room("GET", "event", <<"event", eventId>>),
  in_room("POST", "join", <<"join">>),
  in_room("POST", "leave", <<"leave">>),
  in_room("POST", "invite", <<"invite">>),
  in_room("POST", "kick", <<"kick">>),
  in_room("POST", "ban", <<"ban">>),
  in_room("PUT", "send", <<"send", eventType, txnId>>),
  in_room("PUT", "typing", <<"typing", userId>>),
  in_room("POST", "receipt", <<"receipt", receiptType, eventId>>),
  cs("PUT", "set_presence", <<"presence", userId, "status">>),
  cs("GET", "get_presence", <<"presence", userId, "status">>),
  in_room("PUT", "none", <<"state", eventType, stateKey>>),
  cs("POST", "keys_upload", <<"keys", "upload">>),
  cs("POST", "keys_query", <<"keys", "query">>),
  cs("POST", "keys_claim", <<"keys", "claim">>),
  cs("POST", "device_signing_upload", <<"keys", "device_signing", "upload">>),
  ss_public("GET", "server_keys", <<"key", "v2", "server">>),
  ss("PUT", "federation_send", <<"send", txnId>>),
  ss("GET", "federation_state", <<"state", roomId>>),
  ss("GET", "federation_state_ids", <<"state_ids", roomId>>),
  ss("GET", "federation_event", <<"event", eventId>>),
  ss("GET", "federation_backfill", <<"backfill", roomId>>),
  ss("GET", "user_devices", <<"user", "devices", userId>>),
  as_("PUT", "none", <<"transactions", txnId>>) >>

Captures == {roomId, eventType, stateKey, eventId, txnId, userId, receiptType}

\* Ids and escapes are decoded; anything else is passed through verbatim.
percent_decode(segment) ==
  IF segment \in DOMAIN Decoded THEN Decoded[segment] ELSE segment

match_template(template, segments) ==
  /\ Len(template) = Len(segments)
  /\ \A i \in DOMAIN template : template[i] \in Captures \/ template[i] = segments[i]

\* The captured parameters, by name.
captured(template, segments) ==
  [name \in Range(template) \cap Captures |->
    percent_decode(segments[CHOOSE i \in DOMAIN template : template[i] = name])]

\* The first endpoint of the method whose template matches; else what the path
\* does allow.
resolve(method, path) ==
  LET fits  == {i \in DOMAIN SURFACE : match_template(SURFACE[i].path, path)}
      found == {i \in fits : SURFACE[i].method = method}
  IN  IF found # {}
      THEN LET endpoint == SURFACE[Min(found)]
           IN  [result |-> "found", endpoint |-> endpoint, params |-> captured(endpoint.path, path)]
      ELSE IF fits # {}
      THEN [result |-> "method_not_allowed", allow |-> {SURFACE[i].method : i \in fits}]
      ELSE [result |-> "not_found"]

query_params_all(query, name) ==
  LET named == SelectSeq(query, LAMBDA pair : pair[1] = name /\ pair[2] # None)
  IN  [i \in DOMAIN named |-> named[i][2]]

query_param(query, name) ==
  LET values == query_params_all(query, name)
  IN  IF values = <<>> THEN None ELSE Head(values)

bearer(authorization) ==
  IF authorization = None \/ authorization.scheme # "bearer" THEN None
  ELSE authorization.token

\* The header's token if there is one, else the query's.
access_token(authorization, query) ==
  IF bearer(authorization) # None THEN bearer(authorization)
  ELSE query_param(query, "access_token")
=============================================================================
