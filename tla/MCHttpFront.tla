----------------------------- MODULE MCHttpFront -----------------------------
(* An instance of HttpFront for TLC. *)
EXTENDS HttpFront

CONSTANTS alice, bob, r1, r2, t1, d1, c1, c2, c3, w1, w2

MCDecoded == ("alice" :> alice) @@ ("bob" :> bob) @@ ("r1" :> r1) @@ ("r2" :> r2)
             @@ ("t1" :> t1) @@ ("$1" :> 1) @@ ("$9" :> 9)
MCLocalparts == ("al" :> alice) @@ ("bo" :> bob)
MCDevices == {d1, "default"}

\* A room of alice's that bob has joined.
Event(id, kind, sender, key, content) ==
  [room |-> r1, id |-> id, kind |-> kind, sender |-> sender, state_key |-> key,
   content |-> content, depth |-> id, prev_events |-> IF id = 1 THEN {} ELSE {id - 1},
   auth_events |-> {}]
MCStored ==
  << Event(1, "create", alice, "", create_content(alice)),
     Event(2, "member", alice, alice, MemberContent("join")),
     Event(3, "power_levels", alice, "", power_levels_content(alice)),
     Event(4, "member", alice, bob, MemberContent("invite")),
     Event(5, "member", bob, bob, MemberContent("join")) >>

\* Both have an account and a token; bob has two one-time keys.
AliceToken == <<alice, 0>>
BobToken   == <<bob, 1>>
OneTimeKey(n) == [user |-> bob, device |-> d1, alg |-> "curve", id |-> n]
MCFamilies ==
  [EmptyFamilies EXCEPT
     !.ACCOUNTS = [u \in Users |-> verifier(u, "pw")],
     !.ACCESS_TOKENS = {[token |-> AliceToken, user |-> alice], [token |-> BobToken, user |-> bob]},
     !.DEVICE_OTK = {OneTimeKey(1), OneTimeKey(2)},
     !.PRESENCE[bob] = "online"]

-----------------------------------------------------------------------------
(* Requests.                                                               *)

NoBody       == [form |-> "absent", fields |-> None]
NotJson      == [form |-> "not_json", fields |-> None]
Scalar       == [form |-> "not_object", fields |-> None]
Object(fields) == [form |-> "object", fields |-> fields]
Bearer(token)  == [scheme |-> "bearer", token |-> token]

Ask(method, path, query, authorization, body) ==
  [kind |-> "request", method |-> method, path |-> path, query |-> query,
   authorization |-> authorization, body |-> body]
Client(method, path, token, body) ==
  Ask(method, <<"client", "v3">> \o path, <<>>, Bearer(token), body)
InRoom(method, path, token, body) == Client(method, <<"rooms">> \o path, token, body)
As(method, path, body) == Client(method, path, AliceToken, body)
Get(path) == As("GET", path, NoBody)
Public(method, path, body) == Ask(method, path, <<>>, None, body)

Signature(method, path, body, origin, seed) ==
  sign(signing_bytes(method, path, origin, ServerName, body), seed)
Signed(method, path, query, body, origin, destination, seed) ==
  Ask(method, path, query,
      [scheme |-> "x-matrix", origin |-> origin, destination |-> destination, key_id |-> "k1",
       signature |-> Signature(method, path, body, origin, seed)], body)
Peer(method, path, query, body) ==
  Signed(method, <<"federation", "v1">> \o path, query, body, "there", ServerName, "s2")

Login(user, password) ==
  Public("POST", <<"client", "v3", "login">>,
         Object([type |-> "m.login.password", user |-> user, password |-> password]))
LoginBody(body) == Public("POST", <<"client", "v3", "login">>, body)

Send(token, txn) == InRoom("PUT", <<"r1", "send", "message", txn>>, token, Object([body |-> "a"]))
MemberOf(action, body) == InRoom("POST", <<"r1", action>>, AliceToken, body)
KickBob     == MemberOf("kick", Object([user_id |-> bob]))
BobTypes(typing) == InRoom("PUT", <<"r1", "typing", "bob">>, BobToken, Object([typing |-> typing]))
BobReads    == InRoom("POST", <<"r1", "receipt", "m.read", "$1">>, BobToken, NoBody)
Status(user, body) == As("PUT", <<"presence", user, "status">>, body)
Claim(n) == As("POST", <<"keys", "claim">>, Object([one_time_keys |->
              [i \in 1..n |-> [user |-> bob, device |-> d1, alg |-> "curve"]]]))
Upload(body) == Client("POST", <<"keys", "upload">>, BobToken, body)
DeviceKeys(seed) ==
  LET content == [user |-> bob, device |-> d1, public |-> public_key("s3")]
  IN  [content |-> content, signatures |-> (d1 :> sign(content, seed))]
UploadKeys(seed) == Upload(Object([device_keys |-> DeviceKeys(seed),
                      one_time_keys |-> << [alg |-> "curve", id |-> 3], [alg |-> "curve", id |-> 4] >>]))
CrossKey(public, signatures) == [content |-> [public |-> public], signatures |-> signatures]
CrossKeys(seed) ==
  LET master == public_key("s4")
  IN  As("POST", <<"keys", "device_signing", "upload">>,
        Object([master |-> CrossKey(master, <<>>),
                self_signing |-> CrossKey(public_key("s5"),
                   (master :> sign([public |-> public_key("s5")], seed)))]))
Query == As("POST", <<"keys", "query">>, Object([device_keys |-> <<bob, "nobody">>]))
Sync  == Get(<<"sync">>)

\* What a peer sends: bob speaks, once authorized by the state and once by the
\* events the PDU cites; and bob's device list.
Pdu(id, cites) == [Event(id, "message", bob, None, [body |-> "b"]) EXCEPT
                     !.depth = 6, !.prev_events = {5}, !.auth_events = cites]
Edu(type) == [type |-> type, user |-> bob, device |-> d1, keys |-> DeviceKeys("s3")]
Transaction(pdus, edus) == Object([origin |-> "there", pdus |-> pdus, edus |-> edus])
Deliver(body) == Peer("PUT", <<"send", "t1">>, <<>>, body)
BobSpeaks == Deliver(Transaction(<<Pdu(20, {}), Pdu(21, {1, 3, 5}), Pdu(22, {5, 8})>>,
                                 <<Edu("m.device_list_update"), Edu("m.typing")>>))

Silent == [kind |-> "silent"]
Whoami == Get(<<"account", "whoami">>)

PublicRequests ==
  { Public("GET", <<"client", "versions">>, NoBody), Public("GET", <<"client", "v3", "login">>, NoBody),
    Public("GET", <<"key", "v2", "server">>, NoBody), Public("PUT", <<"app", "v1", "transactions", "t1">>, NoBody),
    Public("DELETE", <<"client", "versions">>, NoBody), Public("GET", <<"nowhere">>, NoBody),
    Public("GET", <<"client", "v3", "sync">>, NoBody),
    Ask("GET", <<"client", "v3", "account", "whoami">>, << <<"access_token", AliceToken>> >>, None, NoBody),
    Client("GET", <<"account", "whoami">>, <<alice, 7>>, NoBody),
    Login("al", "pw"), Login(alice, "no"), Login("nobody", "pw"), LoginBody(NoBody), LoginBody(NotJson),
    LoginBody(Scalar), LoginBody(Object([type |-> "m.login.password", user |-> alice])) }
RoomReads ==
  { InRoom("GET", path, AliceToken, NoBody) : path \in
    { <<"r1", "state">>, <<"r1", "members">>, <<"r1", "joined_members">>, <<"r1", "messages">>,
      <<"r1", "state", "member", "bob">>, <<"r1", "state", "name">>, <<"r1", "event", "$1">>,
      <<"r1", "event", "$9">>, <<"bad", "state">>, <<"r2", "state">> } }
RoomWrites ==
  { Send(AliceToken, "t1"), MemberOf("ban", Object([user_id |-> bob])), MemberOf("invite", Object([user_id |-> bob])),
    MemberOf("invite", NotJson), KickBob, MemberOf("leave", NoBody), MemberOf("join", NoBody),
    InRoom("PUT", <<"r1", "send", "message", "t1">>, AliceToken, Scalar),
    InRoom("PUT", <<"bad", "send", "message", "t1">>, AliceToken, NoBody),
    InRoom("PUT", <<"r2", "send", "message", "t1">>, AliceToken, Object([body |-> "a"])),
    InRoom("PUT", <<"r1", "state", "name", "x">>, AliceToken, NoBody),
    As("POST", <<"createRoom">>, Object([name |-> "n"])), As("POST", <<"createRoom">>, NoBody),
    As("POST", <<"createRoom">>, Scalar) }
Ephemera ==
  { BobTypes(TRUE), BobTypes(FALSE), InRoom("PUT", <<"r1", "typing", "alice">>, BobToken, Object([typing |-> TRUE])),
    InRoom("PUT", <<"r1", "typing", "bob">>, BobToken, Object([timeout |-> 1])),
    InRoom("PUT", <<"r2", "typing", "bob">>, BobToken, Object([typing |-> TRUE])),
    BobReads, InRoom("POST", <<"r1", "receipt", "m.private", "$1">>, BobToken, NoBody),
    InRoom("POST", <<"r2", "receipt", "m.read", "$1">>, BobToken, NoBody),
    Status("alice", Object([presence |-> "online"])), Status("bob", Object([presence |-> "online"])),
    Status("alice", Scalar), Get(<<"presence", "bob", "status">>), Get(<<"presence", "alice", "status">>),
    Get(<<"presence", "nobody", "status">>), Sync, Whoami }
KeyRequests ==
  { Claim(1), Claim(0), Query, UploadKeys("s3"), UploadKeys("s9"), Upload(NoBody), Upload(NotJson),
    CrossKeys("s4"), CrossKeys("s9") }
PeerRequests ==
  { BobSpeaks, Deliver(Object([origin |-> "there"])), Deliver(Scalar),
    Deliver(Transaction(<<Pdu(20, {}), None>>, <<>>)),
    [Peer("GET", <<"state", "r1">>, <<>>, NoBody) EXCEPT !.authorization.signature = None],
    Peer("GET", <<"state", "r1">>, <<>>, NoBody), Peer("GET", <<"state_ids", "r1">>, <<>>, NoBody),
    Peer("GET", <<"event", "$1">>, <<>>, NoBody), Peer("GET", <<"user", "devices", "bob">>, <<>>, NoBody),
    Peer("GET", <<"backfill", "r1">>, << <<"v", 3>>, <<"limit", 2>> >>, NoBody),
    Peer("GET", <<"backfill", "r1">>, <<>>, NoBody),
    Signed("GET", <<"federation", "v1", "state", "r1">>, <<>>, NoBody, "there", "elsewhere", "s2"),
    Signed("GET", <<"federation", "v1", "state", "r1">>, <<>>, NoBody, "there", None, "s9"),
    Signed("GET", <<"federation", "v1", "state", "r1">>, <<>>, NoBody, "unknown", None, "s2"),
    Public("GET", <<"federation", "v1", "state", "r1">>, NoBody) }

-----------------------------------------------------------------------------
(* Scenarios.                                                              *)

PeerKey    == [name |-> "federation_key", origin |-> "there", public |-> public_key("s2")]
OwnKey     == [name |-> "signing_key", key_id |-> "k1", seed |-> "s1"]
Document(signer) ==
  LET doc == [server_name |-> "there", valid_until |-> 1, verify_keys |-> ("k1" :> public_key("s2"))]
  IN  doc @@ [signatures |-> ("k1" :> sign(Unsigned(doc), signer))]
Fetched(signer) == [name |-> "fetched", doc |-> Document(signer)]
Logout(token)   == [name |-> "logout", token |-> token]
NewPassword     == [name |-> "account", user |-> "al", password |-> "no"]
Named(name)     == [name |-> name]

Scenario(a, b, c, events) ==
  [sends |-> (c1 :> a) @@ (c2 :> b) @@ (c3 :> c), events |-> events]

Alone(requests, events) == {Scenario(r, None, None, events) : r \in requests}
Together(P, Q, events)  == {Scenario(p, q, None, events) : p \in P, q \in Q}

MCScenarios ==
  Alone(PublicRequests \cup {[kind |-> "malformed"], [kind |-> "cut"]}, {OwnKey, Named("tick")})
  \cup Alone(RoomReads \cup RoomWrites \cup Ephemera \cup KeyRequests, {})
  \cup Alone(PeerRequests, {PeerKey})
  \* A key document, a forged one, and the end of its validity.
  \cup Alone({Peer("GET", <<"state", "r1">>, <<>>, NoBody)}, {Fetched("s2"), Fetched("s9"), Named("tick")})
  \* Logins and logouts at once, and a token used meanwhile.
  \cup Together({Login(alice, "pw")}, {Login("al", "pw"), Login("bo", "pw")}, {Logout(BobToken)})
  \cup {Scenario(Login(bob, "pw"), BobTypes(TRUE), None, {Logout(BobToken), NewPassword})}
  \* Keys claimed, uploaded and looked at.
  \cup Together({Claim(1), UploadKeys("s3"), UploadKeys("s9")}, {Claim(1), UploadKeys("s3"), Query}, {})
  \cup Together({CrossKeys("s4"), CrossKeys("s9")}, {Query}, {})
  \* Bob is removed while he types, reads, syncs, and while his server speaks.
  \cup Together({KickBob}, {BobTypes(TRUE), BobReads, Send(BobToken, "t1"), Sync, Send(AliceToken, "t1")}, {Named("tick")})
  \cup Together({KickBob, Send(AliceToken, "t1"), Query}, {BobSpeaks}, {PeerKey})
  \* Silent clients, a panic and an error of accept.
  \cup {Scenario(Silent, Whoami, x, {Named("panic")}) : x \in {Silent, [kind |-> "cut"], Claim(1)}}
  \cup {Scenario(Silent, Claim(1), BobReads, {Named("accept_error")})}
  \* Clients that do not read what they are sent, and that go away.
  \cup {Scenario(Claim(1), Whoami, x, {Named("stall"), Named("leave")}) : x \in {Silent, None}}
  \cup {Scenario(Claim(1), Claim(1), x, {Named("stall"), Named("leave")}) : x \in {None, [kind |-> "cut"]}}
=============================================================================
