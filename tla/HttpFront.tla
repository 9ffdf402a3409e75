------------------------------ MODULE HttpFront ------------------------------
(***************************************************************************)
(* The homeserver as its clients and peers meet it: the handlers of the    *)
(* ingress (gm-http/src/ingress.rs), run by the worker pool (HttpPool) on  *)
(* the services (GaussServices) and the rooms (RoomLog).                   *)
(*                                                                         *)
(* A handler of a room is one step here, as RoomLog promises;              *)
(* HomeserverRooms takes it, and an incremental sync, apart.  Other        *)
(* handlers take a step per store call.                                    *)
(***************************************************************************)
EXTENDS HttpPool

-----------------------------------------------------------------------------
(* Answers that read one thing.                                            *)

ServeVersions(w)   == Serving(w, "versions")    /\ Answers(w, 200, "versions")
ServeLoginFlows(w) == Serving(w, "login_flows") /\ Answers(w, 200, "flows")
ServeWhoami(w)     == Serving(w, "whoami")      /\ Answers(w, 200, worker[w].user)
ServeServerKeys(w) == Serving(w, "server_keys") /\ Answers(w, 200, server_keys)
\* An endpoint of the surface that has no handler.
ServeNothing(w)    == Serving(w, "none")        /\ Answers(w, 501, None)

Found(w, values) ==
  IF values = {} THEN Answers(w, 404, None) ELSE Answers(w, 200, CHOOSE v \in values : TRUE)

MembersOf(state) == {e \in state : e.kind = "member"}

\* The path's room, then what is asked of it.  A room that is not known has
\* no events.
ServeRoom(w, handler, Answer(_)) ==
  /\ Serving(w, handler)
  /\ Checked(w, << <<RoomParam(w) # None, 400>> >>, Answer(RoomParam(w)))

ServeRoomState(w) == ServeRoom(w, "room_state", LAMBDA rm : Answers(w, 200, StateOf(rm)))

ServeMembers(w) == ServeRoom(w, "members", LAMBDA rm : Answers(w, 200, MembersOf(StateOf(rm))))

ServeJoinedMembers(w) ==
  ServeRoom(w, "joined_members", LAMBDA rm :
    Answers(w, 200, {e.state_key : e \in {m \in MembersOf(StateOf(rm)) : m.content.membership = "join"}}))

ServeStateEvent(w) ==
  ServeRoom(w, "state_event", LAMBDA rm :
    Found(w, {e.content :
      e \in state_event(rm, Param(w, eventType), OrElse(Param(w, stateKey), ""))}))

ServeMessages(w) == ServeRoom(w, "messages", LAMBDA rm : Answers(w, 200, log[rm]))

ServeEvent(w) ==
  ServeRoom(w, "event", LAMBDA rm : Found(w, {e \in log[rm] : e.id = Param(w, eventId)}))

ServeFederationState(w) ==
  ServeRoom(w, "federation_state", LAMBDA rm :
    Answers(w, 200, [pdus |-> StateOf(rm), auth_chain |-> {}]))

ServeFederationStateIds(w) ==
  ServeRoom(w, "federation_state_ids", LAMBDA rm : Answers(w, 200, state_ids(rm)))

ServeFederationBackfill(w) ==
  ServeRoom(w, "federation_backfill", LAMBDA rm :
    Answers(w, 200, backfill(log[rm], Range(query_params_all(Req(w).query, "v")),
                             OrElse(query_param(Req(w).query, "limit"), 10))))

ServeFederationEvent(w) ==
  /\ Serving(w, "federation_event")
  /\ Found(w, event_transaction(Param(w, eventId)))

ServeUser(w, handler, Answer(_)) ==
  /\ Serving(w, handler)
  /\ Checked(w, << <<UserParam(w) # None, 400>> >>, Answer(UserParam(w)))

ServeGetPresence(w) ==
  ServeUser(w, "get_presence", LAMBDA user : Found(w, {presence_for(user)} \ {None}))

ServeUserDevices(w) ==
  ServeUser(w, "user_devices", LAMBDA user : Answers(w, 200, device_keys_of(user)))

-----------------------------------------------------------------------------
(* Rooms are written.                                                      *)

\* Links the event onto the room's tip, authorizes it and appends it.
TryAppend(w, req, body) ==
  \E event \in {LinkedOn(log[req.room], req, minted + 1)}, state \in {StateOf(req.room)} :
    IF check_auth(event, state)
    THEN /\ log' = [log EXCEPT ![req.room] = @ \cup {event}]
         /\ minted' = minted + 1
         /\ txns' = IF req.op = "send" THEN [txns EXCEPT ![<<req.sender, req.txn>>] = event.id]
                    ELSE txns
         /\ Writes(w, "EVENTS", req.sender)
         /\ Reply(w, 200, body)
         /\ UNCHANGED cf
    ELSE Answers(w, 403, None)

SendRequest(w) ==
  [op |-> "send", sender |-> worker[w].user, room |-> RoomParam(w), txn |-> Param(w, txnId),
   kind |-> Param(w, eventType), content |-> Req(w).body.fields]

ServeSend(w) ==
  LET req == SendRequest(w)
      existing == txns[<<req.sender, req.txn>>]
  IN  /\ Serving(w, "send")
      /\ Checked(w, << <<req.room # None, 400>>, <<Form(w) = "object", 400>> >>,
           IF existing # None THEN Answers(w, 200, existing) ELSE TryAppend(w, req, minted + 1))

Membership(w, target, m) ==
  [op |-> "member", sender |-> worker[w].user, room |-> RoomParam(w), target |-> target,
   membership |-> m]

ServeMembershipSelf(w, handler, m) ==
  /\ Serving(w, handler)
  /\ Checked(w, << <<RoomParam(w) # None, 400>> >>,
       TryAppend(w, Membership(w, worker[w].user, m), RoomParam(w)))

ServeMembershipTarget(w, handler, m) ==
  LET target == Parsed(Field(w, "user_id"), Users)
  IN  /\ Serving(w, handler)
      /\ Checked(w, << <<RoomParam(w) # None, 400>>, <<target # None, 400>> >>,
           TryAppend(w, Membership(w, target, m), None))

\* The ids that may be given to a new room: no room has them.
mint_room_id == {rm \in Rooms : log[rm] = {}}

ServeCreateRoom(w) ==
  /\ Serving(w, "create_room")
  /\ Checked(w, << <<OptionalObject(w), 400>> >>,
       \E rm \in mint_room_id :
         LET named == Given(w, "name") \o Given(w, "topic")
             list  == CreationEvents([sender |-> worker[w].user, room |-> rm, extra |-> named],
                                     minted + 1)
         IN  /\ log' = [log EXCEPT ![rm] = Range(list)]
             /\ minted' = minted + Len(list)
             /\ Writes(w, "EVENTS", worker[w].user)
             /\ Reply(w, 200, rm)
             /\ UNCHANGED <<cf, txns>>)

-----------------------------------------------------------------------------
(* An inbound transaction: its PDUs one after another, then its EDUs.  One *)
(* that does not parse is answered as if it were empty.                    *)

\* The body's PDUs and EDUs (the latter may be left out), None where one of the
\* PDUs (None here) or another part does not parse.
from_json(w) ==
  LET pdus == Field(w, "pdus")
  IN  IF Field(w, "origin") = None \/ pdus = None THEN None
      ELSE IF None \in Range(pdus) THEN None
      ELSE [pdus |-> pdus, edus |-> OrElse(Field(w, "edus"), <<>>)]

Tagged(tag, list) == [i \in DOMAIN list |-> <<tag, list[i]>>]

ServeFederationSend(w) ==
  LET txn == from_json(w)
  IN  /\ Serving(w, "federation_send")
      /\ Checked(w, << <<Form(w) = "object", 400>> >>,
           IF txn = None THEN Answers(w, 200, {})
           ELSE /\ Work(w, "transaction", Tagged("pdu", txn.pdus) \o Tagged("edu", txn.edus),
                        [by_id |-> UNION {log[pdu.room] : pdu \in Range(txn.pdus)}, results |-> {}])
                /\ UNCHANGED services)

ReceivePdu(w, pdu) ==
  LET got == worker[w].got
      ok  == IF pdu.auth_events = {} THEN check_auth(pdu, StateOf(pdu.room))
             ELSE check_auth_with_chain(pdu, got.by_id)
      acked == got.results \cup {<<pdu.id, ok>>}
  IN  /\ Work(w, "transaction", Tail(worker[w].todo),
              [by_id |-> IF ok THEN got.by_id \cup {pdu} ELSE got.by_id, results |-> acked])
      /\ IF ok THEN /\ log' = [log EXCEPT ![pdu.room] = @ \cup {pdu}]
                    /\ Writes(w, "EVENTS", pdu.sender)
         ELSE UNCHANGED <<log, effects>>
      /\ UNCHANGED <<cf, txns, minted>>

ReceiveEdu(w, edu) ==
  /\ Work(w, "transaction", Tail(worker[w].todo), worker[w].got)
  /\ IF edu.type = "m.device_list_update" /\ edu.user \in Users /\ edu.device # None
     THEN /\ cf' = [cf EXCEPT !.DEVICE_KEYS[<<edu.user, edu.device>>] = edu.keys]
          /\ Writes(w, "DEVICE_KEYS", edu.user)
     ELSE UNCHANGED <<cf, effects>>
  /\ UNCHANGED <<log, txns, minted>>

ReceiveTransaction(w) ==
  LET todo == worker[w].todo
  IN  /\ worker[w].pc = "transaction"
      /\ \/ todo = <<>> /\ Answers(w, 200, worker[w].got.results)
         \/ todo # <<>> /\ Head(todo)[1] = "pdu" /\ ReceivePdu(w, Head(todo)[2])
         \/ todo # <<>> /\ Head(todo)[1] = "edu" /\ ReceiveEdu(w, Head(todo)[2])

-----------------------------------------------------------------------------
(* Login: the account is read, the live tokens are counted, the token is   *)
(* put.                                                                    *)

LoginUser(w)      == full_user_id(Field(w, "user"))
IsJson(w)         == Form(w) \notin {"absent", "not_json"}
HasCredentials(w) == Field(w, "user") # None /\ Field(w, "password") # None
CredentialsFit(w) == LoginUser(w) # None /\ verify_password(LoginUser(w), Field(w, "password"))

ServeLogin(w) ==
  /\ Serving(w, "login")
  /\ Checked(w, << <<IsJson(w), 400>>, <<Field(w, "type") = "m.login.password", 400>>,
                   <<HasCredentials(w), 400>>, <<CredentialsFit(w), 403>> >>,
       /\ worker' = [worker EXCEPT ![w].pc = "count", ![w].user = LoginUser(w)]
       /\ UNCHANGED services)

CountTokens(w) ==
  /\ worker[w].pc = "count"
  /\ Work(w, "token", <<>>, mint(worker[w].user, token_count))
  /\ UNCHANGED services

PutToken(w) ==
  /\ worker[w].pc = "token"
  /\ PutAndAnswer(w, WithToken(worker[w].got, worker[w].user), "ACCESS_TOKENS", worker[w].got)

-----------------------------------------------------------------------------
(* Typing, receipts and presence.  The room's state is read, then the      *)
(* user's entry is put.                                                    *)

Joined(w) == RoomParam(w) # None /\ is_joined(RoomParam(w), worker[w].user)

ServeTyping(w) ==
  /\ Serving(w, "typing")
  /\ Checked(w, << <<RoomParam(w) # None, 400>>,
                   <<ForSelf(w), 403>>,
                   <<Form(w) = "object", 400>>,
                   <<Field(w, "typing") # None, 400>>,
                   <<Joined(w), 403>> >>,
       Goto(w, "put_typing") /\ UNCHANGED services)

\* The timeout, when none is given, is 30 s, as long as it may be.
PutTyping(w) ==
  LET expiry == IF Field(w, "typing") = TRUE
                THEN TypingUntil(OrElse(Field(w, "timeout"), MAX_TYPING_MS)) ELSE None
  IN  /\ worker[w].pc = "put_typing"
      /\ PutAndAnswer(w, [cf EXCEPT !.TYPING[<<RoomParam(w), worker[w].user>>] = expiry],
                      "TYPING", None)

ServeReceipt(w) ==
  /\ Serving(w, "receipt")
  /\ Checked(w, << <<RoomParam(w) # None, 400>> >>,
       IF Param(w, receiptType) # "m.read" THEN Answers(w, 200, None)
       ELSE IF Joined(w) THEN Goto(w, "put_receipt") /\ UNCHANGED services
       ELSE Answers(w, 403, None))

PutReceipt(w) ==
  /\ worker[w].pc = "put_receipt"
  /\ PutAndAnswer(w, [cf EXCEPT !.RECEIPTS[<<RoomParam(w), worker[w].user>>] =
                        [event_id |-> Param(w, eventId), ts |-> now]], "RECEIPTS", None)

\* Mutant: the presence of the user named in the path.
SetPresenceOfAnyone(w) ==
  /\ Serving(w, "set_presence")
  /\ Checked(w, << <<UserParam(w) # None /\ Field(w, "presence") # None, 400>> >>,
       /\ cf' = [cf EXCEPT !.PRESENCE[UserParam(w)] = Field(w, "presence")]
       /\ Writes(w, "PRESENCE", UserParam(w))
       /\ Reply(w, 200, None)
       /\ UNCHANGED <<log, txns, minted>>)

ServeSetPresence(w) ==
  /\ Serving(w, "set_presence")
  /\ Checked(w, << <<ForSelf(w), 403>>,
                   <<Form(w) = "object", 400>>,
                   <<Field(w, "presence") # None, 400>> >>,
       PutAndAnswer(w, [cf EXCEPT !.PRESENCE[worker[w].user] = Field(w, "presence")],
                    "PRESENCE", None))

ephemeral_obj(rm) == [typing |-> typing_users(rm), receipts |-> read_receipts(rm)]

\* An initial sync: the joined rooms, then the presence of those in them.
ServeSync(w) ==
  LET user == worker[w].user
  IN  /\ Serving(w, "sync")
      /\ Work(w, "presence", <<>>,
           [rm \in JoinedRooms(user) |->
             [state |-> StateOf(rm), timeline |-> log[rm], ephemeral |-> ephemeral_obj(rm)]])
      /\ UNCHANGED services

SyncPresence(w) ==
  /\ worker[w].pc = "presence"
  /\ Answers(w, 200, [join |-> worker[w].got, presence |-> co_resident_presence(worker[w].user)])

-----------------------------------------------------------------------------
(* Keys.                                                                   *)

\* A signed object is [content, signatures], the signatures by key id.
has_signature(obj, key_id) == key_id \in DOMAIN obj.signatures
signed_json_verifies(obj, key_id, public) == verify(obj.content, obj.signatures[key_id], public)
ForgedBy(obj, key_id, public) ==
  has_signature(obj, key_id) /\ ~signed_json_verifies(obj, key_id, public)

\* Device keys that carry a signature must be signed by the device's own key.
Forged(w) ==
  LET keys == Field(w, "device_keys")
  IN  IF keys = None THEN FALSE
      ELSE /\ keys.content.user # None /\ keys.content.device # None
           /\ ForgedBy(keys, keys.content.device, keys.content.public)

UploadDevice(w) ==
  LET keys == Field(w, "device_keys")
  IN  IF keys = None THEN "default" ELSE OrElse(keys.content.device, "default")

\* Mutant: the device keys are stored before they are verified.
KeysUploadStoresFirst(w) ==
  LET keys == Field(w, "device_keys")
  IN  /\ Serving(w, "keys_upload")
      /\ Checked(w, << <<OptionalObject(w) /\ keys # None, 400>> >>,
           /\ cf' = [cf EXCEPT !.DEVICE_KEYS[<<worker[w].user, UploadDevice(w)>>] = keys]
           /\ Writes(w, "DEVICE_KEYS", worker[w].user)
           /\ IF Forged(w) THEN Reply(w, 400, None) ELSE Work(w, "one_time_keys", <<>>, None)
           /\ UNCHANGED <<log, txns, minted>>)

\* The device keys are put, then the one-time keys one by one; the answer
\* counts what is there after that.
ServeKeysUpload(w) ==
  LET keys == Field(w, "device_keys")
      otks == OrElse(Field(w, "one_time_keys"), <<>>)
  IN  /\ Serving(w, "keys_upload")
      /\ Checked(w, << <<OptionalObject(w), 400>>, <<~Forged(w), 400>> >>,
           /\ Work(w, "one_time_keys", otks, None)
           /\ IF keys = None THEN UNCHANGED <<cf, effects>>
              ELSE /\ cf' = [cf EXCEPT !.DEVICE_KEYS[<<worker[w].user, UploadDevice(w)>>] = keys]
                   /\ Writes(w, "DEVICE_KEYS", worker[w].user)
           /\ UNCHANGED <<log, txns, minted>>)

StoreOneTimeKeys(w) ==
  LET todo == worker[w].todo
      key  == [user |-> worker[w].user, device |-> UploadDevice(w)] @@ Head(todo)
  IN  /\ worker[w].pc = "one_time_keys"
      /\ \/ /\ todo = <<>>
            /\ Answers(w, 200, one_time_key_counts(worker[w].user, UploadDevice(w)))
         \/ /\ todo # <<>>
            /\ cf' = [cf EXCEPT !.DEVICE_OTK = @ \cup {key}]
            /\ Writes(w, "DEVICE_OTK", worker[w].user)
            /\ Work(w, "one_time_keys", Tail(todo), None)
            /\ UNCHANGED <<log, txns, minted>>

\* A user's device keys and then the cross-signing keys.
ServeKeysQuery(w) ==
  /\ Serving(w, "keys_query")
  /\ Checked(w, << <<OptionalObject(w), 400>> >>,
       Work(w, "query", OrElse(Field(w, "device_keys"), <<>>), {}) /\ UNCHANGED services)

QueryKeys(w) ==
  LET todo == worker[w].todo
      user == Head(todo)
      view == [user |-> user, devices |-> device_keys_of(user), keys |-> cross_signing_keys_of(user)]
  IN  /\ worker[w].pc = "query"
      /\ \/ todo = <<>> /\ Answers(w, 200, worker[w].got)
         \/ /\ todo # <<>>
            /\ Work(w, "query", Tail(todo),
                    IF user \in Users THEN worker[w].got \cup {view} ELSE worker[w].got)
            /\ UNCHANGED services

\* One key of each request is looked for, and then deleted.
ServeKeysClaim(w) ==
  /\ Serving(w, "keys_claim")
  /\ Checked(w, << <<OptionalObject(w), 400>> >>,
       Work(w, "claim", OrElse(Field(w, "one_time_keys"), <<>>), {}) /\ UNCHANGED services)

ClaimScan(w) ==
  LET todo  == worker[w].todo
      found == FirstOf(Head(todo).user, Head(todo).device, Head(todo).alg)
  IN  /\ worker[w].pc = "claim"
      /\ \/ todo = <<>> /\ Answers(w, 200, worker[w].got)
         \/ /\ todo # <<>>
            /\ IF found = None THEN Work(w, "claim", Tail(todo), worker[w].got)
               ELSE Work(w, "claim_delete", todo, worker[w].got \cup {found})
            /\ UNCHANGED services

\* Mutant: what is deleted is looked for once more.
DeletesTheFirst(w, claim) == {FirstOf(claim.user, claim.device, claim.alg)}
Deletes(w, claim) ==
  {k \in worker[w].got : k.user = claim.user /\ k.device = claim.device /\ k.alg = claim.alg}

ClaimDelete(w) ==
  /\ worker[w].pc = "claim_delete"
  /\ cf' = [cf EXCEPT !.DEVICE_OTK = @ \ Deletes(w, Head(worker[w].todo))]
  /\ Work(w, "claim", Tail(worker[w].todo), worker[w].got)
  /\ Writes(w, "DEVICE_OTK", Head(worker[w].todo).user)
  /\ UNCHANGED <<log, txns, minted>>

\* Cross-signing keys are verified and put one by one: those below the master
\* key must, if signed by it, be signed validly.
ServeDeviceSigning(w) ==
  LET given == Given(w, "master") \o Given(w, "self_signing") \o Given(w, "user_signing")
  IN  /\ Serving(w, "device_signing_upload")
      /\ Checked(w, << <<OptionalObject(w), 400>> >>,
           Work(w, "signing", given, None) /\ UNCHANGED services)

ForgedBelow(w, usage) ==
  LET master == Field(w, "master")
  IN  IF usage = "master" \/ master = None THEN FALSE
      ELSE ForgedBy(Field(w, usage), master.content.public, master.content.public)

StoreSigningKeys(w) ==
  LET todo  == worker[w].todo
      usage == Head(todo)
  IN  /\ worker[w].pc = "signing"
      /\ \/ todo = <<>> /\ Answers(w, 200, None)
         \/ todo # <<>> /\ ForgedBelow(w, usage) /\ Answers(w, 400, None)
         \/ /\ todo # <<>> /\ ~ForgedBelow(w, usage)
            /\ cf' = [cf EXCEPT !.CROSS_SIGNING[<<worker[w].user, usage>>] = Field(w, usage)]
            /\ Writes(w, "CROSS_SIGNING", worker[w].user)
            /\ Work(w, "signing", Tail(todo), None)
            /\ UNCHANGED <<log, txns, minted>>

-----------------------------------------------------------------------------
\* One step of the handler behind the gate.
Handle(w) ==
  /\ \/ ServeVersions(w) \/ ServeLoginFlows(w) \/ ServeWhoami(w) \/ ServeServerKeys(w)
     \/ ServeNothing(w) \/ ServeGetPresence(w) \/ ServeUserDevices(w)
     \/ ServeRoomState(w) \/ ServeMembers(w) \/ ServeJoinedMembers(w) \/ ServeStateEvent(w)
     \/ ServeMessages(w) \/ ServeEvent(w) \/ ServeFederationEvent(w) \/ ServeFederationState(w)
     \/ ServeFederationStateIds(w) \/ ServeFederationBackfill(w)
     \/ ServeSend(w) \/ ServeCreateRoom(w)
     \/ ServeMembershipSelf(w, "join", "join") \/ ServeMembershipSelf(w, "leave", "leave")
     \/ ServeMembershipTarget(w, "invite", "invite") \/ ServeMembershipTarget(w, "kick", "leave")
     \/ ServeMembershipTarget(w, "ban", "ban")
     \/ ServeFederationSend(w) \/ ReceiveTransaction(w)
     \/ ServeLogin(w) \/ CountTokens(w) \/ PutToken(w)
     \/ ServeTyping(w) \/ PutTyping(w) \/ ServeReceipt(w) \/ PutReceipt(w) \/ ServeSetPresence(w)
     \/ ServeSync(w) \/ SyncPresence(w)
     \/ ServeKeysUpload(w) \/ StoreOneTimeKeys(w) \/ ServeKeysQuery(w) \/ QueryKeys(w)
     \/ ServeKeysClaim(w) \/ ClaimScan(w) \/ ClaimDelete(w)
     \/ ServeDeviceSigning(w) \/ StoreSigningKeys(w)
  /\ UNCHANGED <<pool, now>>

\* The library calls that are not behind a handler.  Keys are provisioned
\* before the server is used.
Setup == \A c \in Conns : conn[c].at = "away"

Operate ==
  /\ \E e \in coming.events :
       /\ coming' = [coming EXCEPT !.events = @ \ {e}]
       /\ \/ e.name = "account" /\ register_account(e.user, e.password)
          \/ e.name = "logout"  /\ revoke(e.token)
          \/ e.name = "fetched" /\ IngestKeyDocument(e.doc)
          \/ e.name = "federation_key" /\ Setup /\ register_federation_key(e.origin, e.public)
          \/ e.name = "signing_key" /\ Setup /\ register_signing_key(e.key_id, e.seed)
  /\ UNCHANGED <<conn, client, queue, worker, serving, log, txns, effects, minted, now>>

ClockSteppedBack == now - 1                                          \* mutant
Later == now + 1

Tick ==
  /\ Occurs("tick")
  /\ now' = Later
  /\ UNCHANGED <<conn, client, queue, worker, serving, services>>

Init ==
  /\ coming \in Scenarios
  /\ conn = [c \in Conns |-> Away]
  /\ client = [c \in Conns |-> "reads"]
  /\ queue = <<>>
  /\ worker = [w \in Workers |-> Waits]
  /\ serving = TRUE
  /\ cf = Families
  /\ now = 0
  /\ LogInit
  /\ effects = {}
  /\ minted = Len(Stored)

WorkerStep(w) == Take(w) \/ Read(w) \/ Gate(w) \/ Handle(w) \/ Respond(w) \/ LoseAnswer(w)

Next ==
  \/ \E c \in Conns : Connect(c) \/ HangUp(c) \/ Accept(c)
  \/ \E c \in Conns : Stall(c) \/ Leave(c) \/ EndStall(c)
  \/ \E w \in Workers : WorkerStep(w) \/ Panic(w)
  \/ AcceptFails
  \/ Operate
  \/ Tick

\* Threads run and the accept loop polls; clients, panics and errors need
\* never come.  A client that connected may stay silent for ever, or leave its
\* answer unread for ever: no step of a worker is enabled then.
Fairness == (\A w \in Workers : WF_vars(WorkerStep(w))) /\ (\A c \in Conns : WF_vars(Accept(c)))

Spec == Init /\ [][Next]_vars /\ Fairness

-----------------------------------------------------------------------------
(* Properties.                                                             *)

\* Types of the pool's state and of the ledgers: connections, queue and workers
\* of serve_with_workers, and who wrote what.
FrontTypeOK ==
  /\ \A c \in Conns : /\ conn[c].at \in {"away", "backlog", "queued", "taken", "answered", "dropped"}
                      /\ conn[c].at # "away" => conn[c].input.kind \in Inputs
                      /\ client[c] \in ClientStates
                      /\ conn[c].status \in {0, 200, 400, 401, 403, 404, 405, 501}
  /\ \A w \in Workers : worker[w].conn \in Conns \cup {None}
  /\ queue \in Seq(Conns) /\ serving \in BOOLEAN /\ minted \in Nat /\ now \in Nat
  /\ DOMAIN cf = DOMAIN EmptyFamilies
  /\ \A e \in effects : e.conn \in Conns /\ e.family \in DOMAIN cf \cup {"EVENTS"}

\* A connection is in one place only: queued once, or with one worker that is
\* serving it, or neither.  A worker that dies or drops a client must not leave
\* the connection to another, nor take it along with a second one.
OneWorkerPerConnection ==
  \A c \in Conns :
    LET holders == {w \in Workers : worker[w].conn = c}
        places  == {i \in DOMAIN queue : queue[i] = c}
    IN  /\ Cardinality(places)  = IF conn[c].at = "queued" THEN 1 ELSE 0
        /\ Cardinality(holders) = IF conn[c].at = "taken" THEN 1 ELSE 0

Answered(c, handler) == conn[c].at = "answered" /\ conn[c].handler = handler

\* A request that is refused has written nothing, whatever step the refusal
\* came at.  The one exception is the upload of cross-signing keys, which
\* stores each key before it looks at the next (serve_device_signing_upload).
RefusalLeavesNoTrace ==
  \A e \in effects :
    conn[e.conn].at = "answered" /\ conn[e.conn].status >= 400 => e.family = "CROSS_SIGNING"

\* Under a user's token only that user's entries are written: the token that a
\* login of u was given, kept over other logins and logouts, never makes the
\* server write as somebody else.  (A claim takes keys of others by design, and
\* a login heeds its password only, whatever token comes with it.)
WritesAreTheCallers ==
  \A e \in effects :
    LET token == bearer(conn[e.conn].input.authorization)
    IN  token # None /\ e.handler \notin {"keys_claim", "login"} => e.owner = token[1]

\* The token a login was answered with authenticates the user who logged in or,
\* after a logout, nobody, however many logins and logouts run at once
\* (SessionStore::mint reads the count before the put).
TokenSpeaksForItsLogin ==
  \A c \in Conns :
    Answered(c, "login") /\ conn[c].status = 200 =>
      user_for(conn[c].body) \in {full_user_id(conn[c].input.body.fields.user), None}

\* Who holds a one-time key: a claim under way or one that was answered.
HandedOut(key) ==
  \/ \E w \in Workers : /\ worker[w].pc \in {"claim", "claim_delete"}
                        /\ key \in worker[w].got
  \/ \E w \in Workers : /\ worker[w].pc = "respond" /\ worker[w].handler = "keys_claim"
                        /\ worker[w].status = 200 /\ key \in worker[w].body
  \/ \E c \in Conns : Answered(c, "keys_claim") /\ conn[c].status = 200 /\ key \in conn[c].body

\* A one-time key that was stored at the start is there for a peer to claim or
\* has been handed to one: claims at the same time may not burn a key nobody
\* got (claim_one_time_key).  Only a connection that is dropped takes its key
\* along: its worker died, or the answer could not be written to it.
OneTimeKeysAccountedFor ==
  (\A c \in Conns : conn[c].at # "dropped") =>
    \A key \in Families.DEVICE_OTK : key \in cf.DEVICE_OTK \/ HandedOut(key)

\* The document served at /key/v2/server is one a peer running this code would
\* take in: unexpired, and signed by a key it advertises (server_keys against
\* ingest_key_document).
PublishedKeysAreAccepted ==
  \A c \in Conns :
    Answered(c, "server_keys") /\ (\E k \in KeyIds : cf.SERVER_KEYS[k] # None) =>
      ingest_key_document(conn[c].body)

\* c's client says nothing, or does not read what it is sent.
Idles(c) == conn[c].input.kind = "silent" \/ client[c] = "stalls"

\* No worker is there for c: its own client idles, or every worker is dead, waits
\* to read from a client that says nothing, or to write to one that does not read.
Clogged(c) ==
  \/ Idles(c)
  \/ \A w \in Workers : \/ worker[w].pc = "dead"
                        \/ worker[w].pc = "read" /\ Req(w).kind = "silent"
                        \/ worker[w].pc = "respond" /\ ClientOf(w) = "stalls"

\* A connection that was made is answered or dropped, as long as time and again
\* its client and some worker are free to go on: neither a queue lock nor a lost
\* wakeup, a dead worker, an answer that fails or a client another worker waits
\* for holds it back for ever.
EveryConnectionEnds ==
  \A c \in Conns :
    []<>(conn[c].at # "away" => ~Clogged(c)) =>
      (conn[c].at \in {"backlog", "queued", "taken"} ~> conn[c].at \in {"answered", "dropped"})
=============================================================================
