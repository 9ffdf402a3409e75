---------------------------- MODULE GaussServices ----------------------------
(***************************************************************************)
(* The services of the composed homeserver other than its rooms: accounts, *)
(* sessions, device keys, cross-signing keys, typing, receipts, presence   *)
(* and the keys of federation peers (gm-svc/src/server.rs, accounts.rs,    *)
(* session.rs; gm-fed/src/auth.rs).                                        *)
(*                                                                         *)
(* One variable, cf, holds the column families; a store call reads or      *)
(* writes one of them at once, and everything a handler does between two   *)
(* store calls may be interleaved with the calls of others.  Rooms are the *)
(* promised logs of RoomLog.  The store is assumed not to fail here        *)
(* (every handler drops the Result of its puts); DurableStore is where it  *)
(* fails.                                                                  *)
(***************************************************************************)
EXTENDS RoomLog, TLC

CONSTANTS
  Devices, Passwords, Usages,
  Localparts,   \* the users of this server by the bare part of their id
  Servers,      \* federation peers
  ServerName,   \* this server
  KeyIds,       \* ids of server keys
  MAX_TYPING_MS,
  Lifetime      \* how long a published server key is valid (24 h)

VARIABLES
  cf,    \* the column families
  now    \* the wall clock (`now_ms`)

\* The hash of the user and the number of live tokens.
MintForAnyone(user, count) == <<None, count>>                        \* mutant
mint(user, count) == <<user, count>>

EmptyFamilies ==
  [ ACCOUNTS        |-> [u \in Users |-> None],
    ACCESS_TOKENS   |-> {},                          \* {[token, user]}
    DEVICE_KEYS     |-> [k \in Users \X Devices |-> None],
    DEVICE_OTK      |-> {},                          \* {[user, device, alg, id]}
    CROSS_SIGNING   |-> [k \in Users \X Usages |-> None],
    TYPING          |-> [k \in Rooms \X Users |-> None],   \* the expiry
    RECEIPTS        |-> [k \in Rooms \X Users |-> None],   \* [event_id, ts]
    PRESENCE        |-> [u \in Users |-> None],
    SERVER_KEYS     |-> [k \in KeyIds |-> None],     \* own seeds
    FEDERATION_KEYS |-> [s \in Servers \cup {ServerName} |-> None],
    KEY_CACHE       |-> [k \in Servers \X KeyIds |-> None] ]  \* [public, valid_until]

-----------------------------------------------------------------------------
(* Accounts and sessions.                                                  *)

\* A login names a user by the full id or by its local part.
full_user_id(name) ==
  IF name \in DOMAIN Localparts THEN Localparts[name]
  ELSE IF name \in Users THEN name ELSE None

\* The verifier is a hash of user and password.
verifier(user, password) == <<user, password>>

verify_password(user, password) == cf.ACCOUNTS[user] = verifier(user, password)

user_for(token) ==
  LET live == {t \in cf.ACCESS_TOKENS : t.token = token}
  IN  IF live = {} THEN None ELSE (CHOOSE t \in live : TRUE).user

token_count == Cardinality(cf.ACCESS_TOKENS)

\* A put under a token that is there replaces its user.
WithToken(token, user) ==
  [cf EXCEPT !.ACCESS_TOKENS =
     {t \in @ : t.token # token} \cup {[token |-> token, user |-> user]}]

WithoutToken(token) == [cf EXCEPT !.ACCESS_TOKENS = {t \in @ : t.token # token}]

-----------------------------------------------------------------------------
(* Device keys.                                                            *)

OneTimeKeys(user, device) == {k \in cf.DEVICE_OTK : k.user = user /\ k.device = device}

one_time_key_counts(user, device) ==
  LET keys == OneTimeKeys(user, device)
  IN  [alg \in {k.alg : k \in keys} |-> Cardinality({k \in keys : k.alg = alg})]

\* The key a claim finds: the first in key order.
FirstOf(user, device, alg) ==
  LET keys == {k \in OneTimeKeys(user, device) : k.alg = alg}
  IN  IF keys = {} THEN None
      ELSE CHOOSE k \in keys : \A other \in keys : k.id <= other.id

device_keys_of(user) == {d \in Devices : cf.DEVICE_KEYS[<<user, d>>] # None}
cross_signing_keys_of(user) == {usage \in Usages : cf.CROSS_SIGNING[<<user, usage>>] # None}

-----------------------------------------------------------------------------
(* Typing, receipts, presence.                                             *)

state_event(rm, kind, key) == {e \in StateOf(rm) : e.kind = kind /\ e.state_key = key}

is_joined(rm, user) == membership(StateOf(rm), user) = "join"

Lapsed(expiry) == expiry <= now

typing_users(rm) ==
  {u \in Users : LET expiry == cf.TYPING[<<rm, u>>]
                 IN  IF expiry = None THEN FALSE ELSE ~Lapsed(expiry)}

read_receipts(rm) == {u \in Users : cf.RECEIPTS[<<rm, u>>] # None}

JoinedRooms(user) == {rm \in Rooms : is_joined(rm, user)}

presence_for(user) == cf.PRESENCE[user]

\* Everyone with a member event in a room the user is joined to.
co_resident_presence(user) ==
  {u \in Users : /\ presence_for(u) # None
                 /\ \E rm \in JoinedRooms(user) : membership(StateOf(rm), u) # None}

TypingUntil(timeout) == now + IF timeout < MAX_TYPING_MS THEN timeout ELSE MAX_TYPING_MS

-----------------------------------------------------------------------------
(* Federation: the keys of peers, and the signature of a request.          *)

\* Ed25519 is external: the public key of a seed, and a signature that states
\* who made it over what.
public_key(seed) == <<"public", seed>>
sign(content, seed) == [by |-> public_key(seed), over |-> content]
verify(content, signature, public) == signature = [by |-> public, over |-> content]

cached_key(origin, key_id) ==
  LET cached == cf.KEY_CACHE[<<origin, key_id>>]
  IN  IF cached = None THEN None
      ELSE IF now < cached.valid_until THEN cached.public ELSE None

\* What the signature of a request must cover.
signing_bytes(method, target, origin, destination, content) ==
  <<method, target, origin, destination, content>>

\* Prefers the cached key and falls back on the provisioned one.
TrustedKey(origin, key_id) ==
  LET cached == cached_key(origin, key_id)
  IN  IF cached # None THEN cached ELSE cf.FEDERATION_KEYS[origin]

\* The header's scheme, and the fields without which it does not parse.
strip_scheme(header) == IF header = None THEN FALSE ELSE header.scheme = "x-matrix"
parse(header) ==
  /\ strip_scheme(header)
  /\ header.origin # None /\ header.key_id # None /\ header.signature # None

verify_federation_request(method, target, content, auth) ==
  /\ parse(auth)
  /\ auth.destination \in {None, ServerName}
  /\ LET key == TrustedKey(auth.origin, auth.key_id)
     IN  /\ key # None
         /\ verify(signing_bytes(method, target, auth.origin, ServerName, content),
                   auth.signature, key)

\* The part of a key document that is signed.
Unsigned(doc) == <<doc.server_name, doc.valid_until, doc.verify_keys>>

\* A peer's key document: it must not have lapsed, and one of the keys it
\* advertises must have signed it.
ingest_key_document(doc) ==
  /\ doc.valid_until > now
  /\ \E k \in DOMAIN doc.verify_keys \cap DOMAIN doc.signatures :
       verify(Unsigned(doc), doc.signatures[k], doc.verify_keys[k])

WithDocument(doc) ==
  [cf EXCEPT !.KEY_CACHE = [k \in DOMAIN @ |->
     IF k[1] = doc.server_name /\ k[2] \in DOMAIN doc.verify_keys
     THEN [public |-> doc.verify_keys[k[2]], valid_until |-> doc.valid_until] ELSE @[k]]]

\* The document this server publishes, signed by each of its keys.
PublishedKeys(Signs(_, _)) ==
  LET own  == {k \in KeyIds : cf.SERVER_KEYS[k] # None}
      keys == [k \in own |-> public_key(cf.SERVER_KEYS[k])]
      doc  == [server_name |-> ServerName, valid_until |-> now + Lifetime, verify_keys |-> keys,
               signatures |-> <<>>]
  IN  [doc EXCEPT !.signatures = [k \in own |-> Signs(doc, cf.SERVER_KEYS[k])]]

\* Mutant: what is signed leaves the validity out.
ServerKeysOfNoDate == PublishedKeys(LAMBDA doc, seed : sign(doc.verify_keys, seed))
server_keys == PublishedKeys(LAMBDA doc, seed : sign(Unsigned(doc), seed))

-----------------------------------------------------------------------------
(* What peers read of a room.                                              *)

\* What the walk back over prev_events finds: the least set that holds the
\* events it starts from and the parents of its members.
Ancestors(events, ids) ==
  LET Closed(S) == \A e \in events : e.id \in ids \/ (\E f \in S : e.id \in f.prev_events) => e \in S
  IN  CHOOSE S \in SUBSET events :
        Closed(S) /\ \A T \in SUBSET S : Closed(T) => T = S

\* The newest of them, from the deepest event when none of the ids is known.
\* (Events of the same depth are cut in the order of their ids.)
backfill(events, from, limit) ==
  LET known == {id \in from : \E e \in events : e.id = id}
      roots == IF known # {} \/ events = {} THEN known ELSE {TipOf(events).id}
      found == Ancestors(events, roots)
  IN  {e \in found : Cardinality({f \in found : f # e /\ AtOrBefore(e, f)}) < limit}

\* Wherever the event is in this server's history.
event_transaction(id) == {e \in UNION Range(log) : e.id = id}

state_ids(rm) ==
  LET ids == {e.id : e \in StateOf(rm)}
  IN  [pdu_ids |-> ids, auth_chain_ids |-> auth_chain(ids, log[rm])]

-----------------------------------------------------------------------------
(* What is done to the services other than through HTTP.                   *)

register_account(name, password) ==
  LET user == full_user_id(name)
  IN  user # None /\ cf' = [cf EXCEPT !.ACCOUNTS[user] = verifier(user, password)]

register_federation_key(origin, public) == cf' = [cf EXCEPT !.FEDERATION_KEYS[origin] = public]

register_signing_key(key_id, seed) ==
  cf' = [cf EXCEPT !.SERVER_KEYS[key_id] = seed,
                   !.FEDERATION_KEYS[ServerName] = public_key(seed)]

IngestKeyDocument(doc) == ingest_key_document(doc) /\ cf' = WithDocument(doc)

\* Logout.
revoke(token) == user_for(token) # None /\ cf' = WithoutToken(token)
=============================================================================
