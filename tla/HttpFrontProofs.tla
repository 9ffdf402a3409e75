---------------------------- MODULE HttpFrontProofs ----------------------------
(***************************************************************************)
(* Proofs about the HTTP front (HttpFront).                                *)
(*                                                                         *)
(* HandlerStep says what a step of a handler may do to the threads, to the *)
(* ledger of effects, to the store, to a login and to a claim; the handlers*)
(* are gone through one by one for it.  Shapes says what a step of the     *)
(* system may do to requests and answers.  The invariants rest on those    *)
(* two and not on the actions.                                             *)
(***************************************************************************)
EXTENDS HttpFront, TLAPS, WellFoundedInduction, FiniteSetTheorems

Statuses == {0, 200, 400, 401, 403, 404, 405, 501}

\* Where a handler may be after its first step, and whose step that is.
Stage == [ presence |-> "sync", transaction |-> "federation_send", count |-> "login",
           token |-> "login", put_typing |-> "typing", put_receipt |-> "receipt",
           one_time_keys |-> "keys_upload", query |-> "keys_query", claim |-> "keys_claim",
           claim_delete |-> "keys_claim", signing |-> "device_signing_upload" ]

Stages  == DOMAIN Stage
Claims  == {"claim", "claim_delete"}
Handles == {"serve"} \cup Stages
Pcs     == {"recv", "read", "gate", "respond", "dead"} \cup Handles

ConnFields   == {"at", "input", "status", "body", "handler"}
ThreadFields == {"pc", "conn", "user", "status", "body", "handler", "params", "todo", "got"}

Threads ==
  /\ DOMAIN worker = Workers
  /\ \A w \in Workers : DOMAIN worker[w] = ThreadFields

Store == DOMAIN cf = DOMAIN EmptyFamilies

\* A thread whose request can no longer be refused.
CannotRefuse(thread) ==
  \/ thread.pc \in {"transaction", "one_time_keys"} \cup Claims
  \/ thread.pc = "respond" /\ thread.status < 400

\* The types, for the proofs: what FrontTypeOK says, and the shape of records.
TypeInv ==
  /\ Threads /\ Store
  /\ \A w \in Workers : worker[w].pc \in Pcs /\ worker[w].status \in Statuses
  /\ DOMAIN conn = Conns
  /\ \A c \in Conns :
       /\ DOMAIN conn[c] = ConnFields
       /\ conn[c].at \in {"away", "backlog", "queued", "taken", "answered", "dropped"}
       /\ conn[c].at # "away" => conn[c].input.kind \in Inputs
       /\ conn[c].status \in Statuses
  /\ DOMAIN coming = {"sends", "events"}
  /\ \A c \in Conns : coming.sends[c] # None => coming.sends[c].kind \in Inputs
  /\ queue \in Seq(Conns) /\ serving \in BOOLEAN /\ minted \in Nat /\ now \in Nat
  /\ \A e \in effects : e.conn \in Conns /\ e.family \in DOMAIN EmptyFamilies \cup {"EVENTS"}

Staged == \A w \in Workers : worker[w].pc \in Stages => worker[w].handler = Stage[worker[w].pc]

-----------------------------------------------------------------------------
(* What a step of a handler may do, in five parts.                         *)

Moving(w) ==
  /\ worker[w].pc \in Handles
  /\ DOMAIN worker' = Workers /\ DOMAIN worker'[w] = ThreadFields
  /\ \A v \in Workers \ {w} : worker'[v] = worker[v]
  /\ worker'[w].conn = worker[w].conn /\ worker'[w].handler = worker[w].handler
  /\ worker'[w].pc # "respond" => worker'[w].pc \in Stages /\ Stage[worker'[w].pc] = worker[w].handler
  /\ worker'[w].pc \in Stages \cup {"respond"}
  /\ worker'[w].status \in Statuses
  /\ worker[w].handler # "login" => worker'[w].user = worker[w].user

NewEffect(w, e) ==
  /\ e.conn = worker[w].conn /\ e.handler = worker[w].handler
  /\ e.family \in DOMAIN EmptyFamilies \cup {"EVENTS"}
  /\ e.family = "CROSS_SIGNING" \/ CannotRefuse(worker'[w])
  /\ e.handler \notin {"versions", "login_flows", "server_keys", "none"}
  /\ \/ e.owner = worker[w].user
     \/ e.handler \in {"login", "keys_claim", "federation_send"}

Tracing(w) ==
  /\ \A e \in effects' : e \in effects \/ NewEffect(w, e)
  /\ effects \subseteq effects'
  /\ CannotRefuse(worker[w]) => CannotRefuse(worker'[w])

Storing(w) ==
  /\ DOMAIN cf' = DOMAIN EmptyFamilies
  /\ minted' \in Nat
  /\ \A t \in cf'.ACCESS_TOKENS :
       \/ t \in cf.ACCESS_TOKENS
       \/ worker[w].pc = "token" /\ t = [token |-> worker[w].got, user |-> worker[w].user]
  /\ \A key \in cf.DEVICE_OTK :
       \/ key \in cf'.DEVICE_OTK
       \/ worker[w].pc = "claim_delete" /\ key \in worker[w].got
  /\ cf'.SERVER_KEYS = cf.SERVER_KEYS

LoggingIn(w) ==
  worker[w].handler = "login" =>
    /\ worker'[w].pc = "count" => worker'[w].user = full_user_id(Req(w).body.fields.user)
    /\ worker'[w].pc = "token" =>
         /\ worker[w].pc = "count" /\ worker'[w].user = worker[w].user
         /\ worker'[w].got[1] = worker[w].user
    /\ worker'[w].pc = "respond" /\ worker'[w].status = 200 =>
         worker[w].pc = "token" /\ worker'[w].body = worker[w].got

Claiming(w) ==
  worker[w].pc \in Claims =>
    \/ worker'[w].pc \in Claims /\ worker[w].got \subseteq worker'[w].got
    \/ /\ worker'[w].pc = "respond" /\ worker'[w].status = 200
       /\ worker'[w].body = worker[w].got /\ worker'[w].handler = "keys_claim"

HandlerStep(w) == Moving(w) /\ Tracing(w) /\ Storing(w) /\ LoggingIn(w) /\ Claiming(w)

-----------------------------------------------------------------------------
(* What a step is made of: an answer, or a move to another stage.          *)

Same(w) ==
  /\ DOMAIN worker' = Workers /\ DOMAIN worker'[w] = ThreadFields
  /\ \A v \in Workers \ {w} : worker'[v] = worker[v]
  /\ worker'[w].conn = worker[w].conn /\ worker'[w].handler = worker[w].handler
  /\ worker'[w].user = worker[w].user

\* What `Reply`, `Work` and `Goto` do to the thread that takes the step, and
\* that they leave the other threads alone.
LEMMA ReplyMeans ==
  ASSUME Threads, NEW w \in Workers, NEW status, NEW body, Reply(w, status, body)
  PROVE  /\ Same(w)
         /\ worker'[w].pc = "respond" /\ worker'[w].status = status /\ worker'[w].body = body
BY DEF Threads, Reply, Same, ThreadFields

\* The thread moves to another stage, with work to do and what it has so far.
LEMMA WorkMeans ==
  ASSUME Threads, NEW w \in Workers, NEW pc, NEW todo, NEW got, Work(w, pc, todo, got)
  PROVE  /\ Same(w)
         /\ worker'[w].pc = pc /\ worker'[w].got = got /\ worker'[w].status = worker[w].status
BY DEF Threads, Work, Same, ThreadFields

\* The thread moves to another stage with what it has.
LEMMA GotoMeans ==
  ASSUME Threads, NEW w \in Workers, NEW pc, Goto(w, pc)
  PROVE  /\ Same(w)
         /\ worker'[w].pc = pc /\ worker'[w].got = worker[w].got
         /\ worker'[w].status = worker[w].status
BY DEF Threads, Goto, Same, ThreadFields

Replies(w, status, body) == Reply(w, status, body) /\ UNCHANGED services

\* A step that answers and changes nothing else.  A login may not be answered
\* 200 here, nor may a request that wrote something be refused.
LEMMA Answering ==
  ASSUME TypeInv, Staged, NEW w \in Workers, worker[w].pc \in Handles, UNCHANGED <<pool, now>>,
         NEW status \in Statuses, NEW body, Replies(w, status, body),
         worker[w].handler # "login" \/ status # 200,
         CannotRefuse(worker[w]) => status = 200,
         worker[w].pc \in Claims => status = 200 /\ body = worker[w].got
  PROVE  HandlerStep(w)
<1>1. Reply(w, status, body) /\ UNCHANGED <<cf, log, txns, effects, minted>>
  BY DEF Replies, services
<1>2. Same(w) /\ worker'[w].pc = "respond" /\ worker'[w].status = status /\ worker'[w].body = body
  BY <1>1, ReplyMeans DEF TypeInv
<1>3. Moving(w)
  BY <1>2 DEF Moving, Same
<1>4. Tracing(w)
  BY <1>1, <1>2 DEF Tracing, CannotRefuse
<1>5. Storing(w)
  BY <1>1 DEF Storing, TypeInv, Store
<1>6. LoggingIn(w)
  BY <1>2 DEF LoggingIn
<1>7. Claiming(w)
  <2>1. worker[w].pc \in Claims => worker[w].handler = "keys_claim"
    BY DEF Staged, Claims, Stages, Stage
  <2>. QED
    BY <1>2, <2>1 DEF Claiming, Same
<1>. QED
  BY <1>3, <1>4, <1>5, <1>6, <1>7 DEF HandlerStep

\* A step that only moves on.
LEMMA MovingOn ==
  ASSUME TypeInv, Staged, NEW w \in Workers, worker[w].pc \in Handles, UNCHANGED <<pool, now>>,
         UNCHANGED services, Same(w), NEW pc \in Stages, worker'[w].pc = pc,
         worker'[w].status = worker[w].status, Stage[pc] = worker[w].handler,
         worker[w].handler # "login",
         CannotRefuse(worker[w]) => CannotRefuse(worker'[w]),
         worker[w].pc \in Claims => pc \in Claims /\ worker[w].got \subseteq worker'[w].got
  PROVE  HandlerStep(w)
<1>1. UNCHANGED <<cf, log, txns, effects, minted>>
  BY DEF services
<1>2. pc # "respond" /\ worker[w].status \in Statuses
  BY DEF Stages, Stage, TypeInv
<1>3. Moving(w)
  BY <1>2 DEF Moving, Same
<1>4. Tracing(w)
  BY <1>1 DEF Tracing
<1>5. Storing(w)
  BY <1>1 DEF Storing, TypeInv, Store
<1>6. LoggingIn(w) /\ Claiming(w)
  BY DEF LoggingIn, Claiming
<1>. QED
  BY <1>3, <1>4, <1>5, <1>6 DEF HandlerStep

\* A step that writes one entry and answers or moves on.
Untouched ==
  /\ DOMAIN cf' = DOMAIN cf
  /\ cf'.ACCESS_TOKENS = cf.ACCESS_TOKENS /\ cf.DEVICE_OTK \subseteq cf'.DEVICE_OTK
  /\ cf'.SERVER_KEYS = cf.SERVER_KEYS

\* A put, with what the ledger says of it, by a request that cannot be refused
\* afterwards.
LEMMA Writing ==
  ASSUME TypeInv, Staged, NEW w \in Workers, worker[w].pc \in Handles, UNCHANGED <<pool, now>>,
         Untouched, minted' \in Nat, Same(w),
         NEW family, NEW owner, Writes(w, family, owner),
         family \in DOMAIN EmptyFamilies \cup {"EVENTS"},
         family = "CROSS_SIGNING" \/ CannotRefuse(worker'[w]),
         CannotRefuse(worker[w]) => CannotRefuse(worker'[w]),
         owner = worker[w].user \/ worker[w].handler \in {"keys_claim", "federation_send"},
         worker[w].handler \notin {"login", "versions", "login_flows", "server_keys", "none"},
         worker[w].pc \notin Claims,
         \/ worker'[w].pc = "respond"
         \/ worker'[w].pc \in Stages /\ Stage[worker'[w].pc] = worker[w].handler,
         worker'[w].status \in Statuses
  PROVE  HandlerStep(w)
<1>1. Moving(w)
  BY DEF Moving, Same
<1>2. Tracing(w)
  <2>1. PICK entry : entry = [conn |-> worker[w].conn, handler |-> worker[w].handler,
                              family |-> family, owner |-> owner]
    OBVIOUS
  <2>2. effects' = effects \cup {entry}
    BY <2>1 DEF Writes
  <2>3. NewEffect(w, entry)
    BY <2>1 DEF NewEffect
  <2>. QED
    BY <2>2, <2>3 DEF Tracing
<1>3. Storing(w)
  BY DEF Storing, TypeInv, Store, Untouched
<1>4. LoggingIn(w) /\ Claiming(w)
  BY DEF LoggingIn, Claiming
<1>. QED
  BY <1>1, <1>2, <1>3, <1>4 DEF HandlerStep

-----------------------------------------------------------------------------
(* The early returns of a handler.                                         *)

\* A set of numbers has a least one.
LEMMA LeastNumber ==
  ASSUME NEW S \in SUBSET Nat, S # {}
  PROVE  \E i \in S : \A j \in S : i <= j
<1>. DEFINE R == {pair \in Nat \X Nat : pair[1] < pair[2]}
<1>1. IsWellFoundedOn(R, Nat)
  <2>1. R = OpToRel(<, Nat)
    BY DEF OpToRel
  <2>. HIDE DEF R
  <2>. QED
    BY <2>1, NatLessThanWellFounded, Zenon
<1>. HIDE DEF R
<1>2. PICK x \in S : \A y \in S : ~ (<<y, x>> \in R)
  BY <1>1, WFMin
<1>3. ASSUME NEW y \in S PROVE x <= y
  <2>1. x \in Nat /\ y \in Nat
    OBVIOUS
  <2>2. ~ (<<y, x>> \in R)
    BY <1>2
  <2>. QED
    BY <2>1, <2>2 DEF R
<1>. QED
  BY <1>3

\* The least number of a set of numbers is one of them (Min of the community modules).
LEMMA MinIsIn ==
  ASSUME NEW S \in SUBSET Nat, S # {}
  PROVE  Min(S) \in S
BY LeastNumber DEF Min

\* The verdict is the status of a check that fails, and 200 when all hold.
LEMMA VerdictMeans ==
  ASSUME NEW checks, DOMAIN checks \subseteq Nat
  PROVE  \/ Verdict(checks) = 200 /\ \A i \in DOMAIN checks : checks[i][1]
         \/ \E i \in DOMAIN checks : Verdict(checks) = checks[i][2]
<1>1. PICK failing : failing = {i \in DOMAIN checks : ~checks[i][1]}
  OBVIOUS
<1>2. CASE failing = {}
  BY <1>1, <1>2 DEF Verdict
<1>3. CASE failing # {}
  <2>1. failing \in SUBSET Nat /\ failing \subseteq DOMAIN checks
    BY <1>1
  <2>2. Min(failing) \in DOMAIN checks
    BY <1>3, <2>1, MinIsIn, Zenon
  <2>3. Verdict(checks) = checks[Min(failing)][2]
    BY <1>1, <1>3 DEF Verdict
  <2>. QED
    BY <2>2, <2>3
<1>. QED
  BY <1>2, <1>3

\* The verdict on checks that all fail with 400.
LEMMA OneCheck ==
  ASSUME NEW a
  PROVE  Verdict(<< <<a, 400>> >>) \in {200, 400}
<1>1. PICK checks : checks = << <<a, 400>> >>
  OBVIOUS
<1>2. DOMAIN checks \subseteq Nat /\ \A i \in DOMAIN checks : checks[i][2] = 400
  BY <1>1
<1>3. Verdict(checks) \in {200, 400}
  BY <1>2, VerdictMeans
<1>. QED
  BY <1>1, <1>3

\* The same for two checks.
LEMMA TwoChecks ==
  ASSUME NEW a, NEW b
  PROVE  Verdict(<< <<a, 400>>, <<b, 400>> >>) \in {200, 400}
<1>1. PICK checks : checks = << <<a, 400>>, <<b, 400>> >>
  OBVIOUS
<1>2. DOMAIN checks \subseteq Nat /\ \A i \in DOMAIN checks : checks[i][2] = 400
  BY <1>1
<1>3. Verdict(checks) \in {200, 400}
  BY <1>2, VerdictMeans
<1>. QED
  BY <1>1, <1>3

\* Login: the last check is about the account, and the one before says that a
\* user was named.
LoginList(w) ==
  << <<IsJson(w), 400>>, <<Field(w, "type") = "m.login.password", 400>>,
     <<HasCredentials(w), 400>>, <<CredentialsFit(w), 403>> >>

\* A login that passes its checks named a user.
LEMMA LoginChecks ==
  ASSUME NEW w
  PROVE  Verdict(LoginList(w)) \in {400, 403} \/ (Verdict(LoginList(w)) = 200 /\ HasCredentials(w))
<1>1. PICK checks : checks = LoginList(w)
  OBVIOUS
<1>2. /\ DOMAIN checks \subseteq Nat /\ 3 \in DOMAIN checks
      /\ \A i \in DOMAIN checks : checks[i][2] \in {400, 403}
  BY <1>1 DEF LoginList
<1>3. checks[3][1] => HasCredentials(w)
  BY <1>1 DEF LoginList
<1>4. Verdict(checks) \in {400, 403} \/ (Verdict(checks) = 200 /\ checks[3][1])
  BY <1>2, VerdictMeans
<1>. QED
  BY <1>1, <1>3, <1>4

TypingList(w) ==
  << <<RoomParam(w) # None, 400>>, <<ForSelf(w), 403>>,
     <<Form(w) = "object", 400>>, <<Field(w, "typing") # None, 400>>, <<Joined(w), 403>> >>

\* What typing is refused with.
LEMMA TypingChecks ==
  ASSUME NEW w
  PROVE  Verdict(TypingList(w)) \in {200, 400, 403}
<1>1. PICK checks : checks = TypingList(w)
  OBVIOUS
<1>2. DOMAIN checks \subseteq Nat /\ \A i \in DOMAIN checks : checks[i][2] \in {400, 403}
  BY <1>1 DEF TypingList
<1>3. Verdict(checks) \in {200, 400, 403}
  BY <1>2, VerdictMeans
<1>. QED
  BY <1>1, <1>3

PresenceList(w) ==
  << <<ForSelf(w), 403>>, <<Form(w) = "object", 400>>, <<Field(w, "presence") # None, 400>> >>

\* What setting a presence is refused with.
LEMMA PresenceChecks ==
  ASSUME NEW w
  PROVE  Verdict(PresenceList(w)) \in {200, 400, 403}
<1>1. PICK checks : checks = PresenceList(w)
  OBVIOUS
<1>2. DOMAIN checks \subseteq Nat /\ \A i \in DOMAIN checks : checks[i][2] \in {400, 403}
  BY <1>1 DEF PresenceList
<1>3. Verdict(checks) \in {200, 400, 403}
  BY <1>2, VerdictMeans
<1>. QED
  BY <1>1, <1>3

-----------------------------------------------------------------------------
(* The handlers, one by one.                                               *)

\* A handler that answers in its first step and leaves everything alone.
AnsweredAtOnce(w) ==
  /\ worker[w].pc = "serve" /\ worker[w].handler # "login"
  /\ \E status \in Statuses : \E body : Replies(w, status, body)

\* Such a handler takes a step as promised.
LEMMA AnswersAtOnce ==
  ASSUME TypeInv, Staged, NEW w \in Workers, UNCHANGED <<pool, now>>, AnsweredAtOnce(w)
  PROVE  HandlerStep(w)
<1>1. PICK status \in Statuses : \E body : Replies(w, status, body)
  BY DEF AnsweredAtOnce
<1>2. PICK body : Replies(w, status, body)
  BY <1>1
<1>3. /\ worker[w].pc \in Handles /\ worker[w].handler # "login"
      /\ ~CannotRefuse(worker[w]) /\ worker[w].pc \notin Claims
  BY DEF AnsweredAtOnce, Handles, CannotRefuse, Claims
<1>. QED
  BY <1>2, <1>3, Answering

\* A lookup answers, whether or not it finds something.
LEMMA FoundAnswers ==
  ASSUME NEW w, NEW values, Found(w, values)
  PROVE  \E status \in Statuses : \E body : Replies(w, status, body)
BY DEF Found, Answers, Replies, Statuses

\* The handlers that look nothing up in the path answer at once.
LEMMA PlainReads ==
  ASSUME NEW w \in Workers,
         \/ ServeVersions(w) \/ ServeLoginFlows(w) \/ ServeWhoami(w) \/ ServeServerKeys(w)
         \/ ServeNothing(w) \/ ServeFederationEvent(w)
  PROVE  AnsweredAtOnce(w)
<1>1. CASE ServeVersions(w)
  BY <1>1 DEF ServeVersions, Serving, Answers, Replies, AnsweredAtOnce, Statuses
<1>2. CASE ServeLoginFlows(w)
  BY <1>2 DEF ServeLoginFlows, Serving, Answers, Replies, AnsweredAtOnce, Statuses
<1>3. CASE ServeWhoami(w)
  BY <1>3 DEF ServeWhoami, Serving, Answers, Replies, AnsweredAtOnce, Statuses
<1>4. CASE ServeServerKeys(w)
  BY <1>4 DEF ServeServerKeys, Serving, Answers, Replies, AnsweredAtOnce, Statuses
<1>5. CASE ServeNothing(w)
  BY <1>5 DEF ServeNothing, Serving, Answers, Replies, AnsweredAtOnce, Statuses
<1>6. CASE ServeFederationEvent(w)
  BY <1>6, FoundAnswers DEF ServeFederationEvent, Serving, AnsweredAtOnce
<1>. QED
  BY <1>1, <1>2, <1>3, <1>4, <1>5, <1>6

\* So do those that read a room.
LEMMA RoomReads ==
  ASSUME NEW w \in Workers,
         \/ ServeRoomState(w) \/ ServeMembers(w) \/ ServeJoinedMembers(w) \/ ServeStateEvent(w)
         \/ ServeMessages(w) \/ ServeEvent(w) \/ ServeFederationState(w)
         \/ ServeFederationStateIds(w) \/ ServeFederationBackfill(w)
  PROVE  AnsweredAtOnce(w)
<1>1. CASE ServeRoomState(w)
  BY <1>1, OneCheck
     DEF ServeRoomState, ServeRoom, Checked, Serving, Answers, Replies, AnsweredAtOnce, Statuses
<1>2. CASE ServeMembers(w)
  BY <1>2, OneCheck
     DEF ServeMembers, ServeRoom, Checked, Serving, Answers, Replies, AnsweredAtOnce, Statuses
<1>3. CASE ServeJoinedMembers(w)
  BY <1>3, OneCheck
     DEF ServeJoinedMembers, ServeRoom, Checked, Serving, Answers, Replies, AnsweredAtOnce, Statuses
<1>4. CASE ServeStateEvent(w)
  <2>1. \/ \E values : Found(w, values)
        \/ \E status : status = Verdict(<< <<RoomParam(w) # None, 400>> >>) /\ Replies(w, status, None)
    BY <1>4, Zenon DEF ServeStateEvent, ServeRoom, Checked, Replies
  <2>2. worker[w].pc = "serve" /\ worker[w].handler # "login"
    BY <1>4 DEF ServeStateEvent, ServeRoom, Serving
  <2>. QED
    BY <2>1, <2>2, FoundAnswers, OneCheck DEF AnsweredAtOnce, Statuses
<1>5. CASE ServeMessages(w)
  BY <1>5, OneCheck
     DEF ServeMessages, ServeRoom, Checked, Serving, Answers, Replies, AnsweredAtOnce, Statuses
<1>6. CASE ServeEvent(w)
  <2>1. \/ \E values : Found(w, values)
        \/ \E status : status = Verdict(<< <<RoomParam(w) # None, 400>> >>) /\ Replies(w, status, None)
    BY <1>6, Zenon DEF ServeEvent, ServeRoom, Checked, Replies
  <2>2. worker[w].pc = "serve" /\ worker[w].handler # "login"
    BY <1>6 DEF ServeEvent, ServeRoom, Serving
  <2>. QED
    BY <2>1, <2>2, FoundAnswers, OneCheck DEF AnsweredAtOnce, Statuses
<1>7. CASE ServeFederationState(w)
  BY <1>7, OneCheck
     DEF ServeFederationState, ServeRoom, Checked, Serving, Answers, Replies, AnsweredAtOnce, Statuses
<1>8. CASE ServeFederationStateIds(w)
  BY <1>8, OneCheck
     DEF ServeFederationStateIds, ServeRoom, Checked, Serving, Answers, Replies, AnsweredAtOnce, Statuses
<1>9. CASE ServeFederationBackfill(w)
  BY <1>9, OneCheck
     DEF ServeFederationBackfill, ServeRoom, Checked, Serving, Answers, Replies, AnsweredAtOnce, Statuses
<1>. QED
  BY <1>1, <1>2, <1>3, <1>4, <1>5, <1>6, <1>7, <1>8, <1>9

\* And those that read a user.
LEMMA UserReads ==
  ASSUME NEW w \in Workers, ServeGetPresence(w) \/ ServeUserDevices(w)
  PROVE  AnsweredAtOnce(w)
<1>1. CASE ServeGetPresence(w)
  BY <1>1, OneCheck, FoundAnswers
     DEF ServeGetPresence, ServeUser, Checked, Serving, Replies, AnsweredAtOnce, Statuses
<1>2. CASE ServeUserDevices(w)
  BY <1>2, OneCheck
     DEF ServeUserDevices, ServeUser, Checked, Serving, Answers, Replies, AnsweredAtOnce, Statuses
<1>. QED
  BY <1>1, <1>2

\* A handler whose first step writes nothing and leads to a stage of its own.
Enters(w, pc) == (Goto(w, pc) \/ \E todo : \E got : Work(w, pc, todo, got)) /\ UNCHANGED services

\* Its step is one of a handler.
LEMMA Entering ==
  ASSUME TypeInv, Staged, NEW w \in Workers, UNCHANGED <<pool, now>>,
         NEW handler, Serving(w, handler), NEW pc \in Stages, Stage[pc] = handler,
         handler # "login", Enters(w, pc)
  PROVE  HandlerStep(w)
<1>1. /\ worker[w].pc \in Handles /\ worker[w].handler = handler
      /\ ~CannotRefuse(worker[w]) /\ worker[w].pc \notin Claims
  BY DEF Serving, Handles, CannotRefuse, Claims
<1>2. Same(w) /\ worker'[w].pc = pc /\ worker'[w].status = worker[w].status
  BY GotoMeans, WorkMeans DEF Enters, TypeInv
<1>3. UNCHANGED services
  BY DEF Enters
<1>. QED
  BY <1>1, <1>2, <1>3, MovingOn

\* It may also refuse, or have nothing to do.
LEMMA EntersOrAnswers ==
  ASSUME TypeInv, Staged, NEW w \in Workers, UNCHANGED <<pool, now>>,
         NEW handler, Serving(w, handler), handler # "login",
         \/ \E status \in Statuses : \E body : Replies(w, status, body)
         \/ \E pc \in Stages : Stage[pc] = handler /\ Enters(w, pc)
  PROVE  HandlerStep(w)
<1>1. CASE \E status \in Statuses : \E body : Replies(w, status, body)
  BY <1>1, AnswersAtOnce DEF AnsweredAtOnce, Serving
<1>2. CASE \E pc \in Stages : Stage[pc] = handler /\ Enters(w, pc)
  BY <1>2, Entering
<1>. QED
  BY <1>1, <1>2

\* The first steps of sync, of the key queries and claims, of transactions, of
\* typing and of receipts write nothing.
LEMMA FirstSteps ==
  ASSUME TypeInv, Staged, NEW w \in Workers, UNCHANGED <<pool, now>>,
         \/ ServeSync(w) \/ ServeKeysQuery(w) \/ ServeKeysClaim(w) \/ ServeDeviceSigning(w)
         \/ ServeFederationSend(w) \/ ServeTyping(w) \/ ServeReceipt(w)
  PROVE  HandlerStep(w)
<1>1. CASE ServeSync(w)
  <2>1. \E todo : \E got : Work(w, "presence", todo, got) /\ UNCHANGED services
    BY <1>1, Zenon DEF ServeSync
  <2>2. "presence" \in Stages /\ Stage["presence"] = "sync" /\ "sync" # "login"
    BY DEF Stages, Stage
  <2>. QED
    BY <1>1, <2>1, <2>2, Entering DEF ServeSync, Enters
<1>2. CASE ServeKeysQuery(w)
  <2>1. \/ \E todo : \E got : Work(w, "query", todo, got) /\ UNCHANGED services
        \/ \E status : status = Verdict(<< <<OptionalObject(w), 400>> >>) /\ Replies(w, status, None)
    BY <1>2, Zenon DEF ServeKeysQuery, Checked, Replies
  <2>2. "query" \in Stages /\ Stage["query"] = "keys_query" /\ "keys_query" # "login"
    BY DEF Stages, Stage
  <2>3. Serving(w, "keys_query")
    BY <1>2 DEF ServeKeysQuery
  <2>. QED
    BY <2>1, <2>2, <2>3, OneCheck, EntersOrAnswers DEF Enters, Statuses
<1>3. CASE ServeKeysClaim(w)
  <2>1. \/ \E todo : \E got : Work(w, "claim", todo, got) /\ UNCHANGED services
        \/ \E status : status = Verdict(<< <<OptionalObject(w), 400>> >>) /\ Replies(w, status, None)
    BY <1>3, Zenon DEF ServeKeysClaim, Checked, Replies
  <2>2. "claim" \in Stages /\ Stage["claim"] = "keys_claim" /\ "keys_claim" # "login"
    BY DEF Stages, Stage
  <2>3. Serving(w, "keys_claim")
    BY <1>3 DEF ServeKeysClaim
  <2>. QED
    BY <2>1, <2>2, <2>3, OneCheck, EntersOrAnswers DEF Enters, Statuses
<1>4. CASE ServeDeviceSigning(w)
  <2>1. \/ \E todo : \E got : Work(w, "signing", todo, got) /\ UNCHANGED services
        \/ \E status : status = Verdict(<< <<OptionalObject(w), 400>> >>) /\ Replies(w, status, None)
    BY <1>4, Zenon DEF ServeDeviceSigning, Checked, Replies
  <2>2. /\ "signing" \in Stages /\ Stage["signing"] = "device_signing_upload"
        /\ "device_signing_upload" # "login"
    BY DEF Stages, Stage
  <2>3. Serving(w, "device_signing_upload")
    BY <1>4 DEF ServeDeviceSigning
  <2>. QED
    BY <2>1, <2>2, <2>3, OneCheck, EntersOrAnswers DEF Enters, Statuses
<1>5. CASE ServeFederationSend(w)
  <2>1. \/ \E todo : \E got : Work(w, "transaction", todo, got) /\ UNCHANGED services
        \/ Replies(w, 200, {})
        \/ \E status : status = Verdict(<< <<Form(w) = "object", 400>> >>) /\ Replies(w, status, None)
    BY <1>5, Zenon DEF ServeFederationSend, Checked, Replies, Answers
  <2>2. /\ "transaction" \in Stages /\ Stage["transaction"] = "federation_send"
        /\ "federation_send" # "login" /\ 200 \in Statuses
    BY DEF Stages, Stage, Statuses
  <2>3. Serving(w, "federation_send")
    BY <1>5 DEF ServeFederationSend
  <2>4. \/ \E status \in Statuses : \E body : Replies(w, status, body)
        \/ \E pc \in Stages : Stage[pc] = "federation_send" /\ Enters(w, pc)
    BY <2>1, <2>2, OneCheck DEF Enters, Statuses
  <2>. QED
    BY <2>2, <2>3, <2>4, EntersOrAnswers
<1>6. CASE ServeTyping(w)
  <2>1. IF Verdict(TypingList(w)) = 200 THEN Goto(w, "put_typing") /\ UNCHANGED services
        ELSE Reply(w, Verdict(TypingList(w)), None) /\ UNCHANGED services
    BY <1>6 DEF ServeTyping, Checked, TypingList
  <2>2. "put_typing" \in Stages /\ Stage["put_typing"] = "typing" /\ "typing" # "login"
    BY DEF Stages, Stage
  <2>3. Serving(w, "typing")
    BY <1>6 DEF ServeTyping
  <2>4. \/ \E status \in Statuses : \E body : Replies(w, status, body)
        \/ \E pc \in Stages : Stage[pc] = "typing" /\ Enters(w, pc)
    BY <2>1, <2>2, TypingChecks DEF Enters, Replies, Statuses
  <2>. QED
    BY <2>2, <2>3, <2>4, EntersOrAnswers
<1>7. CASE ServeReceipt(w)
  <2>1. \/ Goto(w, "put_receipt") /\ UNCHANGED services
        \/ Replies(w, 200, None) \/ Replies(w, 403, None)
        \/ \E status : status = Verdict(<< <<RoomParam(w) # None, 400>> >>) /\ Replies(w, status, None)
    BY <1>7, Zenon DEF ServeReceipt, Checked, Replies, Answers
  <2>2. "put_receipt" \in Stages /\ Stage["put_receipt"] = "receipt" /\ "receipt" # "login"
    BY DEF Stages, Stage
  <2>3. Serving(w, "receipt")
    BY <1>7 DEF ServeReceipt
  <2>4. \/ \E status \in Statuses : \E body : Replies(w, status, body)
        \/ \E pc \in Stages : Stage[pc] = "receipt" /\ Enters(w, pc)
    BY <2>1, <2>2, OneCheck DEF Enters, Statuses
  <2>. QED
    BY <2>2, <2>3, <2>4, EntersOrAnswers
<1>. QED
  BY <1>1, <1>2, <1>3, <1>4, <1>5, <1>6, <1>7

\* The writers that put one entry and answer.
LEMMA Putting ==
  ASSUME TypeInv, Staged, NEW w \in Workers, worker[w].pc \in Handles, UNCHANGED <<pool, now>>,
         NEW families, NEW family \in DOMAIN EmptyFamilies, NEW body,
         PutAndAnswer(w, families, family, body),
         DOMAIN families = DOMAIN cf, families.ACCESS_TOKENS = cf.ACCESS_TOKENS,
         cf.DEVICE_OTK \subseteq families.DEVICE_OTK, families.SERVER_KEYS = cf.SERVER_KEYS,
         worker[w].handler \notin {"login", "versions", "login_flows", "server_keys", "none"},
         worker[w].pc \notin Claims
  PROVE  HandlerStep(w)
<1>1. /\ cf' = families /\ UNCHANGED minted
      /\ Writes(w, family, worker[w].user) /\ Reply(w, 200, body)
  BY DEF PutAndAnswer
<1>2. Same(w) /\ worker'[w].pc = "respond" /\ worker'[w].status = 200
  BY <1>1, ReplyMeans DEF TypeInv
<1>3. CannotRefuse(worker'[w]) /\ worker'[w].status \in Statuses
  BY <1>2 DEF CannotRefuse, Statuses
<1>4. Untouched /\ minted' \in Nat
  BY <1>1 DEF Untouched, TypeInv
<1>. QED
  BY <1>1, <1>2, <1>3, <1>4, Writing

\* The second steps of typing and receipts.
LEMMA Puts ==
  ASSUME TypeInv, Staged, NEW w \in Workers, UNCHANGED <<pool, now>>,
         PutTyping(w) \/ PutReceipt(w)
  PROVE  HandlerStep(w)
<1>1. CASE PutTyping(w)
  <2>1. PICK entry : PutAndAnswer(w, [cf EXCEPT !.TYPING[<<RoomParam(w), worker[w].user>>] = entry],
                                  "TYPING", None)
    BY <1>1, Zenon DEF PutTyping
  <2>2. PICK families : families = [cf EXCEPT !.TYPING[<<RoomParam(w), worker[w].user>>] = entry]
    OBVIOUS
  <2>3. /\ DOMAIN families = DOMAIN cf /\ families.ACCESS_TOKENS = cf.ACCESS_TOKENS
        /\ cf.DEVICE_OTK \subseteq families.DEVICE_OTK /\ families.SERVER_KEYS = cf.SERVER_KEYS
    BY <2>2 DEF TypeInv, Store, EmptyFamilies
  <2>4. PutAndAnswer(w, families, "TYPING", None)
    BY <2>1, <2>2, Zenon
  <2>5. worker[w].pc = "put_typing" /\ worker[w].handler = "typing"
    BY <1>1 DEF PutTyping, Staged, Stages, Stage
  <2>6. "TYPING" \in DOMAIN EmptyFamilies /\ worker[w].pc \in Handles /\ worker[w].pc \notin Claims
    BY <2>5 DEF EmptyFamilies, Handles, Stages, Stage, Claims
  <2>7. worker[w].handler \notin {"login", "versions", "login_flows", "server_keys", "none"}
    BY <2>5
  <2>. QED
    BY <2>3, <2>4, <2>6, <2>7, Putting
<1>2. CASE PutReceipt(w)
  <2>1. PICK entry : PutAndAnswer(w, [cf EXCEPT !.RECEIPTS[<<RoomParam(w), worker[w].user>>] = entry],
                                  "RECEIPTS", None)
    BY <1>2, Zenon DEF PutReceipt
  <2>2. PICK families : families = [cf EXCEPT !.RECEIPTS[<<RoomParam(w), worker[w].user>>] = entry]
    OBVIOUS
  <2>3. /\ DOMAIN families = DOMAIN cf /\ families.ACCESS_TOKENS = cf.ACCESS_TOKENS
        /\ cf.DEVICE_OTK \subseteq families.DEVICE_OTK /\ families.SERVER_KEYS = cf.SERVER_KEYS
    BY <2>2 DEF TypeInv, Store, EmptyFamilies
  <2>4. PutAndAnswer(w, families, "RECEIPTS", None)
    BY <2>1, <2>2, Zenon
  <2>5. worker[w].pc = "put_receipt" /\ worker[w].handler = "receipt"
    <3>1. worker[w].pc = "put_receipt"
      BY <1>2, Zenon DEF PutReceipt
    <3>. QED
      BY <3>1 DEF Staged, Stages, Stage
  <2>6. "RECEIPTS" \in DOMAIN EmptyFamilies /\ worker[w].pc \in Handles /\ worker[w].pc \notin Claims
    BY <2>5 DEF EmptyFamilies, Handles, Stages, Stage, Claims
  <2>7. worker[w].handler \notin {"login", "versions", "login_flows", "server_keys", "none"}
    BY <2>5
  <2>. QED
    BY <2>3, <2>4, <2>6, <2>7, Putting
<1>. QED
  BY <1>1, <1>2

\* Presence is put in the handler's only step.
LEMMA SetsPresence ==
  ASSUME TypeInv, Staged, NEW w \in Workers, UNCHANGED <<pool, now>>, ServeSetPresence(w)
  PROVE  HandlerStep(w)
<1>1. worker[w].pc = "serve" /\ worker[w].handler = "set_presence"
  BY DEF ServeSetPresence, Serving
<1>2. PICK families : families = [cf EXCEPT !.PRESENCE[worker[w].user] = Field(w, "presence")]
  OBVIOUS
<1>3. \/ PutAndAnswer(w, families, "PRESENCE", None)
      \/ \E status \in Statuses : \E body : Replies(w, status, body)
  <2>1. IF Verdict(PresenceList(w)) = 200
        THEN PutAndAnswer(w, [cf EXCEPT !.PRESENCE[worker[w].user] = Field(w, "presence")],
                          "PRESENCE", None)
        ELSE Replies(w, Verdict(PresenceList(w)), None)
    BY DEF ServeSetPresence, Checked, PresenceList, Replies
  <2>2. \/ PutAndAnswer(w, families, "PRESENCE", None)
        \/ Replies(w, Verdict(PresenceList(w)), None)
    BY <1>2, <2>1, Zenon
  <2>. QED
    BY <2>2, PresenceChecks DEF Statuses
<1>4. CASE PutAndAnswer(w, families, "PRESENCE", None)
  <2>3. /\ DOMAIN families = DOMAIN cf /\ families.ACCESS_TOKENS = cf.ACCESS_TOKENS
        /\ cf.DEVICE_OTK \subseteq families.DEVICE_OTK /\ families.SERVER_KEYS = cf.SERVER_KEYS
    BY <1>2 DEF TypeInv, Store, EmptyFamilies
  <2>6. "PRESENCE" \in DOMAIN EmptyFamilies /\ worker[w].pc \in Handles /\ worker[w].pc \notin Claims
    BY <1>1 DEF EmptyFamilies, Handles, Claims
  <2>7. worker[w].handler \notin {"login", "versions", "login_flows", "server_keys", "none"}
    BY <1>1
  <2>. QED
    BY <1>4, <2>3, <2>6, <2>7, Putting
<1>5. CASE \E status \in Statuses : \E body : Replies(w, status, body)
  BY <1>1, <1>5, AnswersAtOnce DEF AnsweredAtOnce
<1>. QED
  BY <1>3, <1>4, <1>5

\* The writers of rooms.
LEMMA Appending ==
  ASSUME TypeInv, Staged, NEW w \in Workers, UNCHANGED <<pool, now>>,
         worker[w].pc = "serve",
         worker[w].handler \notin {"login", "versions", "login_flows", "server_keys", "none"},
         NEW req, req.sender = worker[w].user, NEW body, TryAppend(w, req, body)
  PROVE  HandlerStep(w)
<1>1. worker[w].pc \in Handles /\ worker[w].pc \notin Claims /\ ~CannotRefuse(worker[w])
  BY DEF Handles, Claims, CannotRefuse
<1>2. \/ Replies(w, 403, None)
      \/ /\ minted' = minted + 1 /\ Writes(w, "EVENTS", req.sender)
         /\ Reply(w, 200, body) /\ UNCHANGED cf
  BY DEF TryAppend, Answers, Replies
<1>3. CASE Replies(w, 403, None)
  BY <1>3, AnswersAtOnce DEF AnsweredAtOnce, Statuses
<1>4. CASE /\ minted' = minted + 1 /\ Writes(w, "EVENTS", req.sender)
           /\ Reply(w, 200, body) /\ UNCHANGED cf
  <2>1. Same(w) /\ worker'[w].pc = "respond" /\ worker'[w].status = 200
    BY <1>4, ReplyMeans DEF TypeInv
  <2>2. CannotRefuse(worker'[w]) /\ worker'[w].status \in Statuses
    BY <2>1 DEF CannotRefuse, Statuses
  <2>3. Untouched /\ minted' \in Nat
    BY <1>4 DEF Untouched, TypeInv
  <2>. QED
    BY <1>1, <1>4, <2>1, <2>2, <2>3, Writing
<1>. QED
  BY <1>2, <1>3, <1>4

\* A message: the one the transaction sent before, or an append.
LEMMA Sending ==
  ASSUME TypeInv, Staged, NEW w \in Workers, UNCHANGED <<pool, now>>, ServeSend(w)
  PROVE  HandlerStep(w)
<1>1. PICK req : req = SendRequest(w)
  OBVIOUS
<1>2. worker[w].pc = "serve" /\ worker[w].handler = "send"
  BY DEF ServeSend, Serving
<1>3. \/ \E existing : Answers(w, 200, existing)
      \/ TryAppend(w, SendRequest(w), minted + 1)
      \/ Replies(w, Verdict(<< <<(SendRequest(w)).room # None, 400>>, <<Form(w) = "object", 400>> >>), None)
  BY Zenon DEF ServeSend, Checked, Replies
<1>4. req.sender = worker[w].user
  BY <1>1 DEF SendRequest
<1>5. CASE \E existing : Answers(w, 200, existing)
  BY <1>2, <1>5, AnswersAtOnce DEF AnsweredAtOnce, Answers, Replies, Statuses
<1>6. CASE TryAppend(w, SendRequest(w), minted + 1)
  <2>1. TryAppend(w, req, minted + 1)
    BY <1>1, <1>6, Zenon
  <2>. QED
    BY <1>2, <1>4, <2>1, Appending
<1>7. CASE Replies(w, Verdict(<< <<(SendRequest(w)).room # None, 400>>, <<Form(w) = "object", 400>> >>), None)
  BY <1>2, <1>7, TwoChecks, AnswersAtOnce DEF AnsweredAtOnce, Statuses
<1>. QED
  BY <1>3, <1>5, <1>6, <1>7

\* A user joins or leaves.
LEMMA Joining ==
  ASSUME TypeInv, Staged, NEW w \in Workers, UNCHANGED <<pool, now>>,
         NEW handler \in {"join", "leave"}, NEW m, ServeMembershipSelf(w, handler, m)
  PROVE  HandlerStep(w)
<1>1. PICK req : req = Membership(w, worker[w].user, m)
  OBVIOUS
<1>2. worker[w].pc = "serve" /\ worker[w].handler = handler
  BY DEF ServeMembershipSelf, Serving
<1>3. \/ TryAppend(w, Membership(w, worker[w].user, m), RoomParam(w))
      \/ Replies(w, Verdict(<< <<RoomParam(w) # None, 400>> >>), None)
  BY Zenon DEF ServeMembershipSelf, Checked, Replies
<1>4. req.sender = worker[w].user
  BY <1>1 DEF Membership
<1>5. CASE TryAppend(w, Membership(w, worker[w].user, m), RoomParam(w))
  <2>1. TryAppend(w, req, RoomParam(w))
    BY <1>1, <1>5, Zenon
  <2>. QED
    BY <1>2, <1>4, <2>1, Appending
<1>6. CASE Replies(w, Verdict(<< <<RoomParam(w) # None, 400>> >>), None)
  BY <1>2, <1>6, OneCheck, AnswersAtOnce DEF AnsweredAtOnce, Statuses
<1>. QED
  BY <1>3, <1>5, <1>6

\* A user invites, kicks or bans another.
LEMMA Targeting ==
  ASSUME TypeInv, Staged, NEW w \in Workers, UNCHANGED <<pool, now>>,
         NEW handler \in {"invite", "kick", "ban"}, NEW m, ServeMembershipTarget(w, handler, m)
  PROVE  HandlerStep(w)
<1>1. PICK target : target = Parsed(Field(w, "user_id"), Users)
  OBVIOUS
<1>2. PICK req : req = Membership(w, target, m)
  OBVIOUS
<1>3. worker[w].pc = "serve" /\ worker[w].handler = handler
  BY DEF ServeMembershipTarget, Serving
<1>4. \/ TryAppend(w, Membership(w, target, m), None)
      \/ Replies(w, Verdict(<< <<RoomParam(w) # None, 400>>, <<target # None, 400>> >>), None)
  BY <1>1, Zenon DEF ServeMembershipTarget, Checked, Replies
<1>5. req.sender = worker[w].user
  BY <1>2 DEF Membership
<1>6. CASE TryAppend(w, Membership(w, target, m), None)
  <2>1. TryAppend(w, req, None)
    BY <1>2, <1>6, Zenon
  <2>. QED
    BY <1>3, <1>5, <2>1, Appending
<1>7. CASE Replies(w, Verdict(<< <<RoomParam(w) # None, 400>>, <<target # None, 400>> >>), None)
  BY <1>3, <1>7, TwoChecks, AnswersAtOnce DEF AnsweredAtOnce, Statuses
<1>. QED
  BY <1>4, <1>6, <1>7

\* The events of a new room are a list.
LEMMA CreationIsList ==
  ASSUME NEW req, NEW first, NEW S, req.extra \in Seq(S)
  PROVE  Len(CreationEvents(req, first)) \in Nat
<1>1. PICK create, join, power :
        /\ create = [kind |-> "create", state_key |-> "", content |-> create_content(req.sender)]
        /\ join = [kind |-> "member", state_key |-> req.sender, content |-> MemberContent("join")]
        /\ power = [kind |-> "power_levels", state_key |-> "", content |-> power_levels_content(req.sender)]
  OBVIOUS
<1>2. PICK more : more = [i \in DOMAIN req.extra |->
                            [kind |-> req.extra[i], state_key |-> "", content |-> [value |-> None]]]
  OBVIOUS
<1>3. PICK T : T = {create, join, power} \cup {more[i] : i \in DOMAIN req.extra}
  OBVIOUS
<1>4. PICK head : head = <<create, join, power>>
  OBVIOUS
<1>4a. head \in Seq(T)
  <2>1. create \in T /\ join \in T /\ power \in T
    BY <1>3
  <2>. HIDE <1>1
  <2>. QED
    BY <1>4, <2>1
<1>5. more \in Seq(T)
  <2>1. PICK n : n = Len(req.extra)
    OBVIOUS
  <2>2. DOMAIN req.extra = 1..n /\ n \in Nat
    BY <2>1
  <2>3. more = [i \in 1..n |-> more[i]] /\ \A i \in 1..n : more[i] \in T
    BY <1>2, <1>3, <2>2
  <2>. QED
    BY <2>2, <2>3
<1>6. PICK list : list = head \o more
  OBVIOUS
<1>7. list \in Seq(T)
  BY <1>4a, <1>5, <1>6
<1>8. DOMAIN list = 1..Len(list) /\ Len(list) \in Nat
  BY <1>7
<1>9. PICK n : n = Len(list)
  OBVIOUS
<1>10. PICK events : events = [i \in DOMAIN list |->
         [room |-> req.room, id |-> first + i - 1, sender |-> req.sender,
          kind |-> list[i].kind, state_key |-> list[i].state_key,
          content |-> list[i].content, depth |-> i,
          prev_events |-> IF i = 1 THEN {} ELSE {first + i - 2}, auth_events |-> {}]]
  OBVIOUS
<1>11. CreationEvents(req, first) = events
  BY <1>1, <1>2, <1>4, <1>6, <1>10, Zenon DEF CreationEvents
<1>12. DOMAIN events = 1..n /\ n \in Nat
  BY <1>8, <1>9, <1>10
<1>13. events = [i \in 1..n |-> events[i]]
  BY <1>8, <1>9, <1>10
<1>14. Len(events) = n
  BY <1>12, <1>13
<1>. QED
  BY <1>11, <1>12, <1>14

\* A new room is written in one step.
LEMMA Creating ==
  ASSUME TypeInv, Staged, NEW w \in Workers, UNCHANGED <<pool, now>>, ServeCreateRoom(w)
  PROVE  HandlerStep(w)
<1>1. worker[w].pc = "serve" /\ worker[w].handler = "create_room"
  BY DEF ServeCreateRoom, Serving
<1>2. PICK named : named = Given(w, "name") \o Given(w, "topic")
  OBVIOUS
<1>3. named \in Seq({"name", "topic"})
  <2>2. /\ <<>> \in Seq({"name", "topic"})
        /\ <<"name">> \in Seq({"name", "topic"}) /\ <<"topic">> \in Seq({"name", "topic"})
    OBVIOUS
  <2>1. Given(w, "name") \in Seq({"name", "topic"}) /\ Given(w, "topic") \in Seq({"name", "topic"})
    BY <2>2, Zenon DEF Given
  <2>. QED
    BY <1>2, <2>1
<1>4. \/ Replies(w, Verdict(<< <<OptionalObject(w), 400>> >>), None)
      \/ \E rm : /\ minted' = minted + Len(CreationEvents(
                      [sender |-> worker[w].user, room |-> rm, extra |-> named], minted + 1))
                 /\ Writes(w, "EVENTS", worker[w].user) /\ Reply(w, 200, rm)
                 /\ UNCHANGED <<cf, txns>>
  BY <1>2, Zenon DEF ServeCreateRoom, Checked, Replies
<1>5. CASE Replies(w, Verdict(<< <<OptionalObject(w), 400>> >>), None)
  BY <1>1, <1>5, OneCheck, AnswersAtOnce DEF AnsweredAtOnce, Statuses
<1>6. ASSUME NEW rm, minted' = minted + Len(CreationEvents(
                      [sender |-> worker[w].user, room |-> rm, extra |-> named], minted + 1)),
             Writes(w, "EVENTS", worker[w].user), Reply(w, 200, rm), UNCHANGED <<cf, txns>>
      PROVE  HandlerStep(w)
  <2>1. PICK req : req = [sender |-> worker[w].user, room |-> rm, extra |-> named]
    OBVIOUS
  <2>2. req.extra \in Seq({"name", "topic"})
    BY <1>3, <2>1
  <2>3. Len(CreationEvents(req, minted + 1)) \in Nat
    BY <2>2, CreationIsList
  <2>4. minted' = minted + Len(CreationEvents(req, minted + 1))
    BY <1>6, <2>1, Zenon
  <2>5. Same(w) /\ worker'[w].pc = "respond" /\ worker'[w].status = 200
    BY <1>6, ReplyMeans DEF TypeInv
  <2>6. CannotRefuse(worker'[w]) /\ worker'[w].status \in Statuses
    BY <2>5 DEF CannotRefuse, Statuses
  <2>7. minted' \in Nat
    BY <2>3, <2>4 DEF TypeInv
  <2>8. Untouched
    BY <1>6 DEF Untouched
  <2>9. /\ worker[w].pc \in Handles /\ worker[w].pc \notin Claims /\ ~CannotRefuse(worker[w])
        /\ worker[w].handler \notin {"login", "versions", "login_flows", "server_keys", "none"}
    BY <1>1 DEF Handles, Claims, CannotRefuse
  <2>. QED
    BY <1>6, <2>5, <2>6, <2>7, <2>8, <2>9, Writing
<1>. QED
  BY <1>4, <1>5, <1>6

\* An inbound transaction.
LEMMA Receiving ==
  ASSUME TypeInv, Staged, NEW w \in Workers, UNCHANGED <<pool, now>>, ReceiveTransaction(w)
  PROVE  HandlerStep(w)
<1>1. worker[w].pc = "transaction" /\ worker[w].handler = "federation_send"
  <2>1. worker[w].pc = "transaction"
    BY DEF ReceiveTransaction
  <2>. QED
    BY <2>1 DEF Staged, Stages, Stage
<1>2. /\ worker[w].pc \in Handles /\ worker[w].pc \notin Claims
      /\ worker[w].handler \notin {"login", "versions", "login_flows", "server_keys", "none"}
  BY <1>1 DEF Handles, Stages, Stage, Claims
<1>3. /\ "transaction" \in Stages /\ Stage["transaction"] = "federation_send"
      /\ worker[w].status \in Statuses /\ 200 \in Statuses
  BY DEF Stages, Stage, TypeInv, Statuses
<1>4. CASE Answers(w, 200, worker[w].got.results)
  <2>1. Replies(w, 200, worker[w].got.results)
    BY <1>4 DEF Answers, Replies
  <2>. QED
    BY <1>2, <1>3, <2>1, Answering
<1>5. ASSUME NEW pdu, ReceivePdu(w, pdu)
      PROVE  HandlerStep(w)
  <2>1. \E got : Work(w, "transaction", Tail(worker[w].todo), got)
    BY <1>5, Zenon DEF ReceivePdu
  <2>2. \/ UNCHANGED services
        \/ Writes(w, "EVENTS", pdu.sender) /\ UNCHANGED <<cf, minted>>
    BY <1>5 DEF ReceivePdu, services
  <2>3. Same(w) /\ worker'[w].pc = "transaction" /\ worker'[w].status = worker[w].status
    BY <2>1, WorkMeans DEF TypeInv
  <2>4. CannotRefuse(worker'[w])
    BY <2>3 DEF CannotRefuse
  <2>5. CASE UNCHANGED services
    BY <1>1, <1>2, <1>3, <2>3, <2>4, <2>5, MovingOn
  <2>6. CASE Writes(w, "EVENTS", pdu.sender) /\ UNCHANGED <<cf, minted>>
    <3>1. Untouched /\ minted' \in Nat
      BY <2>6 DEF Untouched, TypeInv
    <3>. QED
      BY <1>1, <1>2, <1>3, <2>3, <2>4, <2>6, <3>1, Writing
  <2>. QED
    BY <2>2, <2>5, <2>6
<1>6. ASSUME NEW edu, ReceiveEdu(w, edu)
      PROVE  HandlerStep(w)
  <2>1. \E got : Work(w, "transaction", Tail(worker[w].todo), got)
    BY <1>6, Zenon DEF ReceiveEdu
  <2>2. \/ UNCHANGED services
        \/ /\ Writes(w, "DEVICE_KEYS", edu.user) /\ UNCHANGED minted
           /\ cf' = [cf EXCEPT !.DEVICE_KEYS[<<edu.user, edu.device>>] = edu.keys]
    BY <1>6 DEF ReceiveEdu, services
  <2>3. Same(w) /\ worker'[w].pc = "transaction" /\ worker'[w].status = worker[w].status
    BY <2>1, WorkMeans DEF TypeInv
  <2>4. CannotRefuse(worker'[w])
    BY <2>3 DEF CannotRefuse
  <2>5. CASE UNCHANGED services
    BY <1>1, <1>2, <1>3, <2>3, <2>4, <2>5, MovingOn
  <2>6. CASE /\ Writes(w, "DEVICE_KEYS", edu.user) /\ UNCHANGED minted
             /\ cf' = [cf EXCEPT !.DEVICE_KEYS[<<edu.user, edu.device>>] = edu.keys]
    <3>1. Untouched /\ minted' \in Nat
      BY <2>6 DEF Untouched, TypeInv, Store, EmptyFamilies
    <3>2. "DEVICE_KEYS" \in DOMAIN EmptyFamilies
      BY DEF EmptyFamilies
    <3>. QED
      BY <1>1, <1>2, <1>3, <2>3, <2>4, <2>6, <3>1, <3>2, Writing
  <2>. QED
    BY <2>2, <2>5, <2>6
<1>. QED
  BY <1>4, <1>5, <1>6 DEF ReceiveTransaction

\* Login.
LEMMA LoginStarts ==
  ASSUME TypeInv, Staged, NEW w \in Workers, UNCHANGED <<pool, now>>, ServeLogin(w)
  PROVE  HandlerStep(w)
<1>1. worker[w].pc = "serve" /\ worker[w].handler = "login"
  BY DEF ServeLogin, Serving
<1>2. IF Verdict(LoginList(w)) = 200
      THEN worker' = [worker EXCEPT ![w].pc = "count", ![w].user = LoginUser(w)] /\ UNCHANGED services
      ELSE Replies(w, Verdict(LoginList(w)), None)
  BY DEF ServeLogin, Checked, LoginList, Replies
<1>3. CASE Verdict(LoginList(w)) # 200
  <2>1. Replies(w, Verdict(LoginList(w)), None) /\ Verdict(LoginList(w)) \in Statuses
    BY <1>2, <1>3, LoginChecks DEF Statuses
  <2>2. worker[w].pc \in Handles /\ worker[w].pc \notin Claims /\ ~CannotRefuse(worker[w])
    BY <1>1 DEF Handles, Claims, CannotRefuse
  <2>. QED
    BY <1>3, <2>1, <2>2, Answering
<1>4. CASE Verdict(LoginList(w)) = 200
  <2>1. worker' = [worker EXCEPT ![w].pc = "count", ![w].user = LoginUser(w)]
    BY <1>2, <1>4
  <2>2. UNCHANGED <<cf, log, txns, effects, minted>>
    BY <1>2, <1>4 DEF services
  <2>3. HasCredentials(w)
    BY <1>4, LoginChecks
  <2>4. LoginUser(w) = full_user_id(Req(w).body.fields.user)
    BY <2>3 DEF HasCredentials, LoginUser, Field
  <2>5. /\ DOMAIN worker' = Workers /\ DOMAIN worker'[w] = ThreadFields
        /\ \A v \in Workers \ {w} : worker'[v] = worker[v]
        /\ worker'[w].conn = worker[w].conn /\ worker'[w].handler = worker[w].handler
        /\ worker'[w].status = worker[w].status
        /\ worker'[w].pc = "count" /\ worker'[w].user = LoginUser(w)
    BY <2>1 DEF TypeInv, Threads, ThreadFields
  <2>6. Moving(w)
    BY <1>1, <2>5 DEF Moving, Handles, Stages, Stage, TypeInv
  <2>7. Tracing(w)
    BY <1>1, <2>2 DEF Tracing, CannotRefuse, Claims
  <2>8. Storing(w)
    BY <2>2 DEF Storing, TypeInv, Store
  <2>9. LoggingIn(w)
    BY <1>1, <2>4, <2>5 DEF LoggingIn
  <2>10. Claiming(w)
    BY <1>1 DEF Claiming, Claims
  <2>. QED
    BY <2>6, <2>7, <2>8, <2>9, <2>10 DEF HandlerStep
<1>. QED
  BY <1>3, <1>4

\* The live tokens are counted and the token is minted for the account's user.
LEMMA TokenCounted ==
  ASSUME TypeInv, Staged, NEW w \in Workers, UNCHANGED <<pool, now>>, CountTokens(w)
  PROVE  HandlerStep(w)
<1>1. worker[w].pc = "count" /\ worker[w].handler = "login"
  <2>1. worker[w].pc = "count"
    BY DEF CountTokens
  <2>. QED
    BY <2>1 DEF Staged, Stages, Stage
<1>2. PICK token : token = mint(worker[w].user, token_count)
  OBVIOUS
<1>3. token[1] = worker[w].user
  BY <1>2 DEF mint
<1>4. Work(w, "token", <<>>, token) /\ UNCHANGED <<cf, log, txns, effects, minted>>
  BY <1>2 DEF CountTokens, services
<1>5. /\ Same(w) /\ worker'[w].pc = "token" /\ worker'[w].got = token
      /\ worker'[w].status = worker[w].status
  BY <1>4, WorkMeans DEF TypeInv
<1>6. Moving(w)
  BY <1>1, <1>5 DEF Moving, Same, Handles, Stages, Stage, TypeInv
<1>7. Tracing(w)
  BY <1>1, <1>4 DEF Tracing, CannotRefuse, Claims
<1>8. Storing(w)
  BY <1>4 DEF Storing, TypeInv, Store
<1>9. LoggingIn(w)
  BY <1>1, <1>3, <1>5 DEF LoggingIn, Same
<1>10. Claiming(w)
  BY <1>1 DEF Claiming, Claims
<1>. QED
  BY <1>6, <1>7, <1>8, <1>9, <1>10 DEF HandlerStep

\* The token is put for that user and answered.
LEMMA TokenPut ==
  ASSUME TypeInv, Staged, NEW w \in Workers, UNCHANGED <<pool, now>>, PutToken(w)
  PROVE  HandlerStep(w)
<1>1. worker[w].pc = "token" /\ worker[w].handler = "login"
  <2>1. worker[w].pc = "token"
    BY DEF PutToken
  <2>. QED
    BY <2>1 DEF Staged, Stages, Stage
<1>2. /\ cf' = WithToken(worker[w].got, worker[w].user) /\ UNCHANGED minted
      /\ Writes(w, "ACCESS_TOKENS", worker[w].user) /\ Reply(w, 200, worker[w].got)
  BY DEF PutToken, PutAndAnswer
<1>3. /\ Same(w) /\ worker'[w].pc = "respond" /\ worker'[w].status = 200
      /\ worker'[w].body = worker[w].got
  BY <1>2, ReplyMeans DEF TypeInv
<1>4. Moving(w)
  BY <1>1, <1>3 DEF Moving, Same, Handles, Stages, Stage, Statuses
<1>5. Tracing(w)
  <2>1. PICK entry : entry = [conn |-> worker[w].conn, handler |-> worker[w].handler,
                              family |-> "ACCESS_TOKENS", owner |-> worker[w].user]
    OBVIOUS
  <2>2. effects' = effects \cup {entry}
    BY <1>2, <2>1 DEF Writes
  <2>3. CannotRefuse(worker'[w])
    BY <1>3 DEF CannotRefuse
  <2>4. NewEffect(w, entry)
    BY <1>1, <2>1, <2>3 DEF NewEffect, EmptyFamilies
  <2>. QED
    BY <2>2, <2>3, <2>4 DEF Tracing
<1>6. Storing(w)
  <2>1. PICK t0 : t0 = [token |-> worker[w].got, user |-> worker[w].user]
    OBVIOUS
  <2>2. cf' = [cf EXCEPT !.ACCESS_TOKENS = {t \in @ : t.token # worker[w].got} \cup {t0}]
    BY <1>2, <2>1 DEF WithToken
  <2>3. /\ DOMAIN cf' = DOMAIN EmptyFamilies /\ cf'.DEVICE_OTK = cf.DEVICE_OTK
        /\ cf'.SERVER_KEYS = cf.SERVER_KEYS
        /\ cf'.ACCESS_TOKENS = {t \in cf.ACCESS_TOKENS : t.token # worker[w].got} \cup {t0}
    BY <2>2 DEF TypeInv, Store, EmptyFamilies
  <2>. QED
    BY <1>1, <1>2, <2>1, <2>3 DEF Storing, TypeInv
<1>7. LoggingIn(w)
  BY <1>1, <1>3 DEF LoggingIn
<1>8. Claiming(w)
  BY <1>1 DEF Claiming, Claims
<1>. QED
  BY <1>4, <1>5, <1>6, <1>7, <1>8 DEF HandlerStep

\* The second step of a sync.
LEMMA SyncEnds ==
  ASSUME TypeInv, Staged, NEW w \in Workers, UNCHANGED <<pool, now>>, SyncPresence(w)
  PROVE  HandlerStep(w)
<1>1. worker[w].pc = "presence" /\ worker[w].handler = "sync"
  <2>1. worker[w].pc = "presence"
    BY DEF SyncPresence
  <2>. QED
    BY <2>1 DEF Staged, Stages, Stage
<1>2. PICK body : Replies(w, 200, body)
  BY Zenon DEF SyncPresence, Answers, Replies
<1>3. worker[w].pc \in Handles /\ worker[w].pc \notin Claims /\ 200 \in Statuses
  BY <1>1 DEF Handles, Stages, Stage, Claims, Statuses
<1>4. ~CannotRefuse(worker[w])
  BY <1>1 DEF CannotRefuse, Claims
<1>. QED
  BY <1>1, <1>2, <1>3, <1>4, Answering

\* Device keys and one-time keys.
LEMMA KeysUploaded ==
  ASSUME TypeInv, Staged, NEW w \in Workers, UNCHANGED <<pool, now>>, ServeKeysUpload(w)
  PROVE  HandlerStep(w)
<1>1. worker[w].pc = "serve" /\ worker[w].handler = "keys_upload"
  BY DEF ServeKeysUpload, Serving
<1>2. PICK keys : keys = Field(w, "device_keys")
  OBVIOUS
<1>3. \/ Replies(w, Verdict(<< <<OptionalObject(w), 400>>, <<~Forged(w), 400>> >>), None)
      \/ /\ \E otks : Work(w, "one_time_keys", otks, None)
         /\ \/ UNCHANGED <<cf, effects>>
            \/ \E device : /\ cf' = [cf EXCEPT !.DEVICE_KEYS[<<worker[w].user, device>>] = keys]
                           /\ Writes(w, "DEVICE_KEYS", worker[w].user)
         /\ UNCHANGED <<log, txns, minted>>
  BY <1>2, Zenon DEF ServeKeysUpload, Checked, Replies
<1>4. CASE Replies(w, Verdict(<< <<OptionalObject(w), 400>>, <<~Forged(w), 400>> >>), None)
  BY <1>1, <1>4, TwoChecks, AnswersAtOnce DEF AnsweredAtOnce, Statuses
<1>5. ASSUME NEW otks, Work(w, "one_time_keys", otks, None), UNCHANGED <<log, txns, minted>>,
             \/ UNCHANGED <<cf, effects>>
             \/ \E device : /\ cf' = [cf EXCEPT !.DEVICE_KEYS[<<worker[w].user, device>>] = keys]
                            /\ Writes(w, "DEVICE_KEYS", worker[w].user)
      PROVE  HandlerStep(w)
  <2>1. Same(w) /\ worker'[w].pc = "one_time_keys" /\ worker'[w].status = worker[w].status
    BY <1>5, WorkMeans DEF TypeInv
  <2>2. CannotRefuse(worker'[w])
    BY <2>1 DEF CannotRefuse
  <2>3. /\ "one_time_keys" \in Stages /\ Stage["one_time_keys"] = worker[w].handler
        /\ worker[w].status \in Statuses
        /\ worker[w].pc \in Handles /\ worker[w].pc \notin Claims
        /\ worker[w].handler \notin {"login", "versions", "login_flows", "server_keys", "none"}
    BY <1>1 DEF Stages, Stage, TypeInv, Handles, Claims
  <2>4. CASE UNCHANGED <<cf, effects>>
    <3>1. UNCHANGED services
      BY <1>5, <2>4 DEF services
    <3>. QED
      BY <2>1, <2>2, <2>3, <3>1, MovingOn
  <2>5. ASSUME NEW device, cf' = [cf EXCEPT !.DEVICE_KEYS[<<worker[w].user, device>>] = keys],
               Writes(w, "DEVICE_KEYS", worker[w].user)
        PROVE  HandlerStep(w)
    <3>1. Untouched /\ minted' \in Nat
      BY <1>5, <2>5 DEF Untouched, TypeInv, Store, EmptyFamilies
    <3>2. "DEVICE_KEYS" \in DOMAIN EmptyFamilies
      BY DEF EmptyFamilies
    <3>. QED
      BY <2>1, <2>2, <2>3, <2>5, <3>1, <3>2, Writing
  <2>. QED
    BY <1>5, <2>4, <2>5
<1>. QED
  BY <1>3, <1>4, <1>5

\* The one-time keys are put one by one and then counted.
LEMMA OneTimeKeysStored ==
  ASSUME TypeInv, Staged, NEW w \in Workers, UNCHANGED <<pool, now>>, StoreOneTimeKeys(w)
  PROVE  HandlerStep(w)
<1>1. worker[w].pc = "one_time_keys" /\ worker[w].handler = "keys_upload"
  <2>1. worker[w].pc = "one_time_keys"
    BY DEF StoreOneTimeKeys
  <2>. QED
    BY <2>1 DEF Staged, Stages, Stage
<1>2. /\ "one_time_keys" \in Stages /\ Stage["one_time_keys"] = worker[w].handler
      /\ worker[w].status \in Statuses /\ 200 \in Statuses
      /\ worker[w].pc \in Handles /\ worker[w].pc \notin Claims
      /\ worker[w].handler \notin {"login", "versions", "login_flows", "server_keys", "none"}
  BY <1>1 DEF Stages, Stage, TypeInv, Handles, Claims, Statuses
<1>3. \/ \E body : Replies(w, 200, body)
      \/ \E key, todo :
           /\ cf' = [cf EXCEPT !.DEVICE_OTK = @ \cup {key}]
           /\ Writes(w, "DEVICE_OTK", worker[w].user)
           /\ Work(w, "one_time_keys", todo, None)
           /\ UNCHANGED <<log, txns, minted>>
  BY Zenon DEF StoreOneTimeKeys, Answers, Replies
<1>4. ASSUME NEW body, Replies(w, 200, body)
      PROVE  HandlerStep(w)
  BY <1>2, <1>4, Answering
<1>5. ASSUME NEW key, NEW todo, cf' = [cf EXCEPT !.DEVICE_OTK = @ \cup {key}],
             Writes(w, "DEVICE_OTK", worker[w].user), Work(w, "one_time_keys", todo, None),
             UNCHANGED <<log, txns, minted>>
      PROVE  HandlerStep(w)
  <2>1. Same(w) /\ worker'[w].pc = "one_time_keys" /\ worker'[w].status = worker[w].status
    BY <1>5, WorkMeans DEF TypeInv
  <2>2. CannotRefuse(worker'[w])
    BY <2>1 DEF CannotRefuse
  <2>3. Untouched /\ minted' \in Nat
    BY <1>5 DEF Untouched, TypeInv, Store, EmptyFamilies
  <2>4. "DEVICE_OTK" \in DOMAIN EmptyFamilies
    BY DEF EmptyFamilies
  <2>. QED
    BY <1>2, <1>5, <2>1, <2>2, <2>3, <2>4, Writing
<1>. QED
  BY <1>3, <1>4, <1>5

\* A query reads one user's keys at a time.
LEMMA KeysQueried ==
  ASSUME TypeInv, Staged, NEW w \in Workers, UNCHANGED <<pool, now>>, QueryKeys(w)
  PROVE  HandlerStep(w)
<1>1. worker[w].pc = "query" /\ worker[w].handler = "keys_query"
  <2>1. worker[w].pc = "query"
    BY DEF QueryKeys
  <2>. QED
    BY <2>1 DEF Staged, Stages, Stage
<1>2. /\ "query" \in Stages /\ Stage["query"] = worker[w].handler
      /\ worker[w].status \in Statuses /\ 200 \in Statuses
      /\ worker[w].pc \in Handles /\ worker[w].pc \notin Claims
      /\ worker[w].handler # "login" /\ ~CannotRefuse(worker[w])
  BY <1>1 DEF Stages, Stage, TypeInv, Handles, Claims, Statuses, CannotRefuse
<1>3. \/ \E body : Replies(w, 200, body)
      \/ \E todo, got : Work(w, "query", todo, got) /\ UNCHANGED services
  BY Zenon DEF QueryKeys, Answers, Replies
<1>4. ASSUME NEW body, Replies(w, 200, body)
      PROVE  HandlerStep(w)
  BY <1>2, <1>4, Answering
<1>5. ASSUME NEW todo, NEW got, Work(w, "query", todo, got), UNCHANGED services
      PROVE  HandlerStep(w)
  <2>1. Same(w) /\ worker'[w].pc = "query" /\ worker'[w].status = worker[w].status
    BY <1>5, WorkMeans DEF TypeInv
  <2>. QED
    BY <1>2, <1>5, <2>1, MovingOn
<1>. QED
  BY <1>3, <1>4, <1>5

\* Claims: what is scanned is kept in hand, and what is deleted was in hand.
LEMMA ClaimScanned ==
  ASSUME TypeInv, Staged, NEW w \in Workers, UNCHANGED <<pool, now>>, ClaimScan(w)
  PROVE  HandlerStep(w)
<1>1. worker[w].pc = "claim" /\ worker[w].handler = "keys_claim"
  <2>1. worker[w].pc = "claim"
    BY DEF ClaimScan
  <2>. QED
    BY <2>1 DEF Staged, Stages, Stage
<1>2. /\ Claims \subseteq Stages /\ \A pc \in Claims : Stage[pc] = worker[w].handler
      /\ worker[w].status \in Statuses /\ 200 \in Statuses
      /\ worker[w].pc \in Handles /\ worker[w].handler # "login"
  BY <1>1 DEF Stages, Stage, TypeInv, Handles, Claims, Statuses
<1>3. \/ Replies(w, 200, worker[w].got)
      \/ \E todo : Work(w, "claim", todo, worker[w].got) /\ UNCHANGED services
      \/ \E todo, found : Work(w, "claim_delete", todo, worker[w].got \cup {found}) /\ UNCHANGED services
  BY Zenon DEF ClaimScan, Answers, Replies
<1>4. CASE Replies(w, 200, worker[w].got)
  BY <1>2, <1>4, Answering
<1>5. ASSUME NEW pc \in Claims, NEW todo, NEW got, worker[w].got \subseteq got,
             Work(w, pc, todo, got), UNCHANGED services
      PROVE  HandlerStep(w)
  <2>1. Same(w) /\ worker'[w].pc = pc /\ worker'[w].got = got /\ worker'[w].status = worker[w].status
    BY <1>5, WorkMeans DEF TypeInv
  <2>2. CannotRefuse(worker'[w])
    BY <2>1 DEF CannotRefuse
  <2>. QED
    BY <1>2, <1>5, <2>1, <2>2, MovingOn
<1>6. "claim" \in Claims /\ "claim_delete" \in Claims
  BY DEF Claims
<1>. QED
  BY <1>3, <1>4, <1>5, <1>6

\* The claim deletes no key but those it has in hand.
LEMMA ClaimDeleted ==
  ASSUME TypeInv, Staged, NEW w \in Workers, UNCHANGED <<pool, now>>, ClaimDelete(w)
  PROVE  HandlerStep(w)
<1>1. worker[w].pc = "claim_delete" /\ worker[w].handler = "keys_claim"
  <2>1. worker[w].pc = "claim_delete"
    BY DEF ClaimDelete
  <2>. QED
    BY <2>1 DEF Staged, Stages, Stage
<1>2. PICK claim : claim = Head(worker[w].todo)
  OBVIOUS
<1>3. /\ cf' = [cf EXCEPT !.DEVICE_OTK = @ \ Deletes(w, claim)]
      /\ Writes(w, "DEVICE_OTK", claim.user) /\ UNCHANGED minted
      /\ \E todo : Work(w, "claim", todo, worker[w].got)
  BY <1>2 DEF ClaimDelete
<1>4. /\ Same(w) /\ worker'[w].pc = "claim" /\ worker'[w].got = worker[w].got
      /\ worker'[w].status = worker[w].status
  BY <1>3, WorkMeans DEF TypeInv
<1>5. Moving(w)
  BY <1>1, <1>4 DEF Moving, Same, Handles, Stages, Stage, TypeInv
<1>6. Tracing(w)
  <2>1. PICK entry : entry = [conn |-> worker[w].conn, handler |-> worker[w].handler,
                              family |-> "DEVICE_OTK", owner |-> claim.user]
    OBVIOUS
  <2>2. effects' = effects \cup {entry}
    BY <1>3, <2>1 DEF Writes
  <2>3. CannotRefuse(worker'[w])
    BY <1>4 DEF CannotRefuse, Claims
  <2>4. NewEffect(w, entry)
    BY <1>1, <2>1, <2>3 DEF NewEffect, EmptyFamilies
  <2>. QED
    BY <2>2, <2>3, <2>4 DEF Tracing
<1>7. Storing(w)
  <2>1. /\ DOMAIN cf' = DOMAIN EmptyFamilies /\ cf'.ACCESS_TOKENS = cf.ACCESS_TOKENS
        /\ cf'.DEVICE_OTK = cf.DEVICE_OTK \ Deletes(w, claim)
    BY <1>3 DEF TypeInv, Store, EmptyFamilies
  <2>2. \A key \in Deletes(w, claim) : key \in worker[w].got
    BY DEF Deletes
  <2>. QED
    BY <1>1, <1>3, <2>1, <2>2 DEF Storing, TypeInv
<1>8. LoggingIn(w)
  BY <1>1 DEF LoggingIn
<1>9. Claiming(w)
  BY <1>4 DEF Claiming, Claims
<1>. QED
  BY <1>5, <1>6, <1>7, <1>8, <1>9 DEF HandlerStep

\* Cross-signing keys, the only writes that a refusal may follow.
LEMMA SigningKeysStored ==
  ASSUME TypeInv, Staged, NEW w \in Workers, UNCHANGED <<pool, now>>, StoreSigningKeys(w)
  PROVE  HandlerStep(w)
<1>1. worker[w].pc = "signing" /\ worker[w].handler = "device_signing_upload"
  <2>1. worker[w].pc = "signing"
    BY DEF StoreSigningKeys
  <2>. QED
    BY <2>1 DEF Staged, Stages, Stage
<1>2. /\ "signing" \in Stages /\ Stage["signing"] = worker[w].handler
      /\ worker[w].status \in Statuses /\ 200 \in Statuses /\ 400 \in Statuses
      /\ worker[w].pc \in Handles /\ worker[w].pc \notin Claims
      /\ worker[w].handler \notin {"login", "versions", "login_flows", "server_keys", "none"}
      /\ ~CannotRefuse(worker[w])
  BY <1>1 DEF Stages, Stage, TypeInv, Handles, Claims, Statuses, CannotRefuse
<1>3. \/ Replies(w, 200, None) \/ Replies(w, 400, None)
      \/ \E usage, key, todo :
           /\ cf' = [cf EXCEPT !.CROSS_SIGNING[<<worker[w].user, usage>>] = key]
           /\ Writes(w, "CROSS_SIGNING", worker[w].user)
           /\ Work(w, "signing", todo, None)
           /\ UNCHANGED <<log, txns, minted>>
  BY Zenon DEF StoreSigningKeys, Answers, Replies
<1>4. CASE Replies(w, 200, None) \/ Replies(w, 400, None)
  BY <1>2, <1>4, Answering
<1>5. ASSUME NEW usage, NEW key, NEW todo,
             cf' = [cf EXCEPT !.CROSS_SIGNING[<<worker[w].user, usage>>] = key],
             Writes(w, "CROSS_SIGNING", worker[w].user), Work(w, "signing", todo, None),
             UNCHANGED <<log, txns, minted>>
      PROVE  HandlerStep(w)
  <2>1. Same(w) /\ worker'[w].pc = "signing" /\ worker'[w].status = worker[w].status
    BY <1>5, WorkMeans DEF TypeInv
  <2>2. Untouched /\ minted' \in Nat
    BY <1>5 DEF Untouched, TypeInv, Store, EmptyFamilies
  <2>3. "CROSS_SIGNING" \in DOMAIN EmptyFamilies
    BY DEF EmptyFamilies
  <2>. QED
    BY <1>2, <1>5, <2>1, <2>2, <2>3, Writing
<1>. QED
  BY <1>3, <1>4, <1>5

\* Every step of every handler does as HandlerStep says.
LEMMA HandleIsStep ==
  ASSUME TypeInv, Staged, NEW w \in Workers, Handle(w)
  PROVE  HandlerStep(w)
<1>1. UNCHANGED <<pool, now>>
  BY DEF Handle
<1>2. CASE \/ ServeVersions(w) \/ ServeLoginFlows(w) \/ ServeWhoami(w) \/ ServeServerKeys(w)
           \/ ServeNothing(w) \/ ServeFederationEvent(w)
  BY <1>1, <1>2, PlainReads, AnswersAtOnce
<1>3. CASE \/ ServeRoomState(w) \/ ServeMembers(w) \/ ServeJoinedMembers(w) \/ ServeStateEvent(w)
           \/ ServeMessages(w) \/ ServeEvent(w) \/ ServeFederationState(w)
           \/ ServeFederationStateIds(w) \/ ServeFederationBackfill(w)
  BY <1>1, <1>3, RoomReads, AnswersAtOnce
<1>4. CASE ServeGetPresence(w) \/ ServeUserDevices(w)
  BY <1>1, <1>4, UserReads, AnswersAtOnce
<1>5. CASE \/ ServeSync(w) \/ ServeKeysQuery(w) \/ ServeKeysClaim(w) \/ ServeDeviceSigning(w)
           \/ ServeFederationSend(w) \/ ServeTyping(w) \/ ServeReceipt(w)
  BY <1>1, <1>5, FirstSteps
<1>6. CASE ServeSend(w) \/ ServeCreateRoom(w)
  BY <1>1, <1>6, Sending, Creating
<1>7. CASE ServeMembershipSelf(w, "join", "join") \/ ServeMembershipSelf(w, "leave", "leave")
  BY <1>1, <1>7, Joining
<1>8. CASE \/ ServeMembershipTarget(w, "invite", "invite") \/ ServeMembershipTarget(w, "kick", "leave")
           \/ ServeMembershipTarget(w, "ban", "ban")
  BY <1>1, <1>8, Targeting
<1>9. CASE ServeLogin(w) \/ CountTokens(w) \/ PutToken(w)
  BY <1>1, <1>9, LoginStarts, TokenCounted, TokenPut
<1>10. CASE PutTyping(w) \/ PutReceipt(w) \/ ServeSetPresence(w)
  BY <1>1, <1>10, Puts, SetsPresence
<1>11. CASE ReceiveTransaction(w) \/ SyncPresence(w)
  BY <1>1, <1>11, Receiving, SyncEnds
<1>12. CASE ServeKeysUpload(w) \/ StoreOneTimeKeys(w) \/ QueryKeys(w)
  BY <1>1, <1>12, KeysUploaded, OneTimeKeysStored, KeysQueried
<1>13. CASE ClaimScan(w) \/ ClaimDelete(w) \/ StoreSigningKeys(w)
  BY <1>1, <1>13, ClaimScanned, ClaimDeleted, SigningKeysStored
<1>. QED
  BY <1>2, <1>3, <1>4, <1>5, <1>6, <1>7, <1>8, <1>9, <1>10, <1>11, <1>12, <1>13 DEF Handle

\* The handler of /key/v2/server answers with the document of that moment.
Publishing(w) ==
  worker[w].handler = "server_keys" =>
    worker'[w].pc = "respond" /\ worker'[w].body = server_keys /\ UNCHANGED <<cf, now>>

\* No other handler answers for it.
LEMMA HandlePublishes ==
  ASSUME TypeInv, Staged, NEW w \in Workers, Handle(w)
  PROVE  Publishing(w)
<1>. SUFFICES ASSUME worker[w].handler = "server_keys"
              PROVE  worker'[w].pc = "respond" /\ worker'[w].body = server_keys /\ UNCHANGED <<cf, now>>
  BY DEF Publishing
<1>1. worker[w].pc \notin Stages
  BY DEF Staged, Stages, Stage
<1>2. \A handler : handler # "server_keys" => ~Serving(w, handler)
  BY DEF Serving
<1>3. ~(ServeVersions(w) \/ ServeLoginFlows(w) \/ ServeWhoami(w) \/ ServeNothing(w) \/ ServeFederationEvent(w))
  BY <1>2, Zenon DEF ServeVersions, ServeLoginFlows, ServeWhoami, ServeNothing, ServeFederationEvent
<1>4. ~(ServeGetPresence(w) \/ ServeUserDevices(w))
  BY <1>2 DEF ServeGetPresence, ServeUserDevices, ServeUser
<1>5. ~(\/ ServeRoomState(w) \/ ServeMembers(w) \/ ServeJoinedMembers(w) \/ ServeStateEvent(w)
        \/ ServeMessages(w) \/ ServeEvent(w) \/ ServeFederationState(w)
        \/ ServeFederationStateIds(w) \/ ServeFederationBackfill(w))
  BY <1>2 DEF ServeRoomState, ServeMembers, ServeJoinedMembers, ServeStateEvent, ServeMessages, ServeEvent,
              ServeFederationState, ServeFederationStateIds, ServeFederationBackfill, ServeRoom
<1>6. ~(ServeSend(w) \/ ServeCreateRoom(w) \/ ServeFederationSend(w) \/ ServeLogin(w))
  BY <1>2, Zenon DEF ServeSend, ServeCreateRoom, ServeFederationSend, ServeLogin
<1>7. /\ ~ServeMembershipSelf(w, "join", "join") /\ ~ServeMembershipSelf(w, "leave", "leave")
      /\ ~ServeMembershipTarget(w, "invite", "invite") /\ ~ServeMembershipTarget(w, "kick", "leave")
      /\ ~ServeMembershipTarget(w, "ban", "ban")
  BY <1>2 DEF ServeMembershipSelf, ServeMembershipTarget
<1>8. ~(ServeTyping(w) \/ ServeReceipt(w) \/ ServeSetPresence(w) \/ ServeSync(w))
  BY <1>2, Zenon DEF ServeTyping, ServeReceipt, ServeSetPresence, ServeSync
<1>9. ~(ServeKeysUpload(w) \/ ServeKeysQuery(w) \/ ServeKeysClaim(w) \/ ServeDeviceSigning(w))
  BY <1>2, Zenon DEF ServeKeysUpload, ServeKeysQuery, ServeKeysClaim, ServeDeviceSigning
<1>10. ~(\/ ReceiveTransaction(w) \/ CountTokens(w) \/ PutToken(w) \/ PutTyping(w) \/ PutReceipt(w)
         \/ SyncPresence(w))
  <2>1. \A pc \in {"transaction", "count", "token", "put_typing", "put_receipt", "presence"} : worker[w].pc # pc
    BY <1>1 DEF Stages, Stage
  <2>. QED
    BY <2>1, Zenon DEF ReceiveTransaction, CountTokens, PutToken, PutTyping, PutReceipt, SyncPresence
<1>11. ~(\/ StoreOneTimeKeys(w) \/ QueryKeys(w) \/ ClaimScan(w) \/ ClaimDelete(w) \/ StoreSigningKeys(w))
  <2>1. \A pc \in {"one_time_keys", "query", "claim", "claim_delete", "signing"} : worker[w].pc # pc
    BY <1>1 DEF Stages, Stage
  <2>. QED
    BY <2>1, Zenon DEF StoreOneTimeKeys, QueryKeys, ClaimScan, ClaimDelete, StoreSigningKeys
<1>12. ServeServerKeys(w) /\ UNCHANGED now
  BY <1>3, <1>4, <1>5, <1>6, <1>7, <1>8, <1>9, <1>10, <1>11 DEF Handle
<1>13. Reply(w, 200, server_keys) /\ UNCHANGED cf
  BY <1>12 DEF ServeServerKeys, Answers, services
<1>. QED
  BY <1>12, <1>13, ReplyMeans DEF TypeInv

-----------------------------------------------------------------------------
(* The gate: whom a request speaks for.                                    *)

Public == {"versions", "login_flows", "login", "server_keys", "none"}

\* What the gate asks for before a handler is reached.
Guarded(endpoint) ==
  /\ endpoint.auth \in {"none", "appservice", "access_token", "federation"}
  /\ endpoint.auth \in {"none", "appservice"} => endpoint.handler \in Public
  /\ endpoint.auth = "access_token" => endpoint.handler # "federation_send"

\* Whatever an endpoint is, the function that makes it guards it.
LEMMA EndpointsAreGuarded ==
  /\ \A method, path : \A handler \in Public :
       /\ Guarded(cs_public(method, handler, path))
       /\ Guarded(ss_public(method, handler, path))
       /\ Guarded(as_(method, handler, path))
  /\ \A method, handler, path : handler # "federation_send" =>
       Guarded(cs(method, handler, path)) /\ Guarded(in_room(method, handler, path))
  /\ \A method, handler, path : Guarded(ss(method, handler, path))
<1>1. \A method, handler, path : handler # "federation_send" => Guarded(cs(method, handler, path))
  BY DEF Guarded, cs, Endpoint
<1>2. \A method, path : \A handler \in Public :
        /\ Guarded(cs_public(method, handler, path))
        /\ Guarded(ss_public(method, handler, path))
        /\ Guarded(as_(method, handler, path))
  BY DEF Guarded, cs_public, ss_public, as_, Endpoint, Public
<1>3. \A method, handler, path : Guarded(ss(method, handler, path))
  BY DEF Guarded, ss, Endpoint
<1>4. \A method, handler, path : handler # "federation_send" => Guarded(in_room(method, handler, path))
  <2>1. \A method, handler, path : \E longer : in_room(method, handler, path) = cs(method, handler, longer)
    BY Zenon DEF in_room
  <2>. QED
    BY <1>1, <2>1
<1>. QED
  BY <1>1, <1>2, <1>3, <1>4

\* Every endpoint of the surface is guarded (SURFACE of gm-http/src/lib.rs).
LEMMA SurfaceIsGuarded == \A i \in DOMAIN SURFACE : i \in Nat /\ Guarded(SURFACE[i])
<1>1. PICK list : list = SURFACE
  OBVIOUS
<1>2. DOMAIN list = 1..36
  BY <1>1, SMTT(60) DEF SURFACE
<1>3. \A i \in 1..36 : Guarded(list[i])
  BY <1>1, EndpointsAreGuarded, SMTT(60) DEF SURFACE, Public
<1>. QED
  BY <1>1, <1>2, <1>3

\* The endpoint a request is resolved to is one of them.
LEMMA ResolveMeans ==
  ASSUME NEW method, NEW path, resolve(method, path).result = "found"
  PROVE  Guarded(resolve(method, path).endpoint)
<1>1. PICK found : found = {i \in DOMAIN SURFACE :
                              match_template(SURFACE[i].path, path) /\ SURFACE[i].method = method}
  OBVIOUS
<1>2. found = {i \in {j \in DOMAIN SURFACE : match_template(SURFACE[j].path, path)} :
                 SURFACE[i].method = method}
  BY <1>1
<1>3. CASE found # {}
  <2>1. found \subseteq DOMAIN SURFACE
    BY <1>1
  <2>2. Min(found) \in found
    BY <1>3, <2>1, SurfaceIsGuarded, MinIsIn
  <2>3. PICK endpoint : endpoint = SURFACE[Min(found)]
    OBVIOUS
  <2>4. resolve(method, path) = [result |-> "found", endpoint |-> endpoint,
                                 params |-> captured(endpoint.path, path)]
    BY <1>2, <1>3, <2>3, Zenon DEF resolve
  <2>5. Guarded(endpoint)
    BY <2>1, <2>2, <2>3, SurfaceIsGuarded
  <2>. QED
    BY <2>4, <2>5
<1>4. CASE found = {}
  <2>1. \/ \E allow : resolve(method, path) = [result |-> "method_not_allowed", allow |-> allow]
        \/ resolve(method, path) = [result |-> "not_found"]
    BY <1>2, <1>4, Zenon DEF resolve
  <2>. QED
    BY <2>1
<1>. QED
  BY <1>3, <1>4

\* Every token names its user.
TokensNameUsers == \A t \in cf.ACCESS_TOKENS : t.token[1] = t.user

\* Whom the handler acts for: with a bearer token, only the token's user.
Speaks(handler, user, authorization) ==
  \/ bearer(authorization) = None
  \/ handler \in Public
  \/ handler # "federation_send" /\ user = bearer(authorization)[1]

\* The user a live token stands for is the one it names.
LEMMA TokenMeans ==
  ASSUME TokensNameUsers, NEW token, user_for(token) # None
  PROVE  user_for(token) = token[1]
<1>1. PICK live : live = {t \in cf.ACCESS_TOKENS : t.token = token}
  OBVIOUS
<1>2. live # {} /\ user_for(token) = (CHOOSE t \in live : TRUE).user
  BY <1>1 DEF user_for
<1>3. (CHOOSE t \in live : TRUE) \in live
  BY <1>2
<1>. QED
  BY <1>1, <1>2, <1>3 DEF TokensNameUsers

\* With a bearer token, a request that is not denied speaks for the token's user.
LEMMA AuthenticationMeans ==
  ASSUME TokensNameUsers, NEW req, NEW endpoint, Guarded(endpoint),
         authenticate(req, endpoint.auth) # "denied"
  PROVE  Speaks(endpoint.handler, authenticate(req, endpoint.auth), req.authorization)
<1>1. CASE endpoint.auth \in {"none", "appservice"}
  BY <1>1 DEF Guarded, Speaks
<1>2. CASE endpoint.auth = "access_token"
  <2>1. PICK token : token = access_token(req.authorization, req.query)
    OBVIOUS
  <2>2. authenticate(req, endpoint.auth) = IF token = None THEN "denied" ELSE OrElse(user_for(token), "denied")
    BY <1>2, <2>1 DEF authenticate
  <2>3. user_for(token) # None /\ authenticate(req, endpoint.auth) = user_for(token)
    BY <2>2 DEF OrElse
  <2>4. user_for(token) = token[1]
    BY <2>3, TokenMeans
  <2>5. bearer(req.authorization) # None => token = bearer(req.authorization)
    BY <2>1 DEF access_token
  <2>. QED
    BY <1>2, <2>3, <2>4, <2>5 DEF Guarded, Speaks
<1>3. CASE endpoint.auth = "federation"
  <2>1. verify_federation_request(req.method, req.path, req.body, req.authorization)
    BY <1>3 DEF authenticate
  <2>2. strip_scheme(req.authorization)
    BY <2>1 DEF verify_federation_request, parse
  <2>3. bearer(req.authorization) = None
    BY <2>2 DEF strip_scheme, bearer
  <2>. QED
    BY <2>3 DEF Speaks
<1>. QED
  BY <1>1, <1>2, <1>3 DEF Guarded

\* The gate refuses, or lets the request through to its handler.
Admits(w, endpoint) ==
  /\ Guarded(endpoint) /\ authenticate(Req(w), endpoint.auth) # "denied"
  /\ DOMAIN worker' = Workers /\ DOMAIN worker'[w] = ThreadFields
  /\ \A v \in Workers \ {w} : worker'[v] = worker[v]
  /\ worker'[w].conn = worker[w].conn /\ worker'[w].status = worker[w].status
  /\ worker'[w].pc = "serve" /\ worker'[w].handler = endpoint.handler
  /\ worker'[w].user = authenticate(Req(w), endpoint.auth)

Opens(w, route) ==
  \/ /\ route.result = "found"
     /\ \E user \in {authenticate(Req(w), route.endpoint.auth)} :
          IF user = "denied" THEN Reply(w, 401, None)
          ELSE worker' = [worker EXCEPT ![w] =
                 [@ EXCEPT !.pc = "serve", !.user = user, !.params = route.params,
                           !.handler = route.endpoint.handler]]
  \/ route.result = "method_not_allowed" /\ Reply(w, 405, route.allow)
  \/ route.result = "not_found" /\ Reply(w, 404, None)

\* What the gate does: it refuses, or admits the request to a guarded endpoint.
LEMMA GateMeans ==
  ASSUME TypeInv, NEW w \in Workers, Gate(w)
  PROVE  /\ worker[w].pc = "gate" /\ UNCHANGED <<pool, services, now>>
         /\ \/ \E status \in {401, 404, 405} : \E body : Reply(w, status, body)
            \/ \E endpoint : Admits(w, endpoint)
<1>1. worker[w].pc = "gate" /\ UNCHANGED <<pool, services, now>>
  BY DEF Gate
<1>2. PICK route : route = resolve(Req(w).method, Req(w).path)
  OBVIOUS
<1>3. Opens(w, route)
  <2>1. \E r \in {resolve(Req(w).method, Req(w).path)} : Opens(w, r)
    BY DEF Gate, Opens
  <2>. QED
    BY <1>2, <2>1
<1>4. ASSUME route.result = "found", authenticate(Req(w), route.endpoint.auth) # "denied",
             worker' = [worker EXCEPT ![w] =
               [@ EXCEPT !.pc = "serve", !.user = authenticate(Req(w), route.endpoint.auth),
                         !.params = route.params, !.handler = route.endpoint.handler]]
      PROVE  Admits(w, route.endpoint)
  <2>1. Guarded(route.endpoint)
    BY <1>2, <1>4, ResolveMeans
  <2>. QED
    BY <1>4, <2>1 DEF Admits, TypeInv, Threads, ThreadFields
<1>. QED
  BY <1>1, <1>3, <1>4 DEF Opens

-----------------------------------------------------------------------------
(* The pool: which worker has which connection.                            *)

Idle == {"recv", "dead"}

\* A worker that serves has a connection of its own.
Holding ==
  /\ \A w \in Workers : worker[w].pc \in Idle => worker[w].conn = None
  /\ \A w \in Workers : worker[w].pc \notin Idle =>
       worker[w].conn \in Conns /\ conn[worker[w].conn].at = "taken"
  /\ \A v, w \in Workers : worker[v].conn = worker[w].conn => worker[w].conn = None \/ v = w
  /\ \A c \in Conns : conn[c].at = "taken" => \E w \in Workers : worker[w].conn = c

\* What is queued is queued once.
Queueing ==
  /\ \A i \in 1..Len(queue) : conn[queue[i]].at = "queued"
  /\ \A i, j \in 1..Len(queue) : queue[i] = queue[j] => i = j
  /\ \A c \in Conns : conn[c].at = "queued" => \E i \in 1..Len(queue) : queue[i] = c

\* Who is past reading has been sent something.
Heard == \A w \in Workers : worker[w].pc \notin Idle \cup {"read"} => Req(w).kind # "silent"

PoolInv == TypeInv /\ Staged /\ Holding /\ Queueing /\ Heard

\* Nobody is served at the start.
LEMMA PoolStarts ==
  ASSUME Init
  PROVE  PoolInv
<1>1. TypeInv
  <2>1. Len(Stored) \in Nat
    BY FrontAssumption
  <2>2. coming \in Scenarios /\ DOMAIN Families = DOMAIN EmptyFamilies
    BY FrontAssumption DEF Init
  <2>3. /\ DOMAIN coming = {"sends", "events"}
        /\ \A c \in Conns : coming.sends[c] # None => coming.sends[c].kind \in Inputs
    BY <2>2, FrontAssumption
  <2>4. /\ \A w \in Workers : worker[w] = Waits
        /\ DOMAIN worker = Workers /\ DOMAIN conn = Conns
        /\ \A c \in Conns : conn[c] = Away
    BY DEF Init
  <2>5. DOMAIN Waits = ThreadFields /\ Waits.pc = "recv" /\ Waits.status = 0
    BY DEF Waits, ThreadFields
  <2>6. DOMAIN Away = ConnFields /\ Away.at = "away" /\ Away.status = 0
    BY DEF Away, ConnFields
  <2>. QED
    BY <2>1, <2>2, <2>3, <2>4, <2>5, <2>6 DEF Init, TypeInv, Threads, Store, Pcs, Statuses
<1>2. Staged /\ Holding /\ Queueing /\ Heard
  BY DEF Init, Staged, Stages, Stage, Holding, Queueing, Heard, Waits, Away, Idle
<1>. QED
  BY <1>1, <1>2 DEF PoolInv

\* A new connection is held by nobody.
LEMMA ConnectKeepsPool ==
  ASSUME PoolInv, NEW c \in Conns, Connect(c)
  PROVE  PoolInv'
<1>1. /\ conn' = [conn EXCEPT ![c] = [@ EXCEPT !.at = "backlog", !.input = coming.sends[c]]]
      /\ conn[c].at = "away" /\ coming.sends[c].kind \in Inputs
      /\ UNCHANGED <<coming, queue, worker, serving, cf, log, txns, effects, minted, now>>
  BY DEF Connect, PoolInv, TypeInv, services
<1>2. TypeInv'
  BY <1>1 DEF PoolInv, TypeInv, Threads, Store, ConnFields
<1>3. \A w \in Workers : worker[w].pc \notin Idle => worker[w].conn \in Conns /\ worker[w].conn # c
  BY <1>1 DEF PoolInv, Holding
<1>4. /\ \A d \in Conns \ {c} : conn'[d] = conn[d]
      /\ conn'[c].at = "backlog"
  BY <1>1 DEF PoolInv, TypeInv, ConnFields
<1>5. Staged' /\ Holding' /\ Heard'
  BY <1>1, <1>3, <1>4 DEF PoolInv, Staged, Holding, Heard, Req
<1>6. Queueing'
  BY <1>1, <1>4 DEF PoolInv, Queueing, TypeInv
<1>. QED
  BY <1>2, <1>5, <1>6 DEF PoolInv

\* Who hangs up was silent, so that no worker is past reading it.
LEMMA HangUpKeepsPool ==
  ASSUME PoolInv, NEW c \in Conns, HangUp(c)
  PROVE  PoolInv'
<1>1. /\ conn' = [conn EXCEPT ![c] = [@ EXCEPT !.input = [kind |-> "closed"]]]
      /\ conn[c].input.kind = "silent"
      /\ UNCHANGED <<coming, queue, worker, serving, cf, log, txns, effects, minted, now>>
  BY DEF HangUp, services
<1>2. /\ \A d \in Conns \ {c} : conn'[d] = conn[d]
      /\ conn'[c].at = conn[c].at /\ conn'[c].input.kind = "closed"
      /\ conn'[c].status = conn[c].status
      /\ DOMAIN conn' = Conns /\ DOMAIN conn'[c] = ConnFields
  BY <1>1 DEF PoolInv, TypeInv, ConnFields
<1>3. TypeInv'
  BY <1>1, <1>2 DEF PoolInv, TypeInv, Threads, Store, Inputs
<1>4. Staged' /\ Holding' /\ Queueing'
  BY <1>1, <1>2 DEF PoolInv, Staged, Holding, Queueing, TypeInv
<1>5. Heard'
  BY <1>1, <1>2 DEF PoolInv, Heard, Req, Holding
<1>. QED
  BY <1>3, <1>4, <1>5 DEF PoolInv

\* An accepted connection goes to the end of the queue, where it was not.
LEMMA AcceptKeepsPool ==
  ASSUME PoolInv, NEW c \in Conns, Accept(c)
  PROVE  PoolInv'
<1>1. /\ conn' = [conn EXCEPT ![c] = [@ EXCEPT !.at = "queued"]]
      /\ conn[c].at = "backlog" /\ queue' = Append(queue, c)
      /\ UNCHANGED <<coming, worker, serving, cf, log, txns, effects, minted, now>>
  BY DEF Accept, services
<1>2. /\ \A d \in Conns \ {c} : conn'[d] = conn[d]
      /\ conn'[c].at = "queued" /\ conn'[c].input = conn[c].input
      /\ conn'[c].status = conn[c].status
      /\ DOMAIN conn' = Conns /\ DOMAIN conn'[c] = ConnFields
  BY <1>1 DEF PoolInv, TypeInv, ConnFields
<1>3. /\ queue' \in Seq(Conns) /\ Len(queue') = Len(queue) + 1 /\ queue'[Len(queue) + 1] = c
      /\ \A i \in 1..Len(queue) : queue'[i] = queue[i] /\ queue[i] \in Conns
      /\ Len(queue) \in Nat
  BY <1>1 DEF PoolInv, TypeInv
<1>4. TypeInv'
  BY <1>1, <1>2, <1>3 DEF PoolInv, TypeInv, Threads, Store
<1>5. Staged' /\ Holding' /\ Heard'
  BY <1>1, <1>2 DEF PoolInv, Staged, Holding, Heard, Req
<1>6. Queueing'
  <2>1. \A i \in 1..Len(queue) : queue[i] # c
    BY <1>1 DEF PoolInv, Queueing
  <2>2. \A i \in 1..Len(queue') : i \in 1..Len(queue) \/ i = Len(queue) + 1
    BY <1>3
  <2>. QED
    BY <1>2, <1>3, <2>1, <2>2 DEF PoolInv, Queueing
<1>. QED
  BY <1>4, <1>5, <1>6 DEF PoolInv

\* The end of the process leaves no connection in anybody's hands.
LEMMA AcceptFailsKeepsPool ==
  ASSUME PoolInv, AcceptFails
  PROVE  PoolInv'
<1>1. /\ DOMAIN conn' = Conns
      /\ \A c \in Conns : conn'[c] = IF conn[c].at \in {"backlog", "queued", "taken"}
                                     THEN [conn[c] EXCEPT !.at = "dropped"] ELSE conn[c]
      /\ queue' = <<>> /\ serving' = FALSE
      /\ DOMAIN worker' = Workers /\ \A w \in Workers : worker'[w] = Dead
      /\ DOMAIN coming' = DOMAIN coming /\ coming'.sends = coming.sends
      /\ UNCHANGED <<cf, log, txns, effects, minted, now>>
  BY DEF AcceptFails, Occurs, services, PoolInv, TypeInv
<1>2. DOMAIN Dead = ThreadFields /\ Dead.pc = "dead" /\ Dead.status = 0 /\ Dead.conn = None
  BY DEF Dead, Waits, ThreadFields
<1>3. \A c \in Conns : /\ DOMAIN conn'[c] = ConnFields
                       /\ conn'[c].at \in {"away", "answered", "dropped"}
                       /\ conn'[c].input = conn[c].input /\ conn'[c].status = conn[c].status
                       /\ conn[c].at = "away" => conn'[c].at = "away"
                       /\ conn'[c].at = "away" => conn[c].at = "away"
  BY <1>1 DEF PoolInv, TypeInv, ConnFields
<1>4. TypeInv'
  <2>1. queue' \in Seq(Conns)
    BY <1>1
  <2>1a. serving' \in BOOLEAN /\ "dead" \in Pcs /\ 0 \in Statuses
    BY <1>1 DEF Pcs, Statuses
  <2>2. Threads' /\ \A w \in Workers : worker'[w].pc \in Pcs /\ worker'[w].status \in Statuses
    BY <1>1, <1>2, <2>1a DEF Threads
  <2>3. \A c \in Conns : conn'[c].at # "away" => conn'[c].input.kind \in Inputs
    BY <1>3 DEF PoolInv, TypeInv
  <2>4. \A c \in Conns : conn'[c].status \in Statuses
    BY <1>3 DEF PoolInv, TypeInv
  <2>. QED
    BY <1>1, <1>3, <2>1, <2>1a, <2>2, <2>3, <2>4 DEF PoolInv, TypeInv, Store
<1>5. Staged' /\ Holding' /\ Heard'
  BY <1>1, <1>2, <1>3 DEF Staged, Stages, Stage, Holding, Heard, Idle
<1>6. Queueing'
  BY <1>1, <1>3 DEF Queueing
<1>. QED
  BY <1>4, <1>5, <1>6 DEF PoolInv

\* Nothing but the clock, the services or the events to come has changed.
LEMMA PoolKept ==
  ASSUME PoolInv, UNCHANGED <<conn, queue, worker, serving, effects>>,
         DOMAIN cf' = DOMAIN cf, minted' \in Nat, now' \in Nat,
         DOMAIN coming' = DOMAIN coming, coming'.sends = coming.sends
  PROVE  PoolInv'
<1>1. TypeInv'
  BY DEF PoolInv, TypeInv, Threads, Store
<1>2. Staged' /\ Holding' /\ Queueing' /\ Heard'
  BY DEF PoolInv, Staged, Holding, Queueing, Heard, Req
<1>. QED
  BY <1>1, <1>2 DEF PoolInv

\* A worker that takes the head of the queue is its only holder.
LEMMA TakeKeepsPool ==
  ASSUME PoolInv, NEW w \in Workers, Take(w)
  PROVE  PoolInv'
<1>1. PICK c : c = Head(queue)
  OBVIOUS
<1>2. /\ worker[w].pc = "recv" /\ queue # <<>>
      /\ worker' = [worker EXCEPT ![w] = [@ EXCEPT !.pc = "read", !.conn = c]]
      /\ conn' = [conn EXCEPT ![c] = [@ EXCEPT !.at = "taken"]] /\ queue' = Tail(queue)
      /\ UNCHANGED <<coming, serving, cf, log, txns, effects, minted, now>>
  BY <1>1 DEF Take, MayTake, Dequeued, services
<1>3. /\ 1 \in 1..Len(queue) /\ queue[1] = c /\ c \in Conns /\ conn[c].at = "queued"
      /\ Len(queue) \in Nat /\ queue' \in Seq(Conns) /\ Len(queue') = Len(queue) - 1
      /\ \A i \in 1..Len(queue') : queue'[i] = queue[i + 1] /\ i + 1 \in 1..Len(queue)
  BY <1>1, <1>2 DEF PoolInv, TypeInv, Queueing
<1>4. /\ \A d \in Conns \ {c} : conn'[d] = conn[d]
      /\ conn'[c].at = "taken" /\ conn'[c].input = conn[c].input
      /\ conn'[c].status = conn[c].status
      /\ DOMAIN conn' = Conns /\ DOMAIN conn'[c] = ConnFields
  BY <1>2, <1>3 DEF PoolInv, TypeInv, ConnFields
<1>5. /\ \A v \in Workers \ {w} : worker'[v] = worker[v]
      /\ worker'[w].pc = "read" /\ worker'[w].conn = c /\ worker'[w].status = worker[w].status
      /\ DOMAIN worker' = Workers /\ DOMAIN worker'[w] = ThreadFields
  BY <1>2 DEF PoolInv, TypeInv, Threads, ThreadFields
<1>6. TypeInv'
  <2>1. Threads' /\ \A v \in Workers : worker'[v].pc \in Pcs /\ worker'[v].status \in Statuses
    BY <1>5 DEF PoolInv, TypeInv, Threads, Pcs
  <2>. QED
    BY <1>2, <1>3, <1>4, <2>1 DEF PoolInv, TypeInv, Store
<1>7. Staged'
  BY <1>5 DEF PoolInv, Staged, Stages, Stage
<1>8. Holding'
  <2>1. \A v \in Workers \ {w} : worker[v].conn # c
    BY <1>3, FrontAssumption DEF PoolInv, Holding
  <2>2. worker[w].conn = None /\ c # None
    BY <1>2, <1>3, FrontAssumption DEF PoolInv, Holding, Idle
  <2>3. \A v \in Workers : worker'[v].conn = IF v = w THEN c ELSE worker[v].conn
    BY <1>5
  <2>4. \A v \in Workers : worker'[v].pc \in Idle => worker'[v].conn = None
    BY <1>5 DEF PoolInv, Holding, Idle
  <2>5. \A v \in Workers : worker'[v].pc \notin Idle =>
          worker'[v].conn \in Conns /\ conn'[worker'[v].conn].at = "taken"
    BY <1>3, <1>4, <1>5, <2>1 DEF PoolInv, Holding
  <2>6. \A u, v \in Workers : worker'[u].conn = worker'[v].conn => worker'[v].conn = None \/ u = v
    BY <2>1, <2>3 DEF PoolInv, Holding
  <2>7. \A d \in Conns : conn'[d].at = "taken" => \E v \in Workers : worker'[v].conn = d
    <3>1. ASSUME NEW d \in Conns, d # c, conn'[d].at = "taken"
          PROVE  \E v \in Workers : worker'[v].conn = d
      <4>1. PICK v \in Workers : worker[v].conn = d
        BY <1>4, <3>1 DEF PoolInv, Holding
      <4>2. d # None
        BY FrontAssumption
      <4>. QED
        BY <2>2, <2>3, <4>1, <4>2
    <3>. QED
      BY <2>3, <3>1
  <2>. QED
    BY <2>4, <2>5, <2>6, <2>7 DEF Holding
<1>9. Queueing'
  <2>1. \A i \in 1..Len(queue') : queue'[i] # c /\ queue'[i] \in Conns
    <3>1. \A i \in 1..Len(queue') : i + 1 # 1
      BY <1>3
    <3>2. \A i \in 1..Len(queue) : queue[i] = c => i = 1
      BY <1>3 DEF PoolInv, Queueing
    <3>. QED
      BY <1>3, <3>1, <3>2
  <2>2. \A i \in 1..Len(queue) : i = 1 \/ (i - 1 \in 1..Len(queue') /\ (i - 1) + 1 = i)
    BY <1>3
  <2>3. \A i \in 1..Len(queue') : conn'[queue'[i]].at = "queued"
    BY <1>3, <1>4, <2>1 DEF PoolInv, Queueing
  <2>4. \A i, j \in 1..Len(queue') : queue'[i] = queue'[j] => i = j
    <3>1. ASSUME NEW i \in 1..Len(queue'), NEW j \in 1..Len(queue'), queue'[i] = queue'[j]
          PROVE  i = j
      <4>1. i + 1 = j + 1
        BY <1>3, <3>1 DEF PoolInv, Queueing
      <4>. QED
        BY <4>1
    <3>. QED
      BY <3>1
  <2>5. ASSUME NEW d \in Conns, conn'[d].at = "queued" PROVE \E i \in 1..Len(queue') : queue'[i] = d
    <3>1. d # c /\ conn[d].at = "queued"
      BY <1>4, <2>5
    <3>2. PICK i \in 1..Len(queue) : queue[i] = d
      BY <3>1 DEF PoolInv, Queueing
    <3>3. i # 1
      BY <1>3, <3>1, <3>2
    <3>. QED
      BY <1>3, <2>2, <3>2, <3>3
  <2>. QED
    BY <2>3, <2>4, <2>5 DEF Queueing
<1>10. Heard'
  BY <1>3, <1>4, <1>5 DEF PoolInv, Heard, Req, Holding
<1>. QED
  BY <1>6, <1>7, <1>8, <1>9, <1>10 DEF PoolInv

\* A worker goes on with the connection it has.
GoesOn(w) ==
  /\ worker[w].pc \notin Idle /\ Req(w).kind # "silent"
  /\ DOMAIN worker' = Workers /\ DOMAIN worker'[w] = ThreadFields
  /\ \A v \in Workers \ {w} : worker'[v] = worker[v]
  /\ worker'[w].conn = worker[w].conn
  /\ worker'[w].pc \in Pcs \ Idle /\ worker'[w].status \in Statuses
  /\ worker'[w].pc \in Stages => worker'[w].handler = Stage[worker'[w].pc]
  /\ UNCHANGED <<conn, coming, queue, serving, now>>

\* The connection stays with its worker.
LEMMA GoingOnKeepsPool ==
  ASSUME PoolInv, NEW w \in Workers, GoesOn(w),
         DOMAIN cf' = DOMAIN cf, minted' \in Nat,
         \A e \in effects' : e.conn \in Conns /\ e.family \in DOMAIN EmptyFamilies \cup {"EVENTS"}
  PROVE  PoolInv'
<1>1. TypeInv'
  <2>1. Threads' /\ \A v \in Workers : worker'[v].pc \in Pcs /\ worker'[v].status \in Statuses
    BY DEF PoolInv, TypeInv, Threads, GoesOn
  <2>. QED
    BY <2>1 DEF PoolInv, TypeInv, Store, GoesOn
<1>2. Staged'
  BY DEF PoolInv, Staged, GoesOn
<1>3. Holding'
  BY DEF PoolInv, Holding, GoesOn
<1>4. Queueing'
  BY DEF PoolInv, Queueing, GoesOn
<1>5. Heard'
  BY DEF PoolInv, Heard, Req, GoesOn
<1>. QED
  BY <1>1, <1>2, <1>3, <1>4, <1>5 DEF PoolInv

\* A worker has done with its connection.
LetsGo(w, thread, after) ==
  /\ worker[w].pc \notin Idle /\ thread \in {Waits, Dead}
  /\ worker' = [worker EXCEPT ![w] = thread]
  /\ conn' = [conn EXCEPT ![worker[w].conn] = after]
  /\ DOMAIN after = ConnFields /\ after.at \in {"answered", "dropped"} /\ after.status \in Statuses
  /\ after.input = conn[worker[w].conn].input
  /\ UNCHANGED <<queue, serving, services, now>>

\* Nobody holds a connection that is answered or dropped.
LEMMA LettingGoKeepsPool ==
  ASSUME PoolInv, NEW w \in Workers, NEW thread, NEW after, LetsGo(w, thread, after),
         DOMAIN coming' = DOMAIN coming, coming'.sends = coming.sends
  PROVE  PoolInv'
<1>1. PICK c : c = worker[w].conn
  OBVIOUS
<1>2. c \in Conns /\ conn[c].at = "taken" /\ c # None
  BY <1>1, FrontAssumption DEF LetsGo, PoolInv, Holding
<1>3. /\ DOMAIN thread = ThreadFields /\ thread.pc \in Idle /\ thread.status = 0 /\ thread.conn = None
  BY DEF LetsGo, Waits, Dead, ThreadFields, Idle
<1>4. /\ \A v \in Workers \ {w} : worker'[v] = worker[v]
      /\ worker'[w] = thread /\ DOMAIN worker' = Workers
  BY DEF LetsGo, PoolInv, TypeInv, Threads
<1>5. /\ \A d \in Conns \ {c} : conn'[d] = conn[d]
      /\ conn'[c] = after /\ DOMAIN conn' = Conns
  BY <1>1, <1>2 DEF LetsGo, PoolInv, TypeInv
<1>6. UNCHANGED <<cf, log, txns, effects, minted>>
  BY DEF LetsGo, services
<1>7. TypeInv'
  <2>1. Threads' /\ \A v \in Workers : worker'[v].pc \in Pcs /\ worker'[v].status \in Statuses
    BY <1>3, <1>4 DEF PoolInv, TypeInv, Threads, Pcs, Statuses, Idle
  <2>2. \A d \in Conns : /\ DOMAIN conn'[d] = ConnFields
                         /\ conn'[d].at \in {"away", "backlog", "queued", "taken", "answered", "dropped"}
                         /\ conn'[d].at # "away" => conn'[d].input.kind \in Inputs
                         /\ conn'[d].status \in Statuses
    BY <1>1, <1>2, <1>5 DEF PoolInv, TypeInv, LetsGo
  <2>. QED
    BY <1>5, <1>6, <2>1, <2>2 DEF PoolInv, TypeInv, Store, LetsGo
<1>8. Staged'
  BY <1>3, <1>4 DEF PoolInv, Staged, Stages, Stage, Idle
<1>9. Holding'
  <2>1. \A v \in Workers \ {w} : worker[v].conn # c
    BY <1>1, <1>2 DEF PoolInv, Holding
  <2>2. after.at # "taken"
    BY DEF LetsGo
  <2>3. \A v \in Workers : worker'[v].conn = worker[v].conn \/ (v = w /\ worker'[v].conn = None)
    BY <1>3, <1>4
  <2>. QED
    BY <1>1, <1>2, <1>3, <1>4, <1>5, <2>1, <2>2, <2>3 DEF PoolInv, Holding
<1>10. Queueing'
  BY <1>2, <1>5 DEF PoolInv, Queueing, LetsGo, TypeInv
<1>11. Heard'
  <2>1. \A v \in Workers \ {w} : worker[v].conn # c
    BY <1>1, <1>2 DEF PoolInv, Holding
  <2>. QED
    BY <1>3, <1>4, <1>5, <2>1 DEF PoolInv, Heard, Req, Holding
<1>. QED
  BY <1>7, <1>8, <1>9, <1>10, <1>11 DEF PoolInv

Dropped(c) == [conn[c] EXCEPT !.at = "dropped"]
AnsweredBy(w) ==
  [conn[worker[w].conn] EXCEPT !.at = "answered", !.status = worker[w].status,
                               !.body = worker[w].body, !.handler = worker[w].handler]

\* A connection that is dropped is let go.
LEMMA DropMeans ==
  ASSUME PoolInv, NEW w \in Workers, worker[w].pc \notin Idle, Drop(w),
         UNCHANGED <<queue, serving, services, now>>
  PROVE  LetsGo(w, Waits, Dropped(worker[w].conn))
<1>1. PICK c : c = worker[w].conn
  OBVIOUS
<1>2. c \in Conns
  BY <1>1 DEF PoolInv, Holding
<1>3. /\ worker' = [worker EXCEPT ![w] = Waits]
      /\ conn' = [conn EXCEPT ![worker[w].conn] = Dropped(worker[w].conn)]
  BY DEF Drop, Dropped
<1>. QED
  BY <1>1, <1>2, <1>3 DEF LetsGo, Dropped, PoolInv, TypeInv, ConnFields

\* After reading, a request goes to the gate, is answered 400 or, when it was cut
\* short or its client has gone, is dropped.
LEMMA ReadMeans ==
  ASSUME PoolInv, NEW w \in Workers, Read(w)
  PROVE  /\ worker[w].pc = "read" /\ UNCHANGED <<coming, services>>
         /\ \/ /\ GoesOn(w) /\ worker'[w].pc \in {"gate", "respond"}
               /\ worker'[w].pc = "respond" => worker'[w].status = 400
               /\ worker'[w].handler = worker[w].handler
            \/ LetsGo(w, Waits, Dropped(worker[w].conn))
<1>1. /\ worker[w].pc = "read" /\ worker[w].pc \notin Idle /\ Req(w).kind # "silent"
      /\ UNCHANGED <<coming, queue, serving, services, now>>
  BY DEF Read, Idle
<1>2. PICK c : c = worker[w].conn
  OBVIOUS
<1>3. c \in Conns /\ conn[c].at = "taken"
  BY <1>1, <1>2 DEF PoolInv, Holding
<1>5. CASE Goto(w, "gate") /\ UNCHANGED conn
  <2>1. worker' = [worker EXCEPT ![w].pc = "gate"] /\ UNCHANGED conn
    BY <1>5 DEF Goto
  <2>. QED
    BY <1>1, <2>1 DEF GoesOn, PoolInv, TypeInv, Threads, ThreadFields, Pcs, Idle, Stages, Stage
<1>6. CASE Reply(w, 400, None) /\ UNCHANGED conn
  <2>1. Same(w) /\ worker'[w].pc = "respond" /\ worker'[w].status = 400
    BY <1>6, ReplyMeans DEF PoolInv, TypeInv
  <2>. QED
    BY <1>1, <1>6, <2>1 DEF GoesOn, Same, Pcs, Idle, Stages, Stage, Statuses
<1>7. CASE Drop(w)
  BY <1>1, <1>7, DropMeans
<1>. QED
  BY <1>1, <1>5, <1>6, <1>7 DEF Read

\* At the gate a worker keeps its connection.
LEMMA GateGoesOn ==
  ASSUME PoolInv, NEW w \in Workers, Gate(w)
  PROVE  /\ GoesOn(w) /\ worker[w].pc = "gate" /\ UNCHANGED <<coming, services>>
         /\ \/ /\ worker'[w].pc = "respond" /\ worker'[w].status \in {401, 404, 405}
               /\ worker'[w].handler = worker[w].handler
            \/ \E endpoint : Admits(w, endpoint)
<1>1. worker[w].pc = "gate" /\ UNCHANGED <<conn, coming, queue, serving, services, now>>
  BY GateMeans DEF PoolInv, pool
<1>2. worker[w].pc \notin Idle /\ Req(w).kind # "silent"
  BY <1>1 DEF PoolInv, Heard, Idle
<1>3. CASE \E status \in {401, 404, 405} : \E body : Reply(w, status, body)
  <2>1. /\ Same(w) /\ worker'[w].pc = "respond" /\ worker'[w].status \in {401, 404, 405}
    BY <1>3, ReplyMeans DEF PoolInv, TypeInv
  <2>. QED
    BY <1>1, <1>2, <2>1 DEF GoesOn, Same, Pcs, Idle, Stages, Stage, Statuses
<1>4. ASSUME NEW endpoint, Admits(w, endpoint) PROVE GoesOn(w)
  BY <1>1, <1>2, <1>4 DEF GoesOn, Admits, Pcs, Handles, Idle, Stages, Stage, PoolInv, TypeInv
<1>. QED
  BY <1>1, <1>3, <1>4, GateMeans DEF PoolInv

\* So does a worker in a handler.
LEMMA HandleGoesOn ==
  ASSUME PoolInv, NEW w \in Workers, Handle(w)
  PROVE  GoesOn(w) /\ HandlerStep(w) /\ Publishing(w) /\ worker[w].pc \in Handles
<1>1. HandlerStep(w) /\ Publishing(w)
  BY HandleIsStep, HandlePublishes DEF PoolInv
<1>2. UNCHANGED <<conn, coming, queue, serving, now>>
  BY DEF Handle, pool
<1>3. worker[w].pc \in Handles /\ worker[w].pc \notin Idle \cup {"read"}
  BY <1>1 DEF HandlerStep, Moving, Handles, Stages, Stage, Idle
<1>4. Req(w).kind # "silent"
  BY <1>3 DEF PoolInv, Heard
<1>5. worker'[w].pc \in Pcs \ Idle
  BY <1>1 DEF HandlerStep, Moving, Pcs, Handles, Stages, Stage, Idle
<1>6. worker'[w].pc \in Stages => worker'[w].handler = Stage[worker'[w].pc]
  BY <1>1 DEF HandlerStep, Moving, Stages, Stage
<1>. QED
  BY <1>1, <1>2, <1>3, <1>4, <1>5, <1>6 DEF GoesOn, HandlerStep, Moving

\* The answer is written and the connection let go.
LEMMA RespondMeans ==
  ASSUME PoolInv, NEW w \in Workers, Respond(w)
  PROVE  worker[w].pc = "respond" /\ LetsGo(w, Waits, AnsweredBy(w)) /\ UNCHANGED <<coming, services>>
<1>1. worker[w].pc = "respond" /\ worker[w].pc \notin Idle
  BY DEF Respond, Idle
<1>2. PICK c : c = worker[w].conn
  OBVIOUS
<1>3. c \in Conns
  BY <1>1, <1>2 DEF PoolInv, Holding
<1>4. /\ DOMAIN AnsweredBy(w) = ConnFields /\ (AnsweredBy(w)).at = "answered"
      /\ (AnsweredBy(w)).status \in Statuses /\ (AnsweredBy(w)).input = conn[worker[w].conn].input
  BY <1>2, <1>3 DEF AnsweredBy, PoolInv, TypeInv, ConnFields
<1>5. /\ worker' = [worker EXCEPT ![w] = Waits]
      /\ conn' = [conn EXCEPT ![worker[w].conn] = AnsweredBy(w)]
      /\ UNCHANGED <<coming, queue, serving, services, now>>
  BY DEF Respond, AnsweredBy
<1>. QED
  BY <1>1, <1>4, <1>5 DEF LetsGo

\* An answer that cannot be written is lost with its connection.
LEMMA LoseAnswerMeans ==
  ASSUME PoolInv, NEW w \in Workers, LoseAnswer(w)
  PROVE  LetsGo(w, Waits, Dropped(worker[w].conn)) /\ UNCHANGED <<coming, services>>
<1>1. /\ worker[w].pc \notin Idle /\ Drop(w)
      /\ UNCHANGED <<coming, queue, serving, services, now>>
  BY DEF LoseAnswer, Idle
<1>. QED
  BY <1>1, DropMeans

\* What a client does with its answer moves no worker and no connection.
LEMMA ClientMeans ==
  ASSUME PoolInv, NEW c \in Conns, Stall(c) \/ Leave(c) \/ EndStall(c)
  PROVE  /\ UNCHANGED <<conn, queue, worker, serving, services, now>>
         /\ DOMAIN coming' = DOMAIN coming /\ coming'.sends = coming.sends
BY DEF Stall, Leave, EndStall, Becomes, Occurs, PoolInv, TypeInv

\* A panic drops the connection of the worker it kills.
LEMMA PanicMeans ==
  ASSUME PoolInv, NEW w \in Workers, Panic(w)
  PROVE  /\ LetsGo(w, Dead, Dropped(worker[w].conn)) /\ UNCHANGED services
         /\ DOMAIN coming' = DOMAIN coming /\ coming'.sends = coming.sends
<1>1. worker[w].pc \notin Idle
  BY DEF Panic, Idle
<1>2. PICK c : c = worker[w].conn
  OBVIOUS
<1>3. c \in Conns
  BY <1>1, <1>2 DEF PoolInv, Holding
<1>4. /\ DOMAIN Dropped(worker[w].conn) = ConnFields /\ Dropped(worker[w].conn).at = "dropped"
      /\ Dropped(worker[w].conn).status \in Statuses
      /\ Dropped(worker[w].conn).input = conn[worker[w].conn].input
  BY <1>2, <1>3 DEF Dropped, PoolInv, TypeInv, ConnFields
<1>5. /\ worker' = [worker EXCEPT ![w] = Dead]
      /\ conn' = [conn EXCEPT ![worker[w].conn] = Dropped(worker[w].conn)]
      /\ UNCHANGED <<queue, serving, services, now>>
  BY DEF Panic, Dropped
<1>6. DOMAIN coming' = DOMAIN coming /\ coming'.sends = coming.sends
  BY DEF Panic, Occurs, PoolInv, TypeInv
<1>. QED
  BY <1>1, <1>4, <1>5, <1>6 DEF LetsGo

\* The operator's calls add no token and take no one-time key, and the server's own
\* keys are registered before anybody connects.
LEMMA OperateMeans ==
  ASSUME PoolInv, Operate
  PROVE  /\ UNCHANGED <<conn, queue, worker, serving, effects, minted, now>>
         /\ DOMAIN coming' = DOMAIN coming /\ coming'.sends = coming.sends
         /\ DOMAIN cf' = DOMAIN cf /\ cf'.DEVICE_OTK = cf.DEVICE_OTK
         /\ cf'.ACCESS_TOKENS \subseteq cf.ACCESS_TOKENS
         /\ Setup \/ cf'.SERVER_KEYS = cf.SERVER_KEYS
<1>1. PICK e \in coming.events :
        /\ coming' = [coming EXCEPT !.events = @ \ {e}]
        /\ \/ register_account(e.user, e.password) \/ revoke(e.token) \/ IngestKeyDocument(e.doc)
           \/ register_federation_key(e.origin, e.public)
           \/ Setup /\ register_signing_key(e.key_id, e.seed)
  BY DEF Operate
<1>2. /\ DOMAIN cf' = DOMAIN cf /\ cf'.DEVICE_OTK = cf.DEVICE_OTK
      /\ cf'.ACCESS_TOKENS \subseteq cf.ACCESS_TOKENS
      /\ Setup \/ cf'.SERVER_KEYS = cf.SERVER_KEYS
  <2>1. CASE register_account(e.user, e.password)
    <3>1. PICK entry, user : cf' = [cf EXCEPT !.ACCOUNTS[user] = entry]
      BY <2>1, Zenon DEF register_account
    <3>. QED
      BY <3>1 DEF PoolInv, TypeInv, Store, EmptyFamilies
  <2>2. CASE revoke(e.token)
    BY <2>2 DEF revoke, WithoutToken, PoolInv, TypeInv, Store, EmptyFamilies
  <2>3. CASE IngestKeyDocument(e.doc)
    <3>1. PICK cache : cf' = [cf EXCEPT !.KEY_CACHE = cache]
      BY <2>3 DEF IngestKeyDocument, WithDocument
    <3>. QED
      BY <3>1 DEF PoolInv, TypeInv, Store, EmptyFamilies
  <2>4. CASE register_federation_key(e.origin, e.public)
    BY <2>4 DEF register_federation_key, PoolInv, TypeInv, Store, EmptyFamilies
  <2>5. CASE Setup /\ register_signing_key(e.key_id, e.seed)
    <3>1. PICK public : cf' = [cf EXCEPT !.SERVER_KEYS[e.key_id] = e.seed,
                                         !.FEDERATION_KEYS[ServerName] = public]
      BY <2>5, Zenon DEF register_signing_key
    <3>. QED
      BY <2>5, <3>1 DEF PoolInv, TypeInv, Store, EmptyFamilies
  <2>. QED
    BY <1>1, <2>1, <2>2, <2>3, <2>4, <2>5
<1>. QED
  BY <1>1, <1>2 DEF Operate, PoolInv, TypeInv

\* The clock moves on and nothing else does.
LEMMA TickMeans ==
  ASSUME PoolInv, Tick
  PROVE  /\ UNCHANGED <<conn, queue, worker, serving, services>> /\ now' \in Nat
         /\ DOMAIN coming' = DOMAIN coming /\ coming'.sends = coming.sends
BY DEF Tick, Later, Occurs, PoolInv, TypeInv

\* Every step keeps the invariant of the pool.
LEMMA PoolSteps ==
  ASSUME PoolInv, [Next]_vars
  PROVE  PoolInv'
<1>1. CASE \E c \in Conns : Connect(c) \/ HangUp(c) \/ Accept(c)
  BY <1>1, ConnectKeepsPool, HangUpKeepsPool, AcceptKeepsPool
<1>2. ASSUME NEW w \in Workers, WorkerStep(w)
      PROVE  PoolInv'
  <2>1. CASE Take(w)
    BY <2>1, TakeKeepsPool
  <2>2. CASE Read(w)
    <3>1. UNCHANGED <<coming, cf, effects, minted>>
      BY <2>2, ReadMeans DEF services
    <3>2. \A e \in effects : e.conn \in Conns /\ e.family \in DOMAIN EmptyFamilies \cup {"EVENTS"}
      BY DEF PoolInv, TypeInv
    <3>3. minted \in Nat
      BY DEF PoolInv, TypeInv
    <3>. QED
      BY <2>2, <3>1, <3>2, <3>3, ReadMeans, GoingOnKeepsPool, LettingGoKeepsPool
  <2>3. CASE Gate(w)
    <3>1. UNCHANGED <<cf, effects, minted>>
      BY <2>3, GateGoesOn DEF services
    <3>2. \A e \in effects : e.conn \in Conns /\ e.family \in DOMAIN EmptyFamilies \cup {"EVENTS"}
      BY DEF PoolInv, TypeInv
    <3>3. minted \in Nat
      BY DEF PoolInv, TypeInv
    <3>. QED
      BY <2>3, <3>1, <3>2, <3>3, GateGoesOn, GoingOnKeepsPool
  <2>4. CASE Handle(w)
    <3>1. GoesOn(w) /\ HandlerStep(w) /\ worker[w].pc \in Handles
      BY <2>4, HandleGoesOn
    <3>2. worker[w].conn \in Conns
      BY <3>1 DEF GoesOn, PoolInv, Holding
    <3>3. \A e \in effects' : e.conn \in Conns /\ e.family \in DOMAIN EmptyFamilies \cup {"EVENTS"}
      BY <3>1, <3>2 DEF HandlerStep, Tracing, NewEffect, PoolInv, TypeInv
    <3>4. DOMAIN cf' = DOMAIN cf /\ minted' \in Nat
      BY <3>1 DEF HandlerStep, Storing, PoolInv, TypeInv, Store
    <3>. QED
      BY <3>1, <3>3, <3>4, GoingOnKeepsPool
  <2>5. CASE Respond(w)
    <3>1. LetsGo(w, Waits, AnsweredBy(w)) /\ UNCHANGED coming
      BY <2>5, RespondMeans
    <3>. QED
      BY <3>1, LettingGoKeepsPool
  <2>6. CASE LoseAnswer(w)
    BY <2>6, LoseAnswerMeans, LettingGoKeepsPool
  <2>. QED
    BY <1>2, <2>1, <2>2, <2>3, <2>4, <2>5, <2>6 DEF WorkerStep
<1>3. ASSUME NEW w \in Workers, Panic(w)
      PROVE  PoolInv'
  BY <1>3, PanicMeans, LettingGoKeepsPool
<1>4. CASE AcceptFails
  BY <1>4, AcceptFailsKeepsPool
<1>5. CASE Operate
  <2>1. minted \in Nat /\ now \in Nat
    BY DEF PoolInv, TypeInv
  <2>. QED
    BY <1>5, <2>1, OperateMeans, PoolKept
<1>6. CASE Tick
  <2>1. minted \in Nat /\ UNCHANGED <<cf, effects, minted>>
    BY <1>6, TickMeans DEF PoolInv, TypeInv, services
  <2>. QED
    BY <1>6, <2>1, TickMeans, PoolKept
<1>7. CASE UNCHANGED vars
  <2>1. UNCHANGED <<conn, coming, queue, serving, worker, cf, effects, minted, now>>
    BY <1>7 DEF vars, pool, services
  <2>2. minted \in Nat /\ now \in Nat
    BY DEF PoolInv, TypeInv
  <2>. QED
    BY <2>1, <2>2, PoolKept
<1>8. ASSUME NEW c \in Conns, Stall(c) \/ Leave(c) \/ EndStall(c)
      PROVE  PoolInv'
  <2>1. UNCHANGED <<cf, effects, minted>> /\ minted \in Nat /\ now \in Nat
    BY <1>8, ClientMeans DEF PoolInv, TypeInv, services
  <2>. QED
    BY <1>8, <2>1, ClientMeans, PoolKept
<1>. QED
  BY <1>1, <1>2, <1>3, <1>4, <1>5, <1>6, <1>7, <1>8 DEF Next

-----------------------------------------------------------------------------
(* A step, by what it does to requests and answers.                        *)

Ended(c)   == conn[c].at \in {"answered", "dropped"}
Settled(c) == Ended(c) \/ (conn[c].at = "taken" /\ conn[c].input.kind # "silent")

\* No worker moves: clients come and go, the operator acts, the clock ticks.
Quiet ==
  /\ UNCHANGED <<worker, effects>>
  /\ cf'.DEVICE_OTK = cf.DEVICE_OTK /\ cf'.ACCESS_TOKENS \subseteq cf.ACCESS_TOKENS
  /\ Setup \/ cf'.SERVER_KEYS = cf.SERVER_KEYS
  /\ \A c \in Conns : /\ Settled(c) => conn'[c] = conn[c]
                      /\ conn'[c].at \in {"answered", "dropped"} => Ended(c)

\* A worker takes connection c.
Takes(w, c) ==
  /\ worker[w].pc = "recv" /\ conn[c].at = "queued" /\ conn'[c].at = "taken"
  /\ \A v \in Workers \ {w} : worker'[v] = worker[v]
  /\ worker'[w].pc = "read" /\ worker'[w].conn = c /\ worker'[w].handler = worker[w].handler
  /\ \A d \in Conns \ {c} : conn'[d] = conn[d]
  /\ UNCHANGED services

\* It is answered before any handler is reached.
Refuses(w) ==
  /\ worker[w].pc \in {"read", "gate"} /\ worker'[w].handler = worker[w].handler
  /\ worker'[w].pc = "respond" /\ worker'[w].status >= 400

\* A request is read, refused at the gate, or let through to its handler.
Turns(w) ==
  /\ GoesOn(w) /\ worker[w].pc \in {"read", "gate"} /\ UNCHANGED services
  /\ \/ worker'[w].pc = "gate" /\ worker'[w].handler = worker[w].handler
     \/ Refuses(w)
     \/ \E endpoint : Admits(w, endpoint)

Handling(w) == GoesOn(w) /\ HandlerStep(w) /\ Publishing(w)
Responds(w) == worker[w].pc = "respond" /\ LetsGo(w, Waits, AnsweredBy(w))
Loses(w)    == \E thread \in {Waits, Dead} : LetsGo(w, thread, Dropped(worker[w].conn))

\* The process ends.
Collapses ==
  /\ \A c \in Conns : conn'[c] = IF conn[c].at \in {"backlog", "queued", "taken"}
                                 THEN [conn[c] EXCEPT !.at = "dropped"] ELSE conn[c]
  /\ \E c \in Conns : conn[c].at = "backlog"
  /\ \A w \in Workers : worker'[w] = Dead
  /\ UNCHANGED services

\* Every step of the system is one of these.
LEMMA Shapes ==
  ASSUME PoolInv, [Next]_vars
  PROVE  \/ Quiet \/ Collapses
         \/ \E w \in Workers : \/ Turns(w) \/ Handling(w) \/ Responds(w) \/ Loses(w)
                               \/ \E c \in Conns : Takes(w, c)
<1>1. CASE \E c \in Conns : Connect(c) \/ HangUp(c) \/ Accept(c)
  <2>1. PICK c \in Conns : Connect(c) \/ HangUp(c) \/ Accept(c)
    BY <1>1
  <2>2. UNCHANGED <<worker, cf, effects>>
    BY <2>1 DEF Connect, HangUp, Accept, services
  <2>3. conn[c].at \in {"away", "backlog"} \/ (conn[c].input.kind = "silent" /\ ~Ended(c))
    BY <2>1 DEF Connect, HangUp, Accept, Ended
  <2>4. \A d \in Conns \ {c} : conn'[d] = conn[d]
    BY <2>1 DEF Connect, HangUp, Accept, PoolInv, TypeInv
  <2>5. conn'[c].at \in {"backlog", "queued", conn[c].at}
    BY <2>1 DEF Connect, HangUp, Accept, PoolInv, TypeInv, ConnFields
  <2>. QED
    BY <2>2, <2>3, <2>4, <2>5 DEF Quiet, Settled, Ended
<1>2. ASSUME NEW w \in Workers, Take(w)
      PROVE  \E c \in Conns : Takes(w, c)
  <2>1. PICK c : c = Head(queue)
    OBVIOUS
  <2>2. /\ worker[w].pc = "recv" /\ queue # <<>>
        /\ worker' = [worker EXCEPT ![w] = [@ EXCEPT !.pc = "read", !.conn = c]]
        /\ conn' = [conn EXCEPT ![c] = [@ EXCEPT !.at = "taken"]]
        /\ UNCHANGED services
    BY <1>2, <2>1 DEF Take, MayTake
  <2>3. c \in Conns /\ conn[c].at = "queued"
    BY <2>1, <2>2 DEF PoolInv, TypeInv, Queueing
  <2>. QED
    BY <2>2, <2>3 DEF Takes, PoolInv, TypeInv, Threads, ThreadFields, ConnFields
<1>3. ASSUME NEW w \in Workers, Read(w)
      PROVE  Turns(w) \/ Loses(w)
  BY <1>3, ReadMeans DEF Turns, Refuses, Loses
<1>4. ASSUME NEW w \in Workers, Gate(w)
      PROVE  Turns(w)
  BY <1>4, GateGoesOn DEF Turns, Refuses
<1>5. ASSUME NEW w \in Workers, Handle(w)
      PROVE  Handling(w)
  BY <1>5, HandleGoesOn DEF Handling
<1>6. ASSUME NEW w \in Workers, Respond(w)
      PROVE  Responds(w)
  BY <1>6, RespondMeans DEF Responds
<1>7. ASSUME NEW w \in Workers, Panic(w) \/ LoseAnswer(w)
      PROVE  Loses(w)
  BY <1>7, PanicMeans, LoseAnswerMeans DEF Loses
<1>8. CASE AcceptFails
  BY <1>8 DEF AcceptFails, Collapses, PoolInv, TypeInv
<1>9. CASE Operate \/ Tick \/ UNCHANGED vars
  <2>1. /\ UNCHANGED <<conn, worker, effects>>
        /\ cf'.DEVICE_OTK = cf.DEVICE_OTK /\ cf'.ACCESS_TOKENS \subseteq cf.ACCESS_TOKENS
        /\ Setup \/ cf'.SERVER_KEYS = cf.SERVER_KEYS
    BY <1>9, OperateMeans, TickMeans DEF vars, pool, services
  <2>. QED
    BY <2>1 DEF Quiet, Ended
<1>10. ASSUME NEW c \in Conns, Stall(c) \/ Leave(c) \/ EndStall(c)
       PROVE  Quiet
  BY <1>10, ClientMeans DEF Quiet, Ended, services
<1>. QED
  BY <1>1, <1>2, <1>3, <1>4, <1>5, <1>6, <1>7, <1>8, <1>9, <1>10 DEF Next, WorkerStep

\* What a worker that lets go leaves behind.
LEMMA LetsGoMeans ==
  ASSUME PoolInv, NEW w \in Workers, NEW thread, NEW after, LetsGo(w, thread, after)
  PROVE  /\ worker[w].conn \in Conns /\ conn[worker[w].conn].at = "taken"
         /\ \A v \in Workers \ {w} : worker'[v] = worker[v] /\ worker[v].conn # worker[w].conn
         /\ worker'[w].pc \in Idle /\ worker'[w].conn = None /\ worker'[w].handler = None
         /\ conn'[worker[w].conn] = after
         /\ \A c \in Conns \ {worker[w].conn} : conn'[c] = conn[c]
         /\ UNCHANGED <<cf, effects>>
<1>1. worker[w].conn \in Conns /\ conn[worker[w].conn].at = "taken" /\ worker[w].conn # None
  BY FrontAssumption DEF LetsGo, PoolInv, Holding
<1>2. thread.pc \in Idle /\ thread.conn = None /\ thread.handler = None
  BY DEF LetsGo, Waits, Dead, Idle
<1>. QED
  BY <1>1, <1>2 DEF LetsGo, PoolInv, TypeInv, Threads, Holding, services

\* When the process ends, what was answered stays and the rest is dropped.
LEMMA CollapseMeans ==
  ASSUME PoolInv, Collapses
  PROVE  /\ \A c \in Conns :
              /\ conn'[c].input = conn[c].input
              /\ Ended(c) => conn'[c] = conn[c]
              /\ conn[c].at \in {"backlog", "queued", "taken"} => conn'[c].at = "dropped"
              /\ conn'[c].at = "answered" => Ended(c)
         /\ \A w \in Workers :
              worker'[w].pc = "dead" /\ worker'[w].conn = None /\ worker'[w].handler = None
         /\ UNCHANGED <<cf, effects>>
<1>1. ASSUME NEW c \in Conns
      PROVE  /\ conn'[c].input = conn[c].input
             /\ Ended(c) => conn'[c] = conn[c]
             /\ conn[c].at \in {"backlog", "queued", "taken"} => conn'[c].at = "dropped"
             /\ conn'[c].at = "answered" => Ended(c)
  <2>1. CASE conn[c].at \in {"backlog", "queued", "taken"}
    <3>1. conn'[c] = [conn[c] EXCEPT !.at = "dropped"] /\ DOMAIN conn[c] = ConnFields
      BY <2>1 DEF Collapses, PoolInv, TypeInv
    <3>. QED
      BY <2>1, <3>1 DEF ConnFields, Ended
  <2>2. CASE conn[c].at \notin {"backlog", "queued", "taken"}
    <3>1. conn'[c] = conn[c]
      BY <2>2 DEF Collapses
    <3>. QED
      BY <2>2, <3>1 DEF Ended
  <2>. QED
    BY <2>1, <2>2
<1>. QED
  BY <1>1 DEF Collapses, Dead, Waits, services

-----------------------------------------------------------------------------
(* Refusals.  What was written names a request that was heard, and that can *)
(* no longer be refused (but for cross-signing keys).                       *)

Traced ==
  \A e \in effects :
    /\ Settled(e.conn) /\ conn[e.conn].input.kind # "silent"
    /\ \/ e.family = "CROSS_SIGNING"
       \/ /\ conn[e.conn].at = "answered" => conn[e.conn].status < 400
          /\ \A w \in Workers : worker[w].conn = e.conn => CannotRefuse(worker[w])

\* No step writes for a request that can still be refused, nor refuses one that
\* has written.
LEMMA TracedSteps ==
  ASSUME PoolInv, Traced, [Next]_vars
  PROVE  Traced'
<1>1. \A e \in effects : e.conn \in Conns /\ e.conn # None
  BY FrontAssumption DEF PoolInv, TypeInv
<1>2. CASE Quiet
  BY <1>1, <1>2 DEF Quiet, Traced, Settled, Ended
<1>3. CASE Collapses
  <2>1. effects' = effects
    BY <1>3 DEF Collapses, services
  <2>2. \A e \in effects : Ended(e.conn)' /\ conn'[e.conn].input = conn[e.conn].input
    BY <1>1, <1>3, CollapseMeans DEF Traced, Settled, Ended
  <2>3. \A e \in effects : conn'[e.conn].at = "answered" => conn'[e.conn] = conn[e.conn]
    BY <1>1, <1>3, CollapseMeans DEF Ended
  <2>4. \A w \in Workers : worker'[w].conn = None
    BY <1>3 DEF Collapses, Dead, Waits
  <2>. QED
    BY <1>1, <2>1, <2>2, <2>3, <2>4 DEF Traced, Settled
<1>4. ASSUME NEW w \in Workers, NEW c \in Conns, Takes(w, c)
      PROVE  Traced'
  <2>1. effects' = effects /\ \A e \in effects : e.conn # c
    BY <1>4 DEF Takes, services, Traced, Settled, Ended
  <2>. QED
    BY <1>1, <1>4, <2>1 DEF Takes, Traced, Settled, Ended
<1>5. ASSUME NEW w \in Workers, Turns(w)
      PROVE  Traced'
  <2>1. effects' = effects /\ conn' = conn /\ worker'[w].conn = worker[w].conn
        /\ \A v \in Workers \ {w} : worker'[v] = worker[v]
    BY <1>5 DEF Turns, GoesOn, services
  <2>2. ~CannotRefuse(worker[w])
    BY <1>5 DEF Turns, CannotRefuse, Claims
  <2>. QED
    BY <2>1, <2>2 DEF Traced, Settled, Ended
<1>6. ASSUME NEW w \in Workers, Handling(w)
      PROVE  Traced'
  <2>1. /\ conn' = conn /\ worker'[w].conn = worker[w].conn
        /\ \A v \in Workers \ {w} : worker'[v] = worker[v]
        /\ worker[w].conn \in Conns /\ conn[worker[w].conn].at = "taken"
        /\ conn[worker[w].conn].input.kind # "silent"
    BY <1>6 DEF Handling, GoesOn, PoolInv, Holding, Req
  <2>2. \A v \in Workers \ {w} : worker[v].conn # worker[w].conn
    BY <2>1, FrontAssumption DEF PoolInv, Holding
  <2>3. ASSUME NEW e \in effects, e \in effects'
        PROVE  \/ e.family = "CROSS_SIGNING"
               \/ /\ conn'[e.conn].at = "answered" => conn'[e.conn].status < 400
                  /\ \A v \in Workers : worker'[v].conn = e.conn => CannotRefuse(worker'[v])
    BY <1>6, <2>1 DEF Handling, HandlerStep, Tracing, Traced
  <2>4. ASSUME NEW e \in effects', NewEffect(w, e)
        PROVE  \/ e.family = "CROSS_SIGNING"
               \/ /\ conn'[e.conn].at = "answered" => conn'[e.conn].status < 400
                  /\ \A v \in Workers : worker'[v].conn = e.conn => CannotRefuse(worker'[v])
    BY <2>1, <2>2, <2>4 DEF NewEffect
  <2>5. \A e \in effects' : e \in effects \/ NewEffect(w, e)
    BY <1>6 DEF Handling, HandlerStep, Tracing
  <2>6. \A e \in effects' : Settled(e.conn)' /\ conn'[e.conn].input.kind # "silent"
    BY <2>1, <2>5 DEF NewEffect, Traced, Settled, Ended
  <2>. QED
    BY <2>3, <2>4, <2>5, <2>6 DEF Traced
<1>7. ASSUME NEW w \in Workers, Responds(w)
      PROVE  Traced'
  <2>1. PICK c : c = worker[w].conn
    OBVIOUS
  <2>2. /\ c \in Conns /\ conn[c].at = "taken" /\ effects' = effects
        /\ \A v \in Workers \ {w} : worker'[v] = worker[v] /\ worker[v].conn # c
        /\ worker'[w].conn = None /\ conn'[c] = AnsweredBy(w)
        /\ \A d \in Conns \ {c} : conn'[d] = conn[d]
    BY <1>7, <2>1, LetsGoMeans DEF Responds
  <2>3. /\ (AnsweredBy(w)).at = "answered" /\ (AnsweredBy(w)).status = worker[w].status
        /\ (AnsweredBy(w)).input = conn[c].input
    BY <2>1, <2>2 DEF AnsweredBy, PoolInv, TypeInv, ConnFields
  <2>4. CannotRefuse(worker[w]) => worker[w].status < 400
    BY <1>7 DEF Responds, CannotRefuse, Claims
  <2>5. ASSUME NEW e \in effects, e.conn = c
        PROVE  /\ conn'[c].at = "answered" /\ conn'[c].input.kind # "silent"
               /\ e.family = "CROSS_SIGNING" \/ conn'[c].status < 400
    BY <2>1, <2>2, <2>3, <2>4, <2>5 DEF Traced
  <2>6. \A e \in effects : \A v \in Workers : worker'[v].conn = e.conn => v # w /\ worker'[v] = worker[v]
    BY <1>1, <2>2
  <2>. QED
    BY <1>1, <2>2, <2>5, <2>6 DEF Traced, Settled, Ended
<1>8. ASSUME NEW w \in Workers, Loses(w)
      PROVE  Traced'
  <2>1. PICK c : c = worker[w].conn
    OBVIOUS
  <2>2. /\ c \in Conns /\ conn[c].at = "taken" /\ effects' = effects
        /\ \A v \in Workers \ {w} : worker'[v] = worker[v] /\ worker[v].conn # c
        /\ worker'[w].conn = None /\ conn'[c] = Dropped(c)
        /\ \A d \in Conns \ {c} : conn'[d] = conn[d]
    BY <1>8, <2>1, LetsGoMeans DEF Loses
  <2>3. Dropped(c).at = "dropped" /\ Dropped(c).input = conn[c].input
    BY <2>2 DEF Dropped, PoolInv, TypeInv, ConnFields
  <2>6. \A e \in effects : \A v \in Workers : worker'[v].conn = e.conn => v # w /\ worker'[v] = worker[v]
    BY <1>1, <2>2
  <2>. QED
    BY <1>1, <2>2, <2>3, <2>6 DEF Traced, Settled, Ended
<1>. QED
  BY <1>2, <1>3, <1>4, <1>5, <1>6, <1>7, <1>8, Shapes

-----------------------------------------------------------------------------
(* Callers.  Tokens name their users, and a handler acts for the user of    *)
(* the token that came with its request.                                    *)

\* A worker past reading still has the request it had.
LEMMA RequestsStay ==
  ASSUME PoolInv, [Next]_vars, NEW w \in Workers, worker'[w].pc \notin Idle \cup {"read"}
  PROVE  /\ worker[w].pc \notin Idle /\ Req(w).kind # "silent"
         /\ worker'[w].conn = worker[w].conn /\ Req(w)' = Req(w)
<1>1. worker'[w] = worker[w] => /\ worker[w].pc \notin Idle /\ Req(w).kind # "silent"
                                /\ worker[w].conn \in Conns /\ conn[worker[w].conn].at = "taken"
                                /\ Settled(worker[w].conn)
  BY DEF PoolInv, Heard, Holding, Settled, Req
<1>2. CASE Quiet
  BY <1>1, <1>2 DEF Quiet, Req
<1>3. CASE Collapses
  BY <1>3, CollapseMeans DEF Idle
<1>4. ASSUME NEW v \in Workers, NEW c \in Conns, Takes(v, c)
      PROVE  /\ worker[w].pc \notin Idle /\ Req(w).kind # "silent"
             /\ worker'[w].conn = worker[w].conn /\ Req(w)' = Req(w)
  BY <1>1, <1>4 DEF Takes, Req
<1>5. ASSUME NEW v \in Workers, GoesOn(v)
      PROVE  /\ worker[w].pc \notin Idle /\ Req(w).kind # "silent"
             /\ worker'[w].conn = worker[w].conn /\ Req(w)' = Req(w)
  BY <1>1, <1>5 DEF GoesOn, Req
<1>6. ASSUME NEW v \in Workers, NEW thread, NEW after, LetsGo(v, thread, after)
      PROVE  /\ worker[w].pc \notin Idle /\ Req(w).kind # "silent"
             /\ worker'[w].conn = worker[w].conn /\ Req(w)' = Req(w)
  <2>1. w # v /\ worker'[w] = worker[w] /\ worker[v].conn # worker[w].conn
    BY <1>6, LetsGoMeans
  <2>2. conn'[worker[w].conn] = conn[worker[w].conn]
    BY <1>1, <1>6, <2>1, LetsGoMeans
  <2>. QED
    BY <1>1, <2>1, <2>2 DEF Req
<1>. QED
  BY <1>2, <1>3, <1>4, <1>5, <1>6, Shapes DEF Turns, Handling, Responds, Loses

\* A worker past the gate did not move, took a step of its handler, was refused,
\* or has just been admitted.
LEMMA PastTheGate ==
  ASSUME PoolInv, [Next]_vars, NEW w \in Workers, worker'[w].pc \notin Idle \cup {"read", "gate"}
  PROVE  \/ worker'[w] = worker[w]
         \/ Handling(w) \/ Refuses(w)
         \/ \E endpoint : Admits(w, endpoint)
<1>2. CASE Quiet
  BY <1>2 DEF Quiet
<1>3. CASE Collapses
  BY <1>3, CollapseMeans DEF Idle
<1>4. ASSUME NEW v \in Workers, NEW c \in Conns, Takes(v, c)
      PROVE  worker'[w] = worker[w]
  BY <1>4 DEF Takes
<1>5. ASSUME NEW v \in Workers, Turns(v)
      PROVE  worker'[w] = worker[w] \/ Refuses(w) \/ \E endpoint : Admits(w, endpoint)
  BY <1>5 DEF Turns, GoesOn
<1>6. ASSUME NEW v \in Workers, Handling(v)
      PROVE  worker'[w] = worker[w] \/ Handling(w)
  BY <1>6 DEF Handling, GoesOn
<1>7. ASSUME NEW v \in Workers, NEW thread, NEW after, LetsGo(v, thread, after)
      PROVE  worker'[w] = worker[w]
  BY <1>7, LetsGoMeans
<1>. QED
  BY <1>2, <1>3, <1>4, <1>5, <1>6, <1>7, Shapes DEF Responds, Loses

\* An answer was there, or is the one a worker gives in this step.
LEMMA AnswersCome ==
  ASSUME PoolInv, [Next]_vars, NEW c \in Conns, conn'[c].at = "answered"
  PROVE  \/ conn'[c] = conn[c]
         \/ \E w \in Workers : /\ worker[w].pc = "respond" /\ worker[w].conn = c
                               /\ conn'[c].status = worker[w].status /\ conn'[c].body = worker[w].body
                               /\ conn'[c].handler = worker[w].handler
                               /\ conn'[c].input = Req(w)
<1>1. CASE Quiet
  BY <1>1 DEF Quiet, Settled
<1>2. CASE Collapses
  BY <1>2, CollapseMeans
<1>3. ASSUME NEW w \in Workers, NEW d \in Conns, Takes(w, d)
      PROVE  conn'[c] = conn[c]
  BY <1>3 DEF Takes
<1>4. ASSUME NEW w \in Workers, GoesOn(w)
      PROVE  conn'[c] = conn[c]
  BY <1>4 DEF GoesOn
<1>5. ASSUME NEW w \in Workers, Loses(w)
      PROVE  conn'[c] = conn[c]
  <2>1. \A d : d \in Conns => Dropped(d).at = "dropped"
    BY DEF Dropped, PoolInv, TypeInv, ConnFields
  <2>. QED
    BY <1>5, <2>1, LetsGoMeans DEF Loses
<1>6. ASSUME NEW w \in Workers, Responds(w), conn'[c] # conn[c]
      PROVE  /\ worker[w].pc = "respond" /\ worker[w].conn = c
             /\ conn'[c].status = worker[w].status /\ conn'[c].body = worker[w].body
             /\ conn'[c].handler = worker[w].handler /\ conn'[c].input = Req(w)
  <2>1. worker[w].conn = c /\ conn'[c] = AnsweredBy(w)
    BY <1>6, LetsGoMeans DEF Responds
  <2>2. /\ (AnsweredBy(w)).status = worker[w].status /\ (AnsweredBy(w)).body = worker[w].body
        /\ (AnsweredBy(w)).handler = worker[w].handler /\ (AnsweredBy(w)).input = conn[c].input
    BY <2>1 DEF AnsweredBy, PoolInv, TypeInv, ConnFields
  <2>. QED
    BY <1>6, <2>1, <2>2 DEF Responds, Req
<1>. QED
  BY <1>1, <1>2, <1>3, <1>4, <1>5, <1>6, Shapes DEF Turns, Handling

\* A request that was heard stays as it is.
LEMMA InputsStay ==
  ASSUME PoolInv, [Next]_vars, NEW c \in Conns, Settled(c)
  PROVE  conn'[c].input = conn[c].input
<1>1. CASE Quiet
  BY <1>1 DEF Quiet
<1>2. CASE Collapses
  BY <1>2, CollapseMeans
<1>3. ASSUME NEW w \in Workers, NEW d \in Conns, Takes(w, d)
      PROVE  conn'[c] = conn[c]
  BY <1>3 DEF Takes, Settled, Ended
<1>4. ASSUME NEW w \in Workers, GoesOn(w)
      PROVE  conn'[c] = conn[c]
  BY <1>4 DEF GoesOn
<1>5. ASSUME NEW w \in Workers, NEW thread, NEW after, LetsGo(w, thread, after)
      PROVE  conn'[c].input = conn[c].input
  BY <1>5, LetsGoMeans DEF LetsGo
<1>. QED
  BY <1>1, <1>2, <1>3, <1>4, <1>5, Shapes DEF Turns, Handling, Responds, Loses

\* Only handlers write.
LEMMA EffectsCome ==
  ASSUME PoolInv, [Next]_vars, NEW e \in effects'
  PROVE  e \in effects \/ \E w \in Workers : Handling(w) /\ NewEffect(w, e)
<1>1. CASE Quiet \/ Collapses
  BY <1>1 DEF Quiet, Collapses, services
<1>2. CASE \E w \in Workers : Turns(w) \/ \E c \in Conns : Takes(w, c)
  BY <1>2 DEF Turns, Takes, services
<1>3. CASE \E w \in Workers : Handling(w)
  BY <1>3 DEF Handling, HandlerStep, Tracing
<1>4. CASE \E w \in Workers : Responds(w) \/ Loses(w)
  BY <1>4 DEF Responds, Loses, LetsGo, services
<1>. QED
  BY <1>1, <1>2, <1>3, <1>4, Shapes

-----------------------------------------------------------------------------
(* Logins.                                                                 *)

\* The user that login request names.
Named(input) == full_user_id(input.body.fields.user)

LoggingInAs(w) ==
  worker[w].handler = "login" =>
    /\ worker[w].pc \in {"count", "token"} => worker[w].user = Named(Req(w))
    /\ worker[w].pc = "token" => worker[w].got[1] = worker[w].user
    /\ worker[w].pc = "respond" /\ worker[w].status = 200 => worker[w].body[1] = Named(Req(w))

LoginInv ==
  /\ TokensNameUsers
  /\ \A w \in Workers : LoggingInAs(w)
  /\ \A c \in Conns : Answered(c, "login") /\ conn[c].status = 200 =>
       conn[c].body[1] = Named(conn[c].input)

\* The user a login is for stays the same from its checks to its answer.
LEMMA LoginSteps ==
  ASSUME PoolInv, LoginInv, [Next]_vars
  PROVE  LoginInv'
<1>1. TokensNameUsers'
  <2>1. \A t \in cf'.ACCESS_TOKENS :
          \/ t \in cf.ACCESS_TOKENS
          \/ \E w \in Workers : /\ worker[w].pc = "token"
                                /\ t = [token |-> worker[w].got, user |-> worker[w].user]
    <3>1. CASE Quiet
      BY <3>1 DEF Quiet
    <3>2. CASE Collapses \/ \E w \in Workers : Turns(w) \/ \E c \in Conns : Takes(w, c)
      BY <3>2 DEF Collapses, Turns, Takes, services
    <3>3. CASE \E w \in Workers : Handling(w)
      BY <3>3 DEF Handling, HandlerStep, Storing
    <3>4. CASE \E w \in Workers : Responds(w) \/ Loses(w)
      BY <3>4 DEF Responds, Loses, LetsGo, services
    <3>. QED
      BY <3>1, <3>2, <3>3, <3>4, Shapes
  <2>2. \A w \in Workers : worker[w].pc = "token" => worker[w].got[1] = worker[w].user
    BY DEF LoginInv, LoggingInAs, PoolInv, Staged, Stages, Stage
  <2>. QED
    BY <2>1, <2>2 DEF LoginInv, TokensNameUsers
<1>2. ASSUME NEW w \in Workers, worker'[w].handler = "login",
             worker'[w].pc \in {"count", "token", "respond"}
      PROVE  LoggingInAs(w)'
  <2>1. worker'[w].pc \notin Idle \cup {"read", "gate"}
    BY <1>2 DEF Idle
  <2>2. Req(w)' = Req(w)
    BY <2>1, RequestsStay
  <2>3. CASE worker'[w] = worker[w]
    BY <2>2, <2>3 DEF LoginInv, LoggingInAs
  <2>4. CASE Handling(w)
    <3>1. worker[w].handler = "login" /\ LoggingIn(w) /\ LoggingInAs(w)
      BY <1>2, <2>4 DEF Handling, HandlerStep, Moving, LoginInv
    <3>2. worker'[w].pc = "count" => worker'[w].user = Named(Req(w))
      BY <3>1 DEF LoggingIn, Named
    <3>. QED
      BY <2>2, <3>1, <3>2 DEF LoggingIn, LoggingInAs
  <2>5. CASE worker'[w].pc = "respond" /\ worker'[w].status >= 400
    BY <2>5 DEF LoggingInAs
  <2>6. CASE \E endpoint : Admits(w, endpoint)
    BY <1>2, <2>6 DEF Admits
  <2>. QED
    BY <2>1, <2>3, <2>4, <2>5, <2>6, PastTheGate DEF Refuses
<1>3. ASSUME NEW c \in Conns, Answered(c, "login")', conn'[c].status = 200
      PROVE  conn'[c].body[1] = Named(conn'[c].input)
  <2>1. CASE conn'[c] = conn[c]
    BY <1>3, <2>1 DEF LoginInv, Answered
  <2>2. ASSUME NEW w \in Workers, worker[w].pc = "respond", worker[w].conn = c,
               conn'[c].status = worker[w].status, conn'[c].body = worker[w].body,
               conn'[c].handler = worker[w].handler, conn'[c].input = Req(w)
        PROVE  conn'[c].body[1] = Named(conn'[c].input)
    BY <1>3, <2>2 DEF LoginInv, LoggingInAs, Answered
  <2>. QED
    BY <1>3, <2>1, <2>2, AnswersCome DEF Answered
<1>. QED
  BY <1>1, <1>2, <1>3 DEF LoginInv, LoggingInAs

-----------------------------------------------------------------------------
(* Callers.  A handler acts for the user of the token that came with its   *)
(* request.                                                                *)

Acting(w) == worker[w].pc \in Handles =>
               Speaks(worker[w].handler, worker[w].user, Req(w).authorization)

CallerInv == WritesAreTheCallers /\ \A w \in Workers : Acting(w)

\* No step makes a handler act for another user than its token's.
LEMMA CallerSteps ==
  ASSUME PoolInv, Traced, TokensNameUsers, CallerInv, [Next]_vars
  PROVE  CallerInv'
<1>1. ASSUME NEW w \in Workers, worker'[w].pc \in Handles
      PROVE  Speaks(worker'[w].handler, worker'[w].user, Req(w)'.authorization)
  <2>1. worker'[w].pc \notin Idle \cup {"read", "gate", "respond"}
    BY <1>1 DEF Handles, Stages, Stage, Idle
  <2>2. Req(w)' = Req(w)
    BY <2>1, RequestsStay
  <2>3. CASE worker'[w] = worker[w]
    BY <1>1, <2>2, <2>3 DEF CallerInv, Acting
  <2>4. CASE Handling(w)
    <3>1. /\ worker[w].pc \in Handles /\ worker'[w].handler = worker[w].handler
          /\ worker[w].handler # "login" => worker'[w].user = worker[w].user
      BY <2>4 DEF Handling, HandlerStep, Moving
    <3>. QED
      BY <2>2, <3>1 DEF CallerInv, Acting, Speaks, Public
  <2>5. ASSUME NEW endpoint, Admits(w, endpoint)
        PROVE  Speaks(worker'[w].handler, worker'[w].user, Req(w).authorization)
    BY <2>5, AuthenticationMeans DEF Admits
  <2>. QED
    BY <2>1, <2>2, <2>3, <2>4, <2>5, PastTheGate DEF Refuses
<1>2. ASSUME NEW e \in effects', bearer(conn'[e.conn].input.authorization) # None,
             e.handler \notin {"keys_claim", "login"}
      PROVE  e.owner = bearer(conn'[e.conn].input.authorization)[1]
  <2>1. CASE e \in effects
    <3>1. e.conn \in Conns /\ Settled(e.conn)
      BY <2>1 DEF PoolInv, TypeInv, Traced
    <3>2. conn'[e.conn].input = conn[e.conn].input
      BY <3>1, InputsStay
    <3>. QED
      BY <1>2, <2>1, <3>2 DEF CallerInv, WritesAreTheCallers
  <2>2. ASSUME NEW w \in Workers, Handling(w), NewEffect(w, e)
        PROVE  e.owner = bearer(conn'[e.conn].input.authorization)[1]
    <3>1. worker[w].pc \in Handles /\ conn' = conn
      BY <2>2 DEF Handling, HandlerStep, Moving, GoesOn
    <3>2. Speaks(worker[w].handler, worker[w].user, Req(w).authorization)
      BY <3>1 DEF CallerInv, Acting
    <3>3. conn'[e.conn].input = Req(w)
      BY <2>2, <3>1 DEF NewEffect, Req
    <3>. QED
      BY <1>2, <2>2, <3>2, <3>3 DEF NewEffect, Speaks, Public
  <2>. QED
    BY <2>1, <2>2, EffectsCome
<1>. QED
  BY <1>1, <1>2 DEF CallerInv, Acting, WritesAreTheCallers

-----------------------------------------------------------------------------
(* One-time keys.                                                          *)

Holds(w, key) ==
  \/ worker[w].pc \in Claims /\ key \in worker[w].got
  \/ /\ worker[w].pc = "respond" /\ worker[w].handler = "keys_claim"
     /\ worker[w].status = 200 /\ key \in worker[w].body

Gives(c, key) ==
  Answered(c, "keys_claim") /\ conn[c].status = 200 /\ key \in conn[c].body

\* Who holds or was given a key, as HandedOut says it.
LEMMA HandedOutMeans ==
  ASSUME NEW key
  PROVE  HandedOut(key) <=> (\E w \in Workers : Holds(w, key)) \/ (\E c \in Conns : Gives(c, key))
BY DEF HandedOut, Holds, Gives, Claims

\* An answer or a drop is final.
LEMMA EndedStays ==
  ASSUME PoolInv, [Next]_vars, NEW c \in Conns, Ended(c)
  PROVE  conn'[c] = conn[c]
<1>1. CASE Quiet
  BY <1>1 DEF Quiet, Settled
<1>2. CASE Collapses
  BY <1>2, CollapseMeans
<1>3. ASSUME NEW w \in Workers, NEW d \in Conns, Takes(w, d)
      PROVE  conn'[c] = conn[c]
  BY <1>3 DEF Takes, Ended
<1>4. ASSUME NEW w \in Workers, GoesOn(w)
      PROVE  conn'[c] = conn[c]
  BY <1>4 DEF GoesOn
<1>5. ASSUME NEW w \in Workers, NEW thread, NEW after, LetsGo(w, thread, after)
      PROVE  conn'[c] = conn[c]
  BY <1>5, LetsGoMeans DEF Ended
<1>. QED
  BY <1>1, <1>2, <1>3, <1>4, <1>5, Shapes DEF Turns, Handling, Responds, Loses

\* As long as no connection is dropped, a worker that holds a key goes on
\* holding it or gives it away in its answer.
LEMMA HeldOn ==
  ASSUME PoolInv, [Next]_vars, \A c \in Conns : conn'[c].at # "dropped",
         NEW w \in Workers, NEW key, Holds(w, key)
  PROVE  Holds(w, key)' \/ \E c \in Conns : Gives(c, key)'
<1>1. /\ worker[w].pc \notin Idle \cup {"read", "gate"}
      /\ worker[w].pc \in Claims \/ worker[w].pc = "respond"
  BY DEF Holds, Claims, Idle
<1>2. CASE worker'[w] = worker[w]
  BY <1>2 DEF Holds
<1>3. CASE Quiet
  BY <1>2, <1>3 DEF Quiet
<1>4. CASE Collapses
  BY <1>4, CollapseMeans DEF Collapses
<1>5. ASSUME NEW v \in Workers, NEW c \in Conns, Takes(v, c)
      PROVE  worker'[w] = worker[w]
  BY <1>1, <1>5 DEF Takes, Idle
<1>6. ASSUME NEW v \in Workers, Turns(v)
      PROVE  worker'[w] = worker[w]
  BY <1>1, <1>6 DEF Turns, GoesOn
<1>7. ASSUME NEW v \in Workers, Handling(v)
      PROVE  worker'[w] = worker[w] \/ Holds(w, key)'
  <2>1. CASE v # w
    BY <1>7, <2>1 DEF Handling, GoesOn
  <2>2. CASE v = w
    <3>1. worker[w].pc \in Handles /\ Claiming(w)
      BY <1>7, <2>2 DEF Handling, HandlerStep, Moving
    <3>2. worker[w].pc \in Claims
      BY <1>1, <3>1 DEF Handles, Stages, Stage
    <3>3. key \in worker[w].got
      BY <3>2 DEF Holds, Claims
    <3>. QED
      BY <3>1, <3>2, <3>3 DEF Claiming, Holds
  <2>. QED
    BY <2>1, <2>2
<1>8. ASSUME NEW v \in Workers, Responds(v)
      PROVE  worker'[w] = worker[w] \/ \E c \in Conns : Gives(c, key)'
  <2>1. CASE v # w
    BY <1>8, <2>1, LetsGoMeans DEF Responds
  <2>2. CASE v = w
    <3>1. PICK c : c = worker[w].conn
      OBVIOUS
    <3>2. c \in Conns /\ conn'[c] = AnsweredBy(w)
      BY <1>8, <2>2, <3>1, LetsGoMeans DEF Responds
    <3>3. /\ (AnsweredBy(w)).at = "answered" /\ (AnsweredBy(w)).status = worker[w].status
          /\ (AnsweredBy(w)).body = worker[w].body /\ (AnsweredBy(w)).handler = worker[w].handler
      BY <3>1, <3>2 DEF AnsweredBy, PoolInv, TypeInv, ConnFields
    <3>4. /\ worker[w].handler = "keys_claim" /\ worker[w].status = 200 /\ key \in worker[w].body
      BY <1>8, <2>2 DEF Responds, Holds, Claims
    <3>. QED
      BY <3>2, <3>3, <3>4 DEF Gives, Answered
  <2>. QED
    BY <2>1, <2>2
<1>9. ASSUME NEW v \in Workers, Loses(v)
      PROVE  FALSE
  <2>1. worker[v].conn \in Conns /\ conn'[worker[v].conn] = Dropped(worker[v].conn)
    BY <1>9, LetsGoMeans DEF Loses
  <2>2. Dropped(worker[v].conn).at = "dropped"
    BY <2>1 DEF Dropped, PoolInv, TypeInv, ConnFields
  <2>. QED
    BY <2>1, <2>2
<1>. QED
  BY <1>2, <1>3, <1>4, <1>5, <1>6, <1>7, <1>8, <1>9, Shapes

\* A key leaves the store in the hands of the claim that deletes it.
LEMMA KeysLeave ==
  ASSUME PoolInv, [Next]_vars, NEW key \in cf.DEVICE_OTK
  PROVE  key \in cf'.DEVICE_OTK \/ \E w \in Workers : Holds(w, key)
<1>1. CASE Quiet
  BY <1>1 DEF Quiet
<1>2. CASE Collapses \/ \E w \in Workers : Turns(w) \/ \E c \in Conns : Takes(w, c)
  BY <1>2 DEF Collapses, Turns, Takes, services
<1>3. CASE \E w \in Workers : Handling(w)
  BY <1>3 DEF Handling, HandlerStep, Storing, Holds, Claims
<1>4. CASE \E w \in Workers : Responds(w) \/ Loses(w)
  BY <1>4 DEF Responds, Loses, LetsGo, services
<1>. QED
  BY <1>1, <1>2, <1>3, <1>4, Shapes

\* No step loses a one-time key, but by dropping a connection.
LEMMA OneTimeKeySteps ==
  ASSUME PoolInv, OneTimeKeysAccountedFor, [Next]_vars
  PROVE  OneTimeKeysAccountedFor'
<1>1. SUFFICES ASSUME \A c \in Conns : conn'[c].at # "dropped", NEW key \in Families.DEVICE_OTK
               PROVE  key \in cf'.DEVICE_OTK \/ HandedOut(key)'
  BY DEF OneTimeKeysAccountedFor
<1>2. \A c \in Conns : conn[c].at # "dropped"
  BY <1>1, EndedStays DEF Ended
<1>3. key \in cf.DEVICE_OTK \/ (\E w \in Workers : Holds(w, key)) \/ (\E c \in Conns : Gives(c, key))
  BY <1>2, HandedOutMeans DEF OneTimeKeysAccountedFor
<1>4. \/ key \in cf'.DEVICE_OTK
      \/ \E w \in Workers : Holds(w, key)
      \/ \E c \in Conns : Gives(c, key)
  BY <1>3, KeysLeave
<1>5. ASSUME NEW w \in Workers, Holds(w, key)
      PROVE  (\E v \in Workers : Holds(v, key)') \/ \E c \in Conns : Gives(c, key)'
  BY <1>1, <1>5, HeldOn
<1>6. ASSUME NEW c \in Conns, Gives(c, key)
      PROVE  Gives(c, key)'
  <2>1. Ended(c)
    BY <1>6 DEF Gives, Answered, Ended
  <2>. QED
    BY <1>6, <2>1, EndedStays DEF Gives, Answered
<1>7. HandedOut(key)' <=> (\E w \in Workers : Holds(w, key)') \/ (\E c \in Conns : Gives(c, key)')
  BY DEF HandedOut, Holds, Gives, Claims
<1>. QED
  BY <1>4, <1>5, <1>6, <1>7

-----------------------------------------------------------------------------
(* The document of the server's keys.                                      *)

Provisioned == \E k \in KeyIds : cf.SERVER_KEYS[k] # None

\* It was made out by that time, and signed by a key it advertises.
IssuedBy(doc, time) ==
  /\ \E at \in 0..time : doc.valid_until = at + Lifetime
  /\ \E k \in DOMAIN doc.verify_keys \cap DOMAIN doc.signatures :
       verify(Unsigned(doc), doc.signatures[k], doc.verify_keys[k])

\* No worker answers for a handler it has not been admitted to.
Unassigned ==
  \A w \in Workers : worker[w].pc \in Idle \cup {"read", "gate"} => worker[w].handler # "server_keys"

\* The documents that were answered, and those about to be.
DocumentsIssued ==
  Provisioned =>
    /\ \A w \in Workers :
         worker[w].handler = "server_keys" /\ worker[w].pc = "respond" => IssuedBy(worker[w].body, now)
    /\ \A c \in Conns : Answered(c, "server_keys") => IssuedBy(conn[c].body, now)

\* What server_keys makes of the keys there are.
LEMMA PublishedIsIssued ==
  ASSUME now \in Nat, Provisioned
  PROVE  IssuedBy(server_keys, now)
<1>. DEFINE own  == {k \in KeyIds : cf.SERVER_KEYS[k] # None}
            keys == [k \in own |-> public_key(cf.SERVER_KEYS[k])]
            doc  == [server_name |-> ServerName, valid_until |-> now + Lifetime, verify_keys |-> keys,
                     signatures |-> <<>>]
            sigs == [k \in own |-> sign(Unsigned(doc), cf.SERVER_KEYS[k])]
<1>1. server_keys = [doc EXCEPT !.signatures = sigs]
  BY DEF server_keys, PublishedKeys
<1>. HIDE DEF keys, sigs
<1>2. /\ server_keys.valid_until = now + Lifetime /\ server_keys.verify_keys = keys
      /\ server_keys.signatures = sigs /\ server_keys.server_name = ServerName
  BY <1>1
<1>3. Unsigned(server_keys) = Unsigned(doc)
  BY <1>2 DEF Unsigned
<1>4. PICK k \in KeyIds : cf.SERVER_KEYS[k] # None
  BY DEF Provisioned
<1>5. k \in DOMAIN keys \cap DOMAIN sigs
  BY <1>4 DEF keys, sigs
<1>6. verify(Unsigned(doc), sigs[k], keys[k])
  BY <1>5 DEF keys, sigs, verify, sign
<1>. QED
  BY <1>2, <1>3, <1>5, <1>6 DEF IssuedBy

\* The clock does not step back.
LEMMA ClockAdvances ==
  ASSUME PoolInv, [Next]_vars
  PROVE  now \in Nat /\ now' \in Nat /\ now <= now'
<1>1. now \in Nat /\ now' \in Nat
  BY PoolSteps DEF PoolInv, TypeInv
<1>2. CASE \E c \in Conns : Connect(c) \/ HangUp(c) \/ Accept(c)
  BY <1>1, <1>2 DEF Connect, HangUp, Accept
<1>3. CASE \E w \in Workers : Take(w) \/ Read(w) \/ Gate(w) \/ Handle(w) \/ Respond(w)
                               \/ LoseAnswer(w) \/ Panic(w)
  <2>1. UNCHANGED now
    BY <1>3 DEF Take, Read, Gate, Handle, Respond, LoseAnswer, Panic
  <2>. QED
    BY <1>1, <2>1
<1>4. CASE AcceptFails \/ Operate \/ UNCHANGED vars
  BY <1>1, <1>4 DEF AcceptFails, Operate, vars
<1>5. CASE Tick
  BY <1>1, <1>5 DEF Tick, Later
<1>6. CASE \E c \in Conns : Stall(c) \/ Leave(c) \/ EndStall(c)
  BY <1>1, <1>6, ClientMeans
<1>. QED
  BY <1>1, <1>2, <1>3, <1>4, <1>5, <1>6 DEF Next, WorkerStep

\* The keys of the server do not change once it is used.
LEMMA KeysStay ==
  ASSUME PoolInv, [Next]_vars
  PROVE  \/ cf'.SERVER_KEYS = cf.SERVER_KEYS
         \/ (\A w \in Workers : worker[w].pc \in Idle) /\ \A c \in Conns : ~Ended(c)
<1>2. Setup => (\A w \in Workers : worker[w].pc \in Idle) /\ \A c \in Conns : ~Ended(c)
  BY DEF Setup, Ended, PoolInv, Holding
<1>3. CASE Quiet
  BY <1>2, <1>3 DEF Quiet
<1>4. CASE Collapses \/ \E w \in Workers : Turns(w) \/ \E c \in Conns : Takes(w, c)
  BY <1>4 DEF Collapses, Turns, Takes, services
<1>5. CASE \E w \in Workers : Handling(w)
  BY <1>5 DEF Handling, HandlerStep, Storing
<1>6. CASE \E w \in Workers : Responds(w) \/ Loses(w)
  BY <1>6 DEF Responds, Loses, LetsGo, services
<1>. QED
  BY <1>3, <1>4, <1>5, <1>6, Shapes

\* Only the gate gives a worker a handler.
LEMMA UnassignedSteps ==
  ASSUME PoolInv, Unassigned, [Next]_vars
  PROVE  Unassigned'
<1>1. CASE Quiet
  BY <1>1 DEF Quiet, Unassigned
<1>2. CASE Collapses
  BY <1>2, CollapseMeans, FrontAssumption DEF Unassigned
<1>3. ASSUME NEW w \in Workers, NEW c \in Conns, Takes(w, c)
      PROVE  Unassigned'
  BY <1>3 DEF Takes, Unassigned, Idle
<1>4. ASSUME NEW w \in Workers, Turns(w)
      PROVE  Unassigned'
  BY <1>4 DEF Turns, Refuses, Admits, GoesOn, Unassigned, Idle
<1>5. ASSUME NEW w \in Workers, Handling(w)
      PROVE  Unassigned'
  <2>1. worker'[w].pc \notin Idle \cup {"read", "gate"}
    BY <1>5 DEF Handling, HandlerStep, Moving, Stages, Stage, Idle
  <2>. QED
    BY <1>5, <2>1 DEF Handling, GoesOn, Unassigned
<1>6. ASSUME NEW w \in Workers, Responds(w) \/ Loses(w)
      PROVE  Unassigned'
  BY <1>6, LetsGoMeans, FrontAssumption DEF Responds, Loses, Unassigned
<1>. QED
  BY <1>1, <1>2, <1>3, <1>4, <1>5, <1>6, Shapes

\* A document is answered as it was issued, and stays so.
LEMMA DocumentSteps ==
  ASSUME PoolInv, Unassigned, DocumentsIssued, [Next]_vars
  PROVE  DocumentsIssued'
<1>1. SUFFICES ASSUME Provisioned'
               PROVE  /\ \A w \in Workers : worker'[w].handler = "server_keys" /\ worker'[w].pc = "respond" =>
                           IssuedBy(worker'[w].body, now')
                      /\ \A c \in Conns : Answered(c, "server_keys")' => IssuedBy(conn'[c].body, now')
  BY DEF DocumentsIssued
<1>2. \A doc : IssuedBy(doc, now) => IssuedBy(doc, now')
  BY ClockAdvances DEF IssuedBy
<1>3. ASSUME NEW w \in Workers, worker[w].handler = "server_keys", worker[w].pc = "respond"
      PROVE  IssuedBy(worker[w].body, now')
  <2>1. worker[w].pc \notin Idle
    BY <1>3 DEF Idle
  <2>2. Provisioned
    BY <1>1, <2>1, KeysStay DEF Provisioned
  <2>. QED
    BY <1>2, <1>3, <2>2 DEF DocumentsIssued
<1>4. ASSUME NEW w \in Workers, worker'[w].handler = "server_keys", worker'[w].pc = "respond"
      PROVE  IssuedBy(worker'[w].body, now')
  <2>1. CASE worker'[w] = worker[w]
    BY <1>3, <1>4, <2>1
  <2>2. CASE Handling(w)
    <3>1. worker[w].handler = "server_keys" /\ Publishing(w)
      BY <1>4, <2>2 DEF Handling, HandlerStep, Moving
    <3>2. worker'[w].body = server_keys /\ UNCHANGED <<cf, now>>
      BY <3>1 DEF Publishing
    <3>3. Provisioned
      BY <1>1, <3>2 DEF Provisioned
    <3>4. IssuedBy(server_keys, now)
      BY <3>3, ClockAdvances, PublishedIsIssued
    <3>. QED
      BY <1>2, <3>2, <3>4
  <2>3. ~Refuses(w)
    BY <1>4 DEF Refuses, Unassigned
  <2>4. \A endpoint : ~Admits(w, endpoint)
    BY <1>4 DEF Admits
  <2>5. worker'[w].pc \notin Idle \cup {"read", "gate"}
    BY <1>4 DEF Idle
  <2>. QED
    BY <2>1, <2>2, <2>3, <2>4, <2>5, PastTheGate
<1>5. ASSUME NEW c \in Conns, Answered(c, "server_keys")'
      PROVE  IssuedBy(conn'[c].body, now')
  <2>1. conn'[c].at = "answered" /\ conn'[c].handler = "server_keys"
    BY <1>5 DEF Answered
  <2>2. CASE conn'[c] = conn[c]
    <3>1. Answered(c, "server_keys") /\ Ended(c)
      BY <2>1, <2>2 DEF Answered, Ended
    <3>2. Provisioned
      BY <1>1, <3>1, KeysStay DEF Provisioned
    <3>. QED
      BY <1>2, <2>2, <3>1, <3>2 DEF DocumentsIssued
  <2>3. ASSUME NEW w \in Workers, worker[w].pc = "respond", conn'[c].body = worker[w].body,
               conn'[c].handler = worker[w].handler
        PROVE  IssuedBy(conn'[c].body, now')
    BY <1>3, <2>1, <2>3
  <2>. QED
    BY <2>1, <2>2, <2>3, AnswersCome
<1>. QED
  BY <1>4, <1>5

-----------------------------------------------------------------------------
(* The theorems.                                                           *)

ClientTypes == DOMAIN client = Conns /\ \A c \in Conns : client[c] \in ClientStates

\* A client reads, stalls or is gone.
LEMMA ClientSteps ==
  ASSUME ClientTypes, [Next]_vars
  PROVE  ClientTypes'
<1>1. CASE \E c \in Conns : Connect(c) \/ HangUp(c) \/ Accept(c)
  BY <1>1 DEF Connect, HangUp, Accept, ClientTypes
<1>2. CASE \E c \in Conns : Stall(c) \/ Leave(c) \/ EndStall(c)
  <2>1. PICK c \in Conns, state \in ClientStates : client' = [client EXCEPT ![c] = state]
    BY <1>2 DEF Stall, Leave, EndStall, Becomes, ClientStates
  <2>. QED
    BY <2>1 DEF ClientTypes
<1>3. CASE \E w \in Workers : Gate(w) \/ Handle(w)
  BY <1>3 DEF Gate, Handle, pool, ClientTypes
<1>4. CASE \E w \in Workers : Take(w) \/ Read(w) \/ Respond(w) \/ LoseAnswer(w) \/ Panic(w)
  BY <1>4 DEF Take, Read, Respond, LoseAnswer, Panic, ClientTypes
<1>5. CASE AcceptFails \/ Operate \/ Tick \/ UNCHANGED vars
  BY <1>5 DEF AcceptFails, Operate, Tick, vars, pool, ClientTypes
<1>. QED
  BY <1>1, <1>2, <1>3, <1>4, <1>5 DEF Next, WorkerStep

FrontInv ==
  /\ PoolInv /\ ClientTypes /\ Traced /\ LoginInv /\ CallerInv /\ OneTimeKeysAccountedFor
  /\ Unassigned /\ DocumentsIssued

\* The inductive invariant of the front: the pool, the trace of refusals, the
\* logins, the callers, the one-time keys and the documents (every step of
\* serve_with_workers and of the handlers of Ingress::handle).
THEOREM FrontInvariant == Spec => []FrontInv
<1>1. Init => FrontInv
  <2>1. ASSUME Init
        PROVE  /\ ClientTypes /\ Traced /\ LoginInv /\ CallerInv /\ OneTimeKeysAccountedFor
               /\ Unassigned /\ DocumentsIssued
    <3>1. /\ effects = {} /\ cf = Families
          /\ \A w \in Workers : worker[w].pc = "recv" /\ worker[w].handler = None
          /\ \A c \in Conns : conn[c].at = "away"
      BY <2>1 DEF Init, Waits, Away
    <3>2. Traced /\ ClientTypes
      BY <2>1, <3>1 DEF Traced, Init, ClientTypes, ClientStates
    <3>3. LoginInv
      BY <3>1, FrontAssumption DEF LoginInv, LoggingInAs, TokensNameUsers, Answered
    <3>4. CallerInv
      BY <3>1 DEF CallerInv, Acting, WritesAreTheCallers, Handles, Stages, Stage
    <3>5. OneTimeKeysAccountedFor
      BY <3>1 DEF OneTimeKeysAccountedFor
    <3>6. Unassigned /\ DocumentsIssued
      BY <3>1, FrontAssumption DEF Unassigned, DocumentsIssued, Answered
    <3>. QED
      BY <3>2, <3>3, <3>4, <3>5, <3>6
  <2>. QED
    BY <2>1, PoolStarts DEF FrontInv
<1>2. FrontInv /\ [Next]_vars => FrontInv'
  BY PoolSteps, ClientSteps, TracedSteps, LoginSteps, CallerSteps, OneTimeKeySteps, UnassignedSteps, DocumentSteps
     DEF FrontInv, LoginInv
<1>. QED
  BY <1>1, <1>2, PTL DEF Spec

\* The types of the pool, of the connections and of the ledgers, whatever the
\* clients send and whenever workers die (serve_with_workers).
THEOREM FrontTypes == Spec => []FrontTypeOK
<1>1. FrontInv => FrontTypeOK
  <2>1. ASSUME FrontInv, NEW w \in Workers
        PROVE  worker[w].conn \in Conns \cup {None}
    BY <2>1 DEF FrontInv, PoolInv, Holding
  <2>. QED
    BY <2>1 DEF FrontInv, PoolInv, TypeInv, ClientTypes, FrontTypeOK, Store, Statuses
<1>. QED
  BY <1>1, FrontInvariant, PTL

\* A connection is queued once, or held by one worker, or neither, through
\* hang-ups, panics and the end of the accept loop (serve_with_workers,
\* handle_connection).
THEOREM OneWorkerEach == Spec => []OneWorkerPerConnection
<1>1. FrontInv => OneWorkerPerConnection
  <2>. SUFFICES ASSUME FrontInv PROVE OneWorkerPerConnection
    OBVIOUS
  <2>1. ASSUME NEW c \in Conns
        PROVE  Cardinality({i \in DOMAIN queue : queue[i] = c}) = IF conn[c].at = "queued" THEN 1 ELSE 0
    <3>1. PICK places : places = {i \in DOMAIN queue : queue[i] = c}
      OBVIOUS
    <3>2. places = {i \in 1..Len(queue) : queue[i] = c}
      BY <3>1 DEF FrontInv, PoolInv, TypeInv
    <3>3. CASE conn[c].at = "queued"
      <4>1. PICK i \in 1..Len(queue) : queue[i] = c
        BY <3>3 DEF FrontInv, PoolInv, Queueing
      <4>2. places = {i}
        BY <3>2, <4>1 DEF FrontInv, PoolInv, Queueing
      <4>. QED
        BY <3>1, <3>3, <4>2, FS_Singleton
    <3>4. CASE conn[c].at # "queued"
      <4>1. places = {}
        BY <3>2, <3>4 DEF FrontInv, PoolInv, Queueing
      <4>. QED
        BY <3>1, <3>4, <4>1, FS_EmptySet
    <3>. QED
      BY <3>3, <3>4
  <2>2. ASSUME NEW c \in Conns
        PROVE  Cardinality({w \in Workers : worker[w].conn = c}) = IF conn[c].at = "taken" THEN 1 ELSE 0
    <3>1. PICK holders : holders = {w \in Workers : worker[w].conn = c}
      OBVIOUS
    <3>2. c # None
      BY FrontAssumption
    <3>3. CASE conn[c].at = "taken"
      <4>1. PICK w \in Workers : worker[w].conn = c
        BY <3>3 DEF FrontInv, PoolInv, Holding
      <4>2. holders = {w}
        BY <3>1, <3>2, <4>1 DEF FrontInv, PoolInv, Holding
      <4>. QED
        BY <3>1, <3>3, <4>2, FS_Singleton
    <3>4. CASE conn[c].at # "taken"
      <4>1. holders = {}
        BY <3>1, <3>2, <3>4 DEF FrontInv, PoolInv, Holding
      <4>. QED
        BY <3>1, <3>4, <4>1, FS_EmptySet
    <3>. QED
      BY <3>3, <3>4
  <2>. QED
    BY <2>1, <2>2 DEF OneWorkerPerConnection
<1>. QED
  BY <1>1, FrontInvariant, PTL

\* Whatever step a request is refused at, it has written nothing but
\* cross-signing keys (the order of checks and puts in every handler).
THEOREM RefusalsLeaveNoTrace == Spec => []RefusalLeavesNoTrace
<1>1. FrontInv => RefusalLeavesNoTrace
  <2>1. ASSUME FrontInv, NEW e \in effects, conn[e.conn].at = "answered", conn[e.conn].status >= 400
        PROVE  e.family = "CROSS_SIGNING"
    <3>1. conn[e.conn].status \in Statuses
      BY <2>1 DEF FrontInv, PoolInv, TypeInv
    <3>2. e.family = "CROSS_SIGNING" \/ conn[e.conn].status < 400
      BY <2>1 DEF FrontInv, Traced
    <3>. QED
      BY <2>1, <3>1, <3>2 DEF Statuses
  <2>. QED
    BY <2>1 DEF RefusalLeavesNoTrace
<1>. QED
  BY <1>1, FrontInvariant, PTL

\* Under a user's bearer token the handlers write that user's entries only
\* (Ingress::handle, and the user each handler takes from it).
THEOREM WritersAreCallers == Spec => []WritesAreTheCallers
<1>1. FrontInv => WritesAreTheCallers
  BY DEF FrontInv, CallerInv
<1>. QED
  BY <1>1, FrontInvariant, PTL

\* The token a login was answered with is that user's or nobody's, however many
\* logins and logouts run at once (SessionStore::mint, revoke).
THEOREM TokensSpeakForLogins == Spec => []TokenSpeaksForItsLogin
<1>1. FrontInv => TokenSpeaksForItsLogin
  <2>1. ASSUME FrontInv, NEW c \in Conns, Answered(c, "login"), conn[c].status = 200
        PROVE  user_for(conn[c].body) \in {full_user_id(conn[c].input.body.fields.user), None}
    <3>1. conn[c].body[1] = full_user_id(conn[c].input.body.fields.user)
      BY <2>1 DEF FrontInv, LoginInv, Named
    <3>2. TokensNameUsers
      BY <2>1 DEF FrontInv, LoginInv
    <3>. QED
      BY <3>1, <3>2, TokenMeans
  <2>. QED
    BY <2>1 DEF TokenSpeaksForItsLogin
<1>. QED
  BY <1>1, FrontInvariant, PTL

\* Claims at the same time do not lose a one-time key: it is in the store, in
\* the hands of a claim, or in the answer to one (claim_one_time_key).
THEOREM OneTimeKeysAreNotLost == Spec => []OneTimeKeysAccountedFor
<1>1. FrontInv => OneTimeKeysAccountedFor
  BY DEF FrontInv
<1>. QED
  BY <1>1, FrontInvariant, PTL

\* Every document of keys that was answered, or is about to be, lapses a lifetime
\* after a moment that is past, however long its answer took, and is signed whole
\* by one of the keys it advertises (server_keys).  The server's own keys are
\* registered before anybody connects (Setup) and stay.
THEOREM DocumentsAreIssued == Spec => []DocumentsIssued
<1>1. FrontInv => DocumentsIssued
  BY DEF FrontInv
<1>. QED
  BY <1>1, FrontInvariant, PTL

\* A peer that runs this code takes every document served at /key/v2/server in,
\* as long as the first could not have lapsed (server_keys against
\* ingest_key_document).
THEOREM PublishedKeysHold == Spec => [](now < Lifetime => PublishedKeysAreAccepted)
<1>1. FrontInv => (now < Lifetime => PublishedKeysAreAccepted)
  <2>1. ASSUME FrontInv, now < Lifetime, NEW c \in Conns, Answered(c, "server_keys"), Provisioned
        PROVE  ingest_key_document(conn[c].body)
    <3>1. now \in Nat /\ Lifetime \in Nat
      BY <2>1, FrontAssumption DEF FrontInv, PoolInv, TypeInv
    <3>2. IssuedBy(conn[c].body, now)
      BY <2>1 DEF FrontInv, DocumentsIssued
    <3>. QED
      BY <2>1, <3>1, <3>2 DEF IssuedBy, ingest_key_document
  <2>. QED
    BY <2>1 DEF PublishedKeysAreAccepted, Provisioned
<1>. QED
  BY <1>1, FrontInvariant, PTL
==============================================================================
