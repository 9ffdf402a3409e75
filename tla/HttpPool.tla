------------------------------- MODULE HttpPool -------------------------------
(***************************************************************************)
(* How the homeserver takes a request in: the accept loop and the worker   *)
(* pool (gm-http/src/transport.rs) and the gate of the ingress             *)
(* (ingress.rs).  HttpFront adds the handlers behind the gate.             *)
(*                                                                         *)
(* A worker takes a connection, reads one request, passes the gate, runs   *)
(* the handler one store call at a time, and writes the response, which    *)
(* waits for a client that does not read and fails for one that has gone.  *)
(* A body is [form, fields]: absent, not JSON, JSON that is no object, or an      *)
(* object with some fields.                                                *)
(***************************************************************************)
EXTENDS GaussServices, HttpSurface, SequencesExt

CONSTANTS
  Conns,       \* connections that may be made
  Workers,
  Scenarios,   \* what may come: {[sends : [Conns -> input or None], events : SUBSET event]}
  Families     \* what the column families hold at the start

Inputs == {"request", "malformed", "closed", "cut", "silent"}
ClientStates == {"reads", "stalls", "gone"}

\* What a client sends is one of these, and a token that is there at the start
\* names its user as those of `mint` do; no handler is called None.
ASSUME FrontAssumption ==
  /\ None \notin Conns /\ None # "server_keys" /\ Stored \in Seq(Range(Stored)) /\ Lifetime \in Nat
  /\ \A s \in Scenarios : /\ DOMAIN s = {"sends", "events"}
                          /\ \A c \in Conns : s.sends[c] # None => s.sends[c].kind \in Inputs
  /\ DOMAIN Families = DOMAIN EmptyFamilies
  /\ \A t \in Families.ACCESS_TOKENS : t.token[1] = t.user

VARIABLES
  conn,      \* [Conns -> connection]
  client,    \* [Conns -> ClientStates]: the other end of it
  coming,    \* the inputs and the events that have not come yet (a scenario)
  queue,     \* accepted connections no worker has taken (the channel)
  worker,    \* [Workers -> worker thread]
  serving,   \* the process runs; it ends when accept fails
  effects,   \* who wrote what: {[conn, handler, family, owner]}
  minted     \* event ids given out

pool     == <<conn, client, coming, queue, serving>>
services == <<cf, log, txns, effects, minted>>
vars     == <<pool, worker, services, now>>

-----------------------------------------------------------------------------
(* The transport.                                                          *)

Away   == [at |-> "away", input |-> None, status |-> 0, body |-> None, handler |-> None]
Waits  == [pc |-> "recv", conn |-> None, user |-> None, status |-> 0, body |-> None,
           handler |-> None, params |-> <<>>, todo |-> <<>>, got |-> None]
Dead   == [Waits EXCEPT !.pc = "dead"]

\* An event of the environment, by its name; each comes once.
Occurs(name) ==
  \E e \in coming.events : e.name = name /\ coming' = [coming EXCEPT !.events = @ \ {e}]

\* A client connects, with what it is going to send: a request, something
\* malformed, a request cut short, nothing and a hang-up, or nothing yet.
Connect(c) ==
  /\ serving /\ conn[c].at = "away" /\ coming.sends[c] # None
  /\ conn' = [conn EXCEPT ![c].at = "backlog", ![c].input = coming.sends[c]]
  /\ UNCHANGED <<client, coming, queue, worker, serving, services, now>>

HangUp(c) ==
  /\ conn[c].at \in {"backlog", "queued", "taken"} /\ conn[c].input.kind = "silent"
  /\ conn' = [conn EXCEPT ![c].input = [kind |-> "closed"]]
  /\ UNCHANGED <<client, coming, queue, worker, serving, services, now>>

\* What a client that sent its request may do before the answer is out: it stops
\* reading (an answer that the sockets' buffers hold is written all the same, so
\* who stalls is who has been sent more than that), reads on, or goes away.
Underway(c) == conn[c].at \in {"backlog", "queued", "taken"} /\ conn[c].input.kind # "silent"

Becomes(c, state) ==
  /\ client' = [client EXCEPT ![c] = state]
  /\ UNCHANGED <<conn, queue, worker, serving, services, now>>

Stall(c) == Underway(c) /\ client[c] = "reads" /\ Occurs("stall") /\ Becomes(c, "stalls")
Leave(c) == Underway(c) /\ client[c] = "reads" /\ Occurs("leave") /\ Becomes(c, "gone")
EndStall(c) ==
  /\ Underway(c) /\ client[c] = "stalls"
  /\ \E state \in {"reads", "gone"} : Becomes(c, state)
  /\ UNCHANGED coming

\* The channel's receiver is kept by the accept loop itself (`rx`), so sending
\* into it succeeds whether or not a worker is left.
Accept(c) ==
  /\ serving /\ conn[c].at = "backlog"
  /\ conn' = [conn EXCEPT ![c].at = "queued"]
  /\ queue' = Append(queue, c)
  /\ UNCHANGED <<client, coming, worker, serving, services, now>>

\* `connection?`: the loop returns, main returns, the process ends.
AcceptFails ==
  /\ serving /\ Occurs("accept_error")
  /\ \E c \in Conns : conn[c].at = "backlog"
  /\ serving' = FALSE
  /\ conn' = [c \in Conns |-> IF conn[c].at \in {"backlog", "queued", "taken"}
                              THEN [conn[c] EXCEPT !.at = "dropped"] ELSE conn[c]]
  /\ queue' = <<>>
  /\ worker' = [w \in Workers |-> Dead]
  /\ UNCHANGED <<client, services, now>>

\* Mutant: the queue's lock is held for as long as the connection is served.
TakesWhileNobodyServes(w) ==
  queue # <<>> /\ \A v \in Workers : worker[v].pc \in {"recv", "dead"}
MayTake(w) == queue # <<>>

DequeuedNothing == queue                                             \* mutant
Dequeued == Tail(queue)

Take(w) ==
  /\ worker[w].pc = "recv" /\ MayTake(w)
  /\ worker' = [worker EXCEPT ![w].pc = "read", ![w].conn = Head(queue)]
  /\ conn' = [conn EXCEPT ![Head(queue)].at = "taken"]
  /\ queue' = Dequeued
  /\ UNCHANGED <<client, coming, serving, services, now>>

Req(w) == conn[worker[w].conn].input
ClientOf(w) == client[worker[w].conn]

Goto(w, pc) == worker' = [worker EXCEPT ![w].pc = pc]
Reply(w, status, body) ==
  worker' = [worker EXCEPT ![w].pc = "respond", ![w].status = status, ![w].body = body]

Drop(w) ==
  /\ worker' = [worker EXCEPT ![w] = Waits]
  /\ conn' = [conn EXCEPT ![worker[w].conn].at = "dropped"]

\* read_request: blocks on a silent client; an I/O error, as one who has gone may
\* cause, ends the connection without a response.
Read(w) ==
  /\ worker[w].pc = "read" /\ Req(w).kind # "silent"
  /\ \/ Req(w).kind = "request" /\ Goto(w, "gate") /\ UNCHANGED conn
     \/ Req(w).kind \in {"malformed", "closed"} /\ Reply(w, 400, None) /\ UNCHANGED conn
     \/ (Req(w).kind = "cut" \/ ClientOf(w) = "gone") /\ Drop(w)
  /\ UNCHANGED <<client, coming, queue, serving, services, now>>

\* write_response, and the connection is closed.  No timeout is set on the socket:
\* the write waits for a client that stalls as long as it does.  The kernel may
\* take an answer for a client that has gone.
MayWrite(w) == ClientOf(w) # "stalls"

Respond(w) ==
  /\ worker[w].pc = "respond" /\ MayWrite(w)
  /\ conn' = [conn EXCEPT ![worker[w].conn] =
       [@ EXCEPT !.at = "answered", !.status = worker[w].status, !.body = worker[w].body,
              !.handler = worker[w].handler]]
  /\ worker' = [worker EXCEPT ![w] = Waits]
  /\ UNCHANGED <<client, coming, queue, serving, services, now>>

\* Or it fails, the client having gone; serve_connection returns the error,
\* which nobody looks at, and what the handler did stays done.
LoseAnswer(w) ==
  /\ worker[w].pc = "respond" /\ ClientOf(w) = "gone"
  /\ Drop(w)
  /\ UNCHANGED <<client, coming, queue, serving, services, now>>

\* A panic in a handler ends the thread, which nobody replaces; the locks it
\* held are recovered by the next who takes them.
Panic(w) ==
  /\ Occurs("panic")
  /\ worker[w].pc \notin {"recv", "read", "dead"}
  /\ worker' = [worker EXCEPT ![w] = Dead]
  /\ conn' = [conn EXCEPT ![worker[w].conn].at = "dropped"]
  /\ UNCHANGED <<client, queue, serving, services, now>>

-----------------------------------------------------------------------------
(* The gate.                                                               *)

\* The user the request speaks for (None where the endpoint asks for none), or
\* "denied".
authenticate(req, auth) ==
  LET token == access_token(req.authorization, req.query)
  IN  CASE auth \in {"none", "appservice"} -> None
        [] auth = "access_token" ->
             IF token = None THEN "denied" ELSE OrElse(user_for(token), "denied")
        [] auth = "federation" ->
             IF verify_federation_request(req.method, req.path, req.body, req.authorization)
             THEN None ELSE "denied"

\* Ingress::handle up to the handler.
Gate(w) ==
  /\ worker[w].pc = "gate"
  /\ \E route \in {resolve(Req(w).method, Req(w).path)} :
       \/ /\ route.result = "found"
          /\ \E user \in {authenticate(Req(w), route.endpoint.auth)} :
               IF user = "denied" THEN Reply(w, 401, None)
               ELSE worker' = [worker EXCEPT ![w] =
                      [@ EXCEPT !.pc = "serve", !.user = user, !.params = route.params,
                                !.handler = route.endpoint.handler]]
       \/ route.result = "method_not_allowed" /\ Reply(w, 405, route.allow)
       \/ route.result = "not_found" /\ Reply(w, 404, None)
  /\ UNCHANGED <<pool, services, now>>

-----------------------------------------------------------------------------
(* What handlers are made of.                                              *)

Serving(w, handler) == worker[w].pc = "serve" /\ worker[w].handler = handler

Param(w, name) ==
  IF name \in DOMAIN worker[w].params THEN worker[w].params[name] ELSE None
Parsed(value, ids) == IF value \in ids THEN value ELSE None
RoomParam(w) == Parsed(Param(w, roomId), Rooms)
UserParam(w) == Parsed(Param(w, userId), Users)
ForSelf(w)   == Param(w, userId) = worker[w].user

Form(w)     == Req(w).body.form
Field(w, f) == IF Form(w) = "object" /\ f \in DOMAIN Req(w).body.fields
               THEN Req(w).body.fields[f] ELSE None
Given(w, f) == IF Field(w, f) = None THEN <<>> ELSE <<f>>
OptionalObject(w) == Form(w) \in {"absent", "object"}

Work(w, pc, todo, got) ==
  worker' = [worker EXCEPT ![w].pc = pc, ![w].todo = todo, ![w].got = got]

Writes(w, family, owner) ==
  effects' = effects \cup {[conn |-> worker[w].conn, handler |-> worker[w].handler,
                            family |-> family, owner |-> owner]}

\* The early returns of a handler, in order: <<condition, status if it fails>>.
Verdict(checks) ==
  LET failing == {i \in DOMAIN checks : ~checks[i][1]}
  IN  IF failing = {} THEN 200 ELSE checks[Min(failing)][2]

Checked(w, checks, Proceed) ==
  IF Verdict(checks) = 200 THEN Proceed
  ELSE Reply(w, Verdict(checks), None) /\ UNCHANGED services

Answers(w, status, body) == Reply(w, status, body) /\ UNCHANGED services

\* A single put, and the answer.
PutAndAnswer(w, families, family, body) ==
  /\ cf' = families
  /\ Writes(w, family, worker[w].user)
  /\ Reply(w, 200, body)
  /\ UNCHANGED <<log, txns, minted>>
=============================================================================
