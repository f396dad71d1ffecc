---------------------------- MODULE HttpPipeline ----------------------------
(***************************************************************************)
(* A request on its way through the HTTP application (app/main.py): the    *)
(* middleware enforce_request_safety with the origin check, the rate       *)
(* limiter (RateLimiter, composed) and the body limits of                  *)
(* app/request_limits.py, the request id of app/request_context.py, the    *)
(* log record of app/request_logging.py, and the handler of unexpected     *)
(* exceptions.                                                             *)
(*                                                                         *)
(* All of it runs on one event loop: what a request does between two       *)
(* awaits is one step, and at an await (the body, the application, the     *)
(* response) the steps of other connections come in between.  The order,   *)
(* from outside: Starlette's ServerErrorMiddleware, this middleware, the   *)
(* CORS middleware, the routes.                                            *)
(*                                                                         *)
(* A connection serves one request at a time.                              *)
(***************************************************************************)
EXTENDS Integers, Sequences, FiniteSets

CONSTANTS Connections,
          Requests,        \* heads: header, host, method, path, origin, length, id
          AllowedOrigins,  \* of mcp_browser_clients.local.json
          NoOrigin,        \* there is no Origin header
          Unknown,         \* there is no Content-Length
          NoId,            \* X-Request-Id is missing or does not match the pattern
          MaxBody,         \* MEMORIES_REQUEST_BODY_MAX_BYTES, in units
          RateLimiting,    \* MEMORIES_RATE_LIMITING_ENABLED
          MaxChunk,        \* bound: units in a chunk
          MaxRequests,     \* bound: requests in a behaviour
          \* the constants of RateLimiter
          Normal, Limits, Exempt, TicksPerSecond, Window, WallOffset, Never, MaxTime

VARIABLES now, windows, admitted, retryAt, resetAt \* the variables of RateLimiter

Limiter == INSTANCE RateLimiter

ASSUME PipelineAssumption ==
    /\ Limiter!LimiterAssumption
    /\ MaxBody \in Nat /\ MaxChunk \in Nat /\ MaxRequests \in Nat
    /\ RateLimiting \in BOOLEAN
    /\ Unknown \notin Nat
    /\ Requests # {} /\ \A q \in Requests : q.length \in Nat \cup {Unknown}
    /\ NoOrigin \notin AllowedOrigins

VARIABLES pc,       \* per connection: where its request is
          req,      \* per connection: the head of its request
          rid,      \* per connection: request.state.request_id
          uuids,    \* ids made by the service so far
          sent,     \* per connection: units of body the client has sent
          buffered, \* per connection: units kept by the middleware
          handed,   \* per connection: units given to the application
          records,  \* per connection: the log records of its request
          answer,   \* per connection: the response to its request
          gone,     \* the connections whose client has gone
          arrived   \* counter of the bound

limiterVars == <<now, windows, admitted, retryAt, resetAt>>
bodyVars == <<sent, buffered, handed>>
headVars == <<req, rid, uuids, arrived>>
vars == <<limiterVars, pc, headVars, bodyVars, records, answer, gone>>

\* idle, reading the body, in the application, in ServerErrorMiddleware, responding
PCs == {"idle", "read", "app", "failing", "send"}

\* 200 stands for whatever the routes and the MCP server answer.
Statuses == {200, 403, 413, 429, 500}
NotYet == -1
NoRequest == CHOOSE q \in Requests : TRUE \* stands in req for the one to come
NoAnswer == [status |-> NotYet, id |-> NoId, cors |-> FALSE]

Init ==
    /\ Limiter!Init
    /\ pc = [c \in Connections |-> "idle"]
    /\ req = [c \in Connections |-> NoRequest]
    /\ rid = [c \in Connections |-> NoId]
    /\ uuids = 0
    /\ sent = [c \in Connections |-> 0]
    /\ buffered = [c \in Connections |-> 0]
    /\ handed = [c \in Connections |-> NotYet]
    /\ records = [c \in Connections |-> << >>]
    /\ answer = [c \in Connections |-> NoAnswer]
    /\ gone = {}
    /\ arrived = 0

-----------------------------------------------------------------------------
(* The head of a request: everything up to the first await.                *)

\* An MCP request of a browser page that is not configured.
Foreign(q) ==
    /\ q.path = "/mcp"
    /\ q.origin # NoOrigin
    /\ q.origin \notin AllowedOrigins

Limited(q) == RateLimiting /\ Limiter!BucketOf(q) # Exempt

\* Does the limiter let the request through?
Passes(q) ==
    IF Limited(q) THEN Limiter!Admit(Limiter!KeyOf(q)) ELSE UNCHANGED limiterVars

\* request_body_limit_applies
BodyLimited(q) ==
    /\ q.method \in {"POST", "PATCH"}
    /\ q.path \in {"/memories", "/memories/batch", "/memories/id", "/mcp"}

\* reject_request_body_if_too_large
TooLong(q) == BodyLimited(q) /\ q.length # Unknown /\ q.length > MaxBody

\* Faulty: the id is made once, when the function is defined.
IdOfOnce(q) == IF q.id # NoId THEN <<"given", q.id>> ELSE <<"made", 0>>

\* resolve_request_id: the client's, or a new one.
IdOf(q) == IF q.id # NoId THEN <<"given", q.id>> ELSE <<"made", uuids>>

Arrive(c, q) ==
    /\ pc[c] = "idle"
    /\ arrived < MaxRequests
    /\ arrived' = arrived + 1
    /\ req' = [req EXCEPT ![c] = q]
    /\ rid' = [rid EXCEPT ![c] = IdOf(q)]
    /\ uuids' = IF q.id = NoId THEN uuids + 1 ELSE uuids
    /\ UNCHANGED <<sent, buffered, gone>>

\* complete_response: one log record, and the id in a header.  What the CORS
\* middleware has not seen lacks its headers.
Complete(c, id, status, cors) ==
    /\ pc' = [pc EXCEPT ![c] = "send"]
    /\ records' = [records EXCEPT ![c] = Append(@, [status |-> status, id |-> id])]
    /\ answer' = [answer EXCEPT ![c] = [status |-> status, id |-> id, cors |-> cors]]

\* The middleware answers a request whose head it has just read.
Refuse(c, q, status) ==
    /\ Arrive(c, q)
    /\ Complete(c, IdOf(q), status, FALSE)
    /\ UNCHANGED handed

\* The middleware lets it go on, to its body or to the application.
Continue(c, q, label, body) ==
    /\ Arrive(c, q)
    /\ pc' = [pc EXCEPT ![c] = label]
    /\ handed' = [handed EXCEPT ![c] = body]
    /\ UNCHANGED <<records, answer>>

RefuseOrigin(c, q) ==
    /\ Foreign(q)
    /\ Refuse(c, q, 403)
    /\ UNCHANGED limiterVars

RefuseRate(c, q) ==
    /\ ~Foreign(q) /\ Limited(q)
    /\ Limiter!Reject(Limiter!KeyOf(q))
    /\ Refuse(c, q, 429)

\* Faulty: a request that is refused for its length gets its budget back.
RefuseLengthAndRefund(c, q) ==
    /\ ~Foreign(q) /\ TooLong(q)
    /\ Refuse(c, q, 413)
    /\ windows' = << >>
    /\ UNCHANGED <<now, admitted, retryAt, resetAt>>

RefuseLength(c, q) ==
    /\ ~Foreign(q) /\ TooLong(q)
    /\ Passes(q)
    /\ Refuse(c, q, 413)

\* Faulty: the limiter looks but does not count.
StartUncounted(c, q) ==
    /\ ~Foreign(q) /\ ~TooLong(q)
    /\ UNCHANGED limiterVars
    /\ IF BodyLimited(q)
       THEN Continue(c, q, "read", NotYet)
       ELSE Continue(c, q, "app", 0)

\* The body is read only where it is limited; the other routes have none to read.
Start(c, q) ==
    /\ ~Foreign(q) /\ ~TooLong(q)
    /\ Passes(q)
    /\ IF BodyLimited(q)
       THEN Continue(c, q, "read", NotYet)
       ELSE Continue(c, q, "app", 0)

-----------------------------------------------------------------------------
(* The body: reject_request_stream_if_too_large.                           *)

\* The server checks that a body is as long as its Content-Length.
Receivable(c, n) ==
    /\ pc[c] = "read"
    /\ c \notin gone
    /\ req[c].length # Unknown => sent[c] + n <= req[c].length

\* Faulty: each chunk is compared with the limit, not their sum.
FitsAlone(c, n) == n <= MaxBody

Fits(c, n) == buffered[c] + n <= MaxBody

Buffer(c, n) ==
    /\ Receivable(c, n)
    /\ Fits(c, n)
    /\ sent' = [sent EXCEPT ![c] = @ + n]
    /\ buffered' = [buffered EXCEPT ![c] = @ + n]
    /\ UNCHANGED <<limiterVars, pc, headVars, handed, records, answer, gone>>

RefuseBody(c, n) ==
    /\ Receivable(c, n)
    /\ ~Fits(c, n)
    /\ sent' = [sent EXCEPT ![c] = @ + n]
    /\ Complete(c, rid[c], 413, FALSE)
    /\ UNCHANGED <<limiterVars, headVars, buffered, handed, gone>>

\* The end of the body; the application will be given what was kept.
Forward(c) ==
    /\ pc[c] = "read"
    /\ c \notin gone
    /\ req[c].length # Unknown => sent[c] = req[c].length
    /\ pc' = [pc EXCEPT ![c] = "app"]
    /\ handed' = [handed EXCEPT ![c] = buffered[c]]
    /\ UNCHANGED <<limiterVars, headVars, sent, buffered, records, answer, gone>>

\* Faulty: the disconnect is taken for a pause.
LostIgnored(c) ==
    /\ pc[c] = "read" /\ c \in gone
    /\ UNCHANGED vars

\* ClientDisconnect leaves the middleware ahead of its try-statement.
Lost(c) ==
    /\ pc[c] = "read" /\ c \in gone
    /\ pc' = [pc EXCEPT ![c] = "failing"]
    /\ UNCHANGED <<limiterVars, headVars, bodyVars, records, answer, gone>>

-----------------------------------------------------------------------------
(* The application and the response.                                       *)

\* call_next returns at the start of the response, which passed the CORS middleware.
Respond(c) ==
    /\ pc[c] = "app"
    /\ Complete(c, rid[c], 200, req[c].origin \in AllowedOrigins)
    /\ UNCHANGED <<limiterVars, headVars, bodyVars, gone>>

\* Faulty: the exception is left to the outer handler, unlogged.
RaiseUnlogged(c) ==
    /\ pc[c] = "app"
    /\ pc' = [pc EXCEPT ![c] = "failing"]
    /\ UNCHANGED <<limiterVars, headVars, bodyVars, records, answer, gone>>

\* The application raises: a record of a 500, and the exception goes on outwards.
Raise(c) ==
    /\ pc[c] = "app"
    /\ pc' = [pc EXCEPT ![c] = "failing"]
    /\ records' = [records EXCEPT ![c] = Append(@, [status |-> 500, id |-> rid[c]])]
    /\ UNCHANGED <<limiterVars, headVars, bodyVars, answer, gone>>

\* unhandled_exception_response, called by ServerErrorMiddleware, reads the id that
\* the middleware left in request.state.
Unhandled(c) ==
    /\ pc[c] = "failing"
    /\ pc' = [pc EXCEPT ![c] = "send"]
    /\ answer' = [answer EXCEPT ![c] = [status |-> 500, id |-> rid[c], cors |-> FALSE]]
    /\ UNCHANGED <<limiterVars, headVars, bodyVars, records, gone>>

\* The response is out: taken, broken off, or dropped because nobody is there.
Finish(c) ==
    /\ pc[c] = "send"
    /\ pc' = [pc EXCEPT ![c] = "idle"]
    /\ req' = [req EXCEPT ![c] = NoRequest]
    /\ rid' = [rid EXCEPT ![c] = NoId]
    /\ sent' = [sent EXCEPT ![c] = 0]
    /\ buffered' = [buffered EXCEPT ![c] = 0]
    /\ handed' = [handed EXCEPT ![c] = NotYet]
    /\ records' = [records EXCEPT ![c] = << >>]
    /\ answer' = [answer EXCEPT ![c] = NoAnswer]
    /\ gone' = gone \ {c}
    /\ UNCHANGED <<limiterVars, uuids, arrived>>

\* The client leaves.  Once the application has the request, that makes a difference
\* only to whether Finish delivers the response.
Disconnect(c) ==
    /\ pc[c] = "read" /\ c \notin gone
    /\ gone' = gone \cup {c}
    /\ UNCHANGED <<limiterVars, pc, headVars, bodyVars, records, answer>>

Tick ==
    /\ Limiter!Tick
    /\ UNCHANGED <<pc, headVars, bodyVars, records, answer, gone>>

Terminating ==
    /\ arrived = MaxRequests
    /\ \A c \in Connections : pc[c] = "idle"
    /\ UNCHANGED vars

-----------------------------------------------------------------------------
Receive(c) ==
    \E q \in Requests :
        RefuseOrigin(c, q) \/ RefuseRate(c, q) \/ RefuseLength(c, q) \/ Start(c, q)

\* What the service does by itself.
Step(c) == Lost(c) \/ Respond(c) \/ Raise(c) \/ Unhandled(c)

Next ==
    \/ \E c \in Connections :
          \/ Receive(c) \/ Step(c) \/ Forward(c) \/ Finish(c) \/ Disconnect(c)
          \/ \E n \in 1 .. MaxChunk : Buffer(c, n) \/ RefuseBody(c, n)
    \/ Tick
    \/ Terminating

Spec == Init /\ [][Next]_vars

\* The event loop runs what is ready, and the application answers or raises.
\* Nothing is assumed of clients: they may be slow for ever.
Fairness == \A c \in Connections : WF_vars(Step(c))

FairSpec == Spec /\ Fairness

-----------------------------------------------------------------------------
(* Properties.                                                             *)

Ids == {NoId} \cup ({"given"} \X {q.id : q \in Requests}) \cup ({"made"} \X Nat)

\* Type correctness.
TypeOK ==
    /\ pc \in [Connections -> PCs]
    /\ req \in [Connections -> Requests]
    /\ rid \in [Connections -> Ids]
    /\ uuids \in Nat /\ arrived \in Nat
    /\ sent \in [Connections -> Nat]
    /\ buffered \in [Connections -> Nat]
    /\ handed \in [Connections -> Int]
    /\ records \in [Connections -> Seq([status : Statuses, id : Ids])]
    /\ answer \in [Connections ->
                      [status : Statuses, id : Ids, cors : BOOLEAN] \cup {NoAnswer}]
    /\ gone \subseteq Connections

Answered(c) == answer[c].status # NotYet

\* Whatever path a request takes through the middleware and the two exception
\* handlers, it leaves one record, with the status and the id of its response; only
\* a request whose client left before its body was there leaves none.
LoggedAsAnswered ==
    \A c \in Connections : Answered(c) =>
        \/ records[c] = <<[status |-> answer[c].status, id |-> answer[c].id]>>
        \/ records[c] = << >> /\ c \in gone /\ handed[c] = NotYet

\* A response carries the id its client gave; the ids the service makes tell its
\* requests apart (README.md:175).
IdsTellRequestsApart ==
    /\ \A c \in Connections : Answered(c) =>
          /\ answer[c].id = rid[c]
          /\ req[c].id # NoId => rid[c] = <<"given", req[c].id>>
    /\ \A c, d \in Connections :
          c # d /\ rid[c] = rid[d] /\ rid[c] # NoId => req[c].id # NoId

\* No body above the limit is kept or reaches the application, whether its length
\* is declared or not and however it is cut into chunks; what does reach it is all
\* that the client sent, although the middleware has consumed the stream.
BodiesWholeAndBounded ==
    \A c \in Connections :
        /\ buffered[c] <= MaxBody
        /\ handed[c] # NotYet /\ BodyLimited(req[c]) =>
              handed[c] = sent[c] /\ handed[c] <= MaxBody

\* Nobody reaches the application past the limiter: the requests under way with a
\* key have been counted against it.
NoFreeRide ==
    \A k \in Limiter!Keys :
        Cardinality({c \in Connections :
            pc[c] \in {"read", "app"} /\ Limited(req[c]) /\ Limiter!KeyOf(req[c]) = k})
          <= Len(admitted[k])

\* Requests use the limiter as RateLimiter describes, so all that is shown of it
\* there holds here.
UsesLimiter == Limiter!Spec

\* A request that is not waiting for its client is answered.
ServiceAnswers ==
    \A c \in Connections :
        (pc[c] \in {"app", "failing"} \/ (pc[c] = "read" /\ c \in gone))
            ~> pc[c] \in {"send", "idle"}

\* "The app emits one JSON request log record per HTTP request." (README.md:177)
OneRecordPerRequest ==
    \A c \in Connections : Answered(c) => Len(records[c]) = 1
=============================================================================
