------------------------ MODULE HttpPipeline_proofs ------------------------
(***************************************************************************)
(* Proofs about HttpPipeline, for every set of connections and requests    *)
(* and every limit.                                                        *)
(*                                                                         *)
(* First the composition: requests use the limiter as RateLimiter says, so *)
(* its theorems hold of the whole pipeline.  Then an inductive invariant:  *)
(* what is logged and answered at each stage (LogInv), whose the ids are   *)
(* (IdInv), and how much of a body has been sent, kept and handed on       *)
(* (BodyInv).  Last, a count of the requests under way (RideInv).          *)
(***************************************************************************)
EXTENDS HttpPipeline, FiniteSetTheorems, TLAPS

Proved == INSTANCE RateLimiter_proofs

-----------------------------------------------------------------------------
(* The limiter below.                                                      *)

\* A request that passes, or is refused by, the limiter takes one of its steps.
LEMMA HeadUsesLimiter ==
    ASSUME NEW c \in Connections, Receive(c)
    PROVE  [Limiter!Next]_(Limiter!vars)
  <1>1. PICK q \in Requests :
            RefuseOrigin(c, q) \/ RefuseRate(c, q) \/ RefuseLength(c, q) \/ Start(c, q)
    BY DEF Receive
  <1>2. CASE RefuseOrigin(c, q)
    BY <1>2 DEF RefuseOrigin, limiterVars, Limiter!vars
  <1>3. CASE RefuseRate(c, q)
    BY <1>3 DEF RefuseRate, Limited, Limiter!Next, Limiter!Handle
  <1>4. CASE Passes(q)
    BY <1>4 DEF Passes, Limited, limiterVars, Limiter!vars, Limiter!Next, Limiter!Handle
  <1> QED BY <1>1, <1>2, <1>3, <1>4 DEF RefuseLength, Start

\* The requests of all connections together use the limiter as RateLimiter describes:
\* one call of check per request that is subject to it (main.py:163-169), and
\* nothing else touches it.
THEOREM PipelineUsesLimiter == Spec => UsesLimiter
  <1>1. Init => Limiter!Init
    BY DEF Init
  <1>2. [Next]_vars => [Limiter!Next]_(Limiter!vars)
    <2> SUFFICES ASSUME [Next]_vars PROVE [Limiter!Next]_(Limiter!vars)
      OBVIOUS
    <2>1. ASSUME NEW c \in Connections,
                 Step(c) \/ Forward(c) \/ Finish(c) \/ Disconnect(c)
                   \/ \E n \in 1 .. MaxChunk : Buffer(c, n) \/ RefuseBody(c, n)
          PROVE  UNCHANGED Limiter!vars
      BY <2>1 DEF Step, Lost, Respond, Raise, Unhandled, Forward, Finish, Disconnect, Buffer,
         RefuseBody, limiterVars, Limiter!vars
    <2>2. CASE Tick
      BY <2>2 DEF Tick, Limiter!Next
    <2>3. CASE Terminating \/ UNCHANGED vars
      BY <2>3 DEF Terminating, vars, limiterVars, Limiter!vars
    <2> QED BY <2>1, <2>2, <2>3, HeadUsesLimiter DEF Next
  <1> QED BY <1>1, <1>2, PTL DEF Spec, UsesLimiter, Limiter!Spec

\* Whatever the connections do, a client is let in at most twice its limit within
\* any window's length.
THEOREM PipelineBoundsBursts == Spec => []Limiter!BurstBound
  <1> USE DEF Limiter!KeyOf, Proved!KeyOf, Limiter!IdentityOf, Proved!IdentityOf,
      Limiter!BucketOf, Proved!BucketOf, Limiter!Keys, Proved!Keys, Limiter!LimitOf,
      Proved!LimitOf, Limiter!BucketNames, Proved!BucketNames
  <1>1. Limiter!Init <=> Proved!Init
    BY DEF Limiter!Init, Proved!Init
  <1>2. [Limiter!Next]_(Limiter!vars) <=> [Proved!Next]_(Proved!vars)
    BY DEF Limiter!Next, Proved!Next, Limiter!Handle, Proved!Handle, Limiter!Tick,
       Proved!Tick, Limiter!Admit, Proved!Admit, Limiter!Reject, Proved!Reject,
       Limiter!vars, Proved!vars, Limiter!Live, Proved!Live, Limiter!Expired,
       Proved!Expired, Limiter!NewWindow, Proved!NewWindow, Limiter!WindowOf,
       Proved!WindowOf, Limiter!Seconds, Proved!Seconds, Limiter!Exhausted,
       Proved!Exhausted, Limiter!RetryAfter, Proved!RetryAfter, Limiter!AtLeastOne,
       Proved!AtLeastOne, Limiter!Updated, Proved!Updated
  <1>3. Limiter!BurstBound <=> Proved!BurstBound
    BY DEF Limiter!BurstBound, Proved!BurstBound
  <1>4. Limiter!Spec => Proved!Spec
    BY <1>1, <1>2, PTL DEF Limiter!Spec, Proved!Spec
  <1>5. Proved!LimiterAssumption
    BY PipelineAssumption DEF Limiter!LimiterAssumption, Proved!LimiterAssumption
  <1>6. Proved!Spec => []Proved!BurstBound
    BY <1>5, Proved!BurstsAreBounded
  <1>7. Spec => Limiter!Spec
    BY PipelineUsesLimiter DEF UsesLimiter
  <1> QED BY <1>3, <1>4, <1>6, <1>7, PTL

-----------------------------------------------------------------------------
(* The inductive invariant.                                                *)

\* Without the types of records and answers, which LogInv determines.
HeadType ==
    /\ pc \in [Connections -> PCs]
    /\ req \in [Connections -> Requests]
    /\ rid \in [Connections -> Ids]
    /\ uuids \in Nat /\ arrived \in Nat
    /\ gone \subseteq Connections

BodyType ==
    /\ sent \in [Connections -> Nat]
    /\ buffered \in [Connections -> Nat]
    /\ handed \in [Connections -> Int]

LogType ==
    /\ records \in [Connections -> Seq([status : Statuses, id : Ids])]
    /\ DOMAIN answer = Connections /\ answer = [c \in Connections |-> answer[c]]

Answers == [status : Statuses, id : Ids, cors : BOOLEAN]

\* Either the record fits the response, or there is none and the client has gone.
LoggedAs(c, status) ==
    \/ records[c] = <<[status |-> status, id |-> rid[c]]>>
    \/ records[c] = << >> /\ c \in gone /\ handed[c] = NotYet

\* What has been logged and answered at each stage of a request.
LogOf(c) ==
    /\ pc[c] \in {"idle", "read", "app"} => records[c] = << >>
    /\ pc[c] \in {"idle", "read", "app", "failing"} => answer[c] = NoAnswer
    /\ pc[c] = "failing" => LoggedAs(c, 500)
    /\ pc[c] = "send" =>
          answer[c] \in Answers /\ answer[c].id = rid[c] /\ LoggedAs(c, answer[c].status)

LogInv == LogType /\ \A c \in Connections : LogOf(c)

\* Whose the ids are; those the service made lie behind its counter.
IdInv ==
    /\ \A c \in Connections : pc[c] # "idle" =>
          IF req[c].id # NoId THEN rid[c] = <<"given", req[c].id>>
          ELSE \E n \in 0 .. uuids - 1 : rid[c] = <<"made", n>>
    /\ \A c \in Connections : pc[c] = "idle" => rid[c] = NoId
    /\ \A c, d \in Connections :
          c # d /\ rid[c] = rid[d] /\ rid[c] # NoId => req[c].id # NoId

\* While a body is read, all of it that was sent is kept, and nothing handed on.
BodyInv ==
    \A c \in Connections :
        /\ buffered[c] <= MaxBody
        /\ pc[c] \in {"idle", "read"} => handed[c] = NotYet
        /\ pc[c] = "idle" => buffered[c] = 0 /\ sent[c] = 0
        /\ pc[c] = "read" => buffered[c] = sent[c]
        /\ handed[c] # NotYet /\ BodyLimited(req[c]) =>
              handed[c] = sent[c] /\ handed[c] <= MaxBody

IInv == HeadType /\ BodyType /\ LogInv /\ IdInv /\ BodyInv

requestVars == <<pc, headVars, bodyVars, records, answer, gone>>

\* What a step can be for the requests.
LEMMA Steps ==
    ASSUME [Next]_vars
    PROVE  \/ \E c \in Connections, q \in Requests, status \in Statuses : Refuse(c, q, status)
           \/ \E c \in Connections, q \in Requests :
                 BodyLimited(q) /\ Continue(c, q, "read", NotYet)
           \/ \E c \in Connections, q \in Requests :
                 ~BodyLimited(q) /\ Continue(c, q, "app", 0)
           \/ \E c \in Connections, n \in 1 .. MaxChunk : Buffer(c, n) \/ RefuseBody(c, n)
           \/ \E c \in Connections : Forward(c) \/ Lost(c) \/ Respond(c) \/ Raise(c)
                 \/ Unhandled(c) \/ Finish(c) \/ Disconnect(c)
           \/ UNCHANGED requestVars
  <1>1. ASSUME NEW c \in Connections, Receive(c)
        PROVE  \/ \E q \in Requests, status \in Statuses : Refuse(c, q, status)
               \/ \E q \in Requests : BodyLimited(q) /\ Continue(c, q, "read", NotYet)
               \/ \E q \in Requests : ~BodyLimited(q) /\ Continue(c, q, "app", 0)
    BY <1>1 DEF Receive, RefuseOrigin, RefuseRate, RefuseLength, Start, Statuses
  <1>2. CASE Tick \/ Terminating \/ UNCHANGED vars
    BY <1>2 DEF Tick, Terminating, vars, requestVars
  <1> QED BY <1>1, <1>2 DEF Next, Step

\* The placeholder of an idle connection is a request.
LEMMA NoRequestType == NoRequest \in Requests
  BY PipelineAssumption DEF NoRequest

\* A request's id, given or made, is an id.
LEMMA IdType ==
    ASSUME HeadType, NEW q \in Requests
    PROVE  IdOf(q) \in Ids
  BY DEF HeadType, IdOf, Ids

\* The first half of type correctness: requests, ids, stages and answers.
LEMMA HeadTypeKept == ASSUME HeadType, [Next]_vars PROVE HeadType'
  <1> USE DEF HeadType, PCs, headVars, bodyVars
  <1>1. ASSUME NEW c \in Connections, NEW q \in Requests, Arrive(c, q)
        PROVE  /\ req' \in [Connections -> Requests] /\ uuids' \in Nat /\ arrived' \in Nat
               /\ rid' \in [Connections -> Ids] /\ gone' \subseteq Connections
    BY <1>1, IdType DEF Arrive
  <1>2. ASSUME NEW c \in Connections, NEW q \in Requests, NEW status \in Statuses,
               Refuse(c, q, status)
        PROVE  HeadType'
    BY <1>1, <1>2 DEF Refuse, Complete
  <1>3. ASSUME NEW c \in Connections, NEW q \in Requests,
               Continue(c, q, "read", NotYet) \/ Continue(c, q, "app", 0)
        PROVE  HeadType'
    BY <1>1, <1>3 DEF Continue
  <1>4. ASSUME NEW c \in Connections, NEW n \in 1 .. MaxChunk, Buffer(c, n) \/ RefuseBody(c, n)
        PROVE  HeadType'
    BY <1>4 DEF Buffer, RefuseBody, Complete
  <1>5. ASSUME NEW c \in Connections, Forward(c) \/ Lost(c) \/ Respond(c) \/ Raise(c)
                 \/ Unhandled(c) \/ Disconnect(c)
        PROVE  HeadType'
    BY <1>5 DEF Forward, Lost, Respond, Raise, Unhandled, Disconnect, Complete
  <1>6. ASSUME NEW c \in Connections, Finish(c)
        PROVE  HeadType'
    BY <1>6, NoRequestType DEF Finish, Ids
  <1>7. CASE UNCHANGED requestVars
    BY <1>7 DEF requestVars
  <1> QED BY <1>2, <1>3, <1>4, <1>5, <1>6, <1>7, Steps

\* The second half: what is sent, kept and handed on of bodies.
LEMMA BodyTypeKept == ASSUME BodyType, [Next]_vars PROVE BodyType'
  <1> USE DEF BodyType, headVars, bodyVars, NotYet
  <1>1. ASSUME NEW c \in Connections, NEW q \in Requests, NEW status \in Statuses,
               Refuse(c, q, status)
        PROVE  BodyType'
    BY <1>1 DEF Refuse, Arrive
  <1>2. ASSUME NEW c \in Connections, NEW q \in Requests,
               Continue(c, q, "read", NotYet) \/ Continue(c, q, "app", 0)
        PROVE  BodyType'
    BY <1>2 DEF Continue, Arrive
  <1>3. ASSUME NEW c \in Connections, NEW n \in 1 .. MaxChunk, Buffer(c, n) \/ RefuseBody(c, n)
        PROVE  BodyType'
    <2>1. n \in Nat
      BY PipelineAssumption
    <2>2. sent' = [sent EXCEPT ![c] = @ + n] /\ handed' = handed
      BY <1>3 DEF Buffer, RefuseBody
    <2>3. buffered' = [buffered EXCEPT ![c] = @ + n] \/ buffered' = buffered
      BY <1>3 DEF Buffer, RefuseBody
    <2> QED BY <2>1, <2>2, <2>3
  <1>4. ASSUME NEW c \in Connections,
               Lost(c) \/ Respond(c) \/ Raise(c) \/ Unhandled(c) \/ Disconnect(c)
        PROVE  BodyType'
    <2>1. UNCHANGED bodyVars
      BY <1>4 DEF Lost, Respond, Raise, Unhandled, Disconnect
    <2> QED BY <2>1
  <1>5. ASSUME NEW c \in Connections, Forward(c)
        PROVE  BodyType'
    BY <1>5 DEF Forward
  <1>6. ASSUME NEW c \in Connections, Finish(c)
        PROVE  BodyType'
    BY <1>6 DEF Finish
  <1>7. CASE UNCHANGED requestVars
    BY <1>7 DEF requestVars
  <1> QED BY <1>1, <1>2, <1>3, <1>4, <1>5, <1>6, <1>7, Steps

-----------------------------------------------------------------------------
(* What a step may do to bodies and ids.                                   *)

\* While a body is read, all that was sent is kept and nothing handed on.
LEMMA BodyKept == ASSUME HeadType, BodyType, BodyInv, [Next]_vars PROVE BodyInv'
  <1> USE PipelineAssumption DEF HeadType, BodyType, BodyInv, headVars, bodyVars, NotYet
  <1>1. ASSUME NEW c \in Connections, NEW q \in Requests, NEW status \in Statuses,
               Refuse(c, q, status)
        PROVE  BodyInv'
    BY <1>1 DEF Refuse, Arrive, Complete
  <1>2. ASSUME NEW c \in Connections, NEW q \in Requests, Continue(c, q, "read", NotYet)
        PROVE  BodyInv'
    BY <1>2 DEF Continue, Arrive
  <1>3. ASSUME NEW c \in Connections, NEW q \in Requests, ~BodyLimited(q),
               Continue(c, q, "app", 0)
        PROVE  BodyInv'
    BY <1>3 DEF Continue, Arrive
  <1>4. ASSUME NEW c \in Connections, NEW n \in 1 .. MaxChunk, Buffer(c, n)
        PROVE  BodyInv'
    BY <1>4 DEF Buffer, Receivable, Fits
  <1>5. ASSUME NEW c \in Connections, NEW n \in 1 .. MaxChunk, RefuseBody(c, n)
        PROVE  BodyInv'
    BY <1>5 DEF RefuseBody, Receivable, Complete
  <1>6. ASSUME NEW c \in Connections, Forward(c)
        PROVE  BodyInv'
    BY <1>6 DEF Forward
  <1>7. ASSUME NEW c \in Connections,
               Lost(c) \/ Respond(c) \/ Raise(c) \/ Unhandled(c) \/ Disconnect(c)
        PROVE  BodyInv'
    BY <1>7 DEF Lost, Respond, Raise, Unhandled, Disconnect, Complete
  <1>8. ASSUME NEW c \in Connections, Finish(c)
        PROVE  BodyInv'
    BY <1>8 DEF Finish
  <1>9. CASE UNCHANGED requestVars
    BY <1>9 DEF requestVars, BodyLimited
  <1> QED BY <1>1, <1>2, <1>3, <1>4, <1>5, <1>6, <1>7, <1>8, <1>9, Steps

\* The ids the service makes lie behind its counter, so no id is made twice.
LEMMA IdKept == ASSUME HeadType, IdInv, [Next]_vars PROVE IdInv'
  <1> USE DEF HeadType, IdInv, headVars, bodyVars
  <1>1. ASSUME NEW c \in Connections, NEW q \in Requests, Arrive(c, q), pc'[c] # "idle",
               \A u \in Connections \ {c} : pc'[u] = pc[u]
        PROVE  IdInv'
    BY <1>1 DEF Arrive, IdOf
  <1>2. ASSUME NEW c \in Connections, NEW q \in Requests, NEW status \in Statuses,
               Refuse(c, q, status)
        PROVE  IdInv'
    BY <1>1, <1>2 DEF Refuse, Complete
  <1>3. ASSUME NEW c \in Connections, NEW q \in Requests,
               Continue(c, q, "read", NotYet) \/ Continue(c, q, "app", 0)
        PROVE  IdInv'
    BY <1>1, <1>3 DEF Continue
  <1>4. ASSUME NEW c \in Connections, NEW n \in 1 .. MaxChunk, Buffer(c, n) \/ RefuseBody(c, n)
        PROVE  IdInv'
    BY <1>4 DEF Buffer, RefuseBody, Receivable, Complete
  <1>5. ASSUME NEW c \in Connections, Forward(c) \/ Lost(c) \/ Respond(c) \/ Raise(c)
                 \/ Unhandled(c) \/ Disconnect(c)
        PROVE  IdInv'
    BY <1>5 DEF Forward, Lost, Respond, Raise, Unhandled, Disconnect, Complete
  <1>6. ASSUME NEW c \in Connections, Finish(c)
        PROVE  IdInv'
    BY <1>6 DEF Finish
  <1>7. CASE UNCHANGED requestVars
    BY <1>7 DEF requestVars
  <1> QED BY <1>2, <1>3, <1>4, <1>5, <1>6, <1>7, Steps

-----------------------------------------------------------------------------
(* ... and to records and answers.                                         *)

\* What a step does to one connection decides.
LEMMA LogFrame ==
    ASSUME LogInv, NEW c \in Connections, LogType', LogOf(c)',
           \A u \in Connections \ {c} :
              /\ pc'[u] = pc[u] /\ records'[u] = records[u] /\ answer'[u] = answer[u]
              /\ rid'[u] = rid[u] /\ handed'[u] = handed[u] /\ (u \in gone <=> u \in gone')
    PROVE  LogInv'
  <1> SUFFICES ASSUME NEW u \in Connections \ {c} PROVE LogOf(u)'
    BY DEF LogInv
  <1>1. LogOf(u)
    BY DEF LogInv
  <1>2. LoggedAs(u, 500) => LoggedAs(u, 500)'
    BY DEF LoggedAs
  <1>3. LoggedAs(u, answer[u].status) => LoggedAs(u, answer[u].status)'
    BY DEF LoggedAs
  <1> QED BY <1>1, <1>2, <1>3 DEF LogOf

\* A record in an empty log.
LEMMA FirstRecord ==
    ASSUME LogType, NEW c \in Connections, records[c] = << >>,
           NEW entry \in [status : Statuses, id : Ids]
    PROVE  /\ [records EXCEPT ![c] = Append(@, entry)] = [records EXCEPT ![c] = <<entry>>]
           /\ <<entry>> \in Seq([status : Statuses, id : Ids])
  BY DEF LogType

\* A response put in its place.
LEMMA FirstAnswer ==
    ASSUME LogType, NEW c \in Connections, NEW a, answer' = [answer EXCEPT ![c] = a]
    PROVE  /\ DOMAIN answer' = Connections /\ answer' = [u \in Connections |-> answer'[u]]
           /\ answer'[c] = a /\ \A u \in Connections \ {c} : answer'[u] = answer[u]
  BY DEF LogType

\* complete_response on a request without a record: one, like the response.
LEMMA CompleteLogs ==
    ASSUME HeadType, LogInv, NEW c \in Connections, records[c] = << >>,
           NEW id \in Ids, NEW status \in Statuses, NEW a \in Answers, a.status = status, a.id = id,
           pc' = [pc EXCEPT ![c] = "send"],
           records' = [records EXCEPT ![c] = Append(@, [status |-> status, id |-> id])],
           answer' = [answer EXCEPT ![c] = a],
           rid'[c] = id,
           \A u \in Connections \ {c} : rid'[u] = rid[u] /\ handed'[u] = handed[u]
                                       /\ (u \in gone <=> u \in gone')
    PROVE  LogInv'
  <1>1. LogType
    BY DEF LogInv
  <1>2. /\ records' \in [Connections -> Seq([status : Statuses, id : Ids])]
        /\ records'[c] = <<[status |-> status, id |-> id]>>
        /\ \A u \in Connections \ {c} : records'[u] = records[u]
    <2> DEFINE entry == [status |-> status, id |-> id]
    <2>1. entry \in [status : Statuses, id : Ids]
      OBVIOUS
    <2>2. records' = [records EXCEPT ![c] = Append(@, entry)]
      OBVIOUS
    <2> HIDE DEF entry
    <2>3. records' = [records EXCEPT ![c] = <<entry>>] /\ <<entry>> \in Seq([status : Statuses, id : Ids])
      BY <1>1, <2>1, <2>2, FirstRecord
    <2>4. /\ records' \in [Connections -> Seq([status : Statuses, id : Ids])]
          /\ records'[c] = <<entry>>
          /\ \A u \in Connections \ {c} : records'[u] = records[u]
      BY <1>1, <2>3 DEF LogType
    <2> QED BY <2>4 DEF entry
  <1>3. /\ DOMAIN answer' = Connections /\ answer' = [u \in Connections |-> answer'[u]]
        /\ answer'[c] = a
        /\ \A u \in Connections \ {c} : answer'[u] = answer[u]
    BY <1>1, FirstAnswer
  <1>4. pc'[c] = "send" /\ \A u \in Connections \ {c} : pc'[u] = pc[u]
    BY DEF HeadType
  <1>5. LogType'
    BY <1>2, <1>3 DEF LogType
  <1>6. LogOf(c)'
    BY <1>2, <1>3, <1>4 DEF LogOf, LoggedAs
  <1> QED BY <1>2, <1>3, <1>4, <1>5, <1>6, LogFrame

\* The same, of the operator Complete.
LEMMA CompletedLogs ==
    ASSUME HeadType, LogInv, NEW c \in Connections, records[c] = << >>,
           NEW id \in Ids, NEW status \in Statuses, NEW cors \in BOOLEAN,
           Complete(c, id, status, cors), rid'[c] = id,
           \A u \in Connections \ {c} : rid'[u] = rid[u] /\ handed'[u] = handed[u]
                                       /\ (u \in gone <=> u \in gone')
    PROVE  LogInv'
  <1> DEFINE a == [status |-> status, id |-> id, cors |-> cors]
  <1>1. /\ pc' = [pc EXCEPT ![c] = "send"]
        /\ records' = [records EXCEPT ![c] = Append(@, [status |-> status, id |-> id])]
        /\ answer' = [answer EXCEPT ![c] = a]
    BY DEF Complete
  <1>2. a \in Answers /\ a.status = status /\ a.id = id
    BY DEF Answers
  <1> HIDE DEF a
  <1> QED BY <1>1, <1>2, CompleteLogs

\* Every way through the middleware logs what it answers.
LEMMA LogKept ==
    ASSUME HeadType, BodyType, LogInv, BodyInv, [Next]_vars
    PROVE  LogInv'
  <1> USE DEF headVars, bodyVars
  <1>1. ASSUME NEW c \in Connections, NEW q \in Requests, NEW status \in Statuses,
               Refuse(c, q, status)
        PROVE  LogInv'
    <2>1. /\ records[c] = << >> /\ rid'[c] = IdOf(q) /\ Complete(c, IdOf(q), status, FALSE)
          /\ \A u \in Connections \ {c} : rid'[u] = rid[u] /\ handed'[u] = handed[u]
          /\ gone' = gone
      BY <1>1 DEF Refuse, Arrive, HeadType, LogInv, LogOf
    <2> QED BY <2>1, CompletedLogs, IdType
  <1>2. ASSUME NEW c \in Connections, NEW q \in Requests,
               Continue(c, q, "read", NotYet) \/ Continue(c, q, "app", 0)
        PROVE  LogInv'
    <2>1. LogType' /\ records[c] = << >> /\ answer[c] = NoAnswer
      <3>1. pc[c] = "idle" /\ LogOf(c) /\ records' = records /\ answer' = answer
        BY <1>2 DEF Continue, Arrive, LogInv
      <3> QED BY <3>1 DEF LogInv, LogOf, LogType
    <2>3. pc'[c] \in {"read", "app"}
      BY <1>2 DEF Continue, HeadType
    <2>2. /\ records' = records /\ answer' = answer /\ gone' = gone
          /\ \A u \in Connections \ {c} :
                pc'[u] = pc[u] /\ rid'[u] = rid[u] /\ handed'[u] = handed[u]
      BY <1>2 DEF Continue, Arrive, HeadType, BodyType
    <2>4. LogOf(c)'
      BY <2>1, <2>2, <2>3 DEF LogOf
    <2> QED BY <2>1, <2>2, <2>4, LogFrame
  <1>3. ASSUME NEW c \in Connections, NEW n \in 1 .. MaxChunk, Buffer(c, n)
        PROVE  LogInv'
    BY <1>3 DEF Buffer, LogInv, LogType, LogOf, LoggedAs
  <1>4. ASSUME NEW c \in Connections, NEW n \in 1 .. MaxChunk, RefuseBody(c, n)
        PROVE  LogInv'
    <2>1. /\ records[c] = << >> /\ rid' = rid /\ Complete(c, rid[c], 413, FALSE)
          /\ handed' = handed /\ gone' = gone
      BY <1>4 DEF RefuseBody, Receivable, LogInv, LogOf
    <2>2. rid[c] \in Ids /\ 413 \in Statuses
      BY DEF HeadType, Statuses
    <2> QED BY <2>1, <2>2, CompletedLogs
  <1>5. ASSUME NEW c \in Connections, Respond(c)
        PROVE  LogInv'
    <2> DEFINE cors == req[c].origin \in AllowedOrigins
    <2>1. /\ records[c] = << >> /\ rid' = rid /\ handed' = handed /\ gone' = gone
          /\ Complete(c, rid[c], 200, cors)
      BY <1>5 DEF Respond, LogInv, LogOf
    <2>2. rid[c] \in Ids /\ 200 \in Statuses /\ cors \in BOOLEAN
      BY DEF HeadType, Statuses
    <2> HIDE DEF cors
    <2> QED BY <2>1, <2>2, CompletedLogs
  <1>6. ASSUME NEW c \in Connections, Forward(c) \/ Lost(c) \/ Disconnect(c)
        PROVE  LogInv'
    <2>1. /\ records' = records /\ answer' = answer /\ rid' = rid
          /\ \A u \in Connections \ {c} :
                pc'[u] = pc[u] /\ handed'[u] = handed[u] /\ (u \in gone <=> u \in gone')
      BY <1>6 DEF Forward, Lost, Disconnect, HeadType, BodyType
    <2>2. LogOf(c)'
      BY <1>6 DEF Forward, Lost, Disconnect, HeadType, BodyInv, LogInv, LogOf, LoggedAs
    <2> QED BY <2>1, <2>2, LogFrame DEF LogInv, LogType
  <1>7. ASSUME NEW c \in Connections, Raise(c)
        PROVE  LogInv'
    <2>1. records[c] = << >> /\ answer[c] = NoAnswer
      BY <1>7 DEF Raise, LogInv, LogOf
    <2>2. /\ records' \in [Connections -> Seq([status : Statuses, id : Ids])]
          /\ records'[c] = <<[status |-> 500, id |-> rid[c]]>>
          /\ \A u \in Connections \ {c} : records'[u] = records[u]
      <3> DEFINE entry == [status |-> 500, id |-> rid[c]]
      <3>1. entry \in [status : Statuses, id : Ids]
        BY DEF HeadType, Statuses
      <3>2. LogType /\ records' = [records EXCEPT ![c] = Append(@, entry)]
        BY <1>7 DEF Raise, LogInv
      <3> HIDE DEF entry
      <3>3. records' = [records EXCEPT ![c] = <<entry>>] /\ <<entry>> \in Seq([status : Statuses, id : Ids])
        BY <2>1, <3>1, <3>2, FirstRecord
      <3>4. /\ records' \in [Connections -> Seq([status : Statuses, id : Ids])]
            /\ records'[c] = <<entry>>
            /\ \A u \in Connections \ {c} : records'[u] = records[u]
        BY <3>2, <3>3 DEF LogType
      <3> QED BY <3>4 DEF entry
    <2>3. /\ answer' = answer /\ rid' = rid /\ gone' = gone /\ handed' = handed
          /\ pc'[c] = "failing" /\ \A u \in Connections \ {c} : pc'[u] = pc[u]
      BY <1>7 DEF Raise, HeadType
    <2>4. LogType' /\ LogOf(c)'
      BY <2>1, <2>2, <2>3 DEF LogInv, LogType, LogOf, LoggedAs
    <2> QED BY <2>2, <2>3, <2>4, LogFrame
  <1>8. ASSUME NEW c \in Connections, Unhandled(c)
        PROVE  LogInv'
    <2>1. /\ DOMAIN answer' = Connections /\ answer' = [u \in Connections |-> answer'[u]]
          /\ answer'[c] = [status |-> 500, id |-> rid[c], cors |-> FALSE]
          /\ \A u \in Connections \ {c} : answer'[u] = answer[u]
      BY <1>8, FirstAnswer DEF Unhandled, LogInv
    <2>2. /\ records' = records /\ rid' = rid /\ gone' = gone /\ handed' = handed
          /\ pc'[c] = "send" /\ \A u \in Connections \ {c} : pc'[u] = pc[u]
      BY <1>8 DEF Unhandled, HeadType
    <2>3. LogType'
      BY <2>1, <2>2 DEF LogInv, LogType
    <2>4. LoggedAs(c, 500)'
      <3>1. pc[c] = "failing" /\ LogOf(c)
        BY <1>8 DEF Unhandled, LogInv
      <3>2. LoggedAs(c, 500)
        BY <3>1 DEF LogOf
      <3> QED BY <3>2, <2>2 DEF LoggedAs
    <2>5. LogOf(c)'
      BY <2>1, <2>2, <2>4 DEF LogOf, Statuses, Answers, HeadType
    <2> QED BY <2>1, <2>2, <2>3, <2>5, LogFrame
  <1>9. ASSUME NEW c \in Connections, Finish(c)
        PROVE  LogInv'
    <2>1. /\ DOMAIN answer' = Connections /\ answer' = [u \in Connections |-> answer'[u]]
          /\ answer'[c] = NoAnswer /\ \A u \in Connections \ {c} : answer'[u] = answer[u]
      BY <1>9, FirstAnswer DEF Finish, LogInv
    <2>2. /\ records' \in [Connections -> Seq([status : Statuses, id : Ids])]
          /\ records'[c] = << >> /\ \A u \in Connections \ {c} : records'[u] = records[u]
      <3>1. << >> \in Seq([status : Statuses, id : Ids])
        OBVIOUS
      <3>2. records' = [records EXCEPT ![c] = << >>]
        BY <1>9 DEF Finish
      <3> QED BY <3>1, <3>2 DEF LogInv, LogType
    <2>3. /\ pc'[c] = "idle"
          /\ \A u \in Connections \ {c} :
                pc'[u] = pc[u] /\ rid'[u] = rid[u] /\ handed'[u] = handed[u] /\ (u \in gone <=> u \in gone')
      BY <1>9 DEF Finish, HeadType, BodyType
    <2>4. LogType' /\ LogOf(c)'
      BY <2>1, <2>2, <2>3 DEF LogType, LogOf
    <2> QED BY <2>1, <2>2, <2>3, <2>4, LogFrame
  <1>10. CASE UNCHANGED requestVars
    <2>1. UNCHANGED <<records, answer, pc, rid, handed, gone>>
      BY <1>10 DEF requestVars
    <2>2. LogType'
      BY <2>1 DEF LogInv, LogType
    <2>3. ASSUME NEW c \in Connections PROVE LogOf(c)'
      <3>1. LogOf(c)
        BY DEF LogInv
      <3> QED BY <2>1, <3>1 DEF LogOf, LoggedAs
    <2> QED BY <2>2, <2>3 DEF LogInv
  <1> QED BY <1>1, <1>2, <1>3, <1>4, <1>5, <1>6, <1>7, <1>8, <1>9, <1>10, Steps

-----------------------------------------------------------------------------
(* The theorems.                                                           *)

\* The invariant holds before the first request.
LEMMA Initially == ASSUME Init PROVE IInv
  <1> USE PipelineAssumption DEF Init, NotYet
  <1>1. HeadType /\ BodyType
    BY NoRequestType DEF HeadType, BodyType, PCs, Ids
  <1>2. LogInv
    BY DEF LogInv, LogType, LogOf
  <1>3. IdInv
    BY DEF IdInv
  <1>4. BodyInv
    BY DEF BodyInv
  <1> QED BY <1>1, <1>2, <1>3, <1>4 DEF IInv

\* The inductive invariant holds of the middleware (main.py:140-197).
THEOREM PipelineInvariance == Spec => []IInv
  <1>1. Init => IInv
    BY Initially
  <1>2. IInv /\ [Next]_vars => IInv'
    BY HeadTypeKept, BodyTypeKept, LogKept, IdKept, BodyKept DEF IInv
  <1> QED BY <1>1, <1>2, PTL DEF Spec

\* Type correctness of the middleware's state.
THEOREM PipelineTypeCorrect == Spec => []TypeOK
  <1>1. IInv => TypeOK
    <2> SUFFICES ASSUME IInv PROVE TypeOK
      OBVIOUS
    <2>1. ASSUME NEW c \in Connections PROVE answer[c] \in Answers \cup {NoAnswer}
      BY DEF IInv, HeadType, PCs, LogInv, LogOf
    <2>2. answer \in [Connections -> Answers \cup {NoAnswer}]
      BY <2>1 DEF IInv, LogInv, LogType
    <2> QED BY <2>2 DEF IInv, HeadType, BodyType, LogInv, LogType, TypeOK, Answers
  <1> QED BY <1>1, PipelineInvariance, PTL

\* Every path through the middleware and both exception handlers (main.py:102-112
\* and 185-197) leaves one log record, which agrees with the response; a request
\* whose client left in mid-body is the one exception.
THEOREM ResponsesAreLogged == Spec => []LoggedAsAnswered
  <1>1. IInv => LoggedAsAnswered
    <2> SUFFICES ASSUME IInv, NEW c \in Connections, Answered(c)
                 PROVE  \/ records[c] = <<[status |-> answer[c].status, id |-> answer[c].id]>>
                        \/ records[c] = << >> /\ c \in gone /\ handed[c] = NotYet
      BY DEF LoggedAsAnswered
    <2>1. pc[c] = "send"
      BY DEF IInv, HeadType, PCs, LogInv, LogOf, Answered, NoAnswer, NotYet
    <2> QED BY <2>1 DEF IInv, LogInv, LogOf, LoggedAs
  <1> QED BY <1>1, PipelineInvariance, PTL

\* A response carries the id of its request, the client's or one of its own
\* (request_context.py:10-14).
THEOREM IdsAreTheRequests == Spec => []IdsTellRequestsApart
  <1>1. IInv => IdsTellRequestsApart
    <2> SUFFICES ASSUME IInv PROVE IdsTellRequestsApart
      OBVIOUS
    <2>1. ASSUME NEW c \in Connections, Answered(c)
          PROVE  answer[c].id = rid[c] /\ pc[c] # "idle"
      BY <2>1 DEF IInv, HeadType, PCs, LogInv, LogOf, Answered, NoAnswer, NotYet
    <2> QED BY <2>1 DEF IInv, IdInv, IdsTellRequestsApart
  <1> QED BY <1>1, PipelineInvariance, PTL

\* The body limits (request_limits.py:66-104) let no body through that is too long,
\* and none that is cut short.
THEOREM BodiesAreBounded == Spec => []BodiesWholeAndBounded
  <1>1. IInv => BodiesWholeAndBounded
    BY DEF IInv, BodyInv, BodiesWholeAndBounded
  <1> QED BY <1>1, PipelineInvariance, PTL

-----------------------------------------------------------------------------
(* Counting the requests under way: at most as many as the limiter let in. *)

UnderWay(k) ==
    {c \in Connections :
        pc[c] \in {"read", "app"} /\ Limited(req[c]) /\ Limiter!KeyOf(req[c]) = k}

\* Connections may be infinite, the requests under way are not.
RideInv ==
    /\ now \in Nat
    /\ admitted \in [Limiter!Keys -> Seq(Nat)]
    /\ \A k \in Limiter!Keys :
          IsFiniteSet(UnderWay(k)) /\ Cardinality(UnderWay(k)) <= Len(admitted[k])

\* One admission pays for one more request under way.
LEMMA OneMore ==
    ASSUME NEW S, NEW T, NEW x, NEW n \in Nat, IsFiniteSet(S),
           Cardinality(S) <= n, T \subseteq S \cup {x}
    PROVE  IsFiniteSet(T) /\ Cardinality(T) <= n + 1
  <1>1. /\ IsFiniteSet(S \cup {x}) /\ Cardinality(S) \in Nat
        /\ Cardinality(S \cup {x}) \in {Cardinality(S), Cardinality(S) + 1}
    BY FS_AddElement, FS_CardinalityType, Zenon
  <1>2. /\ IsFiniteSet(T) /\ Cardinality(T) \in Nat
        /\ Cardinality(T) <= Cardinality(S \cup {x})
    BY <1>1, FS_Subset, FS_CardinalityType
  <1> QED BY <1>1, <1>2

\* Fewer requests under way need no admission.
LEMMA NoMore ==
    ASSUME NEW S, NEW T, NEW n \in Nat, NEW m \in Nat, IsFiniteSet(S),
           Cardinality(S) <= n, T \subseteq S, n <= m
    PROVE  IsFiniteSet(T) /\ Cardinality(T) <= m
  <1>1. /\ IsFiniteSet(T) /\ Cardinality(T) \in Nat /\ Cardinality(S) \in Nat
        /\ Cardinality(T) <= Cardinality(S)
    BY FS_Subset, FS_CardinalityType
  <1> QED BY <1>1

\* Where the requests under way do not become more, the count stays right.
LEMMA RideFrame ==
    ASSUME RideInv, now' \in Nat, admitted' = admitted,
           \A k \in Limiter!Keys : UnderWay(k)' \subseteq UnderWay(k)
    PROVE  RideInv'
  <1> SUFFICES ASSUME NEW k \in Limiter!Keys
               PROVE  IsFiniteSet(UnderWay(k)') /\ Cardinality(UnderWay(k)') <= Len(admitted[k])
    BY DEF RideInv
  <1>1. /\ Len(admitted[k]) \in Nat /\ IsFiniteSet(UnderWay(k))
        /\ Cardinality(UnderWay(k)) <= Len(admitted[k])
    BY DEF RideInv
  <1>2. UnderWay(k)' \subseteq UnderWay(k)
    OBVIOUS
  <1> QED BY <1>1, <1>2, NoMore

\* Nobody goes on from the head of a request without having been counted.
LEMMA RideKept == ASSUME HeadType, RideInv, [Next]_vars PROVE RideInv'
  <1> USE DEF HeadType
  <1>1. ASSUME NEW c \in Connections, NEW q \in Requests, Arrive(c, q), Passes(q),
               \A u \in Connections \ {c} : pc'[u] = pc[u]
        PROVE  RideInv'
    <2>1. /\ req'[c] = q
          /\ \A u \in Connections \ {c} : req'[u] = req[u]
      BY <1>1 DEF Arrive
    <2>2. ASSUME NEW k \in Limiter!Keys
          PROVE  /\ UnderWay(k)' \subseteq UnderWay(k) \cup {c}
                 /\ ~(Limited(q) /\ Limiter!KeyOf(q) = k) => UnderWay(k)' \subseteq UnderWay(k)
      BY <1>1, <2>1 DEF UnderWay
    <2>3. CASE Limited(q)
      <3> DEFINE key == Limiter!KeyOf(q)
      <3>1. Limiter!Admit(key) /\ key \in Limiter!Keys
        BY <1>1, <2>3 DEF Passes, Limited, Limiter!Keys
      <3>2. /\ now' = now /\ admitted' = [admitted EXCEPT ![key] = Append(@, now)]
        BY <3>1 DEF Limiter!Admit
      <3> HIDE DEF key
      <3>3. /\ now' \in Nat /\ admitted' \in [Limiter!Keys -> Seq(Nat)]
            /\ Len(admitted'[key]) = Len(admitted[key]) + 1
            /\ \A k \in Limiter!Keys \ {key} : admitted'[k] = admitted[k]
        BY <3>1, <3>2 DEF RideInv
      <3>4. ASSUME NEW k \in Limiter!Keys
            PROVE  IsFiniteSet(UnderWay(k)') /\ Cardinality(UnderWay(k)') <= Len(admitted'[k])
        <4>1. /\ Len(admitted[k]) \in Nat /\ Len(admitted'[k]) \in Nat
              /\ IsFiniteSet(UnderWay(k)) /\ Cardinality(UnderWay(k)) <= Len(admitted[k])
          BY <3>3 DEF RideInv
        <4>2. CASE k = key
          <5>1. UnderWay(k)' \subseteq UnderWay(k) \cup {c}
            BY <2>2
          <5>2. Len(admitted'[k]) = Len(admitted[k]) + 1
            BY <3>3, <4>2
          <5>3. /\ IsFiniteSet(UnderWay(k)')
                /\ Cardinality(UnderWay(k)') <= Len(admitted[k]) + 1
            BY <4>1, <5>1, OneMore
          <5> QED BY <5>2, <5>3
        <4>3. CASE k # key
          <5>1. UnderWay(k)' \subseteq UnderWay(k)
            BY <2>2, <4>3 DEF key
          <5>2. Len(admitted[k]) <= Len(admitted'[k])
            BY <3>3, <4>1, <4>3
          <5> QED BY <4>1, <5>1, <5>2, NoMore
        <4> QED BY <4>2, <4>3
      <3> QED BY <3>3, <3>4 DEF RideInv
    <2>4. CASE ~Limited(q)
      <3>1. now' = now /\ admitted' = admitted
        BY <1>1, <2>4 DEF Passes, limiterVars
      <3> QED BY <2>2, <2>4, <3>1, RideFrame DEF RideInv
    <2> QED BY <2>3, <2>4
  <1>2. ASSUME NEW c \in Connections, now' = now, admitted' = admitted,
               pc'[c] \notin {"read", "app"} \/ (pc[c] = "read" /\ req'[c] = req[c]),
               \A u \in Connections \ {c} : pc'[u] = pc[u] /\ req'[u] = req[u]
        PROVE  RideInv'
    <2>1. ASSUME NEW k \in Limiter!Keys PROVE UnderWay(k)' \subseteq UnderWay(k)
      BY <1>2 DEF UnderWay
    <2> QED BY <1>2, <2>1, RideFrame DEF RideInv
  <1>3. ASSUME NEW c \in Connections, NEW q \in Requests, RefuseOrigin(c, q) \/ RefuseRate(c, q)
        PROVE  RideInv'
    <2>1. now' = now /\ admitted' = admitted
      BY <1>3 DEF RefuseOrigin, RefuseRate, limiterVars, Limiter!Reject
    <2>2. /\ pc'[c] = "send"
          /\ \A u \in Connections \ {c} : pc'[u] = pc[u] /\ req'[u] = req[u]
      BY <1>3 DEF RefuseOrigin, RefuseRate, Refuse, Complete, Arrive
    <2> QED BY <1>2, <2>1, <2>2
  <1>4. ASSUME NEW c \in Connections, NEW q \in Requests, RefuseLength(c, q) \/ Start(c, q)
        PROVE  RideInv'
    <2>1. Arrive(c, q) /\ Passes(q)
      BY <1>4 DEF RefuseLength, Start, Refuse, Continue
    <2>2. \A u \in Connections \ {c} : pc'[u] = pc[u]
      BY <1>4 DEF RefuseLength, Start, Refuse, Complete, Continue
    <2> QED BY <1>1, <2>1, <2>2
  <1>5. ASSUME NEW c \in Connections,
               Step(c) \/ Forward(c) \/ Finish(c) \/ Disconnect(c)
                 \/ \E n \in 1 .. MaxChunk : Buffer(c, n) \/ RefuseBody(c, n)
        PROVE  RideInv'
    <2>1. now' = now /\ admitted' = admitted
      BY <1>5 DEF Step, Lost, Respond, Raise, Unhandled, Forward, Finish, Disconnect, Buffer,
         RefuseBody, limiterVars
    <2>2. \A u \in Connections \ {c} : pc'[u] = pc[u] /\ req'[u] = req[u]
      BY <1>5 DEF Step, Lost, Respond, Raise, Unhandled, Forward, Finish, Disconnect, Buffer,
         RefuseBody, Complete, headVars
    <2>3. pc'[c] \notin {"read", "app"} \/ (pc[c] = "read" /\ req'[c] = req[c])
      BY <1>5 DEF Step, Lost, Respond, Raise, Unhandled, Forward, Finish, Disconnect, Buffer,
         RefuseBody, Receivable, Complete, headVars
    <2> QED BY <1>2, <2>1, <2>2, <2>3
  <1>6. CASE Tick
    <2>1. /\ now' \in Nat /\ admitted' = admitted /\ pc' = pc /\ req' = req
      BY <1>6 DEF Tick, Limiter!Tick, headVars, RideInv
    <2> QED BY <2>1, RideFrame DEF UnderWay
  <1>7. CASE Terminating \/ UNCHANGED vars
    <2>1. /\ now' \in Nat /\ admitted' = admitted /\ pc' = pc /\ req' = req
      BY <1>7 DEF Terminating, vars, limiterVars, headVars, RideInv
    <2> QED BY <2>1, RideFrame DEF UnderWay
  <1> QED BY <1>3, <1>4, <1>5, <1>6, <1>7 DEF Next, Receive

\* The middleware lets nobody past the limiter (main.py:163-169): however requests,
\* bodies, disconnects and windows interleave, those under way with a key are no
\* more than the admissions the limiter has counted for it.
THEOREM NobodyRidesFree == Spec => []NoFreeRide
  <1>1. Init => RideInv
    <2> SUFFICES ASSUME Init PROVE RideInv
      OBVIOUS
    <2>1. now \in Nat /\ admitted = [k \in Limiter!Keys |-> << >>]
      BY DEF Init, Limiter!Init
    <2>2. ASSUME NEW k \in Limiter!Keys
          PROVE  IsFiniteSet(UnderWay(k)) /\ Cardinality(UnderWay(k)) <= Len(admitted[k])
      <3>1. UnderWay(k) = {}
        BY DEF Init, UnderWay
      <3>2. Len(admitted[k]) = 0
        BY <2>1
      <3> QED BY <3>1, <3>2, FS_EmptySet
    <2>3. admitted \in [Limiter!Keys -> Seq(Nat)]
      BY <2>1
    <2> QED BY <2>1, <2>2, <2>3 DEF RideInv
  <1>2. IInv /\ RideInv /\ [Next]_vars => RideInv'
    BY RideKept DEF IInv
  <1>3. RideInv => NoFreeRide
    BY DEF RideInv, NoFreeRide, UnderWay
  <1> QED BY <1>1, <1>2, <1>3, PipelineInvariance, PTL DEF Spec

=============================================================================
