----------------------------- MODULE ServerProofs -----------------------------
(* The invariants of Server for any number of requests and connections, and   *)
(* that it implements ConnectionPool.                                         *)
EXTENDS ServerProps, FiniteSetTheorems, TLAPS

----------------------------------------------------------------------------
(* Answers.                                                                   *)

(* What an outcome must be for its handler to make an answer of it.           *)
Raised(o) ==
    /\ o \in Outcome
    /\ o.raised = "AppError" => o.code \in ErrorCodes

(* The handlers of ExceptionMiddleware make a status and a body.              *)
LEMMA HandledBody ==
    ASSUME NEW o, Raised(o)
    PROVE  /\ Handled(o).status \in Nat
           /\ Handled(o).message \in ErrorCodes \union {"data"}
BY SMT DEF Raised, Outcome, Handled, Body, ValidationHandler,
           HttpExceptionHandler, ErrorCodes

(* Access-Control-Allow-Origin is an origin, "*" or not there.                *)
LEMMA AllowOriginType ==
    ASSUME NEW e, NEW i \in Request
    PROVE  AllowOrigin(e, i) \in Origins \union {Star, Null}
BY DEF AllowOrigin, Request

(* What leaves the middlewares is a response, and has both headers unless the *)
(* exception was an unexpected one, when it has neither.                      *)
LEMMA ResponseHeaders ==
    ASSUME NEW e, NEW i \in Request, NEW t \in TraceIds, NEW o, Raised(o)
    PROVE  /\ ResponseTo(e, i, t, o) \in Response
           /\ o.raised = "Exception" =>
                 /\ ResponseTo(e, i, t, o).trace = Null
                 /\ ResponseTo(e, i, t, o).allow = Null
           /\ o.raised # "Exception" =>
                 /\ ResponseTo(e, i, t, o).trace = t
                 /\ ResponseTo(e, i, t, o).allow = AllowOrigin(e, i)
<1>1. CASE o.raised = "Exception"
    BY <1>1, SMT DEF ResponseTo, Respond, Body, Response, ErrorCodes
<1>2. CASE o.raised # "Exception"
    <2>1. ResponseTo(e, i, t, o) =
            [status |-> Handled(o).status, message |-> Handled(o).message,
             trace |-> t, allow |-> AllowOrigin(e, i)]
        BY <1>2 DEF ResponseTo, Respond
    <2>2. /\ Handled(o).status \in Nat
          /\ Handled(o).message \in ErrorCodes \union {"data"}
        BY HandledBody
    <2> QED
        BY <1>2, <2>1, <2>2, AllowOriginType, SMT DEF Response
<1> QED
    BY <1>1, <1>2

(* The outcomes of a request to a routed endpoint.                            *)
Endings(e) == Outcomes(e) \union {InvalidRequest, LimitExceeded, Unhandled}

(* Each of them can be handled.                                               *)
LEMMA EndingsRaised ==
    ASSUME NEW e \in Endpoints, NEW o \in Endings(e)
    PROVE  Raised(o)
BY SMT DEF Endings, Outcomes, Success, Returns, AppErrors, LoginErrors,
           BearerErrors, InvalidRequest, LimitExceeded, Unhandled, Raise,
           Raised, Outcome, Raisable, ErrorCodes

(* The status and the code of what each of them is turned into go together.   *)
LEMMA EndingsFormat ==
    ASSUME NEW e, NEW i, NEW t, NEW n \in Endpoints, NEW o \in Endings(n)
    PROVE  FormatOf(i, ResponseTo(e, i, t, o))
<1>1. CASE o.raised = "Exception"
    BY <1>1, SMT DEF ResponseTo, Respond, Body, FormatOf, StatusOf, ErrorCodes
<1>2. CASE o.raised # "Exception"
    <2>1. \/ o.raised = "nothing" /\ o.status \in {200, 201}
          \/ o.raised = "AppError" /\ o.code \in ErrorCodes /\ o.status = StatusOf[o.code]
          \/ o.raised = "RequestValidationError"
          \/ o.raised = "RateLimitExceeded"
        BY <1>2, SMT DEF Endings, Outcomes, Success, Returns, AppErrors,
              LoginErrors, BearerErrors, InvalidRequest, LimitExceeded, Unhandled,
              Raise, ErrorCodes, StatusOf
    <2>2. \/ Handled(o).status \in {200, 201} /\ Handled(o).message \notin ErrorCodes
          \/ /\ Handled(o).message \in ErrorCodes
             /\ Handled(o).status = StatusOf[Handled(o).message]
        BY <2>1, SMT DEF Handled, Body, ValidationHandler, ErrorCodes, StatusOf
    <2>3. /\ ResponseTo(e, i, t, o).status = Handled(o).status
          /\ ResponseTo(e, i, t, o).message = Handled(o).message
        BY <1>2 DEF ResponseTo, Respond
    <2> QED
        BY <2>2, <2>3 DEF FormatOf
<1> QED
    BY <1>1, <1>2
----------------------------------------------------------------------------
(* The invariant.                                                             *)

(* What the step of one request may do to the pool: connections move between  *)
(* the request and the pool, and the request ends up with at most one.        *)
Moves(r, q) ==
    /\ q.conns \union idle' = req[r].conns \union idle
    /\ q.conns \intersect idle' = {}
    /\ \A c, d \in q.conns : c = d
    /\ q.conns # {} => q.stage \in {"waiting", "handling", "leaving"}

(* Its trace id is the client's, the one made for it before, or a new one.    *)
TraceKept(r, q) ==
    TraceMade(q) =>
        \/ TraceMade(req[r]) /\ q.trace = req[r].trace
        \/ \A s \in Requests : TraceMade(req[s]) => req[s].trace # q.trace

(* The other variables stay, but for the limiter's counts.                    *)
ProcessStays ==
    /\ phase # "down"
    /\ phase' = phase /\ starts' = starts /\ env' = env /\ database' = database
    /\ idle' \subseteq Conns
    /\ hits' \in [Clients -> 0..RootLimit]

(* A step of request r whose new record is in order keeps the invariant.      *)
LEMMA StepOfRequest ==
    ASSUME ServerInv, ServerConstants, PipelineConstants,
           NEW r \in Requests, NEW q \in RequestRecord,
           req' = [req EXCEPT ![r] = q],
           ProcessStays, Moves(r, q), TraceKept(r, q),
           RecordOk(q)
    PROVE  ServerInv'
<1>1. req' \in [Requests -> RequestRecord]
    BY DEF ServerInv, ServerTypeOK
<1>2. /\ req'[r] = q
      /\ \A s \in Requests \ {r} : req'[s] = req[s]
    BY DEF ServerInv, ServerTypeOK
<1>3. ServerTypeOK'
    BY <1>1, Zenon DEF ServerInv, ServerTypeOK, ProcessStays
<1>4. ConnectionsAccounted'
    <2>1. ASSUME NEW s \in Requests
          PROVE  /\ req'[s].conns # {} => s \in InFlight'
                 /\ req'[s].conns \intersect idle' = {}
                 /\ \A c, d \in req'[s].conns : c = d
                 /\ \A u \in Requests \ {s} : req'[s].conns \intersect req'[u].conns = {}
        <3>1. \A u \in Requests \ {r} : q.conns \intersect req[u].conns = {}
            BY SMT DEF ServerInv, ConnectionsAccounted, Moves
        <3>2. \A u \in Requests \ {r} : req[u].conns \intersect idle' = {}
            BY SMT DEF ServerInv, ConnectionsAccounted, Moves
        <3>3. \A u \in Requests \ {r} : req[u].conns # {} => u \in InFlight'
            BY <1>2, SMT DEF ServerInv, ConnectionsAccounted, InFlight
        <3>4. q.conns # {} => r \in InFlight'
            BY <1>2 DEF Moves, InFlight
        <3>5. CASE s = r
            BY <3>5, <1>2, <3>1, <3>4, SMT DEF Moves
        <3>6. CASE s # r
            BY <3>6, <1>2, <3>1, <3>2, <3>3, SMT DEF ServerInv, ConnectionsAccounted
        <3> QED
            BY <3>5, <3>6
    <2>2. ASSUME NEW c \in Conns
          PROVE  c \in idle' \/ \E s \in InFlight' : c \in req'[s].conns
        <3>1. c \in idle \/ \E s \in Requests : c \in req[s].conns
            BY SMT DEF ServerInv, ConnectionsAccounted, ProcessStays, InFlight
        <3>2. c \in idle' \/ \E s \in Requests : c \in req'[s].conns
            BY <3>1, <1>2, SMT DEF Moves
        <3> QED
            BY <3>2, <2>1
    <2> QED
        BY <2>1, <2>2, Zenon DEF ConnectionsAccounted, ProcessStays
<1>5. ASSUME NEW s \in Requests
      PROVE  RecordOk(req[s])'
    <2>1. CASE s = r
        BY <2>1, <1>2, SMT DEF RecordOk, HeadersOf, ProcessStays
    <2>2. CASE s # r
        BY <2>2, <1>2, SMT DEF ServerInv, RecordOk, HeadersOf, ProcessStays
    <2> QED
        BY <2>1, <2>2
<1>6. UuidsDiffer'
    <2>1. \A u, s \in Requests :
             u # s /\ TraceMade(req'[u]) /\ TraceMade(req'[s])
                => req'[s].trace # req'[u].trace
        BY <1>2, Zenon DEF ServerInv, UuidsDiffer, TraceKept
    <2>2. \A u \in Requests : TraceMade(req'[u]) <=> TraceMade(req[u])'
        BY DEF TraceMade
    <2> QED
        BY <2>1, <2>2 DEF UuidsDiffer
<1> QED
    BY <1>3, <1>4, <1>5, <1>6 DEF ServerInv
(* The record of a request that has arrived: its trace id is new or the       *)
(* client's.                                                                  *)
LEMMA TraceOfArrival ==
    ASSUME ServerInv, ServerConstants, PipelineConstants,
           NEW r \in Requests, req[r].stage = "new", NEW i \in Inputs,
           NEW t \in TraceIdsFor(i, UsedTraceIds)
    PROVE  /\ i \in Request /\ t \in TraceIds
           /\ \/ i.traceHeader # Null /\ t = i.traceHeader
              \/ i.traceHeader = Null /\ t \in UuidHexes
           /\ \/ i.traceHeader # Null
              \/ \A s \in Requests : TraceMade(req[s]) => req[s].trace # t
<1>1. i \in Request
    BY DEF ServerConstants
<1>2. i.traceHeader \in ClientIds \union {Null}
    BY <1>1 DEF Request
<1> QED
    BY <1>1, <1>2, SMT DEF TraceIdsFor, UsedTraceIds, TraceIds

(* A request that goes on to its dependencies.                                *)
LEMMA EntersKeeps ==
    ASSUME ServerInv, ServerConstants, PipelineConstants,
           NEW r \in Requests, Accepts(r), NEW i \in Inputs,
           NEW t \in TraceIdsFor(i, UsedTraceIds),
           SolveDependencies(r, i, t)
    PROVE  ServerInv'
<1> DEFINE st == IF ConnectionsOf(i.endpoint) = 0 THEN "handling" ELSE "waiting"
           q == Entered(st, i, t, Null, Null, Null)
<1>1. /\ i \in Request /\ t \in TraceIds
      /\ \/ i.traceHeader # Null /\ t = i.traceHeader
         \/ i.traceHeader = Null /\ t \in UuidHexes
      /\ \/ i.traceHeader # Null
         \/ \A s \in Requests : TraceMade(req[s]) => req[s].trace # t
    BY TraceOfArrival, Zenon DEF Accepts
<1>2. st \in {"waiting", "handling"}
    OBVIOUS
<1>3. req' = [req EXCEPT ![r] = q] /\ UNCHANGED <<phase, starts, env, database, idle, hits>>
    BY Zenon DEF SolveDependencies, Enters
<1>4. q \in RequestRecord
    BY <1>1, <1>2, SMT DEF RequestRecord, Entered
<1>5. RecordOk(q)
    <2>1. i.endpoint \in Endpoints
        BY Zenon DEF SolveDependencies
    <2>2. st = "waiting" => ConnectionsOf(i.endpoint) = 1
        BY DEF ConnectionsOf
    <2> HIDE DEF st
    <2> QED
        BY <1>1, <1>2, <2>1, <2>2, SMT DEF RecordOk, Entered
<1>6. ProcessStays
    BY <1>3, SMT DEF ProcessStays, ServerInv, ServerTypeOK, Accepts
<1>7. Moves(r, q)
    BY <1>3, SMT DEF Moves, ServerInv, RecordOk, Accepts, Entered
<1>8. TraceKept(r, q)
    BY <1>1, Zenon DEF TraceKept, TraceMade, Entered
<1> HIDE DEF q
<1> QED
    BY <1>3, <1>4, <1>5, <1>6, <1>7, <1>8, StepOfRequest, Zenon

(* A request that is answered at once, with answer a to outcome x and log     *)
(* entry l.                                                                   *)
LEMMA EntersAnsweredKeeps ==
    ASSUME ServerInv, ServerConstants, PipelineConstants,
           NEW r \in Requests, Accepts(r), NEW i \in Inputs,
           NEW t \in TraceIdsFor(i, UsedTraceIds),
           NEW a \in Response, NEW l \in {t, Null},
           NEW x \in Raisable, x # "Exception",
           a.trace = t, a.allow = AllowOrigin(env, i), FormatOf(i, a),
           Enters(r, Entered("done", i, t, l, x, a))
    PROVE  ServerInv'
<1> DEFINE q == Entered("done", i, t, l, x, a)
<1>1. /\ i \in Request /\ t \in TraceIds
      /\ \/ i.traceHeader # Null /\ t = i.traceHeader
         \/ i.traceHeader = Null /\ t \in UuidHexes
      /\ \/ i.traceHeader # Null
         \/ \A s \in Requests : TraceMade(req[s]) => req[s].trace # t
    BY TraceOfArrival, Zenon DEF Accepts
<1>3. req' = [req EXCEPT ![r] = q] /\ UNCHANGED <<phase, starts, env, database, idle, hits>>
    BY Zenon DEF Enters
<1>4. q \in RequestRecord
    BY <1>1, SMT DEF RequestRecord, Entered
<1>5. RecordOk(q)
    BY <1>1, SMT DEF RecordOk, HeadersOf, Entered
<1>6. ProcessStays
    BY <1>3, SMT DEF ProcessStays, ServerInv, ServerTypeOK, Accepts
<1>7. Moves(r, q)
    BY <1>3, SMT DEF Moves, ServerInv, RecordOk, Accepts, Entered
<1>8. TraceKept(r, q)
    BY <1>1, Zenon DEF TraceKept, TraceMade, Entered
<1> HIDE DEF q
<1> QED
    BY <1>3, <1>4, <1>5, <1>6, <1>7, <1>8, StepOfRequest, Zenon

(* What the router raises, and what is answered.                              *)
RouterRaises(i) == Raise("HTTPException", RouterStatus(i.endpoint), Null)

LEMMA UnroutedAnswer ==
    ASSUME NEW e, NEW i \in Request, NEW t \in TraceIds,
           i.endpoint \in Unrouted, ~i.preflight
    PROVE  /\ ResponseTo(e, i, t, RouterRaises(i)) \in Response
           /\ FormatOf(i, ResponseTo(e, i, t, RouterRaises(i)))
           /\ ResponseTo(e, i, t, RouterRaises(i)).trace = t
           /\ ResponseTo(e, i, t, RouterRaises(i)).allow = AllowOrigin(e, i)
<1> DEFINE oc == RouterRaises(i)
<1>1. RouterStatus(i.endpoint) \in {404, 405}
    BY DEF RouterStatus
<1>2. /\ oc.raised = "HTTPException" /\ oc.code = Null
      /\ oc.status = RouterStatus(i.endpoint)
    BY DEF Raise, RouterRaises
<1>3. Raised(oc)
    BY <1>1, <1>2, SMT DEF Raised, Raise, Outcome, Raisable, RouterRaises
<1>4. ResponseTo(e, i, t, oc) \in Response
    BY <1>3, ResponseHeaders
<1>5. /\ Handled(oc).status = RouterStatus(i.endpoint)
      /\ Handled(oc).message = "INTERNAL_ERROR"
    BY <1>1, <1>2, SMT DEF Handled, HttpExceptionHandler, Body
<1>6. /\ ResponseTo(e, i, t, oc).status = Handled(oc).status
      /\ ResponseTo(e, i, t, oc).message = Handled(oc).message
      /\ ResponseTo(e, i, t, oc).trace = t
      /\ ResponseTo(e, i, t, oc).allow = AllowOrigin(e, i)
    BY <1>2 DEF ResponseTo, Respond
<1> QED
    BY <1>4, <1>5, <1>6 DEF FormatOf

(* Arrivals keep the invariant.                                               *)
LEMMA ReceiveKeeps ==
    ASSUME ServerInv, ServerConstants, PipelineConstants,
           NEW r \in Requests, Receive(r)
    PROVE  ServerInv'
<1>1. PICK i \in Inputs : \E t \in TraceIdsFor(i, UsedTraceIds) :
          \/ AnswerPreflight(r, i, t)
          \/ AnswerUnrouted(r, i, t)
          \/ AnswerUnparsed(r, i, t)
          \/ SolveDependencies(r, i, t)
    BY Zenon DEF Receive
<1>2. PICK t \in TraceIdsFor(i, UsedTraceIds) :
          \/ AnswerPreflight(r, i, t)
          \/ AnswerUnrouted(r, i, t)
          \/ AnswerUnparsed(r, i, t)
          \/ SolveDependencies(r, i, t)
    BY <1>1, Zenon
<1>3. Accepts(r)
    BY Zenon DEF Receive
<1>4. i \in Request /\ t \in TraceIds
    BY <1>3, TraceOfArrival, Zenon DEF Accepts
<1>5. CASE AnswerPreflight(r, i, t)
    <2> DEFINE a == PreflightResponse(env, i, t)
    <2>1. a \in Response
        BY <1>4, AllowOriginType, SMT DEF PreflightResponse, Respond, Body, Response
    <2>2. a.trace = t /\ a.allow = AllowOrigin(env, i)
        BY SMT DEF PreflightResponse, Respond
    <2>3. FormatOf(i, a)
        BY <1>5, SMT DEF AnswerPreflight, PreflightResponse, Respond, Body,
                         FormatOf, ErrorCodes
    <2>4. Enters(r, Entered("done", i, t, Null, "nothing", a))
        BY <1>5, Zenon DEF AnswerPreflight
    <2>5. "nothing" \in Raisable /\ "nothing" # "Exception"
        BY DEF Raisable
    <2> HIDE DEF a
    <2> QED
        BY <1>3, <2>1, <2>2, <2>3, <2>4, <2>5, EntersAnsweredKeeps, Zenon
<1>6. CASE AnswerUnrouted(r, i, t)
    <2> DEFINE a == ResponseTo(env, i, t, RouterRaises(i))
    <2>1. i.endpoint \in Unrouted /\ ~i.preflight
        BY <1>6, Zenon DEF AnswerUnrouted
    <2>2. /\ a \in Response /\ FormatOf(i, a)
          /\ a.trace = t /\ a.allow = AllowOrigin(env, i)
        BY <1>4, <2>1, UnroutedAnswer, ZenonT(30)
    <2>3. Enters(r, Entered("done", i, t, Null, RouterRaises(i).raised, a))
        BY <1>6, Zenon DEF AnswerUnrouted, RouterRaises
    <2>4. RouterRaises(i).raised = "HTTPException"
        BY DEF RouterRaises, Raise
    <2>5. Enters(r, Entered("done", i, t, Null, "HTTPException", a))
        BY <2>3, <2>4
    <2>6. "HTTPException" \in Raisable /\ "HTTPException" # "Exception"
        BY DEF Raisable
    <2> HIDE DEF a
    <2> QED
        BY <1>3, <2>2, <2>5, <2>6, EntersAnsweredKeeps, Zenon
<1>7. CASE AnswerUnparsed(r, i, t)
    <2> DEFINE a == ResponseTo(env, i, t, InvalidRequest)
    <2>1. "root" \in Endpoints /\ InvalidRequest \in Endings("root")
        BY DEF Endpoints, Endings
    <2>2. Raised(InvalidRequest)
        BY <2>1, EndingsRaised
    <2>3. a \in Response
        BY <2>2, <1>4, ResponseHeaders
    <2>4. InvalidRequest.raised \in Raisable /\ InvalidRequest.raised # "Exception"
        BY DEF InvalidRequest, Raise, Raisable
    <2>5. a.trace = t /\ a.allow = AllowOrigin(env, i)
        BY <2>4 DEF ResponseTo, Respond
    <2>6. FormatOf(i, a)
        BY <2>1, EndingsFormat
    <2>7. Enters(r, Entered("done", i, t, t, InvalidRequest.raised, a))
        BY <1>7, Zenon DEF AnswerUnparsed, GetTraceId
    <2> HIDE DEF a
    <2> QED
        BY <1>3, <2>3, <2>4, <2>5, <2>6, <2>7, EntersAnsweredKeeps, Zenon
<1>8. CASE SolveDependencies(r, i, t)
    BY <1>3, <1>8, EntersKeeps, Zenon
<1> QED
    BY <1>2, <1>5, <1>6, <1>7, <1>8

(* What Ends does, given what was raised, the answer and the log entry.       *)
EndsWith(r, x, a, l) ==
    req' = [req EXCEPT ![r].stage = "leaving", ![r].raised = x, ![r].answer = a,
                       ![r].logged = l]

(* A request whose dependencies or handler have ended in outcome o, and which *)
(* gets answer a and log entry l.                                             *)
LEMMA AnsweredKeeps ==
    ASSUME ServerInv, ServerConstants, PipelineConstants,
           NEW r \in Requests, req[r].stage \in {"waiting", "handling"},
           NEW o \in Endings(Endpoint(r)),
           NEW i, i = req[r].input, NEW t, t = req[r].trace,
           NEW a, a = ResponseTo(env, i, t, o), NEW l \in {t, Null},
           EndsWith(r, o.raised, a, l), idle' = idle, ProcessStays
    PROVE  ServerInv'
<1> DEFINE q == [req[r] EXCEPT !.stage = "leaving", !.raised = o.raised,
                               !.answer = a, !.logged = l]
<1>1. /\ req \in [Requests -> RequestRecord] /\ req[r] \in RequestRecord
      /\ RecordOk(req[r])
    BY Zenon DEF ServerInv, ServerTypeOK
<1>2. /\ i \in Inputs /\ i \in Request /\ i.endpoint \in Endpoints
      /\ \/ i.traceHeader # Null /\ t = i.traceHeader
         \/ i.traceHeader = Null /\ t \in UuidHexes
    BY <1>1, SMT DEF RecordOk, ServerConstants
<1>3. t \in TraceIds
    <2>1. i.traceHeader \in ClientIds \union {Null}
        BY <1>2 DEF Request
    <2> QED
        BY <1>2, <2>1 DEF TraceIds
<1>4. o \in Endings(i.endpoint)
    BY Zenon DEF Endpoint
<1>5. Raised(o)
    BY <1>2, <1>4, EndingsRaised, Zenon
<1>6. /\ a \in Response
      /\ o.raised = "Exception" => a.trace = Null /\ a.allow = Null
      /\ o.raised # "Exception" => a.trace = t /\ a.allow = AllowOrigin(env, i)
    BY <1>2, <1>3, <1>5, ResponseHeaders
<1>7. FormatOf(i, a)
    BY <1>2, <1>4, EndingsFormat
<1>8. /\ q.stage = "leaving" /\ q.input = i /\ q.trace = t
      /\ q.conns = req[r].conns /\ q.logged = l /\ q.answer = a
      /\ q.raised = o.raised
    BY <1>1, SMT DEF RequestRecord
<1>9. req' = [req EXCEPT ![r] = q]
    BY Zenon DEF EndsWith
<1>10. q \in RequestRecord
    <2>1. /\ l \in TraceIds \union {Null} /\ a \in Response \union {Null}
          /\ o.raised \in Raisable \union {Null}
        BY <1>3, <1>5, <1>6 DEF Raised, Outcome
    <2> QED
        BY <1>1, <2>1, Zenon DEF RequestRecord
<1> HIDE DEF q
<1>11. RecordOk(q)
    <2>1. HeadersOf(q)
        BY <1>6, <1>8, SMT DEF HeadersOf
    <2> QED
        BY <2>1, <1>2, <1>7, <1>8, SMT DEF RecordOk
<1>12. Moves(r, q)
    BY <1>8, SMT DEF Moves, ServerInv, ConnectionsAccounted
<1>13. TraceKept(r, q)
    <2>1. req[r].stage # "new"
        OBVIOUS
    <2> QED
        BY <1>8, <2>1, Zenon DEF TraceKept, TraceMade
<1> QED
    BY <1>9, <1>10, <1>11, <1>12, <1>13, StepOfRequest, Zenon

(* The same of Ends.                                                          *)
LEMMA EndsKeeps ==
    ASSUME ServerInv, ServerConstants, PipelineConstants,
           NEW r \in Requests, req[r].stage \in {"waiting", "handling"},
           NEW o \in Endings(Endpoint(r)), Ends(r, o),
           idle' = idle, ProcessStays
    PROVE  ServerInv'
<1> DEFINE entry == IF Logs(r, o) THEN req[r].trace ELSE Null
           answered == ResponseTo(env, req[r].input, req[r].trace, o)
<1>1. entry \in {req[r].trace, Null}
    OBVIOUS
<1>2. EndsWith(r, o.raised, answered, entry)
    BY Zenon DEF Ends, EndsWith, GetTraceId
<1>3. answered = ResponseTo(env, req[r].input, req[r].trace, o)
    OBVIOUS
<1> HIDE DEF entry, answered
<1> QED
    BY <1>1, <1>2, <1>3, AnsweredKeeps, ZenonT(30)

(* A request that gives up on its connection.                                 *)
LEMMA AcquireFailsKeeps ==
    ASSUME ServerInv, ServerConstants, PipelineConstants,
           NEW r \in Requests, AcquireFails(r)
    PROVE  ServerInv'
<1>1. /\ req[r].stage = "waiting" /\ idle # {} /\ Ends(r, Unhandled)
      /\ UNCHANGED <<phase, starts, env, database, idle, hits>>
    BY Zenon DEF AcquireFails
<1>2. Unhandled \in Endings(Endpoint(r))
    BY DEF Endings
<1>3. ProcessStays
    BY <1>1, SMT DEF ProcessStays, ServerInv, ServerTypeOK, ConnectionsAccounted
<1> QED
    BY <1>1, <1>2, <1>3, EndsKeeps

(* A request in flight belongs to a running process.                          *)
LEMMA FlightInProcess ==
    ASSUME ServerInv, ServerConstants, PipelineConstants, NEW r \in Requests,
           req[r].stage \in {"waiting", "handling", "leaving"}
    PROVE  /\ phase # "down" /\ idle \subseteq Conns
           /\ hits \in [Clients -> 0..RootLimit]
           /\ req[r].input \in Request
<1>1. r \in InFlight
    BY DEF InFlight
<1>2. phase # "down"
    BY <1>1, Zenon DEF ServerInv, ConnectionsAccounted
<1>3. RecordOk(req[r])
    BY Zenon DEF ServerInv
<1>4. req[r].input \in Request
    BY <1>3, SMT DEF RecordOk, ServerConstants
<1> QED
    BY <1>2, <1>4, Zenon DEF ServerInv, ServerTypeOK

(* The rate-limited endpoint counts up to its limit.                          *)
LEMMA HandleRootKeeps ==
    ASSUME ServerInv, ServerConstants, PipelineConstants,
           NEW r \in Requests, HandleRoot(r)
    PROVE  ServerInv'
<1>1. /\ req[r].stage = "handling" /\ Endpoint(r) = "root"
      /\ UNCHANGED <<phase, starts, env, database, idle>>
    BY Zenon DEF HandleRoot
<1>2. /\ phase # "down" /\ idle \subseteq Conns
      /\ hits \in [Clients -> 0..RootLimit] /\ req[r].input \in Request
    BY <1>1, FlightInProcess
<1> DEFINE c == req[r].input.client
<1>3. c \in Clients
    BY <1>2 DEF Request
<1>4. CASE hits[c] < RootLimit /\ hits' = [hits EXCEPT ![c] = @ + 1]
           /\ Ends(r, Success("root"))
    <2>1. hits' \in [Clients -> 0..RootLimit]
        BY <1>2, <1>3, <1>4, SMT DEF ServerConstants
    <2>2. Success("root") \in Endings(Endpoint(r))
        BY <1>1, Zenon DEF Endings, Outcomes
    <2>3. ProcessStays
        BY <1>1, <1>2, <2>1 DEF ProcessStays
    <2> QED
        BY <1>1, <1>4, <2>2, <2>3, EndsKeeps
<1>5. CASE Ends(r, LimitExceeded) /\ UNCHANGED hits
    <2>1. LimitExceeded \in Endings(Endpoint(r))
        BY DEF Endings
    <2>2. ProcessStays
        BY <1>1, <1>2, <1>5 DEF ProcessStays
    <2> QED
        BY <1>1, <1>5, <2>1, <2>2, EndsKeeps
<1> QED
    BY <1>4, <1>5, Zenon DEF HandleRoot

(* Refusals and handlers.                                                     *)
LEMMA HandlersKeep ==
    ASSUME ServerInv, ServerConstants, PipelineConstants,
           NEW r \in Requests, RefuseInput(r) \/ Handle(r)
    PROVE  ServerInv'
<1>1. /\ req[r].stage = "handling"
      /\ UNCHANGED <<phase, starts, env, database, idle, hits>>
    BY Zenon DEF RefuseInput, Handle
<1>2. PICK o \in Endings(Endpoint(r)) : Ends(r, o)
    BY Zenon DEF RefuseInput, Handle, Endings
<1>3. ProcessStays
    BY <1>1, FlightInProcess DEF ProcessStays
<1> QED
    BY <1>1, <1>2, <1>3, EndsKeeps

(* A request that gets its connection.                                        *)
LEMMA AcquireKeeps ==
    ASSUME ServerInv, ServerConstants, PipelineConstants,
           NEW r \in Requests, NEW c \in Conns, Acquire(r, c)
    PROVE  ServerInv'
<1> DEFINE q == [req[r] EXCEPT !.conns = {c}, !.stage = "handling"]
           got == req[r].conns \union {c}
           next == IF Cardinality(got) = ConnectionsOf(Endpoint(r))
                   THEN "handling" ELSE "waiting"
<1>1. /\ req[r] \in RequestRecord /\ RecordOk(req[r])
      /\ req \in [Requests -> RequestRecord]
    BY Zenon DEF ServerInv, ServerTypeOK
<1>2. /\ req[r].stage = "waiting" /\ c \in idle /\ idle' = idle \ {c}
      /\ UNCHANGED <<phase, starts, env, database, hits>>
    BY Zenon DEF Acquire
<1>3. got = {c} /\ ConnectionsOf(Endpoint(r)) = 1
    BY <1>1, <1>2, SMT DEF RecordOk, Endpoint
<1>4. next = "handling"
    <2>1. Cardinality({c}) = 1
        BY FS_Singleton
    <2>2. Cardinality(got) = ConnectionsOf(Endpoint(r))
        BY <2>1, <1>3
    <2> HIDE DEF got
    <2> QED
        BY <2>2, Zenon
<1>5. req' = [req EXCEPT ![r] = q]
    <2>1. req' = [req EXCEPT ![r].conns = got, ![r].stage = next]
        BY Zenon DEF Acquire
    <2> HIDE DEF got, next
    <2> QED
        BY <2>1, <1>3, <1>4, Zenon
<1>6. /\ q.stage = "handling" /\ q.conns = {c} /\ q.input = req[r].input
      /\ q.trace = req[r].trace /\ q.logged = req[r].logged
      /\ q.raised = req[r].raised /\ q.answer = req[r].answer
    BY <1>1, SMT DEF RequestRecord
<1>7. q \in RequestRecord
    BY <1>1, Zenon DEF RequestRecord
<1> HIDE DEF q
<1>8. RecordOk(q)
    BY <1>1, <1>2, <1>6, SMT DEF RecordOk, HeadersOf
<1>9. req[r].conns = {}
    BY <1>1, <1>2 DEF RecordOk
<1>10. Moves(r, q)
    BY <1>2, <1>6, <1>9, SMT DEF Moves
<1>11. ProcessStays
    BY <1>2, FlightInProcess, SMT DEF ProcessStays
<1>12. TraceKept(r, q)
    <2>1. req[r].stage # "new"
        BY <1>2
    <2> QED
        BY <1>6, <2>1, Zenon DEF TraceKept, TraceMade
<1> QED
    BY <1>5, <1>7, <1>8, <1>10, <1>11, <1>12, StepOfRequest, Zenon

(* A request that leaves, with or without a connection.                       *)
LEMMA LeaveKeeps ==
    ASSUME ServerInv, ServerConstants, PipelineConstants,
           NEW r \in Requests, Leave(r)
    PROVE  ServerInv'
<1> DEFINE q == [req[r] EXCEPT !.stage = "done", !.conns = {}]
<1>1. /\ req[r] \in RequestRecord /\ RecordOk(req[r])
      /\ req \in [Requests -> RequestRecord]
    BY Zenon DEF ServerInv, ServerTypeOK
<1>2. /\ req[r].stage = "leaving" /\ idle' = idle \union req[r].conns
      /\ UNCHANGED <<phase, starts, env, database, hits>>
    BY Zenon DEF Leave
<1>3. req' = [req EXCEPT ![r] = q]
    BY Zenon DEF Leave
<1>4. /\ q.stage = "done" /\ q.conns = {} /\ q.input = req[r].input
      /\ q.trace = req[r].trace /\ q.logged = req[r].logged
      /\ q.raised = req[r].raised /\ q.answer = req[r].answer
    BY <1>1, SMT DEF RequestRecord
<1>5. q \in RequestRecord
    BY <1>1, Zenon DEF RequestRecord
<1> HIDE DEF q
<1>6. RecordOk(q)
    BY <1>1, <1>2, <1>4, SMT DEF RecordOk, HeadersOf
<1>7. Moves(r, q)
    BY <1>2, <1>4, SMT DEF Moves
<1>8. req[r].conns \subseteq Conns
    BY <1>1 DEF RequestRecord
<1>9. ProcessStays
    BY <1>2, <1>8, FlightInProcess, SMT DEF ProcessStays
<1>10. TraceKept(r, q)
    <2>1. req[r].stage # "new"
        BY <1>2
    <2> QED
        BY <1>4, <2>1, Zenon DEF TraceKept, TraceMade
<1> QED
    BY <1>3, <1>5, <1>6, <1>7, <1>9, <1>10, StepOfRequest, Zenon

(* Every step of a request.                                                   *)
LEMMA RequestsKeep ==
    ASSUME ServerInv, ServerConstants, PipelineConstants,
           NEW r \in Requests, Receive(r) \/ Proceed(r)
    PROVE  ServerInv'
<1>1. CASE Receive(r)
    BY <1>1, ReceiveKeeps
<1>2. CASE \E c \in Conns : Acquire(r, c)
    BY <1>2, AcquireKeeps
<1>3. CASE AcquireFails(r)
    BY <1>3, AcquireFailsKeeps
<1>4. CASE HandleRoot(r)
    BY <1>4, HandleRootKeeps
<1>5. CASE RefuseInput(r) \/ Handle(r)
    BY <1>5, HandlersKeep
<1>6. CASE Leave(r)
    BY <1>6, LeaveKeeps
<1> QED
    BY <1>1, <1>2, <1>3, <1>4, <1>5, <1>6, Zenon DEF Proceed

----------------------------------------------------------------------------
(* The steps of the process.                                                  *)

(* What depends on the requests and on the environment alone.                 *)
LEMMA RequestsStay ==
    ASSUME ServerInv, req' = req, env' = env
    PROVE  /\ (\A r \in Requests : RecordOk(req[r]))' /\ UuidsDiffer'
           /\ req' \in [Requests -> RequestRecord] /\ env' \in Environments
           /\ InFlight' = InFlight
<1>1. ASSUME NEW r \in Requests
      PROVE  RecordOk(req[r])'
    BY SMT DEF ServerInv, RecordOk, HeadersOf
<1> QED
    BY <1>1, Zenon DEF ServerInv, ServerTypeOK, UuidsDiffer, InFlight

(* Starting: the pool is full, and nobody is there to hold a connection.      *)
LEMMA StartKeeps ==
    ASSUME ServerInv, ServerConstants, Start
    PROVE  ServerInv'
<1>1. /\ phase = "down" /\ starts < MaxStarts /\ database
      /\ phase' = "serving" /\ starts' = starts + 1 /\ idle' = Conns
      /\ hits' = [c \in Clients |-> 0] /\ env' = env /\ req' = req
      /\ database' = database
    BY Zenon DEF Start
<1>2. \A r \in Requests : req[r].conns = {}
    BY <1>1, SMT DEF ServerInv, ConnectionsAccounted
<1>3. starts' \in 0..MaxStarts
    BY <1>1, SMT DEF ServerInv, ServerTypeOK, ServerConstants
<1>4. hits' \in [Clients -> 0..RootLimit]
    BY <1>1, SMT DEF ServerConstants
<1>5. database' \in BOOLEAN
    BY <1>1, Zenon DEF ServerInv, ServerTypeOK
<1>6. ServerTypeOK'
    BY <1>1, <1>3, <1>4, <1>5, RequestsStay, Zenon DEF ServerTypeOK
<1>7. ConnectionsAccounted'
    BY <1>1, <1>2, SMT DEF ConnectionsAccounted
<1> QED
    BY <1>1, <1>6, <1>7, RequestsStay, Zenon DEF ServerInv

(* Steps that leave pool and requests alone.                                  *)
LEMMA QuietSteps ==
    ASSUME ServerInv, ServerConstants,
           Stop \/ Toggle \/ Retired \/ UNCHANGED serverVars
              \/ \E c \in Clients : WindowEnds(c)
    PROVE  ServerInv'
<1>1. req' = req /\ env' = env /\ idle' = idle /\ starts' = starts
    BY Zenon DEF Stop, Toggle, WindowEnds, Retired, serverVars
<1>2. /\ phase' \in {"down", "serving", "finishing"}
      /\ phase' = "down" <=> phase = "down"
    BY SMT DEF Stop, Toggle, WindowEnds, Retired, serverVars, ServerInv, ServerTypeOK
<1>3. hits' \in [Clients -> 0..RootLimit]
    <2>1. CASE hits' = hits
        BY <2>1, Zenon DEF ServerInv, ServerTypeOK
    <2>2. CASE \E c \in Clients : WindowEnds(c)
        BY <2>2, SMT DEF WindowEnds, ServerInv, ServerTypeOK, ServerConstants
    <2> QED
        BY <2>1, <2>2, Zenon DEF Stop, Toggle, Retired, serverVars
<1>4. database' \in BOOLEAN
    BY Zenon DEF Stop, Toggle, WindowEnds, Retired, serverVars, ServerInv, ServerTypeOK
<1>5. ServerTypeOK'
    BY <1>1, <1>2, <1>3, <1>4, RequestsStay, Zenon DEF ServerTypeOK, ServerInv
<1>6. ConnectionsAccounted'
    BY <1>1, <1>2, RequestsStay, SMT DEF ConnectionsAccounted, ServerInv
<1> QED
    BY <1>1, <1>5, <1>6, RequestsStay, Zenon DEF ServerInv

(* Closing the pool, when nobody is in flight.                                *)
LEMMA ClosePoolKeeps ==
    ASSUME ServerInv, ServerConstants, ClosePool
    PROVE  ServerInv'
<1>1. /\ InFlight = {} /\ phase' = "down" /\ idle' = {}
      /\ UNCHANGED <<starts, env, database, hits, req>>
    BY Zenon DEF ClosePool
<1>2. ServerTypeOK'
    BY <1>1, RequestsStay, SMT DEF ServerTypeOK, ServerInv
<1>3. ConnectionsAccounted'
    BY <1>1, RequestsStay, SMT DEF ConnectionsAccounted, ServerInv
<1> QED
    BY <1>1, <1>2, <1>3, RequestsStay, Zenon DEF ServerInv

(* The process dies: its requests are dropped, with their connections.        *)
LEMMA DieKeeps ==
    ASSUME ServerInv, ServerConstants, Die
    PROVE  ServerInv'
<1>1. /\ phase' = "down" /\ idle' = {}
      /\ UNCHANGED <<starts, env, database, hits>>
      /\ req' = [r \in Requests |->
                   IF r \in InFlight
                   THEN [req[r] EXCEPT !.stage = "dropped", !.conns = {}]
                   ELSE req[r]]
    BY Zenon DEF Die
<1>2. ASSUME NEW r \in Requests
      PROVE  /\ req'[r] \in RequestRecord /\ RecordOk(req[r])'
             /\ req'[r].stage \notin {"waiting", "handling", "leaving"}
             /\ req'[r].conns = {} /\ req'[r].trace = req[r].trace
             /\ TraceMade(req[r])' => TraceMade(req[r])
    <2>1. req[r] \in RequestRecord /\ RecordOk(req[r])
        BY Zenon DEF ServerInv, ServerTypeOK
    <2>2. CASE r \in InFlight
        <3> DEFINE q == [req[r] EXCEPT !.stage = "dropped", !.conns = {}]
        <3>1. req'[r] = q
            BY <1>1, <2>2, Zenon
        <3>2. /\ q.stage = "dropped" /\ q.conns = {} /\ q.input = req[r].input
              /\ q.trace = req[r].trace /\ q.logged = req[r].logged
              /\ q.raised = req[r].raised /\ q.answer = req[r].answer
            BY <2>1, SMT DEF RequestRecord
        <3>3. q \in RequestRecord
            BY <2>1, Zenon DEF RequestRecord
        <3>4. req[r].stage # "new"
            BY <2>2 DEF InFlight
        <3> HIDE DEF q
        <3>5. RecordOk(q)
            BY <2>1, <3>2, <3>4, SMT DEF RecordOk, HeadersOf
        <3>6. env' = env
            BY <1>1
        <3>7. RecordOk(req[r])'
            BY <3>1, <3>5, <3>6, SMT DEF RecordOk, HeadersOf
        <3> QED
            BY <3>1, <3>2, <3>3, <3>4, <3>7 DEF TraceMade
    <2>3. CASE r \notin InFlight
        <3>1. req'[r] = req[r]
            BY <1>1, <2>3, Zenon
        <3>2. req[r].conns = {}
            BY <2>3, Zenon DEF ServerInv, ConnectionsAccounted
        <3>3. env' = env
            BY <1>1
        <3>4. RecordOk(req[r])'
            BY <2>1, <3>1, <3>3, SMT DEF RecordOk, HeadersOf
        <3> QED
            BY <2>1, <2>3, <3>1, <3>2, <3>4 DEF InFlight, TraceMade
    <2> QED
        BY <2>2, <2>3
<1>3. ServerTypeOK'
    <2>1. req' = [r \in Requests |-> req'[r]]
        BY <1>1, Zenon
    <2>2. req' \in [Requests -> RequestRecord]
        BY <1>2, <2>1, Zenon
    <2>3. {} \subseteq Conns
        OBVIOUS
    <2> QED
        BY <1>1, <2>2, <2>3, Zenon DEF ServerTypeOK, ServerInv
<1>4. ConnectionsAccounted'
    <2>1. InFlight' = {}
        BY <1>2, Zenon DEF InFlight
    <2>2. phase' = "down" /\ idle' = {} /\ \A r \in Requests : req'[r].conns = {}
        BY <1>1, <1>2
    <2> QED
        BY <2>1, <2>2, SMT DEF ConnectionsAccounted
<1>5. UuidsDiffer'
    BY <1>2, SMT DEF UuidsDiffer, ServerInv
<1> QED
    BY <1>2, <1>3, <1>4, <1>5, Zenon DEF ServerInv

(* Initially no request was made and there is no pool.                        *)
LEMMA ServerInvInitially ==
    ASSUME ServerConstants, PipelineConstants, ServerInit
    PROVE  ServerInv
<1>1. NotMade \in RequestRecord /\ RecordOk(NotMade)
    BY SMT DEF NotMade, RequestRecord, RecordOk
<1>2. \A r \in Requests : req[r] = NotMade
    BY DEF ServerInit
<1>3. ServerTypeOK
    <2>1. req \in [Requests -> RequestRecord]
        BY <1>1, Zenon DEF ServerInit
    <2>2. hits \in [Clients -> 0..RootLimit] /\ starts \in 0..MaxStarts
        BY SMT DEF ServerInit, ServerConstants
    <2> QED
        BY <2>1, <2>2, SMT DEF ServerInit, ServerTypeOK
<1>4. ConnectionsAccounted
    BY <1>2, SMT DEF ConnectionsAccounted, InFlight, NotMade, ServerInit
<1>5. UuidsDiffer
    BY <1>2, SMT DEF UuidsDiffer, TraceMade, NotMade
<1> QED
    BY <1>1, <1>2, <1>3, <1>4, <1>5, Zenon DEF ServerInv

(* Every step keeps the invariant.                                            *)
LEMMA ServerInvKept ==
    ASSUME ServerInv, ServerConstants, PipelineConstants,
           [ServerNext]_serverVars
    PROVE  ServerInv'
BY StartKeeps, QuietSteps, ClosePoolKeeps, DieKeeps, RequestsKeep, Zenon
   DEF ServerNext

----------------------------------------------------------------------------
(* The theorems.                                                              *)

(* The invariant holds in every state the process can be in.                  *)
THEOREM ServerInvariance == ServerSafety => []ServerInv
<1>1. ServerInit => ServerInv
    BY ServerInvInitially, ServerConstants, PipelineConstants
<1>2. ServerInv /\ [ServerNext]_serverVars => ServerInv'
    BY ServerInvKept, ServerConstants, PipelineConstants
<1> QED
    BY <1>1, <1>2, PTL DEF ServerSafety

(* Every variable keeps to its kind.                                          *)
THEOREM ServerTypeCorrect == ServerSafety => []ServerTypeOK
<1>1. ServerInv => ServerTypeOK
    BY DEF ServerInv
<1> QED
    BY <1>1, ServerInvariance, PTL

(* No connection is lost or shared, whatever happens to its request, with any *)
(* number of requests, a pool of any size and any endpoint.                   *)
THEOREM ConnectionsNeverLeak == ServerSafety => []ConnectionsAccounted
<1>1. ServerInv => ConnectionsAccounted
    BY DEF ServerInv
<1> QED
    BY <1>1, ServerInvariance, PTL

(* The headers of every answer but those of unhandled_exception_handler, and  *)
(* of no other: its trace id is the client's, or one that no other request    *)
(* got from the server, and the log has the same.                             *)
THEOREM HeadersAsPromised == ServerSafety => []HeadersUnlessUnhandled
<1>1. ASSUME ServerInv, PipelineConstants, ServerConstants,
             NEW r \in Requests, req[r].answer # Null
      PROVE  /\ HeadersOf(req[r])
             /\ req[r].logged \in {req[r].trace, Null}
             /\ IF req[r].input.traceHeader # Null
                THEN req[r].trace = req[r].input.traceHeader
                ELSE \A s \in Requests \ {r} :
                        req[s].trace = req[r].trace =>
                            req[s].input.traceHeader = req[r].trace
    <2>1. RecordOk(req[r])
        BY <1>1, Zenon DEF ServerInv
    <2>2. req[r].stage # "new"
        BY <1>1, <2>1 DEF RecordOk
    <2>3. \/ /\ req[r].input.traceHeader # Null
             /\ req[r].trace = req[r].input.traceHeader
          \/ req[r].input.traceHeader = Null /\ req[r].trace \in UuidHexes
        BY <2>1, <2>2 DEF RecordOk
    <2>4. ASSUME req[r].input.traceHeader = Null, NEW s \in Requests \ {r},
                 req[s].trace = req[r].trace
          PROVE  req[s].input.traceHeader = req[r].trace
        <3>1. TraceMade(req[r]) /\ req[r].trace \in UuidHexes
            BY <2>2, <2>3, <2>4 DEF TraceMade
        <3>2. ~TraceMade(req[s])
            BY <1>1, <2>4, <3>1 DEF ServerInv, UuidsDiffer
        <3>3. RecordOk(req[s])
            BY <1>1, Zenon DEF ServerInv
        <3>4. req[s].stage # "new"
            BY <2>4, <3>1, <3>3, PipelineConstants DEF RecordOk, PipelineConstants
        <3> QED
            BY <2>4, <3>2, <3>3, <3>4 DEF RecordOk, TraceMade
    <2> QED
        BY <1>1, <2>1, <2>3, <2>4, Zenon DEF RecordOk
<1>2. ServerInv => HeadersUnlessUnhandled
    BY <1>1, ServerConstants, PipelineConstants, Zenon DEF HeadersUnlessUnhandled
<1> QED
    BY <1>2, ServerInvariance, PTL

(* Every answer has a documented status, and its code goes with it.           *)
THEOREM FormatAsPromised == ServerSafety => []AnswersInFormat
<1>1. ServerInv => AnswersInFormat
    BY Zenon DEF ServerInv, RecordOk, AnswersInFormat
<1> QED
    BY <1>1, ServerInvariance, PTL

----------------------------------------------------------------------------
(* The refinement of ConnectionPool.                                          *)

\* Owner, for any life of the requests
OwnerIn(q) ==
    [c \in Conns |->
       IF \E r \in Requests : c \in q[r].conns
       THEN CHOOSE r \in Requests : c \in q[r].conns
       ELSE Null]

\* no connection has two holders
OneHolder(q) ==
    \A r \in Requests : \A s \in Requests \ {r} :
        q[r].conns \intersect q[s].conns = {}

(* Whoever holds a connection owns it.                                        *)
LEMMA HolderOwns ==
    ASSUME NEW q, OneHolder(q), NEW r \in Requests, NEW c \in Conns,
           c \in q[r].conns
    PROVE  OwnerIn(q)[c] = r
<1>1. PICK o : o = (CHOOSE s \in Requests : c \in q[s].conns)
    OBVIOUS
<1>2. o \in Requests /\ c \in q[o].conns
    BY <1>1
<1>3. o = r
    BY <1>2, Zenon DEF OneHolder
<1>4. OwnerIn(q)[c] = o
    BY <1>1, Zenon DEF OwnerIn
<1> QED
    BY <1>3, <1>4

(* What nobody holds is in the pool.                                          *)
LEMMA UnheldIsBack ==
    ASSUME NEW q, NEW c \in Conns, \A r \in Requests : c \notin q[r].conns
    PROVE  OwnerIn(q)[c] = Null
BY Zenon DEF OwnerIn

(* Owners change as holders do.                                               *)
LEMMA SameHolders ==
    ASSUME NEW p, NEW q, OneHolder(p),
           \A r \in Requests : q[r].conns = p[r].conns
    PROVE  OwnerIn(q) = OwnerIn(p)
<1>1. OneHolder(q)
    BY DEF OneHolder
<1>2. ASSUME NEW c \in Conns
      PROVE  OwnerIn(q)[c] = OwnerIn(p)[c]
    BY <1>1, HolderOwns, UnheldIsBack
<1>3. /\ OwnerIn(q) = [c \in Conns |-> OwnerIn(q)[c]]
      /\ OwnerIn(p) = [c \in Conns |-> OwnerIn(p)[c]]
    BY Zenon DEF OwnerIn
<1> QED
    BY <1>2, <1>3, Zenon

(* The invariant says so of the requests.                                     *)
LEMMA OneHolderNow ==
    ASSUME ServerInv
    PROVE  OneHolder(req)
BY Zenon DEF ServerInv, ConnectionsAccounted, OneHolder

(* The next state has one holder of each connection as well.                  *)
LEMMA OneHolderNext ==
    ASSUME ServerInv'
    PROVE  OneHolder(req')
BY Zenon DEF ServerInv, ConnectionsAccounted, OneHolder

(* Owner is OwnerIn of the requests, now and next.                            *)
LEMMA OwnerNow == Owner = OwnerIn(req)
BY Zenon DEF Owner, OwnerIn

(* The same of the next state.                                                *)
LEMMA OwnerNext == Owner' = OwnerIn(req')
BY Zenon DEF Owner, OwnerIn

(* Steps that move no connection are invisible.                               *)
LEMMA InvisibleSteps ==
    ASSUME ServerInv, \A r \in Requests : req'[r].conns = req[r].conns,
           phase' = "down" <=> phase = "down"
    PROVE  UNCHANGED Pool!poolVars
<1>1. Owner' = Owner
    BY OneHolderNow, SameHolders, OwnerNow, OwnerNext
<1>2. (phase # "down")' = (phase # "down")
    OBVIOUS
<1> QED
    BY <1>1, <1>2 DEF Pool!poolVars

(* All connections are in the pool when nobody holds one.                     *)
LEMMA NobodyHolds ==
    ASSUME NEW q, \A r \in Requests : q[r].conns = {}
    PROVE  OwnerIn(q) = Pool!AllBack
<1>1. \A c \in Conns : OwnerIn(q)[c] = Null
    BY UnheldIsBack
<1>2. OwnerIn(q) = [c \in Conns |-> OwnerIn(q)[c]]
    BY Zenon DEF OwnerIn
<1> QED
    BY <1>1, <1>2, Zenon DEF Pool!AllBack

(* An arrival and an ending leave every connection where it is.               *)
LEMMA ArrivalMovesNothing ==
    ASSUME ServerInv, NEW r \in Requests, Receive(r)
    PROVE  /\ \A s \in Requests : req'[s].conns = req[s].conns
           /\ phase' = phase
<1>1. PICK q : Enters(r, q) /\ q.conns = {}
    <2>1. \A s, i, t, l, x, a : Entered(s, i, t, l, x, a).conns = {}
        BY DEF Entered
    <2> QED
        BY <2>1, Zenon DEF Receive, AnswerPreflight, AnswerUnrouted,
                           AnswerUnparsed, SolveDependencies
<1>2. req[r].stage = "new" /\ RecordOk(req[r])
    BY Zenon DEF Receive, Accepts, ServerInv
<1>3. req[r].conns = {}
    BY <1>2 DEF RecordOk
<1>4. req \in [Requests -> RequestRecord]
    BY Zenon DEF ServerInv, ServerTypeOK
<1> QED
    BY <1>1, <1>3, <1>4, SMT DEF Enters

(* Nor does a request whose dependencies or handler end.                      *)
LEMMA EndingMovesNothing ==
    ASSUME ServerInv, NEW r \in Requests,
           AcquireFails(r) \/ HandleRoot(r) \/ RefuseInput(r) \/ Handle(r)
    PROVE  /\ \A s \in Requests : req'[s].conns = req[s].conns
           /\ phase' = phase
<1>1. PICK x, a, l : EndsWith(r, x, a, l)
    <2>1. ASSUME NEW o, Ends(r, o)
          PROVE  \E x, a, l : EndsWith(r, x, a, l)
        BY <2>1, Zenon DEF Ends, EndsWith
    <2> QED
        BY <2>1, Zenon DEF AcquireFails, HandleRoot, RefuseInput, Handle
<1>2. phase' = phase
    BY Zenon DEF AcquireFails, HandleRoot, RefuseInput, Handle
<1>3. req \in [Requests -> RequestRecord] /\ req[r] \in RequestRecord
    BY Zenon DEF ServerInv, ServerTypeOK
<1> DEFINE q == [req[r] EXCEPT !.stage = "leaving", !.raised = x, !.answer = a,
                               !.logged = l]
<1>4. req' = [req EXCEPT ![r] = q]
    BY <1>1, Zenon DEF EndsWith
<1>5. q.conns = req[r].conns
    BY <1>3, SMT DEF RequestRecord
<1> HIDE DEF q
<1> QED
    BY <1>2, <1>3, <1>4, <1>5

(* A request that gets its connection takes it from the pool.                 *)
LEMMA AcquireTakes ==
    ASSUME ServerInv, ServerInv', ServerConstants,
           NEW r \in Requests, NEW c \in Conns, Acquire(r, c)
    PROVE  Pool!Take(r, c)
<1>1. /\ req[r].stage = "waiting" /\ c \in idle /\ phase' = phase
      /\ RecordOk(req[r]) /\ req \in [Requests -> RequestRecord]
    BY Zenon DEF Acquire, ServerInv, ServerTypeOK
<1>2. req[r].conns = {}
    BY <1>1 DEF RecordOk
<1>3. phase # "down"
    <2>1. r \in InFlight
        BY <1>1 DEF InFlight
    <2> QED
        BY <2>1, Zenon DEF ServerInv, ConnectionsAccounted
<1>4. /\ req'[r].conns = {c}
      /\ \A s \in Requests \ {r} : req'[s] = req[s]
    <2> DEFINE got == req[r].conns \union {c}
               next == IF Cardinality(got) = ConnectionsOf(Endpoint(r))
                       THEN "handling" ELSE "waiting"
               q == [req[r] EXCEPT !.conns = got, !.stage = next]
    <2>1. req' = [req EXCEPT ![r] = q]
        BY Zenon DEF Acquire
    <2>2. got = {c}
        BY <1>2
    <2> HIDE DEF got, next
    <2>3. q.conns = got
        BY <1>1, SMT DEF RequestRecord
    <2> HIDE DEF q
    <2> QED
        BY <1>1, <2>1, <2>2, <2>3
<1>5. \A s \in Requests : c \notin req[s].conns
    BY <1>1, Zenon DEF ServerInv, ConnectionsAccounted
<1>6. OneHolder(req) /\ OneHolder(req')
    BY OneHolderNow, OneHolderNext
<1>7. Owner[c] = Null
    BY <1>5, UnheldIsBack, OwnerNow
<1>8. \A d \in Conns : Owner[d] # r
    <2>1. ASSUME NEW d \in Conns
          PROVE  Owner[d] # r
        <3>1. CASE \E s \in Requests : d \in req[s].conns
            BY <3>1, <1>2, <1>6, HolderOwns, OwnerNow
        <3>2. CASE \A s \in Requests : d \notin req[s].conns
            BY <3>2, UnheldIsBack, OwnerNow DEF ServerConstants
        <3> QED
            BY <3>1, <3>2
    <2> QED
        BY <2>1
<1>9. Owner' = [Owner EXCEPT ![c] = r]
    <2>1. OwnerIn(req')[c] = r
        BY <1>4, <1>6, HolderOwns
    <2>2. ASSUME NEW d \in Conns, d # c
          PROVE  OwnerIn(req')[d] = OwnerIn(req)[d]
        <3>1. CASE \E s \in Requests : d \in req[s].conns
            <4>1. PICK s \in Requests : d \in req[s].conns
                BY <3>1
            <4>2. d \in req'[s].conns
                BY <1>2, <1>4, <4>1
            <4> QED
                BY <4>1, <4>2, <1>6, HolderOwns
        <3>2. CASE \A s \in Requests : d \notin req[s].conns
            <4>1. \A s \in Requests : d \notin req'[s].conns
                BY <1>4, <2>2, <3>2
            <4> QED
                BY <4>1, <3>2, UnheldIsBack
        <3> QED
            BY <3>1, <3>2
    <2>3. /\ OwnerIn(req) = [d \in Conns |-> OwnerIn(req)[d]]
          /\ OwnerIn(req') = [d \in Conns |-> OwnerIn(req')[d]]
        BY Zenon DEF OwnerIn
    <2>4. OwnerIn(req') = [OwnerIn(req) EXCEPT ![c] = r]
        BY <2>1, <2>2, <2>3
    <2> QED
        BY <2>4, OwnerNow, OwnerNext
<1>10. (phase # "down")' = (phase # "down")
    BY <1>1
<1> QED
    BY <1>3, <1>7, <1>8, <1>9, <1>10, Zenon DEF Pool!Take

(* A request that leaves gives its connection back, if it has one.            *)
LEMMA LeaveGives ==
    ASSUME ServerInv, ServerInv', ServerConstants,
           NEW r \in Requests, Leave(r)
    PROVE  (\E c \in Conns : Pool!Give(c)) \/ UNCHANGED Pool!poolVars
<1>1. /\ phase' = phase /\ req[r] \in RequestRecord
      /\ req \in [Requests -> RequestRecord]
    BY Zenon DEF Leave, ServerInv, ServerTypeOK
<1>2. /\ req'[r].conns = {}
      /\ \A s \in Requests \ {r} : req'[s] = req[s]
    <2> DEFINE q == [req[r] EXCEPT !.stage = "done", !.conns = {}]
    <2>1. req' = [req EXCEPT ![r] = q]
        BY Zenon DEF Leave
    <2>2. q.conns = {}
        BY <1>1, SMT DEF RequestRecord
    <2> HIDE DEF q
    <2> QED
        BY <1>1, <2>1, <2>2
<1>3. OneHolder(req) /\ OneHolder(req')
    BY OneHolderNow, OneHolderNext
<1>4. (phase # "down")' = (phase # "down")
    BY <1>1
<1>5. CASE req[r].conns = {}
    BY <1>1, <1>2, <1>5, InvisibleSteps
<1>6. CASE req[r].conns # {}
    <2>1. PICK c \in Conns : c \in req[r].conns
        BY <1>1, <1>6 DEF RequestRecord
    <2>2. \A d \in req[r].conns : d = c
        BY <2>1, Zenon DEF ServerInv, ConnectionsAccounted
    <2>3. Owner[c] # Null
        BY <2>1, <1>3, HolderOwns, OwnerNow DEF ServerConstants
    <2>4. Owner' = [Owner EXCEPT ![c] = Null]
        <3>1. \A s \in Requests \ {r} : c \notin req[s].conns
            BY <2>1, <1>3 DEF OneHolder
        <3>2. OwnerIn(req')[c] = Null
            BY <1>2, <3>1, UnheldIsBack
        <3>3. ASSUME NEW d \in Conns, d # c
              PROVE  OwnerIn(req')[d] = OwnerIn(req)[d]
            <4>1. CASE \E s \in Requests : d \in req[s].conns
                <5>1. PICK s \in Requests : d \in req[s].conns
                    BY <4>1
                <5>2. d \in req'[s].conns
                    BY <1>2, <2>2, <3>3, <5>1
                <5> QED
                    BY <5>1, <5>2, <1>3, HolderOwns
            <4>2. CASE \A s \in Requests : d \notin req[s].conns
                <5>1. \A s \in Requests : d \notin req'[s].conns
                    BY <1>2, <4>2
                <5> QED
                    BY <5>1, <4>2, UnheldIsBack
            <4> QED
                BY <4>1, <4>2
        <3>4. /\ OwnerIn(req) = [d \in Conns |-> OwnerIn(req)[d]]
              /\ OwnerIn(req') = [d \in Conns |-> OwnerIn(req')[d]]
            BY Zenon DEF OwnerIn
        <3>5. OwnerIn(req') = [OwnerIn(req) EXCEPT ![c] = Null]
            BY <3>2, <3>3, <3>4
        <3> QED
            BY <3>5, OwnerNow, OwnerNext
    <2> QED
        BY <2>3, <2>4, <1>4, Zenon DEF Pool!Give
<1> QED
    BY <1>5, <1>6

(* Starting opens the pool, the orderly end closes it, a crash loses it.      *)
LEMMA ProcessOpensAndCloses ==
    ASSUME ServerInv, ServerInv'
    PROVE  /\ Start => Pool!Open
           /\ ClosePool => Pool!Close
           /\ Die => Pool!Lose
<1>1. ASSUME Start PROVE Pool!Open
    <2>1. phase = "down" /\ phase' = "serving" /\ req' = req
        BY <1>1, Zenon DEF Start
    <2>2. Owner' = Owner
        BY <2>1, OwnerNow, OwnerNext
    <2> QED
        BY <2>1, <2>2 DEF Pool!Open
<1>2. ASSUME ClosePool PROVE Pool!Close
    <2>1. phase = "finishing" /\ InFlight = {} /\ phase' = "down" /\ req' = req
        BY <1>2, Zenon DEF ClosePool
    <2>2. \A r \in Requests : req[r].conns = {}
        BY <2>1, SMT DEF ServerInv, ConnectionsAccounted
    <2>3. Owner = Pool!AllBack /\ Owner' = Owner
        BY <2>1, <2>2, NobodyHolds, OwnerNow, OwnerNext
    <2> QED
        BY <2>1, <2>3 DEF Pool!Close
<1>3. ASSUME Die PROVE Pool!Lose
    <2>1. phase # "down" /\ phase' = "down"
        BY <1>3, Zenon DEF Die
    <2>2. \A r \in Requests : req'[r].conns = {}
        BY <2>1, SMT DEF ServerInv, ConnectionsAccounted
    <2>3. Owner' = Pool!AllBack
        BY <2>2, NobodyHolds, OwnerNext
    <2> QED
        BY <2>1, <2>3 DEF Pool!Lose
<1> QED
    BY <1>1, <1>2, <1>3

(* Every step of the server is a step of the pool, or none.                   *)
LEMMA PoolSteps ==
    ASSUME ServerInv, ServerInv', ServerConstants, [ServerNext]_serverVars
    PROVE  [Pool!PoolNext]_(Pool!poolVars)
<1>1. CASE Start \/ ClosePool \/ Die
    BY <1>1, ProcessOpensAndCloses, Zenon DEF Pool!PoolNext
<1>2. CASE Stop \/ Toggle \/ Retired \/ UNCHANGED serverVars
              \/ \E c \in Clients : WindowEnds(c)
    <2>1. req' = req /\ (phase' = "down" <=> phase = "down")
        BY <1>2, SMT DEF Stop, Toggle, WindowEnds, Retired, serverVars
    <2> QED
        BY <2>1, InvisibleSteps
<1>3. ASSUME NEW r \in Requests, Receive(r) \/ Proceed(r)
      PROVE  [Pool!PoolNext]_(Pool!poolVars)
    <2>1. CASE Receive(r)
        BY <2>1, ArrivalMovesNothing, InvisibleSteps
    <2>2. CASE AcquireFails(r) \/ HandleRoot(r) \/ RefuseInput(r) \/ Handle(r)
        BY <2>2, EndingMovesNothing, InvisibleSteps
    <2>3. CASE Leave(r)
        BY <2>3, LeaveGives, Zenon DEF Pool!PoolNext
    <2>4. CASE \E c \in Conns : Acquire(r, c)
        BY <2>4, AcquireTakes, Zenon DEF Pool!PoolNext
    <2> QED
        BY <1>3, <2>1, <2>2, <2>3, <2>4, Zenon DEF Proceed
<1> QED
    BY <1>1, <1>2, <1>3, Zenon DEF ServerNext

(* The requests and the process keep the promises of the connection pool.     *)
THEOREM PoolImplemented == ServerSafety => ImplementsPool
<1>1. ServerInit /\ ServerInv => Pool!PoolInit
    <2>1. SUFFICES ASSUME ServerInit
                   PROVE  Pool!PoolInit
        OBVIOUS
    <2>2. phase = "down" /\ \A r \in Requests : req[r].conns = {}
        BY <2>1, SMT DEF ServerInit, NotMade
    <2>3. Owner = Pool!AllBack
        BY <2>2, NobodyHolds, OwnerNow
    <2> QED
        BY <2>2, <2>3 DEF Pool!PoolInit
<1>2. ServerInv /\ ServerInv' /\ [ServerNext]_serverVars
        => [Pool!PoolNext]_(Pool!poolVars)
    BY PoolSteps, ServerConstants
<1> QED
    BY <1>1, <1>2, ServerInvariance, PTL DEF ServerSafety, ImplementsPool, Pool!PoolSpec
=============================================================================
