----------------------------- MODULE ServerProps ------------------------------
(* The properties of Server.                                                  *)
EXTENDS Server

(* Every variable of Server holds values of its kind.                         *)
ServerTypeOK ==
    /\ phase \in {"down", "serving", "finishing"}
    /\ starts \in 0..MaxStarts
    /\ env \in Environments
    /\ database \in BOOLEAN
    /\ idle \subseteq Conns
    /\ hits \in [Clients -> 0..RootLimit]
    /\ req \in [Requests -> RequestRecord]

(* get_connection gives each connection back: of a running process every      *)
(* connection is idle or with one request that is not over yet, and no        *)
(* request has two.  An exception, an outage or a refusal leaks none, so that *)
(* the pool can always be closed when the last request has left.              *)
ConnectionsAccounted ==
    /\ phase = "down" => idle = {} /\ InFlight = {}
    /\ phase # "down" =>
          \A c \in Conns : c \in idle \/ \E r \in InFlight : c \in req[r].conns
    /\ \A r \in Requests :
          /\ req[r].conns # {} => r \in InFlight
          /\ req[r].conns \intersect idle = {}
          /\ \A c, d \in req[r].conns : c = d
          /\ \A s \in Requests \ {r} : req[r].conns \intersect req[s].conns = {}

(* The headers of the answer to the request with record q.                    *)
HeadersOf(q) ==
    IF q.raised = "Exception"
    THEN q.answer.trace = Null /\ q.answer.allow = Null
    ELSE q.answer.trace = q.trace /\ q.answer.allow = AllowOrigin(env, q.input)

(* The response says what an answer of this request may say about itself:     *)
(* trace_id_middleware puts the client's trace id into it, or one that it     *)
(* made and that another request only has if its client sent it back, the     *)
(* same id is what the log says, and a page of an allowed origin may read it. *)
(* What unhandled_exception_handler answers has neither header, and nothing   *)
(* else goes without them: no AppError, with status 500 or any other.         *)
HeadersUnlessUnhandled ==
    \A r \in Requests : req[r].answer # Null =>
        /\ HeadersOf(req[r])
        /\ req[r].logged \in {req[r].trace, Null}
        /\ IF req[r].input.traceHeader # Null
           THEN req[r].trace = req[r].input.traceHeader
           ELSE \A s \in Requests \ {r} :
                   req[s].trace = req[r].trace => req[s].input.traceHeader = req[r].trace

(* The statuses that the comments of ErrorCode give to the codes.             *)
StatusOf ==
    [VALIDATION_ERROR |-> 400, OAUTH_CODE_INVALID |-> 401,
     OAUTH_STATE_INVALID |-> 401, SESSION_MISSING |-> 401,
     SESSION_EXPIRED |-> 401, RATE_LIMIT_EXCEEDED |-> 429,
     INTERNAL_ERROR |-> 500]

(* The documented statuses and bodies, and two more: what no route matches    *)
(* keeps its own status under INTERNAL_ERROR, a refused preflight is text.    *)
FormatOf(i, a) ==
    \/ a.status \in {200, 201} /\ a.message \notin ErrorCodes
    \/ a.message \in ErrorCodes /\ a.status = StatusOf[a.message]
    \/ /\ i.endpoint \in Unrouted /\ ~i.preflight
       /\ a.status = RouterStatus(i.endpoint) /\ a.message = "INTERNAL_ERROR"
    \/ i.preflight /\ a.status = 400 /\ a.message = "text"

(* Whatever goes wrong, and wherever on its way, the answer of a request has  *)
(* the one error format, and its code goes with its status.                   *)
AnswersInFormat ==
    \A r \in Requests :
        req[r].answer # Null => FormatOf(req[r].input, req[r].answer)

(* Every request that was accepted ends: requests that wait for a connection  *)
(* do not wait for each other, and none is forgotten when others fail.        *)
EveryRequestEnds ==
    \A r \in Requests : r \in InFlight ~> r \notin InFlight

(* A server that was told to stop comes to its end: close_pool does not wait  *)
(* for a connection that nobody will give back.                               *)
StopEnds == phase = "finishing" ~> phase = "down"

(* docs/errors.md: X-Trace-Id is returned in the response headers of all API  *)
(* error responses.                                                           *)
TraceIdOnEveryError ==
    \A r \in Requests :
        /\ req[r].answer # Null
        /\ req[r].answer.message \in ErrorCodes
        => req[r].answer.trace = req[r].trace

----------------------------------------------------------------------------
(* Who has a connection.                                                      *)
Owner ==
    [c \in Conns |->
       IF \E r \in Requests : c \in req[r].conns
       THEN CHOOSE r \in Requests : c \in req[r].conns
       ELSE Null]

Pool == INSTANCE ConnectionPool
            WITH Users <- Requests, Connections <- Conns, Nobody <- Null,
                 open <- phase # "down", owner <- Owner

(* The requests and the pool keep what ConnectionPool promises; in particular *)
(* no request that waits for a connection holds another, since a request's    *)
(* repositories share one.                                                    *)
ImplementsPool == Pool!PoolSpec

----------------------------------------------------------------------------
(* The inductive invariant: what a request's stage says of its record, and    *)
(* that uuid4() gave each request its own trace id that brought none.         *)
RecordOk(q) ==
    /\ q.stage = "new" => q.conns = {} /\ q.trace = Null /\ q.answer = Null
    /\ q.stage # "new" =>
          /\ q.input \in Inputs
          /\ \/ q.input.traceHeader # Null /\ q.trace = q.input.traceHeader
             \/ q.input.traceHeader = Null /\ q.trace \in UuidHexes
    /\ q.stage \in {"waiting", "handling"} => q.input.endpoint \in Endpoints
    /\ q.stage = "waiting" =>
          ConnectionsOf(q.input.endpoint) = 1 /\ q.conns = {}
    /\ q.logged \in {q.trace, Null}
    /\ q.answer # Null => HeadersOf(q) /\ FormatOf(q.input, q.answer)

UuidsDiffer ==
    \A r, s \in Requests :
        r # s /\ TraceMade(req[r]) /\ TraceMade(req[s]) => req[s].trace # req[r].trace

ServerInv ==
    /\ ServerTypeOK
    /\ ConnectionsAccounted
    /\ \A r \in Requests : RecordOk(req[r])
    /\ UuidsDiffer
=============================================================================
