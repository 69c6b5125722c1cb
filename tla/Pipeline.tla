------------------------------- MODULE Pipeline -------------------------------
(* How one HTTP request passes through the application: which dependencies    *)
(* its endpoint has, which trace id it gets, what CORS adds to its response,  *)
(* and which handler turns an exception into an answer.  Everything here is a *)
(* function of the request and of the settings; Server adds the process, its  *)
(* connection pool and the requests that share it.                            *)
EXTENDS Naturals, FiniteSets

CONSTANTS
    Null,        \* an absent value
    ClientIds,   \* trace ids that clients send in X-Trace-Id, such as one they got
    UuidHexes,   \* what uuid4().hex returns: it repeats none
    Origins,     \* values of the Origin header
    Star,        \* "*" in a list of origins
    Clients      \* remote addresses

ASSUME PipelineConstants ==
    /\ Null \notin ClientIds \union UuidHexes \union Origins
    /\ Star \notin Origins \union {Null}

TraceIds == ClientIds \union UuidHexes

----------------------------------------------------------------------------
(* Routes and dependencies.                                                   *)

LoginEndpoints == {"verify_token", "create_session"}

BearerEndpoints ==
    {"get_session", "refresh_session", "delete_session", "create_space",
     "search_users"}

Endpoints == LoginEndpoints \union BearerEndpoints \union {"root", "health_db"}

(* What no route matches is left to the router, with the status it raises.    *)
Unrouted == {"unknown path", "other method"}

RouterStatus(e) == IF e = "unknown path" THEN 404 ELSE 405

(* The Depends of each endpoint and of each provider.                         *)
Depends ==
    [root                   |-> {},
     health_db              |-> {"get_connection"},
     verify_token           |-> {"get_auth_service"},
     create_session         |-> {"get_session_service"},
     get_session            |-> {"get_session_service"},
     refresh_session        |-> {"get_session_service"},
     delete_session         |-> {"get_session_service"},
     create_space           |-> {"get_session_service", "get_space_service"},
     search_users           |-> {"get_session_service", "get_user_service"},
     get_connection         |-> {},
     get_token_service      |-> {},
     get_user_repository    |-> {"get_connection"},
     get_session_repository |-> {"get_connection"},
     get_space_repository   |-> {"get_connection"},
     get_auth_service       |-> {"get_token_service", "get_user_repository"},
     get_session_service    |-> {"get_auth_service", "get_user_repository",
                                 "get_session_repository"},
     get_space_service      |-> {"get_space_repository"},
     get_user_service       |-> {"get_user_repository"}]

(* All providers of endpoint e; the longest chain has five links.             *)
Providers(e) ==
    LET more(D) == D \union UNION {Depends[d] : d \in D}
    IN  more(more(more(more(more({e}))))) \ {e}

(* Endpoints with a JSON body, and those with parameters that may not fit.    *)
ReadsBody == {"verify_token", "create_session", "create_space"}

Validates == ReadsBody \union {"search_users"}

(* How many connections a request takes.  FastAPI calls a provider once per   *)
(* request, so that all repositories of a request share one connection.       *)
(* faulty: each repository has a connection of its own (use_cache=False)      *)
ConnectionsOfUncached(e) ==
    Cardinality({d \in Providers(e) \union {e} : "get_connection" \in Depends[d]})

ConnectionsOf(e) == IF "get_connection" \in Providers(e) THEN 1 ELSE 0

----------------------------------------------------------------------------
(* A request as the client sends it.                                          *)

Request ==
    [endpoint    : Endpoints \union Unrouted,
     client      : Clients,                     \* get_remote_address
     preflight   : BOOLEAN,                     \* a browser's OPTIONS
     origin      : Origins \union {Null},
     traceHeader : ClientIds \union {Null},     \* absent and empty are alike
     body        : {"fits", "broken JSON", "wrong fields"}]

(* The environment of the process, as _env_required and _env_int_required     *)
(* see it, with CORS_ORIGINS split and stripped.                              *)
Environment ==
    [application_id : {"unset", "blank", "text", "integer"},
     secret_key     : {"unset", "blank", "text", "integer"},
     token_ttl      : {"unset", "blank", "text", "integer"},
     session_ttl    : {"unset", "blank", "text", "integer"},
     cors_origins   : SUBSET (Origins \union {Star})]

(* get_settings returns; main calls it when it is imported, and what it       *)
(* returned then is kept for the life of the process.                         *)
SettingsLoad(env) ==
    /\ env.application_id \in {"text", "integer"}
    /\ env.secret_key \in {"text", "integer"}
    /\ env.token_ttl = "integer"
    /\ env.session_ttl = "integer"

----------------------------------------------------------------------------
(* Exceptions and their handlers.                                             *)

ErrorCodes ==
    {"VALIDATION_ERROR", "OAUTH_CODE_INVALID", "OAUTH_STATE_INVALID",
     "SESSION_MISSING", "SESSION_EXPIRED", "RATE_LIMIT_EXCEEDED",
     "INTERNAL_ERROR"}

(* How a handler ends: the exception that left it, or none.                   *)
Raisable ==
    {"nothing", "AppError", "RequestValidationError", "HTTPException",
     "RateLimitExceeded", "Exception"}

Outcome ==
    [raised : Raisable,
     status : Nat,
     code   : ErrorCodes \union {Null}]

Raise(exception, status, code) ==
    [raised |-> exception, status |-> status, code |-> code]

Returns(status) == Raise("nothing", status, Null)

InvalidRequest == Raise("RequestValidationError", 422, Null)

LimitExceeded == Raise("RateLimitExceeded", 429, Null)

Unhandled == Raise("Exception", 500, Null)

(* The AppErrors the services and routes raise, by kind of endpoint.          *)
LoginErrors ==
    {Raise("AppError", 400, "VALIDATION_ERROR"),
     Raise("AppError", 401, "OAUTH_CODE_INVALID"),
     Raise("AppError", 500, "INTERNAL_ERROR")}

BearerErrors ==
    LoginErrors \union
    {Raise("AppError", 401, "SESSION_MISSING"),
     Raise("AppError", 401, "SESSION_EXPIRED")}

AppErrors(e) ==
    IF e \in LoginEndpoints THEN LoginErrors
    ELSE IF e \in BearerEndpoints THEN BearerErrors
    ELSE {}

Success(e) == Returns(IF e = "create_space" THEN 201 ELSE 200)

(* What the handler of e may end in once its parameters are there.  The       *)
(* services of the logins catch every exception of a statement; the others    *)
(* let one of the session lookup through.                                     *)
Outcomes(e) ==
    {Success(e)} \union AppErrors(e) \union
    (IF e \in BearerEndpoints \union {"health_db"} THEN {Unhandled} ELSE {})

(* Status and body of an answer; "data" is the response model of an endpoint. *)
Body(status, message) == [status |-> status, message |-> message]

(* faulty: the default of the framework, which keeps 422 *)
ValidationHandlerDefault(outcome) == Body(outcome.status, "VALIDATION_ERROR")

ValidationHandler(outcome) == Body(400, "VALIDATION_ERROR")

HttpExceptionHandler(outcome) ==
    Body(outcome.status,
         CASE outcome.status \in {400, 422} -> "VALIDATION_ERROR"
           [] outcome.status = 401          -> "OAUTH_CODE_INVALID"
           [] outcome.status = 429          -> "RATE_LIMIT_EXCEEDED"
           [] OTHER                         -> "INTERNAL_ERROR")

(* ExceptionMiddleware: the handlers of everything but Exception itself.      *)
Handled(outcome) ==
    CASE outcome.raised = "nothing"                -> Body(outcome.status, "data")
      [] outcome.raised = "AppError"               -> Body(outcome.status, outcome.code)
      [] outcome.raised = "RequestValidationError" -> ValidationHandler(outcome)
      [] outcome.raised = "RateLimitExceeded"      -> Body(429, "RATE_LIMIT_EXCEEDED")
      [] OTHER                                     -> HttpExceptionHandler(outcome)

----------------------------------------------------------------------------
(* Headers.                                                                   *)

(* The values the header of request i may get from get_or_create_trace_id,    *)
(* when the values in used have been returned by uuid4().                     *)
TraceIdsFor(i, used) ==
    IF i.traceHeader # Null THEN {i.traceHeader} ELSE UuidHexes \ used

(* get_trace_id inside the application: what the middleware stored.           *)
(* faulty: takes only the header of the client, and otherwise a new id        *)
GetTraceIdAnew(i, stored) ==
    IF i.traceHeader # Null THEN i.traceHeader
    ELSE CHOOSE t \in UuidHexes : t # stored

GetTraceId(i, stored) == stored

AllOrigins(env) == Star \in env.cors_origins

OriginAllowed(env, i) == AllOrigins(env) \/ i.origin \in env.cors_origins

(* Access-Control-Allow-Origin.                                               *)
AllowOrigin(env, i) ==
    IF i.origin = Null \/ ~OriginAllowed(env, i) THEN Null
    ELSE IF AllOrigins(env) THEN Star ELSE i.origin

(* A complete response: X-Trace-Id and the CORS headers with the body.        *)
Response ==
    [status  : Nat,
     message : ErrorCodes \union {"data", "text"},
     trace   : TraceIds \union {Null},
     allow   : Origins \union {Star, Null}]

Respond(body, trace, allow) ==
    [status |-> body.status, message |-> body.message, trace |-> trace,
     allow |-> allow]

(* The trace id middleware is outside of CORS, and CORS outside of the        *)
(* exception handlers; the handler of Exception is outside of all of them.    *)
ResponseTo(env, i, trace, outcome) ==
    IF outcome.raised = "Exception"
    THEN Respond(Body(500, "INTERNAL_ERROR"), Null, Null)
    ELSE Respond(Handled(outcome), trace, AllowOrigin(env, i))

(* CORS answers a preflight itself, in plain text.                            *)
PreflightResponse(env, i, trace) ==
    Respond(Body(IF OriginAllowed(env, i) THEN 200 ELSE 400, "text"),
            trace, AllowOrigin(env, i))
=============================================================================
