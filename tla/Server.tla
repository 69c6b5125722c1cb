-------------------------------- MODULE Server --------------------------------
(* The process: its start and its end, the pool of database connections, and  *)
(* the requests that pass through the pipeline at the same time.  A request   *)
(* takes its connection before its handler runs and gives it back after its   *)
(* answer was made, whatever the handler did; what handlers do with the       *)
(* tables is the subject of Sessions and Spaces.                              *)
EXTENDS Pipeline

CONSTANTS
    Requests,       \* identities of requests
    Conns,          \* the connections of the pool: max_size of them
    Inputs,         \* the requests clients make
    Environments,   \* the environments the process may be started in
    RootLimit,      \* "10/second": requests of one client to / in one window
    MaxStarts       \* bound: how often the process is started

ASSUME ServerConstants ==
    /\ Inputs \subseteq Request
    /\ Environments \subseteq Environment
    /\ RootLimit \in Nat \ {0}
    /\ MaxStarts \in Nat
    /\ \A i \in Inputs : i.preflight => i.origin # Null
    /\ Null \notin Requests

VARIABLES
    phase,      \* of the process: down, serving, or finishing after SIGTERM
    starts,     \* how often it was started
    env,        \* its environment
    database,   \* whether PostgreSQL accepts connections
    idle,       \* the connections in the pool
    hits,       \* the limiter's count for each client, in the current window
    req         \* the life of each request, see RequestRecord

serverVars == <<phase, starts, env, database, idle, hits, req>>

RequestRecord ==
    [stage  : {"new", "waiting", "handling", "leaving", "done", "dropped"},
     input  : Inputs \union {Null},
     trace  : TraceIds \union {Null},        \* request.state.trace_id
     conns  : SUBSET Conns,                  \* held by get_connection
     logged : TraceIds \union {Null},        \* the trace id written to the log
     raised : Raisable \union {Null},        \* what its answer was made from
     answer : Response \union {Null}]

NotMade ==
    [stage |-> "new", input |-> Null, trace |-> Null, conns |-> {},
     logged |-> Null, raised |-> Null, answer |-> Null]

InFlight == {r \in Requests : req[r].stage \in {"waiting", "handling", "leaving"}}

Endpoint(r) == req[r].input.endpoint

ServerInit ==
    /\ phase = "down" /\ starts = 0
    /\ env \in Environments
    /\ database = TRUE
    /\ idle = {}
    /\ hits = [c \in Clients |-> 0]
    /\ req = [r \in Requests |-> NotMade]

----------------------------------------------------------------------------
(* Start and end of the process.                                              *)

(* Importing main reads the settings, lifespan creates the pool, and both     *)
(* must succeed before the first request is accepted.  The counts of the      *)
(* limiter are in memory and start anew.                                      *)
Start ==
    /\ phase = "down" /\ starts < MaxStarts
    /\ SettingsLoad(env) /\ database
    /\ phase' = "serving" /\ starts' = starts + 1
    /\ idle' = Conns
    /\ hits' = [c \in Clients |-> 0]
    /\ UNCHANGED <<env, database, req>>

(* SIGTERM: nothing new is accepted.                                          *)
Stop ==
    /\ phase = "serving"
    /\ phase' = "finishing"
    /\ UNCHANGED <<starts, env, database, idle, hits, req>>

(* The server leaves lifespan when its requests have ended, and pool.close()  *)
(* waits for every connection.                                                *)
ClosePool ==
    /\ phase = "finishing" /\ InFlight = {} /\ idle = Conns
    /\ phase' = "down" /\ idle' = {}
    /\ UNCHANGED <<starts, env, database, hits, req>>

(* The process dies, and with it its requests and connections.                *)
Die ==
    /\ phase # "down"
    /\ phase' = "down" /\ idle' = {}
    /\ req' = [r \in Requests |->
                 IF r \in InFlight
                 THEN [req[r] EXCEPT !.stage = "dropped", !.conns = {}]
                 ELSE req[r]]
    /\ UNCHANGED <<starts, env, database, hits>>

(* PostgreSQL goes away or comes back.                                        *)
Toggle ==
    /\ database' = ~database
    /\ UNCHANGED <<phase, starts, env, idle, hits, req>>

(* The window of the limiter ends for a client.                               *)
WindowEnds(c) ==
    /\ phase # "down" /\ hits[c] # 0
    /\ hits' = [hits EXCEPT ![c] = 0]
    /\ UNCHANGED <<phase, starts, env, database, idle, req>>

----------------------------------------------------------------------------
(* Arrival: up to the first await.                                            *)

(* get_or_create_trace_id found no trace id in request q and made one.        *)
TraceMade(q) == q.stage # "new" /\ q.input.traceHeader = Null

UsedTraceIds == {req[r].trace : r \in {q \in Requests : TraceMade(req[q])}}

Accepts(r) == phase = "serving" /\ req[r].stage = "new"

(* The record of a request that got to stage s with trace id t.               *)
Entered(s, i, t, l, x, a) ==
    [stage |-> s, input |-> i, trace |-> t, conns |-> {}, logged |-> l,
     raised |-> x, answer |-> a]

Enters(r, q) ==
    /\ req' = [req EXCEPT ![r] = q]
    /\ UNCHANGED <<phase, starts, env, database, idle, hits>>

(* CORS answers before anything inside of it runs.                            *)
AnswerPreflight(r, i, t) ==
    /\ i.preflight
    /\ Enters(r, Entered("done", i, t, Null, "nothing", PreflightResponse(env, i, t)))

(* The router knows no such path or method.                                   *)
AnswerUnrouted(r, i, t) ==
    /\ ~i.preflight /\ i.endpoint \in Unrouted
    /\ LET raised == Raise("HTTPException", RouterStatus(i.endpoint), Null)
       IN  Enters(r, Entered("done", i, t, Null, raised.raised,
                             ResponseTo(env, i, t, raised)))

(* A body that is no JSON is refused before any dependency is called.         *)
AnswerUnparsed(r, i, t) ==
    /\ ~i.preflight /\ i.endpoint \in ReadsBody /\ i.body = "broken JSON"
    /\ Enters(r, Entered("done", i, t, GetTraceId(i, t), InvalidRequest.raised,
                         ResponseTo(env, i, t, InvalidRequest)))

(* Dependencies come next: the handler runs when the connections are there.   *)
SolveDependencies(r, i, t) ==
    /\ ~i.preflight /\ i.endpoint \in Endpoints
    /\ ~(i.endpoint \in ReadsBody /\ i.body = "broken JSON")
    /\ LET next == IF ConnectionsOf(i.endpoint) = 0 THEN "handling" ELSE "waiting"
       IN  Enters(r, Entered(next, i, t, Null, Null, Null))

Receive(r) ==
    /\ Accepts(r)
    /\ \E i \in Inputs : \E t \in TraceIdsFor(i, UsedTraceIds) :
          \/ AnswerPreflight(r, i, t)
          \/ AnswerUnrouted(r, i, t)
          \/ AnswerUnparsed(r, i, t)
          \/ SolveDependencies(r, i, t)

----------------------------------------------------------------------------
(* The connection, the handler, and the way out.                              *)

(* pool.acquire() returns a connection, opening it when there is none.        *)
(* faulty: one that is in use, as if all requests shared one connection *)
AcquireShared(r, c) ==
    /\ req[r].stage = "waiting" /\ c \in Conns /\ database
    /\ idle' = idle \ {c}
    /\ req' = [req EXCEPT ![r].conns = {c}, ![r].stage = "handling"]
    /\ UNCHANGED <<phase, starts, env, database, hits>>

Acquire(r, c) ==
    /\ req[r].stage = "waiting" /\ c \in idle /\ database
    /\ idle' = idle \ {c}
    /\ req' = [req EXCEPT
                 ![r].conns = @ \union {c},
                 ![r].stage =
                   IF Cardinality(req[r].conns \union {c}) = ConnectionsOf(Endpoint(r))
                   THEN "handling" ELSE "waiting"]
    /\ UNCHANGED <<phase, starts, env, database, hits>>

(* Services log the trace id they are given, two of the handlers their own.   *)
Logs(r, outcome) ==
    \/ Endpoint(r) \in LoginEndpoints \union BearerEndpoints
    \/ outcome.raised = "Exception"

(* Handler or dependencies of r end: an answer is made from the outcome.      *)
Ends(r, outcome) ==
    req' = [req EXCEPT
              ![r].stage = "leaving",
              ![r].raised = outcome.raised,
              ![r].answer = ResponseTo(env, req[r].input, req[r].trace, outcome),
              ![r].logged = IF Logs(r, outcome)
                            THEN GetTraceId(req[r].input, req[r].trace) ELSE Null]

(* A new connection was needed and could not be opened: the dependency        *)
(* raises, and the place in the pool is free again.                           *)
AcquireFails(r) ==
    /\ req[r].stage = "waiting" /\ idle # {} /\ ~database
    /\ Ends(r, Unhandled)
    /\ UNCHANGED <<phase, starts, env, database, idle, hits>>

(* GET / counts the request, and refuses it above the limit.                  *)
(* faulty: the limit is one request too high *)
HandleRootOneMore(r) ==
    /\ req[r].stage = "handling" /\ Endpoint(r) = "root"
    /\ LET c == req[r].input.client
       IN  \/ /\ hits[c] <= RootLimit
              /\ hits' = [hits EXCEPT ![c] = @ + 1]
              /\ Ends(r, Success("root"))
           \/ /\ hits[c] > RootLimit
              /\ Ends(r, LimitExceeded)
              /\ UNCHANGED hits
    /\ UNCHANGED <<phase, starts, env, database, idle>>

HandleRoot(r) ==
    /\ req[r].stage = "handling" /\ Endpoint(r) = "root"
    /\ LET c == req[r].input.client
       IN  \/ /\ hits[c] < RootLimit
              /\ hits' = [hits EXCEPT ![c] = @ + 1]
              /\ Ends(r, Success("root"))
           \/ /\ hits[c] >= RootLimit
              /\ Ends(r, LimitExceeded)
              /\ UNCHANGED hits
    /\ UNCHANGED <<phase, starts, env, database, idle>>

(* Parameters are checked when all dependencies have been called: a request   *)
(* that does not fit has waited for its connection as well.                   *)
RefuseInput(r) ==
    /\ req[r].stage = "handling"
    /\ Endpoint(r) \in Validates /\ req[r].input.body = "wrong fields"
    /\ Ends(r, InvalidRequest)
    /\ UNCHANGED <<phase, starts, env, database, idle, hits>>

(* The handler runs.  Without the database it does not succeed.               *)
Handle(r) ==
    /\ req[r].stage = "handling" /\ Endpoint(r) # "root"
    /\ ~(Endpoint(r) \in Validates /\ req[r].input.body = "wrong fields")
    /\ \E outcome \in Outcomes(Endpoint(r)) :
          /\ outcome.raised = "nothing" => database
          /\ Ends(r, outcome)
    /\ UNCHANGED <<phase, starts, env, database, idle, hits>>

(* Leaving `async with pool.acquire()`, by whatever way.                      *)
(* faulty: only when the block ended without an exception *)
LeaveOnSuccess(r) ==
    /\ req[r].stage = "leaving"
    /\ idle' = IF req[r].answer.message = "INTERNAL_ERROR" THEN idle
               ELSE idle \union req[r].conns
    /\ req' = [req EXCEPT ![r].stage = "done", ![r].conns = {}]
    /\ UNCHANGED <<phase, starts, env, database, hits>>

Leave(r) ==
    /\ req[r].stage = "leaving"
    /\ idle' = idle \union req[r].conns
    /\ req' = [req EXCEPT ![r].stage = "done", ![r].conns = {}]
    /\ UNCHANGED <<phase, starts, env, database, hits>>

Proceed(r) ==
    \/ \E c \in Conns : Acquire(r, c)
    \/ AcquireFails(r)
    \/ HandleRoot(r)
    \/ RefuseInput(r)
    \/ Handle(r)
    \/ Leave(r)

----------------------------------------------------------------------------
(* The operator leaves the process down.                                      *)
Retired ==
    /\ phase = "down"
    /\ UNCHANGED serverVars

ServerNext ==
    \/ Start \/ Stop \/ ClosePool \/ Die \/ Toggle
    \/ \E c \in Clients : WindowEnds(c)
    \/ \E r \in Requests : Receive(r) \/ Proceed(r)
    \/ Retired

ServerSafety == ServerInit /\ [][ServerNext]_serverVars

(* The event loop goes on with each request, PostgreSQL answers a statement   *)
(* or drops its connection, and the server that was told to stop closes.      *)
ServerFairness ==
    /\ \A r \in Requests : WF_serverVars(Proceed(r))
    /\ WF_serverVars(ClosePool)

ServerSpec == ServerSafety /\ ServerFairness
=============================================================================
