------------------------------- MODULE MCServer -------------------------------
(* Instances of Server for TLC.                                               *)
EXTENDS ServerProps

CONSTANTS page, other, t1, h1, client1

(* A request with all parameters in order, from a page of an allowed origin.  *)
To(e) ==
    [endpoint |-> e, client |-> client1, preflight |-> FALSE, origin |-> page,
     traceHeader |-> Null, body |-> "fits"]

(* One request of each way through the pipeline; one sends a trace id that    *)
(* the server makes as well.                                                  *)
EveryWay ==
    {To("create_space"),
     [To("create_space") EXCEPT !.body = "wrong fields", !.traceHeader = t1],
     [To("create_session") EXCEPT !.body = "broken JSON"],
     [To("root") EXCEPT !.traceHeader = h1],
     To("health_db"),
     To("unknown path"),
     [To("get_session") EXCEPT !.preflight = TRUE, !.origin = other]}

Configured ==
    [application_id |-> "text", secret_key |-> "text", token_ttl |-> "integer",
     session_ttl |-> "integer", cors_origins |-> {page}]

AnyOrigin == [Configured EXCEPT !.cors_origins = {Star}]

NoSecret == [Configured EXCEPT !.secret_key = "blank"]

ThreeEnvironments == {Configured, AnyOrigin, NoSecret}
=============================================================================
