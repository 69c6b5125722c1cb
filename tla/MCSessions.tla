------------------------------ MODULE MCSessions ------------------------------
(* Instances of Sessions for TLC.                                             *)
EXTENDS SessionsProps, TLC

CONSTANTS u1, name, overlong, serviceKey

Str(v) == [class |-> "string", value |-> v]
Int_(v) == [class |-> "integer", value |-> v]

\* a token of user u, made at time c, valid but perhaps for its age
TokenOf(u, username, c) ==
    [text |-> "standard", signer |-> serviceKey, padded |-> <<125, 1>>,
     content |-> "json object",
     payload |-> [telegram_id |-> Int_(u), username |-> username, created_at |-> Int_(c),
                  profile |-> [class |-> "missing", value |-> Null]]]

NoName == [class |-> "null", value |-> Null]

\* with and without a username, and with one that is too long for its column
LoginTokens ==
    {TokenOf(u1, Str(name), 0), TokenOf(u1, NoName, 0), TokenOf(u1, Str(overlong), 0)}

AllEndpoints == LoginEndpoints \union BearerEndpoints

LoginAndCheck == LoginEndpoints \union {"GET /session", "DELETE /session"}

SymmetricRequests == Permutations(Requests)

SymmetricRequestsAndTokens == SymmetricRequests \union Permutations(Tokens)
=============================================================================
