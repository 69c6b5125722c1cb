---------------------------- MODULE SessionsProps -----------------------------
(* The properties of Sessions.                                                *)
EXTENDS Sessions

(* Every variable holds values of its kind.                                   *)
TypeOK ==
    /\ clock \in 0 .. MaxClock
    /\ users \in UserTable
    /\ sessions \in SessionTable
    /\ issued \subseteq Tokens
    /\ req \in [Requests -> RequestRecord]

----------------------------------------------------------------------------
(* Shorthands.                                                                *)

AnsweredOK(r, e) == req[r].endpoint = e /\ req[r].answer = "OK"

SameToken(q, r) == req[q].token = req[r].token

\* neither of the two was answered when the other arrived
Overlap(q, r) == q \notin req[r].before /\ r \notin req[q].before

RowOf(r) == GetByTokenHash(sessions, Hash(r))

RefreshOverlapping(r) ==
    \E q \in Requests \ {r} : /\ req[q].endpoint = "POST /session/refresh"
                              /\ req[q].stmt \in {"update_expiry", "get_by_id"}
                              /\ SameToken(q, r) /\ Overlap(q, r)

----------------------------------------------------------------------------
(* Logout is final: once DELETE /session has answered 200, no request that    *)
(* arrives later with that token is served, whatever was in flight at the     *)
(* time: revoke_session's docstring says "after this GET /session =           *)
(* SESSION_EXPIRED", and only a broken connection may hide it.                *)
LogoutIsFinal ==
    \A d, r \in Requests :
        /\ AnsweredOK(d, "DELETE /session") /\ d \in req[r].before
        /\ req[r].endpoint \in BearerEndpoints /\ SameToken(d, r)
        => req[r].answer \in {"pending", "SESSION_EXPIRED", "INTERNAL_ERROR",
                              "connection lost"}

(* No session outlives the TTL counted from the present, although expiry      *)
(* times are computed before the statement that stores them executes.         *)
LifetimeBounded ==
    \A t \in Tokens :
        LET row == sessions[HashToken(t)] IN
        row # Null => row.expires_at <= clock + SessionTtl

(* A bearer request answered 200 was right at some instant between its        *)
(* arrival and its answer: the session was live when its row was read.        *)
ServedOnlyIfActive ==
    \A r \in Requests :
        /\ req[r].endpoint \in BearerEndpoints /\ req[r].answer = "OK"
        => req[r].active

(* A refresh answered 200 with expires_at = at holds at least until then      *)
(* unless an overlapping refresh of the same session computed an older time,  *)
(* which the row now holds: refresh_session, update_expiry.                   *)
RefreshHoldsUnlessOverlapped ==
    \A r \in Requests :
        AnsweredOK(r, "POST /session/refresh") =>
            \/ RowOf(r).expires_at >= req[r].at
            \/ \E q \in Requests : /\ req[q].endpoint = "POST /session/refresh"
                                   /\ req[q].stmt \in {"update_expiry", "get_by_id"}
                                   /\ SameToken(q, r) /\ Overlap(q, r)
                                   /\ req[q].at < req[r].at
                                   /\ RowOf(r).expires_at = req[q].at

(* A session answered SESSION_EXPIRED is inactive, and stays so, although it  *)
(* was judged by a row read some time before: only a refresh of it that       *)
(* overlapped that request can have prolonged it meanwhile or revive it.      *)
ExpiryHoldsUnlessOverlapped ==
    \A x \in Requests :
        /\ req[x].endpoint \in BearerEndpoints /\ req[x].answer = "SESSION_EXPIRED"
        => ~EnsureActive(RowOf(x), clock) \/ RefreshOverlapping(x)

----------------------------------------------------------------------------
(* Of all the requests that log one user in, at most one is told that it      *)
(* created the user, however they interleave and whatever breaks.             *)
CreatedOnce ==
    \A q, r \in Requests :
        /\ AnsweredOK(q, "POST /token") /\ AnsweredOK(r, "POST /token")
        /\ req[q].created /\ req[r].created
        /\ req[q].login.telegram_id = req[r].login.telegram_id
        => q = r

(* A username that a login was answered 200 for is not erased by any login    *)
(* without one: the COALESCE of upsert_user.                                  *)
ProfileKept ==
    \A r \in Requests :
        /\ req[r].answer = "OK" /\ req[r].endpoint \in LoginEndpoints
        /\ req[r].login.username # Null
        => users[req[r].login.telegram_id].username # Null

\* q logs the user of r in, overlaps r, took its time earlier than r did and
\* committed it after r
OverwritesLogin(q, r) ==
    /\ req[q].login # Null /\ req[q].login.telegram_id = req[r].login.telegram_id
    /\ Overlap(q, r)
    /\ req[q].loginAt < req[r].loginAt
    /\ r \in req[q].committed

(* last_login_at is at least the time of every POST /token answered 200,      *)
(* unless an overlapping login of the user took its own time earlier and has  *)
(* committed later: upsert_user.                                              *)
LoginRecordedUnlessOverlapped ==
    \A r \in Requests :
        AnsweredOK(r, "POST /token") =>
            \/ users[req[r].login.telegram_id].last_login_at >= req[r].at
            \/ \E q \in Requests \ {r} : OverwritesLogin(q, r)

(* 500 INTERNAL_ERROR only tells of a broken connection, or of a login whose  *)
(* token says what no column of users can hold: no interleaving makes a       *)
(* statement violate a constraint or a session lose its user.                 *)
InternalErrorHasCause ==
    \A r \in Requests :
        req[r].answer = "INTERNAL_ERROR" =>
            \/ req[r].reply = "broken"
            \/ req[r].reply = "rejected" /\ req[r].stmt = "upsert_user" /\ ~LoginStorable(r)

(* A session POST /session answered with is never unknown afterwards, logged  *)
(* out or not, crash or not: its row was committed before the answer.         *)
IssuedSessionDurable ==
    \A c, r \in Requests :
        /\ AnsweredOK(c, "POST /session") /\ c \in req[r].before
        /\ req[r].endpoint \in BearerEndpoints /\ SameToken(c, r)
        => req[r].answer # "SESSION_MISSING"

(* Each endpoint answers only with the codes its docstring lists, and those   *)
(* of the bearer endpoints, which do not list INTERNAL_ERROR, with it on a    *)
(* broken connection alone: their values fit whatever a client sends.         *)
DocumentedAnswers ==
    \A r \in Requests :
        Answered(r) =>
            \/ /\ req[r].endpoint \in LoginEndpoints
               /\ req[r].answer \in {"OK", "VALIDATION_ERROR", "OAUTH_CODE_INVALID",
                                    "INTERNAL_ERROR"}
            \/ /\ req[r].endpoint \in BearerEndpoints
               /\ \/ req[r].answer \in {"OK", "VALIDATION_ERROR", "SESSION_MISSING",
                                       "SESSION_EXPIRED"}
                  \/ req[r].answer = "INTERNAL_ERROR" /\ req[r].reply = "broken"

(* Every request is answered, unless the process dies under it.               *)
EveryRequestAnswered ==
    \A r \in Requests : Pending(r) ~> ~Pending(r)

----------------------------------------------------------------------------
(* What the repository says and the code does not do.                         *)

(* "Продлевает TTL сессии и возвращает новый expires_at" (refresh_session):   *)
(* the session lasts at least until the expires_at that a refresh returned.   *)
RefreshPromiseKept ==
    \A r \in Requests :
        AnsweredOK(r, "POST /session/refresh") => RowOf(r).expires_at >= req[r].at

(* "SESSION_EXPIRED - the session exists but is no longer valid" (the error   *)
(* format document): after that answer no later request on it is served.      *)
ExpiredIsFinal ==
    \A x, r \in Requests :
        /\ req[x].endpoint \in BearerEndpoints /\ req[x].answer = "SESSION_EXPIRED"
        /\ x \in req[r].before /\ SameToken(x, r)
        /\ req[r].endpoint \in BearerEndpoints
        => req[r].answer # "OK"

(* last_login_at is "the business fact of the last login" (upsert_user): no   *)
(* login answered 200 is later than it.                                       *)
LastLoginIsLatest ==
    \A r \in Requests :
        AnsweredOK(r, "POST /token") =>
            users[req[r].login.telegram_id].last_login_at >= req[r].at

----------------------------------------------------------------------------
(* The sessions table and the clock implement SessionStore.  The deadline of  *)
(* a revoked session is forgotten, so a refresh that overtakes a logout and   *)
(* writes its row last is a stuttering step.                                  *)
StoredSession(row) ==
    IF row = Null THEN Null
    ELSE [owner    |-> row.user_id,
          deadline |-> IF row.revoked_at = Null THEN row.expires_at ELSE Null]

StoreOf == [t \in Tokens |-> StoredSession(sessions[HashToken(t)])]

ASSUME NullIsNoStoredSession ==
    Null \notin [owner : TgIds, deadline : Int \union {Null}]

Store == INSTANCE SessionStore
           WITH Users <- TgIds, Ttl <- SessionTtl, None <- Null, Revoked <- Null,
                now <- clock, store <- StoreOf

ImplementsStore == Store!StoreSpec

----------------------------------------------------------------------------
(* The inductive invariant of the proofs.                                     *)

BearerStatements == {"get_by_token_hash", "update_expiry", "revoke", "get_by_id"}

\* statements a bearer request sends once its session was found active
AfterCheck == {"update_expiry", "revoke", "get_by_id"}

(* The statement a request sent tells its endpoint and what it holds.         *)
StatementInv(r) ==
    /\ req[r].stmt \in {"upsert_user", "create_session"} =>
         /\ req[r].endpoint \in LoginEndpoints
         /\ req[r].login # Null /\ req[r].record = Null
    /\ req[r].stmt \in BearerStatements =>
         req[r].endpoint \in BearerEndpoints /\ req[r].token \in Tokens \union {Bogus}
    /\ req[r].stmt = "revoke" => req[r].endpoint = "DELETE /session"
    /\ req[r].stmt \in {"update_expiry", "get_by_id"} => req[r].endpoint # "DELETE /session"
    /\ req[r].stmt = "create_session" => req[r].token \in Tokens
    /\ req[r].stmt \in {"create_session", "update_expiry"} =>
         req[r].at <= clock + SessionTtl
    /\ req[r].stmt \in AfterCheck =>
         req[r].record # Null /\ req[r].record.revoked_at = Null /\ req[r].active = TRUE
    /\ req[r].stmt = "get_by_token_hash" /\ req[r].reply = "row" =>
         /\ req[r].record # Null
         /\ EnsureActive(req[r].record, clock) => req[r].active = TRUE

(* An answer tells the statement it followed.                                 *)
AnswerInv(r) ==
    /\ req[r].answer = "OK" /\ req[r].endpoint \in BearerEndpoints =>
         req[r].stmt \in AfterCheck
    /\ AnsweredOK(r, "DELETE /session") => req[r].stmt = "revoke" /\ req[r].reply = "row"
    /\ AnsweredOK(r, "POST /session") => req[r].stmt = "create_session" /\ req[r].reply = "row"
    /\ req[r].token # Null /\ req[r].endpoint \in BearerEndpoints =>
         /\ req[r].answer \notin {"none", "VALIDATION_ERROR", "OAUTH_CODE_INVALID"}
         /\ req[r].answer = "SESSION_MISSING" =>
              req[r].stmt = "get_by_token_hash" /\ req[r].reply = "no row"

(* What a reply tells of the sessions table stays true: rows are neither      *)
(* deleted nor made active again.                                             *)
TableInv(r) ==
    /\ req[r].record # Null => req[r].token \in Tokens /\ sessions[Hash(r)] # Null
    /\ req[r].stmt = "update_expiry" => req[r].reply # "no row"
    /\ req[r].stmt = "create_session" /\ req[r].reply = "row" => sessions[Hash(r)] # Null
    /\ req[r].stmt = "revoke" /\ req[r].reply = "row" => sessions[Hash(r)].revoked_at # Null

(* What an earlier answer implies for a bearer request that came after it.    *)
HistoryInv(q, r) ==
    q \in req[r].before =>
        /\ Answered(q)
        /\ /\ req[r].endpoint \in BearerEndpoints /\ SameToken(q, r)
           /\ AnsweredOK(q, "DELETE /session") \/ AnsweredOK(q, "POST /session")
           => ~(req[r].stmt = "get_by_token_hash" /\ req[r].reply = "no row")
        /\ /\ req[r].endpoint \in BearerEndpoints /\ SameToken(q, r)
           /\ AnsweredOK(q, "DELETE /session")
           => req[r].record = Null \/ req[r].record.revoked_at # Null

IInv ==
    /\ TypeOK
    /\ LifetimeBounded
    /\ \A r \in Requests : StatementInv(r) /\ AnswerInv(r) /\ TableInv(r)
    /\ \A q, r \in Requests : HistoryInv(q, r)
----------------------------------------------------------------------------
(* Two further invariants, each inductive on top of IInv: what the answers    *)
(* rest on, and what the times of overlapping requests have to do with the    *)
(* rows they write.                                                           *)

(* Nothing precedes arrival, an answer ends the request's work, and no        *)
(* statement fails for want of a row or against a constraint.                 *)
ReplyInv(r) ==
    /\ req[r].answer = "none" => req[r] = NotArrived
    /\ req[r].answer # "none" => req[r].endpoint # Null
    /\ Answered(r) => req[r].reply # "awaited"
    /\ req[r].answer = "INTERNAL_ERROR" => req[r].reply \in {"broken", "rejected"}
    /\ req[r].reply = "rejected" => req[r].stmt = "upsert_user" /\ ~LoginStorable(r)
    /\ req[r].stmt = "get_by_id" => req[r].reply # "no row"
    /\ AnsweredOK(r, "POST /token") =>
         req[r].stmt = "upsert_user" /\ req[r].reply = "row"
    /\ AnsweredOK(r, "POST /session/refresh") => req[r].stmt = "get_by_id"
    /\ req[r].stmt = "create_session" => req[r].endpoint = "POST /session"
    /\ req[r].stmt = "update_expiry" => req[r].endpoint = "POST /session/refresh"
    /\ req[r].answer = "OAUTH_CODE_INVALID" => req[r].endpoint \in LoginEndpoints
    /\ req[r].answer \in {"SESSION_MISSING", "SESSION_EXPIRED"} =>
         req[r].endpoint \in BearerEndpoints

(* What a request knows of the users and of the tokens.                       *)
KnowledgeInv(r) ==
    /\ req[r].record # Null => UserExists(users, req[r].record.user_id)
    /\ req[r].created => /\ req[r].login # Null
                         /\ UserExists(users, req[r].login.telegram_id)
    /\ \/ req[r].stmt = "upsert_user" /\ req[r].reply = "row"
       \/ req[r].stmt = "create_session"
       => /\ UserExists(users, req[r].login.telegram_id)
          /\ req[r].login.username # Null =>
               users[req[r].login.telegram_id].username # Null
    /\ req[r].stmt = "create_session" =>
         /\ req[r].token \in issued
         /\ req[r].reply = "awaited" => sessions[Hash(r)] = Null

(* No two requests created one user, or were given one token.                 *)
UniqueInv(q, r) ==
    /\ /\ req[q].created /\ req[r].created
       /\ req[q].login.telegram_id = req[r].login.telegram_id
       => q = r
    /\ /\ req[q].stmt = "create_session" /\ req[r].stmt = "create_session"
       /\ SameToken(q, r)
       => q = r

OwnersExist ==
    \A h \in Hashes : sessions[h] # Null => UserExists(users, sessions[h].user_id)

StoredTokensIssued ==
    \A t \in Tokens : sessions[HashToken(t)] # Null => t \in issued

AnswersInv ==
    /\ OwnersExist /\ StoredTokensIssued
    /\ \A r \in Requests : ReplyInv(r) /\ KnowledgeInv(r)
    /\ \A q, r \in Requests : UniqueInv(q, r)

----------------------------------------------------------------------------
\* r has computed the expires_at of a refresh
Refreshing(r) ==
    /\ req[r].endpoint = "POST /session/refresh"
    /\ req[r].stmt \in {"update_expiry", "get_by_id"}

(* Of two requests one of which was answered before the other arrived, the    *)
(* first took its time first.                                                 *)
OrderInv(q, r) ==
    q \in req[r].before =>
        /\ req[q].stmt = "upsert_user" /\ req[r].stmt = "upsert_user"
           => req[q].at <= req[r].at
        /\ Refreshing(q) /\ Refreshing(r) => req[q].at <= req[r].at

(* A time that a statement carries was computed at or before now.             *)
TimeInv(r) ==
    /\ req[r].stmt = "upsert_user" => req[r].at <= clock /\ req[r].loginAt = req[r].at
    /\ Refreshing(r) => req[r].at <= clock + SessionTtl

(* The last writer of a row is no older than r, or it overlapped with r.      *)
LoginInv(r) ==
    req[r].stmt = "upsert_user" /\ req[r].reply = "row" =>
        /\ r \in req[r].committed
        /\ \/ users[req[r].login.telegram_id].last_login_at >= req[r].at
           \/ \E q \in Requests \ {r} : OverwritesLogin(q, r)

RefreshInv(r) ==
    Refreshing(r) /\ (req[r].stmt = "update_expiry" => req[r].reply = "row") =>
        \/ RowOf(r).expires_at >= req[r].at
        \/ \E q \in Requests : /\ Refreshing(q) /\ SameToken(q, r) /\ Overlap(q, r)
                               /\ req[q].at < req[r].at
                               /\ RowOf(r).expires_at = req[q].at

(* SESSION_EXPIRED is the verdict on a record that stays inactive ...         *)
VerdictInv(x) ==
    req[x].answer = "SESSION_EXPIRED" =>
        /\ req[x].stmt = "get_by_token_hash" /\ req[x].reply = "row"
        /\ ~EnsureActive(req[x].record, clock)

(* ... and that is still what the table holds, but for a refresh that         *)
(* overlapped.                                                                *)
RecordInv(x) ==
    req[x].stmt = "get_by_token_hash" /\ req[x].reply = "row" =>
        /\ req[x].record.revoked_at # Null => RowOf(x).revoked_at # Null
        /\ RowOf(x).expires_at = req[x].record.expires_at \/ RefreshOverlapping(x)

(* A request that came after that answer reads an inactive row as well, and   *)
(* so goes no further, unless a refresh overlapped.                           *)
ExpiredInv(x, q) ==
    /\ x \in req[q].before /\ req[x].answer = "SESSION_EXPIRED"
    /\ req[q].endpoint \in BearerEndpoints /\ SameToken(x, q)
    /\ req[q].record # Null
    => \/ RefreshOverlapping(x)
       \/ req[q].stmt = "get_by_token_hash" /\ ~EnsureActive(req[q].record, clock)

TimesInv ==
    /\ \A r \in Requests : /\ TimeInv(r) /\ LoginInv(r) /\ RefreshInv(r)
                           /\ VerdictInv(r) /\ RecordInv(r)
    /\ \A q, r \in Requests : OrderInv(q, r) /\ ExpiredInv(q, r)
=============================================================================
