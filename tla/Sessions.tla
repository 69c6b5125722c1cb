------------------------------- MODULE Sessions -------------------------------
(* POST /token, POST /session, GET /session, POST /session/refresh and        *)
(* DELETE /session: the route handlers, AuthService and SessionService, run   *)
(* by many coroutines of one process over one PostgreSQL database.            *)
(*                                                                            *)
(* A coroutine gives up control only where it awaits a statement.  So each    *)
(* statement is two steps: the database executes it, at any later time and    *)
(* in any order with those of other requests, and the coroutine resumes with  *)
(* the reply, reads the clock and either answers or sends the next statement. *)
EXTENDS TokenService, UserRepository, SessionRepository, FiniteSets

CONSTANTS
    Requests,        \* identities of HTTP requests, each used once
    Endpoints,       \* the endpoints the clients of this instance call
    OauthTokens,     \* the oauth.name tokens clients submit
    Bogus,           \* a bearer token no session was ever created for
    InitialTokens,   \* raw tokens of the sessions found in the database
    InitialUsers,    \* the users found there
    InitialExpiries, \* when those sessions expire
    SessionTtl,      \* SESSION_TTL_SECONDS: any integer
    Faults,          \* TRUE when connections break and the process may crash
    MaxClock         \* bound of the clock

LoginEndpoints  == {"POST /token", "POST /session"}
BearerEndpoints == {"GET /session", "POST /session/refresh", "DELETE /session"}

(* The statements of the two repositories, by the methods that send them.    *)
Statements == {"upsert_user", "create_session", "get_by_token_hash",
               "get_by_id", "update_expiry", "revoke"}

ASSUME SessionConstants ==
    /\ SessionTtl \in Int
    /\ Endpoints \subseteq LoginEndpoints \union BearerEndpoints
    /\ Null \notin LoginEndpoints \union BearerEndpoints \union Statements
    /\ InitialTokens \subseteq Tokens /\ Bogus \notin Tokens
    /\ Null \notin Tokens \union {Bogus}
    /\ InitialUsers \subseteq TgIds \ Unstorable
    /\ \A e \in InitialExpiries : e \in Int /\ e <= SessionTtl
    /\ Faults \in BOOLEAN
    /\ MaxClock \in Nat

\* what the issuer puts in a token: the ids and names of its users
ASSUME OauthTokensNameUsers ==
    \A t \in OauthTokens :
        Decrypts(t) /\ PayloadValidates(t.payload) =>
            /\ t.payload.telegram_id.value \in TgIds
            /\ t.payload.username.value \in Usernames \union {Null}

VARIABLES
    clock,     \* datetime.now(timezone.utc), of the process and of time.time()
    users,     \* the users table
    sessions,  \* the sessions table
    issued,    \* raw tokens _generate_token has returned: it repeats none
    req        \* the coroutine of each request, see RequestRecord

vars == <<clock, users, sessions, issued, req>>

ErrorCodes == {"VALIDATION_ERROR", "OAUTH_CODE_INVALID", "SESSION_MISSING",
               "SESSION_EXPIRED", "INTERNAL_ERROR"}

RequestRecord ==
    [endpoint : Endpoints \union {Null},
     stmt     : Statements \union {Null},   \* the statement last sent
     reply    : {"none", "awaited", "row", "no row", "rejected", "broken"},
     token    : Tokens \union {Bogus, Null},  \* raw session token
     login    : [telegram_id : TgIds, username : Usernames \union {Null}] \union {Null},
     record   : SessionRow \union {Null},   \* what get_by_token_hash returned
     at       : Int,                        \* the timestamp parameter of stmt
     created  : BOOLEAN,
     answer   : {"none", "pending", "OK", "connection lost"} \union ErrorCodes,
     \* history: requests answered before this one arrived; was the session
     \* active when get_by_token_hash read it; the time upsert_user carried;
     \* the logins that were committed once this one was, itself included
     before    : SUBSET Requests,
     active    : BOOLEAN,
     loginAt   : Int,
     committed : SUBSET Requests]

NotArrived ==
    [endpoint |-> Null, stmt |-> Null, reply |-> "none", token |-> Null,
     login |-> Null, record |-> Null, at |-> 0, created |-> FALSE,
     answer |-> "none", before |-> {}, active |-> FALSE, loginAt |-> 0,
     committed |-> {}]

Pending(r)  == req[r].answer = "pending"
Answered(r) == req[r].answer \in {"OK"} \union ErrorCodes

(* The tokens a client can present: a token is known once POST /session has   *)
(* answered with it.                                                          *)
KnownTokens ==
    InitialTokens \union
    {req[c].token : c \in {q \in Requests : /\ req[q].endpoint = "POST /session"
                                            /\ req[q].answer = "OK"}}

----------------------------------------------------------------------------
Init ==
    /\ clock = 0
    /\ users = [u \in TgIds |-> IF u \in InitialUsers
                                  THEN [username |-> Null, last_login_at |-> 0]
                                  ELSE Null]
    /\ sessions \in {s \in [Hashes -> {Null} \union
                             [user_id : InitialUsers, expires_at : InitialExpiries,
                              revoked_at : {Null}]] :
                       \A t \in Tokens : s[HashToken(t)] # Null <=> t \in InitialTokens}
    /\ issued = InitialTokens
    /\ req = [r \in Requests |-> NotArrived]

----------------------------------------------------------------------------
(* Arrival.  Up to the first await a handler runs in one step.                *)

Arrives(r, e) == req[r].answer = "none" /\ e \in Endpoints

Arrival(e) == [NotArrived EXCEPT !.endpoint = e, !.answer = "pending",
                                 !.before = {q \in Requests : Answered(q)}]

(* The body is missing, is not {"token": str}, or its token is blank:         *)
(* RequestValidationError and the handler's own check answer alike.           *)
RejectBody(r, e) ==
    /\ Arrives(r, e) /\ e \in LoginEndpoints
    /\ req' = [req EXCEPT ![r] = [Arrival(e) EXCEPT !.answer = "VALIDATION_ERROR"]]
    /\ UNCHANGED <<clock, users, sessions, issued>>

(* AuthService.verify_token up to the await of upsert_user, which takes its   *)
(* own datetime.now().                                                        *)
StartLogin(r, e, t) ==
    /\ Arrives(r, e) /\ e \in LoginEndpoints
    /\ LET payload == VerifyToken(t, clock) IN
         req' = [req EXCEPT ![r] =
                   IF payload = Null
                     THEN [Arrival(e) EXCEPT !.answer = "OAUTH_CODE_INVALID"]
                     ELSE [Arrival(e) EXCEPT !.stmt = "upsert_user", !.reply = "awaited",
                                             !.login = payload, !.at = clock,
                                             !.loginAt = clock]]
    /\ UNCHANGED <<clock, users, sessions, issued>>

\* faulty: a code of the OAuth flow, one that no endpoint answers with
HeaderErrorState(header) == "OAUTH_STATE_INVALID"

\* faulty: the code for a bad oauth.name token
HeaderErrorOauth(header) ==
    IF header = "absent" THEN "OAUTH_CODE_INVALID" ELSE "VALIDATION_ERROR"

(* _extract_bearer_token refuses a header that is absent or blank, and one    *)
(* that is not "Bearer <credentials>".                                        *)
HeaderError(header) ==
    IF header = "absent" THEN "SESSION_MISSING" ELSE "VALIDATION_ERROR"

RejectHeader(r, e, header) ==
    /\ Arrives(r, e) /\ e \in BearerEndpoints
    /\ req' = [req EXCEPT ![r] = [Arrival(e) EXCEPT !.answer = HeaderError(header)]]
    /\ UNCHANGED <<clock, users, sessions, issued>>

StartBearer(r, e, t) ==
    /\ Arrives(r, e) /\ e \in BearerEndpoints
    /\ req' = [req EXCEPT ![r] = [Arrival(e) EXCEPT !.token = t,
                                                    !.stmt = "get_by_token_hash",
                                                    !.reply = "awaited"]]
    /\ UNCHANGED <<clock, users, sessions, issued>>

(* get_connection runs before the handler and before its checks: a pool that  *)
(* cannot connect ends any request.                                           *)
NoConnection(r, e) ==
    /\ Faults
    /\ Arrives(r, e)
    /\ req' = [req EXCEPT ![r] = [Arrival(e) EXCEPT !.answer = "INTERNAL_ERROR",
                                                    !.reply = "broken"]]
    /\ UNCHANGED <<clock, users, sessions, issued>>

Arrive(r) ==
    \E e \in Endpoints :
        \/ RejectBody(r, e) \/ NoConnection(r, e)
        \/ \E t \in OauthTokens : StartLogin(r, e, t)
        \/ \E h \in {"absent", "malformed"} : RejectHeader(r, e, h)
        \/ \E t \in KnownTokens \union {Bogus} : StartBearer(r, e, t)

----------------------------------------------------------------------------
(* The database executes the statement a coroutine awaits, or would await     *)
(* had the process not crashed.  When the connection breaks afterwards        *)
(* (lost), the effect stands and the reply does not come.                     *)

Executes(r, s) == req[r].stmt = s /\ req[r].reply = "awaited"

Hash(r) == HashToken(req[r].token)

Reply(lost, reply) == IF lost THEN "broken" ELSE reply

\* the columns of users hold what the token of r says
LoginStorable(r) == Storable(req[r].login.telegram_id, req[r].login.username)

\* the logins whose upsert_user has taken effect
CommittedLogins == {q \in Requests : q \in req[q].committed}

ExecUpsert(r, lost) ==
    /\ Executes(r, "upsert_user") /\ LoginStorable(r)
    /\ LET id == req[r].login.telegram_id IN
         /\ users' = UpsertUser(users, id, req[r].login.username, req[r].at)
         /\ req' = [req EXCEPT ![r] = [req[r] EXCEPT
                      !.reply = Reply(lost, "row"),
                      !.created = UpsertCreates(users, id),
                      !.committed = CommittedLogins \union {r}]]
    /\ UNCHANGED <<clock, sessions, issued>>

(* TokenPayload bounds no value, so asyncpg or PostgreSQL may refuse one.     *)
RefuseUpsert(r, lost) ==
    /\ Executes(r, "upsert_user") /\ ~LoginStorable(r)
    /\ req' = [req EXCEPT ![r].reply = Reply(lost, "rejected")]
    /\ UNCHANGED <<clock, users, sessions, issued>>

(* The foreign key to users and the unique index on token_hash may refuse it. *)
ExecInsert(r, lost) ==
    /\ Executes(r, "create_session")
    /\ LET id == req[r].login.telegram_id
           accepted == UserExists(users, id) /\ sessions[Hash(r)] = Null
       IN
         /\ sessions' = IF accepted THEN InsertSession(sessions, Hash(r), id, req[r].at)
                                    ELSE sessions
         /\ req' = [req EXCEPT ![r].reply =
                       Reply(lost, IF accepted THEN "row" ELSE "rejected")]
    /\ UNCHANGED <<clock, users, issued>>

(* Active at this instant, as the database and the clock stand.               *)
ActiveNow(row) == row # Null /\ row.revoked_at = Null /\ clock < row.expires_at

ExecSelect(r, lost) ==
    /\ Executes(r, "get_by_token_hash")
    /\ LET row == GetByTokenHash(sessions, Hash(r)) IN
         req' = [req EXCEPT ![r] = [req[r] EXCEPT
                   !.reply = Reply(lost, IF row = Null THEN "no row" ELSE "row"),
                   !.record = IF lost THEN Null ELSE row,
                   !.active = ~lost /\ ActiveNow(row)]]
    /\ UNCHANGED <<clock, users, sessions, issued>>

ExecUpdate(r, lost) ==
    /\ Executes(r, "update_expiry")
    /\ sessions' = UpdateExpiry(sessions, Hash(r), req[r].at)
    /\ req' = [req EXCEPT ![r].reply =
                 Reply(lost, IF GetByTokenHash(sessions, Hash(r)) = Null
                               THEN "no row" ELSE "row")]
    /\ UNCHANGED <<clock, users, issued>>

(* execute(): the caller does not look at the number of rows.                 *)
ExecRevoke(r, lost) ==
    /\ Executes(r, "revoke")
    /\ sessions' = RevokeSession(sessions, Hash(r), req[r].at)
    /\ req' = [req EXCEPT ![r].reply = Reply(lost, "row")]
    /\ UNCHANGED <<clock, users, issued>>

ExecGetUser(r, lost) ==
    /\ Executes(r, "get_by_id")
    /\ req' = [req EXCEPT ![r].reply =
                 Reply(lost, IF UserExists(users, req[r].record.user_id)
                               THEN "row" ELSE "no row")]
    /\ UNCHANGED <<clock, users, sessions, issued>>

Execute(r) ==
    \E lost \in (IF Faults THEN BOOLEAN ELSE {FALSE}) :
        \/ ExecUpsert(r, lost) \/ RefuseUpsert(r, lost)
        \/ ExecInsert(r, lost) \/ ExecSelect(r, lost)
        \/ ExecUpdate(r, lost) \/ ExecRevoke(r, lost) \/ ExecGetUser(r, lost)

(* The connection breaks before the statement takes effect.                   *)
Break(r) ==
    /\ Faults
    /\ req[r].reply = "awaited"
    /\ req' = [req EXCEPT ![r].reply = "broken"]
    /\ UNCHANGED <<clock, users, sessions, issued>>

----------------------------------------------------------------------------
(* The coroutine resumes with the reply.                                      *)

Resumes(r, s, reply) ==
    Pending(r) /\ req[r].stmt = s /\ req[r].reply = reply

Send(r, s) == [req[r] EXCEPT !.stmt = s, !.reply = "awaited"]

Answer(r, code) == [req[r] EXCEPT !.answer = code]

(* _expires_at                                                                *)
ExpiresAt(now) == now + SessionTtl

\* faulty: a session lives to the end of its last instant
EnsureActiveInclusive(record, now) ==
    record.revoked_at = Null /\ ~(record.expires_at < now)

(* _ensure_active on the record that was read, at the time of the check.      *)
EnsureActive(record, now) ==
    record.revoked_at = Null /\ ~(record.expires_at <= now)

\* faulty: a handler for constraint violations only
ResumeFailedRejected(r) ==
    /\ Pending(r) /\ req[r].reply = "rejected"
    /\ req' = [req EXCEPT ![r] = Answer(r, "INTERNAL_ERROR")]
    /\ UNCHANGED <<clock, users, sessions, issued>>

(* asyncpg raises.  The services turn it into AppError(500), and what they    *)
(* let through ends in unhandled_exception_handler: the code is the same.     *)
ResumeFailed(r) ==
    /\ Pending(r) /\ req[r].reply \in {"rejected", "broken"}
    /\ req' = [req EXCEPT ![r] = Answer(r, "INTERNAL_ERROR")]
    /\ UNCHANGED <<clock, users, sessions, issued>>

(* The route of POST /token answers with (user, created).                     *)
ResumeVerify(r) ==
    /\ Resumes(r, "upsert_user", "row") /\ req[r].endpoint = "POST /token"
    /\ req' = [req EXCEPT ![r] = Answer(r, "OK")]
    /\ UNCHANGED <<clock, users, sessions, issued>>

\* faulty: tokens short enough to repeat
FreshTokensRepeating == Tokens

(* _generate_token returns 256 random bits: a token never returned before.    *)
FreshTokens == Tokens \ issued

(* SessionService.create_session after verify_token.                          *)
ResumeCreate(r) ==
    /\ Resumes(r, "upsert_user", "row") /\ req[r].endpoint = "POST /session"
    /\ \E t \in FreshTokens :
         /\ issued' = issued \union {t}
         /\ req' = [req EXCEPT ![r] = [Send(r, "create_session") EXCEPT
                                          !.token = t, !.at = ExpiresAt(clock)]]
    /\ UNCHANGED <<clock, users, sessions>>

ResumeInsert(r) ==
    /\ Resumes(r, "create_session", "row")
    /\ req' = [req EXCEPT ![r] = Answer(r, "OK")]
    /\ UNCHANGED <<clock, users, sessions, issued>>

(* _get_session_record raises on a missing row, then on an inactive one; the  *)
(* three methods of SessionService then part ways.                            *)
ResumeUnknown(r) ==
    /\ Resumes(r, "get_by_token_hash", "no row")
    /\ req' = [req EXCEPT ![r] = Answer(r, "SESSION_MISSING")]
    /\ UNCHANGED <<clock, users, sessions, issued>>

ResumeInactive(r) ==
    /\ Resumes(r, "get_by_token_hash", "row") /\ ~EnsureActive(req[r].record, clock)
    /\ req' = [req EXCEPT ![r] = Answer(r, "SESSION_EXPIRED")]
    /\ UNCHANGED <<clock, users, sessions, issued>>

\* faulty: a session that is not revoked can be refreshed
ResumeActiveLenient(r, e) ==
    /\ Resumes(r, "get_by_token_hash", "row") /\ req[r].endpoint = e
    /\ IF e = "POST /session/refresh" THEN req[r].record.revoked_at = Null
                                       ELSE EnsureActive(req[r].record, clock)

ResumeActive(r, e) ==
    /\ Resumes(r, "get_by_token_hash", "row") /\ req[r].endpoint = e
    /\ EnsureActive(req[r].record, clock)

GetSession(r) ==
    /\ ResumeActive(r, "GET /session")
    /\ req' = [req EXCEPT ![r] = Send(r, "get_by_id")]
    /\ UNCHANGED <<clock, users, sessions, issued>>

\* faulty: the TTL is added to the old expires_at
RefreshSessionAdding(r) ==
    /\ ResumeActive(r, "POST /session/refresh")
    /\ req' = [req EXCEPT ![r] = [Send(r, "update_expiry") EXCEPT
                                     !.at = ExpiresAt(req[r].record.expires_at)]]
    /\ UNCHANGED <<clock, users, sessions, issued>>

RefreshSession(r) ==
    /\ ResumeActive(r, "POST /session/refresh")
    /\ req' = [req EXCEPT ![r] = [Send(r, "update_expiry") EXCEPT !.at = ExpiresAt(clock)]]
    /\ UNCHANGED <<clock, users, sessions, issued>>

RevokeThisSession(r) ==
    /\ ResumeActive(r, "DELETE /session")
    /\ req' = [req EXCEPT ![r] = [Send(r, "revoke") EXCEPT !.at = clock]]
    /\ UNCHANGED <<clock, users, sessions, issued>>

(* refresh_session: a row that vanished is SESSION_MISSING; else _get_user.   *)
ResumeUpdate(r) ==
    /\ Pending(r) /\ req[r].stmt = "update_expiry" /\ req[r].reply \in {"row", "no row"}
    /\ req' = [req EXCEPT ![r] = IF req[r].reply = "row" THEN Send(r, "get_by_id")
                                                      ELSE Answer(r, "SESSION_MISSING")]
    /\ UNCHANGED <<clock, users, sessions, issued>>

ResumeRevoke(r) ==
    /\ Resumes(r, "revoke", "row")
    /\ req' = [req EXCEPT ![r] = Answer(r, "OK")]
    /\ UNCHANGED <<clock, users, sessions, issued>>

(* _get_user: a session without its user is an internal error.                *)
ResumeGetUser(r) ==
    /\ Pending(r) /\ req[r].stmt = "get_by_id" /\ req[r].reply \in {"row", "no row"}
    /\ req' = [req EXCEPT ![r] = Answer(r, IF req[r].reply = "row" THEN "OK"
                                                                 ELSE "INTERNAL_ERROR")]
    /\ UNCHANGED <<clock, users, sessions, issued>>

Resume(r) ==
    \/ ResumeFailed(r)
    \/ ResumeVerify(r) \/ ResumeCreate(r) \/ ResumeInsert(r)
    \/ ResumeUnknown(r) \/ ResumeInactive(r)
    \/ GetSession(r) \/ RefreshSession(r) \/ RevokeThisSession(r)
    \/ ResumeUpdate(r) \/ ResumeRevoke(r) \/ ResumeGetUser(r)

----------------------------------------------------------------------------
(* The process dies with its coroutines.  It keeps nothing else: the next     *)
(* one serves the same tables.  A statement already sent may still run.       *)
Crash ==
    /\ Faults
    /\ \E r \in Requests : Pending(r)
    /\ req' = [r \in Requests |-> IF Pending(r) THEN Answer(r, "connection lost")
                                               ELSE req[r]]
    /\ UNCHANGED <<clock, users, sessions, issued>>

Tick ==
    /\ clock < MaxClock
    /\ clock' = clock + 1
    /\ UNCHANGED <<users, sessions, issued, req>>

(* No client has anything left to ask.                                        *)
Idle ==
    /\ clock = MaxClock
    /\ \A r \in Requests : req[r].answer \notin {"none", "pending"}
    /\ UNCHANGED vars

Next ==
    \/ \E r \in Requests : Arrive(r) \/ Execute(r) \/ Break(r) \/ Resume(r)
    \/ Crash
    \/ Tick
    \/ Idle

Spec == Init /\ [][Next]_vars

(* The event loop runs every coroutine whose reply is there, and PostgreSQL   *)
(* answers or drops every statement: the pool sets no command_timeout, so     *)
(* without this a request would wait for ever.                                *)
Fairness ==
    \A r \in Requests : WF_vars(Resume(r)) /\ WF_vars(Execute(r) \/ Break(r))

FairSpec == Spec /\ Fairness
=============================================================================
