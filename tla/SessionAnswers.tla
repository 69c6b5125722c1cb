---------------------------- MODULE SessionAnswers ----------------------------
(* Proofs of what the answers of Sessions tell: a failure only of an outage   *)
(* or of a login that does not fit its columns, a creation once, a name for   *)
(* good, and the codes each docstring lists.                                  *)
(*                                                                            *)
(* The first half describes every step of Next by the fields it changes, so   *)
(* that an invariant is proved by one case for each kind of step.             *)
EXTENDS SessionsProofs

----------------------------------------------------------------------------
(* Kinds of steps.                                                            *)

Others(r) == \A q \in Requests \ {r} : req'[q] = req[q]

TablesKept == UNCHANGED <<users, sessions, issued>>

\* who asks, for whom and when does not change after arrival
Continues(r) ==
    /\ Others(r) /\ clock' = clock
    /\ req'[r].endpoint = req[r].endpoint /\ req'[r].login = req[r].login
    /\ req'[r].before = req[r].before /\ req'[r].loginAt = req[r].loginAt

\* neither does the step commit a login
CommitsNone(r) ==
    req'[r].created = req[r].created /\ req'[r].committed = req[r].committed

\* what request r holds when it has just arrived
Arrived(r) ==
    /\ Others(r) /\ clock' = clock /\ TablesKept
    /\ req[r].answer = "none"
    /\ req'[r].endpoint \in Endpoints
    /\ req'[r].record = Null /\ req'[r].created = FALSE
    /\ req'[r].before = {q \in Requests : Answered(q)}
    /\ \/ /\ req'[r].stmt = Null /\ req'[r].reply = "none" /\ req'[r].login = Null
          /\ \/ req'[r].answer = "VALIDATION_ERROR"
             \/ req'[r].endpoint \in LoginEndpoints /\ req'[r].answer = "OAUTH_CODE_INVALID"
             \/ req'[r].endpoint \in BearerEndpoints /\ req'[r].answer = "SESSION_MISSING"
       \/ /\ req'[r].stmt = Null /\ req'[r].reply = "broken" /\ req'[r].login = Null
          /\ req'[r].answer = "INTERNAL_ERROR"
       \/ /\ req'[r].stmt = "upsert_user" /\ req'[r].reply = "awaited"
          /\ req'[r].endpoint \in LoginEndpoints /\ req'[r].answer = "pending"
          /\ req'[r].login # Null /\ req'[r].at = clock /\ req'[r].loginAt = clock
       \/ /\ req'[r].stmt = "get_by_token_hash" /\ req'[r].reply = "awaited"
          /\ req'[r].endpoint \in BearerEndpoints /\ req'[r].answer = "pending"
          /\ req'[r].login = Null

\* the statement of r has run, or will not, and only the reply is new
Ran(r, stmt) ==
    /\ Continues(r) /\ issued' = issued
    /\ req[r].stmt = stmt /\ req[r].reply = "awaited"
    /\ req'[r].stmt = stmt /\ req'[r].token = req[r].token
    /\ req'[r].at = req[r].at /\ req'[r].answer = req[r].answer

Upserted(r) ==
    /\ Ran(r, "upsert_user") /\ sessions' = sessions
    /\ users' = UpsertUser(users, req[r].login.telegram_id, req[r].login.username, req[r].at)
    /\ req'[r].record = req[r].record
    /\ req'[r].created = UpsertCreates(users, req[r].login.telegram_id)
    /\ req'[r].committed = CommittedLogins \union {r}
    /\ req'[r].reply \in {"row", "broken"}

Refused(r) ==
    /\ Ran(r, "upsert_user") /\ TablesKept /\ ~LoginStorable(r)
    /\ req'[r].record = req[r].record /\ CommitsNone(r)
    /\ req'[r].reply \in {"rejected", "broken"}

Inserted(r) ==
    /\ Ran(r, "create_session") /\ users' = users
    /\ req'[r].record = req[r].record /\ CommitsNone(r)
    /\ \/ /\ UserExists(users, req[r].login.telegram_id) /\ sessions[Hash(r)] = Null
          /\ sessions' = InsertSession(sessions, Hash(r), req[r].login.telegram_id, req[r].at)
          /\ req'[r].reply \in {"row", "broken"}
       \/ /\ ~(UserExists(users, req[r].login.telegram_id) /\ sessions[Hash(r)] = Null)
          /\ sessions' = sessions
          /\ req'[r].reply \in {"rejected", "broken"}

Read(r) ==
    /\ Ran(r, "get_by_token_hash") /\ TablesKept
    /\ CommitsNone(r)
    /\ \/ req'[r].reply = "broken" /\ req'[r].record = Null
       \/ req'[r].reply = "no row" /\ req'[r].record = Null
       \/ req'[r].reply = "row" /\ req'[r].record = RowOf(r) /\ RowOf(r) # Null

Updated(r) ==
    /\ Ran(r, "update_expiry") /\ users' = users
    /\ sessions' = UpdateExpiry(sessions, Hash(r), req[r].at)
    /\ req'[r].record = req[r].record /\ CommitsNone(r)
    /\ req'[r].reply \in {"row", "no row", "broken"}

Revoked(r) ==
    /\ Ran(r, "revoke") /\ users' = users
    /\ sessions' = RevokeSession(sessions, Hash(r), req[r].at)
    /\ req'[r].record = req[r].record /\ CommitsNone(r)
    /\ req'[r].reply \in {"row", "broken"}

Looked(r) ==
    /\ Ran(r, "get_by_id") /\ TablesKept
    /\ req'[r].record = req[r].record /\ CommitsNone(r)
    /\ \/ req'[r].reply \in {"row", "broken"}
       \/ req'[r].reply = "no row" /\ ~UserExists(users, req[r].record.user_id)

Broke(r) ==
    /\ Ran(r, req[r].stmt) /\ TablesKept
    /\ req'[r].record = req[r].record /\ CommitsNone(r)
    /\ req'[r].reply = "broken"

\* r goes on with another statement
Sends(r) ==
    /\ Continues(r) /\ Pending(r) /\ users' = users /\ sessions' = sessions
    /\ req'[r].reply = "awaited" /\ req'[r].answer = "pending"
    /\ req'[r].record = req[r].record /\ CommitsNone(r)

Creating(r) ==
    /\ Sends(r)
    /\ req[r].stmt = "upsert_user" /\ req[r].reply = "row"
    /\ req[r].endpoint = "POST /session"
    /\ req'[r].stmt = "create_session"
    /\ req'[r].token \in Tokens \ issued
    /\ issued' = issued \union {req'[r].token}

\* the session was found active, and the endpoint tells what comes next
Following(r) ==
    /\ Sends(r) /\ issued' = issued /\ req'[r].token = req[r].token
    /\ req[r].stmt = "get_by_token_hash" /\ req[r].reply = "row"
    /\ EnsureActive(req[r].record, clock)
    /\ \/ req[r].endpoint = "GET /session" /\ req'[r].stmt = "get_by_id"
       \/ /\ req[r].endpoint = "POST /session/refresh" /\ req'[r].stmt = "update_expiry"
          /\ req'[r].at = ExpiresAt(clock)
       \/ req[r].endpoint = "DELETE /session" /\ req'[r].stmt = "revoke"

Refreshed(r) ==
    /\ Sends(r) /\ issued' = issued /\ req'[r].token = req[r].token
    /\ req[r].stmt = "update_expiry" /\ req[r].reply = "row"
    /\ req'[r].stmt = "get_by_id" /\ req'[r].at = req[r].at

\* r is answered after the statement it sent last
Answers(r) ==
    /\ Continues(r) /\ Pending(r) /\ TablesKept
    /\ req'[r].stmt = req[r].stmt /\ req'[r].reply = req[r].reply
    /\ req'[r].token = req[r].token /\ req'[r].at = req[r].at
    /\ req'[r].record = req[r].record /\ CommitsNone(r)
    /\ \/ req[r].reply \in {"rejected", "broken"} /\ req'[r].answer = "INTERNAL_ERROR"
       \/ /\ req[r].reply = "no row" /\ req[r].stmt = "get_by_id"
          /\ req'[r].answer = "INTERNAL_ERROR"
       \/ /\ req[r].stmt = "get_by_token_hash" /\ req[r].reply = "no row"
          /\ req'[r].answer = "SESSION_MISSING"
       \/ /\ req[r].stmt = "get_by_token_hash" /\ req[r].reply = "row"
          /\ ~EnsureActive(req[r].record, clock) /\ req'[r].answer = "SESSION_EXPIRED"
       \/ /\ req[r].stmt = "upsert_user" /\ req[r].reply = "row"
          /\ req[r].endpoint = "POST /token" /\ req'[r].answer = "OK"
       \/ /\ req[r].stmt \in {"create_session", "revoke", "get_by_id"}
          /\ req[r].reply = "row" /\ req'[r].answer = "OK"

\* the pending requests are lost with the process
Crashed ==
    /\ clock' = clock /\ TablesKept
    /\ \A q \in Requests :
         \/ req'[q] = req[q]
         \/ Pending(q) /\ Answering(req[q], req'[q], "connection lost")
                       /\ CommitsNone(q)

Waited == clock <= clock' /\ TablesKept /\ req' = req

StepOf(r) ==
    \/ Arrived(r)
    \/ Upserted(r) \/ Refused(r) \/ Inserted(r) \/ Read(r) \/ Updated(r) \/ Revoked(r)
    \/ Looked(r) \/ Broke(r)
    \/ Creating(r) \/ Following(r) \/ Refreshed(r) \/ Answers(r)

----------------------------------------------------------------------------
(* Every action is a step of its kind.                                        *)

(* Assigning one request's record leaves the others alone.                    *)
LEMMA AssignedRecord ==
    ASSUME TypeOK, NEW r \in Requests, NEW x, req' = [req EXCEPT ![r] = x]
    PROVE  req'[r] = x /\ Others(r)
BY DEF TypeOK, Others

(* The fields of a record that has just arrived.                              *)
LEMMA ArrivalFields ==
    ASSUME IInv, NEW e \in Endpoints
    PROVE  /\ Arrival(e) \in RequestRecord
           /\ Arrival(e).endpoint = e /\ Arrival(e).answer = "pending"
           /\ Arrival(e).before = {q \in Requests : Answered(q)}
           /\ Arrival(e).record = Null /\ Arrival(e).reply = "none"
           /\ Arrival(e).stmt = Null /\ Arrival(e).login = Null
           /\ Arrival(e).created = FALSE
<1> DEFINE before == {q \in Requests : Answered(q)}
<1>1. Arrival(e) \in RequestRecord
  BY ArrivalRecord
<1>2. /\ NotArrived \in RequestRecord
      /\ NotArrived.record = Null /\ NotArrived.reply = "none"
      /\ NotArrived.stmt = Null /\ NotArrived.login = Null /\ NotArrived.created = FALSE
  BY DEF NotArrived, RequestRecord
<1>3. Arrival(e) = [NotArrived EXCEPT !.endpoint = e, !.answer = "pending",
                                      !.before = before]
  BY DEF Arrival
<1> HIDE DEF before
<1>4. /\ Arrival(e).endpoint = e /\ Arrival(e).answer = "pending"
      /\ Arrival(e).before = before
      /\ Arrival(e).record = Null /\ Arrival(e).reply = "none"
      /\ Arrival(e).stmt = Null /\ Arrival(e).login = Null
      /\ Arrival(e).created = FALSE
  BY <1>2, <1>3 DEF RequestRecord
<1> QED BY <1>1, <1>4 DEF before

(* A refusal on arrival names a code of its endpoint.                         *)
LEMMA RefusalArrives ==
    ASSUME IInv, NEW r \in Requests, NEW e \in Endpoints, Arrives(r, e),
           NEW code, req' = [req EXCEPT ![r] = Rejected(e, code)],
           \/ code = "VALIDATION_ERROR"
           \/ e \in LoginEndpoints /\ code = "OAUTH_CODE_INVALID"
           \/ e \in BearerEndpoints /\ code = "SESSION_MISSING",
           UNCHANGED <<clock, users, sessions, issued>>
    PROVE  Arrived(r)
<1> DEFINE a == Arrival(e)
           x == [a EXCEPT !.answer = code]
<1>1. /\ a \in RequestRecord /\ a.endpoint = e
      /\ a.before = {q \in Requests : Answered(q)}
      /\ a.record = Null /\ a.reply = "none" /\ a.stmt = Null /\ a.login = Null
      /\ a.created = FALSE
  BY ArrivalFields
<1>2. req'[r] = x /\ Others(r)
  BY AssignedRecord DEF IInv, Rejected
<1> HIDE DEF a
<1>3. /\ x.endpoint = e /\ x.before = a.before /\ x.record = Null /\ x.reply = "none"
      /\ x.stmt = Null /\ x.login = Null /\ x.created = FALSE /\ x.answer = code
  BY <1>1 DEF RequestRecord
<1> HIDE DEF x
<1> QED BY <1>1, <1>2, <1>3 DEF Arrived, Arrives, TablesKept

(* Every arrival refuses the request, fails or sends the first statement.     *)
LEMMA ArriveKind ==
    ASSUME IInv, NEW r \in Requests, Arrive(r)
    PROVE  Arrived(r)
<1>1. PICK e \in Endpoints :
        \/ RejectBody(r, e) \/ NoConnection(r, e)
        \/ \E t \in OauthTokens : StartLogin(r, e, t)
        \/ \E h \in {"absent", "malformed"} : RejectHeader(r, e, h)
        \/ \E t \in KnownTokens \union {Bogus} : StartBearer(r, e, t)
  BY DEF Arrive
<1> DEFINE a == Arrival(e)
<1>0. TypeOK /\ clock \in Int
  BY DEF IInv, TypeOK
<1>2. /\ a \in RequestRecord /\ a.endpoint = e /\ a.answer = "pending"
      /\ a.before = {q \in Requests : Answered(q)}
      /\ a.record = Null /\ a.reply = "none" /\ a.stmt = Null /\ a.login = Null
      /\ a.created = FALSE
  BY ArrivalFields
<1>3. CASE RejectBody(r, e)
  BY <1>3, RefusalArrives DEF RejectBody, Rejected
<1>4. CASE NoConnection(r, e)
  <2> DEFINE x == [a EXCEPT !.answer = "INTERNAL_ERROR", !.reply = "broken"]
  <2>1. /\ req' = [req EXCEPT ![r] = x] /\ Arrives(r, e)
        /\ UNCHANGED <<clock, users, sessions, issued>>
    BY <1>4 DEF NoConnection
  <2>2. req'[r] = x /\ Others(r)
    BY <1>0, <2>1, AssignedRecord
  <2> HIDE DEF a
  <2>3. /\ x.endpoint = e /\ x.before = a.before /\ x.record = Null /\ x.reply = "broken"
        /\ x.stmt = Null /\ x.login = Null /\ x.created = FALSE
        /\ x.answer = "INTERNAL_ERROR"
    BY <1>2 DEF RequestRecord
  <2> HIDE DEF x
  <2> QED BY <1>2, <2>1, <2>2, <2>3 DEF Arrived, Arrives, TablesKept
<1>5. ASSUME NEW t \in OauthTokens, StartLogin(r, e, t)
      PROVE  Arrived(r)
  <2>1. CASE VerifyToken(t, clock) = Null
    BY <1>5, <2>1, RefusalArrives DEF StartLogin, Rejected
  <2>2. CASE VerifyToken(t, clock) # Null
    <3> DEFINE v == VerifyToken(t, clock)
               x == [a EXCEPT !.stmt = "upsert_user", !.reply = "awaited",
                              !.login = v, !.at = clock, !.loginAt = clock]
    <3>1. /\ req' = [req EXCEPT ![r] = x] /\ Arrives(r, e) /\ e \in LoginEndpoints
          /\ UNCHANGED <<clock, users, sessions, issued>>
      BY <1>5, <2>2 DEF StartLogin
    <3>2. req'[r] = x /\ Others(r)
      BY <1>0, <3>1, AssignedRecord
    <3> HIDE DEF a, v
    <3>3. /\ x.endpoint = e /\ x.before = a.before /\ x.record = Null
          /\ x.reply = "awaited" /\ x.stmt = "upsert_user" /\ x.login = v
          /\ x.at = clock /\ x.loginAt = clock /\ x.created = FALSE /\ x.answer = "pending"
      BY <1>0, <1>2 DEF RequestRecord
    <3>4. v # Null
      BY <2>2 DEF v
    <3> HIDE DEF x
    <3> QED BY <1>2, <3>1, <3>2, <3>3, <3>4 DEF Arrived, Arrives, TablesKept
  <2> QED BY <2>1, <2>2
<1>6. ASSUME NEW h \in {"absent", "malformed"}, RejectHeader(r, e, h)
      PROVE  Arrived(r)
  <2>1. HeaderError(h) \in {"VALIDATION_ERROR", "SESSION_MISSING"}
    BY DEF HeaderError
  <2> QED BY <1>6, <2>1, RefusalArrives DEF RejectHeader, Rejected
<1>7. ASSUME NEW t \in KnownTokens \union {Bogus}, StartBearer(r, e, t)
      PROVE  Arrived(r)
  <2> DEFINE x == [a EXCEPT !.token = t, !.stmt = "get_by_token_hash",
                            !.reply = "awaited"]
  <2>1. /\ req' = [req EXCEPT ![r] = x] /\ Arrives(r, e) /\ e \in BearerEndpoints
        /\ UNCHANGED <<clock, users, sessions, issued>>
    BY <1>7 DEF StartBearer
  <2>2. req'[r] = x /\ Others(r)
    BY <1>0, <2>1, AssignedRecord
  <2> HIDE DEF a
  <2>3. /\ x.endpoint = e /\ x.before = a.before /\ x.record = Null
        /\ x.reply = "awaited" /\ x.stmt = "get_by_token_hash" /\ x.login = Null
        /\ x.created = FALSE /\ x.answer = "pending"
    BY <1>2 DEF RequestRecord
  <2> HIDE DEF x
  <2> QED BY <1>2, <2>1, <2>2, <2>3 DEF Arrived, Arrives, TablesKept
<1> QED BY <1>1, <1>3, <1>4, <1>5, <1>6, <1>7

(* An assigned reply leaves a request's record as it was, but for that.       *)
LEMMA ReplyAssigned ==
    ASSUME TypeOK, NEW r \in Requests,
           NEW reply \in {"row", "no row", "rejected", "broken"},
           req' = [req EXCEPT ![r].reply = reply]
    PROVE  /\ Replied(r, reply) /\ Others(r)
           /\ CommitsNone(r)
<1> DEFINE x == [req[r] EXCEPT !.reply = reply]
<1>1. req' = [req EXCEPT ![r] = x] /\ req[r] \in RequestRecord
  BY DEF TypeOK
<1>2. Replied(r, reply)
  BY AssignedReply
<1>3. req'[r] = x /\ Others(r)
  BY <1>1, AssignedRecord
<1> HIDE DEF x
<1>4. x.created = req[r].created /\ x.committed = req[r].committed
  BY <1>1 DEF RequestRecord, x
<1> QED BY <1>2, <1>3, <1>4 DEF CommitsNone

(* Every statement has the effect its repository gives it, and a reply.       *)
LEMMA ExecuteKind ==
    ASSUME IInv, NEW r \in Requests, Execute(r)
    PROVE  \/ Upserted(r) \/ Refused(r) \/ Inserted(r) \/ Read(r) \/ Updated(r)
           \/ Revoked(r) \/ Looked(r)
<1>1. PICK lost \in BOOLEAN :
        \/ ExecUpsert(r, lost) \/ RefuseUpsert(r, lost)
        \/ ExecInsert(r, lost) \/ ExecSelect(r, lost)
        \/ ExecUpdate(r, lost) \/ ExecRevoke(r, lost) \/ ExecGetUser(r, lost)
  BY DEF Execute
<1>0. TypeOK /\ req[r] \in RequestRecord
  BY DEF IInv, TypeOK
<1>2. ASSUME ExecUpsert(r, lost) PROVE Upserted(r)
  <2> DEFINE reply == Reply(lost, "row")
             c == UpsertCreates(users, req[r].login.telegram_id)
             k == CommittedLogins \union {r}
             x == [req[r] EXCEPT !.reply = reply, !.created = c, !.committed = k]
  <2>1. /\ Executes(r, "upsert_user") /\ req' = [req EXCEPT ![r] = x]
        /\ users' = UpsertUser(users, req[r].login.telegram_id, req[r].login.username,
                               req[r].at)
        /\ UNCHANGED <<clock, sessions, issued>>
    BY <1>2 DEF ExecUpsert
  <2>2. reply \in {"row", "broken"} /\ c \in BOOLEAN
    BY DEF Reply, UpsertCreates
  <2>3. req'[r] = x /\ Others(r)
    BY <1>0, <2>1, AssignedRecord
  <2> HIDE DEF reply, c, k
  <2>4. ReplyOnly(req[r], x, reply) /\ x.created = c /\ x.committed = k
    <3>1. CASE c = TRUE
      <4>1. x = [req[r] EXCEPT !.reply = reply, !.created = TRUE, !.committed = k]
        BY <3>1
      <4> HIDE DEF x
      <4> QED BY <1>0, <3>1, <4>1 DEF RequestRecord, ReplyOnly
    <3>2. CASE c = FALSE
      <4>1. x = [req[r] EXCEPT !.reply = reply, !.created = FALSE, !.committed = k]
        BY <3>2
      <4> HIDE DEF x
      <4> QED BY <1>0, <3>2, <4>1 DEF RequestRecord, ReplyOnly
    <3> QED BY <2>2, <3>1, <3>2
  <2> HIDE DEF x
  <2>5. ReplyOnly(req[r], req'[r], reply) /\ req'[r].created = c /\ req'[r].committed = k
    BY <2>3, <2>4, Zenon
  <2>6. Ran(r, "upsert_user")
    BY <2>1, <2>3, <2>5 DEF Ran, Continues, ReplyOnly, Executes
  <2>7. req'[r].created = UpsertCreates(users, req[r].login.telegram_id)
    BY <2>5, Zenon DEF c
  <2>8. req'[r].committed = CommittedLogins \union {r}
    BY <2>5, Zenon DEF k
  <2> QED BY <2>1, <2>2, <2>5, <2>6, <2>7, <2>8 DEF Upserted, ReplyOnly
<1>3. ASSUME ExecInsert(r, lost) PROVE Inserted(r)
  <2> DEFINE id == req[r].login.telegram_id
             accepted == UserExists(users, id) /\ sessions[Hash(r)] = Null
             reply == Reply(lost, IF accepted THEN "row" ELSE "rejected")
  <2>1. /\ Executes(r, "create_session") /\ req' = [req EXCEPT ![r].reply = reply]
        /\ sessions' = IF accepted THEN InsertSession(sessions, Hash(r), id, req[r].at)
                                   ELSE sessions
        /\ UNCHANGED <<clock, users, issued>>
    BY <1>3 DEF ExecInsert
  <2>2. /\ reply \in {"row", "rejected", "broken"}
        /\ accepted => reply \in {"row", "broken"}
        /\ ~accepted => reply \in {"rejected", "broken"}
    BY DEF Reply
  <2> HIDE DEF reply
  <2>3. Replied(r, reply) /\ Others(r) /\ CommitsNone(r)
    BY <1>0, <2>1, <2>2, ReplyAssigned
  <2>4. Ran(r, "create_session")
    BY <2>1, <2>3 DEF Ran, Continues, Replied, ReplyOnly, Executes
  <2>5. req'[r].record = req[r].record /\ req'[r].reply = reply
    BY <2>3 DEF Replied, ReplyOnly
  <2>6. CASE accepted
    BY <2>1, <2>2, <2>3, <2>4, <2>5, <2>6, Zenon DEF Inserted
  <2>7. CASE ~accepted
    BY <2>1, <2>2, <2>3, <2>4, <2>5, <2>7, Zenon DEF Inserted
  <2> QED BY <2>6, <2>7
<1>4. ASSUME ExecSelect(r, lost) PROVE Read(r)
  <2> DEFINE row == RowOf(r)
             active == ~lost /\ ActiveNow(row)
             x == [req[r] EXCEPT
                     !.reply = Reply(lost, IF row = Null THEN "no row" ELSE "row"),
                     !.record = IF lost THEN Null ELSE row,
                     !.active = active]
  <2>1. /\ Executes(r, "get_by_token_hash") /\ req' = [req EXCEPT ![r] = x]
        /\ UNCHANGED <<clock, users, sessions, issued>>
    BY <1>4 DEF ExecSelect, RowOf
  <2>2. req'[r] = x /\ Others(r)
    BY <1>0, <2>1, AssignedRecord
  <2> HIDE DEF row, active
  <2>3. /\ x.endpoint = req[r].endpoint /\ x.login = req[r].login
        /\ x.before = req[r].before /\ x.stmt = req[r].stmt /\ x.token = req[r].token
        /\ x.at = req[r].at /\ x.answer = req[r].answer
        /\ x.created = req[r].created /\ x.committed = req[r].committed
        /\ x.loginAt = req[r].loginAt
        /\ x.reply = Reply(lost, IF row = Null THEN "no row" ELSE "row")
        /\ x.record = IF lost THEN Null ELSE row
    <3> DEFINE rp == Reply(lost, IF row = Null THEN "no row" ELSE "row")
               rc == IF lost THEN Null ELSE row
    <3>1. x = [req[r] EXCEPT !.reply = rp, !.record = rc, !.active = active]
      OBVIOUS
    <3> HIDE DEF x, rp, rc
    <3>2. /\ x.endpoint = req[r].endpoint /\ x.login = req[r].login
        /\ x.before = req[r].before /\ x.stmt = req[r].stmt /\ x.token = req[r].token
        /\ x.at = req[r].at /\ x.answer = req[r].answer
        /\ x.created = req[r].created /\ x.committed = req[r].committed
        /\ x.loginAt = req[r].loginAt
        /\ x.reply = rp /\ x.record = rc
      BY <1>0, <3>1 DEF RequestRecord
    <3> QED BY <3>2 DEF rp, rc
  <2> HIDE DEF x
  <2>4. Ran(r, "get_by_token_hash") /\ TablesKept
    BY <2>1, <2>2, <2>3 DEF Ran, Continues, Executes, TablesKept
  <2>8. CommitsNone(r)
    BY <2>2, <2>3 DEF CommitsNone
  <2>5. CASE lost
    BY <2>2, <2>3, <2>4, <2>5, <2>8 DEF Read, Reply
  <2>6. CASE ~lost /\ row = Null
    BY <2>2, <2>3, <2>4, <2>6, <2>8 DEF Read, Reply
  <2>7. CASE ~lost /\ row # Null
    BY <2>2, <2>3, <2>4, <2>7, <2>8 DEF Read, Reply, row
  <2> QED BY <2>5, <2>6, <2>7
<1>5. ASSUME ExecUpdate(r, lost) PROVE Updated(r)
  <2> DEFINE reply == Reply(lost, IF GetByTokenHash(sessions, Hash(r)) = Null
                                    THEN "no row" ELSE "row")
  <2>1. /\ Executes(r, "update_expiry") /\ req' = [req EXCEPT ![r].reply = reply]
        /\ sessions' = UpdateExpiry(sessions, Hash(r), req[r].at)
        /\ UNCHANGED <<clock, users, issued>>
    BY <1>5 DEF ExecUpdate
  <2>2. reply \in {"row", "no row", "broken"}
    BY DEF Reply
  <2> HIDE DEF reply
  <2>3. Replied(r, reply) /\ Others(r) /\ CommitsNone(r)
    BY <1>0, <2>1, <2>2, ReplyAssigned
  <2> QED BY <2>1, <2>2, <2>3 DEF Updated, Ran, Continues, Replied, ReplyOnly, Executes
<1>6. ASSUME ExecRevoke(r, lost) PROVE Revoked(r)
  <2> DEFINE reply == Reply(lost, "row")
  <2>1. /\ Executes(r, "revoke") /\ req' = [req EXCEPT ![r].reply = reply]
        /\ sessions' = RevokeSession(sessions, Hash(r), req[r].at)
        /\ UNCHANGED <<clock, users, issued>>
    BY <1>6 DEF ExecRevoke
  <2>2. reply \in {"row", "broken"}
    BY DEF Reply
  <2> HIDE DEF reply
  <2>3. Replied(r, reply) /\ Others(r) /\ CommitsNone(r)
    BY <1>0, <2>1, <2>2, ReplyAssigned
  <2> QED BY <2>1, <2>2, <2>3 DEF Revoked, Ran, Continues, Replied, ReplyOnly, Executes
<1>7. ASSUME ExecGetUser(r, lost) PROVE Looked(r)
  <2> DEFINE exists == UserExists(users, req[r].record.user_id)
             reply == Reply(lost, IF exists THEN "row" ELSE "no row")
  <2>1. /\ Executes(r, "get_by_id") /\ req' = [req EXCEPT ![r].reply = reply]
        /\ UNCHANGED <<clock, users, sessions, issued>>
    BY <1>7 DEF ExecGetUser
  <2>2. reply \in {"row", "no row", "broken"} /\ (reply = "no row" => ~exists)
    BY DEF Reply
  <2> HIDE DEF reply
  <2>3. Replied(r, reply) /\ Others(r) /\ CommitsNone(r)
    BY <1>0, <2>1, <2>2, ReplyAssigned
  <2>4. Ran(r, "get_by_id") /\ TablesKept
    BY <2>1, <2>3 DEF Ran, Continues, Replied, ReplyOnly, Executes, TablesKept
  <2>5. req'[r].record = req[r].record /\ req'[r].reply = reply
    BY <2>3 DEF Replied, ReplyOnly
  <2> QED BY <2>2, <2>3, <2>4, <2>5 DEF Looked
<1>8. ASSUME RefuseUpsert(r, lost) PROVE Refused(r)
  <2> DEFINE reply == Reply(lost, "rejected")
  <2>1. /\ Executes(r, "upsert_user") /\ req' = [req EXCEPT ![r].reply = reply]
        /\ ~LoginStorable(r) /\ UNCHANGED <<clock, users, sessions, issued>>
    BY <1>8 DEF RefuseUpsert
  <2>2. reply \in {"rejected", "broken"}
    BY DEF Reply
  <2> HIDE DEF reply
  <2>3. Replied(r, reply) /\ Others(r) /\ CommitsNone(r)
    BY <1>0, <2>1, <2>2, ReplyAssigned
  <2>4. Ran(r, "upsert_user") /\ TablesKept
    BY <2>1, <2>3 DEF Ran, Continues, Replied, ReplyOnly, Executes, TablesKept
  <2>5. req'[r].record = req[r].record /\ req'[r].reply = reply
    BY <2>3 DEF Replied, ReplyOnly
  <2> QED BY <2>1, <2>2, <2>3, <2>4, <2>5, Zenon DEF Refused
<1> QED BY <1>1, <1>2, <1>3, <1>4, <1>5, <1>6, <1>7, <1>8

(* A broken connection is a reply as well.                                    *)
LEMMA BreakKind ==
    ASSUME IInv, NEW r \in Requests, Break(r)
    PROVE  Broke(r)
<1>1. /\ TypeOK /\ req[r].reply = "awaited" /\ UNCHANGED <<clock, users, sessions, issued>>
      /\ req' = [req EXCEPT ![r].reply = "broken"]
  BY DEF IInv, Break
<1>2. Replied(r, "broken") /\ Others(r) /\ CommitsNone(r)
  BY <1>1, ReplyAssigned
<1> QED BY <1>1, <1>2 DEF Broke, Ran, Continues, Replied, ReplyOnly, TablesKept

(* Every resumption answers or sends what comes next.                         *)
LEMMA AnswerKind ==
    ASSUME IInv, NEW r \in Requests, NEW code \in {"OK"} \union ErrorCodes, Pending(r),
           UNCHANGED <<clock, users, sessions, issued>>,
           req' = [req EXCEPT ![r] = Answer(r, code)],
           \/ req[r].reply \in {"rejected", "broken"} /\ code = "INTERNAL_ERROR"
           \/ req[r].reply = "no row" /\ req[r].stmt = "get_by_id" /\ code = "INTERNAL_ERROR"
           \/ /\ req[r].stmt = "get_by_token_hash" /\ req[r].reply = "no row"
              /\ code = "SESSION_MISSING"
           \/ /\ req[r].stmt = "get_by_token_hash" /\ req[r].reply = "row"
              /\ ~EnsureActive(req[r].record, clock) /\ code = "SESSION_EXPIRED"
           \/ /\ req[r].stmt = "upsert_user" /\ req[r].reply = "row"
              /\ req[r].endpoint = "POST /token" /\ code = "OK"
           \/ /\ req[r].stmt \in {"create_session", "revoke", "get_by_id"}
              /\ req[r].reply = "row" /\ code = "OK"
    PROVE  Answers(r)
<1> DEFINE x == Answer(r, code)
<1>1. TypeOK /\ req[r] \in RequestRecord
  BY DEF IInv, TypeOK
<1>2. Answering(req[r], x, code)
  BY <1>1, AnswerRecord
<1>3. x.created = req[r].created
  BY <1>1 DEF Answer, RequestRecord
<1>4. req'[r] = x /\ Others(r)
  BY <1>1, AssignedRecord
<1> HIDE DEF x
<1> QED BY <1>2, <1>3, <1>4 DEF Answers, Answering, Continues, CommitsNone, TablesKept

(* Sending changes the statement, its reply and no more.                      *)
LEMMA SentFields ==
    ASSUME TypeOK, NEW r \in Requests, NEW s \in Statements
    PROVE  /\ Send(r, s) \in RequestRecord
           /\ Sending(req[r], Send(r, s)) /\ Send(r, s).stmt = s
           /\ Send(r, s).token = req[r].token /\ Send(r, s).at = req[r].at
           /\ Send(r, s).created = req[r].created
<1>1. req[r] \in RequestRecord
  BY DEF TypeOK
<1> QED BY <1>1, SentRecord DEF Send, RequestRecord

(* Every resumption is one of the last kinds.                                 *)
LEMMA ResumeKind ==
    ASSUME IInv, NEW r \in Requests, Resume(r)
    PROVE  Creating(r) \/ Following(r) \/ Refreshed(r) \/ Answers(r)
<1>1. TypeOK /\ req[r] \in RequestRecord /\ StatementInv(r) /\ TableInv(r)
  BY DEF IInv, TypeOK
<1>2. CASE ResumeFailed(r)
  BY <1>2, AnswerKind DEF ResumeFailed, ErrorCodes
<1>3. CASE ResumeVerify(r)
  BY <1>3, AnswerKind DEF ResumeVerify, Resumes
<1>4. CASE ResumeInsert(r)
  BY <1>4, AnswerKind DEF ResumeInsert, Resumes
<1>5. CASE ResumeUnknown(r)
  BY <1>5, AnswerKind DEF ResumeUnknown, Resumes, ErrorCodes
<1>6. CASE ResumeInactive(r)
  BY <1>6, AnswerKind DEF ResumeInactive, Resumes, ErrorCodes
<1>7. CASE ResumeRevoke(r)
  BY <1>7, AnswerKind DEF ResumeRevoke, Resumes
<1>8. CASE ResumeGetUser(r)
  <2>1. CASE req[r].reply = "row"
    BY <1>8, <2>1, AnswerKind DEF ResumeGetUser
  <2>2. CASE req[r].reply = "no row"
    BY <1>8, <2>2, AnswerKind DEF ResumeGetUser, ErrorCodes
  <2> QED BY <1>8, <2>1, <2>2 DEF ResumeGetUser
<1>9. CASE ResumeCreate(r)
  <2>1. PICK t \in FreshTokens :
          /\ issued' = issued \union {t}
          /\ req' = [req EXCEPT ![r] = [Send(r, "create_session") EXCEPT
                                           !.token = t, !.at = ExpiresAt(clock)]]
    BY <1>9 DEF ResumeCreate
  <2>2. /\ Pending(r) /\ req[r].stmt = "upsert_user" /\ req[r].reply = "row"
        /\ req[r].endpoint = "POST /session"
        /\ UNCHANGED <<clock, users, sessions>> /\ t \in Tokens \ issued
    BY <1>9 DEF ResumeCreate, Resumes, FreshTokens
  <2> DEFINE s == Send(r, "create_session")
             x == [s EXCEPT !.token = t, !.at = ExpiresAt(clock)]
  <2>3. /\ s \in RequestRecord /\ Sending(req[r], s) /\ s.stmt = "create_session"
        /\ s.created = req[r].created
    BY <1>1, SentFields DEF Statements
  <2>4. req'[r] = x /\ Others(r)
    BY <1>1, <2>1, AssignedRecord
  <2> HIDE DEF s
  <2>5. /\ Sending(req[r], x) /\ x.stmt = "create_session" /\ x.token = t
        /\ x.created = req[r].created
    BY <2>3 DEF Sending, RequestRecord
  <2> HIDE DEF x
  <2>6. Sends(r)
    BY <2>2, <2>4, <2>5 DEF Sends, Continues, CommitsNone, Sending, Pending
  <2> QED BY <2>1, <2>2, <2>4, <2>5, <2>6 DEF Creating
<1>10. CASE GetSession(r)
  <2> DEFINE x == Send(r, "get_by_id")
  <2>1. /\ Pending(r) /\ req[r].stmt = "get_by_token_hash" /\ req[r].reply = "row"
        /\ req[r].endpoint = "GET /session" /\ EnsureActive(req[r].record, clock)
        /\ UNCHANGED <<clock, users, sessions, issued>> /\ req' = [req EXCEPT ![r] = x]
    BY <1>10 DEF GetSession, ResumeActive, Resumes
  <2>2. /\ Sending(req[r], x) /\ x.stmt = "get_by_id" /\ x.token = req[r].token
        /\ x.created = req[r].created
    BY <1>1, SentFields DEF Statements
  <2>3. req'[r] = x /\ Others(r)
    BY <1>1, <2>1, AssignedRecord
  <2> HIDE DEF x
  <2>4. Sends(r)
    BY <2>1, <2>2, <2>3 DEF Sends, Continues, CommitsNone, Sending, Pending
  <2> QED BY <2>1, <2>2, <2>3, <2>4 DEF Following
<1>11. CASE RefreshSession(r)
  <2> DEFINE s == Send(r, "update_expiry")
             x == [s EXCEPT !.at = ExpiresAt(clock)]
  <2>1. /\ Pending(r) /\ req[r].stmt = "get_by_token_hash" /\ req[r].reply = "row"
        /\ req[r].endpoint = "POST /session/refresh" /\ EnsureActive(req[r].record, clock)
        /\ UNCHANGED <<clock, users, sessions, issued>> /\ req' = [req EXCEPT ![r] = x]
    BY <1>11 DEF RefreshSession, ResumeActive, Resumes
  <2>2. /\ s \in RequestRecord /\ Sending(req[r], s) /\ s.stmt = "update_expiry"
        /\ s.token = req[r].token /\ s.created = req[r].created
    BY <1>1, SentFields DEF Statements
  <2>3. req'[r] = x /\ Others(r)
    BY <1>1, <2>1, AssignedRecord
  <2> HIDE DEF s
  <2>4. /\ Sending(req[r], x) /\ x.stmt = "update_expiry" /\ x.token = req[r].token
        /\ x.at = ExpiresAt(clock) /\ x.created = req[r].created
    BY <1>1, <2>2 DEF Sending, RequestRecord
  <2> HIDE DEF x
  <2>5. Sends(r)
    BY <2>1, <2>3, <2>4 DEF Sends, Continues, CommitsNone, Sending, Pending
  <2> QED BY <2>1, <2>3, <2>4, <2>5 DEF Following
<1>12. CASE RevokeThisSession(r)
  <2> DEFINE s == Send(r, "revoke")
             x == [s EXCEPT !.at = clock]
  <2>1. /\ Pending(r) /\ req[r].stmt = "get_by_token_hash" /\ req[r].reply = "row"
        /\ req[r].endpoint = "DELETE /session" /\ EnsureActive(req[r].record, clock)
        /\ UNCHANGED <<clock, users, sessions, issued>> /\ req' = [req EXCEPT ![r] = x]
    BY <1>12 DEF RevokeThisSession, ResumeActive, Resumes
  <2>2. /\ s \in RequestRecord /\ Sending(req[r], s) /\ s.stmt = "revoke"
        /\ s.token = req[r].token /\ s.created = req[r].created
    BY <1>1, SentFields DEF Statements
  <2>3. req'[r] = x /\ Others(r)
    BY <1>1, <2>1, AssignedRecord
  <2> HIDE DEF s
  <2>4. /\ Sending(req[r], x) /\ x.stmt = "revoke" /\ x.token = req[r].token
        /\ x.created = req[r].created
    BY <1>1, <2>2 DEF Sending, RequestRecord
  <2> HIDE DEF x
  <2>5. Sends(r)
    BY <2>1, <2>3, <2>4 DEF Sends, Continues, CommitsNone, Sending, Pending
  <2> QED BY <2>1, <2>3, <2>4, <2>5 DEF Following
<1>13. CASE ResumeUpdate(r)
  <2> DEFINE x == Send(r, "get_by_id")
  <2>1. /\ Pending(r) /\ req[r].stmt = "update_expiry" /\ req[r].reply = "row"
        /\ UNCHANGED <<clock, users, sessions, issued>> /\ req' = [req EXCEPT ![r] = x]
    BY <1>1, <1>13 DEF ResumeUpdate, TableInv
  <2>2. /\ Sending(req[r], x) /\ x.stmt = "get_by_id" /\ x.token = req[r].token
        /\ x.at = req[r].at /\ x.created = req[r].created
    BY <1>1, SentFields DEF Statements
  <2>3. req'[r] = x /\ Others(r)
    BY <1>1, <2>1, AssignedRecord
  <2> HIDE DEF x
  <2>4. Sends(r)
    BY <2>1, <2>2, <2>3 DEF Sends, Continues, CommitsNone, Sending, Pending
  <2> QED BY <2>1, <2>2, <2>3, <2>4 DEF Refreshed
<1> QED BY <1>2, <1>3, <1>4, <1>5, <1>6, <1>7, <1>8, <1>9, <1>10, <1>11, <1>12, <1>13
        DEF Resume

(* A crash answers nobody and keeps the tables.                               *)
LEMMA CrashKind ==
    ASSUME IInv, Crash
    PROVE  Crashed
<1>1. /\ TypeOK /\ UNCHANGED <<clock, users, sessions, issued>>
      /\ req' = [q \in Requests |-> IF Pending(q) THEN Answer(q, "connection lost")
                                                 ELSE req[q]]
  BY DEF IInv, Crash
<1>2. ASSUME NEW q \in Requests
      PROVE  \/ req'[q] = req[q]
             \/ Pending(q) /\ Answering(req[q], req'[q], "connection lost")
                           /\ CommitsNone(q)
  <2>1. req[q] \in RequestRecord
    BY <1>1 DEF TypeOK
  <2>2. req'[q] = IF Pending(q) THEN Answer(q, "connection lost") ELSE req[q]
    BY <1>1
  <2>3. CASE Pending(q)
    <3>1. req'[q] = Answer(q, "connection lost")
      BY <2>2, <2>3, Zenon
    <3> QED BY <2>1, <2>3, <3>1 DEF Answer, Answering, CommitsNone, RequestRecord
  <2>4. CASE ~Pending(q)
    BY <2>2, <2>4, Zenon
  <2> QED BY <2>3, <2>4
<1> QED BY <1>1, <1>2 DEF Crashed, TablesKept

(* Every step of Sessions is of one of the kinds.                             *)
LEMMA KindsOfSteps ==
    ASSUME IInv, [Next]_vars
    PROVE  (\E r \in Requests : StepOf(r)) \/ Crashed \/ Waited
<1>1. ASSUME NEW r \in Requests, Arrive(r) \/ Execute(r) \/ Break(r) \/ Resume(r)
      PROVE  StepOf(r)
  BY <1>1, ArriveKind, ExecuteKind, BreakKind, ResumeKind DEF StepOf
<1>2. Tick \/ Idle \/ UNCHANGED vars => Waited
  BY DEF Tick, Idle, vars, Waited, TablesKept, IInv, TypeOK
<1> QED BY <1>1, <1>2, CrashKind DEF Next

----------------------------------------------------------------------------
(* What the answers rest on.                                                  *)

\* users and their names stay
UsersKept(old, new) ==
    \A u \in TgIds : UserExists(old, u) =>
        /\ UserExists(new, u)
        /\ old[u].username # Null => new[u].username # Null

\* no session appears but under the token that r was given
NewSessionsOf(r) ==
    \A h \in Hashes : sessions[h] = Null =>
        sessions'[h] = Null \/ (req[r].stmt = "create_session" /\ h = Hash(r))

(* upsert_user erases no user and no name: the COALESCE.                      *)
LEMMA UpsertKeepsUsers ==
    ASSUME NEW table \in UserTable, NEW id \in TgIds,
           NEW name \in Usernames \union {Null}, NEW now \in Int
    PROVE  /\ UsersKept(table, UpsertUser(table, id, name, now))
           /\ UserExists(UpsertUser(table, id, name, now), id)
           /\ name # Null => UpsertUser(table, id, name, now)[id].username # Null
           /\ UpsertUser(table, id, name, now)[id].last_login_at = now
           /\ \A u \in TgIds \ {id} : UpsertUser(table, id, name, now)[u] = table[u]
<1> DEFINE row == IF table[id] = Null
                    THEN [username |-> name, last_login_at |-> now]
                    ELSE [username |-> Coalesce(name, table[id].username),
                          last_login_at |-> now]
<1>1. UpsertUser(table, id, name, now) = [table EXCEPT ![id] = row]
  BY DEF UpsertUser
<1>2. /\ row \in UserRow /\ row.last_login_at = now
      /\ name # Null => row.username # Null
      /\ table[id] # Null /\ table[id].username # Null => row.username # Null
  <2>1. CASE table[id] = Null
    BY <2>1 DEF UserRow
  <2>2. CASE table[id] # Null
    <3>1. table[id] \in UserRow
      BY <2>2 DEF UserTable
    <3>2. Coalesce(name, table[id].username) \in Usernames \union {Null}
      BY <3>1 DEF UserRow, Coalesce
    <3>3. /\ name # Null => Coalesce(name, table[id].username) # Null
          /\ table[id].username # Null => Coalesce(name, table[id].username) # Null
      BY DEF Coalesce
    <3> QED BY <2>2, <3>2, <3>3 DEF UserRow
  <2> QED BY <2>1, <2>2
<1> HIDE DEF row
<1>3. row # Null
  BY <1>2, NullIsNoValue
<1> DEFINE new == UpsertUser(table, id, name, now)
<1>4. new[id] = row /\ \A u \in TgIds \ {id} : new[u] = table[u]
  BY <1>1 DEF UserTable
<1> HIDE DEF new
<1>5. UsersKept(table, new)
  BY <1>2, <1>3, <1>4 DEF UsersKept, UserExists
<1> QED BY <1>2, <1>3, <1>4, <1>5 DEF UserExists, new

(* A request that a step does not touch keeps what it knows.                  *)
LEMMA UntouchedKnowledge ==
    ASSUME IInv, AnswersInv, NEW r \in Requests, NEW q \in Requests \ {r},
           req'[q] = req[q], UsersKept(users, users'), issued \subseteq issued',
           NewSessionsOf(r)
    PROVE  ReplyInv(q)' /\ KnowledgeInv(q)'
<1>1. /\ ReplyInv(q) /\ KnowledgeInv(q) /\ UniqueInv(q, r) /\ StatementInv(q)
      /\ req[q] \in RequestRecord
  BY DEF AnswersInv, IInv, TypeOK
<1>2. ReplyInv(q)'
  BY <1>1 DEF ReplyInv, Answered, AnsweredOK, LoginStorable
<1>3. /\ req[q].record # Null => req[q].record.user_id \in TgIds
      /\ req[q].login # Null => req[q].login.telegram_id \in TgIds
  BY <1>1 DEF RequestRecord, SessionRow
<1>4. req[q].stmt \in {"upsert_user", "create_session"} => req[q].login # Null
  BY <1>1 DEF StatementInv
<1>5. req[q].stmt = "create_session" /\ sessions[Hash(q)] = Null => sessions'[Hash(q)] = Null
  <2> SUFFICES ASSUME req[q].stmt = "create_session", sessions[Hash(q)] = Null
               PROVE  sessions'[Hash(q)] = Null
    OBVIOUS
  <2>1. Hash(q) \in Hashes
    BY <1>1, HashTokenInjective DEF StatementInv, Hash
  <2>2. ~(req[r].stmt = "create_session" /\ Hash(q) = Hash(r))
    BY <1>1, HashTokenInjective DEF UniqueInv, SameToken, Hash
  <2> QED BY <2>1, <2>2 DEF NewSessionsOf
<1>6. Hash(q)' = Hash(q)
  BY DEF Hash
<1>7. KnowledgeInv(q)'
  BY <1>1, <1>3, <1>4, <1>5, <1>6 DEF KnowledgeInv, UsersKept
<1> QED BY <1>2, <1>7

(* The step of one request keeps AnswersInv when it does for that request.    *)
LEMMA StepKeepsAnswers ==
    ASSUME IInv, AnswersInv, NEW r \in Requests, Others(r),
           UsersKept(users, users'), issued \subseteq issued', NewSessionsOf(r),
           OwnersExist', StoredTokensIssued', ReplyInv(r)', KnowledgeInv(r)',
           \A q \in Requests \ {r} : UniqueInv(q, r)'
    PROVE  AnswersInv'
<1>1. ASSUME NEW q \in Requests PROVE ReplyInv(q)' /\ KnowledgeInv(q)'
  BY UntouchedKnowledge DEF Others
<1>2. ASSUME NEW p \in Requests, NEW q \in Requests PROVE UniqueInv(p, q)'
  <2>1. CASE p # r /\ q # r
    <3>1. UniqueInv(p, q) /\ req'[p] = req[p] /\ req'[q] = req[q]
      BY <2>1 DEF AnswersInv, Others
    <3> QED BY <3>1 DEF UniqueInv, SameToken
  <2>2. CASE p = q
    BY <2>2 DEF UniqueInv
  <2>3. CASE p # r /\ q = r
    BY <2>3
  <2>4. CASE p = r /\ q # r
    <3>1. UniqueInv(q, p)'
      BY <2>4
    <3> QED BY <3>1 DEF UniqueInv, SameToken
  <2> QED BY <2>1, <2>2, <2>3, <2>4
<1> QED BY <1>1, <1>2 DEF AnswersInv

(* A step that leaves the tables alone keeps what they have to do with each   *)
(* other.                                                                     *)
LEMMA TablesKeptAgree ==
    ASSUME IInv, AnswersInv, NEW r \in Requests, users' = users, sessions' = sessions,
           issued \subseteq issued'
    PROVE  /\ UsersKept(users, users') /\ NewSessionsOf(r)
           /\ OwnersExist' /\ StoredTokensIssued'
BY DEF UsersKept, NewSessionsOf, AnswersInv, OwnersExist, StoredTokensIssued

\* r has the token, the endpoint and the user it had
SameKey(r) ==
    /\ req'[r].token = req[r].token
    /\ req'[r].login = req[r].login
    /\ req'[r].created = req[r].created
    /\ req'[r].stmt = "create_session" => req[r].stmt = "create_session"

(* ... and so does not become like another.                                   *)
LEMMA SameKeyUnique ==
    ASSUME AnswersInv, NEW r \in Requests, Others(r), SameKey(r)
    PROVE  \A q \in Requests \ {r} : UniqueInv(q, r)'
<1> SUFFICES ASSUME NEW q \in Requests \ {r} PROVE UniqueInv(q, r)'
  OBVIOUS
<1>1. UniqueInv(q, r) /\ req'[q] = req[q]
  BY DEF AnswersInv, Others
<1> QED BY <1>1 DEF UniqueInv, SameToken, SameKey

(* An arrival knows nothing yet.                                              *)
LEMMA ArrivedKeepsAnswers ==
    ASSUME IInv, AnswersInv, NEW r \in Requests, Arrived(r)
    PROVE  AnswersInv'
<1>1. ReplyInv(r)'
  <2>1. req'[r].endpoint # Null
    <3>1. \A e \in LoginEndpoints \union BearerEndpoints : e # Null
      BY NullIsNoString DEF LoginEndpoints, BearerEndpoints
    <3> QED BY <3>1, SessionConstants DEF Arrived
  <2>2. req'[r].reply # "rejected" /\ req'[r].stmt # "get_by_id"
        /\ req'[r].stmt # "create_session" /\ req'[r].stmt # "update_expiry"
    BY NullIsNoString DEF Arrived
  <2> QED BY <2>1, <2>2, NullIsNoString
          DEF Arrived, ReplyInv, Answered, AnsweredOK, ErrorCodes, LoginEndpoints,
              BearerEndpoints
<1>2. KnowledgeInv(r)'
  BY NullIsNoString DEF Arrived, KnowledgeInv
<1>3. \A q \in Requests \ {r} : UniqueInv(q, r)'
  BY NullIsNoString DEF Arrived, UniqueInv
<1> QED BY <1>1, <1>2, <1>3, StepKeepsAnswers, TablesKeptAgree DEF Arrived, TablesKept

(* A request whose statement runs has arrived and is not answered.            *)
LEMMA RanUnanswered ==
    ASSUME AnswersInv, NEW r \in Requests, req[r].reply = "awaited"
    PROVE  ~Answered(r) /\ req[r].answer # "none"
<1>1. ReplyInv(r)
  BY DEF AnswersInv
<1>2. NotArrived.reply = "none"
  BY DEF NotArrived
<1> QED BY <1>1, <1>2 DEF ReplyInv

(* A reply that fits its statement keeps ReplyInv.                            *)
LEMMA RanReply ==
    ASSUME AnswersInv, NEW r \in Requests, NEW s, Ran(r, s),
           req'[r].reply \in {"row", "no row", "broken"},
           s = "get_by_id" => req'[r].reply # "no row"
    PROVE  ReplyInv(r)'
<1>1. ReplyInv(r) /\ ~Answered(r) /\ req[r].answer # "none"
  BY RanUnanswered DEF AnswersInv, Ran
<1> QED BY <1>1 DEF ReplyInv, Ran, Continues, Answered, AnsweredOK, ErrorCodes

(* upsert_user makes its user exist; the insert of a user happens once.       *)
LEMMA UpsertedKeepsAnswers ==
    ASSUME IInv, AnswersInv, NEW r \in Requests, Upserted(r)
    PROVE  AnswersInv'
<1> DEFINE id == req[r].login.telegram_id
           name == req[r].login.username
<1>1. /\ Ran(r, "upsert_user") /\ users' = UpsertUser(users, id, name, req[r].at)
      /\ sessions' = sessions /\ issued' = issued
      /\ req'[r].record = req[r].record /\ req'[r].reply \in {"row", "broken"}
      /\ req'[r].created = UpsertCreates(users, id)
  BY DEF Upserted, Ran
<1>2. /\ StatementInv(r) /\ req[r] \in RequestRecord /\ users \in UserTable
      /\ sessions \in SessionTable
  BY DEF IInv, TypeOK
<1>3. /\ req[r].login # Null /\ req[r].record = Null /\ req[r].stmt = "upsert_user"
  BY <1>1, <1>2 DEF StatementInv, Ran
<1>4. id \in TgIds /\ name \in Usernames \union {Null} /\ req[r].at \in Int
  BY <1>2, <1>3 DEF RequestRecord
<1>5. /\ UsersKept(users, users') /\ UserExists(users', id)
      /\ name # Null => users'[id].username # Null
  <2> DEFINE new == UpsertUser(users, id, name, req[r].at)
  <2>1. /\ UsersKept(users, new) /\ UserExists(new, id)
        /\ name # Null => new[id].username # Null
    BY <1>2, <1>4, UpsertKeepsUsers, ZenonT(30)
  <2>2. users' = new
    BY <1>1, Zenon
  <2> QED BY <2>1, <2>2, Zenon
<1>6. ReplyInv(r)'
  BY <1>1, RanReply
<1>7. KnowledgeInv(r)'
  BY <1>1, <1>3, <1>5 DEF KnowledgeInv, Ran, Continues
<1>8. \A q \in Requests \ {r} : UniqueInv(q, r)'
  <2> SUFFICES ASSUME NEW q \in Requests \ {r} PROVE UniqueInv(q, r)'
    OBVIOUS
  <2>1. KnowledgeInv(q) /\ req'[q] = req[q] /\ req'[r].stmt = "upsert_user"
        /\ req'[r].login = req[r].login
    BY <1>1 DEF AnswersInv, Ran, Continues, Others
  <2>2. req[q].created /\ req[q].login.telegram_id = id => ~req'[r].created
    BY <1>1, <2>1 DEF KnowledgeInv, UpsertCreates, UserExists
  <2> QED BY <2>1, <2>2 DEF UniqueInv
<1>9. OwnersExist' /\ StoredTokensIssued' /\ NewSessionsOf(r)
  <2>1. OwnersExist /\ StoredTokensIssued
    BY DEF AnswersInv
  <2>2. \A h \in Hashes : sessions[h] # Null => sessions[h].user_id \in TgIds
    BY <1>2 DEF SessionTable, SessionRow
  <2> QED BY <1>1, <1>5, <2>1, <2>2
          DEF OwnersExist, StoredTokensIssued, NewSessionsOf, UsersKept
<1> QED BY <1>1, <1>5, <1>6, <1>7, <1>8, <1>9, StepKeepsAnswers DEF Ran, Continues

(* A refused upsert_user leaves the tables and what is known of them alone.   *)
LEMMA RefusedKeepsAnswers ==
    ASSUME IInv, AnswersInv, NEW r \in Requests, Refused(r)
    PROVE  AnswersInv'
<1>1. /\ Ran(r, "upsert_user") /\ users' = users /\ sessions' = sessions
      /\ issued' = issued /\ ~LoginStorable(r) /\ req[r].stmt = "upsert_user"
      /\ req'[r].record = req[r].record /\ req'[r].created = req[r].created
      /\ req'[r].reply \in {"rejected", "broken"}
  BY DEF Refused, Ran, TablesKept, CommitsNone
<1>2. ReplyInv(r) /\ KnowledgeInv(r) /\ ~Answered(r) /\ req[r].answer # "none"
  BY <1>1, RanUnanswered DEF AnswersInv, Ran
<1>3. ReplyInv(r)'
  BY <1>1, <1>2
     DEF ReplyInv, Ran, Continues, Answered, AnsweredOK, ErrorCodes, LoginStorable
<1>4. KnowledgeInv(r)'
  BY <1>1, <1>2 DEF KnowledgeInv, Ran, Continues
<1>5. SameKey(r)
  BY <1>1 DEF SameKey, Ran, Continues
<1> QED BY <1>1, <1>3, <1>4, <1>5, TablesKeptAgree, SameKeyUnique, StepKeepsAnswers
        DEF Ran, Continues

(* create_session finds its user and a free hash, so it is not rejected.      *)
LEMMA InsertedKeepsAnswers ==
    ASSUME IInv, AnswersInv, NEW r \in Requests, Inserted(r)
    PROVE  AnswersInv'
<1> DEFINE id == req[r].login.telegram_id
<1>1. /\ Ran(r, "create_session") /\ users' = users /\ issued' = issued
      /\ req'[r].record = req[r].record /\ req'[r].created = req[r].created
      /\ req[r].stmt = "create_session" /\ req[r].reply = "awaited"
  BY DEF Inserted, Ran, CommitsNone
<1>2. /\ StatementInv(r) /\ ReplyInv(r) /\ KnowledgeInv(r)
      /\ req[r] \in RequestRecord /\ sessions \in SessionTable
      /\ OwnersExist /\ StoredTokensIssued
  BY DEF IInv, TypeOK, AnswersInv
<1>3. /\ UserExists(users, id) /\ sessions[Hash(r)] = Null
      /\ req[r].token \in issued /\ req[r].token \in Tokens
      /\ req[r].login # Null /\ req[r].record = Null
  BY <1>1, <1>2 DEF KnowledgeInv, StatementInv
<1>4. /\ sessions' = InsertSession(sessions, Hash(r), id, req[r].at)
      /\ req'[r].reply \in {"row", "broken"}
  BY <1>3, Zenon DEF Inserted
<1>5. Hash(r) \in Hashes /\ id \in TgIds /\ req[r].at \in Int
  BY <1>2, <1>3, HashTokenInjective DEF RequestRecord, Hash
<1>6. /\ \A h \in Hashes \ {Hash(r)} : sessions'[h] = sessions[h]
      /\ sessions'[Hash(r)].user_id = id
  BY <1>2, <1>4, <1>5 DEF InsertSession, SessionTable
<1>7. NewSessionsOf(r)
  BY <1>1, <1>6 DEF NewSessionsOf
<1>8. OwnersExist'
  BY <1>1, <1>2, <1>3, <1>6 DEF OwnersExist
<1>9. StoredTokensIssued'
  <2> SUFFICES ASSUME NEW t \in Tokens, sessions'[HashToken(t)] # Null PROVE t \in issued
    BY <1>1 DEF StoredTokensIssued
  <2>1. CASE t = req[r].token
    BY <1>3, <2>1
  <2>2. CASE t # req[r].token
    <3>1. HashToken(t) \in Hashes /\ HashToken(t) # Hash(r)
      BY <2>2, HashTokenInjective DEF Hash
    <3> QED BY <1>2, <1>6, <3>1 DEF StoredTokensIssued
  <2> QED BY <2>1, <2>2
<1>10. ReplyInv(r)'
  BY <1>1, <1>4, RanReply
<1>11. KnowledgeInv(r)'
  BY <1>1, <1>2, <1>3, <1>4 DEF KnowledgeInv, Ran, Continues
<1>12. SameKey(r)
  BY <1>1 DEF SameKey, Ran, Continues
<1>13. UsersKept(users, users')
  BY <1>1 DEF UsersKept
<1> QED BY <1>1, <1>7, <1>8, <1>9, <1>10, <1>11, <1>12, <1>13, SameKeyUnique,
           StepKeepsAnswers DEF Ran, Continues

(* A reply that reads no user but the owner of a session: the session's row   *)
(* was found, so its user exists.                                             *)
LEMMA ReplyKeepsAnswers ==
    ASSUME IInv, AnswersInv, NEW r \in Requests,
           Read(r) \/ Updated(r) \/ Revoked(r) \/ Looked(r) \/ Broke(r)
    PROVE  AnswersInv'
<1>1. /\ StatementInv(r) /\ ReplyInv(r) /\ KnowledgeInv(r) /\ TableInv(r)
      /\ req[r] \in RequestRecord /\ sessions \in SessionTable
      /\ OwnersExist /\ StoredTokensIssued
  BY DEF IInv, TypeOK, AnswersInv
<1> DEFINE s == req[r].stmt
<1>2. /\ Ran(r, s) /\ users' = users /\ issued' = issued
      /\ req'[r].created = req[r].created
      /\ req'[r].reply \in {"row", "no row", "broken"}
      /\ s = "get_by_id" => req'[r].reply # "no row"
      /\ s \in {"upsert_user", "create_session"} => req'[r].reply = "broken"
  <2>1. CASE Read(r)
    BY <2>1 DEF Read, TablesKept, Ran, CommitsNone
  <2>2. CASE Updated(r)
    BY <2>2 DEF Updated, Ran, CommitsNone
  <2>3. CASE Revoked(r)
    BY <2>3 DEF Revoked, Ran, CommitsNone
  <2>4. CASE Looked(r)
    <3>1. req[r].record # Null
      BY <1>1, <2>4 DEF Looked, Ran, StatementInv, AfterCheck
    <3>2. UserExists(users, req[r].record.user_id)
      BY <1>1, <3>1 DEF KnowledgeInv
    <3> QED BY <2>4, <3>2 DEF Looked, TablesKept, Ran, CommitsNone
  <2>5. CASE Broke(r)
    BY <2>5 DEF Broke, TablesKept, Ran, CommitsNone
  <2> QED BY <2>1, <2>2, <2>3, <2>4, <2>5
<1>3. req'[r].record # Null => UserExists(users, req'[r].record.user_id)
  <2>1. CASE Read(r)
    <3>1. RowOf(r) # Null => Hash(r) \in Hashes /\ RowOf(r) = sessions[Hash(r)]
      BY <1>1 DEF RowOf, GetByTokenHash, SessionTable
    <3> QED BY <1>1, <2>1, <3>1 DEF Read, OwnersExist
  <2>2. CASE ~Read(r)
    BY <1>1, <2>2 DEF KnowledgeInv, Updated, Revoked, Looked, Broke
  <2> QED BY <2>1, <2>2
<1>4. Grows(sessions, sessions') /\ \A h \in Hashes : sessions'[h] # Null => sessions[h] # Null
  <2>1. CASE Updated(r)
    <3>1. req[r].at \in Int
      BY <1>1 DEF RequestRecord
    <3>2. ExpiresBy(sessions, sessions', req[r].at) /\ Grows(sessions, sessions')
      BY <1>1, <2>1, <3>1, UpdateExpiryKeeps DEF Updated
    <3>3. \A h \in Hashes : sessions'[h] # Null => sessions[h] # Null
      BY <1>1, <2>1 DEF Updated, UpdateExpiry, GetByTokenHash, SessionTable
    <3> QED BY <3>2, <3>3
  <2>2. CASE Revoked(r)
    <3>1. req[r].at \in Int
      BY <1>1 DEF RequestRecord
    <3> QED BY <1>1, <2>2, <3>1, RevokeSessionKeeps DEF Revoked
  <2>3. CASE Read(r) \/ Looked(r) \/ Broke(r)
    <3>1. sessions' = sessions
      BY <2>3 DEF Read, Looked, Broke, TablesKept
    <3> QED BY <3>1 DEF Grows
  <2> QED BY <2>1, <2>2, <2>3
<1>5. UsersKept(users, users') /\ NewSessionsOf(r)
  BY <1>2, <1>4 DEF UsersKept, NewSessionsOf
<1>6. OwnersExist'
  BY <1>1, <1>2, <1>4 DEF OwnersExist, Grows
<1>7. StoredTokensIssued'
  BY <1>1, <1>2, <1>4, HashTokenInjective DEF StoredTokensIssued
<1>8. ReplyInv(r)'
  BY <1>2, RanReply
<1>9. SameKey(r)
  BY <1>2 DEF SameKey, Ran, Continues
<1>10. KnowledgeInv(r)'
  <2>1. /\ req'[r].stmt = req[r].stmt /\ req'[r].token = req[r].token
        /\ req'[r].login = req[r].login /\ req'[r].reply # "awaited"
        /\ req'[r].stmt = "upsert_user" => req'[r].reply # "row"
    BY <1>2 DEF Ran, Continues
  <2> QED BY <1>1, <1>2, <1>3, <2>1 DEF KnowledgeInv
<1> QED BY <1>2, <1>5, <1>6, <1>7, <1>8, <1>9, <1>10, SameKeyUnique, StepKeepsAnswers
        DEF Ran, Continues

(* The token of a new session is in no other hands, and its hash is free.     *)
LEMMA CreatingKeepsAnswers ==
    ASSUME IInv, AnswersInv, NEW r \in Requests, Creating(r)
    PROVE  AnswersInv'
<1> DEFINE t == req'[r].token
<1>1. /\ StatementInv(r) /\ ReplyInv(r) /\ KnowledgeInv(r) /\ OwnersExist
      /\ StoredTokensIssued
  BY DEF IInv, AnswersInv
<1>2. /\ Sends(r) /\ req[r].stmt = "upsert_user" /\ req[r].reply = "row"
      /\ req[r].endpoint = "POST /session"
      /\ req'[r].stmt = "create_session" /\ t \in Tokens /\ t \notin issued
      /\ issued' = issued \union {t} /\ users' = users /\ sessions' = sessions
      /\ Others(r)
  BY DEF Creating, Sends, Continues
<1>3. sessions[HashToken(t)] = Null
  BY <1>1, <1>2 DEF StoredTokensIssued
<1>4. ReplyInv(r)'
  BY <1>1, <1>2 DEF ReplyInv, Sends, Continues, Pending, Answered, AnsweredOK, ErrorCodes
<1>5. KnowledgeInv(r)'
  <2>1. Hash(r)' = HashToken(t)
    BY DEF Hash
  <2>2. /\ req'[r].record = req[r].record /\ req'[r].created = req[r].created
        /\ req'[r].login = req[r].login
    BY <1>2 DEF Sends, Continues, CommitsNone
  <2> QED BY <1>1, <1>2, <1>3, <2>1, <2>2 DEF KnowledgeInv
<1>6. \A q \in Requests \ {r} : UniqueInv(q, r)'
  <2> SUFFICES ASSUME NEW q \in Requests \ {r} PROVE UniqueInv(q, r)'
    OBVIOUS
  <2>1. UniqueInv(q, r) /\ KnowledgeInv(q) /\ req'[q] = req[q]
    BY <1>2 DEF AnswersInv, Others
  <2>2. req[q].stmt = "create_session" => req[q].token # t
    BY <1>2, <2>1 DEF KnowledgeInv
  <2>3. req'[r].login = req[r].login /\ req'[r].created = req[r].created
    BY <1>2 DEF Sends, Continues, CommitsNone
  <2> QED BY <2>1, <2>2, <2>3 DEF UniqueInv, SameToken
<1> QED BY <1>2, <1>4, <1>5, <1>6, TablesKeptAgree, StepKeepsAnswers

(* What follows _ensure_active, or the update of a refresh.                   *)
LEMMA FollowingKeepsAnswers ==
    ASSUME IInv, AnswersInv, NEW r \in Requests, Following(r) \/ Refreshed(r)
    PROVE  AnswersInv'
<1>1. /\ StatementInv(r) /\ ReplyInv(r) /\ KnowledgeInv(r)
  BY DEF IInv, AnswersInv
<1>2. /\ Sends(r) /\ issued' = issued /\ users' = users /\ sessions' = sessions
      /\ req'[r].token = req[r].token /\ Others(r)
      /\ req'[r].stmt \in {"get_by_id", "update_expiry", "revoke"}
      /\ req'[r].stmt = "update_expiry" => req[r].endpoint = "POST /session/refresh"
  BY DEF Following, Refreshed, Sends, Continues
<1>3. ReplyInv(r)'
  BY <1>1, <1>2 DEF ReplyInv, Sends, Continues, Pending, Answered, AnsweredOK, ErrorCodes
<1>4. KnowledgeInv(r)'
  BY <1>1, <1>2 DEF KnowledgeInv, Sends, Continues, CommitsNone
<1>5. SameKey(r)
  BY <1>2 DEF SameKey, Sends, Continues, CommitsNone
<1> QED BY <1>2, <1>3, <1>4, <1>5, TablesKeptAgree, SameKeyUnique, StepKeepsAnswers

(* An answer follows from the statement before it: 500 from a broken          *)
(* connection or a refused login only, since the other ways to it are closed. *)
LEMMA AnswersKeepsAnswers ==
    ASSUME IInv, AnswersInv, NEW r \in Requests, Answers(r)
    PROVE  AnswersInv'
<1>1. StatementInv(r) /\ ReplyInv(r) /\ KnowledgeInv(r)
  BY DEF IInv, AnswersInv
<1>2. /\ users' = users /\ sessions' = sessions /\ issued' = issued /\ Others(r)
      /\ req'[r].stmt = req[r].stmt /\ req'[r].reply = req[r].reply
      /\ req'[r].token = req[r].token /\ req'[r].record = req[r].record
      /\ req'[r].created = req[r].created /\ req'[r].login = req[r].login
      /\ req'[r].endpoint = req[r].endpoint /\ req[r].answer = "pending"
  BY DEF Answers, Continues, Pending, CommitsNone, TablesKept
<1>3. req[r].stmt = "get_by_token_hash" => req[r].endpoint \in BearerEndpoints
  BY <1>1 DEF StatementInv, BearerStatements
<1>4. req[r].stmt \in {"upsert_user", "create_session"} => req[r].endpoint \in LoginEndpoints
  BY <1>1 DEF StatementInv
<1>5. req[r].stmt = "revoke" => req[r].endpoint = "DELETE /session"
  BY <1>1 DEF StatementInv
<1>6. ReplyInv(r)'
  <2>1. /\ req'[r].answer \in {"OK", "INTERNAL_ERROR", "SESSION_MISSING", "SESSION_EXPIRED"}
        /\ req'[r].reply # "awaited"
        /\ req'[r].answer = "INTERNAL_ERROR" => req[r].reply \in {"broken", "rejected"}
    <3>1. req[r].stmt = "get_by_id" => req[r].reply # "no row"
      BY <1>1 DEF ReplyInv
    <3> QED BY <1>2, <3>1 DEF Answers
  <2>2. AnsweredOK(r, "POST /token")' => req[r].stmt = "upsert_user" /\ req[r].reply = "row"
    <3>1. /\ req[r].stmt = "create_session" => req[r].endpoint = "POST /session"
          /\ req[r].stmt = "get_by_id" => req[r].endpoint # "POST /token"
      BY <1>1 DEF ReplyInv, StatementInv, BearerStatements, BearerEndpoints
    <3> QED BY <1>2, <1>5, <3>1 DEF Answers, AnsweredOK
  <2>3. AnsweredOK(r, "POST /session/refresh")' => req[r].stmt = "get_by_id"
    BY <1>1, <1>2, <1>4, <1>5 DEF Answers, AnsweredOK, LoginEndpoints
  <2>4. req'[r].answer \in {"SESSION_MISSING", "SESSION_EXPIRED"} =>
          req[r].endpoint \in BearerEndpoints
    BY <1>2, <1>3 DEF Answers
  <2>5. req'[r].reply = "rejected" => req'[r].stmt = "upsert_user" /\ ~LoginStorable(r)'
    BY <1>1, <1>2 DEF ReplyInv, LoginStorable
  <2> QED BY <1>1, <1>2, <2>1, <2>2, <2>3, <2>4, <2>5 DEF ReplyInv
<1>7. KnowledgeInv(r)'
  BY <1>1, <1>2 DEF KnowledgeInv, Hash
<1>8. SameKey(r)
  BY <1>2 DEF SameKey
<1> QED BY <1>2, <1>6, <1>7, <1>8, TablesKeptAgree, SameKeyUnique, StepKeepsAnswers

(* A crash answers nobody.                                                    *)
LEMMA CrashedKeepsAnswers ==
    ASSUME IInv, AnswersInv, Crashed
    PROVE  AnswersInv'
<1>1. ASSUME NEW q \in Requests
      PROVE  /\ req'[q].endpoint = req[q].endpoint /\ req'[q].stmt = req[q].stmt
             /\ req'[q].reply = req[q].reply /\ req'[q].token = req[q].token
             /\ req'[q].login = req[q].login /\ req'[q].record = req[q].record
             /\ req'[q].created = req[q].created
             /\ \/ req'[q] = req[q]
                \/ req[q].answer = "pending" /\ req'[q].answer = "connection lost"
  BY DEF Crashed, Pending, Answering, CommitsNone
<1>2. users' = users /\ sessions' = sessions /\ issued' = issued
  BY DEF Crashed, TablesKept
<1>3. ASSUME NEW q \in Requests PROVE ReplyInv(q)' /\ KnowledgeInv(q)'
  <2>1. ReplyInv(q) /\ KnowledgeInv(q)
    BY DEF AnswersInv
  <2>2. ReplyInv(q)'
    BY <1>1, <2>1 DEF ReplyInv, Answered, AnsweredOK, ErrorCodes, LoginStorable
  <2>3. KnowledgeInv(q)'
    BY <1>1, <1>2, <2>1 DEF KnowledgeInv, Hash
  <2> QED BY <2>2, <2>3
<1>4. ASSUME NEW p \in Requests, NEW q \in Requests PROVE UniqueInv(p, q)'
  <2>1. UniqueInv(p, q)
    BY DEF AnswersInv
  <2> QED BY <1>1, <2>1 DEF UniqueInv, SameToken
<1>5. OwnersExist' /\ StoredTokensIssued'
  BY <1>2 DEF AnswersInv, OwnersExist, StoredTokensIssued
<1> QED BY <1>3, <1>4, <1>5 DEF AnswersInv

(* Waiting changes nothing that the answers rest on.                          *)
LEMMA WaitedKeepsAnswers ==
    ASSUME AnswersInv, Waited
    PROVE  AnswersInv'
<1>1. req' = req /\ users' = users /\ sessions' = sessions /\ issued' = issued
  BY DEF Waited, TablesKept
<1>2. ASSUME NEW q \in Requests PROVE ReplyInv(q)' /\ KnowledgeInv(q)'
  BY <1>1 DEF AnswersInv, ReplyInv, KnowledgeInv, Answered, AnsweredOK, Hash, LoginStorable
<1>3. ASSUME NEW p \in Requests, NEW q \in Requests PROVE UniqueInv(p, q)'
  BY <1>1 DEF AnswersInv, UniqueInv, SameToken
<1>4. OwnersExist' /\ StoredTokensIssued'
  BY <1>1 DEF AnswersInv, OwnersExist, StoredTokensIssued
<1> QED BY <1>2, <1>3, <1>4 DEF AnswersInv

(* Every step keeps AnswersInv.                                               *)
LEMMA NextKeepsAnswers ==
    ASSUME IInv, AnswersInv, [Next]_vars
    PROVE  AnswersInv'
<1>1. ASSUME NEW r \in Requests, StepOf(r) PROVE AnswersInv'
  BY <1>1, ArrivedKeepsAnswers, UpsertedKeepsAnswers, RefusedKeepsAnswers, InsertedKeepsAnswers,
     ReplyKeepsAnswers, CreatingKeepsAnswers, FollowingKeepsAnswers, AnswersKeepsAnswers
     DEF StepOf
<1> QED BY <1>1, KindsOfSteps, CrashedKeepsAnswers, WaitedKeepsAnswers

(* The sessions found in the database have their owners and their tokens.     *)
LEMMA InitAnswers == Init => AnswersInv
<1> SUFFICES ASSUME Init PROVE AnswersInv
  OBVIOUS
<1>1. /\ issued = InitialTokens /\ req = [r \in Requests |-> NotArrived]
      /\ users = [u \in TgIds |-> IF u \in InitialUsers
                                    THEN [username |-> Null, last_login_at |-> 0]
                                    ELSE Null]
      /\ sessions \in [Hashes -> {Null} \union
                          [user_id : InitialUsers, expires_at : InitialExpiries,
                           revoked_at : {Null}]]
      /\ \A t \in Tokens : sessions[HashToken(t)] # Null <=> t \in InitialTokens
  BY DEF Init
<1>2. /\ NotArrived.stmt = Null /\ NotArrived.record = Null /\ NotArrived.reply = "none"
      /\ NotArrived.answer = "none" /\ NotArrived.created = FALSE
  BY DEF NotArrived
<1>3. ASSUME NEW u \in InitialUsers PROVE UserExists(users, u)
  <2>1. u \in TgIds
    BY SessionConstants
  <2>2. users[u] = [username |-> Null, last_login_at |-> 0]
    BY <1>1, <2>1
  <2>3. [username |-> Null, last_login_at |-> 0] \in UserRow
    BY DEF UserRow
  <2> QED BY <2>2, <2>3, NullIsNoValue DEF UserExists
<1>4. OwnersExist
  <2>1. ASSUME NEW h \in Hashes, sessions[h] # Null PROVE sessions[h].user_id \in InitialUsers
    BY <1>1, <2>1
  <2> QED BY <1>3, <2>1 DEF OwnersExist
<1>5. StoredTokensIssued
  BY <1>1 DEF StoredTokensIssued
<1>6. ASSUME NEW r \in Requests PROVE ReplyInv(r) /\ KnowledgeInv(r)
  <2>1. req[r] = NotArrived
    BY <1>1
  <2>2. ReplyInv(r)
    BY <1>2, <2>1, NullIsNoString DEF ReplyInv, Answered, AnsweredOK, ErrorCodes
  <2>3. KnowledgeInv(r)
    BY <1>2, <2>1, NullIsNoString DEF KnowledgeInv
  <2> QED BY <2>2, <2>3
<1>7. ASSUME NEW p \in Requests, NEW q \in Requests PROVE UniqueInv(p, q)
  <2>1. req[p] = NotArrived /\ req[q] = NotArrived
    BY <1>1
  <2> QED BY <1>2, <2>1, NullIsNoString DEF UniqueInv
<1> QED BY <1>4, <1>5, <1>6, <1>7 DEF AnswersInv

----------------------------------------------------------------------------
(* Every reachable state satisfies AnswersInv: requests, users and sessions   *)
(* agree on who exists, who created whom and which tokens are out.            *)
THEOREM AnswersInvariance == Spec => []AnswersInv
<1>1. IInv /\ AnswersInv /\ [Next]_vars => AnswersInv'
  BY NextKeepsAnswers
<1> QED BY <1>1, InitAnswers, Invariance, PTL DEF Spec

(* 500 INTERNAL_ERROR only tells of a broken connection or of a login whose   *)
(* token says what no column of users can hold: no interleaving of logins,    *)
(* logouts and refreshes violates a constraint of the tables or makes         *)
(* _get_user miss the user of a session.                                      *)
THEOREM ErrorsHaveCauses == Spec => []InternalErrorHasCause
<1>1. AnswersInv => InternalErrorHasCause
  BY DEF AnswersInv, ReplyInv, InternalErrorHasCause
<1> QED BY <1>1, AnswersInvariance, PTL

(* At most one of the logins of a user is told that it created the user, of   *)
(* however many run at once: ON CONFLICT of upsert_user and its (xmax = 0).   *)
THEOREM CreatedAtMostOnce == Spec => []CreatedOnce
<1>1. AnswersInv => CreatedOnce
  BY DEF AnswersInv, UniqueInv, CreatedOnce
<1> QED BY <1>1, AnswersInvariance, PTL

(* A username that a login was answered 200 for stays, whichever logins       *)
(* without one follow: the COALESCE of upsert_user, on either login endpoint. *)
THEOREM NamesStay == Spec => []ProfileKept
<1>1. IInv /\ AnswersInv => ProfileKept
  <2> SUFFICES ASSUME IInv, AnswersInv, NEW r \in Requests, req[r].answer = "OK",
                      req[r].endpoint \in LoginEndpoints, req[r].login.username # Null
               PROVE  users[req[r].login.telegram_id].username # Null
    BY DEF ProfileKept
  <2>1. KnowledgeInv(r) /\ ReplyInv(r) /\ AnswerInv(r)
    BY DEF IInv, AnswersInv
  <2>2. CASE req[r].endpoint = "POST /token"
    BY <2>1, <2>2 DEF KnowledgeInv, ReplyInv, AnsweredOK
  <2>3. CASE req[r].endpoint = "POST /session"
    BY <2>1, <2>3 DEF KnowledgeInv, AnswerInv, AnsweredOK
  <2> QED BY <2>2, <2>3 DEF LoginEndpoints
<1> QED BY <1>1, Invariance, AnswersInvariance, PTL

(* Each endpoint answers with the codes of its docstring only: what the       *)
(* statements it reaches can raise, and not what those of others can.  The    *)
(* one exception is a broken connection, of which the docstrings of the       *)
(* bearer endpoints say nothing.                                              *)
THEOREM CodesAsDocumented == Spec => []DocumentedAnswers
<1>1. IInv /\ AnswersInv => DocumentedAnswers
  <2> SUFFICES ASSUME IInv, AnswersInv, NEW r \in Requests, Answered(r)
               PROVE  \/ /\ req[r].endpoint \in LoginEndpoints
                         /\ req[r].answer \in {"OK", "VALIDATION_ERROR",
                                              "OAUTH_CODE_INVALID", "INTERNAL_ERROR"}
                      \/ /\ req[r].endpoint \in BearerEndpoints
                         /\ \/ req[r].answer \in {"OK", "VALIDATION_ERROR",
                                                 "SESSION_MISSING", "SESSION_EXPIRED"}
                            \/ req[r].answer = "INTERNAL_ERROR" /\ req[r].reply = "broken"
    BY DEF DocumentedAnswers
  <2>1. ReplyInv(r) /\ StatementInv(r)
    BY DEF IInv, AnswersInv
  <2>2. req[r].answer \in {"OK", "VALIDATION_ERROR", "OAUTH_CODE_INVALID",
                           "SESSION_MISSING", "SESSION_EXPIRED", "INTERNAL_ERROR"}
    BY DEF Answered, ErrorCodes
  <2>3. req[r].endpoint \in LoginEndpoints \union BearerEndpoints
    <3>1. req[r] \in RequestRecord
      BY DEF IInv, TypeOK
    <3>2. req[r].endpoint \in Endpoints \union {Null}
      BY <3>1 DEF RequestRecord
    <3>3. req[r].endpoint # Null
      BY <2>1 DEF ReplyInv, Answered, ErrorCodes
    <3> QED BY <3>2, <3>3, SessionConstants
  <2>4. CASE req[r].endpoint \in LoginEndpoints
    BY <2>1, <2>2, <2>4 DEF ReplyInv, LoginEndpoints, BearerEndpoints
  <2>5. CASE req[r].endpoint \in BearerEndpoints
    <3>1. req[r].endpoint \notin LoginEndpoints
      BY <2>5 DEF LoginEndpoints, BearerEndpoints
    <3>2. req[r].reply # "rejected"
      BY <2>1, <3>1 DEF ReplyInv, StatementInv
    <3> QED BY <2>1, <2>2, <2>5, <3>1, <3>2 DEF ReplyInv
  <2> QED BY <2>3, <2>4, <2>5
<1> QED BY <1>1, Invariance, AnswersInvariance, PTL
=============================================================================
