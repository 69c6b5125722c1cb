---------------------------- MODULE SessionsProofs ----------------------------
(* Proofs that Sessions keeps its invariants for any requests, tokens, users  *)
(* and times, and that it implements SessionStore.                            *)
EXTENDS SessionsProps, TLAPS

USE NullIsNoValue, TokenConstants, SessionConstants

----------------------------------------------------------------------------
(* The tables.                                                                *)

(* sha256 is injective here, and tokens that may be issued have their hashes  *)
(* in the table's domain.                                                     *)
LEMMA HashTokenInjective ==
    ASSUME NEW s, NEW t
    PROVE  /\ HashToken(s) = HashToken(t) => s = t
           /\ HashToken(s) \in Hashes <=> s \in Tokens
BY DEF HashToken, Hashes

\* what no statement undoes between one table and the next
Grows(old, new) ==
    \A h \in Hashes :
        old[h] # Null =>
            /\ new[h] # Null
            /\ new[h].user_id = old[h].user_id
            /\ old[h].revoked_at # Null => new[h].revoked_at # Null

\* expiry times that are new are no later than limit
ExpiresBy(old, new, limit) ==
    \A h \in Hashes : new[h] # Null =>
        \/ old[h] # Null /\ new[h].expires_at = old[h].expires_at
        \/ new[h].expires_at <= limit

(* A bound on expiry times may be relaxed.                                    *)
LEMMA ExpiresByLater ==
    ASSUME NEW old \in SessionTable, NEW new \in SessionTable,
           NEW d \in Int, NEW limit \in Int, d <= limit, ExpiresBy(old, new, d)
    PROVE  ExpiresBy(old, new, limit)
BY DEF ExpiresBy, SessionTable, SessionRow

(* update_expiry keeps the table, its owners and its revocations.             *)
LEMMA UpdateExpiryKeeps ==
    ASSUME NEW s \in SessionTable, NEW hash, NEW e \in Int
    PROVE  /\ UpdateExpiry(s, hash, e) \in SessionTable
           /\ Grows(s, UpdateExpiry(s, hash, e))
           /\ ExpiresBy(s, UpdateExpiry(s, hash, e), e)
<1>1. CASE hash \notin Hashes \/ s[hash] = Null
  <2>1. UpdateExpiry(s, hash, e) = s
    BY <1>1 DEF UpdateExpiry, GetByTokenHash, SessionTable
  <2> QED BY <2>1 DEF Grows, ExpiresBy, SessionTable
<1>2. CASE hash \in Hashes /\ s[hash] # Null
  <2>1. UpdateExpiry(s, hash, e) = [s EXCEPT ![hash].expires_at = e]
    BY <1>2 DEF UpdateExpiry, GetByTokenHash, SessionTable
  <2>2. s[hash] \in SessionRow
    BY <1>2 DEF SessionTable
  <2> QED BY <1>2, <2>1, <2>2 DEF Grows, ExpiresBy, SessionTable, SessionRow
<1> QED BY <1>1, <1>2

(* revoke keeps the table and its owners, and leaves the row revoked.         *)
LEMMA RevokeSessionKeeps ==
    ASSUME NEW s \in SessionTable, NEW hash, NEW now \in Int
    PROVE  /\ RevokeSession(s, hash, now) \in SessionTable
           /\ Grows(s, RevokeSession(s, hash, now))
           /\ \A h \in Hashes : RevokeSession(s, hash, now)[h] # Null =>
                 /\ s[h] # Null
                 /\ RevokeSession(s, hash, now)[h].expires_at = s[h].expires_at
           /\ hash \in Hashes /\ s[hash] # Null =>
                 RevokeSession(s, hash, now)[hash].revoked_at # Null
<1>1. CASE hash \notin Hashes \/ s[hash] = Null
  <2>1. RevokeSession(s, hash, now) = s
    BY <1>1 DEF RevokeSession, GetByTokenHash, SessionTable
  <2> QED BY <1>1, <2>1 DEF Grows, SessionTable
<1>2. CASE hash \in Hashes /\ s[hash] # Null
  <2>1. RevokeSession(s, hash, now) = [s EXCEPT ![hash].revoked_at = now]
    BY <1>2 DEF RevokeSession, GetByTokenHash, SessionTable
  <2>2. s[hash] \in SessionRow
    BY <1>2 DEF SessionTable
  <2> QED BY <1>2, <2>1, <2>2 DEF Grows, SessionTable, SessionRow
<1> QED BY <1>1, <1>2

(* create_session on a free hash adds one row that is not revoked.            *)
LEMMA InsertSessionKeeps ==
    ASSUME NEW s \in SessionTable, NEW hash \in Hashes, s[hash] = Null,
           NEW user \in TgIds, NEW e \in Int
    PROVE  /\ InsertSession(s, hash, user, e) \in SessionTable
           /\ Grows(s, InsertSession(s, hash, user, e))
           /\ ExpiresBy(s, InsertSession(s, hash, user, e), e)
           /\ InsertSession(s, hash, user, e)[hash] # Null
BY DEF InsertSession, Grows, ExpiresBy, SessionTable, SessionRow

(* Null is none of the strings it is compared with.                           *)
LEMMA NullIsNoString ==
    /\ Null \notin {"POST /token", "POST /session", "GET /session",
                    "POST /session/refresh", "DELETE /session"}
    /\ Null \notin {"upsert_user", "create_session", "get_by_token_hash",
                    "get_by_id", "update_expiry", "revoke"}
BY DEF LoginEndpoints, BearerEndpoints, Statements

----------------------------------------------------------------------------
(* What a step leaves alone of the other requests.                            *)

(* A request that a step does not touch keeps its part of the invariant when  *)
(* the sessions table grows and the clock does not run back.                  *)
LEMMA UntouchedRequest ==
    ASSUME IInv, NEW q \in Requests, req'[q] = req[q],
           Grows(sessions, sessions'), clock' \in Int, clock <= clock'
    PROVE  StatementInv(q)' /\ AnswerInv(q)' /\ TableInv(q)'
<1>1. /\ req[q] \in RequestRecord /\ clock \in Int
      /\ StatementInv(q) /\ AnswerInv(q) /\ TableInv(q)
  BY DEF IInv, TypeOK
<1>2. req[q].at \in Int /\ (req[q].record # Null => req[q].record.expires_at \in Int)
  BY <1>1 DEF RequestRecord, SessionRow
<1>3. StatementInv(q)'
  <2>1. req[q].at <= clock + SessionTtl => req[q].at <= clock' + SessionTtl
    BY <1>1, <1>2
  <2>2. req[q].record # Null /\ EnsureActive(req[q].record, clock')
          => EnsureActive(req[q].record, clock)
    BY <1>1, <1>2 DEF EnsureActive
  <2> QED BY <1>1, <2>1, <2>2 DEF StatementInv
<1>4. AnswerInv(q)'
  BY <1>1 DEF AnswerInv, AnsweredOK
<1>5. TableInv(q)'
  <2>1. Hash(q)' = Hash(q)
    BY DEF Hash
  <2>2. req[q].stmt = "create_session" => Hash(q) \in Hashes
    BY <1>1, HashTokenInjective DEF StatementInv, Hash
  <2>3. req[q].record # Null => Hash(q) \in Hashes
    BY <1>1, HashTokenInjective DEF TableInv, Hash
  <2>4. req[q].stmt = "revoke" => Hash(q) \in Hashes /\ sessions[Hash(q)] # Null
    BY <1>1, <2>3 DEF StatementInv, TableInv, AfterCheck
  <2> QED BY <1>1, <2>1, <2>2, <2>3, <2>4 DEF TableInv, Grows
<1> QED BY <1>3, <1>4, <1>5

(* An answered request keeps what later ones rely on.                         *)
LEMMA UntouchedHistory ==
    ASSUME IInv, NEW p \in Requests, NEW q \in Requests, req'[q] = req[q],
           Answered(p) => /\ req'[p].answer = req[p].answer
                          /\ req'[p].endpoint = req[p].endpoint
                          /\ req'[p].token = req[p].token
    PROVE  HistoryInv(p, q)'
<1>1. HistoryInv(p, q)
  BY DEF IInv
<1> QED BY <1>1 DEF HistoryInv, Answered, AnsweredOK, SameToken

(* The step of one request keeps the invariant when it does for that request. *)
LEMMA StepOfOneRequest ==
    ASSUME IInv, TypeOK', NEW r \in Requests,
           \A q \in Requests \ {r} : req'[q] = req[q],
           Grows(sessions, sessions'), clock' = clock,
           ExpiresBy(sessions, sessions', clock + SessionTtl),
           StatementInv(r)', AnswerInv(r)', TableInv(r)',
           \A q \in Requests : HistoryInv(q, r)',
           Answered(r) => /\ req'[r].answer = req[r].answer
                          /\ req'[r].endpoint = req[r].endpoint
                          /\ req'[r].token = req[r].token
    PROVE  IInv'
<1>1. clock \in Int
  BY DEF IInv, TypeOK
<1>2. ASSUME NEW q \in Requests
      PROVE  StatementInv(q)' /\ AnswerInv(q)' /\ TableInv(q)'
  BY <1>1, UntouchedRequest
<1>3. ASSUME NEW p \in Requests, NEW q \in Requests
      PROVE  HistoryInv(p, q)'
  BY UntouchedHistory
<1>4. LifetimeBounded'
  <2>1. \A t \in Tokens : HashToken(t) \in Hashes
    BY DEF Hashes
  <2> QED BY <2>1 DEF IInv, LifetimeBounded, ExpiresBy
<1> QED BY <1>2, <1>3, <1>4 DEF IInv

(* A resuming request keeps its own history.                                  *)
LEMMA ResumingHistory ==
    ASSUME IInv, NEW r \in Requests, Pending(r),
           \A q \in Requests \ {r} : req'[q] = req[q],
           req'[r].before = req[r].before,
           req'[r].endpoint = req[r].endpoint,
           req[r].endpoint \in BearerEndpoints =>
               req'[r].token = req[r].token /\ req'[r].record = req[r].record,
           \/ req'[r].stmt = req[r].stmt /\ req'[r].reply = req[r].reply
           \/ req'[r].reply = "awaited"
    PROVE  \A q \in Requests : HistoryInv(q, r)'
<1> SUFFICES ASSUME NEW q \in Requests, q \in req[r].before PROVE HistoryInv(q, r)'
  BY DEF HistoryInv
<1>1. HistoryInv(q, r)
  BY DEF IInv
<1>2. q # r
  BY <1>1 DEF HistoryInv, Answered, Pending, ErrorCodes
<1>3. req'[q] = req[q]
  BY <1>2
<1> QED BY <1>1, <1>3 DEF HistoryInv, Answered, AnsweredOK, SameToken

(* No statement ran: the tables are what they were.                           *)
LEMMA TablesUntouched ==
    ASSUME IInv, sessions' = sessions
    PROVE  /\ Grows(sessions, sessions')
           /\ ExpiresBy(sessions, sessions', clock + SessionTtl)
BY DEF Grows, ExpiresBy

----------------------------------------------------------------------------
(* Arrivals.                                                                  *)

(* The record of a request that has just arrived.                             *)
LEMMA ArrivalRecord ==
    ASSUME IInv, NEW e \in Endpoints
    PROVE  /\ Arrival(e) \in RequestRecord
           /\ Arrival(e).endpoint = e /\ Arrival(e).answer = "pending"
           /\ \A q \in Arrival(e).before : Answered(q)
           /\ Arrival(e).record = Null /\ Arrival(e).reply = "none"
           /\ Arrival(e).stmt = Null /\ Arrival(e).token = Null
<1> DEFINE before == {q \in Requests : Answered(q)}
<1>1. before \in SUBSET Requests
  OBVIOUS
<1>2. /\ NotArrived \in RequestRecord
      /\ NotArrived.record = Null /\ NotArrived.reply = "none"
      /\ NotArrived.stmt = Null /\ NotArrived.token = Null
  BY DEF NotArrived, RequestRecord
<1>3. Arrival(e) = [NotArrived EXCEPT !.endpoint = e, !.answer = "pending",
                                      !.before = before]
  BY DEF Arrival
<1> HIDE DEF before
<1>4. /\ Arrival(e) \in RequestRecord
      /\ Arrival(e).endpoint = e /\ Arrival(e).answer = "pending"
      /\ Arrival(e).before = before
      /\ Arrival(e).record = Null /\ Arrival(e).reply = "none"
      /\ Arrival(e).stmt = Null /\ Arrival(e).token = Null
  BY <1>1, <1>2, <1>3, ZenonT(30) DEF RequestRecord
<1> QED BY <1>4 DEF before

(* A request that arrives brings a history of answered requests, none of      *)
(* which it can contradict yet.                                               *)
LEMMA ArrivalKeepsIInv ==
    ASSUME IInv, NEW r \in Requests, NEW e \in Endpoints, Arrives(r, e),
           NEW x \in RequestRecord, req' = [req EXCEPT ![r] = x],
           UNCHANGED <<clock, users, sessions, issued>>,
           x.endpoint = e, \A q \in x.before : Answered(q),
           x.record = Null, x.reply \in {"none", "awaited", "broken"},
           \/ /\ e \in LoginEndpoints /\ x.login # Null
              /\ x.stmt = "upsert_user" /\ x.answer = "pending"
           \/ /\ e \in BearerEndpoints /\ x.token \in Tokens \union {Bogus}
              /\ x.stmt = "get_by_token_hash" /\ x.answer = "pending"
           \/ x.stmt = Null /\ x.token = Null /\ x.answer \in ErrorCodes
    PROVE  IInv'
<1>1. TypeOK'
  BY DEF IInv, TypeOK
<1>2. req'[r] = x /\ \A q \in Requests \ {r} : req'[q] = req[q]
  BY DEF IInv, TypeOK
<1>3. ~Answered(r)
  BY DEF Arrives, Answered, ErrorCodes
<1>4. StatementInv(r)' /\ AnswerInv(r)' /\ TableInv(r)'
  <2>1. StatementInv(r)'
    BY <1>2, NullIsNoString, ZenonT(30) DEF StatementInv, BearerStatements, AfterCheck
  <2>2. AnswerInv(r)'
    BY <1>2, NullIsNoString
       DEF AnswerInv, AnsweredOK, ErrorCodes, LoginEndpoints, BearerEndpoints
  <2>3. TableInv(r)'
    BY <1>2, NullIsNoString DEF TableInv
  <2> QED BY <2>1, <2>2, <2>3
<1>5. ASSUME NEW q \in Requests PROVE HistoryInv(q, r)'
  BY <1>2, <1>3 DEF HistoryInv, Answered
<1> QED BY <1>1, <1>2, <1>3, <1>4, <1>5, TablesUntouched, StepOfOneRequest

\* the record of a request answered on arrival
Rejected(e, code) == [Arrival(e) EXCEPT !.answer = code]

(* The record of a request refused on arrival holds nothing but the answer.   *)
LEMMA RejectedRecord ==
    ASSUME IInv, NEW e \in Endpoints, NEW code \in ErrorCodes
    PROVE  /\ Rejected(e, code) \in RequestRecord
           /\ Rejected(e, code).endpoint = e /\ Rejected(e, code).record = Null
           /\ Rejected(e, code).reply = "none" /\ Rejected(e, code).stmt = Null
           /\ Rejected(e, code).token = Null /\ Rejected(e, code).answer = code
           /\ \A q \in Rejected(e, code).before : Answered(q)
<1> DEFINE a == Arrival(e)
<1>1. /\ a \in RequestRecord /\ a.endpoint = e /\ a.record = Null
      /\ a.reply = "none" /\ a.stmt = Null /\ a.token = Null
      /\ \A q \in a.before : Answered(q)
  BY ArrivalRecord
<1>2. Rejected(e, code) = [a EXCEPT !.answer = code]
  BY DEF Rejected
<1> HIDE DEF a
<1> QED BY <1>1, <1>2 DEF RequestRecord, ErrorCodes

(* Refusing a body, a header or an oauth.name token keeps the invariant.      *)
LEMMA RejectionKeepsIInv ==
    ASSUME IInv, NEW r \in Requests, NEW e \in Endpoints, Arrives(r, e),
           NEW code \in ErrorCodes, req' = [req EXCEPT ![r] = Rejected(e, code)],
           UNCHANGED <<clock, users, sessions, issued>>
    PROVE  IInv'
<1> DEFINE x == Rejected(e, code)
<1>1. /\ x \in RequestRecord /\ x.endpoint = e /\ x.record = Null
      /\ x.reply = "none" /\ x.stmt = Null /\ x.token = Null
      /\ x.answer \in ErrorCodes /\ \A q \in x.before : Answered(q)
  BY RejectedRecord
<1>2. req' = [req EXCEPT ![r] = x]
  OBVIOUS
<1> HIDE DEF x
<1> QED BY <1>1, <1>2, ArrivalKeepsIInv

(* get_connection failing before the handler keeps the invariant.             *)
LEMMA NoConnectionKeepsIInv ==
    ASSUME IInv, NEW r \in Requests, NEW e \in Endpoints, NoConnection(r, e)
    PROVE  IInv'
<1> DEFINE a == Arrival(e)
           x == [a EXCEPT !.answer = "INTERNAL_ERROR", !.reply = "broken"]
<1>1. /\ a \in RequestRecord /\ a.endpoint = e /\ a.record = Null
      /\ a.stmt = Null /\ a.token = Null /\ \A q \in a.before : Answered(q)
  BY ArrivalRecord
<1>2. /\ req' = [req EXCEPT ![r] = x] /\ Arrives(r, e)
      /\ UNCHANGED <<clock, users, sessions, issued>>
  BY DEF NoConnection
<1> HIDE DEF a
<1>3. /\ x \in RequestRecord /\ x.endpoint = e /\ x.record = Null
      /\ x.reply = "broken" /\ x.stmt = Null /\ x.token = Null
      /\ x.answer \in ErrorCodes /\ x.before = a.before
  BY <1>1 DEF RequestRecord, ErrorCodes
<1> HIDE DEF x
<1> QED BY <1>1, <1>2, <1>3, ArrivalKeepsIInv

(* Sending upsert_user for a verified token keeps the invariant.              *)
LEMMA StartLoginKeepsIInv ==
    ASSUME IInv, NEW r \in Requests, NEW e \in Endpoints, NEW t \in OauthTokens,
           StartLogin(r, e, t)
    PROVE  IInv'
<1>1. CASE VerifyToken(t, clock) = Null
  BY <1>1, RejectionKeepsIInv DEF StartLogin, ErrorCodes, Rejected
<1>2. CASE VerifyToken(t, clock) # Null
  <2> DEFINE a == Arrival(e)
             v == VerifyToken(t, clock)
             x == [a EXCEPT !.stmt = "upsert_user", !.reply = "awaited",
                            !.login = v, !.at = clock, !.loginAt = clock]
  <2>1. /\ a \in RequestRecord /\ a.endpoint = e /\ a.record = Null
        /\ a.answer = "pending" /\ \A q \in a.before : Answered(q)
    BY ArrivalRecord
  <2>2. v \in [telegram_id : TgIds, username : Usernames \union {Null}] /\ v # Null
    BY <1>2, OauthTokensNameUsers DEF VerifyToken
  <2>3. /\ req' = [req EXCEPT ![r] = x] /\ Arrives(r, e) /\ e \in LoginEndpoints
        /\ UNCHANGED <<clock, users, sessions, issued>>
    BY <1>2 DEF StartLogin
  <2>4. clock \in Int
    BY DEF IInv, TypeOK
  <2> HIDE DEF a, v
  <2>5. /\ x \in RequestRecord /\ x.endpoint = e /\ x.record = Null
        /\ x.reply = "awaited" /\ x.stmt = "upsert_user" /\ x.answer = "pending"
        /\ x.login = v /\ x.before = a.before
    BY <2>1, <2>2, <2>4, ZenonT(30) DEF RequestRecord, Statements
  <2> HIDE DEF x
  <2> QED BY <2>1, <2>2, <2>3, <2>5, ArrivalKeepsIInv
<1> QED BY <1>1, <1>2

(* Looking a bearer token up keeps the invariant: KnownTokens are tokens      *)
(* that create_session stored.                                                *)
LEMMA StartBearerKeepsIInv ==
    ASSUME IInv, NEW r \in Requests, NEW e \in Endpoints,
           NEW t \in KnownTokens \union {Bogus}, StartBearer(r, e, t)
    PROVE  IInv'
<1>0. ASSUME NEW c \in Requests, req[c].endpoint = "POST /session", req[c].answer = "OK"
      PROVE  req[c].token \in Tokens
  <2>1. AnswerInv(c) /\ StatementInv(c)
    BY DEF IInv
  <2> QED BY <1>0, <2>1 DEF AnswerInv, StatementInv, AnsweredOK
<1>1. t \in Tokens \union {Bogus}
  BY <1>0 DEF KnownTokens
<1> DEFINE a == Arrival(e)
           x == [a EXCEPT !.token = t, !.stmt = "get_by_token_hash", !.reply = "awaited"]
<1>2. /\ a \in RequestRecord /\ a.endpoint = e /\ a.record = Null
      /\ a.answer = "pending" /\ \A q \in a.before : Answered(q)
  BY ArrivalRecord
<1>3. /\ req' = [req EXCEPT ![r] = x] /\ Arrives(r, e) /\ e \in BearerEndpoints
      /\ UNCHANGED <<clock, users, sessions, issued>>
  BY DEF StartBearer
<1> HIDE DEF a
<1>4. /\ x \in RequestRecord /\ x.endpoint = e /\ x.record = Null
      /\ x.reply = "awaited" /\ x.stmt = "get_by_token_hash" /\ x.answer = "pending"
      /\ x.token = t /\ x.before = a.before
  BY <1>1, <1>2 DEF RequestRecord, Statements
<1> HIDE DEF x
<1> QED BY <1>1, <1>2, <1>3, <1>4, ArrivalKeepsIInv

(* Every arrival keeps the invariant.                                         *)
LEMMA ArriveKeepsIInv ==
    ASSUME IInv, NEW r \in Requests, Arrive(r)
    PROVE  IInv'
<1>1. PICK e \in Endpoints :
        \/ RejectBody(r, e) \/ NoConnection(r, e)
        \/ \E t \in OauthTokens : StartLogin(r, e, t)
        \/ \E h \in {"absent", "malformed"} : RejectHeader(r, e, h)
        \/ \E t \in KnownTokens \union {Bogus} : StartBearer(r, e, t)
  BY DEF Arrive
<1>2. CASE RejectBody(r, e)
  BY <1>2, RejectionKeepsIInv DEF RejectBody, ErrorCodes, Rejected
<1>3. ASSUME NEW h \in {"absent", "malformed"}, RejectHeader(r, e, h)
      PROVE  IInv'
  <2>1. HeaderError(h) \in ErrorCodes
    BY DEF HeaderError, ErrorCodes
  <2> QED BY <1>3, <2>1, RejectionKeepsIInv DEF RejectHeader, Rejected
<1> QED BY <1>1, <1>2, <1>3, NoConnectionKeepsIInv, StartLoginKeepsIInv,
           StartBearerKeepsIInv

----------------------------------------------------------------------------
(* Statements.                                                                *)

\* y is x with another reply, and nothing else that the invariant is about
ReplyOnly(x, y, reply) ==
    /\ y.endpoint = x.endpoint /\ y.stmt = x.stmt /\ y.token = x.token
    /\ y.login = x.login /\ y.record = x.record /\ y.at = x.at
    /\ y.answer = x.answer /\ y.before = x.before /\ y.active = x.active
    /\ y.loginAt = x.loginAt
    /\ y.reply = reply

\* only request r changes, and only in the reply to its statement
Replied(r, reply) ==
    /\ \A q \in Requests \ {r} : req'[q] = req[q]
    /\ ReplyOnly(req[r], req'[r], reply)

(* Every assignment of a reply has that form.                                 *)
LEMMA AssignedReply ==
    ASSUME TypeOK, NEW r \in Requests,
           NEW reply \in {"row", "no row", "rejected", "broken"},
           \/ req' = [req EXCEPT ![r].reply = reply]
           \/ \E c \in BOOLEAN, k \in SUBSET Requests :
                req' = [req EXCEPT ![r] = [req[r] EXCEPT !.reply = reply, !.created = c,
                                                         !.committed = k]]
    PROVE  Replied(r, reply) /\ req' \in [Requests -> RequestRecord]
<1>1. req \in [Requests -> RequestRecord] /\ req[r] \in RequestRecord
  BY DEF TypeOK
<1>2. CASE req' = [req EXCEPT ![r].reply = reply]
  <2> DEFINE x == [req[r] EXCEPT !.reply = reply]
  <2>1. req' = [req EXCEPT ![r] = x]
    BY <1>2
  <2>2. ReplyOnly(req[r], x, reply) /\ x \in RequestRecord
    BY <1>1, ZenonT(30) DEF RequestRecord, ReplyOnly
  <2> HIDE DEF x
  <2> QED BY <1>1, <2>1, <2>2 DEF Replied
<1>3. ASSUME NEW c \in BOOLEAN, NEW k \in SUBSET Requests,
             req' = [req EXCEPT ![r] = [req[r] EXCEPT !.reply = reply, !.created = c,
                                                      !.committed = k]]
      PROVE  Replied(r, reply) /\ req' \in [Requests -> RequestRecord]
  <2> DEFINE x == [req[r] EXCEPT !.reply = reply, !.created = c, !.committed = k]
  <2>1. req' = [req EXCEPT ![r] = x]
    BY <1>1, <1>3
  <2>2. ReplyOnly(req[r], x, reply) /\ x \in RequestRecord
    <3>1. CASE c = TRUE
      <4>1. x = [req[r] EXCEPT !.reply = reply, !.created = TRUE, !.committed = k]
        BY <3>1
      <4> HIDE DEF x
      <4> QED BY <1>1, <4>1 DEF RequestRecord, ReplyOnly
    <3>2. CASE c = FALSE
      <4>1. x = [req[r] EXCEPT !.reply = reply, !.created = FALSE, !.committed = k]
        BY <3>2
      <4> HIDE DEF x
      <4> QED BY <1>1, <4>1 DEF RequestRecord, ReplyOnly
    <3> QED BY <3>1, <3>2
  <2> HIDE DEF x
  <2> QED BY <1>1, <2>1, <2>2 DEF Replied
<1> QED BY <1>2, <1>3

(* A statement other than get_by_token_hash keeps the invariant when its      *)
(* effect on the sessions table does and its reply tells the truth.           *)
LEMMA ReplyKeepsIInv ==
    ASSUME IInv, NEW r \in Requests, NEW reply, Replied(r, reply), TypeOK',
           req[r].reply = "awaited",
           req[r].stmt = "get_by_token_hash" => reply = "broken",
           clock' = clock, Grows(sessions, sessions'),
           ExpiresBy(sessions, sessions', clock + SessionTtl),
           req[r].stmt = "update_expiry" => reply # "no row",
           req[r].stmt = "create_session" /\ reply = "row" => sessions'[Hash(r)] # Null,
           req[r].stmt = "revoke" /\ reply = "row" => sessions'[Hash(r)].revoked_at # Null
    PROVE  IInv'
<1>1. StatementInv(r) /\ AnswerInv(r) /\ TableInv(r) /\ req[r] \in RequestRecord
  BY DEF IInv, TypeOK
<1>2. Hash(r)' = Hash(r)
  BY DEF Hash, Replied, ReplyOnly
<1>3. StatementInv(r)'
  BY <1>1 DEF StatementInv, Replied, ReplyOnly
<1>4. AnswerInv(r)'
  BY <1>1 DEF AnswerInv, AnsweredOK, Replied, ReplyOnly
<1>5. TableInv(r)'
  <2>1. req[r].record # Null => Hash(r) \in Hashes
    BY <1>1, HashTokenInjective DEF TableInv, Hash
  <2> QED BY <1>1, <1>2, <2>1 DEF TableInv, Replied, ReplyOnly, Grows
<1>6. ASSUME NEW q \in Requests PROVE HistoryInv(q, r)'
  <2>1. HistoryInv(q, r)
    BY DEF IInv
  <2>2. req'[q].answer = req[q].answer /\ req'[q].endpoint = req[q].endpoint
        /\ req'[q].token = req[q].token
    BY DEF Replied, ReplyOnly
  <2> QED BY <2>1, <2>2, ZenonT(30) DEF HistoryInv, Answered, AnsweredOK, SameToken, Replied, ReplyOnly
<1> QED BY <1>3, <1>4, <1>5, <1>6, StepOfOneRequest DEF Replied, ReplyOnly

(* upsert_user keeps the invariant: users keep their type, sessions are not   *)
(* touched.                                                                   *)
LEMMA ExecUpsertKeepsIInv ==
    ASSUME IInv, NEW r \in Requests, NEW lost \in BOOLEAN, ExecUpsert(r, lost)
    PROVE  IInv'
<1> DEFINE reply == Reply(lost, "row")
           id == req[r].login.telegram_id
<1>1. TypeOK /\ StatementInv(r) /\ req[r] \in RequestRecord
  BY DEF IInv, TypeOK
<1>2. /\ req[r].stmt = "upsert_user" /\ req[r].reply = "awaited"
      /\ clock' = clock /\ sessions' = sessions /\ issued' = issued
      /\ users' = UpsertUser(users, id, req[r].login.username, req[r].at)
      /\ req' = [req EXCEPT ![r] = [req[r] EXCEPT
                   !.reply = reply, !.created = UpsertCreates(users, id),
                   !.committed = CommittedLogins \union {r}]]
  BY DEF ExecUpsert, Executes
<1>3. reply \in {"row", "broken"}
  BY DEF Reply
<1>4. id \in TgIds /\ req[r].login.username \in Usernames \union {Null} /\ req[r].at \in Int
  BY <1>1, <1>2 DEF StatementInv, RequestRecord
<1>5. UpsertCreates(users, id) \in BOOLEAN /\ CommittedLogins \union {r} \in SUBSET Requests
  BY DEF UpsertCreates, CommittedLogins
<1> HIDE DEF reply, id
<1>6. Replied(r, reply) /\ req' \in [Requests -> RequestRecord]
  BY <1>1, <1>2, <1>3, <1>5, AssignedReply, ZenonT(30)
<1>7. users' \in UserTable
  BY <1>1, <1>2, <1>4 DEF TypeOK, UserTable, UpsertUser, UserRow, Coalesce
<1>8. TypeOK'
  BY <1>1, <1>2, <1>6, <1>7 DEF TypeOK
<1> QED BY <1>2, <1>3, <1>6, <1>8, TablesUntouched, ReplyKeepsIInv

(* A refused upsert_user keeps the invariant: it changes nothing but the      *)
(* reply.                                                                     *)
LEMMA RefuseUpsertKeepsIInv ==
    ASSUME IInv, NEW r \in Requests, NEW lost \in BOOLEAN, RefuseUpsert(r, lost)
    PROVE  IInv'
<1> DEFINE reply == Reply(lost, "rejected")
<1>1. /\ TypeOK /\ req[r].stmt = "upsert_user" /\ req[r].reply = "awaited"
      /\ UNCHANGED <<clock, users, sessions, issued>>
      /\ req' = [req EXCEPT ![r].reply = reply]
  BY DEF IInv, RefuseUpsert, Executes
<1>2. reply \in {"rejected", "broken"}
  BY DEF Reply
<1> HIDE DEF reply
<1>3. Replied(r, reply) /\ req' \in [Requests -> RequestRecord]
  BY <1>1, <1>2, AssignedReply
<1>4. TypeOK'
  BY <1>1, <1>3 DEF TypeOK
<1> QED BY <1>1, <1>2, <1>3, <1>4, TablesUntouched, ReplyKeepsIInv

(* create_session keeps the invariant: it adds a row to a free hash or is     *)
(* rejected.                                                                  *)
LEMMA ExecInsertKeepsIInv ==
    ASSUME IInv, NEW r \in Requests, NEW lost \in BOOLEAN, ExecInsert(r, lost)
    PROVE  IInv'
<1> DEFINE id == req[r].login.telegram_id
           accepted == UserExists(users, id) /\ sessions[Hash(r)] = Null
           reply == Reply(lost, IF accepted THEN "row" ELSE "rejected")
<1>1. TypeOK /\ StatementInv(r) /\ req[r] \in RequestRecord /\ sessions \in SessionTable
  BY DEF IInv, TypeOK
<1>2. /\ req[r].stmt = "create_session" /\ req[r].reply = "awaited"
      /\ clock' = clock /\ users' = users /\ issued' = issued
      /\ sessions' = IF accepted THEN InsertSession(sessions, Hash(r), id, req[r].at)
                                 ELSE sessions
      /\ req' = [req EXCEPT ![r].reply = reply]
  BY DEF ExecInsert, Executes
<1>3. reply \in {"row", "rejected", "broken"} /\ (reply = "row" => accepted)
  BY DEF Reply
<1>4. /\ id \in TgIds /\ req[r].at \in Int /\ req[r].at <= clock + SessionTtl
      /\ Hash(r) \in Hashes
  BY <1>1, <1>2, HashTokenInjective DEF StatementInv, RequestRecord, Hash
<1>5. accepted => sessions[Hash(r)] = Null
  OBVIOUS
<1> HIDE DEF reply, id, accepted
<1>6. Replied(r, reply) /\ req' \in [Requests -> RequestRecord]
  BY <1>1, <1>2, <1>3, AssignedReply, ZenonT(30)
<1>7. /\ sessions' \in SessionTable /\ Grows(sessions, sessions')
      /\ ExpiresBy(sessions, sessions', clock + SessionTtl)
      /\ accepted => sessions'[Hash(r)] # Null
  <2>1. CASE ~accepted
    BY <1>1, <1>2, <2>1, TablesUntouched
  <2>2. CASE accepted
    <3>1. sessions' = InsertSession(sessions, Hash(r), id, req[r].at)
      BY <1>2, <2>2
    <3>2. /\ sessions' \in SessionTable /\ Grows(sessions, sessions')
          /\ ExpiresBy(sessions, sessions', req[r].at)
          /\ sessions'[Hash(r)] # Null
      BY <1>1, <1>4, <1>5, <2>2, <3>1, InsertSessionKeeps
    <3> QED BY <1>4, <3>2, ExpiresByLater, <1>1 DEF TypeOK
  <2> QED BY <2>1, <2>2
<1>8. TypeOK'
  BY <1>1, <1>2, <1>6, <1>7 DEF TypeOK
<1> QED BY <1>2, <1>3, <1>6, <1>7, <1>8, ReplyKeepsIInv

(* update_expiry keeps the invariant: the time it writes is no later than     *)
(* the TTL from now, since the clock has only advanced, and it finds its      *)
(* row.                                                                       *)
LEMMA ExecUpdateKeepsIInv ==
    ASSUME IInv, NEW r \in Requests, NEW lost \in BOOLEAN, ExecUpdate(r, lost)
    PROVE  IInv'
<1> DEFINE found == GetByTokenHash(sessions, Hash(r)) # Null
           reply == Reply(lost, IF GetByTokenHash(sessions, Hash(r)) = Null
                                  THEN "no row" ELSE "row")
<1>1. /\ TypeOK /\ StatementInv(r) /\ TableInv(r)
      /\ req[r] \in RequestRecord /\ sessions \in SessionTable
  BY DEF IInv, TypeOK
<1>2. /\ req[r].stmt = "update_expiry" /\ req[r].reply = "awaited"
      /\ clock' = clock /\ users' = users /\ issued' = issued
      /\ sessions' = UpdateExpiry(sessions, Hash(r), req[r].at)
      /\ req' = [req EXCEPT ![r].reply = reply]
  BY DEF ExecUpdate, Executes
<1>3. found
  <2>1. req[r].record # Null
    BY <1>1, <1>2 DEF StatementInv, AfterCheck
  <2>2. Hash(r) \in Hashes /\ sessions[Hash(r)] # Null
    BY <1>1, <2>1, HashTokenInjective DEF TableInv, Hash
  <2> QED BY <1>1, <2>2 DEF GetByTokenHash, SessionTable
<1>4. reply \in {"row", "broken"}
  BY <1>3 DEF Reply
<1>5. req[r].at \in Int /\ req[r].at <= clock + SessionTtl /\ clock \in Int
  <2>1. clock \in Int
    BY <1>1 DEF TypeOK
  <2>2. req[r].at \in Int
    BY <1>1 DEF RequestRecord
  <2> QED BY <1>1, <1>2, <2>1, <2>2 DEF StatementInv
<1> HIDE DEF reply, found
<1>6. Replied(r, reply) /\ req' \in [Requests -> RequestRecord]
  BY <1>1, <1>2, <1>4, AssignedReply, ZenonT(30)
<1>7. /\ sessions' \in SessionTable /\ Grows(sessions, sessions')
      /\ ExpiresBy(sessions, sessions', req[r].at)
  BY <1>1, <1>2, <1>5, UpdateExpiryKeeps
<1>8. ExpiresBy(sessions, sessions', clock + SessionTtl)
  BY <1>1, <1>5, <1>7, ExpiresByLater
<1>9. TypeOK'
  BY <1>1, <1>2, <1>6, <1>7 DEF TypeOK
<1> QED BY <1>2, <1>4, <1>6, <1>7, <1>8, <1>9, ReplyKeepsIInv

(* revoke keeps the invariant: once it has replied, its row is revoked.       *)
LEMMA ExecRevokeKeepsIInv ==
    ASSUME IInv, NEW r \in Requests, NEW lost \in BOOLEAN, ExecRevoke(r, lost)
    PROVE  IInv'
<1> DEFINE reply == Reply(lost, "row")
<1>1. /\ TypeOK /\ StatementInv(r) /\ TableInv(r)
      /\ req[r] \in RequestRecord /\ sessions \in SessionTable
  BY DEF IInv, TypeOK
<1>2. /\ req[r].stmt = "revoke" /\ req[r].reply = "awaited"
      /\ clock' = clock /\ users' = users /\ issued' = issued
      /\ sessions' = RevokeSession(sessions, Hash(r), req[r].at)
      /\ req' = [req EXCEPT ![r].reply = reply]
  BY DEF ExecRevoke, Executes
<1>3. reply \in {"row", "broken"}
  BY DEF Reply
<1>4. Hash(r) \in Hashes /\ sessions[Hash(r)] # Null
  <2>1. req[r].record # Null
    BY <1>1, <1>2 DEF StatementInv, AfterCheck
  <2> QED BY <1>1, <2>1, HashTokenInjective DEF TableInv, Hash
<1>5. req[r].at \in Int
  BY <1>1 DEF RequestRecord
<1> HIDE DEF reply
<1>6. Replied(r, reply) /\ req' \in [Requests -> RequestRecord]
  BY <1>1, <1>2, <1>3, AssignedReply
<1>7. /\ sessions' \in SessionTable /\ Grows(sessions, sessions')
      /\ sessions'[Hash(r)].revoked_at # Null
  BY <1>1, <1>2, <1>4, <1>5, RevokeSessionKeeps
<1>8. ExpiresBy(sessions, sessions', clock + SessionTtl)
  BY <1>1, <1>2, <1>5, RevokeSessionKeeps DEF ExpiresBy
<1>9. TypeOK'
  BY <1>1, <1>2, <1>6, <1>7 DEF TypeOK
<1> QED BY <1>2, <1>3, <1>6, <1>7, <1>8, <1>9, ReplyKeepsIInv

(* get_by_id keeps the invariant.                                             *)
LEMMA ExecGetUserKeepsIInv ==
    ASSUME IInv, NEW r \in Requests, NEW lost \in BOOLEAN, ExecGetUser(r, lost)
    PROVE  IInv'
<1> DEFINE reply == Reply(lost, IF UserExists(users, req[r].record.user_id)
                                  THEN "row" ELSE "no row")
<1>1. /\ TypeOK /\ req[r].stmt = "get_by_id" /\ req[r].reply = "awaited"
      /\ UNCHANGED <<clock, users, sessions, issued>>
      /\ req' = [req EXCEPT ![r].reply = reply]
  BY DEF IInv, ExecGetUser, Executes
<1>2. reply \in {"row", "no row", "broken"}
  BY DEF Reply
<1> HIDE DEF reply
<1>3. Replied(r, reply) /\ req' \in [Requests -> RequestRecord]
  BY <1>1, <1>2, AssignedReply, ZenonT(30)
<1>4. TypeOK'
  BY <1>1, <1>3 DEF TypeOK
<1> QED BY <1>1, <1>2, <1>3, <1>4, TablesUntouched, ReplyKeepsIInv

(* A connection that breaks before its statement runs keeps the invariant.    *)
LEMMA BreakKeepsIInv ==
    ASSUME IInv, NEW r \in Requests, Break(r)
    PROVE  IInv'
<1>1. /\ TypeOK /\ req[r].reply = "awaited"
      /\ UNCHANGED <<clock, users, sessions, issued>>
      /\ req' = [req EXCEPT ![r].reply = "broken"]
  BY DEF IInv, Break
<1>2. Replied(r, "broken") /\ req' \in [Requests -> RequestRecord]
  BY <1>1, AssignedReply
<1>3. TypeOK'
  BY <1>1, <1>2 DEF TypeOK
<1> QED BY <1>1, <1>2, <1>3, TablesUntouched, ReplyKeepsIInv

\* y is x with the reply that reading row gives
Selected(x, y, row) ==
    /\ y.endpoint = x.endpoint /\ y.stmt = x.stmt /\ y.token = x.token
    /\ y.login = x.login /\ y.at = x.at
    /\ y.answer = x.answer /\ y.before = x.before
    /\ \/ y.reply = "broken" /\ y.record = Null
       \/ y.reply = "no row" /\ y.record = Null /\ row = Null
       \/ /\ y.reply = "row" /\ y.record = row /\ row # Null
          /\ EnsureActive(row, clock) => y.active = TRUE

(* What get_by_token_hash reads agrees with every answer given before.        *)
LEMMA SelectKeepsIInv ==
    ASSUME IInv, NEW r \in Requests, Executes(r, "get_by_token_hash"),
           UNCHANGED <<clock, users, sessions, issued>>,
           NEW x \in RequestRecord, req' = [req EXCEPT ![r] = x],
           Selected(req[r], x, GetByTokenHash(sessions, Hash(r)))
    PROVE  IInv'
<1> DEFINE row == GetByTokenHash(sessions, Hash(r))
<1>1. /\ TypeOK /\ StatementInv(r) /\ AnswerInv(r) /\ TableInv(r)
      /\ sessions \in SessionTable /\ clock \in Int
      /\ req[r].stmt = "get_by_token_hash" /\ req[r].reply = "awaited"
  BY DEF IInv, TypeOK, Executes
<1>2. req'[r] = x /\ \A q \in Requests \ {r} : req'[q] = req[q]
  BY DEF IInv, TypeOK
<1>3. TypeOK' /\ Selected(req[r], req'[r], row) /\ sessions' = sessions /\ clock' = clock
  BY <1>1, <1>2 DEF TypeOK
<1>4. row # Null => /\ Hash(r) \in Hashes /\ row = sessions[Hash(r)]
                    /\ row \in SessionRow /\ req[r].token \in Tokens
  BY <1>1, HashTokenInjective DEF GetByTokenHash, SessionTable, Hash
<1> HIDE DEF row
<1>5. StatementInv(r)'
  BY <1>1, <1>3 DEF StatementInv, AfterCheck, Selected
<1>6. AnswerInv(r)'
  BY <1>1, <1>3, ZenonT(30) DEF AnswerInv, AnsweredOK, AfterCheck, Selected
<1>7. TableInv(r)'
  BY <1>1, <1>3, <1>4 DEF TableInv, Hash, Selected
<1>8. ASSUME NEW q \in Requests PROVE HistoryInv(q, r)'
  <2> SUFFICES ASSUME q \in req[r].before PROVE HistoryInv(q, r)'
    BY <1>2, <1>3 DEF HistoryInv, Selected
  <2>1. HistoryInv(q, r) /\ StatementInv(q) /\ AnswerInv(q) /\ TableInv(q)
    BY DEF IInv
  <2>2. req'[q].answer = req[q].answer /\ req'[q].endpoint = req[q].endpoint
        /\ req'[q].token = req[q].token
    BY <1>2, <1>3 DEF Selected
  <2>3. ASSUME SameToken(q, r), AnsweredOK(q, "POST /session")
        PROVE  row # Null
    <3>1. req[q].token \in Tokens /\ sessions[Hash(q)] # Null
      BY <2>1, <2>3 DEF StatementInv, AnswerInv, TableInv
    <3>2. Hash(q) = Hash(r) /\ Hash(r) \in Hashes
      BY <2>3, <3>1, HashTokenInjective DEF SameToken, Hash
    <3> QED BY <1>1, <3>1, <3>2 DEF GetByTokenHash, SessionTable, row
  <2>4. ASSUME SameToken(q, r), AnsweredOK(q, "DELETE /session")
        PROVE  row # Null /\ row.revoked_at # Null
    <3>1. /\ req[q].token \in Tokens /\ sessions[Hash(q)] # Null
          /\ sessions[Hash(q)].revoked_at # Null
      BY <2>1, <2>4 DEF StatementInv, AnswerInv, TableInv, AfterCheck
    <3>2. Hash(q) = Hash(r) /\ Hash(r) \in Hashes
      BY <2>4, <3>1, HashTokenInjective DEF SameToken, Hash
    <3> QED BY <1>1, <3>1, <3>2 DEF GetByTokenHash, SessionTable, row
  <2> QED BY <1>2, <1>3, <2>1, <2>2, <2>3, <2>4, ZenonT(30)
         DEF HistoryInv, Answered, AnsweredOK, SameToken, Selected
<1> QED BY <1>2, <1>3, <1>5, <1>6, <1>7, <1>8, TablesUntouched, StepOfOneRequest DEF Selected

(* get_by_token_hash keeps the invariant: the row it returns carries what     *)
(* every earlier logout and login did to the session.                         *)
LEMMA ExecSelectKeepsIInv ==
    ASSUME IInv, NEW r \in Requests, NEW lost \in BOOLEAN, ExecSelect(r, lost)
    PROVE  IInv'
<1> DEFINE row == GetByTokenHash(sessions, Hash(r))
           x == [req[r] EXCEPT !.reply = Reply(lost, IF row = Null THEN "no row" ELSE "row"),
                               !.record = IF lost THEN Null ELSE row,
                               !.active = ~lost /\ ActiveNow(row)]
<1>1. /\ Executes(r, "get_by_token_hash") /\ UNCHANGED <<clock, users, sessions, issued>>
      /\ req' = [req EXCEPT ![r] = x]
  BY DEF ExecSelect
<1>2. req[r] \in RequestRecord /\ sessions \in SessionTable
  BY DEF IInv, TypeOK
<1>3. row \in SessionRow \union {Null}
  BY <1>2 DEF GetByTokenHash, SessionTable
<1>4. row # Null /\ EnsureActive(row, clock) => ActiveNow(row)
  <2> SUFFICES ASSUME row # Null PROVE EnsureActive(row, clock) => ActiveNow(row)
    OBVIOUS
  <2>1. row.expires_at \in Int /\ clock \in Int
    BY <1>3 DEF SessionRow, IInv, TypeOK
  <2> HIDE DEF row
  <2> QED BY <2>1 DEF EnsureActive, ActiveNow
<1> HIDE DEF row
<1>5. x \in RequestRecord /\ Selected(req[r], x, row)
  <2>1. CASE lost
    <3>1. x = [req[r] EXCEPT !.reply = "broken", !.record = Null, !.active = FALSE]
      BY <2>1 DEF Reply
    <3> HIDE DEF x
    <3> QED BY <1>2, <3>1 DEF Selected, RequestRecord
  <2>2. CASE ~lost /\ row = Null /\ ~ActiveNow(row)
    <3>1. x = [req[r] EXCEPT !.reply = "no row", !.record = Null, !.active = FALSE]
      BY <2>2 DEF Reply
    <3> HIDE DEF x
    <3> QED BY <1>2, <2>2, <3>1 DEF Selected, RequestRecord
  <2>3. CASE ~lost /\ row # Null /\ ~ActiveNow(row)
    <3>1. x = [req[r] EXCEPT !.reply = "row", !.record = row, !.active = FALSE]
      BY <2>3 DEF Reply
    <3>2. ~EnsureActive(row, clock)
      BY <1>4, <2>3
    <3> HIDE DEF x
    <3> QED BY <1>2, <1>3, <2>3, <3>1, <3>2 DEF Selected, RequestRecord
  <2>4. CASE ~lost /\ row # Null /\ ActiveNow(row)
    <3>1. x = [req[r] EXCEPT !.reply = "row", !.record = row, !.active = TRUE]
      BY <2>4 DEF Reply
    <3> HIDE DEF x
    <3> QED BY <1>2, <1>3, <2>4, <3>1 DEF Selected, RequestRecord
  <2>5. row = Null => ~ActiveNow(row)
    BY DEF ActiveNow
  <2> QED BY <2>1, <2>2, <2>3, <2>4, <2>5
<1> HIDE DEF x
<1> QED BY <1>1, <1>5, SelectKeepsIInv DEF row

(* Every statement keeps the invariant, its reply lost or not.                *)
LEMMA ExecuteKeepsIInv ==
    ASSUME IInv, NEW r \in Requests, Execute(r)
    PROVE  IInv'
<1>1. PICK lost \in BOOLEAN :
        \/ ExecUpsert(r, lost) \/ RefuseUpsert(r, lost)
        \/ ExecInsert(r, lost) \/ ExecSelect(r, lost)
        \/ ExecUpdate(r, lost) \/ ExecRevoke(r, lost) \/ ExecGetUser(r, lost)
  BY ZenonT(30) DEF Execute
<1> QED BY <1>1, ExecUpsertKeepsIInv, RefuseUpsertKeepsIInv, ExecInsertKeepsIInv, ExecSelectKeepsIInv,
           ExecUpdateKeepsIInv, ExecRevokeKeepsIInv, ExecGetUserKeepsIInv

----------------------------------------------------------------------------
(* Resumptions.                                                               *)

\* the answer fits the statement before
Fits(x, code) ==
    /\ code = "OK" =>
          \/ x.endpoint = "POST /token"
          \/ x.endpoint = "POST /session" /\ x.stmt = "create_session" /\ x.reply = "row"
          \/ x.endpoint = "DELETE /session" /\ x.stmt = "revoke" /\ x.reply = "row"
          \/ x.endpoint \notin {"DELETE /session", "POST /session"} /\ x.stmt \in AfterCheck
    /\ code = "SESSION_MISSING" => x.stmt = "get_by_token_hash" /\ x.reply = "no row"

\* y is x with an answer
Answering(x, y, code) ==
    /\ y.endpoint = x.endpoint /\ y.stmt = x.stmt /\ y.reply = x.reply
    /\ y.token = x.token /\ y.login = x.login /\ y.record = x.record
    /\ y.at = x.at /\ y.before = x.before /\ y.active = x.active
    /\ y.loginAt = x.loginAt /\ y.committed = x.committed
    /\ y.answer = code

(* Answering changes nothing of a request but its answer.                     *)
LEMMA AnswerRecord ==
    ASSUME TypeOK, NEW r \in Requests, NEW code \in {"OK"} \union ErrorCodes
    PROVE  Answer(r, code) \in RequestRecord /\ Answering(req[r], Answer(r, code), code)
<1>1. req[r] \in RequestRecord
  BY DEF TypeOK
<1> QED BY <1>1 DEF Answer, Answering, RequestRecord

(* Answering keeps the invariant when the answer fits the statement before.   *)
LEMMA AnswerKeepsIInv ==
    ASSUME IInv, NEW r \in Requests, Pending(r),
           NEW code \in {"OK", "SESSION_MISSING", "SESSION_EXPIRED", "INTERNAL_ERROR"},
           req' = [req EXCEPT ![r] = Answer(r, code)], Fits(req[r], code),
           UNCHANGED <<clock, users, sessions, issued>>
    PROVE  IInv'
<1>1. /\ TypeOK /\ StatementInv(r) /\ AnswerInv(r) /\ TableInv(r)
      /\ req \in [Requests -> RequestRecord]
  BY DEF IInv, TypeOK
<1>2. Answer(r, code) \in RequestRecord /\ Answering(req[r], Answer(r, code), code)
  BY <1>1, AnswerRecord DEF ErrorCodes
<1>3. /\ \A q \in Requests \ {r} : req'[q] = req[q]
      /\ Answering(req[r], req'[r], code)
      /\ clock' = clock /\ sessions' = sessions
  BY <1>1, <1>2
<1>4. TypeOK'
  BY <1>1, <1>2 DEF TypeOK
<1>5. StatementInv(r)'
  BY <1>1, <1>3 DEF StatementInv, Answering
<1>6. AnswerInv(r)'
  BY <1>1, <1>3, ZenonT(30)
     DEF AnswerInv, AnsweredOK, Answering, Fits, BearerEndpoints, AfterCheck
<1>7. TableInv(r)'
  BY <1>1, <1>3 DEF TableInv, Hash, Answering
<1>8. ~Answered(r)
  BY DEF Pending, Answered, ErrorCodes
<1>9. \A q \in Requests : HistoryInv(q, r)'
  BY <1>3, ResumingHistory DEF Answering
<1> QED BY <1>3, <1>4, <1>5, <1>6, <1>7, <1>8, <1>9, TablesUntouched, StepOfOneRequest

\* y is x with another statement, its time and perhaps a token
Sending(x, y) ==
    /\ y.endpoint = x.endpoint /\ y.login = x.login /\ y.record = x.record
    /\ y.answer = x.answer /\ y.before = x.before /\ y.active = x.active
    /\ y.loginAt = x.loginAt /\ y.committed = x.committed
    /\ y.reply = "awaited"

\* the statement of y creates the session of the user that x logged in
Creates(x, y) ==
    /\ y.stmt = "create_session" /\ x.stmt = "upsert_user"
    /\ y.token \in Tokens /\ y.at = ExpiresAt(clock)

\* the statement of y follows the check of the record that x read
FollowsCheck(x, y) ==
    /\ y.stmt \in AfterCheck /\ y.token = x.token
    /\ y.stmt = "revoke" <=> x.endpoint = "DELETE /session"
    /\ y.stmt = "update_expiry" => y.at = ExpiresAt(clock)
    /\ \/ x.stmt = "update_expiry"
       \/ /\ x.stmt = "get_by_token_hash" /\ x.reply = "row"
          /\ EnsureActive(x.record, clock)

(* The statement that follows the check finds the record the check was about. *)
LEMMA SendKeepsIInv ==
    ASSUME IInv, NEW r \in Requests, Pending(r),
           NEW x \in RequestRecord, req' = [req EXCEPT ![r] = x], Sending(req[r], x),
           UNCHANGED <<clock, users, sessions>>, issued' \subseteq Tokens,
           Creates(req[r], x) \/ FollowsCheck(req[r], x)
    PROVE  IInv'
<1>1. /\ TypeOK /\ StatementInv(r) /\ AnswerInv(r) /\ TableInv(r)
      /\ req \in [Requests -> RequestRecord] /\ req[r].answer = "pending"
  BY DEF IInv, TypeOK, Pending
<1>2. /\ \A q \in Requests \ {r} : req'[q] = req[q]
      /\ Sending(req[r], req'[r])
      /\ Creates(req[r], req'[r]) \/ FollowsCheck(req[r], req'[r])
      /\ sessions' = sessions /\ clock' = clock
  BY <1>1
<1>3. TypeOK'
  BY <1>1 DEF TypeOK
<1>4. ExpiresAt(clock) <= clock + SessionTtl
  BY <1>1 DEF ExpiresAt, TypeOK
<1>5. StatementInv(r)'
  <2>1. CASE Creates(req[r], req'[r])
    BY <1>1, <1>2, <1>4, <2>1
       DEF StatementInv, Sending, Creates, LoginEndpoints, AfterCheck, BearerStatements
  <2>2. CASE FollowsCheck(req[r], req'[r])
    <3>1. /\ req[r].record # Null /\ req[r].record.revoked_at = Null
          /\ req[r].active = TRUE /\ req[r].endpoint \in BearerEndpoints
          /\ req[r].token \in Tokens \union {Bogus}
      BY <1>1, <2>2
         DEF StatementInv, FollowsCheck, AfterCheck, BearerStatements, EnsureActive
    <3> QED BY <1>2, <1>4, <2>2, <3>1, ZenonT(30)
            DEF StatementInv, Sending, FollowsCheck, AfterCheck, BearerStatements
  <2> QED BY <1>2, <2>1, <2>2
<1>6. AnswerInv(r)'
  BY <1>1, <1>2 DEF AnswerInv, AnsweredOK, Sending, StatementInv
<1>7. TableInv(r)'
  <2>1. CASE Creates(req[r], req'[r])
    <3>1. req[r].record = Null
      BY <1>1, <2>1 DEF StatementInv, Creates
    <3> QED BY <1>2, <2>1, <3>1 DEF TableInv, Sending, Creates
  <2>2. CASE FollowsCheck(req[r], req'[r])
    BY <1>1, <1>2, <2>2 DEF TableInv, Sending, Hash, FollowsCheck, AfterCheck
  <2> QED BY <1>2, <2>1, <2>2
<1>8. ~Answered(r)
  BY <1>1 DEF Answered, ErrorCodes
<1>9. \A q \in Requests : HistoryInv(q, r)'
  <2>1. req[r].endpoint \in BearerEndpoints => req'[r].token = req[r].token
    BY <1>1, <1>2 DEF StatementInv, Creates, FollowsCheck, LoginEndpoints, BearerEndpoints
  <2> QED BY <1>2, <2>1, ResumingHistory DEF Sending
<1> QED BY <1>2, <1>3, <1>5, <1>6, <1>7, <1>8, <1>9, TablesUntouched, StepOfOneRequest

(* The record a request has once it sent a statement.                         *)
LEMMA SentRecord ==
    ASSUME TypeOK, NEW r \in Requests, NEW s \in Statements
    PROVE  /\ Send(r, s) \in RequestRecord
           /\ Sending(req[r], Send(r, s)) /\ Send(r, s).stmt = s
           /\ Send(r, s).token = req[r].token /\ Send(r, s).at = req[r].at
<1>1. req[r] \in RequestRecord
  BY DEF TypeOK
<1> QED BY <1>1 DEF Send, Sending, RequestRecord

(* Sending create_session with a fresh token and an expires_at computed now   *)
(* keeps the invariant.                                                       *)
LEMMA ResumeCreateKeepsIInv ==
    ASSUME IInv, NEW r \in Requests, ResumeCreate(r)
    PROVE  IInv'
<1>1. PICK t \in FreshTokens :
        /\ issued' = issued \union {t}
        /\ req' = [req EXCEPT ![r] = [Send(r, "create_session") EXCEPT
                                         !.token = t, !.at = ExpiresAt(clock)]]
  BY DEF ResumeCreate
<1> DEFINE s == Send(r, "create_session")
           x == [s EXCEPT !.token = t, !.at = ExpiresAt(clock)]
<1>2. /\ Pending(r) /\ req[r].stmt = "upsert_user" /\ UNCHANGED <<clock, users, sessions>>
      /\ TypeOK /\ ExpiresAt(clock) \in Int /\ t \in Tokens /\ issued' \subseteq Tokens
  <2>1. TypeOK /\ clock \in Int /\ issued \subseteq Tokens
    BY DEF IInv, TypeOK
  <2>2. t \in Tokens /\ issued' = issued \union {t}
    BY <1>1 DEF FreshTokens
  <2>3. Pending(r) /\ req[r].stmt = "upsert_user" /\ UNCHANGED <<clock, users, sessions>>
    BY DEF ResumeCreate, Resumes
  <2>4. ExpiresAt(clock) \in Int
    BY <2>1 DEF ExpiresAt
  <2> QED BY <2>1, <2>2, <2>3, <2>4
<1>3. s \in RequestRecord /\ Sending(req[r], s) /\ s.stmt = "create_session"
  BY <1>2, SentRecord DEF Statements
<1>4. req' = [req EXCEPT ![r] = x]
  BY <1>1
<1> HIDE DEF s
<1>5. /\ x \in RequestRecord /\ Sending(req[r], x) /\ x.stmt = "create_session"
      /\ x.token = t /\ x.at = ExpiresAt(clock)
  BY <1>2, <1>3 DEF Sending, RequestRecord
<1> HIDE DEF x
<1> QED BY <1>2, <1>4, <1>5, SendKeepsIInv DEF Creates

(* What follows a successful _ensure_active keeps the invariant: the record   *)
(* was active when it was read.                                               *)
LEMMA ResumeActiveKeepsIInv ==
    ASSUME IInv, NEW r \in Requests,
           GetSession(r) \/ RefreshSession(r) \/ RevokeThisSession(r)
    PROVE  IInv'
<1>1. TypeOK /\ clock \in Int /\ issued \subseteq Tokens /\ ExpiresAt(clock) \in Int
  BY DEF IInv, TypeOK, ExpiresAt
<1>2. CASE GetSession(r)
  <2> DEFINE x == Send(r, "get_by_id")
  <2>1. /\ Pending(r) /\ req[r].stmt = "get_by_token_hash" /\ req[r].reply = "row"
        /\ req[r].endpoint = "GET /session" /\ EnsureActive(req[r].record, clock)
        /\ UNCHANGED <<clock, users, sessions, issued>> /\ req' = [req EXCEPT ![r] = x]
    BY <1>2 DEF GetSession, ResumeActive, Resumes
  <2>2. x \in RequestRecord /\ Sending(req[r], x) /\ x.stmt = "get_by_id"
        /\ x.token = req[r].token
    BY <1>1, SentRecord DEF Statements
  <2> HIDE DEF x
  <2> QED BY <1>1, <2>1, <2>2, SendKeepsIInv DEF AfterCheck, FollowsCheck
<1>3. CASE RefreshSession(r)
  <2> DEFINE s == Send(r, "update_expiry")
             x == [s EXCEPT !.at = ExpiresAt(clock)]
  <2>1. /\ Pending(r) /\ req[r].stmt = "get_by_token_hash" /\ req[r].reply = "row"
        /\ req[r].endpoint = "POST /session/refresh" /\ EnsureActive(req[r].record, clock)
        /\ UNCHANGED <<clock, users, sessions, issued>> /\ req' = [req EXCEPT ![r] = x]
    BY <1>3 DEF RefreshSession, ResumeActive, Resumes
  <2>2. s \in RequestRecord /\ Sending(req[r], s) /\ s.stmt = "update_expiry"
        /\ s.token = req[r].token
    BY <1>1, SentRecord DEF Statements
  <2> HIDE DEF s
  <2>3. /\ x \in RequestRecord /\ Sending(req[r], x) /\ x.stmt = "update_expiry"
        /\ x.token = req[r].token /\ x.at = ExpiresAt(clock)
    BY <1>1, <2>2 DEF Sending, RequestRecord
  <2> HIDE DEF x
  <2> QED BY <1>1, <2>1, <2>3, SendKeepsIInv DEF AfterCheck, FollowsCheck
<1>4. CASE RevokeThisSession(r)
  <2> DEFINE s == Send(r, "revoke")
             x == [s EXCEPT !.at = clock]
  <2>1. /\ Pending(r) /\ req[r].stmt = "get_by_token_hash" /\ req[r].reply = "row"
        /\ req[r].endpoint = "DELETE /session" /\ EnsureActive(req[r].record, clock)
        /\ UNCHANGED <<clock, users, sessions, issued>> /\ req' = [req EXCEPT ![r] = x]
    BY <1>4 DEF RevokeThisSession, ResumeActive, Resumes
  <2>2. s \in RequestRecord /\ Sending(req[r], s) /\ s.stmt = "revoke"
        /\ s.token = req[r].token
    BY <1>1, SentRecord DEF Statements
  <2> HIDE DEF s
  <2>3. /\ x \in RequestRecord /\ Sending(req[r], x) /\ x.stmt = "revoke"
        /\ x.token = req[r].token
    BY <1>1, <2>2 DEF Sending, RequestRecord
  <2> HIDE DEF x
  <2> QED BY <1>1, <2>1, <2>3, SendKeepsIInv DEF AfterCheck, FollowsCheck
<1> QED BY <1>2, <1>3, <1>4

(* The answer to update_expiry keeps the invariant.                           *)
LEMMA ResumeUpdateKeepsIInv ==
    ASSUME IInv, NEW r \in Requests, ResumeUpdate(r)
    PROVE  IInv'
<1>1. TypeOK /\ issued \subseteq Tokens /\ StatementInv(r) /\ TableInv(r)
  BY DEF IInv, TypeOK
<1>2. /\ Pending(r) /\ req[r].stmt = "update_expiry" /\ req[r].reply = "row"
      /\ req[r].endpoint # "DELETE /session"
      /\ UNCHANGED <<clock, users, sessions, issued>>
      /\ req' = [req EXCEPT ![r] = Send(r, "get_by_id")]
  BY <1>1 DEF ResumeUpdate, TableInv, StatementInv
<1> DEFINE x == Send(r, "get_by_id")
<1>3. /\ x \in RequestRecord /\ Sending(req[r], x) /\ x.stmt = "get_by_id"
      /\ x.token = req[r].token
  BY <1>1, SentRecord DEF Statements
<1> HIDE DEF x
<1>4. FollowsCheck(req[r], x)
  BY <1>2, <1>3 DEF FollowsCheck, AfterCheck
<1>5. req' = [req EXCEPT ![r] = x] /\ issued' \subseteq Tokens
  BY <1>1, <1>2 DEF x
<1> QED BY <1>2, <1>3, <1>4, <1>5, SendKeepsIInv

(* The resumptions that answer.                                               *)
LEMMA ResumeAnswerKeepsIInv ==
    ASSUME IInv, NEW r \in Requests,
           \/ ResumeFailed(r) \/ ResumeVerify(r) \/ ResumeInsert(r)
           \/ ResumeUnknown(r) \/ ResumeInactive(r)
           \/ ResumeRevoke(r) \/ ResumeGetUser(r)
    PROVE  IInv'
<1>1. StatementInv(r) /\ req[r] \in RequestRecord
  BY DEF IInv, TypeOK
<1>2. PICK code \in {"OK", "SESSION_MISSING", "SESSION_EXPIRED", "INTERNAL_ERROR"} :
        /\ Pending(r) /\ UNCHANGED <<clock, users, sessions, issued>>
        /\ req' = [req EXCEPT ![r] = Answer(r, code)]
        /\ Fits(req[r], code)
  <2>1. CASE ResumeFailed(r)
    BY <2>1 DEF ResumeFailed, Fits
  <2>2. CASE ResumeVerify(r)
    BY <2>2 DEF ResumeVerify, Resumes, Fits
  <2>3. CASE ResumeInsert(r)
    <3>1. req[r].endpoint \in LoginEndpoints /\ req[r].stmt = "create_session"
          /\ req[r].reply = "row"
      BY <1>1, <2>3 DEF ResumeInsert, Resumes, StatementInv
    <3> QED BY <2>3, <3>1 DEF ResumeInsert, Resumes, Fits, LoginEndpoints
  <2>4. CASE ResumeUnknown(r)
    BY <2>4 DEF ResumeUnknown, Resumes, Fits
  <2>5. CASE ResumeInactive(r)
    BY <2>5 DEF ResumeInactive, Resumes, Fits
  <2>6. CASE ResumeRevoke(r)
    <3>1. req[r].endpoint = "DELETE /session"
      BY <1>1, <2>6 DEF ResumeRevoke, Resumes, StatementInv
    <3> QED BY <2>6, <3>1 DEF ResumeRevoke, Resumes, Fits
  <2>7. CASE ResumeGetUser(r)
    <3>1. req[r].endpoint \in BearerEndpoints /\ req[r].endpoint # "DELETE /session"
      BY <1>1, <2>7 DEF ResumeGetUser, StatementInv, BearerStatements
    <3> QED BY <2>7, <3>1 DEF ResumeGetUser, Fits, AfterCheck, BearerEndpoints
  <2> QED BY <2>1, <2>2, <2>3, <2>4, <2>5, <2>6, <2>7
<1> QED BY <1>2, AnswerKeepsIInv

(* Every resumption keeps the invariant.                                      *)
LEMMA ResumeKeepsIInv ==
    ASSUME IInv, NEW r \in Requests, Resume(r)
    PROVE  IInv'
BY ResumeAnswerKeepsIInv, ResumeCreateKeepsIInv, ResumeActiveKeepsIInv,
   ResumeUpdateKeepsIInv
   DEF Resume

----------------------------------------------------------------------------
(* Steps of no request.                                                       *)

(* A crash keeps the invariant: it answers no request and touches no table.   *)
LEMMA CrashKeepsIInv ==
    ASSUME IInv, Crash
    PROVE  IInv'
<1>1. /\ TypeOK /\ UNCHANGED <<clock, users, sessions, issued>>
      /\ req' = [q \in Requests |-> IF Pending(q) THEN Answer(q, "connection lost")
                                                 ELSE req[q]]
  BY DEF IInv, Crash
<1>2. ASSUME NEW q \in Requests
      PROVE  /\ req'[q] \in RequestRecord
             /\ \/ req'[q] = req[q]
                \/ Pending(q) /\ Answering(req[q], req'[q], "connection lost")
  <2>1. req[q] \in RequestRecord
    BY <1>1 DEF TypeOK
  <2>0. req'[q] = IF Pending(q) THEN Answer(q, "connection lost") ELSE req[q]
    BY <1>1
  <2>2. CASE Pending(q)
    <3>1. req'[q] = Answer(q, "connection lost")
      BY <2>0, <2>2, Zenon
    <3> QED BY <2>1, <2>2, <3>1 DEF Answer, Answering, RequestRecord
  <2>3. CASE ~Pending(q)
    <3>1. req'[q] = req[q]
      BY <2>0, <2>3, Zenon
    <3>2. req'[q] \in RequestRecord
      BY <2>1, <3>1
    <3> QED BY <3>1, <3>2, Zenon
  <2> QED BY <2>2, <2>3
<1>3. TypeOK'
  <2>1. req' \in [Requests -> RequestRecord]
    BY <1>1, <1>2
  <2> QED BY <1>1, <2>1 DEF TypeOK
<1>4. ASSUME NEW q \in Requests
      PROVE  StatementInv(q)' /\ AnswerInv(q)' /\ TableInv(q)'
  <2>1. StatementInv(q) /\ AnswerInv(q) /\ TableInv(q)
    BY DEF IInv
  <2>2. sessions' = sessions /\ clock' = clock
    BY <1>1
  <2>3. CASE req'[q] = req[q]
    <3>1. clock \in Int
      BY DEF IInv, TypeOK
    <3> QED BY <2>2, <2>3, <3>1, TablesUntouched, UntouchedRequest
  <2>4. CASE Answering(req[q], req'[q], "connection lost") /\ Pending(q)
    <3>1. StatementInv(q)'
      BY <2>1, <2>2, <2>4, ZenonT(30) DEF StatementInv, Answering, EnsureActive
    <3>2. AnswerInv(q)'
      BY <2>1, <2>4 DEF AnswerInv, AnsweredOK, Answering, Pending
    <3>3. TableInv(q)'
      BY <2>1, <2>2, <2>4 DEF TableInv, Hash, Answering
    <3> QED BY <3>1, <3>2, <3>3
  <2> QED BY <1>2, <2>3, <2>4
<1>5. ASSUME NEW p \in Requests, NEW q \in Requests PROVE HistoryInv(p, q)'
  <2>1. HistoryInv(p, q)
    BY DEF IInv
  <2>2. Answered(p) => req'[p] = req[p]
    BY <1>2 DEF Pending, Answered, ErrorCodes
  <2>3. /\ req'[q].before = req[q].before /\ req'[q].endpoint = req[q].endpoint
        /\ req'[q].token = req[q].token /\ req'[q].record = req[q].record
        /\ req'[q].stmt = req[q].stmt /\ req'[q].reply = req[q].reply
    BY <1>2 DEF Answering
  <2> QED BY <2>1, <2>2, <2>3 DEF HistoryInv, Answered, AnsweredOK, SameToken
<1>6. LifetimeBounded'
  BY <1>1 DEF IInv, LifetimeBounded
<1> QED BY <1>3, <1>4, <1>5, <1>6 DEF IInv

(* Time passing keeps the invariant: every bound on a stored time is relaxed  *)
(* by it, and a session found active later was active before.                 *)
LEMMA TickKeepsIInv ==
    ASSUME IInv, Tick
    PROVE  IInv'
<1>1. /\ TypeOK /\ clock < MaxClock /\ clock \in Nat /\ clock' = clock + 1
      /\ UNCHANGED <<users, sessions, issued, req>>
  BY DEF IInv, Tick, TypeOK
<1>2. TypeOK'
  BY <1>1 DEF TypeOK
<1>3. ASSUME NEW q \in Requests
      PROVE  StatementInv(q)' /\ AnswerInv(q)' /\ TableInv(q)'
  BY <1>1, UntouchedRequest DEF Grows
<1>4. ASSUME NEW p \in Requests, NEW q \in Requests PROVE HistoryInv(p, q)'
  BY <1>1 DEF IInv, HistoryInv, Answered, AnsweredOK, SameToken
<1>5. LifetimeBounded'
  <2>1. ASSUME NEW t \in Tokens, sessions[HashToken(t)] # Null
        PROVE  sessions[HashToken(t)].expires_at <= clock' + SessionTtl
    <3>1. sessions[HashToken(t)] \in SessionRow
      BY <1>1, <2>1, HashTokenInjective DEF TypeOK, SessionTable
    <3>2. /\ sessions[HashToken(t)].expires_at \in Int
          /\ sessions[HashToken(t)].expires_at <= clock + SessionTtl
      BY <2>1, <3>1 DEF SessionRow, IInv, LifetimeBounded
    <3> QED BY <1>1, <3>2
  <2> QED BY <1>1, <2>1 DEF LifetimeBounded
<1> QED BY <1>2, <1>3, <1>4, <1>5 DEF IInv

(* A step that changes nothing keeps the invariant.                           *)
LEMMA StutterKeepsIInv ==
    ASSUME IInv, UNCHANGED vars
    PROVE  IInv'
<1>1. UNCHANGED <<clock, users, sessions, issued, req>>
  BY DEF vars
<1>2. TypeOK' /\ LifetimeBounded'
  BY <1>1 DEF IInv, TypeOK, LifetimeBounded
<1>3. ASSUME NEW q \in Requests
      PROVE  StatementInv(q)' /\ AnswerInv(q)' /\ TableInv(q)'
  <2>1. StatementInv(q) /\ AnswerInv(q) /\ TableInv(q)
    BY DEF IInv
  <2> QED BY <1>1, <2>1
          DEF StatementInv, AnswerInv, TableInv, AnsweredOK, Hash, EnsureActive
<1>4. ASSUME NEW p \in Requests, NEW q \in Requests PROVE HistoryInv(p, q)'
  BY <1>1 DEF IInv, HistoryInv, Answered, AnsweredOK, SameToken
<1> QED BY <1>2, <1>3, <1>4 DEF IInv

(* The sessions found in the database, and no request yet, satisfy the        *)
(* invariant.                                                                 *)
LEMMA InitIInv == Init => IInv
<1> SUFFICES ASSUME Init PROVE IInv
  OBVIOUS
<1>1. /\ clock = 0 /\ issued = InitialTokens /\ req = [r \in Requests |-> NotArrived]
      /\ users = [u \in TgIds |-> IF u \in InitialUsers
                                    THEN [username |-> Null, last_login_at |-> 0]
                                    ELSE Null]
  BY DEF Init
<1>2. /\ sessions \in [Hashes -> {Null} \union
                          [user_id : InitialUsers, expires_at : InitialExpiries,
                           revoked_at : {Null}]]
      /\ \A e \in InitialExpiries : e \in Int /\ e <= SessionTtl
  BY DEF Init
<1>3. /\ NotArrived \in RequestRecord
      /\ NotArrived.stmt = Null /\ NotArrived.record = Null /\ NotArrived.reply = "none"
      /\ NotArrived.answer = "none" /\ NotArrived.before = {} /\ NotArrived.token = Null
  BY DEF NotArrived, RequestRecord
<1>4. TypeOK
  <2>1. clock \in 0 .. MaxClock
    BY <1>1
  <2>2. users \in UserTable
    BY <1>1 DEF UserTable, UserRow
  <2>3. sessions \in SessionTable
    BY <1>2 DEF SessionTable, SessionRow
  <2>4. req \in [Requests -> RequestRecord]
    BY <1>1, <1>3
  <2> QED BY <1>1, <2>1, <2>2, <2>3, <2>4 DEF TypeOK
<1>5. LifetimeBounded
  <2>1. ASSUME NEW h \in Hashes, sessions[h] # Null PROVE sessions[h].expires_at <= SessionTtl
    BY <1>2, <2>1
  <2> QED BY <1>1, <2>1, HashTokenInjective DEF LifetimeBounded
<1>6. ASSUME NEW r \in Requests PROVE StatementInv(r) /\ AnswerInv(r) /\ TableInv(r)
  <2>1. /\ req[r].stmt = Null /\ req[r].record = Null /\ req[r].reply = "none"
        /\ req[r].answer = "none" /\ req[r].token = Null
    BY <1>1, <1>3
  <2> QED BY <2>1, NullIsNoString
          DEF StatementInv, AnswerInv, TableInv, AnsweredOK, BearerStatements, AfterCheck
<1>7. ASSUME NEW p \in Requests, NEW q \in Requests PROVE HistoryInv(p, q)
  BY <1>1, <1>3 DEF HistoryInv
<1> QED BY <1>4, <1>5, <1>6, <1>7 DEF IInv

----------------------------------------------------------------------------
(* Every step keeps the invariant.                                            *)
LEMMA NextKeepsIInv ==
    ASSUME IInv, [Next]_vars
    PROVE  IInv'
<1>1. CASE \E r \in Requests : Arrive(r)
  BY <1>1, ArriveKeepsIInv
<1>2. CASE \E r \in Requests : Execute(r)
  BY <1>2, ExecuteKeepsIInv
<1>3. CASE \E r \in Requests : Break(r)
  BY <1>3, BreakKeepsIInv
<1>4. CASE \E r \in Requests : Resume(r)
  BY <1>4, ResumeKeepsIInv
<1>5. CASE Crash
  BY <1>5, CrashKeepsIInv
<1>6. CASE Tick
  BY <1>6, TickKeepsIInv
<1>7. CASE Idle \/ UNCHANGED vars
  BY <1>7, StutterKeepsIInv DEF Idle
<1> QED BY <1>1, <1>2, <1>3, <1>4, <1>5, <1>6, <1>7 DEF Next

(* Every reachable state satisfies the inductive invariant: a request's       *)
(* record, its statement, its answer and the rows of the tables agree.        *)
THEOREM Invariance == Spec => []IInv
<1>1. IInv /\ [Next]_vars => IInv'
  BY NextKeepsIInv
<1> QED BY <1>1, InitIInv, PTL DEF Spec

(* Every variable holds values of its kind: no interleaving, crash or broken  *)
(* connection leaves a request or a row half made.                            *)
THEOREM TypeCorrect == Spec => []TypeOK
<1>1. IInv => TypeOK
  BY DEF IInv
<1> QED BY <1>1, Invariance, PTL

(* No session outlives the TTL counted from the present (create_session and   *)
(* refresh_session of SessionService, with _expires_at).                      *)
THEOREM SessionsExpire == Spec => []LifetimeBounded
<1>1. IInv => LifetimeBounded
  BY DEF IInv
<1> QED BY <1>1, Invariance, PTL

(* Once DELETE /session has answered 200 no later request with that token is  *)
(* served: revoke_session, _ensure_active and update_expiry together.         *)
THEOREM LogoutFinal == Spec => []LogoutIsFinal
<1>1. IInv => LogoutIsFinal
  <2> SUFFICES ASSUME IInv, NEW d \in Requests, NEW r \in Requests,
                      AnsweredOK(d, "DELETE /session"), d \in req[r].before,
                      req[r].endpoint \in BearerEndpoints, SameToken(d, r)
               PROVE  req[r].answer \in {"pending", "SESSION_EXPIRED", "INTERNAL_ERROR",
                                         "connection lost"}
    BY DEF LogoutIsFinal
  <2>1. /\ StatementInv(d) /\ AnswerInv(d)
        /\ StatementInv(r) /\ AnswerInv(r) /\ HistoryInv(d, r)
        /\ req[r] \in RequestRecord
    BY DEF IInv, TypeOK
  <2>2. req[r].answer \in {"none", "pending", "OK", "connection lost"} \union ErrorCodes
    BY <2>1 DEF RequestRecord
  <2>3. req[r].token # Null
    BY <2>1, ZenonT(30) DEF AnswerInv, StatementInv, BearerStatements, SameToken
  <2>4. ~(req[r].stmt = "get_by_token_hash" /\ req[r].reply = "no row")
    BY <2>1 DEF HistoryInv
  <2>5. req[r].record = Null \/ req[r].record.revoked_at # Null
    BY <2>1 DEF HistoryInv
  <2>6. req[r].answer # "OK"
    BY <2>1, <2>5 DEF AnswerInv, StatementInv
  <2>7. req[r].answer \notin {"none", "VALIDATION_ERROR", "OAUTH_CODE_INVALID",
                              "SESSION_MISSING"}
    BY <2>1, <2>3, <2>4 DEF AnswerInv
  <2> QED BY <2>2, <2>6, <2>7 DEF ErrorCodes
<1> QED BY <1>1, Invariance, PTL

(* A bearer request is served only when its session was live at the instant   *)
(* its row was read: _ensure_active runs later, on an older record.           *)
THEOREM ServedActive == Spec => []ServedOnlyIfActive
<1>1. IInv => ServedOnlyIfActive
  <2> SUFFICES ASSUME IInv, NEW r \in Requests,
                      req[r].endpoint \in BearerEndpoints, req[r].answer = "OK"
               PROVE  req[r].active = TRUE
    BY DEF ServedOnlyIfActive
  <2>1. StatementInv(r) /\ AnswerInv(r)
    BY DEF IInv
  <2> QED BY <2>1 DEF StatementInv, AnswerInv
<1> QED BY <1>1, Invariance, PTL

(* A session that POST /session answered with is found by every later request *)
(* that presents it: its row was committed before the answer and no statement *)
(* deletes rows.                                                              *)
THEOREM SessionDurable == Spec => []IssuedSessionDurable
<1>1. IInv => IssuedSessionDurable
  <2> SUFFICES ASSUME IInv, NEW c \in Requests, NEW r \in Requests,
                      AnsweredOK(c, "POST /session"), c \in req[r].before,
                      req[r].endpoint \in BearerEndpoints, SameToken(c, r)
               PROVE  req[r].answer # "SESSION_MISSING"
    BY DEF IssuedSessionDurable
  <2>1. StatementInv(c) /\ AnswerInv(c) /\ AnswerInv(r) /\ HistoryInv(c, r)
    BY DEF IInv
  <2>2. req[r].token # Null
    BY <2>1 DEF AnswerInv, StatementInv, SameToken
  <2>3. ~(req[r].stmt = "get_by_token_hash" /\ req[r].reply = "no row")
    BY <2>1 DEF HistoryInv
  <2> QED BY <2>1, <2>2, <2>3 DEF AnswerInv
<1> QED BY <1>1, Invariance, PTL
=============================================================================
