----------------------------- MODULE SessionTimes -----------------------------
(* Proofs of what the times of Sessions tell when requests overlap: which     *)
(* refresh, which login and which verdict on a session stands in the end.     *)
EXTENDS SessionAnswers

----------------------------------------------------------------------------
(* What a step keeps of every request.                                        *)

\* the process died under q
Lost(q) == /\ Pending(q) /\ Answering(req[q], req'[q], "connection lost")
           /\ clock' = clock /\ TablesKept

(* A request stays as it was, takes a step or is lost.                        *)
LEMMA StepOfEach ==
    ASSUME IInv, [Next]_vars, NEW q \in Requests
    PROVE  req'[q] = req[q] \/ StepOf(q) \/ Lost(q)
<1>1. CASE \E r \in Requests : StepOf(r)
  <2>1. PICK r \in Requests : StepOf(r)
    BY <1>1
  <2>2. Others(r)
    BY <2>1 DEF StepOf, Arrived, Upserted, Refused, Inserted, Read, Updated, Revoked,
                Looked, Broke,
                Creating, Following, Refreshed, Answers, Sends, Ran, Continues
  <2> QED BY <2>1, <2>2 DEF Others
<1>2. CASE Crashed
  BY <1>2 DEF Crashed, Lost
<1>3. CASE Waited
  BY <1>3 DEF Waited
<1> QED BY <1>1, <1>2, <1>3, KindsOfSteps

(* Time does not run back, and only an idle step advances it.                 *)
LEMMA ClockAdvances ==
    ASSUME IInv, [Next]_vars
    PROVE  clock \in Int /\ clock' \in Int /\ clock <= clock'
<1>1. clock \in Int
  BY DEF IInv, TypeOK
<1>2. clock' \in Int
  BY NextKeepsIInv DEF IInv, TypeOK
<1>3. ASSUME NEW r \in Requests, StepOf(r) PROVE clock' = clock
  BY <1>3 DEF StepOf, Arrived, Upserted, Refused, Inserted, Read, Updated, Revoked,
              Looked, Broke,
              Creating, Following, Refreshed, Answers, Sends, Ran, Continues
<1>4. clock' = clock \/ clock <= clock'
  BY <1>3, KindsOfSteps DEF Crashed, Waited
<1> QED BY <1>1, <1>2, <1>4

\* what every step keeps of a request that has arrived
Persists(q) ==
    /\ req'[q].endpoint = req[q].endpoint /\ req'[q].login = req[q].login
    /\ req'[q].before = req[q].before /\ req'[q].loginAt = req[q].loginAt
    /\ req'[q].committed = req[q].committed \/ Upserted(q)
    /\ req[q].endpoint \in BearerEndpoints => req'[q].token = req[q].token
    /\ req'[q].stmt = "upsert_user" => req[q].stmt = "upsert_user" /\ req'[q].at = req[q].at
    /\ Refreshing(q) => /\ req'[q].stmt \in {"update_expiry", "get_by_id"}
                        /\ req'[q].at = req[q].at

(* A request keeps who it is, and a refresh the time it computed.             *)
LEMMA ArrivedPersists ==
    ASSUME IInv, [Next]_vars, NEW q \in Requests, req[q].answer # "none"
    PROVE  Persists(q)
<1>1. CASE req'[q] = req[q]
  BY <1>1 DEF Persists, Refreshing
<1>2. CASE Lost(q)
  BY <1>2 DEF Lost, Answering, Persists, Refreshing
<1>3. CASE StepOf(q)
  <2>1. ASSUME NEW s, Ran(q, s), Upserted(q) \/ CommitsNone(q) PROVE Persists(q)
    BY <2>1 DEF Ran, Continues, CommitsNone, Persists, Refreshing
  <2>2. CASE Upserted(q) \/ Refused(q) \/ Inserted(q) \/ Read(q) \/ Updated(q)
             \/ Revoked(q) \/ Looked(q) \/ Broke(q)
    BY <2>1, <2>2 DEF Upserted, Refused, Inserted, Read, Updated, Revoked, Looked, Broke
  <2>3. CASE Creating(q)
    <3>1. StatementInv(q)
      BY DEF IInv
    <3> QED BY <2>3, <3>1
            DEF Creating, Sends, Continues, CommitsNone, Persists, Refreshing,
                BearerEndpoints
  <2>4. CASE Following(q)
    BY <2>4 DEF Following, Sends, Continues, CommitsNone, Persists, Refreshing
  <2>5. CASE Refreshed(q)
    BY <2>5 DEF Refreshed, Sends, Continues, CommitsNone, Persists, Refreshing
  <2>6. CASE Answers(q)
    BY <2>6 DEF Answers, Continues, CommitsNone, Persists, Refreshing
  <2>7. ~Arrived(q)
    BY DEF Arrived
  <2> QED BY <1>3, <2>2, <2>3, <2>4, <2>5, <2>6, <2>7 DEF StepOf
<1> QED BY <1>1, <1>2, <1>3, StepOfEach

(* A request whose statement is known has arrived.                            *)
LEMMA SentHasArrived ==
    ASSUME AnswersInv, NEW q \in Requests,
           \/ req[q].stmt \in Statements \/ req[q].login # Null \/ req[q].record # Null
           \/ req[q].reply # "none"
    PROVE  req[q].answer # "none"
<1>1. ReplyInv(q)
  BY DEF AnswersInv
<1>2. /\ NotArrived.stmt = Null /\ NotArrived.login = Null /\ NotArrived.record = Null
      /\ NotArrived.reply = "none"
  BY DEF NotArrived
<1> QED BY <1>1, <1>2, SessionConstants DEF ReplyInv

(* A refresh that has computed its expires_at goes on being one.              *)
LEMMA RefreshingPersists ==
    ASSUME IInv, AnswersInv, [Next]_vars, NEW q \in Requests, Refreshing(q)
    PROVE  /\ Persists(q) /\ Refreshing(q)' /\ req'[q].at = req[q].at
           /\ req'[q].token = req[q].token /\ req'[q].before = req[q].before
<1>1. req[q].answer # "none"
  BY SentHasArrived DEF Refreshing, Statements
<1>2. Persists(q)
  BY <1>1, ArrivedPersists
<1> QED BY <1>2 DEF Persists, Refreshing, BearerEndpoints

(* An answered request does not move any more.                                *)
LEMMA AnsweredStays ==
    ASSUME IInv, AnswersInv, [Next]_vars, NEW q \in Requests, Answered(q)
    PROVE  req'[q] = req[q]
<1>1. /\ req[q].reply # "awaited" /\ req[q].answer \notin {"none", "pending"}
  <2>1. ReplyInv(q)
    BY DEF AnswersInv
  <2> QED BY <2>1 DEF ReplyInv, Answered, ErrorCodes
<1>2. ~Lost(q)
  BY <1>1 DEF Lost, Pending
<1>3. ~StepOf(q)
  BY <1>1 DEF StepOf, Arrived, Upserted, Refused, Inserted, Read, Updated, Revoked,
              Looked, Broke,
              Creating, Following, Refreshed, Answers, Sends, Ran, Pending
<1> QED BY <1>2, <1>3, StepOfEach

(* ... and so a request was answered before another arrived only if it was    *)
(* when that one arrived, or still is.                                        *)
LEMMA BeforeStays ==
    ASSUME IInv, AnswersInv, [Next]_vars, NEW q \in Requests, NEW r \in Requests,
           q \in req'[r].before
    PROVE  /\ Answered(q) /\ req'[q] = req[q]
           /\ q \in req[r].before \/ Arrived(r)
<1>1. CASE Arrived(r)
  BY <1>1, AnsweredStays DEF Arrived
<1>2. CASE ~Arrived(r)
  <2>1. req'[r].before = req[r].before
    BY <1>2, StepOfEach
       DEF StepOf, Upserted, Refused, Inserted, Read, Updated, Revoked, Looked, Broke,
           Creating, Following, Refreshed, Answers, Sends, Ran, Continues, Lost,
           Answering
  <2>2. HistoryInv(q, r)
    BY DEF IInv
  <2> QED BY <2>1, <2>2, AnsweredStays DEF HistoryInv
<1> QED BY <1>1, <1>2

(* Two requests that have arrived overlap or not, once and for all.           *)
LEMMA OverlapPersists ==
    ASSUME NEW q \in Requests, NEW r \in Requests, Persists(q), Persists(r), Overlap(q, r)
    PROVE  Overlap(q, r)'
BY DEF Persists, Overlap

----------------------------------------------------------------------------
(* What a step does to a row.                                                 *)

(* The table is looked up by the hash of a token.                             *)
LEMMA RowOfToken ==
    ASSUME NEW table \in SessionTable, NEW t \in Tokens
    PROVE  /\ HashToken(t) \in Hashes
           /\ GetByTokenHash(table, HashToken(t)) = table[HashToken(t)]
           /\ table[HashToken(t)] \in SessionRow \union {Null}
BY HashTokenInjective DEF GetByTokenHash, SessionTable

(* The statements that write to the sessions table.                           *)
LEMMA SessionsChange ==
    ASSUME IInv, [Next]_vars
    PROVE  \/ sessions' = sessions
           \/ \E p \in Requests : Inserted(p) \/ Updated(p) \/ Revoked(p)
BY KindsOfSteps
   DEF StepOf, Arrived, Upserted, Refused, Read, Looked, Broke, Creating, Following,
       Refreshed,
       Answers, Sends, TablesKept, Crashed, Waited

(* The row of a session that a request has read is never made active again,   *)
(* and only a refresh of that session moves its expiry.                       *)
LEMMA RowChange ==
    ASSUME IInv, AnswersInv, [Next]_vars, NEW x \in Requests, req[x].record # Null
    PROVE  /\ RowOf(x) \in SessionRow /\ RowOf(x)' \in SessionRow
           /\ RowOf(x).revoked_at # Null => RowOf(x)'.revoked_at # Null
           /\ \/ RowOf(x)'.expires_at = RowOf(x).expires_at
              \/ \E p \in Requests : /\ Updated(p) /\ SameToken(p, x)
                                     /\ RowOf(x)'.expires_at = req[p].at
<1> DEFINE t == req[x].token
           h == HashToken(t)
<1>1. /\ sessions \in SessionTable /\ sessions' \in SessionTable
      /\ TableInv(x) /\ StatementInv(x) /\ req[x] \in RequestRecord
  BY NextKeepsIInv DEF IInv, TypeOK
<1>2. /\ t \in Tokens /\ sessions[h] # Null /\ h \in Hashes
  BY <1>1, RowOfToken DEF TableInv, Hash
<1>3. req'[x].token = t
  <2>1. req[x].answer # "none"
    BY SentHasArrived
  <2>2. ~Creating(x)
    BY <1>1 DEF StatementInv, Creating
  <2> QED BY <2>1, <2>2, StepOfEach
          DEF StepOf, Arrived, Upserted, Refused, Inserted, Read, Updated, Revoked,
              Looked, Broke,
              Following, Refreshed, Answers, Ran, Lost, Answering
<1>4. RowOf(x) = sessions[h] /\ RowOf(x)' = sessions'[h]
  BY <1>1, <1>2, <1>3, RowOfToken DEF RowOf, Hash
<1>5. sessions[h] \in SessionRow
  BY <1>1, <1>2 DEF SessionTable
<1>6. /\ sessions'[h] # Null
      /\ sessions[h].revoked_at # Null => sessions'[h].revoked_at # Null
      /\ \/ sessions'[h].expires_at = sessions[h].expires_at
         \/ \E p \in Requests : /\ Updated(p) /\ SameToken(p, x)
                                /\ sessions'[h].expires_at = req[p].at
  <2>1. CASE sessions' = sessions
    BY <1>2, <2>1
  <2>2. ASSUME NEW p \in Requests, Inserted(p)
        PROVE  sessions'[h] = sessions[h]
    <3>1. \/ sessions' = sessions
          \/ /\ sessions[Hash(p)] = Null
             /\ sessions' = InsertSession(sessions, Hash(p), req[p].login.telegram_id,
                                          req[p].at)
      BY <2>2, Zenon DEF Inserted
    <3> QED BY <1>1, <1>2, <3>1 DEF InsertSession, SessionTable
  <2>3. ASSUME NEW p \in Requests, Updated(p)
        PROVE  /\ sessions'[h] # Null
               /\ sessions[h].revoked_at # Null => sessions'[h].revoked_at # Null
               /\ \/ sessions'[h].expires_at = sessions[h].expires_at
                  \/ SameToken(p, x) /\ sessions'[h].expires_at = req[p].at
    <3>1. sessions' = UpdateExpiry(sessions, Hash(p), req[p].at) /\ req[p].at \in Int
      BY <2>3 DEF Updated, IInv, TypeOK, RequestRecord
    <3>2. Grows(sessions, sessions')
      BY <1>1, <3>1, UpdateExpiryKeeps
    <3>3. \/ sessions'[h].expires_at = sessions[h].expires_at
          \/ h = Hash(p) /\ sessions'[h].expires_at = req[p].at
      BY <1>1, <1>2, <1>5, <3>1 DEF UpdateExpiry, SessionTable, SessionRow
    <3>4. h = Hash(p) => SameToken(p, x)
      BY HashTokenInjective DEF Hash, SameToken
    <3> QED BY <1>2, <3>2, <3>3, <3>4 DEF Grows
  <2>4. ASSUME NEW p \in Requests, Revoked(p)
        PROVE  /\ sessions'[h] # Null
               /\ sessions[h].revoked_at # Null => sessions'[h].revoked_at # Null
               /\ sessions'[h].expires_at = sessions[h].expires_at
    <3>1. sessions' = RevokeSession(sessions, Hash(p), req[p].at) /\ req[p].at \in Int
      BY <2>4 DEF Revoked, IInv, TypeOK, RequestRecord
    <3>2. /\ Grows(sessions, sessions')
          /\ \A k \in Hashes : sessions'[k] # Null =>
                sessions'[k].expires_at = sessions[k].expires_at
      BY <1>1, <3>1, RevokeSessionKeeps
    <3> QED BY <1>2, <3>2 DEF Grows
  <2> QED BY <1>2, <2>1, <2>2, <2>3, <2>4, SessionsChange
<1>7. sessions'[h] \in SessionRow
  BY <1>1, <1>2, <1>6 DEF SessionTable
<1> QED BY <1>4, <1>5, <1>6, <1>7

(* The last login of a user moves only when upsert_user runs for that user.   *)
LEMMA LastLoginChange ==
    ASSUME IInv, [Next]_vars, NEW u \in TgIds
    PROVE  \/ users'[u] = users[u]
           \/ \E p \in Requests : /\ Upserted(p) /\ req[p].login # Null
                                  /\ req[p].login.telegram_id = u
                                  /\ users'[u].last_login_at = req[p].at
<1>1. users' = users \/ \E p \in Requests : Upserted(p)
  BY KindsOfSteps
     DEF StepOf, Arrived, Refused, Inserted, Read, Updated, Revoked, Looked, Broke,
         Creating,
         Following, Refreshed, Answers, Sends, TablesKept, Crashed, Waited
<1>2. ASSUME NEW p \in Requests, Upserted(p)
      PROVE  \/ users'[u] = users[u]
             \/ /\ req[p].login # Null /\ req[p].login.telegram_id = u
                /\ users'[u].last_login_at = req[p].at
  <2> DEFINE id == req[p].login.telegram_id
             new == UpsertUser(users, id, req[p].login.username, req[p].at)
  <2>1. users' = new /\ req[p].stmt = "upsert_user"
    BY <1>2 DEF Upserted, Ran
  <2>2. StatementInv(p) /\ req[p] \in RequestRecord /\ users \in UserTable
    BY DEF IInv, TypeOK
  <2>3. req[p].login # Null
    BY <2>1, <2>2 DEF StatementInv
  <2>4. id \in TgIds /\ req[p].login.username \in Usernames \union {Null} /\ req[p].at \in Int
    BY <2>2, <2>3 DEF RequestRecord
  <2>5. new[id].last_login_at = req[p].at /\ \A v \in TgIds \ {id} : new[v] = users[v]
    BY <2>2, <2>4, UpsertKeepsUsers
  <2> HIDE DEF new
  <2> QED BY <2>1, <2>3, <2>5
<1> QED BY <1>1, <1>2

(* Of two requests of which one still runs, only the other can have come      *)
(* first.                                                                     *)
LEMMA RunningOverlaps ==
    ASSUME IInv, AnswersInv, NEW p \in Requests, NEW r \in Requests,
           req[p].reply = "awaited", r \notin req[p].before
    PROVE  Overlap(p, r)
<1>1. ~Answered(p) /\ HistoryInv(p, r)
  BY RanUnanswered DEF IInv
<1> QED BY <1>1 DEF Overlap, HistoryInv

(* A refresh that overlaps goes on doing so.                                  *)
LEMMA RefreshOverlappingPersists ==
    ASSUME IInv, AnswersInv, [Next]_vars, NEW x \in Requests, req[x].answer # "none",
           req[x].endpoint \in BearerEndpoints, RefreshOverlapping(x)
    PROVE  RefreshOverlapping(x)'
<1>1. PICK q \in Requests \ {x} : Refreshing(q) /\ SameToken(q, x) /\ Overlap(q, x)
  BY DEF RefreshOverlapping, Refreshing
<1>2. Persists(x) /\ req'[x].token = req[x].token
  BY ArrivedPersists DEF Persists
<1>3. Persists(q) /\ Refreshing(q)' /\ req'[q].token = req[q].token
  BY <1>1, RefreshingPersists
<1>4. Overlap(q, x)'
  BY <1>1, <1>2, <1>3, OverlapPersists
<1>5. SameToken(q, x)'
  BY <1>1, <1>2, <1>3 DEF SameToken
<1> QED BY <1>3, <1>4, <1>5 DEF RefreshOverlapping, Refreshing

----------------------------------------------------------------------------
(* Times.                                                                     *)

(* A time is computed by the clock when its statement is sent, and the clock  *)
(* goes on.                                                                   *)
LEMMA TimeKept ==
    ASSUME IInv, AnswersInv, TimesInv, [Next]_vars, NEW r \in Requests
    PROVE  TimeInv(r)'
<1>1. /\ TimeInv(r) /\ req[r].at \in Int /\ req'[r].at \in Int
      /\ clock \in Int /\ clock' \in Int /\ clock <= clock' /\ SessionTtl \in Int
  BY ClockAdvances, NextKeepsIInv, SessionConstants
     DEF TimesInv, IInv, TypeOK, RequestRecord
<1>2. req'[r].stmt = "upsert_user" => req'[r].at <= clock' /\ req'[r].loginAt = req'[r].at
  <2>1. CASE Arrived(r)
    <3>1. req'[r].stmt = "upsert_user" => req'[r].at = clock /\ req'[r].loginAt = clock
      BY <2>1, NullIsNoString DEF Arrived
    <3> QED BY <1>1, <2>1, <3>1 DEF Arrived
  <2>2. CASE ~Arrived(r)
    <3>1. req'[r] = req[r] \/ req[r].answer # "none"
      BY <2>2, StepOfEach, RanUnanswered
         DEF StepOf, Upserted, Refused, Inserted, Read, Updated, Revoked, Looked, Broke,
             Creating, Following, Refreshed, Answers, Sends, Ran, Lost, Pending
    <3> QED BY <1>1, <3>1, ArrivedPersists DEF Persists, TimeInv
  <2> QED BY <2>1, <2>2
<1>3. ASSUME Refreshing(r)' PROVE req'[r].at <= clock' + SessionTtl
  <2>1. CASE Refreshing(r)
    BY <1>1, <2>1, RefreshingPersists DEF TimeInv
  <2>2. CASE ~Refreshing(r)
    <3>1. Following(r) /\ req'[r].at = ExpiresAt(clock)
      BY <1>3, <2>2, StepOfEach, NullIsNoString
         DEF Refreshing, StepOf, Arrived, Upserted, Refused, Inserted, Read, Updated,
             Revoked,
             Looked, Broke, Creating, Following, Refreshed, Answers, Sends, Ran,
             Continues, Lost, Answering
    <3>2. ExpiresAt(clock) <= clock' + SessionTtl
      BY ClockAdvances, SessionConstants DEF ExpiresAt
    <3> QED BY <3>1, <3>2
  <2> QED BY <2>1, <2>2
<1> QED BY <1>2, <1>3 DEF TimeInv

(* A request that arrives after an answer computes its time later.            *)
LEMMA OrderKept ==
    ASSUME IInv, AnswersInv, TimesInv, [Next]_vars, NEW q \in Requests, NEW r \in Requests
    PROVE  OrderInv(q, r)'
<1> SUFFICES ASSUME q \in req'[r].before
             PROVE  /\ req'[q].stmt = "upsert_user" /\ req'[r].stmt = "upsert_user"
                       => req'[q].at <= req'[r].at
                    /\ Refreshing(q)' /\ Refreshing(r)' => req'[q].at <= req'[r].at
  BY DEF OrderInv
<1>1. /\ TimeInv(q) /\ OrderInv(q, r) /\ req[q].at \in Int
      /\ clock \in Int /\ SessionTtl \in Int
  BY ClockAdvances, SessionConstants DEF TimesInv, IInv, TypeOK, RequestRecord
<1>2. Answered(q) /\ req'[q] = req[q] /\ (q \in req[r].before \/ Arrived(r))
  BY BeforeStays
<1>3. CASE Arrived(r)
  <2>1. req'[r].stmt = "upsert_user" => req'[r].at = clock
    BY <1>3, NullIsNoString DEF Arrived
  <2>2. ~Refreshing(r)'
    BY <1>3, NullIsNoString DEF Arrived, Refreshing
  <2> QED BY <1>1, <1>2, <2>1, <2>2 DEF TimeInv
<1>4. CASE ~Arrived(r)
  <2>1. q \in req[r].before
    BY <1>2, <1>4
  <2>2. req'[r] = req[r] \/ req[r].answer # "none"
    BY <1>4, StepOfEach, RanUnanswered
       DEF StepOf, Upserted, Refused, Inserted, Read, Updated, Revoked, Looked, Broke,
           Creating, Following, Refreshed, Answers, Sends, Ran, Lost, Pending
  <2>3. req'[r].stmt = "upsert_user" => req[r].stmt = "upsert_user" /\ req'[r].at = req[r].at
    BY <2>2, ArrivedPersists DEF Persists
  <2>4. ASSUME Refreshing(q)', Refreshing(r)' PROVE req'[q].at <= req'[r].at
    <3>1. Refreshing(q) /\ req'[q].at = req[q].at
      BY <1>2, <2>4 DEF Refreshing
    <3>2. CASE Refreshing(r)
      BY <1>1, <2>1, <3>1, <3>2, RefreshingPersists DEF OrderInv
    <3>3. CASE ~Refreshing(r)
      <4>1. Following(r) /\ req'[r].at = ExpiresAt(clock)
        BY <2>4, <3>3, StepOfEach, NullIsNoString
           DEF Refreshing, StepOf, Arrived, Upserted, Refused, Inserted, Read, Updated,
               Revoked,
               Looked, Broke, Creating, Following, Refreshed, Answers, Sends, Ran,
               Continues, Lost, Answering
      <4> QED BY <1>1, <3>1, <4>1 DEF TimeInv, ExpiresAt
    <3> QED BY <3>2, <3>3
  <2>5. req'[q].stmt = "upsert_user" => req[q].stmt = "upsert_user" /\ req'[q].at = req[q].at
    BY <1>2
  <2> QED BY <1>1, <2>1, <2>3, <2>4, <2>5 DEF OrderInv
<1> QED BY <1>3, <1>4

(* upsert_user writes the time it took; a login that overwrites it with an    *)
(* older one overlapped, and has committed after it.                          *)
LEMMA LoginKept ==
    ASSUME IInv, AnswersInv, TimesInv, [Next]_vars, NEW r \in Requests
    PROVE  LoginInv(r)'
<1> SUFFICES ASSUME req'[r].stmt = "upsert_user", req'[r].reply = "row"
             PROVE  /\ r \in req'[r].committed
                    /\ \/ users'[req'[r].login.telegram_id].last_login_at >= req'[r].at
                       \/ \E q \in Requests \ {r} : OverwritesLogin(q, r)'
  BY DEF LoginInv
<1> DEFINE u == req[r].login.telegram_id
<1>1. /\ LoginInv(r) /\ StatementInv(r) /\ req[r] \in RequestRecord
      /\ users \in UserTable
  BY DEF TimesInv, IInv, TypeOK
<1>2. /\ ~Arrived(r) /\ req[r].answer # "none" /\ req[r].stmt = "upsert_user"
      /\ Upserted(r) \/ req[r].reply = "row"
  <2>1. ~Arrived(r)
    BY DEF Arrived
  <2>2. /\ req[r].stmt = "upsert_user"
        /\ Upserted(r) \/ req[r].reply = "row"
    BY <2>1, StepOfEach
       DEF StepOf, Upserted, Refused, Inserted, Read, Updated, Revoked, Looked, Broke,
           Creating, Following, Refreshed, Answers, Sends, Ran, Lost, Answering
  <2> QED BY <2>1, <2>2, SentHasArrived DEF Statements
<1>3. Persists(r) /\ req'[r].login = req[r].login /\ req'[r].at = req[r].at
      /\ req[r].login # Null /\ u \in TgIds /\ req[r].at \in Int
  BY <1>1, <1>2, ArrivedPersists DEF Persists, StatementInv, RequestRecord
<1>4. CASE Upserted(r)
  <2> DEFINE new == UpsertUser(users, u, req[r].login.username, req[r].at)
  <2>1. req[r].login.username \in Usernames \union {Null}
    BY <1>1, <1>3 DEF RequestRecord
  <2>2. new[u].last_login_at = req[r].at
    BY <1>1, <1>3, <2>1, UpsertKeepsUsers
  <2>3. users' = new /\ r \in req'[r].committed
    BY <1>4 DEF Upserted
  <2> HIDE DEF new
  <2> QED BY <1>3, <2>2, <2>3
<1>5. CASE req[r].reply = "row"
  <2>1. r \in req[r].committed /\ r \in CommittedLogins
    BY <1>1, <1>2, <1>5 DEF LoginInv, CommittedLogins
  <2>2. r \in req'[r].committed
    BY <1>3, <1>5, <2>1 DEF Persists, Upserted, Ran
  <2>3. ASSUME NEW q \in Requests \ {r}, OverwritesLogin(q, r)
        PROVE  OverwritesLogin(q, r)'
    <3>1. Persists(q)
      BY <2>3, SentHasArrived, ArrivedPersists DEF OverwritesLogin
    <3>2. Overlap(q, r)'
      BY <1>3, <2>3, <3>1, OverlapPersists DEF OverwritesLogin
    <3>3. r \in req'[q].committed
      BY <2>1, <2>3, <3>1 DEF Persists, OverwritesLogin, Upserted
    <3> QED BY <1>3, <2>3, <3>1, <3>2, <3>3 DEF Persists, OverwritesLogin
  <2>4. ASSUME NEW p \in Requests, Upserted(p), req[p].login # Null,
               req[p].login.telegram_id = u, users'[u].last_login_at = req[p].at,
               ~(users'[u].last_login_at >= req[r].at)
        PROVE  p # r /\ OverwritesLogin(p, r)'
    <3>1. /\ req[p].at \in Int /\ OrderInv(r, p) /\ TimeInv(p) /\ TimeInv(r)
          /\ req[p].stmt = "upsert_user" /\ req[p].reply = "awaited"
          /\ r \in req'[p].committed
      BY <2>1, <2>4 DEF TimesInv, IInv, TypeOK, RequestRecord, Upserted, Ran
    <3>2. req[p].at < req[r].at
      BY <1>3, <2>4, <3>1
    <3>3. r \notin req[p].before
      BY <1>2, <1>3, <3>1, <3>2 DEF OrderInv
    <3>4. p # r /\ Persists(p)
      BY <1>5, <2>4, <3>1, SentHasArrived, ArrivedPersists
    <3>5. Overlap(p, r)'
      BY <1>3, <3>1, <3>3, <3>4, RunningOverlaps, OverlapPersists
    <3>6. req'[p].loginAt < req'[r].loginAt
      BY <1>2, <1>3, <3>1, <3>2, <3>4 DEF Persists, TimeInv
    <3> QED BY <1>3, <2>4, <3>1, <3>4, <3>5, <3>6 DEF Persists, OverwritesLogin
  <2>5. \/ users[u].last_login_at >= req[r].at
        \/ \E q \in Requests \ {r} : OverwritesLogin(q, r)
    BY <1>1, <1>2, <1>5 DEF LoginInv
  <2>6. \/ users'[u] = users[u]
        \/ \E p \in Requests : /\ Upserted(p) /\ req[p].login # Null
                               /\ req[p].login.telegram_id = u
                               /\ users'[u].last_login_at = req[p].at
    BY <1>3, LastLoginChange
  <2> QED BY <1>3, <2>2, <2>3, <2>4, <2>5, <2>6
<1> QED BY <1>2, <1>4, <1>5

(* What an expired or revoked session was judged by stays inactive.           *)
LEMMA EnsureActiveOnce ==
    ASSUME NEW row \in SessionRow, NEW m \in Int, NEW n \in Int, m <= n,
           ~EnsureActive(row, m)
    PROVE  ~EnsureActive(row, n)
BY DEF EnsureActive, SessionRow

(* A refresh writes the time it computed to the row it read.                  *)
LEMMA RefreshWrites ==
    ASSUME IInv, AnswersInv, [Next]_vars, NEW p \in Requests, Updated(p)
    PROVE  /\ Refreshing(p) /\ req[p].reply = "awaited" /\ req[p].at \in Int
           /\ RowOf(p)'.expires_at = req[p].at
<1>1. /\ req[p].stmt = "update_expiry" /\ req[p].reply = "awaited"
      /\ req'[p].token = req[p].token
      /\ sessions' = UpdateExpiry(sessions, Hash(p), req[p].at)
  BY DEF Updated, Ran
<1>2. /\ StatementInv(p) /\ TableInv(p) /\ ReplyInv(p) /\ req[p].at \in Int
      /\ sessions \in SessionTable
  BY DEF IInv, AnswersInv, TypeOK, RequestRecord
<1>3. Refreshing(p)
  BY <1>1, <1>2 DEF ReplyInv, Refreshing
<1>4. req[p].token \in Tokens /\ sessions[Hash(p)] # Null
  BY <1>1, <1>2 DEF StatementInv, TableInv, AfterCheck
<1>5. Hash(p) \in Hashes /\ GetByTokenHash(sessions, Hash(p)) = sessions[Hash(p)]
  BY <1>2, <1>4, RowOfToken DEF Hash
<1>6. sessions[Hash(p)] \in SessionRow
  BY <1>2, <1>4, <1>5 DEF SessionTable
<1>7. sessions'[Hash(p)].expires_at = req[p].at
  BY <1>1, <1>2, <1>4, <1>5, <1>6 DEF UpdateExpiry, SessionTable, SessionRow
<1>8. RowOf(p)' = sessions'[Hash(p)]
  <2>1. sessions' \in SessionTable
    BY NextKeepsIInv DEF IInv, TypeOK
  <2> QED BY <1>1, <1>4, <2>1, RowOfToken DEF RowOf, Hash
<1> QED BY <1>1, <1>2, <1>3, <1>7, <1>8

(* A refresh that has run stands, or one with an older time overlapped and    *)
(* wrote its row after it.                                                    *)
LEMMA RefreshKept ==
    ASSUME IInv, AnswersInv, TimesInv, [Next]_vars, NEW r \in Requests
    PROVE  RefreshInv(r)'
<1> DEFINE Older(q) == /\ Refreshing(q) /\ SameToken(q, r) /\ Overlap(q, r)
                       /\ req[q].at < req[r].at
<1> SUFFICES ASSUME Refreshing(r)',
                    req'[r].stmt = "update_expiry" => req'[r].reply = "row"
             PROVE  \/ RowOf(r)'.expires_at >= req'[r].at
                    \/ \E q \in Requests : Older(q)' /\ RowOf(r)'.expires_at = req'[q].at
  BY DEF RefreshInv
<1>1. /\ RefreshInv(r) /\ StatementInv(r) /\ req[r].at \in Int
  BY DEF TimesInv, IInv, TypeOK, RequestRecord
<1>2. Refreshing(r) /\ (Updated(r) \/ (req[r].stmt = "update_expiry" => req[r].reply = "row"))
  BY StepOfEach, NullIsNoString
     DEF Refreshing, StepOf, Arrived, Upserted, Refused, Inserted, Read, Updated,
         Revoked,
         Looked, Broke, Creating, Following, Refreshed, Answers, Sends, Ran,
         Continues, Lost, Answering
<1>3. /\ Persists(r) /\ req'[r].at = req[r].at /\ req'[r].token = req[r].token
      /\ req[r].record # Null
  BY <1>1, <1>2, RefreshingPersists DEF StatementInv, Refreshing, AfterCheck
<1>4. ASSUME NEW q \in Requests, Older(q) PROVE Older(q)' /\ req'[q].at = req[q].at
  <2>1. /\ Persists(q) /\ Refreshing(q)' /\ req'[q].at = req[q].at
        /\ req'[q].token = req[q].token
    BY <1>4, RefreshingPersists
  <2>2. Overlap(q, r)'
    BY <1>3, <1>4, <2>1, OverlapPersists
  <2>3. SameToken(q, r)'
    BY <1>3, <1>4, <2>1 DEF SameToken
  <2> QED BY <1>3, <1>4, <2>1, <2>2, <2>3
<1>5. CASE Updated(r)
  BY <1>1, <1>3, <1>5, RefreshWrites
<1>6. CASE req[r].stmt = "update_expiry" => req[r].reply = "row"
  <2>1. \/ RowOf(r).expires_at >= req[r].at
        \/ \E q \in Requests : Older(q) /\ RowOf(r).expires_at = req[q].at
    BY <1>1, <1>2, <1>6 DEF RefreshInv
  <2>2. ASSUME NEW p \in Requests, Updated(p), SameToken(p, r), req[p].at < req[r].at
        PROVE  Older(p)
    <3>1. Refreshing(p) /\ req[p].reply = "awaited" /\ req[p].at \in Int /\ OrderInv(r, p)
      BY <2>2, RefreshWrites DEF TimesInv
    <3>2. r \notin req[p].before
      BY <1>1, <1>2, <2>2, <3>1 DEF OrderInv
    <3> QED BY <2>2, <3>1, <3>2, RunningOverlaps
  <2>3. ASSUME NEW p \in Requests, Updated(p), SameToken(p, r),
               RowOf(r)'.expires_at = req[p].at
        PROVE  RowOf(r)'.expires_at >= req'[r].at \/ req[p].at < req[r].at
    <3>1. req[p].at \in Int
      BY <2>3, RefreshWrites
    <3> QED BY <1>1, <1>3, <2>3, <3>1
  <2>4. CASE RowOf(r)'.expires_at = RowOf(r).expires_at
    BY <1>3, <1>4, <2>1, <2>4
  <2>5. ASSUME NEW p \in Requests, Updated(p), SameToken(p, r),
               RowOf(r)'.expires_at = req[p].at, req[p].at < req[r].at
        PROVE  Older(p)' /\ RowOf(r)'.expires_at = req'[p].at
    BY <1>4, <2>2, <2>5
  <2> HIDE DEF Older
  <2> QED BY <1>3, <2>3, <2>4, <2>5, RowChange
<1> QED BY <1>2, <1>5, <1>6

(* An expired session was judged by what it then held, which stays past.      *)
LEMMA VerdictKept ==
    ASSUME IInv, AnswersInv, TimesInv, [Next]_vars, NEW x \in Requests
    PROVE  VerdictInv(x)'
<1> SUFFICES ASSUME req'[x].answer = "SESSION_EXPIRED"
             PROVE  /\ req'[x].stmt = "get_by_token_hash" /\ req'[x].reply = "row"
                    /\ ~EnsureActive(req'[x].record, clock')
  BY DEF VerdictInv
<1>1. /\ VerdictInv(x) /\ StatementInv(x)
      /\ req[x].record \in SessionRow \union {Null}
      /\ clock \in Int /\ clock' \in Int /\ clock <= clock'
  BY ClockAdvances DEF TimesInv, IInv, TypeOK, RequestRecord
<1>2. /\ req'[x].stmt = req[x].stmt /\ req'[x].reply = req[x].reply
      /\ req'[x].record = req[x].record
      /\ req[x].stmt = "get_by_token_hash" /\ req[x].reply = "row"
      /\ ~EnsureActive(req[x].record, clock)
  <2>1. CASE req[x].answer = "SESSION_EXPIRED"
    <3>1. req'[x] = req[x]
      BY <2>1, AnsweredStays DEF Answered, ErrorCodes
    <3> QED BY <1>1, <2>1, <3>1 DEF VerdictInv
  <2>2. CASE req[x].answer # "SESSION_EXPIRED"
    <3>1. Answers(x)
      BY <2>2, StepOfEach
         DEF StepOf, Arrived, Upserted, Refused, Inserted, Read, Updated, Revoked,
             Looked, Broke,
             Creating, Following, Refreshed, Sends, Ran, Lost, Answering
    <3> QED BY <3>1 DEF Answers
  <2> QED BY <2>1, <2>2
<1>3. req[x].record \in SessionRow
  BY <1>1, <1>2 DEF StatementInv
<1> QED BY <1>1, <1>2, <1>3, EnsureActiveOnce


----------------------------------------------------------------------------
(* Verdicts.                                                                  *)

(* While no refresh overlapped, the row is as inactive as the record that     *)
(* SESSION_EXPIRED was said of.                                               *)
LEMMA ExpiredRow ==
    ASSUME TimesInv, NEW x \in Requests, req[x].answer = "SESSION_EXPIRED"
    PROVE  ~EnsureActive(RowOf(x), clock) \/ RefreshOverlapping(x)
<1>1. VerdictInv(x) /\ RecordInv(x)
  BY DEF TimesInv
<1> QED BY <1>1 DEF VerdictInv, RecordInv, EnsureActive

(* A request answered on a row it read was told SESSION_EXPIRED.              *)
LEMMA ReadAnswer ==
    ASSUME IInv, AnswersInv, NEW x \in Requests, Answered(x),
           req[x].stmt = "get_by_token_hash", req[x].reply = "row"
    PROVE  req[x].answer = "SESSION_EXPIRED"
<1>1. StatementInv(x) /\ AnswerInv(x) /\ ReplyInv(x)
  BY DEF IInv, AnswersInv
<1>2. req[x].endpoint \in BearerEndpoints /\ req[x].token # Null
  BY <1>1, SessionConstants DEF StatementInv, BearerStatements
<1>3. req[x].answer # "OK"
  BY <1>1, <1>2 DEF AnswerInv, AfterCheck
<1>4. req[x].answer \notin {"VALIDATION_ERROR", "OAUTH_CODE_INVALID", "SESSION_MISSING"}
  BY <1>1, <1>2 DEF AnswerInv
<1>5. req[x].answer # "INTERNAL_ERROR"
  BY <1>1 DEF ReplyInv
<1> QED BY <1>3, <1>4, <1>5 DEF Answered, ErrorCodes

(* A refresh that writes the row another request has read overlapped with it, *)
(* or else it would have found the session expired as well.                   *)
LEMMA RefreshAfterRead ==
    ASSUME IInv, AnswersInv, TimesInv, [Next]_vars, NEW x \in Requests, NEW p \in Requests,
           req[x].stmt = "get_by_token_hash", req[x].reply = "row",
           Updated(p), SameToken(p, x)
    PROVE  RefreshOverlapping(x)
<1>1. Refreshing(p) /\ req[p].reply = "awaited" /\ req[p].stmt = "update_expiry"
  BY RefreshWrites DEF Updated, Ran
<1>2. CASE x \in req[p].before
  <2>1. Answered(x)
    BY <1>2 DEF IInv, HistoryInv
  <2>2. req[x].answer = "SESSION_EXPIRED"
    BY <2>1, ReadAnswer
  <2>3. req[p].record # Null
    BY <1>1 DEF IInv, StatementInv, AfterCheck
  <2>4. SameToken(x, p)
    BY DEF SameToken
  <2>5. ExpiredInv(x, p)
    BY DEF TimesInv
  <2> QED BY <1>1, <1>2, <2>2, <2>3, <2>4, <2>5 DEF ExpiredInv, Refreshing,
                                                    BearerEndpoints
<1>3. CASE x \notin req[p].before
  <2>1. Overlap(p, x)
    BY <1>1, <1>3, RunningOverlaps
  <2>2. p # x
    BY <1>1
  <2> QED BY <1>1, <2>1, <2>2 DEF RefreshOverlapping, Refreshing
<1> QED BY <1>2, <1>3

(* What a request read is what the table holds, but for such a refresh.       *)
LEMMA RecordKept ==
    ASSUME IInv, AnswersInv, TimesInv, [Next]_vars, NEW x \in Requests
    PROVE  RecordInv(x)'
<1> SUFFICES ASSUME req'[x].stmt = "get_by_token_hash", req'[x].reply = "row"
             PROVE  /\ req'[x].record.revoked_at # Null => RowOf(x)'.revoked_at # Null
                    /\ \/ RowOf(x)'.expires_at = req'[x].record.expires_at
                       \/ RefreshOverlapping(x)'
  BY DEF RecordInv
<1>1. CASE Read(x)
  <2>1. req'[x].record = RowOf(x)
    BY <1>1 DEF Read
  <2>2. RowOf(x)' = RowOf(x)
    BY <1>1 DEF Read, Ran, TablesKept, RowOf, Hash
  <2> QED BY <2>1, <2>2
<1>2. CASE ~Read(x)
  <2>1. /\ req[x].stmt = "get_by_token_hash" /\ req[x].reply = "row"
        /\ req'[x].record = req[x].record
    BY <1>2, StepOfEach
       DEF StepOf, Arrived, Upserted, Refused, Inserted, Updated, Revoked, Looked,
           Broke,
           Creating, Following, Refreshed, Answers, Sends, Ran, Lost, Answering
  <2>2. /\ req[x].record # Null /\ req[x].endpoint \in BearerEndpoints
        /\ req[x].answer # "none" /\ RecordInv(x)
    BY <2>1, SentHasArrived
       DEF TimesInv, IInv, StatementInv, BearerStatements, Statements
  <2>3. req'[x].record.revoked_at # Null => RowOf(x)'.revoked_at # Null
    BY <2>1, <2>2, RowChange DEF RecordInv
  <2>4. RefreshOverlapping(x) => RefreshOverlapping(x)'
    BY <2>2, RefreshOverlappingPersists
  <2>5. ASSUME NEW p \in Requests, Updated(p), SameToken(p, x)
        PROVE  RefreshOverlapping(x)
    BY <2>1, <2>5, RefreshAfterRead
  <2>6. RowOf(x)'.expires_at = RowOf(x).expires_at \/ RefreshOverlapping(x)
    BY <2>2, <2>5, RowChange
  <2> QED BY <2>1, <2>2, <2>3, <2>4, <2>6 DEF RecordInv
<1> QED BY <1>1, <1>2

(* Who comes after SESSION_EXPIRED reads a row that is inactive too.          *)
LEMMA ExpiredKept ==
    ASSUME IInv, AnswersInv, TimesInv, [Next]_vars, NEW x \in Requests, NEW q \in Requests
    PROVE  ExpiredInv(x, q)'
<1> SUFFICES ASSUME x \in req'[q].before, req'[x].answer = "SESSION_EXPIRED",
                    req'[q].endpoint \in BearerEndpoints, SameToken(x, q)',
                    req'[q].record # Null
             PROVE  \/ RefreshOverlapping(x)'
                    \/ /\ req'[q].stmt = "get_by_token_hash"
                       /\ ~EnsureActive(req'[q].record, clock')
  BY DEF ExpiredInv
<1>1. /\ req'[x] = req[x] /\ Answered(x) /\ req[x].answer = "SESSION_EXPIRED"
      /\ x \in req[q].before \/ Arrived(q)
  BY BeforeStays
<1>2. ~Arrived(q) /\ x \in req[q].before
  BY <1>1 DEF Arrived
<1>3. req[q].answer # "none"
  <2>1. ReplyInv(q)
    BY DEF AnswersInv
  <2>2. x \notin NotArrived.before
    BY DEF NotArrived
  <2> QED BY <1>2, <2>1, <2>2 DEF ReplyInv
<1>4. /\ req[q].endpoint \in BearerEndpoints /\ SameToken(x, q)
      /\ req[x].endpoint \in BearerEndpoints
  <2>1. Persists(q) /\ ReplyInv(x)
    BY <1>3, ArrivedPersists DEF AnswersInv
  <2> QED BY <1>1, <2>1 DEF Persists, SameToken, ReplyInv
<1>5. RefreshOverlapping(x) => RefreshOverlapping(x)'
  BY <1>1, <1>4, RefreshOverlappingPersists
<1>6. CASE Read(q)
  <2>1. req'[q].record = RowOf(q) /\ req'[q].stmt = "get_by_token_hash" /\ clock' = clock
    BY <1>6 DEF Read, Ran, Continues
  <2>2. RowOf(q) = RowOf(x)
    BY <1>4 DEF RowOf, Hash, SameToken
  <2> QED BY <1>1, <1>5, <2>1, <2>2, ExpiredRow
<1>7. CASE ~Read(q)
  <2>1. req'[q].record = req[q].record
    BY <1>2, <1>7, StepOfEach
       DEF StepOf, Upserted, Refused, Inserted, Updated, Revoked, Looked, Broke,
           Creating,
           Following, Refreshed, Answers, Sends, Ran, Lost, Answering
  <2>2. CASE RefreshOverlapping(x)
    BY <1>5, <2>2
  <2>3. CASE req[q].stmt = "get_by_token_hash" /\ ~EnsureActive(req[q].record, clock)
    <3>1. req'[q].stmt = "get_by_token_hash"
      BY <1>2, <1>7, <2>3, StepOfEach
         DEF StepOf, Upserted, Refused, Inserted, Updated, Revoked, Looked, Broke,
             Creating,
             Following, Refreshed, Answers, Sends, Ran, Lost, Answering
    <3>2. req[q].record \in SessionRow
      BY <2>1 DEF IInv, TypeOK, RequestRecord
    <3>3. ~EnsureActive(req[q].record, clock')
      BY <2>3, <3>2, ClockAdvances, EnsureActiveOnce
    <3> QED BY <2>1, <3>1, <3>3
  <2>4. ExpiredInv(x, q)
    BY DEF TimesInv
  <2> QED BY <1>1, <1>2, <1>4, <2>1, <2>2, <2>3, <2>4 DEF ExpiredInv
<1> QED BY <1>6, <1>7

----------------------------------------------------------------------------
(* The invariant and what follows from it.                                    *)

LEMMA InitTimes == Init => TimesInv
<1> SUFFICES ASSUME Init PROVE TimesInv
  OBVIOUS
<1>1. \A r \in Requests : /\ req[r].stmt = Null /\ req[r].answer = "none"
                          /\ req[r].before = {}
  BY DEF Init, NotArrived
<1>2. \A r \in Requests : TimeInv(r) /\ LoginInv(r) /\ RefreshInv(r) /\ VerdictInv(r)
                          /\ RecordInv(r)
  BY <1>1, NullIsNoString
     DEF TimeInv, Refreshing, LoginInv, RefreshInv, VerdictInv, RecordInv
<1>3. \A q, r \in Requests : OrderInv(q, r) /\ ExpiredInv(q, r)
  BY <1>1 DEF OrderInv, ExpiredInv
<1> QED BY <1>2, <1>3 DEF TimesInv

LEMMA NextKeepsTimes ==
    ASSUME IInv, AnswersInv, TimesInv, [Next]_vars PROVE TimesInv'
BY TimeKept, LoginKept, RefreshKept, VerdictKept, RecordKept, OrderKept, ExpiredKept
   DEF TimesInv

(* What the times of overlapping requests tell of the rows they write is      *)
(* invariant.                                                                 *)
THEOREM TimesInvariance == Spec => []TimesInv
<1>1. IInv /\ AnswersInv /\ TimesInv /\ [Next]_vars => TimesInv'
  BY NextKeepsTimes
<1> QED BY <1>1, InitTimes, Invariance, AnswersInvariance, PTL DEF Spec

(* A refresh answered 200 holds until the time it told, unless an overlapping *)
(* refresh of the session computed an older time, which the row now holds.    *)
THEOREM RefreshHolds == Spec => []RefreshHoldsUnlessOverlapped
<1>1. AnswersInv /\ TimesInv => RefreshHoldsUnlessOverlapped
  <2> SUFFICES ASSUME AnswersInv, TimesInv, NEW r \in Requests,
                      AnsweredOK(r, "POST /session/refresh")
               PROVE  \/ RowOf(r).expires_at >= req[r].at
                      \/ \E q \in Requests : /\ req[q].endpoint = "POST /session/refresh"
                                             /\ req[q].stmt \in {"update_expiry", "get_by_id"}
                                             /\ SameToken(q, r) /\ Overlap(q, r)
                                             /\ req[q].at < req[r].at
                                             /\ RowOf(r).expires_at = req[q].at
    BY DEF RefreshHoldsUnlessOverlapped
  <2>1. ReplyInv(r) /\ RefreshInv(r)
    BY DEF AnswersInv, TimesInv
  <2>2. Refreshing(r) /\ req[r].stmt = "get_by_id"
    BY <2>1 DEF ReplyInv, AnsweredOK, Refreshing
  <2> QED BY <2>1, <2>2 DEF RefreshInv, Refreshing
<1> QED BY <1>1, AnswersInvariance, TimesInvariance, PTL

(* A session answered SESSION_EXPIRED stays inactive, unless a refresh of it  *)
(* overlapped that request.                                                   *)
THEOREM ExpiryHolds == Spec => []ExpiryHoldsUnlessOverlapped
<1>1. TimesInv => ExpiryHoldsUnlessOverlapped
  BY ExpiredRow DEF ExpiryHoldsUnlessOverlapped
<1> QED BY <1>1, TimesInvariance, PTL

(* last_login_at is no older than any login answered 200, unless an           *)
(* overlapping login of the user took its time before it and committed that   *)
(* after it.                                                                  *)
THEOREM LoginRecorded == Spec => []LoginRecordedUnlessOverlapped
<1>1. AnswersInv /\ TimesInv => LoginRecordedUnlessOverlapped
  <2> SUFFICES ASSUME AnswersInv, TimesInv, NEW r \in Requests, AnsweredOK(r, "POST /token")
               PROVE  \/ users[req[r].login.telegram_id].last_login_at >= req[r].at
                      \/ \E q \in Requests \ {r} : OverwritesLogin(q, r)
    BY DEF LoginRecordedUnlessOverlapped
  <2>1. ReplyInv(r) /\ LoginInv(r)
    BY DEF AnswersInv, TimesInv
  <2> QED BY <2>1 DEF ReplyInv, LoginInv
<1> QED BY <1>1, AnswersInvariance, TimesInvariance, PTL
=============================================================================
