------------------------------ MODULE SpacesProofs -----------------------------
(* Spaces adds jobs to the sessions and takes nothing away, and its tables    *)
(* are what SpaceRegistry promises: proofs for every instance.                *)
EXTENDS SpacesProps, SessionsProofs

(* Every step is a step of Sessions or leaves its variables alone.            *)
LEMMA StepOfSessions ==
    ASSUME [SpacesNext]_<<vars, spaceVars>>
    PROVE  [Next]_vars
<1>1. CASE SessionStep
  BY <1>1 DEF SessionStep, Next
<1>2. CASE ProcessDies
  BY <1>2 DEF ProcessDies, Next
<1>3. ASSUME NEW j \in Jobs, JobArrive(j)
      PROVE  UNCHANGED vars
  BY <1>3, Zenon DEF JobArrive, RejectInput, RejectJobHeader, JobNoConnection, StartJob, Only
<1>4. ASSUME NEW j \in Jobs, JobExecute(j)
      PROVE  UNCHANGED vars
  BY <1>4, Zenon DEF JobExecute, JobSelect, JobGetUser, JobSearch, JobBegin, JobInsertSpace,
         JobInsertRefused, JobInsertMember, JobCommit, JobRollback, Only
<1>5. ASSUME NEW j \in Jobs, JobBreak(j)
      PROVE  UNCHANGED vars
  BY <1>5, Zenon DEF JobBreak, Only
<1>6. ASSUME NEW j \in Jobs, JobResume(j)
      PROVE  UNCHANGED vars
  BY <1>6, Zenon DEF JobResume, JobFailed, JobRejected, JobUnknown, JobInactive,
         JobGetSession, JobBlankName, JobStartSpace, JobStartSearch, JobProceed,
         JobServed, JobAnswer, JobSend, Only
<1>7. CASE SpacesIdle
  BY <1>7 DEF SpacesIdle, Next
<1>8. CASE UNCHANGED <<vars, spaceVars>>
  BY <1>8
<1> QED BY <1>1, <1>2, <1>3, <1>4, <1>5, <1>6, <1>7, <1>8, Zenon DEF SpacesNext

(* Seen from the session endpoints, the jobs are not there: whatever is       *)
(* proved of Sessions holds of the composition.                               *)
THEOREM Composition == SpacesSpec => Spec
<1>1. SpacesInit => Init
  BY DEF SpacesInit
<1> QED BY <1>1, StepOfSessions, PTL DEF SpacesSpec, Spec

----------------------------------------------------------------------------
(* What the jobs rely on.                                                     *)

\* what no step of Sessions takes back
Monotone ==
    /\ Grows(sessions, sessions')
    /\ clock \in Int /\ clock' \in Int /\ clock <= clock'
    /\ \A q \in Requests : Answered(q) => /\ req'[q].answer = req[q].answer
                                          /\ req'[q].endpoint = req[q].endpoint
                                          /\ req'[q].token = req[q].token

\* what a request keeps of x when PostgreSQL has executed its statement
Kept(x, y) == y.answer = x.answer /\ y.endpoint = x.endpoint /\ y.token = x.token

(* A statement changes neither the answer of a request nor what it asked.     *)
LEMMA ExecuteKeepsAnswers ==
    ASSUME TypeOK, NEW r \in Requests, Execute(r) \/ Break(r)
    PROVE  \A q \in Requests : Kept(req[q], req'[q])
<1>1. req \in [Requests -> RequestRecord] /\ req[r] \in RequestRecord
  BY DEF TypeOK
<1>2. ASSUME NEW x, Kept(req[r], x), req' = [req EXCEPT ![r] = x]
      PROVE  \A q \in Requests : Kept(req[q], req'[q])
  BY <1>1, <1>2 DEF Kept
<1>3. ASSUME NEW a, req' = [req EXCEPT ![r].reply = a]
      PROVE  \A q \in Requests : Kept(req[q], req'[q])
  <2> DEFINE x == [req[r] EXCEPT !.reply = a]
  <2>1. req' = [req EXCEPT ![r] = x]
    BY <1>3
  <2>2. Kept(req[r], x)
    BY <1>1 DEF Kept, RequestRecord
  <2> HIDE DEF x
  <2> QED BY <1>2, <2>1, <2>2
<1>4. ASSUME NEW a, NEW b, NEW c,
             req' = [req EXCEPT ![r] = [req[r] EXCEPT !.reply = a, !.created = b,
                                                      !.committed = c]]
      PROVE  \A q \in Requests : Kept(req[q], req'[q])
  <2> DEFINE x == [req[r] EXCEPT !.reply = a, !.created = b, !.committed = c]
  <2>1. req' = [req EXCEPT ![r] = x]
    BY <1>4
  <2>2. Kept(req[r], x)
    BY <1>1 DEF Kept, RequestRecord
  <2> HIDE DEF x
  <2> QED BY <1>2, <2>1, <2>2
<1>5. ASSUME NEW a, NEW b, NEW c,
             req' = [req EXCEPT ![r] = [req[r] EXCEPT !.reply = a, !.record = b,
                                                      !.active = c]]
      PROVE  \A q \in Requests : Kept(req[q], req'[q])
  <2> DEFINE x == [req[r] EXCEPT !.reply = a, !.record = b, !.active = c]
  <2>1. req' = [req EXCEPT ![r] = x]
    BY <1>5
  <2>2. Kept(req[r], x)
    BY <1>1 DEF Kept, RequestRecord
  <2> HIDE DEF x
  <2> QED BY <1>2, <2>1, <2>2
<1>6. ASSUME NEW lost, ExecUpsert(r, lost)
      PROVE  \A q \in Requests : Kept(req[q], req'[q])
  BY <1>4, <1>6, Zenon DEF ExecUpsert
<1>7. ASSUME NEW lost,
             RefuseUpsert(r, lost) \/ ExecInsert(r, lost) \/ ExecUpdate(r, lost)
                 \/ ExecRevoke(r, lost) \/ ExecGetUser(r, lost)
      PROVE  \A q \in Requests : Kept(req[q], req'[q])
  <2>1. CASE ExecInsert(r, lost)
    BY <1>3, <2>1, Zenon DEF ExecInsert
  <2>2. CASE ExecUpdate(r, lost)
    BY <1>3, <2>2, Zenon DEF ExecUpdate
  <2>3. CASE ExecRevoke(r, lost)
    BY <1>3, <2>3, Zenon DEF ExecRevoke
  <2>4. CASE ExecGetUser(r, lost)
    BY <1>3, <2>4, Zenon DEF ExecGetUser
  <2>5. CASE RefuseUpsert(r, lost)
    BY <1>3, <2>5, Zenon DEF RefuseUpsert
  <2> QED BY <1>7, <2>1, <2>2, <2>3, <2>4, <2>5
<1>8. ASSUME NEW lost, ExecSelect(r, lost)
      PROVE  \A q \in Requests : Kept(req[q], req'[q])
  BY <1>5, <1>8, Zenon DEF ExecSelect
<1>9. CASE Break(r)
  BY <1>3, <1>9, Zenon DEF Break
<1> QED BY <1>6, <1>7, <1>8, <1>9, Zenon DEF Execute

(* The table of sessions grows.                                               *)
LEMMA ExecuteGrows ==
    ASSUME IInv, NEW r \in Requests, Execute(r) \/ Break(r)
    PROVE  Grows(sessions, sessions') /\ clock' = clock
<1>1. /\ clock \in Int /\ sessions \in SessionTable
      /\ req[r] \in RequestRecord /\ req[r].at \in Int /\ StatementInv(r)
  <2>1. TypeOK /\ StatementInv(r)
    BY DEF IInv
  <2>2. clock \in Int /\ sessions \in SessionTable /\ req[r] \in RequestRecord
    BY <2>1 DEF TypeOK
  <2>3. req[r].at \in Int
    BY <2>2 DEF RequestRecord
  <2> QED BY <2>1, <2>2, <2>3
<1>2. ASSUME sessions' = sessions
      PROVE  Grows(sessions, sessions')
  BY <1>2 DEF Grows
<1>3. ASSUME NEW lost, ExecInsert(r, lost)
      PROVE  Grows(sessions, sessions')
  <2>1. CASE sessions' = InsertSession(sessions, Hash(r), req[r].login.telegram_id, req[r].at)
             /\ sessions[Hash(r)] = Null
    <3>1. req[r].stmt = "create_session"
      BY <1>3 DEF ExecInsert, Executes
    <3>2. Hash(r) \in Hashes /\ req[r].login.telegram_id \in TgIds
      BY <1>1, <3>1, HashTokenInjective DEF StatementInv, Hash, RequestRecord
    <3> QED BY <1>1, <2>1, <3>2, InsertSessionKeeps
  <2> QED BY <1>2, <1>3, <2>1, Zenon DEF ExecInsert
<1>4. ASSUME NEW lost, ExecUpdate(r, lost)
      PROVE  Grows(sessions, sessions')
  BY <1>1, <1>4, UpdateExpiryKeeps DEF ExecUpdate
<1>5. ASSUME NEW lost, ExecRevoke(r, lost)
      PROVE  Grows(sessions, sessions')
  BY <1>1, <1>5, RevokeSessionKeeps DEF ExecRevoke
<1>6. ASSUME NEW lost,
             \/ ExecUpsert(r, lost) \/ RefuseUpsert(r, lost)
             \/ ExecSelect(r, lost) \/ ExecGetUser(r, lost)
      PROVE  sessions' = sessions
  BY <1>6, Zenon DEF ExecUpsert, RefuseUpsert, ExecSelect, ExecGetUser
<1>7. clock' = clock
  BY Zenon DEF Execute, ExecUpsert, RefuseUpsert, ExecInsert, ExecSelect, ExecUpdate, ExecRevoke,
         ExecGetUser, Break
<1>8. Break(r) => sessions' = sessions
  BY Zenon DEF Break
<1> QED BY <1>2, <1>3, <1>4, <1>5, <1>6, <1>7, <1>8, Zenon DEF Execute

(* Only a pending request resumes.                                            *)
LEMMA ResumeIsOfPending ==
    ASSUME NEW r \in Requests, Resume(r)
    PROVE  Pending(r)
BY Zenon DEF Resume, ResumeFailed, ResumeVerify, ResumeCreate, ResumeInsert, ResumeUnknown,
       ResumeInactive, GetSession, RefreshSession, RevokeThisSession, ResumeActive,
       ResumeUpdate, ResumeRevoke, ResumeGetUser, Resumes

(* A request that arrives or resumes leaves the tables and the others alone.  *)
LEMMA ArriveOrResumeAlone ==
    ASSUME TypeOK, NEW r \in Requests, Arrive(r) \/ Resume(r)
    PROVE  /\ sessions' = sessions /\ clock' = clock
           /\ \A q \in Requests \ {r} : req'[q] = req[q]
<1>1. /\ sessions' = sessions /\ clock' = clock
      /\ \E x : req' = [req EXCEPT ![r] = x]
  <2>1. CASE Arrive(r)
    BY <2>1, Zenon DEF Arrive, RejectBody, NoConnection, StartLogin, RejectHeader, StartBearer
  <2>2. CASE Resume(r)
    BY <2>2, Zenon DEF Resume, ResumeFailed, ResumeVerify, ResumeCreate, ResumeInsert,
           ResumeUnknown, ResumeInactive, GetSession, RefreshSession, RevokeThisSession,
           ResumeUpdate, ResumeRevoke, ResumeGetUser
  <2> QED BY <2>1, <2>2
<1>2. req \in [Requests -> RequestRecord]
  BY DEF TypeOK
<1> QED BY <1>1, <1>2

\* a step of Sessions, or none
SessionsMove == Next \/ UNCHANGED vars

(* No step of Sessions takes back a row, an owner, a revocation or an answer. *)
LEMMA SessionsAreMonotone ==
    ASSUME IInv, SessionsMove
    PROVE  Monotone
<1>1. TypeOK /\ clock \in Int
  <2>1. TypeOK
    BY DEF IInv
  <2> QED BY <2>1 DEF TypeOK
<1>2. ASSUME sessions' = sessions PROVE Grows(sessions, sessions')
  BY <1>2 DEF Grows
<1>3. ASSUME NEW r \in Requests, Arrive(r) \/ Resume(r)
      PROVE  Monotone
  <2>1. Arrive(r) => ~Answered(r)
    BY Zenon DEF Arrive, RejectBody, NoConnection, StartLogin, RejectHeader, StartBearer,
           Arrives, Answered, ErrorCodes
  <2>2. Resume(r) => ~Answered(r)
    BY ResumeIsOfPending DEF Pending, Answered, ErrorCodes
  <2> QED BY <1>1, <1>2, <1>3, <2>1, <2>2, ArriveOrResumeAlone DEF Monotone
<1>4. ASSUME NEW r \in Requests, Execute(r) \/ Break(r)
      PROVE  Monotone
  BY <1>1, <1>4, ExecuteGrows, ExecuteKeepsAnswers DEF Monotone, Kept
<1>5. CASE Crash
  <2>1. \A q \in Requests : Answered(q) => req'[q] = req[q]
    BY <1>5 DEF Crash, Pending, Answered, ErrorCodes
  <2>2. sessions' = sessions /\ clock' = clock
    BY <1>5, Zenon DEF Crash
  <2> QED BY <1>1, <1>2, <2>1, <2>2 DEF Monotone
<1>6. CASE Tick
  BY <1>1, <1>2, <1>6 DEF Tick, Monotone
<1>7. CASE UNCHANGED vars
  BY <1>1, <1>2, <1>7 DEF vars, Monotone
<1>8. CASE Idle
  BY <1>7, <1>8 DEF Idle
<1> QED BY <1>3, <1>4, <1>5, <1>6, <1>7, <1>8, Zenon DEF Next, SessionsMove

----------------------------------------------------------------------------
(* The step of one job that writes no table.                                  *)

(* Null is none of the strings of a job.                                      *)
LEMMA NullIsNoJobString ==
    /\ Null \notin {"POST /spaces", "GET /users/search"}
    /\ Null \notin {"text", "blank", "unstorable"} \union SpaceIds
    /\ Null \notin {"get_by_token_hash", "get_by_id", "begin", "insert_space",
                    "insert_member", "commit", "rollback", "search_by_username"}
BY SpaceConstants DEF EndpointsOfJobs, Names, JobStatements

(* Without a write, what the invariant says of a record depends on nothing    *)
(* that changes.                                                              *)
LEMMA SameForRecord ==
    ASSUME NEW y, UNCHANGED <<vars, spaces, members>>, NEW i \in Jobs, job'[i] = y,
           JobStatementInv(y), JobTableInv(y),
           \A d \in Requests : JobHistoryInv(d, y)
    PROVE  /\ JobStatementInv(job[i])' /\ JobTableInv(job[i])'
           /\ \A d \in Requests : JobHistoryInv(d, job[i])'
<1>1. /\ sessions' = sessions /\ clock' = clock /\ req' = req
      /\ spaces' = spaces /\ members' = members
  BY DEF vars
<1>2. JobStatementInv(job[i])'
  BY <1>1, Zenon DEF JobStatementInv, EnsureActive
<1>3. JobTableInv(job[i])'
  BY <1>1, Zenon DEF JobTableInv, Memberships, MemberOf
<1>4. ASSUME NEW d \in Requests PROVE JobHistoryInv(d, job[i])'
  <2>1. JobHistoryInv(d, y)
    OBVIOUS
  <2> QED BY <1>1, <2>1, Zenon DEF JobHistoryInv, Answered
<1> QED BY <1>2, <1>3, <1>4

(* The step of one job keeps the invariant when its new record does, draws no *)
(* id twice and stands by what it has committed.                              *)
LEMMA StepOfOneJob ==
    ASSUME SpacesInv, NEW j \in Jobs, NEW x \in JobRecord, Only(j, x),
           JobStatementInv(x), JobTableInv(x),
           \A d \in Requests : JobHistoryInv(d, x),
           x.space = job[j].space \/ \A i \in Jobs : job[i].space # x.space,
           job[j].stmt = "commit" => /\ x.stmt = "commit" /\ x.space = job[j].space
                                     /\ x.record = job[j].record
    PROVE  SpacesInv'
<1>1. /\ job \in [Jobs -> JobRecord] /\ job' = [job EXCEPT ![j] = x]
      /\ UNCHANGED <<vars, spaces, members>>
  BY DEF SpacesInv, SpacesTypeOK, Only
<1>2. job'[j] = x /\ \A i \in Jobs \ {j} : job'[i] = job[i]
  BY <1>1
<1>3. spaces' = spaces /\ members' = members
  BY <1>1
<1>4. SpacesTypeOK'
  BY <1>1, <1>3 DEF SpacesInv, SpacesTypeOK
<1>5. ASSUME NEW i \in Jobs
      PROVE  /\ JobStatementInv(job[i])' /\ JobTableInv(job[i])'
             /\ \A d \in Requests : JobHistoryInv(d, job[i])'
  <2>1. CASE i = j
    BY <1>1, <1>2, <2>1, SameForRecord
  <2>2. CASE i # j
    <3>1. /\ JobStatementInv(job[i]) /\ JobTableInv(job[i])
          /\ \A d \in Requests : JobHistoryInv(d, job[i])
      BY DEF SpacesInv
    <3> QED BY <1>1, <1>2, <2>2, <3>1, SameForRecord
  <2> QED BY <2>1, <2>2
<1>6. ASSUME NEW i \in Jobs, NEW k \in Jobs, i # k, job'[i].space # Null
      PROVE  job'[i].space # job'[k].space
  <2>1. \A a, b \in Jobs : a # b /\ job[a].space # Null => job[a].space # job[b].space
    BY DEF SpacesInv
  <2> QED BY <1>2, <1>6, <2>1
<1>7. ASSUME NEW s \in SpaceIds, spaces'[s] # Null \/ Memberships(s)' # {}
      PROVE  \E i \in Jobs : MadeBy(s, job[i])'
  <2>1. spaces[s] # Null \/ Memberships(s) # {}
    BY <1>3, <1>7 DEF Memberships
  <2>2. PICK i \in Jobs : MadeBy(s, job[i])
    BY <2>1 DEF SpacesInv
  <2>3. MadeBy(s, job[i])'
    BY <1>2, <1>3, <2>2 DEF MadeBy, Memberships, MemberOf
  <2> QED BY <2>3
<1> QED BY <1>4, <1>5, <1>6, <1>7 DEF SpacesInv

----------------------------------------------------------------------------
(* Arrivals.                                                                  *)

(* The record of a job that has just arrived.                                 *)
LEMMA JobArrivalRecord ==
    ASSUME NEW e \in JobEndpoints
    PROVE  /\ JobArrival(e) \in JobRecord
           /\ JobArrival(e).stmt = Null /\ JobArrival(e).reply = "none"
           /\ JobArrival(e).record = Null /\ JobArrival(e).space = Null
           /\ JobArrival(e).answer = "pending" /\ JobArrival(e).tx = "none"
           /\ \A d \in JobArrival(e).before : d \in Requests /\ Answered(d)
<1> DEFINE before == {q \in Requests : Answered(q)}
<1>1. before \in SUBSET Requests
  OBVIOUS
<1>2. /\ NoJob \in JobRecord /\ NoJob.stmt = Null /\ NoJob.reply = "none"
      /\ NoJob.record = Null /\ NoJob.space = Null /\ NoJob.tx = "none"
  BY DEF NoJob, JobRecord
<1>3. JobArrival(e) = [NoJob EXCEPT !.endpoint = e, !.answer = "pending",
                                    !.before = before]
  BY DEF JobArrival
<1> HIDE DEF before
<1>4. /\ JobArrival(e) \in JobRecord
      /\ JobArrival(e).stmt = Null /\ JobArrival(e).reply = "none"
      /\ JobArrival(e).record = Null /\ JobArrival(e).space = Null
      /\ JobArrival(e).answer = "pending" /\ JobArrival(e).before = before
      /\ JobArrival(e).tx = "none"
  BY <1>1, <1>2, <1>3 DEF JobRecord
<1> QED BY <1>4 DEF before

(* A job that arrives holds nothing that the invariant could miss.            *)
LEMMA JobArrivalKeeps ==
    ASSUME SpacesInv, NEW j \in Jobs, NEW e, JobArrives(j, e),
           NEW x \in JobRecord, Only(j, x),
           x.record = Null, x.space = Null, x.tx = "none",
           \A d \in x.before : d \in Requests /\ Answered(d),
           \/ x.stmt = Null /\ x.answer \in ErrorCodes
           \/ /\ x.stmt = "get_by_token_hash" /\ x.reply = "awaited"
              /\ x.name # Null /\ x.answer = "pending"
    PROVE  SpacesInv'
<1>1. JobStatementInv(job[j]) /\ job[j].answer = "none"
  BY DEF SpacesInv, JobArrives
<1>2. job[j].stmt = Null /\ job[j].space = Null
  BY <1>1, NullIsNoJobString DEF JobStatementInv, JobChecked
<1>3. x.stmt \notin JobChecked /\ x.stmt \notin CreateStatements
  BY NullIsNoJobString DEF JobChecked, CreateStatements
<1>4. JobStatementInv(x)
  BY <1>3, NullIsNoJobString DEF JobStatementInv, CreateStatements, ErrorCodes
<1>5. JobTableInv(x)
  BY NullIsNoJobString DEF JobTableInv
<1>6. \A d \in Requests : JobHistoryInv(d, x)
  BY DEF JobHistoryInv
<1> QED BY <1>2, <1>4, <1>5, <1>6, NullIsNoJobString, StepOfOneJob

(* A job refused on arrival.                                                  *)
LEMMA JobRefusalKeeps ==
    ASSUME SpacesInv, NEW j \in Jobs, NEW e \in JobEndpoints, JobArrives(j, e),
           NEW code \in ErrorCodes, NEW reply \in {"none", "broken"},
           Only(j, [JobArrival(e) EXCEPT !.answer = code, !.reply = reply])
    PROVE  SpacesInv'
<1> DEFINE a == JobArrival(e)
           x == [a EXCEPT !.answer = code, !.reply = reply]
<1>1. /\ a \in JobRecord /\ a.stmt = Null /\ a.record = Null /\ a.space = Null
      /\ a.tx = "none"
      /\ \A d \in a.before : d \in Requests /\ Answered(d)
  BY JobArrivalRecord
<1>2. Only(j, x)
  OBVIOUS
<1> HIDE DEF a
<1>3. /\ x \in JobRecord /\ x.stmt = Null /\ x.record = Null /\ x.space = Null
      /\ x.answer \in ErrorCodes /\ x.before = a.before /\ x.tx = "none"
  BY <1>1 DEF JobRecord
<1> HIDE DEF x
<1> QED BY <1>1, <1>2, <1>3, JobArrivalKeeps

(* The job that sends get_by_token_hash.                                      *)
LEMMA StartJobKeeps ==
    ASSUME SpacesInv, NEW j \in Jobs, NEW e \in JobEndpoints,
           NEW t \in KnownTokens \union {Bogus}, NEW n \in Names, StartJob(j, e, t, n),
           t \in Tokens \union {Bogus}
    PROVE  SpacesInv'
<1> DEFINE a == JobArrival(e)
           x == [a EXCEPT !.token = t, !.name = n,
                          !.stmt = "get_by_token_hash", !.reply = "awaited"]
<1>1. /\ a \in JobRecord /\ a.record = Null /\ a.space = Null /\ a.answer = "pending"
      /\ a.tx = "none"
      /\ \A d \in a.before : d \in Requests /\ Answered(d)
  BY JobArrivalRecord
<1>2. Only(j, x) /\ JobArrives(j, e)
  BY DEF StartJob
<1> HIDE DEF a
<1>3. /\ x \in JobRecord /\ x.record = Null /\ x.space = Null /\ x.before = a.before
      /\ x.stmt = "get_by_token_hash" /\ x.reply = "awaited"
      /\ x.name = n /\ x.answer = "pending" /\ x.tx = "none"
  BY <1>1 DEF JobRecord, JobStatements
<1>4. n # Null
  BY NullIsNoJobString DEF Names
<1> HIDE DEF x
<1> QED BY <1>1, <1>2, <1>3, <1>4, JobArrivalKeeps

(* A token that a client can present is one of the tokens.                    *)
LEMMA KnownTokensAreTokens ==
    ASSUME IInv
    PROVE  KnownTokens \subseteq Tokens
<1> SUFFICES ASSUME NEW c \in Requests, AnsweredOK(c, "POST /session")
             PROVE  req[c].token \in Tokens
  BY SessionConstants DEF KnownTokens, AnsweredOK
<1>1. StatementInv(c) /\ AnswerInv(c)
  BY DEF IInv
<1> QED BY <1>1 DEF StatementInv, AnswerInv

(* Every arrival keeps the invariant.                                         *)
LEMMA JobArriveKeeps ==
    ASSUME IInv, SpacesInv, NEW j \in Jobs, JobArrive(j)
    PROVE  SpacesInv'
<1>1. PICK e \in JobEndpoints :
        \/ RejectInput(j, e) \/ JobNoConnection(j, e)
        \/ \E h \in {"absent", "malformed"} : RejectJobHeader(j, e, h)
        \/ \E t \in KnownTokens \union {Bogus}, n \in Names : StartJob(j, e, t, n)
  BY Zenon DEF JobArrive
<1> DEFINE a == JobArrival(e)
<1>2. a \in JobRecord /\ a.reply = "none"
  BY JobArrivalRecord
<1>3. ASSUME NEW code \in ErrorCodes, Only(j, [a EXCEPT !.answer = code]), JobArrives(j, e)
      PROVE  SpacesInv'
  <2>1. [a EXCEPT !.answer = code] = [a EXCEPT !.answer = code, !.reply = "none"]
    <3> HIDE DEF a
    <3> QED BY <1>2 DEF JobRecord
  <2>2. Only(j, [a EXCEPT !.answer = code, !.reply = "none"])
    BY <1>3, <2>1, Zenon
  <2> QED BY <1>3, <2>2, JobRefusalKeeps
<1>4. /\ "VALIDATION_ERROR" \in ErrorCodes /\ "INTERNAL_ERROR" \in ErrorCodes
      /\ \A h : HeaderError(h) \in ErrorCodes
  BY DEF ErrorCodes, HeaderError
<1>5. CASE RejectInput(j, e)
  BY <1>3, <1>4, <1>5, Zenon DEF RejectInput
<1>6. CASE JobNoConnection(j, e)
  BY <1>4, <1>6, JobRefusalKeeps, Zenon DEF JobNoConnection
<1>7. ASSUME NEW h, RejectJobHeader(j, e, h)
      PROVE  SpacesInv'
  BY <1>3, <1>4, <1>7, Zenon DEF RejectJobHeader
<1>8. ASSUME NEW t \in KnownTokens \union {Bogus}, NEW n \in Names, StartJob(j, e, t, n)
      PROVE  SpacesInv'
  BY <1>8, KnownTokensAreTokens, StartJobKeeps
<1> QED BY <1>1, <1>5, <1>6, <1>7, <1>8, Zenon

----------------------------------------------------------------------------
(* Statements that write no table.                                            *)

\* what no step of a job changes of its record, but for the SELECT
SameJob(x, y) ==
    /\ y.endpoint = x.endpoint /\ y.token = x.token /\ y.name = x.name
    /\ y.record = x.record /\ y.before = x.before /\ y.active = x.active

\* y is x with these in it
Becomes(x, y, stmt, reply, space, tx, answer) ==
    /\ y \in JobRecord /\ SameJob(x, y)
    /\ y.stmt = stmt /\ y.reply = reply /\ y.space = space
    /\ y.tx = tx /\ y.answer = answer

\* x with another reply and transaction
Replying(x, reply, tx) == [x EXCEPT !.reply = reply, !.tx = tx]

(* A reply changes the record in nothing else.                                *)
LEMMA RepliedJob ==
    ASSUME NEW x \in JobRecord,
           NEW reply \in {"row", "no row", "rejected", "broken"},
           NEW tx \in {"none", "open", "space", "space and member"}
    PROVE  Becomes(x, Replying(x, reply, tx), x.stmt, reply, x.space, tx, x.answer)
<1> DEFINE y == Replying(x, reply, tx)
<1>1. y = Replying(x, reply, tx)
  OBVIOUS
<1> HIDE DEF y
<1>2. Becomes(x, y, x.stmt, reply, x.space, tx, x.answer)
  BY <1>1 DEF Replying, JobRecord, SameJob, Becomes
<1> QED BY <1>2 DEF y

\* x with the id of a space
Drawing(x, reply, s, tx) == [x EXCEPT !.reply = reply, !.space = s, !.tx = tx]

(* Drawing an id changes the record in nothing but the reply besides.         *)
LEMMA JobWithSpace ==
    ASSUME NEW x \in JobRecord, NEW s \in SpaceIds,
           NEW reply \in {"row", "no row", "rejected", "broken"},
           NEW tx \in {"none", "open", "space", "space and member"}
    PROVE  Becomes(x, Drawing(x, reply, s, tx), x.stmt, reply, s, tx, x.answer)
<1> DEFINE y == Drawing(x, reply, s, tx)
<1>1. y = Drawing(x, reply, s, tx)
  OBVIOUS
<1> HIDE DEF y
<1>2. Becomes(x, y, x.stmt, reply, s, tx, x.answer)
  BY <1>1 DEF Drawing, JobRecord, SameJob, Becomes
<1> QED BY <1>2 DEF y

(* What the statement tells of a job it tells after a reply, when the reply   *)
(* brings neither a session nor the id of a space.                            *)
LEMMA RepliedStatement ==
    ASSUME NEW x, NEW y, NEW reply, NEW tx, x.reply = "awaited",
           Becomes(x, y, x.stmt, reply, x.space, tx, x.answer),
           reply \in {"row", "no row", "rejected", "broken"},
           JobStatementInv(x),
           x.stmt \in {"get_by_token_hash", "commit"} => reply = "broken",
           x.stmt = "insert_space" => reply # "row",
           tx # "none" => x.stmt \in CreateStatements
    PROVE  JobStatementInv(y)
<1>1. SameJob(x, y) /\ y.stmt = x.stmt /\ y.reply = reply /\ y.space = x.space
  BY DEF Becomes
<1>2. y.active = x.active /\ y.tx = tx /\ y.answer = x.answer
  BY Zenon DEF Becomes, SameJob
<1>3. x.answer # "OK"
  BY DEF JobStatementInv
<1> QED BY <1>1, <1>2, <1>3, Zenon DEF JobStatementInv, SameJob

(* The same of the insert that draws an id.                                   *)
LEMMA DrawnStatement ==
    ASSUME NEW x, NEW y, NEW reply, NEW tx, NEW s,
           x.reply = "awaited", x.stmt = "insert_space", s # Null,
           Becomes(x, y, x.stmt, reply, s, tx, x.answer),
           reply \in {"row", "broken"}, JobStatementInv(x)
    PROVE  JobStatementInv(y)
<1>1. /\ y.stmt = "insert_space" /\ y.reply = reply /\ y.space = s
      /\ y.tx = tx /\ y.answer = x.answer
  BY DEF Becomes
<1>2. /\ y.endpoint = x.endpoint /\ y.name = x.name /\ y.record = x.record
      /\ y.active = x.active
  BY Zenon DEF Becomes, SameJob
<1>3. /\ x.answer # "OK" /\ x.answer # "none" /\ x.endpoint = "POST /spaces"
      /\ x.name # Null /\ x.record # Null /\ x.record.revoked_at = Null
      /\ x.active = TRUE
  BY NullIsNoJobString DEF JobStatementInv, JobChecked, CreateStatements
<1>4. y.active = TRUE
  BY <1>2, <1>3, Zenon
<1> HIDE DEF Becomes
<1> QED BY <1>1, <1>2, <1>3, <1>4 DEF JobStatementInv, JobChecked, CreateStatements

(* The history of a job stays with it.                                        *)
LEMMA SameHistory ==
    ASSUME NEW x, NEW y, SameJob(x, y), \A d \in Requests : JobHistoryInv(d, x)
    PROVE  \A d \in Requests : JobHistoryInv(d, y)
<1>1. y.before = x.before /\ y.token = x.token /\ y.record = x.record
  BY DEF SameJob
<1> QED BY <1>1, Zenon DEF JobHistoryInv

(* A reply with nothing in it, to a statement that neither reads a session    *)
(* nor draws an id nor commits; or no reply at all.                           *)
LEMMA JobReplyKeeps ==
    ASSUME SpacesInv, NEW j \in Jobs, job[j].reply = "awaited",
           NEW reply \in {"row", "no row", "rejected", "broken"},
           NEW tx \in {"none", "open", "space", "space and member"},
           Only(j, [job[j] EXCEPT !.reply = reply, !.tx = tx]),
           job[j].stmt \in {"get_by_token_hash", "commit"} => reply = "broken",
           job[j].stmt = "insert_space" => reply # "row",
           tx # "none" => job[j].stmt \in CreateStatements
    PROVE  SpacesInv'
<1> DEFINE x == Replying(job[j], reply, tx)
<1>1. /\ JobStatementInv(job[j]) /\ JobTableInv(job[j])
      /\ \A d \in Requests : JobHistoryInv(d, job[j])
      /\ job[j] \in JobRecord
  BY DEF SpacesInv, SpacesTypeOK
<1>2. Only(j, x)
  BY Zenon DEF Replying
<1>3. Becomes(job[j], x, job[j].stmt, reply, job[j].space, tx, job[j].answer)
  <2>1. job[j] \in JobRecord
    BY <1>1
  <2> QED BY <2>1, RepliedJob, Zenon
<1> HIDE DEF x
<1>4. JobStatementInv(x)
  BY <1>1, <1>3, RepliedStatement
<1>5. /\ x \in JobRecord /\ SameJob(job[j], x)
      /\ x.stmt = job[j].stmt /\ x.space = job[j].space /\ x.reply = reply
  BY <1>3, Zenon DEF Becomes
<1>6. JobTableInv(x)
  BY <1>1, <1>5 DEF JobTableInv, MemberOf, SameJob
<1>7. \A d \in Requests : JobHistoryInv(d, x)
  BY <1>1, <1>5, SameHistory
<1> QED BY <1>2, <1>4, <1>5, <1>6, <1>7, StepOfOneJob DEF SameJob

(* The same when the transaction is not touched.                              *)
LEMMA JobPlainReplyKeeps ==
    ASSUME SpacesInv, NEW j \in Jobs, job[j].reply = "awaited",
           NEW reply \in {"row", "no row", "rejected", "broken"},
           Only(j, [job[j] EXCEPT !.reply = reply]),
           job[j].stmt \notin {"get_by_token_hash", "commit", "insert_space"}
    PROVE  SpacesInv'
<1>1. job[j] \in JobRecord /\ JobStatementInv(job[j])
  BY DEF SpacesInv, SpacesTypeOK
<1>2. [job[j] EXCEPT !.reply = reply] = [job[j] EXCEPT !.reply = reply, !.tx = job[j].tx]
  BY <1>1 DEF JobRecord
<1>3. Only(j, [job[j] EXCEPT !.reply = reply, !.tx = job[j].tx])
  BY <1>2, Zenon
<1>4. job[j].tx \in {"none", "open", "space", "space and member"}
  BY <1>1 DEF JobRecord
<1>5. job[j].tx # "none" => job[j].stmt \in CreateStatements
  BY <1>1 DEF JobStatementInv
<1> QED BY <1>3, <1>4, <1>5, JobReplyKeeps

(* get_by_id, search_by_username, BEGIN, a refused insert, the second insert, *)
(* ROLLBACK, and a connection that breaks under any of the statements.        *)
LEMMA JobExecuteKeeps ==
    ASSUME SpacesInv, NEW j \in Jobs, NEW lost \in BOOLEAN,
           \/ JobGetUser(j, lost) \/ JobSearch(j, lost) \/ JobBegin(j, lost)
           \/ JobInsertRefused(j, lost) \/ JobInsertMember(j, lost)
           \/ JobRollback(j, lost) \/ JobBreak(j)
    PROVE  SpacesInv'
<1>1. job[j] \in JobRecord
  BY DEF SpacesInv, SpacesTypeOK
<1>2. job[j].tx \in {"none", "open", "space", "space and member"}
  BY <1>1 DEF JobRecord
<1>3. CASE JobGetUser(j, lost)
  <2> DEFINE reply == Reply(lost, IF UserExists(users, job[j].record.user_id)
                                    THEN "row" ELSE "no row")
  <2>1. reply \in {"row", "no row", "rejected", "broken"}
    BY DEF Reply
  <2>2. Only(j, [job[j] EXCEPT !.reply = reply])
    BY <1>3, Zenon DEF JobGetUser
  <2>3. job[j].stmt = "get_by_id" /\ job[j].reply = "awaited"
    BY <1>3, Zenon DEF JobGetUser, JobExecutes
  <2> HIDE DEF reply
  <2> QED BY <2>1, <2>2, <2>3, JobPlainReplyKeeps
<1>4. CASE JobSearch(j, lost)
  <2> DEFINE reply == Reply(lost, IF job[j].name = "unstorable" THEN "rejected" ELSE "row")
  <2>1. reply \in {"row", "no row", "rejected", "broken"}
    BY DEF Reply
  <2>2. Only(j, [job[j] EXCEPT !.reply = reply])
    BY <1>4, Zenon DEF JobSearch
  <2>3. job[j].stmt = "search_by_username" /\ job[j].reply = "awaited"
    BY <1>4, Zenon DEF JobSearch, JobExecutes
  <2> HIDE DEF reply
  <2> QED BY <2>1, <2>2, <2>3, JobPlainReplyKeeps
<1>5. CASE JobBegin(j, lost)
  <2> DEFINE reply == Reply(lost, "row")
             tx == IF lost THEN "none" ELSE "open"
  <2>1. /\ reply \in {"row", "no row", "rejected", "broken"}
        /\ tx \in {"none", "open", "space", "space and member"}
    BY DEF Reply
  <2>2. Only(j, [job[j] EXCEPT !.reply = reply, !.tx = tx])
    BY <1>5, Zenon DEF JobBegin
  <2>3. job[j].stmt = "begin" /\ job[j].reply = "awaited"
    BY <1>5, Zenon DEF JobBegin, JobExecutes
  <2> HIDE DEF reply, tx
  <2> QED BY <2>1, <2>2, <2>3, JobReplyKeeps DEF CreateStatements
<1>6. CASE JobInsertRefused(j, lost)
  <2> DEFINE reply == Reply(lost, "rejected")
             tx == IF lost THEN "none" ELSE job[j].tx
  <2>1. /\ reply \in {"row", "no row", "rejected", "broken"} /\ reply # "row"
        /\ tx \in {"none", "open", "space", "space and member"}
    BY <1>2 DEF Reply
  <2>2. Only(j, [job[j] EXCEPT !.reply = reply, !.tx = tx])
    BY <1>6, Zenon DEF JobInsertRefused
  <2>3. job[j].stmt = "insert_space" /\ job[j].reply = "awaited"
    BY <1>6, Zenon DEF JobInsertRefused, JobExecutes
  <2> HIDE DEF reply, tx
  <2> QED BY <2>1, <2>2, <2>3, JobReplyKeeps DEF CreateStatements
<1>7. CASE JobInsertMember(j, lost)
  <2> DEFINE accepted == UserExists(users, job[j].record.user_id)
             reply == Reply(lost, IF accepted THEN "row" ELSE "rejected")
             tx == CASE lost -> "none"
                     [] ~lost /\ accepted -> "space and member"
                     [] ~lost /\ ~accepted -> "space"
  <2>1. Only(j, [job[j] EXCEPT !.reply = reply, !.tx = tx])
    BY <1>7, Zenon DEF JobInsertMember
  <2>2. job[j].stmt = "insert_member" /\ job[j].reply = "awaited"
    BY <1>7, Zenon DEF JobInsertMember, JobExecutes
  <2> HIDE DEF accepted
  <2>3. /\ reply \in {"row", "no row", "rejected", "broken"}
        /\ tx \in {"none", "open", "space", "space and member"}
    BY DEF Reply
  <2> HIDE DEF reply, tx
  <2> QED BY <2>1, <2>2, <2>3, JobReplyKeeps DEF CreateStatements
<1>8. CASE JobRollback(j, lost)
  <2> DEFINE reply == Reply(lost, "row")
  <2>1. reply \in {"row", "no row", "rejected", "broken"}
    BY DEF Reply
  <2>2. Only(j, [job[j] EXCEPT !.reply = reply, !.tx = "none"])
    BY <1>8, Zenon DEF JobRollback
  <2>3. job[j].stmt = "rollback" /\ job[j].reply = "awaited"
    BY <1>8, Zenon DEF JobRollback, JobExecutes
  <2> HIDE DEF reply
  <2> QED BY <2>1, <2>2, <2>3, JobReplyKeeps
<1>9. CASE JobBreak(j)
  BY <1>9, JobReplyKeeps DEF JobBreak
<1> QED BY <1>3, <1>4, <1>5, <1>6, <1>7, <1>8, <1>9

(* INSERT INTO spaces draws an id that no table and no other job holds.       *)
LEMMA JobInsertSpaceKeeps ==
    ASSUME SpacesInv, NEW j \in Jobs, NEW lost \in BOOLEAN, JobInsertSpace(j, lost)
    PROVE  SpacesInv'
<1>1. /\ JobStatementInv(job[j]) /\ JobTableInv(job[j])
      /\ \A d \in Requests : JobHistoryInv(d, job[j])
      /\ job[j] \in JobRecord
  BY DEF SpacesInv, SpacesTypeOK
<1>2. job[j].stmt = "insert_space" /\ job[j].reply = "awaited"
  BY Zenon DEF JobInsertSpace, JobExecutes
<1> DEFINE reply == Reply(lost, "row")
           tx == IF lost THEN "none" ELSE "space"
<1>3. PICK s \in FreshSpaceIds :
        Only(j, [job[j] EXCEPT !.reply = reply, !.space = s, !.tx = tx])
  BY Zenon DEF JobInsertSpace
<1>4. reply \in {"row", "broken"} /\ tx \in {"none", "space"}
  BY DEF Reply
<1> HIDE DEF reply, tx
<1> DEFINE x == Drawing(job[j], reply, s, tx)
<1>5. s \in SpaceIds /\ s # Null /\ \A i \in Jobs : job[i].space # s
  BY NullIsNoJobString DEF FreshSpaceIds
<1>6. Only(j, x)
  BY <1>3, Zenon DEF Drawing
<1>7. Becomes(job[j], x, job[j].stmt, reply, s, tx, job[j].answer)
  <2>1. /\ reply \in {"row", "no row", "rejected", "broken"}
        /\ tx \in {"none", "open", "space", "space and member"}
        /\ job[j] \in JobRecord /\ s \in SpaceIds
    BY <1>1, <1>4, <1>5
  <2> QED BY <2>1, JobWithSpace, Zenon
<1> HIDE DEF x
<1>8. JobStatementInv(x)
  BY <1>1, <1>2, <1>4, <1>5, <1>7, DrawnStatement
<1>9. spaces[s] = Null /\ Memberships(s) = {}
  <2>1. \A i \in Jobs : ~MadeBy(s, job[i])
    BY <1>5 DEF MadeBy
  <2> QED BY <1>5, <2>1 DEF SpacesInv
<1>10. /\ x \in JobRecord /\ SameJob(job[j], x)
       /\ x.stmt = job[j].stmt /\ x.space = s
  BY <1>7, Zenon DEF Becomes
<1>11. JobTableInv(x)
  BY <1>1, <1>2, <1>9, <1>10 DEF JobTableInv, SameJob
<1>12. \A d \in Requests : JobHistoryInv(d, x)
  BY <1>1, <1>10, SameHistory
<1> QED BY <1>2, <1>5, <1>6, <1>8, <1>10, <1>11, <1>12, StepOfOneJob

----------------------------------------------------------------------------
(* The coroutine resumes.                                                     *)

\* x with its next statement, or with its answer
SendingJob(x, s) == [x EXCEPT !.stmt = s, !.reply = "awaited"]
AnsweringJob(x, code) == [x EXCEPT !.answer = code]

(* Sending a statement changes nothing else.                                  *)
LEMMA SentJob ==
    ASSUME NEW x \in JobRecord, NEW s \in JobStatements
    PROVE  Becomes(x, SendingJob(x, s), s, "awaited", x.space, x.tx, x.answer)
<1> DEFINE y == SendingJob(x, s)
<1>1. y = SendingJob(x, s)
  OBVIOUS
<1> HIDE DEF y
<1>2. Becomes(x, y, s, "awaited", x.space, x.tx, x.answer)
  BY <1>1 DEF SendingJob, JobRecord, SameJob, Becomes
<1> QED BY <1>2 DEF y

(* Answering changes nothing else.                                            *)
LEMMA AnsweredJob ==
    ASSUME NEW x \in JobRecord, NEW code \in {"OK"} \union ErrorCodes
    PROVE  Becomes(x, AnsweringJob(x, code), x.stmt, x.reply, x.space, x.tx, code)
<1> DEFINE y == AnsweringJob(x, code)
<1>1. y = AnsweringJob(x, code)
  OBVIOUS
<1> HIDE DEF y
<1>2. Becomes(x, y, x.stmt, x.reply, x.space, x.tx, code)
  BY <1>1 DEF AnsweringJob, JobRecord, SameJob, Becomes
<1> QED BY <1>2 DEF y

(* A job sends a statement only once its session was found live, and with     *)
(* what the statement needs.                                                  *)
Ready(x, s) ==
    /\ s \in JobChecked
    /\ x.name # Null /\ x.record # Null /\ x.record.revoked_at = Null
    /\ x.active = TRUE
    /\ x.answer = "pending" /\ x.stmt # "commit"
    /\ s \in CreateStatements => x.endpoint = "POST /spaces"
    /\ s = "search_by_username" => x.endpoint = "GET /users/search"
    /\ s \in {"insert_member", "commit"} => x.space # Null
    /\ x.tx # "none" => s \in CreateStatements

(* What the invariant tells of the statement a ready job sends.               *)
LEMMA SentStatement ==
    ASSUME NEW x, NEW y, NEW s, Ready(x, s),
           Becomes(x, y, s, "awaited", x.space, x.tx, x.answer)
    PROVE  JobStatementInv(y)
<1>1. /\ y.stmt = s /\ y.reply = "awaited" /\ y.space = x.space
      /\ y.tx = x.tx /\ y.answer = "pending"
  BY DEF Becomes, Ready
<1>2. /\ y.endpoint = x.endpoint /\ y.name = x.name /\ y.record = x.record
      /\ y.active = x.active
  BY Zenon DEF Becomes, SameJob
<1>3. s \in JobChecked /\ x.name # Null /\ x.record # Null /\ x.record.revoked_at = Null
  BY DEF Ready
<1>4. y.active = TRUE
  BY <1>2, Zenon DEF Ready
<1>5. /\ s \in CreateStatements => x.endpoint = "POST /spaces"
      /\ s = "search_by_username" => x.endpoint = "GET /users/search"
      /\ s \in {"insert_member", "commit"} => x.space # Null
      /\ x.tx # "none" => s \in CreateStatements
  BY Zenon DEF Ready
<1>6. s # Null /\ s # "get_by_token_hash"
  BY <1>3, NullIsNoJobString DEF JobChecked
<1> QED BY <1>1, <1>2, <1>3, <1>4, <1>5, <1>6 DEF JobStatementInv

(* Sending the next statement keeps the invariant.                            *)
LEMMA JobSendKeeps ==
    ASSUME SpacesInv, NEW j \in Jobs, NEW s \in JobStatements,
           JobSend(j, s), Ready(job[j], s)
    PROVE  SpacesInv'
<1> DEFINE x == SendingJob(job[j], s)
<1>1. /\ JobTableInv(job[j]) /\ job[j] \in JobRecord
      /\ \A d \in Requests : JobHistoryInv(d, job[j])
  BY DEF SpacesInv, SpacesTypeOK
<1>2. Only(j, x)
  BY Zenon DEF JobSend, SendingJob
<1>3. Becomes(job[j], x, s, "awaited", job[j].space, job[j].tx, job[j].answer)
  <2>1. job[j] \in JobRecord
    BY <1>1
  <2> QED BY <2>1, SentJob, Zenon
<1> HIDE DEF x
<1>4. JobStatementInv(x)
  BY <1>3, SentStatement
<1>5. /\ x \in JobRecord /\ SameJob(job[j], x)
      /\ x.stmt = s /\ x.space = job[j].space /\ x.reply = "awaited"
  BY <1>3, Zenon DEF Becomes
<1>6. job[j].stmt # "commit"
  BY DEF Ready
<1>7. JobTableInv(x)
  BY <1>1, <1>5, <1>6 DEF JobTableInv, MemberOf, SameJob
<1>8. \A d \in Requests : JobHistoryInv(d, x)
  BY <1>1, <1>5, SameHistory
<1> QED BY <1>2, <1>4, <1>5, <1>6, <1>7, <1>8, StepOfOneJob

(* An answer keeps the invariant, if a 2xx comes from the last statement.     *)
LEMMA JobAnswerKeeps ==
    ASSUME SpacesInv, NEW j \in Jobs, NEW code \in {"OK"} \union ErrorCodes,
           JobAnswer(j, code), JobPending(j),
           code = "OK" => /\ job[j].reply = "row"
                          /\ job[j].stmt \in {"commit", "search_by_username"}
    PROVE  SpacesInv'
<1> DEFINE x == AnsweringJob(job[j], code)
<1>1. /\ JobStatementInv(job[j]) /\ JobTableInv(job[j]) /\ job[j] \in JobRecord
      /\ \A d \in Requests : JobHistoryInv(d, job[j])
  BY DEF SpacesInv, SpacesTypeOK
<1>2. Only(j, x)
  BY Zenon DEF JobAnswer, AnsweringJob
<1>3. Becomes(job[j], x, job[j].stmt, job[j].reply, job[j].space, job[j].tx, code)
  <2>1. job[j] \in JobRecord
    BY <1>1
  <2> QED BY <2>1, AnsweredJob, Zenon
<1> HIDE DEF x
<1>4. /\ x \in JobRecord /\ SameJob(job[j], x) /\ x.answer = code /\ x.tx = job[j].tx
      /\ x.stmt = job[j].stmt /\ x.space = job[j].space /\ x.reply = job[j].reply
  BY <1>3, Zenon DEF Becomes
<1>5. code # "none"
  BY DEF ErrorCodes
<1>6. JobStatementInv(x)
  BY <1>1, <1>4, <1>5, Zenon DEF JobStatementInv, SameJob
<1>7. JobTableInv(x)
  BY <1>1, <1>4 DEF JobTableInv, MemberOf, SameJob
<1>8. \A d \in Requests : JobHistoryInv(d, x)
  BY <1>1, <1>4, SameHistory
<1> QED BY <1>2, <1>4, <1>6, <1>7, <1>8, StepOfOneJob DEF SameJob

(* Every resumption keeps the invariant.                                      *)
LEMMA JobResumeKeeps ==
    ASSUME SpacesInv, NEW j \in Jobs, JobResume(j)
    PROVE  SpacesInv'
<1>1. /\ JobStatementInv(job[j]) /\ job[j] \in JobRecord
  BY DEF SpacesInv, SpacesTypeOK
<1>2. ASSUME NEW code \in ErrorCodes, JobAnswer(j, code), JobPending(j)
      PROVE  SpacesInv'
  <2>1. code # "OK" /\ code \in {"OK"} \union ErrorCodes
    BY DEF ErrorCodes
  <2> QED BY <1>2, <2>1, JobAnswerKeeps
<1>3. {"INTERNAL_ERROR", "SESSION_MISSING", "SESSION_EXPIRED", "VALIDATION_ERROR"}
        \subseteq ErrorCodes
  BY DEF ErrorCodes
<1>4. JobFailed(j) \/ JobUnknown(j) \/ JobInactive(j) \/ JobBlankName(j) => SpacesInv'
  <2>1. JobFailed(j) => JobPending(j) /\ JobAnswer(j, "INTERNAL_ERROR")
    BY Zenon DEF JobFailed
  <2>2. JobUnknown(j) => JobPending(j) /\ JobAnswer(j, "SESSION_MISSING")
    BY Zenon DEF JobUnknown, JobResumes
  <2>3. JobInactive(j) => JobPending(j) /\ JobAnswer(j, "SESSION_EXPIRED")
    BY Zenon DEF JobInactive, JobResumes
  <2>4. JobBlankName(j) => JobPending(j) /\ JobAnswer(j, "VALIDATION_ERROR")
    BY Zenon DEF JobBlankName, JobResumes
  <2> QED BY <1>2, <1>3, <2>1, <2>2, <2>3, <2>4
<1>5. CASE JobServed(j)
  <2>1. /\ job[j].reply = "row" /\ job[j].stmt \in {"commit", "search_by_username"}
        /\ JobAnswer(j, "OK") /\ JobPending(j)
    BY <1>5, Zenon DEF JobServed, JobResumes
  <2> QED BY <2>1, JobAnswerKeeps
<1>6. CASE JobRejected(j)
  <2>1. /\ JobPending(j) /\ job[j].reply = "rejected" /\ job[j].tx # "none"
        /\ JobSend(j, "rollback")
    BY <1>6, Zenon DEF JobRejected
  <2>2. Ready(job[j], "rollback")
    BY <1>1, <2>1, Zenon DEF JobStatementInv, Ready, JobPending, JobChecked, CreateStatements
  <2> QED BY <2>1, <2>2, JobSendKeeps DEF JobStatements
<1>7. ASSUME JobResumes(j, "get_by_token_hash", "row"), JobActive(j)
      PROVE  Ready(job[j], "get_by_id")
  BY <1>1, <1>7, Zenon DEF JobStatementInv, Ready, JobPending, JobResumes, JobChecked,
         CreateStatements, JobActive, EnsureActive
<1>8. CASE JobGetSession(j)
  <2>1. JobSend(j, "get_by_id") /\ Ready(job[j], "get_by_id")
    BY <1>7, <1>8, Zenon DEF JobGetSession
  <2> QED BY <2>1, JobSendKeeps DEF JobStatements
<1>9. CASE JobStartSpace(j)
  <2>1. /\ JobResumes(j, "get_by_id", "row") /\ job[j].endpoint = "POST /spaces"
        /\ JobSend(j, "begin")
    BY <1>9, Zenon DEF JobStartSpace
  <2>2. Ready(job[j], "begin")
    BY <1>1, <2>1, Zenon DEF JobStatementInv, Ready, JobPending, JobResumes, JobChecked,
           CreateStatements
  <2> QED BY <2>1, <2>2, JobSendKeeps DEF JobStatements
<1>10. CASE JobStartSearch(j)
  <2>1. /\ JobResumes(j, "get_by_id", "row") /\ job[j].endpoint = "GET /users/search"
        /\ JobSend(j, "search_by_username")
    BY <1>10, Zenon DEF JobStartSearch
  <2>2. Ready(job[j], "search_by_username")
    BY <1>1, <2>1, Zenon DEF JobStatementInv, Ready, JobPending, JobResumes, JobChecked,
           CreateStatements
  <2> QED BY <2>1, <2>2, JobSendKeeps DEF JobStatements
<1>11. CASE JobProceed(j)
  <2>1. /\ JobPending(j) /\ job[j].reply = "row"
        /\ job[j].stmt \in {"begin", "insert_space", "insert_member"}
        /\ JobSend(j, NextOf[job[j].stmt])
    BY <1>11 DEF JobProceed, NextOf
  <2>2. NextOf[job[j].stmt] \in {"insert_space", "insert_member", "commit"}
    BY <2>1 DEF NextOf
  <2>3. /\ NextOf[job[j].stmt] # "insert_space" => job[j].stmt # "begin"
        /\ NextOf[job[j].stmt] # "search_by_username"
    BY <2>1 DEF NextOf
  <2>4. PICK s : s = NextOf[job[j].stmt]
    OBVIOUS
  <2>5. Ready(job[j], s)
    BY <1>1, <2>1, <2>2, <2>3, <2>4, Zenon DEF JobStatementInv, Ready, JobPending,
           JobChecked, CreateStatements
  <2>6. s \in JobStatements /\ JobSend(j, s)
    BY <2>1, <2>2, <2>4 DEF JobStatements
  <2> QED BY <2>5, <2>6, JobSendKeeps
<1> QED BY <1>4, <1>5, <1>6, <1>8, <1>9, <1>10, <1>11, Zenon DEF JobResume

----------------------------------------------------------------------------
(* The SELECT of the session.                                                 *)

\* y is x with the row that was read, or with no reply
HasRead(x, y, row) ==
    /\ y \in JobRecord
    /\ y.endpoint = x.endpoint /\ y.token = x.token /\ y.name = x.name
    /\ y.stmt = x.stmt /\ y.space = x.space /\ y.tx = x.tx
    /\ y.answer = x.answer /\ y.before = x.before
    /\ y.record \in {Null, row}
    /\ y.reply = "row" => /\ row # Null /\ y.record = row
                          /\ EnsureActive(row, clock) => y.active = TRUE

(* What the invariant tells of a job that has read a session.                 *)
LEMMA ReadStatement ==
    ASSUME NEW x, NEW y, NEW row, HasRead(x, y, row), JobStatementInv(x),
           x.stmt = "get_by_token_hash", x.reply = "awaited"
    PROVE  JobStatementInv(y) /\ y.space = Null
<1>1. /\ y.stmt = "get_by_token_hash" /\ y.space = x.space /\ y.tx = x.tx
      /\ y.answer = x.answer /\ y.name = x.name
  BY DEF HasRead
<1>2. y.reply = "row" => /\ y.record # Null
                         /\ EnsureActive(y.record, clock) => y.active = TRUE
  BY Zenon DEF HasRead
<1>3. "get_by_token_hash" \notin JobChecked /\ "get_by_token_hash" \notin CreateStatements
  BY DEF JobChecked, CreateStatements
<1>4. /\ x.answer # "OK" /\ x.answer # "none" /\ x.space = Null /\ x.name # Null
      /\ x.tx = "none"
  BY <1>3, NullIsNoJobString DEF JobStatementInv
<1>5. JobStatementInv(y)
  BY <1>1, <1>2, <1>3, <1>4, Zenon DEF JobStatementInv
<1> QED BY <1>1, <1>4, <1>5

(* Reading the session keeps the invariant: after a logout it is revoked.     *)
LEMMA JobReadKeeps ==
    ASSUME IInv, SpacesInv, NEW j \in Jobs, JobExecutes(j, "get_by_token_hash"),
           NEW x, HasRead(job[j], x, GetByTokenHash(sessions, JobHash(j))), Only(j, x)
    PROVE  SpacesInv'
<1> DEFINE row == GetByTokenHash(sessions, JobHash(j))
<1>1. /\ JobStatementInv(job[j]) /\ job[j] \in JobRecord
      /\ \A d \in Requests : JobHistoryInv(d, job[j])
      /\ sessions \in SessionTable
  BY DEF SpacesInv, SpacesTypeOK, IInv, TypeOK
<1>2. job[j].stmt = "get_by_token_hash" /\ job[j].reply = "awaited"
  BY DEF JobExecutes
<1>3. JobStatementInv(x) /\ x.space = Null
  BY <1>1, <1>2, ReadStatement
<1>4. /\ x \in JobRecord /\ x.token = job[j].token /\ x.before = job[j].before
      /\ x.record \in {Null, row} /\ x.stmt = job[j].stmt /\ x.space = job[j].space
  BY DEF HasRead
<1>5. row # Null => job[j].token \in Tokens /\ row = sessions[HashToken(job[j].token)]
  BY <1>1, HashTokenInjective DEF GetByTokenHash, SessionTable, JobHash
<1> HIDE DEF row
<1>6. JobTableInv(x)
  BY <1>2, <1>3, <1>4, <1>5 DEF JobTableInv
<1>7. ASSUME NEW d \in Requests PROVE JobHistoryInv(d, x)
  <2> SUFFICES ASSUME d \in job[j].before
               PROVE  /\ Answered(d)
                      /\ /\ AnsweredOK(d, "DELETE /session")
                         /\ job[j].token = req[d].token
                         /\ x.record # Null
                         => x.record.revoked_at # Null
    BY <1>4 DEF JobHistoryInv, AnsweredOK
  <2>1. Answered(d)
    BY <1>1 DEF JobHistoryInv
  <2>2. AnswerInv(d) /\ TableInv(d)
    BY DEF IInv
  <2>3. AnsweredOK(d, "DELETE /session") => sessions[Hash(d)].revoked_at # Null
    BY <2>2 DEF AnswerInv, TableInv
  <2> QED BY <1>4, <1>5, <2>1, <2>3 DEF Hash
<1> QED BY <1>2, <1>3, <1>4, <1>6, <1>7, StepOfOneJob

(* The SELECT returns the row of the table, or its reply is lost.             *)
LEMMA JobSelectKeeps ==
    ASSUME IInv, SpacesInv, NEW j \in Jobs, NEW lost \in BOOLEAN, JobSelect(j, lost)
    PROVE  SpacesInv'
<1> DEFINE row == GetByTokenHash(sessions, JobHash(j))
           x == [job[j] EXCEPT !.reply = Reply(lost, IF row = Null THEN "no row" ELSE "row"),
                               !.record = IF lost THEN Null ELSE row,
                               !.active = ~lost /\ ActiveNow(row)]
<1>1. JobExecutes(j, "get_by_token_hash") /\ Only(j, x)
  BY Zenon DEF JobSelect
<1>2. job[j] \in JobRecord /\ sessions \in SessionTable /\ clock \in Int
  BY DEF SpacesInv, SpacesTypeOK, IInv, TypeOK
<1>3. row \in SessionRow \union {Null}
  BY <1>2 DEF GetByTokenHash, SessionTable
<1>4. row # Null /\ EnsureActive(row, clock) => ActiveNow(row)
  <2> SUFFICES ASSUME row # Null PROVE EnsureActive(row, clock) => ActiveNow(row)
    OBVIOUS
  <2>1. row.expires_at \in Int
    BY <1>3 DEF SessionRow
  <2> HIDE DEF row
  <2> QED BY <1>2, <2>1 DEF EnsureActive, ActiveNow
<1> HIDE DEF row
<1>5. HasRead(job[j], x, row)
  <2>1. CASE lost
    <3>1. x = [job[j] EXCEPT !.reply = "broken", !.record = Null, !.active = FALSE]
      BY <2>1 DEF Reply
    <3> HIDE DEF x
    <3> QED BY <1>2, <3>1 DEF HasRead, JobRecord
  <2>2. CASE ~lost /\ row = Null /\ ~ActiveNow(row)
    <3>1. x = [job[j] EXCEPT !.reply = "no row", !.record = Null, !.active = FALSE]
      BY <2>2 DEF Reply
    <3> HIDE DEF x
    <3> QED BY <1>2, <2>2, <3>1 DEF HasRead, JobRecord
  <2>3. CASE ~lost /\ row # Null /\ ~ActiveNow(row)
    <3>1. x = [job[j] EXCEPT !.reply = "row", !.record = row, !.active = FALSE]
      BY <2>3 DEF Reply
    <3>2. ~EnsureActive(row, clock)
      BY <1>4, <2>3
    <3> HIDE DEF x
    <3> QED BY <1>2, <1>3, <2>3, <3>1, <3>2 DEF HasRead, JobRecord
  <2>4. CASE ~lost /\ row # Null /\ ActiveNow(row)
    <3>1. x = [job[j] EXCEPT !.reply = "row", !.record = row, !.active = TRUE]
      BY <2>4 DEF Reply
    <3> HIDE DEF x
    <3> QED BY <1>2, <1>3, <2>4, <3>1 DEF HasRead, JobRecord
  <2>5. row = Null => ~ActiveNow(row)
    BY DEF ActiveNow
  <2> QED BY <2>1, <2>2, <2>3, <2>4, <2>5
<1> HIDE DEF x
<1> QED BY <1>1, <1>5, JobReadKeeps DEF row

----------------------------------------------------------------------------
(* COMMIT.                                                                    *)

(* What a COMMIT of x makes of the two tables.                                *)
CommitWrites(x) ==
    /\ spaces' = [spaces EXCEPT ![x.space] = x.name]
    /\ members' = members \union {MemberOf(x)}

\* the members of s after the step, whatever becomes of s itself
MembersAfter(s) == {m \in members' : m.space_id = s}

Committed(x) ==
    /\ spaces' \in SpaceTable /\ members' \subseteq Membership
    /\ spaces'[x.space] = x.name /\ MembersAfter(x.space) = {MemberOf(x)}
    /\ \A s \in SpaceIds \ {x.space} :
         spaces'[s] = spaces[s] /\ MembersAfter(s) = Memberships(s)

(* It adds the row and the member of its own space and touches no other.      *)
LEMMA CommitAddsOne ==
    ASSUME SpacesTypeOK, NEW x \in JobRecord, CommitWrites(x),
           x.space # Null, x.name # Null, x.record # Null,
           Memberships(x.space) = {}
    PROVE  Committed(x)
<1>1. x.space \in SpaceIds /\ x.name \in Names /\ x.record \in SessionRow
  BY DEF JobRecord
<1>2. spaces \in SpaceTable /\ members \subseteq Membership
  BY DEF SpacesTypeOK
<1>3. MemberOf(x) \in Membership /\ MemberOf(x).space_id = x.space
  BY <1>1 DEF MemberOf, Membership, SessionRow
<1>4. spaces' \in SpaceTable /\ spaces'[x.space] = x.name
  BY <1>1, <1>2 DEF CommitWrites, SpaceTable
<1>5. members' = members \union {MemberOf(x)}
  BY DEF CommitWrites
<1>6. MembersAfter(x.space) = {MemberOf(x)}
  BY <1>3, <1>5 DEF Memberships, MembersAfter
<1>7. ASSUME NEW s \in SpaceIds \ {x.space}
      PROVE  spaces'[s] = spaces[s] /\ MembersAfter(s) = Memberships(s)
  <2>1. spaces'[s] = spaces[s]
    BY <1>2, <1>7 DEF CommitWrites, SpaceTable
  <2>2. MembersAfter(s) = Memberships(s)
    BY <1>3, <1>5, <1>7 DEF Memberships, MembersAfter
  <2> QED BY <2>1, <2>2
<1> QED BY <1>2, <1>3, <1>4, <1>5, <1>6, <1>7 DEF Committed

(* The statement of a job tells the same after its COMMIT.                    *)
LEMMA CommittedStatement ==
    ASSUME NEW x, NEW y, NEW reply, x.reply = "awaited", x.stmt = "commit",
           Becomes(x, y, x.stmt, reply, x.space, "none", x.answer),
           reply \in {"row", "broken"}, JobStatementInv(x)
    PROVE  JobStatementInv(y)
<1>1. /\ SameJob(x, y) /\ y.stmt = "commit" /\ y.reply = reply /\ y.space = x.space
      /\ y.tx = "none" /\ y.answer = x.answer
  BY DEF Becomes
<1>2. x.answer # "OK"
  BY DEF JobStatementInv
<1> QED BY <1>1, <1>2, Zenon DEF JobStatementInv, SameJob

(* COMMIT keeps the invariant.                                                *)
LEMMA JobCommitKeeps ==
    ASSUME SpacesInv, NEW j \in Jobs, NEW lost \in BOOLEAN, JobCommit(j, lost)
    PROVE  SpacesInv'
<1> DEFINE reply == Reply(lost, "row")
           x == Replying(job[j], reply, "none")
<1>1. /\ JobStatementInv(job[j]) /\ JobTableInv(job[j]) /\ job[j] \in JobRecord
      /\ SpacesTypeOK /\ job \in [Jobs -> JobRecord]
  BY DEF SpacesInv, SpacesTypeOK
<1>2. /\ job[j].stmt = "commit" /\ job[j].reply = "awaited"
      /\ CommitWrites(job[j]) /\ job' = [job EXCEPT ![j] = x] /\ UNCHANGED vars
  BY Zenon DEF JobCommit, JobExecutes, CommitWrites, MemberOf, Replying
<1>3. reply \in {"row", "broken"}
  BY DEF Reply
<1> HIDE DEF reply
<1>4. Becomes(job[j], x, job[j].stmt, reply, job[j].space, "none", job[j].answer)
  <2>1. /\ job[j] \in JobRecord /\ reply \in {"row", "no row", "rejected", "broken"}
        /\ "none" \in {"none", "open", "space", "space and member"}
    BY <1>1, <1>3
  <2> QED BY <2>1, RepliedJob, Zenon
<1> HIDE DEF x
<1>5. /\ x \in JobRecord /\ SameJob(job[j], x)
      /\ x.stmt = "commit" /\ x.space = job[j].space /\ x.reply = reply
  BY <1>2, <1>4, Zenon DEF Becomes
<1>6. job'[j] = x /\ \A i \in Jobs \ {j} : job'[i] = job[i]
  BY <1>1, <1>2
<1>7. /\ job[j].space # Null /\ job[j].name # Null /\ job[j].record # Null
      /\ Memberships(job[j].space) = {}
  <2>1. job[j].space # Null /\ job[j].name # Null /\ job[j].record # Null
    BY <1>1, <1>2 DEF JobStatementInv, JobChecked
  <2> QED BY <1>1, <1>2, <2>1 DEF JobTableInv
<1>8. /\ spaces' \in SpaceTable /\ members' \subseteq Membership
      /\ spaces'[job[j].space] = job[j].name
      /\ MembersAfter(job[j].space) = {MemberOf(job[j])}
      /\ \A s \in SpaceIds \ {job[j].space} :
           spaces'[s] = spaces[s] /\ MembersAfter(s) = Memberships(s)
  <2>1. /\ SpacesTypeOK /\ job[j] \in JobRecord /\ CommitWrites(job[j])
        /\ job[j].space # Null /\ job[j].name # Null /\ job[j].record # Null
        /\ Memberships(job[j].space) = {}
    BY <1>1, <1>2, <1>7
  <2>2. Committed(job[j])
    BY <2>1, CommitAddsOne, Zenon
  <2> QED BY <2>2 DEF Committed
<1>9. SpacesTypeOK'
  BY <1>1, <1>2, <1>5, <1>8 DEF SpacesTypeOK
<1>10. sessions' = sessions /\ clock' = clock /\ req' = req
  BY <1>2 DEF vars
<1>11. MemberOf(x) = MemberOf(job[j]) /\ x.name = job[j].name
  BY <1>5 DEF MemberOf, SameJob
<1>12. JobStatementInv(job[j])' /\ JobTableInv(job[j])'
  <2>1. JobStatementInv(x)
    BY <1>1, <1>2, <1>3, <1>4, CommittedStatement
  <2>2. JobStatementInv(job[j])'
    BY <1>6, <1>10, <2>1, Zenon DEF JobStatementInv, EnsureActive
  <2>3. job'[j].token = job[j].token /\ job'[j].record = job[j].record
    BY <1>5, <1>6 DEF SameJob
  <2>4. JobTableInv(job[j])'
    BY <1>1, <1>3, <1>5, <1>6, <1>8, <1>10, <1>11, <2>3
       DEF JobTableInv, MemberOf, Memberships, MembersAfter
  <2> QED BY <2>2, <2>4
<1>13. ASSUME NEW i \in Jobs \ {j}
       PROVE  JobStatementInv(job[i])' /\ JobTableInv(job[i])'
  <2>1. /\ JobStatementInv(job[i]) /\ JobTableInv(job[i])
        /\ job[i].space \in SpaceIds \union {Null}
        /\ job[i].space # job[j].space
    BY <1>1, <1>7 DEF SpacesInv, JobRecord
  <2>2. JobStatementInv(job[i])'
    BY <1>6, <1>10, <2>1, Zenon DEF JobStatementInv, EnsureActive
  <2>3. job[i].stmt = "commit" => job[i].space # Null
    BY <2>1 DEF JobStatementInv
  <2>4. job[i].space # Null => /\ spaces'[job[i].space] = spaces[job[i].space]
                               /\ Memberships(job[i].space)' = Memberships(job[i].space)
    BY <1>6, <1>8, <2>1 DEF Memberships, MembersAfter
  <2>5. JobTableInv(job[i])'
    BY <1>6, <1>10, <2>1, <2>3, <2>4 DEF JobTableInv, MemberOf
  <2> QED BY <2>2, <2>5
<1>14. ASSUME NEW d \in Requests, NEW i \in Jobs
       PROVE  JobHistoryInv(d, job[i])'
  <2>1. JobHistoryInv(d, job[i])
    BY DEF SpacesInv
  <2>2. /\ job'[i].before = job[i].before /\ job'[i].token = job[i].token
        /\ job'[i].record = job[i].record
    BY <1>5, <1>6 DEF SameJob
  <2> QED BY <1>10, <2>1, <2>2 DEF JobHistoryInv, Answered
<1>15. ASSUME NEW i \in Jobs, NEW k \in Jobs, i # k, job'[i].space # Null
       PROVE  job'[i].space # job'[k].space
  <2>1. \A a, b \in Jobs : a # b /\ job[a].space # Null => job[a].space # job[b].space
    BY DEF SpacesInv
  <2>2. job'[i].space = job[i].space /\ job'[k].space = job[k].space
    BY <1>5, <1>6
  <2> QED BY <1>15, <2>1, <2>2
<1>16. ASSUME NEW s \in SpaceIds, spaces'[s] # Null \/ Memberships(s)' # {}
       PROVE  \E i \in Jobs : MadeBy(s, job[i])'
  <2>1. CASE s = job[j].space
    <3>1. MadeBy(s, job[j])'
      BY <1>5, <1>6, <1>7, <1>8, <1>11, <2>1
         DEF MadeBy, MemberOf, Memberships, MembersAfter
    <3> QED BY <3>1
  <2>2. CASE s # job[j].space
    <3>1. spaces'[s] = spaces[s] /\ Memberships(s)' = Memberships(s)
      BY <1>8, <2>2 DEF Memberships, MembersAfter
    <3>2. PICK i \in Jobs : MadeBy(s, job[i])
      BY <1>16, <3>1 DEF SpacesInv
    <3>3. job'[i] = job[i]
      BY <1>6, <2>2, <3>2 DEF MadeBy
    <3>4. MadeBy(s, job[i])'
      BY <3>1, <3>2, <3>3 DEF MadeBy, MemberOf
    <3> QED BY <3>4
  <2> QED BY <2>1, <2>2
<1> QED BY <1>9, <1>12, <1>13, <1>14, <1>15, <1>16 DEF SpacesInv

----------------------------------------------------------------------------
(* Steps of the rest of the program.                                          *)

\* y is x, or x without its connection to the client
Surviving(x, y) ==
    /\ y \in JobRecord /\ SameJob(x, y)
    /\ y.stmt = x.stmt /\ y.reply = x.reply /\ y.space = x.space /\ y.tx = x.tx
    /\ \/ y.answer = x.answer
       \/ x.answer = "pending" /\ y.answer = "connection lost"

(* A session that is live later was live before.                              *)
LEMMA LiveBefore ==
    ASSUME NEW x \in JobRecord, clock \in Int, clock' \in Int, clock <= clock',
           x.record # Null, EnsureActive(x.record, clock')
    PROVE  EnsureActive(x.record, clock)
<1>1. x.record \in SessionRow
  BY DEF JobRecord
<1>2. x.record.expires_at \in Int
  BY <1>1 DEF SessionRow
<1> QED BY <1>2 DEF EnsureActive

(* The statement tells as much of a job later.                                *)
LEMMA SurvivingStatement ==
    ASSUME NEW x \in JobRecord, NEW y, Surviving(x, y), NEW i \in Jobs, job'[i] = y,
           JobStatementInv(x), clock \in Int, clock' \in Int, clock <= clock'
    PROVE  JobStatementInv(job[i])'
<1>1. /\ SameJob(x, y) /\ y.stmt = x.stmt /\ y.reply = x.reply /\ y.space = x.space
      /\ y.tx = x.tx /\ y.answer \in {x.answer, "connection lost"}
      /\ x.answer = "none" => y.answer = "none"
      /\ y.answer = "none" => x.answer = "none"
      /\ y.answer = "OK" => x.answer = "OK"
  BY DEF Surviving
<1>2. x.record # Null /\ EnsureActive(x.record, clock') => EnsureActive(x.record, clock)
  BY LiveBefore
<1> HIDE DEF EnsureActive
<1> QED BY <1>1, <1>2, Zenon DEF JobStatementInv, SameJob

(* When the sessions only grow and nothing is written to the tables of this   *)
(* module, the jobs keep the invariant.                                       *)
LEMMA RestKeeps ==
    ASSUME SpacesInv, Monotone, UNCHANGED <<spaces, members>>,
           job' \in [Jobs -> JobRecord],
           \A i \in Jobs : Surviving(job[i], job'[i])
    PROVE  SpacesInv'
<1>1. /\ spaces' = spaces /\ members' = members
      /\ clock \in Int /\ clock' \in Int /\ clock <= clock'
      /\ Grows(sessions, sessions')
  BY DEF Monotone
<1>2. SpacesTypeOK'
  BY <1>1 DEF SpacesInv, SpacesTypeOK
<1>3. ASSUME NEW i \in Jobs
      PROVE  /\ job'[i].token = job[i].token /\ job'[i].record = job[i].record
             /\ job'[i].before = job[i].before /\ job'[i].name = job[i].name
             /\ job'[i].stmt = job[i].stmt /\ job'[i].reply = job[i].reply
             /\ job'[i].space = job[i].space
  BY DEF Surviving, SameJob
<1>4. ASSUME NEW i \in Jobs PROVE JobStatementInv(job[i])'
  <2>1. job[i] \in JobRecord /\ JobStatementInv(job[i]) /\ Surviving(job[i], job'[i])
    BY DEF SpacesInv, SpacesTypeOK
  <2> QED BY <1>1, <2>1, SurvivingStatement
<1>5. ASSUME NEW i \in Jobs PROVE JobTableInv(job[i])'
  <2>1. JobTableInv(job[i])
    BY DEF SpacesInv
  <2>2. job[i].record # Null =>
          /\ sessions'[HashToken(job[i].token)] # Null
          /\ sessions'[HashToken(job[i].token)].user_id = job[i].record.user_id
    BY <1>1, <2>1, HashTokenInjective DEF JobTableInv, Grows
  <2> QED BY <1>1, <1>3, <2>1, <2>2 DEF JobTableInv, MemberOf, Memberships
<1>6. ASSUME NEW d \in Requests, NEW i \in Jobs PROVE JobHistoryInv(d, job[i])'
  <2>1. JobHistoryInv(d, job[i])
    BY DEF SpacesInv
  <2>2. Answered(d) => /\ req'[d].answer = req[d].answer
                       /\ req'[d].endpoint = req[d].endpoint
                       /\ req'[d].token = req[d].token
    BY DEF Monotone
  <2> QED BY <1>3, <2>1, <2>2 DEF JobHistoryInv, Answered
<1>7. ASSUME NEW i \in Jobs, NEW k \in Jobs, i # k, job'[i].space # Null
      PROVE  job'[i].space # job'[k].space
  <2>1. \A a, b \in Jobs : a # b /\ job[a].space # Null => job[a].space # job[b].space
    BY DEF SpacesInv
  <2>2. job'[i].space = job[i].space /\ job'[k].space = job[k].space
    BY <1>3
  <2> QED BY <1>7, <2>1, <2>2
<1>8. ASSUME NEW s \in SpaceIds, spaces'[s] # Null \/ Memberships(s)' # {}
      PROVE  \E i \in Jobs : MadeBy(s, job[i])'
  <2>1. spaces[s] # Null \/ Memberships(s) # {}
    BY <1>1, <1>8 DEF Memberships
  <2>2. PICK i \in Jobs : MadeBy(s, job[i])
    BY <2>1 DEF SpacesInv
  <2>3. MadeBy(s, job[i])'
    BY <1>1, <1>3, <2>2 DEF MadeBy, Memberships, MemberOf
  <2> QED BY <2>3
<1> QED BY <1>2, <1>4, <1>5, <1>6, <1>7, <1>8 DEF SpacesInv

(* A job that does not move survives.                                         *)
LEMMA IdleSurvives ==
    ASSUME NEW x \in JobRecord
    PROVE  Surviving(x, x)
BY DEF Surviving, SameJob

\* x when the process dies under it
Dropped(x) == [x EXCEPT !.answer = "connection lost"]

(* So does one that loses its connection.                                     *)
LEMMA DroppedSurvives ==
    ASSUME NEW x \in JobRecord, x.answer = "pending"
    PROVE  Surviving(x, Dropped(x))
<1> DEFINE y == Dropped(x)
<1>1. y = Dropped(x)
  OBVIOUS
<1> HIDE DEF y
<1>2. Surviving(x, y)
  BY <1>1 DEF Dropped, JobRecord, SameJob, Surviving
<1> QED BY <1>2 DEF y

(* A step that leaves the variables of this module alone keeps the invariant. *)
LEMMA OtherStepKeeps ==
    ASSUME IInv, SpacesInv, SessionsMove, UNCHANGED spaceVars
    PROVE  SpacesInv'
<1>1. spaces' = spaces /\ members' = members /\ job' = job
  BY DEF spaceVars
<1>2. job \in [Jobs -> JobRecord]
  BY DEF SpacesInv, SpacesTypeOK
<1>3. Monotone
  BY SessionsAreMonotone
<1>4. \A i \in Jobs : Surviving(job[i], job'[i])
  BY <1>1, <1>2, IdleSurvives
<1> QED BY <1>1, <1>2, <1>3, <1>4, RestKeeps

(* So does the end of the process.                                            *)
LEMMA ProcessDiesKeeps ==
    ASSUME IInv, SpacesInv, ProcessDies
    PROVE  SpacesInv'
<1>1. SessionsMove /\ UNCHANGED <<spaces, members>>
  BY Zenon DEF ProcessDies, SessionsMove, Next
<1>2. job \in [Jobs -> JobRecord]
  BY DEF SpacesInv, SpacesTypeOK
<1>3. job' = [j \in Jobs |-> IF JobPending(j) THEN Dropped(job[j]) ELSE job[j]]
  BY Zenon DEF ProcessDies, Dropped
<1>4. ASSUME NEW i \in Jobs PROVE Surviving(job[i], job'[i])
  <2>1. CASE JobPending(i)
    BY <1>2, <1>3, <2>1, DroppedSurvives DEF JobPending
  <2>2. CASE ~JobPending(i)
    BY <1>2, <1>3, <2>2, IdleSurvives
  <2> QED BY <2>1, <2>2
<1>5. job' \in [Jobs -> JobRecord]
  <2>1. \A i \in Jobs : job'[i] \in JobRecord
    BY <1>4 DEF Surviving
  <2> QED BY <1>3, <2>1
<1>6. Monotone
  BY <1>1, SessionsAreMonotone
<1> QED BY <1>1, <1>4, <1>5, <1>6, RestKeeps

----------------------------------------------------------------------------
(* The theorems.                                                              *)

(* Nothing has happened yet.                                                  *)
LEMMA SpacesInitInv ==
    ASSUME SpacesInit
    PROVE  SpacesInv
<1>1. /\ spaces = [s \in SpaceIds |-> Null] /\ members = {}
      /\ job = [j \in Jobs |-> NoJob]
  BY DEF SpacesInit
<1>2. /\ NoJob \in JobRecord /\ NoJob.stmt = Null /\ NoJob.record = Null
      /\ NoJob.space = Null /\ NoJob.tx = "none" /\ NoJob.answer = "none"
      /\ NoJob.before = {}
  BY DEF NoJob, JobRecord
<1> HIDE DEF NoJob
<1>3. SpacesTypeOK
  BY <1>1, <1>2 DEF SpacesTypeOK, SpaceTable
<1>4. JobStatementInv(NoJob) /\ JobTableInv(NoJob)
  BY <1>2, NullIsNoJobString DEF JobStatementInv, JobTableInv, JobChecked, CreateStatements
<1>5. \A j \in Jobs : JobStatementInv(job[j]) /\ JobTableInv(job[j])
  BY <1>1, <1>4, Zenon
<1>6. \A d \in Requests, j \in Jobs : JobHistoryInv(d, job[j])
  BY <1>1, <1>2 DEF JobHistoryInv
<1>7. \A s \in SpaceIds : spaces[s] = Null /\ Memberships(s) = {}
  BY <1>1 DEF Memberships
<1>8. \A j \in Jobs : job[j].space = Null
  BY <1>1, <1>2
<1> QED BY <1>3, <1>5, <1>6, <1>7, <1>8 DEF SpacesInv

(* The step of a job keeps the invariant.                                     *)
LEMMA JobStepKeeps ==
    ASSUME IInv, SpacesInv, NEW j \in Jobs,
           JobArrive(j) \/ JobExecute(j) \/ JobBreak(j) \/ JobResume(j)
    PROVE  SpacesInv'
<1>1. CASE JobExecute(j)
  <2>1. PICK lost \in BOOLEAN :
          \/ JobSelect(j, lost) \/ JobGetUser(j, lost) \/ JobSearch(j, lost)
          \/ JobBegin(j, lost) \/ JobInsertSpace(j, lost) \/ JobInsertRefused(j, lost)
          \/ JobInsertMember(j, lost) \/ JobCommit(j, lost) \/ JobRollback(j, lost)
    BY <1>1, Zenon DEF JobExecute
  <2> QED BY <2>1, JobSelectKeeps, JobExecuteKeeps, JobInsertSpaceKeeps, JobCommitKeeps
<1>2. CASE JobBreak(j)
  <2>1. TRUE \in BOOLEAN
    OBVIOUS
  <2> QED BY <1>2, <2>1, JobExecuteKeeps
<1> QED BY <1>1, <1>2, JobArriveKeeps, JobResumeKeeps

(* The inductive invariant of jobs next to requests, on top of that of        *)
(* Sessions: which session each job was let in by, what its transaction holds *)
(* and which job every committed space is from.                               *)
THEOREM SpacesInvariance == SpacesSpec => []SpacesInv
<1>1. IInv /\ SpacesInv /\ [SpacesNext]_<<vars, spaceVars>> => SpacesInv'
  <2> SUFFICES ASSUME IInv, SpacesInv, [SpacesNext]_<<vars, spaceVars>>
               PROVE  SpacesInv'
    OBVIOUS
  <2>1. CASE SessionStep
    <3>1. SessionsMove /\ UNCHANGED spaceVars
      BY <2>1, Zenon DEF SessionStep, SessionsMove, Next
    <3> QED BY <3>1, OtherStepKeeps
  <2>2. CASE \E j \in Jobs : JobArrive(j) \/ JobExecute(j) \/ JobBreak(j) \/ JobResume(j)
    BY <2>2, JobStepKeeps
  <2>3. CASE ProcessDies
    BY <2>3, ProcessDiesKeeps
  <2>4. CASE SpacesIdle
    <3>1. SessionsMove /\ UNCHANGED spaceVars
      BY <2>4, Zenon DEF SpacesIdle, SessionsMove, Next
    <3> QED BY <3>1, OtherStepKeeps
  <2>5. CASE UNCHANGED <<vars, spaceVars>>
    <3>1. SessionsMove /\ UNCHANGED spaceVars
      BY <2>5, Zenon DEF SessionsMove
    <3> QED BY <3>1, OtherStepKeeps
  <2> QED BY <2>1, <2>2, <2>3, <2>4, <2>5, Zenon DEF SpacesNext
<1>2. SpacesInit => SpacesInv
  BY SpacesInitInv
<1> QED BY <1>1, <1>2, Composition, Invariance, PTL DEF SpacesSpec

(* Every variable of jobs and spaces holds values of its kind.                *)
THEOREM SpacesTypeCorrect == SpacesSpec => []SpacesTypeOK
<1>1. SpacesInv => SpacesTypeOK
  BY DEF SpacesInv
<1> QED BY <1>1, SpacesInvariance, PTL

(* A logout answered 200 ends POST /spaces and GET /users/search for its      *)
(* session as well (revoke_session, and get_session of both handlers).        *)
THEOREM LogoutReachesJobs == SpacesSpec => []LogoutStopsJobs
<1>1. SpacesInv => LogoutStopsJobs
  <2> SUFFICES ASSUME SpacesInv, NEW d \in Requests, NEW j \in Jobs,
                      req[d].endpoint = "DELETE /session", req[d].answer = "OK",
                      d \in job[j].before, job[j].token = req[d].token
               PROVE  job[j].answer # "OK" /\ job[j].space = Null
    BY DEF LogoutStopsJobs
  <2>1. JobHistoryInv(d, job[j]) /\ JobStatementInv(job[j])
    BY DEF SpacesInv
  <2>2. job[j].record = Null \/ job[j].record.revoked_at # Null
    BY <2>1 DEF JobHistoryInv
  <2>3. job[j].stmt \notin JobChecked
    BY <2>1, <2>2 DEF JobStatementInv
  <2> QED BY <2>1, <2>3 DEF JobStatementInv, JobChecked
<1> QED BY <1>1, SpacesInvariance, PTL

(* Every space was made by a POST /spaces that was let in by a live session,  *)
(* and its one member is the user of that session (create_space).             *)
THEOREM OwnerIsSessionUser == SpacesSpec => []CreatedForSession
<1>1. SpacesInv => CreatedForSession
  <2> SUFFICES ASSUME SpacesInv, NEW s \in SpaceIds, spaces[s] # Null
               PROVE  \E j \in Jobs :
                        /\ job[j].space = s /\ job[j].endpoint = "POST /spaces"
                        /\ job[j].active
                        /\ Memberships(s) =
                             {[user_id |-> sessions[JobHash(j)].user_id, space_id |-> s,
                               role |-> "owner"]}
    BY DEF CreatedForSession
  <2>1. PICK j \in Jobs : MadeBy(s, job[j])
    BY DEF SpacesInv
  <2>2. JobStatementInv(job[j]) /\ JobTableInv(job[j])
    BY DEF SpacesInv
  <2>3. job[j].space = s /\ job[j].stmt = "commit"
    BY <2>1 DEF MadeBy
  <2>4. job[j].endpoint = "POST /spaces" /\ job[j].record # Null
    BY <2>2, <2>3 DEF JobStatementInv, JobChecked, CreateStatements
  <2>5. job[j].active
    <3>1. job[j].active = TRUE
      BY <2>2, <2>3 DEF JobStatementInv, JobChecked
    <3> QED BY <3>1, Zenon
  <2>6. sessions[JobHash(j)].user_id = job[j].record.user_id
    BY <2>2, <2>4 DEF JobTableInv, JobHash
  <2>7. Memberships(s) = {MemberOf(job[j])}
    BY <2>1 DEF MadeBy
  <2> QED BY <2>3, <2>4, <2>5, <2>6, <2>7, Zenon DEF MemberOf
<1> QED BY <1>1, SpacesInvariance, PTL

(* A job that was not served leaves neither a space nor a membership, unless  *)
(* the reply to its COMMIT was lost (transaction() in create_space).          *)
THEOREM FailedLeavesNothing == SpacesSpec => []FailureLeavesNothing
<1>1. SpacesInv => FailureLeavesNothing
  BY DEF SpacesInv, FailureLeavesNothing, JobTableInv
<1> QED BY <1>1, SpacesInvariance, PTL

(* A space answered 201 is in its table, with its owner.                      *)
THEOREM AnsweredExists == SpacesSpec => []AnsweredSpaceExists
<1>1. SpacesInv => AnsweredSpaceExists
  <2> SUFFICES ASSUME SpacesInv, NEW j \in Jobs,
                      job[j].answer = "OK", job[j].endpoint = "POST /spaces"
               PROVE  spaces[job[j].space] = job[j].name /\ Memberships(job[j].space) # {}
    BY DEF AnsweredSpaceExists
  <2>1. JobStatementInv(job[j]) /\ JobTableInv(job[j])
    BY DEF SpacesInv
  <2>2. job[j].stmt = "commit" /\ job[j].reply = "row"
    BY <2>1 DEF JobStatementInv
  <2> QED BY <2>1, <2>2 DEF JobTableInv
<1> QED BY <1>1, SpacesInvariance, PTL

(* A job is served only when its session was live after it arrived.           *)
THEOREM JobsServedActive == SpacesSpec => []JobServedOnlyIfActive
<1>1. SpacesInv => JobServedOnlyIfActive
  <2> SUFFICES ASSUME SpacesInv, NEW j \in Jobs, job[j].answer = "OK"
               PROVE  job[j].active = TRUE
    BY Zenon DEF JobServedOnlyIfActive
  <2>1. JobStatementInv(job[j])
    BY DEF SpacesInv
  <2> QED BY <2>1 DEF JobStatementInv, JobChecked
<1> QED BY <1>1, SpacesInvariance, PTL

----------------------------------------------------------------------------
(* Refinement.                                                                *)

(* Only a COMMIT writes the two tables.                                       *)
LEMMA OnlyCommitWrites ==
    ASSUME [SpacesNext]_<<vars, spaceVars>>
    PROVE  \/ UNCHANGED <<spaces, members>>
           \/ \E j \in Jobs, lost \in BOOLEAN : JobCommit(j, lost)
<1>1. ASSUME NEW j \in Jobs, JobArrive(j) \/ JobBreak(j) \/ JobResume(j)
      PROVE  UNCHANGED <<spaces, members>>
  BY <1>1, Zenon DEF JobArrive, RejectInput, RejectJobHeader, JobNoConnection, StartJob, Only,
         JobBreak, JobResume, JobFailed, JobRejected, JobUnknown, JobInactive, JobGetSession,
         JobBlankName, JobStartSpace, JobStartSearch, JobProceed, JobServed, JobAnswer, JobSend
<1>2. ASSUME NEW j \in Jobs, NEW lost \in BOOLEAN,
             \/ JobSelect(j, lost) \/ JobGetUser(j, lost) \/ JobSearch(j, lost)
             \/ JobBegin(j, lost) \/ JobInsertSpace(j, lost) \/ JobInsertRefused(j, lost)
             \/ JobInsertMember(j, lost) \/ JobRollback(j, lost)
      PROVE  UNCHANGED <<spaces, members>>
  BY <1>2, Zenon DEF JobSelect, JobGetUser, JobSearch, JobBegin, JobInsertSpace,
         JobInsertRefused, JobInsertMember, JobRollback, Only
<1>3. ASSUME NEW j \in Jobs, JobExecute(j)
      PROVE  UNCHANGED <<spaces, members>> \/ \E lost \in BOOLEAN : JobCommit(j, lost)
  <2>1. PICK lost \in BOOLEAN :
          \/ JobSelect(j, lost) \/ JobGetUser(j, lost) \/ JobSearch(j, lost)
          \/ JobBegin(j, lost) \/ JobInsertSpace(j, lost) \/ JobInsertRefused(j, lost)
          \/ JobInsertMember(j, lost) \/ JobCommit(j, lost) \/ JobRollback(j, lost)
    BY <1>3, Zenon DEF JobExecute
  <2> QED BY <1>2, <2>1
<1>4. CASE SessionStep \/ ProcessDies \/ SpacesIdle \/ UNCHANGED <<vars, spaceVars>>
  BY <1>4, Zenon DEF SessionStep, ProcessDies, SpacesIdle, spaceVars
<1> QED BY <1>1, <1>3, <1>4, Zenon DEF SpacesNext

(* A COMMIT creates its space in the registry, with its owner, at once.       *)
LEMMA CommitIsCreate ==
    ASSUME SpacesInv, NEW j \in Jobs, NEW lost \in BOOLEAN, JobCommit(j, lost)
    PROVE  Registry!RegistryNext
<1>0. PICK s0, u : s0 = job[j].space /\ u = job[j].record.user_id
  OBVIOUS
<1>1. /\ JobStatementInv(job[j]) /\ JobTableInv(job[j]) /\ job[j] \in JobRecord
      /\ SpacesTypeOK
  BY DEF SpacesInv, SpacesTypeOK
<1>2. /\ job[j].stmt = "commit" /\ job[j].reply = "awaited" /\ CommitWrites(job[j])
  BY Zenon DEF JobCommit, JobExecutes, CommitWrites, MemberOf
<1>3. /\ job[j].space # Null /\ job[j].name # Null /\ job[j].record # Null
      /\ spaces[job[j].space] = Null /\ Memberships(job[j].space) = {}
  <2>1. job[j].space # Null /\ job[j].name # Null /\ job[j].record # Null
    BY <1>1, <1>2 DEF JobStatementInv, JobChecked
  <2> QED BY <1>1, <1>2, <2>1 DEF JobTableInv
<1>4. Committed(job[j])
  <2>1. /\ SpacesTypeOK /\ job[j] \in JobRecord /\ CommitWrites(job[j])
        /\ job[j].space # Null /\ job[j].name # Null /\ job[j].record # Null
        /\ Memberships(job[j].space) = {}
    BY <1>1, <1>2, <1>3
  <2> QED BY <2>1, CommitAddsOne, Zenon
<1>5. s0 \in SpaceIds /\ u \in TgIds
  <2>1. job[j].record \in SessionRow /\ job[j].space \in SpaceIds
    BY <1>1, <1>3 DEF JobRecord
  <2> QED BY <1>0, <2>1 DEF SessionRow
<1>6. /\ spaces'[s0] # Null /\ Memberships(s0)' = {MemberOf(job[j])}
      /\ \A s \in SpaceIds \ {s0} :
           spaces'[s] = spaces[s] /\ Memberships(s)' = Memberships(s)
  <2>1. /\ spaces'[job[j].space] # Null
        /\ MembersAfter(job[j].space) = {MemberOf(job[j])}
        /\ \A s \in SpaceIds \ {job[j].space} :
             spaces'[s] = spaces[s] /\ MembersAfter(s) = Memberships(s)
    BY <1>3, <1>4 DEF Committed
  <2> QED BY <1>0, <2>1 DEF Memberships, MembersAfter
<1>7. MemberOf(job[j]).user_id = u /\ MemberOf(job[j]).role = "owner"
  BY <1>0 DEF MemberOf
<1> DEFINE entry(s) == [exists |-> spaces[s] # Null,
                        owners |-> {m.user_id : m \in {n \in Memberships(s) : n.role = "owner"}}]
<1>8. RegistryOf = [s \in SpaceIds |-> entry(s)]
  BY DEF RegistryOf
<1>9. entry(s0) = Registry!Nothing
  <2>1. (spaces[s0] # Null) = FALSE
    BY <1>0, <1>3, Zenon
  <2>2. {m.user_id : m \in {n \in Memberships(s0) : n.role = "owner"}} = {}
    BY <1>0, <1>3
  <2> QED BY <2>1, <2>2, Zenon DEF Registry!Nothing
<1>10. entry(s0)' = [exists |-> TRUE, owners |-> {u}]
  <2>1. (spaces'[s0] # Null) = TRUE
    BY <1>6, Zenon
  <2>2. {m.user_id : m \in {n \in {MemberOf(job[j])} : n.role = "owner"}} = {u}
    BY <1>7
  <2>3. Memberships(s0)' = {MemberOf(job[j])}
    BY <1>6
  <2>4. {m.user_id : m \in {n \in Memberships(s0)' : n.role = "owner"}} = {u}
    BY <2>2, <2>3, Zenon
  <2> QED BY <2>1, <2>4, Zenon
<1>11. \A s \in SpaceIds \ {s0} : entry(s)' = entry(s)
  BY <1>6, Zenon
<1>12. RegistryOf' = [s \in SpaceIds |-> entry(s)']
  BY DEF RegistryOf
<1> HIDE DEF entry
<1>13. RegistryOf' = [RegistryOf EXCEPT ![s0] = [exists |-> TRUE, owners |-> {u}]]
  BY <1>5, <1>8, <1>10, <1>11, <1>12
<1>14. RegistryOf[s0] = Registry!Nothing
  BY <1>5, <1>8, <1>9
<1> QED BY <1>5, <1>13, <1>14 DEF Registry!RegistryNext, Registry!Create

(* The tables of spaces and members implement SpaceRegistry: one step makes   *)
(* the space and its owner, whatever breaks between the two inserts.          *)
THEOREM SpacesRefinement == SpacesSpec => ImplementsRegistry
<1>1. SpacesInv /\ [SpacesNext]_<<vars, spaceVars>> =>
        [Registry!RegistryNext]_RegistryOf
  <2> SUFFICES ASSUME SpacesInv, [SpacesNext]_<<vars, spaceVars>>
               PROVE  [Registry!RegistryNext]_RegistryOf
    OBVIOUS
  <2>1. CASE UNCHANGED <<spaces, members>>
    BY <2>1 DEF RegistryOf, Memberships
  <2>2. ASSUME NEW j \in Jobs, NEW lost \in BOOLEAN, JobCommit(j, lost)
        PROVE  Registry!RegistryNext
    BY <2>2, CommitIsCreate
  <2> QED BY <2>1, <2>2, OnlyCommitWrites
<1>2. SpacesInit => Registry!RegistryInit
  <2> SUFFICES ASSUME SpacesInit PROVE Registry!RegistryInit
    OBVIOUS
  <2>1. spaces = [s \in SpaceIds |-> Null] /\ members = {}
    BY DEF SpacesInit
  <2>2. ASSUME NEW s \in SpaceIds
        PROVE  [exists |-> spaces[s] # Null,
                owners |-> {m.user_id : m \in {n \in Memberships(s) : n.role = "owner"}}]
                 = Registry!Nothing
    <3>1. (spaces[s] # Null) = FALSE
      BY <2>1, <2>2
    <3>2. {m.user_id : m \in {n \in Memberships(s) : n.role = "owner"}} = {}
      BY <2>1 DEF Memberships
    <3> QED BY <3>1, <3>2, Zenon DEF Registry!Nothing
  <2>3. RegistryOf = [s \in SpaceIds |-> Registry!Nothing]
    BY <2>2 DEF RegistryOf
  <2> QED BY <2>3 DEF Registry!RegistryInit
<1> QED BY <1>1, <1>2, SpacesInvariance, PTL
        DEF SpacesSpec, ImplementsRegistry, Registry!RegistrySpec
=============================================================================
