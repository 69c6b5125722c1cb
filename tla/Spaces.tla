-------------------------------- MODULE Spaces --------------------------------
(* POST /spaces and GET /users/search, next to the session endpoints on the   *)
(* same tables.  Both check the session as GET /session does and then go on:  *)
(* the first with a transaction of two inserts, the second with one SELECT.   *)
(* As in Sessions each statement is two steps, and so are BEGIN, COMMIT and   *)
(* ROLLBACK; a job is such a request.                                         *)
EXTENDS Sessions

CONSTANTS
    Jobs,           \* identities of the requests of this module
    JobEndpoints,   \* the endpoints they are made to
    SpaceIds        \* what gen_random_uuid() returns: it repeats none

Names == {"text", "blank", "unstorable"}

(* The statements of a job, by the methods that send them.                    *)
JobStatements ==
    {"get_by_token_hash", "get_by_id", "begin", "insert_space", "insert_member",
     "commit", "rollback", "search_by_username"}

EndpointsOfJobs == {"POST /spaces", "GET /users/search"}

ASSUME SpaceConstants ==
    /\ JobEndpoints \subseteq EndpointsOfJobs
    /\ Null \notin EndpointsOfJobs \union JobStatements \union Names \union SpaceIds

VARIABLES
    spaces,    \* the spaces table: the name of each committed row
    members,   \* the space_memberships table
    job        \* the coroutine of each job and its transaction, see JobRecord

spaceVars == <<spaces, members, job>>

SpaceTable == [SpaceIds -> Names \union {Null}]

Membership == [user_id : TgIds, space_id : SpaceIds, role : {"owner"}]

JobRecord ==
    [endpoint : JobEndpoints \union {Null},
     stmt     : JobStatements \union {Null},
     reply    : {"none", "awaited", "row", "no row", "rejected", "broken"},
     token    : Tokens \union {Bogus, Null},
     name     : Names \union {Null},      \* the name of the space, or q
     record   : SessionRow \union {Null},
     space    : SpaceIds \union {Null},   \* RETURNING id
     \* what its open transaction holds that is not committed
     tx       : {"none", "open", "space", "space and member"},
     answer   : {"none", "pending", "OK", "connection lost"} \union ErrorCodes,
     \* history, as in Sessions
     before   : SUBSET Requests,
     active   : BOOLEAN]

NoJob ==
    [endpoint |-> Null, stmt |-> Null, reply |-> "none", token |-> Null,
     name |-> Null, record |-> Null, space |-> Null, tx |-> "none",
     answer |-> "none", before |-> {}, active |-> FALSE]

JobPending(j) == job[j].answer = "pending"

SpacesInit ==
    /\ Init
    /\ spaces = [s \in SpaceIds |-> Null]
    /\ members = {}
    /\ job = [j \in Jobs |-> NoJob]

----------------------------------------------------------------------------
(* Arrival.                                                                   *)

JobArrives(j, e) == job[j].answer = "none" /\ e \in JobEndpoints

JobArrival(e) == [NoJob EXCEPT !.endpoint = e, !.answer = "pending",
                               !.before = {q \in Requests : Answered(q)}]

Only(j, record) ==
    /\ job' = [job EXCEPT ![j] = record]
    /\ UNCHANGED <<vars, spaces, members>>

(* name is missing, empty, too long or no string; q or limit is out of range: *)
(* refused before the handler, whatever the header says.                      *)
RejectInput(j, e) ==
    /\ JobArrives(j, e)
    /\ Only(j, [JobArrival(e) EXCEPT !.answer = "VALIDATION_ERROR"])

(* Both modules have their own _extract_bearer_token, the same one.           *)
RejectJobHeader(j, e, header) ==
    /\ JobArrives(j, e)
    /\ Only(j, [JobArrival(e) EXCEPT !.answer = HeaderError(header)])

JobNoConnection(j, e) ==
    /\ Faults
    /\ JobArrives(j, e)
    /\ Only(j, [JobArrival(e) EXCEPT !.answer = "INTERNAL_ERROR", !.reply = "broken"])

StartJob(j, e, t, name) ==
    /\ JobArrives(j, e)
    /\ Only(j, [JobArrival(e) EXCEPT !.token = t, !.name = name,
                                     !.stmt = "get_by_token_hash", !.reply = "awaited"])

JobArrive(j) ==
    \E e \in JobEndpoints :
        \/ RejectInput(j, e) \/ JobNoConnection(j, e)
        \/ \E h \in {"absent", "malformed"} : RejectJobHeader(j, e, h)
        \/ \E t \in KnownTokens \union {Bogus}, n \in Names : StartJob(j, e, t, n)

----------------------------------------------------------------------------
(* Statements.  A connection that breaks takes its transaction with it, but   *)
(* for a COMMIT whose reply is lost.                                          *)

JobExecutes(j, s) == job[j].stmt = s /\ job[j].reply = "awaited"

JobHash(j) == HashToken(job[j].token)

JobSelect(j, lost) ==
    /\ JobExecutes(j, "get_by_token_hash")
    /\ LET row == GetByTokenHash(sessions, JobHash(j)) IN
         Only(j, [job[j] EXCEPT
                    !.reply = Reply(lost, IF row = Null THEN "no row" ELSE "row"),
                    !.record = IF lost THEN Null ELSE row,
                    !.active = ~lost /\ ActiveNow(row)])

JobGetUser(j, lost) ==
    /\ JobExecutes(j, "get_by_id")
    /\ Only(j, [job[j] EXCEPT
                  !.reply = Reply(lost, IF UserExists(users, job[j].record.user_id)
                                          THEN "row" ELSE "no row")])

(* search_by_username reads only; PostgreSQL takes no NUL in a text.          *)
JobSearch(j, lost) ==
    /\ JobExecutes(j, "search_by_username")
    /\ Only(j, [job[j] EXCEPT
                  !.reply = Reply(lost, IF job[j].name = "unstorable"
                                          THEN "rejected" ELSE "row")])

(* connection.transaction().__aenter__                                        *)
JobBegin(j, lost) ==
    /\ JobExecutes(j, "begin")
    /\ Only(j, [job[j] EXCEPT !.reply = Reply(lost, "row"),
                              !.tx = IF lost THEN "none" ELSE "open"])

FreshSpaceIds == {s \in SpaceIds : \A i \in Jobs : job[i].space # s}

\* faulty: INSERT INTO spaces outside of the transaction
JobInsertSpaceAutocommit(j, lost) ==
    /\ JobExecutes(j, "insert_space") /\ job[j].name # "unstorable"
    /\ \E s \in FreshSpaceIds :
         /\ spaces' = [spaces EXCEPT ![s] = job[j].name]
         /\ job' = [job EXCEPT ![j] = [job[j] EXCEPT
                      !.reply = Reply(lost, "row"), !.space = s,
                      !.tx = IF lost THEN "none" ELSE "space"]]
         /\ UNCHANGED <<vars, members>>

(* INSERT INTO spaces: seen by nobody else until the COMMIT.                  *)
JobInsertSpace(j, lost) ==
    /\ JobExecutes(j, "insert_space") /\ job[j].name # "unstorable"
    /\ \E s \in FreshSpaceIds :
         Only(j, [job[j] EXCEPT !.reply = Reply(lost, "row"), !.space = s,
                                !.tx = IF lost THEN "none" ELSE "space"])

JobInsertRefused(j, lost) ==
    /\ JobExecutes(j, "insert_space") /\ job[j].name = "unstorable"
    /\ Only(j, [job[j] EXCEPT !.reply = Reply(lost, "rejected"),
                              !.tx = IF lost THEN "none" ELSE job[j].tx])

(* INSERT INTO space_memberships; the foreign key to users may refuse it.     *)
JobInsertMember(j, lost) ==
    /\ JobExecutes(j, "insert_member")
    /\ LET accepted == UserExists(users, job[j].record.user_id) IN
         Only(j, [job[j] EXCEPT
                    !.reply = Reply(lost, IF accepted THEN "row" ELSE "rejected"),
                    !.tx = CASE lost -> "none"
                             [] ~lost /\ accepted -> "space and member"
                             [] ~lost /\ ~accepted -> "space"])

JobCommit(j, lost) ==
    /\ JobExecutes(j, "commit")
    /\ spaces' = [spaces EXCEPT ![job[j].space] = job[j].name]
    /\ members' = members \union {[user_id |-> job[j].record.user_id,
                                   space_id |-> job[j].space, role |-> "owner"]}
    /\ job' = [job EXCEPT ![j] = [job[j] EXCEPT !.reply = Reply(lost, "row"),
                                                !.tx = "none"]]
    /\ UNCHANGED vars

JobRollback(j, lost) ==
    /\ JobExecutes(j, "rollback")
    /\ Only(j, [job[j] EXCEPT !.reply = Reply(lost, "row"), !.tx = "none"])

JobExecute(j) ==
    \E lost \in (IF Faults THEN BOOLEAN ELSE {FALSE}) :
        \/ JobSelect(j, lost) \/ JobGetUser(j, lost) \/ JobSearch(j, lost)
        \/ JobBegin(j, lost) \/ JobInsertSpace(j, lost) \/ JobInsertRefused(j, lost)
        \/ JobInsertMember(j, lost) \/ JobCommit(j, lost) \/ JobRollback(j, lost)

JobBreak(j) ==
    /\ Faults
    /\ job[j].reply = "awaited"
    /\ Only(j, [job[j] EXCEPT !.reply = "broken", !.tx = "none"])

----------------------------------------------------------------------------
(* The coroutine resumes.                                                     *)

JobResumes(j, s, reply) ==
    JobPending(j) /\ job[j].stmt = s /\ job[j].reply = reply

JobSend(j, s) == Only(j, [job[j] EXCEPT !.stmt = s, !.reply = "awaited"])

JobAnswer(j, code) == Only(j, [job[j] EXCEPT !.answer = code])

\* faulty: an exception raised inside the transaction is swallowed on its exit
RaisesOutside(j) ==
    \/ job[j].reply = "broken"
    \/ job[j].reply = "rejected" /\ job[j].tx = "none"
    \/ job[j].stmt = "get_by_id" /\ job[j].reply = "no row"

(* The exceptions that leave the handler: of asyncpg, once ROLLBACK has been  *)
(* sent when it was raised inside the transaction and there is a connection   *)
(* left, and of _get_user for a session without its user.                     *)
Raises(j) ==
    \/ job[j].reply = "broken"
    \/ job[j].reply = "rejected" /\ job[j].tx = "none"
    \/ job[j].stmt = "rollback" /\ job[j].reply = "row"
    \/ job[j].stmt = "get_by_id" /\ job[j].reply = "no row"

JobFailed(j) ==
    /\ JobPending(j) /\ Raises(j)
    /\ JobAnswer(j, "INTERNAL_ERROR")

(* transaction().__aexit__ with an exception.                                 *)
JobRejected(j) ==
    /\ JobPending(j) /\ job[j].reply = "rejected" /\ job[j].tx # "none"
    /\ JobSend(j, "rollback")

JobUnknown(j) ==
    /\ JobResumes(j, "get_by_token_hash", "no row")
    /\ JobAnswer(j, "SESSION_MISSING")

\* faulty: only the deadline is looked at
JobActiveUnrevoked(j) == ~(job[j].record.expires_at <= clock)

\* faulty: a session lives to the end of its last instant
JobActiveInclusive(j) ==
    job[j].record.revoked_at = Null /\ ~(job[j].record.expires_at < clock)

(* SessionService.get_session, as the handlers call it.                       *)
JobActive(j) == EnsureActive(job[j].record, clock)

JobInactive(j) ==
    /\ JobResumes(j, "get_by_token_hash", "row") /\ ~JobActive(j)
    /\ JobAnswer(j, "SESSION_EXPIRED")

JobGetSession(j) ==
    /\ JobResumes(j, "get_by_token_hash", "row") /\ JobActive(j)
    /\ JobSend(j, "get_by_id")

(* The name is stripped and looked at only now that the session was found.    *)
JobBlankName(j) ==
    /\ JobResumes(j, "get_by_id", "row")
    /\ job[j].endpoint = "POST /spaces" /\ job[j].name = "blank"
    /\ JobAnswer(j, "VALIDATION_ERROR")

JobStartSpace(j) ==
    /\ JobResumes(j, "get_by_id", "row")
    /\ job[j].endpoint = "POST /spaces" /\ job[j].name # "blank"
    /\ JobSend(j, "begin")

JobStartSearch(j) ==
    /\ JobResumes(j, "get_by_id", "row") /\ job[j].endpoint = "GET /users/search"
    /\ JobSend(j, "search_by_username")

(* create_space, statement after statement.                                   *)
NextOf == [begin |-> "insert_space", insert_space |-> "insert_member",
           insert_member |-> "commit"]

JobProceed(j) ==
    /\ JobPending(j) /\ job[j].reply = "row" /\ job[j].stmt \in DOMAIN NextOf
    /\ JobSend(j, NextOf[job[j].stmt])

\* faulty: answering before the COMMIT
JobServedEarly(j) ==
    /\ \/ JobResumes(j, "insert_member", "row")
       \/ JobResumes(j, "search_by_username", "row")
    /\ JobAnswer(j, "OK")

JobServed(j) ==
    /\ JobResumes(j, "commit", "row") \/ JobResumes(j, "search_by_username", "row")
    /\ JobAnswer(j, "OK")

JobResume(j) ==
    \/ JobFailed(j) \/ JobRejected(j)
    \/ JobUnknown(j) \/ JobInactive(j) \/ JobGetSession(j)
    \/ JobBlankName(j) \/ JobStartSpace(j) \/ JobStartSearch(j)
    \/ JobProceed(j) \/ JobServed(j)

----------------------------------------------------------------------------
(* The process dies with all its coroutines.                                  *)
ProcessDies ==
    /\ Faults
    /\ \/ Crash
       \/ ~(\E r \in Requests : Pending(r)) /\ UNCHANGED vars
    /\ job' = [j \in Jobs |-> IF JobPending(j)
                                THEN [job[j] EXCEPT !.answer = "connection lost"]
                                ELSE job[j]]
    /\ UNCHANGED <<spaces, members>>

SessionStep ==
    /\ \/ \E r \in Requests : Arrive(r) \/ Execute(r) \/ Break(r) \/ Resume(r)
       \/ Tick
    /\ UNCHANGED spaceVars

SpacesIdle ==
    /\ Idle
    /\ \A j \in Jobs : job[j].answer \notin {"none", "pending"}
    /\ UNCHANGED spaceVars

SpacesNext ==
    \/ SessionStep
    \/ \E j \in Jobs : JobArrive(j) \/ JobExecute(j) \/ JobBreak(j) \/ JobResume(j)
    \/ ProcessDies
    \/ SpacesIdle

SpacesSpec == SpacesInit /\ [][SpacesNext]_<<vars, spaceVars>>

(* As in Sessions.                                                            *)
SpacesFairness ==
    \A j \in Jobs : /\ WF_<<vars, spaceVars>>(JobResume(j))
                    /\ WF_<<vars, spaceVars>>(JobExecute(j) \/ JobBreak(j))

FairSpacesSpec == SpacesSpec /\ SpacesFairness
=============================================================================
