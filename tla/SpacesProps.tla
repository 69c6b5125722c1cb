----------------------------- MODULE SpacesProps ------------------------------
(* The properties of Spaces.                                                  *)
EXTENDS Spaces

(* Every variable of this module holds values of its kind.                    *)
SpacesTypeOK ==
    /\ spaces \in SpaceTable
    /\ members \subseteq Membership
    /\ job \in [Jobs -> JobRecord]

Memberships(s) == {m \in members : m.space_id = s}

(* A logout ends the use of its session everywhere: a job that arrives after  *)
(* DELETE /session was answered 200 is not served with that token, and a      *)
(* space request among them leaves nothing behind.                            *)
LogoutStopsJobs ==
    \A d \in Requests, j \in Jobs :
        /\ req[d].endpoint = "DELETE /session" /\ req[d].answer = "OK"
        /\ d \in job[j].before /\ job[j].token = req[d].token
        => /\ job[j].answer # "OK"
           /\ job[j].space = Null

(* A space exists only on behalf of a session that was live when its row was  *)
(* read, and its only member is the user of that session, as its owner: the   *)
(* spaces document's "the creator becomes the owner".                         *)
CreatedForSession ==
    \A s \in SpaceIds : spaces[s] # Null =>
        \E j \in Jobs :
            /\ job[j].space = s /\ job[j].endpoint = "POST /spaces"
            /\ job[j].active
            /\ Memberships(s) =
                 {[user_id |-> sessions[JobHash(j)].user_id, space_id |-> s,
                   role |-> "owner"]}

(* A job that was not served leaves nothing in the tables: neither a space    *)
(* nor a membership.  Only a COMMIT whose reply did not come may have.        *)
FailureLeavesNothing ==
    \A j \in Jobs :
        /\ job[j].space # Null
        /\ job[j].answer # "OK" /\ job[j].stmt # "commit"
        => spaces[job[j].space] = Null /\ Memberships(job[j].space) = {}

(* A space answered 201 is in the table under the name that was asked for,    *)
(* with its owner, whatever breaks later.                                     *)
AnsweredSpaceExists ==
    \A j \in Jobs :
        job[j].answer = "OK" /\ job[j].endpoint = "POST /spaces" =>
            /\ spaces[job[j].space] = job[j].name
            /\ Memberships(job[j].space) # {}

(* A job is served only when its session was live at some instant after the   *)
(* job arrived.                                                               *)
JobServedOnlyIfActive ==
    \A j \in Jobs : job[j].answer = "OK" => job[j].active

(* Every job is answered, unless the process dies under it: a transaction     *)
(* that fails is rolled back and does not hang.                               *)
EveryJobAnswered == \A j \in Jobs : JobPending(j) ~> ~JobPending(j)

----------------------------------------------------------------------------
(* The two tables implement SpaceRegistry: the two inserts are one step.      *)
RegistryOf ==
    [s \in SpaceIds |->
        [exists |-> spaces[s] # Null,
         owners |-> {m.user_id : m \in {n \in Memberships(s) : n.role = "owner"}}]]

Registry == INSTANCE SpaceRegistry
    WITH Spaces <- SpaceIds, Users <- TgIds, registry <- RegistryOf

ImplementsRegistry == Registry!RegistrySpec

----------------------------------------------------------------------------
(* The inductive invariant of the proofs, as properties of a job's record x.  *)

JobChecked == {"get_by_id", "search_by_username", "begin", "insert_space",
               "insert_member", "commit", "rollback"}

CreateStatements == {"begin", "insert_space", "insert_member", "commit", "rollback"}

(* The statement tells the endpoint, how far the job got and what it holds.   *)
JobStatementInv(x) ==
    /\ x.answer = "none" => x.stmt = Null
    /\ x.stmt \notin JobChecked => x.space = Null
    /\ x.stmt = "get_by_token_hash" => x.name # Null
    /\ x.stmt = "get_by_token_hash" /\ x.reply = "row" =>
         /\ x.record # Null
         /\ EnsureActive(x.record, clock) => x.active = TRUE
    /\ x.stmt \in JobChecked =>
         /\ x.name # Null /\ x.record # Null /\ x.record.revoked_at = Null
         /\ x.active = TRUE
    /\ x.stmt \in CreateStatements => x.endpoint = "POST /spaces"
    /\ x.stmt = "search_by_username" => x.endpoint = "GET /users/search"
    /\ x.stmt \in {"insert_member", "commit"} => x.space # Null
    /\ x.tx # "none" => x.stmt \in CreateStatements
    /\ x.stmt = "commit" => x.reply \in {"awaited", "row", "broken"}
    /\ x.stmt = "insert_space" /\ x.reply = "row" => x.space # Null
    /\ x.answer = "OK" => x.reply = "row" /\ x.stmt \in {"commit", "search_by_username"}

MemberOf(x) == [user_id |-> x.record.user_id, space_id |-> x.space, role |-> "owner"]

(* The session was and is in its table; the space is in its own from the      *)
(* COMMIT on.                                                                 *)
JobTableInv(x) ==
    /\ x.record # Null =>
         /\ x.token \in Tokens /\ sessions[HashToken(x.token)] # Null
         /\ sessions[HashToken(x.token)].user_id = x.record.user_id
    /\ x.space # Null /\ ~(x.stmt = "commit" /\ x.reply \in {"row", "broken"}) =>
         spaces[x.space] = Null /\ Memberships(x.space) = {}
    /\ x.stmt = "commit" /\ x.reply = "row" =>
         spaces[x.space] = x.name /\ Memberships(x.space) = {MemberOf(x)}

(* A job that arrived after a logout finds the session revoked.               *)
JobHistoryInv(d, x) ==
    d \in x.before =>
        /\ Answered(d)
        /\ /\ req[d].endpoint = "DELETE /session" /\ req[d].answer = "OK"
           /\ x.token = req[d].token
           => x.record = Null \/ x.record.revoked_at # Null

(* What the tables hold of a space was committed by a job.                    *)
MadeBy(s, x) ==
    /\ x.space = s /\ x.stmt = "commit"
    /\ spaces[s] # Null /\ Memberships(s) = {MemberOf(x)}

SpacesInv ==
    /\ SpacesTypeOK
    /\ \A j \in Jobs : JobStatementInv(job[j]) /\ JobTableInv(job[j])
    /\ \A d \in Requests, j \in Jobs : JobHistoryInv(d, job[j])
    /\ \A i, j \in Jobs : i # j /\ job[i].space # Null => job[i].space # job[j].space
    /\ \A s \in SpaceIds : spaces[s] # Null \/ Memberships(s) # {} =>
          \E j \in Jobs : MadeBy(s, job[j])
=============================================================================
