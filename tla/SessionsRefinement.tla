-------------------------- MODULE SessionsRefinement --------------------------
(* Proof that Sessions implements SessionStore: whatever requests do at once,  *)
(* their statements change the table one session at a time, as the abstract   *)
(* store allows.                                                              *)
EXTENDS SessionsProofs

USE NullIsNoValue, SessionConstants, NullIsNoStoredSession

(* A row is one stored session.                                               *)
LEMMA RowIsStored ==
    ASSUME NEW row \in SessionRow
    PROVE  /\ StoredSession(row) \in [owner : TgIds, deadline : Int \union {Null}]
           /\ StoredSession(row) # Null
           /\ StoredSession(row).owner = row.user_id
           /\ StoredSession(row).deadline = IF row.revoked_at = Null
                                              THEN row.expires_at ELSE Null
<1>1. row # Null
  OBVIOUS
<1> QED BY <1>1 DEF StoredSession, SessionRow

(* Well-typed tables and clock give a well-typed store.                       *)
LEMMA StoreTyped == TypeOK => Store!StoreTypeOK
<1> SUFFICES ASSUME TypeOK PROVE Store!StoreTypeOK
  OBVIOUS
<1>1. clock \in Nat
  BY DEF TypeOK
<1>2. ASSUME NEW t \in Tokens
      PROVE  StoredSession(sessions[HashToken(t)])
                \in {Null} \union [owner : TgIds, deadline : Int \union {Null}]
  <2>1. sessions[HashToken(t)] \in SessionRow \union {Null}
    BY HashTokenInjective DEF TypeOK, SessionTable
  <2>2. CASE sessions[HashToken(t)] = Null
    BY <2>2 DEF StoredSession
  <2>3. CASE sessions[HashToken(t)] # Null
    BY <2>1, <2>3, RowIsStored
  <2> QED BY <2>2, <2>3
<1> QED BY <1>1, <1>2 DEF Store!StoreTypeOK, StoreOf

(* The found sessions are stored ones.                                        *)
LEMMA InitStore == Init => Store!StoreInit
<1> SUFFICES ASSUME Init PROVE Store!StoreInit
  OBVIOUS
<1>1. TypeOK /\ LifetimeBounded /\ clock = 0
  BY InitIInv DEF IInv, Init
<1>2. Store!StoreTypeOK
  BY <1>1, StoreTyped
<1>3. ASSUME NEW t \in Tokens, StoreOf[t] # Null
      PROVE  StoreOf[t].deadline \in Store!Deadlines(0)
  <2> DEFINE row == sessions[HashToken(t)]
  <2>1. row # Null /\ StoreOf[t] = StoredSession(row)
    BY <1>3 DEF StoreOf, StoredSession
  <2>2. /\ sessions \in [Hashes -> {Null} \union
                            [user_id : InitialUsers, expires_at : InitialExpiries,
                             revoked_at : {Null}]]
        /\ HashToken(t) \in Hashes
    BY HashTokenInjective DEF Init
  <2>3. row \in [user_id : InitialUsers, expires_at : InitialExpiries, revoked_at : {Null}]
    BY <2>1, <2>2
  <2>4. row.revoked_at = Null /\ row.expires_at \in Int /\ row.expires_at <= 0 + SessionTtl
    BY <2>3
  <2>5. row \in SessionRow
    BY <2>3 DEF SessionRow
  <2> HIDE DEF row
  <2> QED BY <2>1, <2>4, <2>5, RowIsStored DEF Store!Deadlines
<1> QED BY <1>1, <1>2, <1>3 DEF Store!StoreInit

\* the step changes the row of token t alone
OneRow(t) == \A h \in Hashes \ {HashToken(t)} : sessions'[h] = sessions[h]

(* Sessions of other rows keep their stored form.                             *)
LEMMA OtherSessions ==
    ASSUME NEW t \in Tokens, OneRow(t)
    PROVE  \A o \in Tokens \ {t} : StoreOf'[o] = StoreOf[o]
<1> SUFFICES ASSUME NEW o \in Tokens \ {t} PROVE StoreOf'[o] = StoreOf[o]
  OBVIOUS
<1>1. HashToken(o) \in Hashes \ {HashToken(t)}
  BY HashTokenInjective
<1>2. sessions'[HashToken(o)] = sessions[HashToken(o)]
  BY <1>1 DEF OneRow
<1> QED BY <1>2 DEF StoreOf, StoredSession

(* A statement that leaves the row, or only its forgotten deadline, alone is  *)
(* a stuttering step.                                                         *)
LEMMA SameStore ==
    ASSUME NEW t \in Tokens, OneRow(t),
           StoredSession(sessions'[HashToken(t)]) = StoredSession(sessions[HashToken(t)])
    PROVE  StoreOf' = StoreOf
<1>1. StoreOf'[t] = StoreOf[t]
  BY DEF StoreOf, StoredSession
<1>2. \A o \in Tokens : StoreOf'[o] = StoreOf[o]
  BY <1>1, OtherSessions
<1> QED BY <1>2 DEF StoreOf

(* The row of a statement, before and after it.                               *)
LEMMA RowChange ==
    ASSUME TypeOK, TypeOK', NEW t \in Tokens, clock' = clock, OneRow(t),
           NEW old, old = sessions[HashToken(t)], NEW new, new = sessions'[HashToken(t)],
           new # Null,
           \/ /\ old = Null /\ new.revoked_at = Null
              /\ new.expires_at <= clock + SessionTtl
           \/ /\ old # Null /\ old.revoked_at = Null /\ new.revoked_at = Null
              /\ new.user_id = old.user_id /\ new.expires_at <= clock + SessionTtl
           \/ old # Null /\ new.revoked_at # Null /\ new.user_id = old.user_id
    PROVE  Store!StoreNext
<1>1. HashToken(t) \in Hashes
  BY HashTokenInjective
<1>2. new \in SessionRow /\ (old # Null => old \in SessionRow)
  BY <1>1 DEF TypeOK, SessionTable
<1>3. StoreOf[t] = StoredSession(old) /\ StoreOf'[t] = StoredSession(new)
  BY DEF StoreOf, StoredSession
<1>4. Store!StoreTypeOK'
  <2>1. TypeOK' => Store!StoreTypeOK'
    BY StoreTyped, PTL
  <2> QED BY <2>1
<1>5. \A o \in Tokens \ {t} : StoreOf'[o] = StoreOf[o]
  BY OtherSessions
<1>6. /\ StoredSession(new) # Null /\ StoredSession(new).owner = new.user_id
      /\ StoredSession(new).deadline = IF new.revoked_at = Null
                                         THEN new.expires_at ELSE Null
  BY <1>2, RowIsStored
<1>7. new.expires_at \in Int
  BY <1>2 DEF SessionRow
<1>8. CASE old = Null /\ new.revoked_at = Null /\ new.expires_at <= clock + SessionTtl
  <2>1. StoreOf[t] = Null
    BY <1>3, <1>8 DEF StoredSession
  <2>2. Store!IssueSession(t)
    BY <1>3, <1>6, <1>7, <1>8, <2>1 DEF Store!IssueSession, Store!Deadlines
  <2> QED BY <1>4, <1>5, <2>2 DEF Store!StoreNext
<1>9. CASE old # Null /\ new.user_id = old.user_id
  <2>1. /\ StoreOf[t] # Null /\ StoreOf[t].owner = old.user_id
        /\ StoreOf[t].deadline = IF old.revoked_at = Null THEN old.expires_at ELSE Null
    BY <1>2, <1>3, <1>9, RowIsStored
  <2>2. CASE old.revoked_at = Null /\ new.revoked_at = Null
             /\ new.expires_at <= clock + SessionTtl
    <3>1. old.expires_at # Null
      BY <1>2, <1>9 DEF SessionRow
    <3>2. Store!ExtendSession(t)
      BY <1>3, <1>6, <1>7, <1>9, <2>1, <2>2, <3>1 DEF Store!ExtendSession, Store!Deadlines
    <3> QED BY <1>4, <1>5, <3>2 DEF Store!StoreNext
  <2>3. CASE new.revoked_at # Null
    <3>1. Store!Revoke(t)
      BY <1>3, <1>6, <1>9, <2>1, <2>3 DEF Store!Revoke
    <3> QED BY <1>4, <1>5, <3>1 DEF Store!StoreNext
  <2> QED BY <1>9, <2>2, <2>3
<1> QED BY <1>8, <1>9

(* create_session issues a session of the store, or is rejected and changes   *)
(* nothing.                                                                   *)
LEMMA InsertIsIssue ==
    ASSUME IInv, IInv', NEW r \in Requests, NEW lost \in BOOLEAN, ExecInsert(r, lost)
    PROVE  Store!StoreNext \/ sessions' = sessions
<1> DEFINE id == req[r].login.telegram_id
           t == req[r].token
           new == [user_id |-> id, expires_at |-> req[r].at, revoked_at |-> Null]
<1>1. TypeOK /\ TypeOK' /\ StatementInv(r) /\ clock' = clock /\ req[r].stmt = "create_session"
  BY DEF IInv, ExecInsert, Executes
<1>2. t \in Tokens /\ req[r].at <= clock + SessionTtl
  BY <1>1 DEF StatementInv
<1>3. CASE sessions' = sessions
  BY <1>3
<1>4. CASE sessions' = InsertSession(sessions, HashToken(t), id, req[r].at)
           /\ sessions[HashToken(t)] = Null
  <2>1. sessions \in [Hashes -> SessionRow \union {Null}] /\ HashToken(t) \in Hashes
    BY <1>1, <1>2, HashTokenInjective DEF TypeOK, SessionTable
  <2>2. sessions' = [sessions EXCEPT ![HashToken(t)] = new]
    BY <1>4 DEF InsertSession
  <2>3. /\ OneRow(t) /\ sessions'[HashToken(t)] = new
        /\ new.revoked_at = Null /\ new.expires_at = req[r].at
    BY <2>1, <2>2 DEF OneRow
  <2>4. new # Null
    <3>1. id \in TgIds /\ req[r].at \in Int
      BY <1>1 DEF StatementInv, TypeOK, RequestRecord
    <3>2. new \in SessionRow
      BY <3>1 DEF SessionRow
    <3> QED BY <3>2
  <2> HIDE DEF t, new
  <2> QED BY <1>1, <1>2, <1>4, <2>3, <2>4, RowChange
<1>5. \/ sessions' = sessions
      \/ /\ sessions' = InsertSession(sessions, HashToken(t), id, req[r].at)
         /\ sessions[HashToken(t)] = Null
  BY DEF ExecInsert, Hash
<1> QED BY <1>3, <1>4, <1>5

(* update_expiry extends a live session of the store; on a revoked one it     *)
(* only writes the forgotten deadline.                                        *)
LEMMA UpdateIsExtend ==
    ASSUME IInv, IInv', NEW r \in Requests, NEW lost \in BOOLEAN, ExecUpdate(r, lost)
    PROVE  Store!StoreNext \/ StoreOf' = StoreOf
<1> DEFINE t == req[r].token
           old == sessions[HashToken(t)]
           new == sessions'[HashToken(t)]
<1>1. /\ TypeOK /\ TypeOK' /\ StatementInv(r) /\ TableInv(r) /\ clock' = clock
      /\ req[r].stmt = "update_expiry"
      /\ sessions' = UpdateExpiry(sessions, HashToken(t), req[r].at)
  BY DEF IInv, ExecUpdate, Executes, Hash
<1>2. t \in Tokens /\ old # Null /\ req[r].at <= clock + SessionTtl
  BY <1>1 DEF StatementInv, TableInv, AfterCheck, Hash
<1>3. sessions \in [Hashes -> SessionRow \union {Null}] /\ HashToken(t) \in Hashes
  BY <1>1, <1>2, HashTokenInjective DEF TypeOK, SessionTable
<1>4. sessions' = [sessions EXCEPT ![HashToken(t)].expires_at = req[r].at]
  BY <1>1, <1>2, <1>3 DEF UpdateExpiry, GetByTokenHash
<1>5. old \in SessionRow
  BY <1>2, <1>3
<1>6. /\ OneRow(t) /\ new = [old EXCEPT !.expires_at = req[r].at]
  BY <1>3, <1>4 DEF OneRow
<1>7. new.expires_at = req[r].at /\ new.revoked_at = old.revoked_at /\ new.user_id = old.user_id
  BY <1>5, <1>6 DEF SessionRow
<1>8. new # Null
  <2>1. req[r].at \in Int /\ sessions \in SessionTable
    BY <1>1 DEF TypeOK, RequestRecord
  <2> QED BY <1>1, <1>2, <1>3, <2>1, UpdateExpiryKeeps DEF Grows
<1>9. old = sessions[HashToken(t)] /\ new = sessions'[HashToken(t)]
  OBVIOUS
<1> HIDE DEF t, old, new
<1>10. CASE old.revoked_at = Null
  BY <1>1, <1>2, <1>6, <1>7, <1>8, <1>9, <1>10, RowChange
<1>11. CASE old.revoked_at # Null
  <2>1. StoredSession(new) = StoredSession(old)
    BY <1>2, <1>7, <1>8, <1>11 DEF StoredSession
  <2> QED BY <1>2, <1>6, <1>9, <2>1, SameStore
<1> QED BY <1>10, <1>11

(* revoke revokes a session of the store.                                     *)
LEMMA RevokeIsRevoke ==
    ASSUME IInv, IInv', NEW r \in Requests, NEW lost \in BOOLEAN, ExecRevoke(r, lost)
    PROVE  Store!StoreNext
<1> DEFINE t == req[r].token
           old == sessions[HashToken(t)]
           new == sessions'[HashToken(t)]
<1>1. /\ TypeOK /\ TypeOK' /\ StatementInv(r) /\ TableInv(r) /\ clock' = clock
      /\ req[r].stmt = "revoke" /\ req[r].at \in Int
      /\ sessions' = RevokeSession(sessions, HashToken(t), req[r].at)
  BY DEF IInv, ExecRevoke, Executes, Hash, TypeOK, RequestRecord
<1>2. t \in Tokens /\ old # Null
  BY <1>1 DEF StatementInv, TableInv, AfterCheck, Hash
<1>3. sessions \in [Hashes -> SessionRow \union {Null}] /\ HashToken(t) \in Hashes
  BY <1>1, <1>2, HashTokenInjective DEF TypeOK, SessionTable
<1>4. sessions' = [sessions EXCEPT ![HashToken(t)].revoked_at = req[r].at]
  BY <1>1, <1>2, <1>3 DEF RevokeSession, GetByTokenHash
<1>5. old \in SessionRow
  BY <1>2, <1>3
<1>6. OneRow(t) /\ new = [old EXCEPT !.revoked_at = req[r].at]
  BY <1>3, <1>4 DEF OneRow
<1>7. new.revoked_at = req[r].at /\ new.user_id = old.user_id /\ req[r].at # Null
  BY <1>1, <1>5, <1>6 DEF SessionRow
<1>8. new # Null
  BY <1>1, <1>2, <1>3, RevokeSessionKeeps DEF Grows, SessionTable
<1>9. old = sessions[HashToken(t)] /\ new = sessions'[HashToken(t)]
  OBVIOUS
<1> HIDE DEF t, old, new
<1> QED BY <1>1, <1>2, <1>6, <1>7, <1>8, <1>9, RowChange

(* The sessions of the running system are a SessionStore: a session is issued *)
(* once and to one user, while it is live its deadline moves at most to the   *)
(* TTL from now, and revocation is for ever, whatever the requests interleave *)
(* and wherever connections break or the process crashes.                     *)
THEOREM Refinement == Spec => ImplementsStore
<1>1. IInv /\ IInv' /\ [Next]_vars => [Store!StoreNext]_<<clock, StoreOf>>
  <2> SUFFICES ASSUME IInv, IInv', [Next]_vars
               PROVE  [Store!StoreNext]_<<clock, StoreOf>>
    OBVIOUS
  <2>1. ASSUME sessions' = sessions, clock' = clock
        PROVE  UNCHANGED <<clock, StoreOf>>
    BY <2>1 DEF StoreOf, StoredSession
  <2>2. ASSUME NEW r \in Requests, Arrive(r) \/ Break(r) \/ Resume(r)
        PROVE  sessions' = sessions /\ clock' = clock
    <3>1. CASE Arrive(r)
      BY <3>1 DEF Arrive, RejectBody, NoConnection, StartLogin, RejectHeader, StartBearer
    <3>2. CASE Break(r)
      BY <3>2 DEF Break
    <3>3. CASE Resume(r)
      BY <3>3 DEF Resume, ResumeFailed, ResumeVerify, ResumeCreate, ResumeInsert,
                  ResumeUnknown, ResumeInactive, GetSession, RefreshSession,
                  RevokeThisSession, ResumeUpdate, ResumeRevoke, ResumeGetUser
    <3> QED BY <2>2, <3>1, <3>2, <3>3
  <2>3. ASSUME NEW r \in Requests, NEW lost \in BOOLEAN,
               \/ ExecUpsert(r, lost) \/ RefuseUpsert(r, lost)
               \/ ExecSelect(r, lost) \/ ExecGetUser(r, lost)
        PROVE  sessions' = sessions /\ clock' = clock
    BY <2>3 DEF ExecUpsert, RefuseUpsert, ExecSelect, ExecGetUser
  <2>4. ASSUME NEW r \in Requests, Execute(r)
        PROVE  [Store!StoreNext]_<<clock, StoreOf>>
    <3>1. PICK lost \in BOOLEAN :
            \/ ExecUpsert(r, lost) \/ RefuseUpsert(r, lost)
            \/ ExecInsert(r, lost) \/ ExecSelect(r, lost)
            \/ ExecUpdate(r, lost) \/ ExecRevoke(r, lost) \/ ExecGetUser(r, lost)
      BY <2>4 DEF Execute
    <3>2. CASE ExecInsert(r, lost)
      BY <2>1, <3>2, InsertIsIssue DEF ExecInsert
    <3>3. CASE ExecUpdate(r, lost)
      BY <3>3, UpdateIsExtend DEF ExecUpdate
    <3>4. CASE ExecRevoke(r, lost)
      BY <3>4, RevokeIsRevoke
    <3> QED BY <2>1, <2>3, <3>1, <3>2, <3>3, <3>4
  <2>5. CASE Tick
    <3>1. clock' = clock + 1 /\ StoreOf' = StoreOf
      BY <2>5 DEF Tick, StoreOf, StoredSession
    <3>2. Store!StoreTypeOK'
      <4>1. TypeOK' => Store!StoreTypeOK'
        BY StoreTyped, PTL
      <4> QED BY <4>1 DEF IInv
    <3> QED BY <3>1, <3>2 DEF Store!StoreNext
  <2>6. CASE Crash \/ Idle \/ UNCHANGED vars
    BY <2>1, <2>6 DEF Crash, Idle, vars
  <2> QED BY <2>1, <2>2, <2>4, <2>5, <2>6 DEF Next
<1>2. Init => Store!StoreInit
  BY InitStore
<1> QED BY <1>1, <1>2, Invariance, PTL
        DEF Spec, ImplementsStore, Store!StoreSpec, Store!storeVars
=============================================================================
