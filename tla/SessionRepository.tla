--------------------------- MODULE SessionRepository --------------------------
(* The sessions table and the statements of app/repositories/sessions.py,     *)
(* each a function of the table it runs on.  A row is kept under its          *)
(* token_hash, which ix_sessions_token_hash makes unique.  id, created_at and *)
(* updated_at are left out: nothing reads them.                               *)
EXTENDS Domain

CONSTANT
    Tokens   \* raw session tokens that secrets.token_urlsafe(32) returns

(* _hash_token: sha256, taken to be injective.                                *)
HashToken(token) == <<"sha256", token>>

Hashes == {HashToken(t) : t \in Tokens}

SessionTable == [Hashes -> SessionRow \union {Null}]

(* get_by_token_hash: a hash outside the table's domain has no row.           *)
GetByTokenHash(sessions, hash) ==
    IF hash \in DOMAIN sessions THEN sessions[hash] ELSE Null

(* create_session                                                             *)
InsertSession(sessions, hash, user, expires) ==
    [sessions EXCEPT ![hash] =
        [user_id |-> user, expires_at |-> expires, revoked_at |-> Null]]

\* faulty: prolonging a session makes it active again
UpdateExpiryReviving(sessions, hash, expires) ==
    IF GetByTokenHash(sessions, hash) = Null THEN sessions
    ELSE [sessions EXCEPT ![hash].expires_at = expires, ![hash].revoked_at = Null]

\* faulty: LEAST where GREATEST was meant
UpdateExpiryLeast(sessions, hash, expires) ==
    IF GetByTokenHash(sessions, hash) = Null THEN sessions
    ELSE [sessions EXCEPT ![hash].expires_at = IF expires < @ THEN expires ELSE @]

(* update_expiry: WHERE names the hash only, so a revoked or an expired row   *)
(* is written too; without such a row the table is left alone.                *)
UpdateExpiry(sessions, hash, expires) ==
    IF GetByTokenHash(sessions, hash) = Null THEN sessions
    ELSE [sessions EXCEPT ![hash].expires_at = expires]

\* faulty: logging out by letting the session expire
RevokeByExpiring(sessions, hash, at) ==
    IF GetByTokenHash(sessions, hash) = Null THEN sessions
    ELSE [sessions EXCEPT ![hash].expires_at = at]

\* faulty: logging out by DELETE FROM sessions
RevokeByDeleting(sessions, hash, at) ==
    IF GetByTokenHash(sessions, hash) = Null THEN sessions
    ELSE [sessions EXCEPT ![hash] = Null]

(* revoke: the same for revoked_at                                            *)
RevokeSession(sessions, hash, at) ==
    IF GetByTokenHash(sessions, hash) = Null THEN sessions
    ELSE [sessions EXCEPT ![hash].revoked_at = at]
=============================================================================
