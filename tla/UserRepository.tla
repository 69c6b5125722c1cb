---------------------------- MODULE UserRepository ----------------------------
(* The users table and the statements of app/repositories/users.py that the   *)
(* authentication uses, each a function of the table it runs on: PostgreSQL   *)
(* executes one such statement atomically.  A row is kept under its           *)
(* telegram_id, which uq_users_telegram_id makes unique; username stands for  *)
(* the five columns written with COALESCE.                                    *)
EXTENDS Domain

CONSTANT Unstorable  \* ids and names of tokens that no column of users can hold

ASSUME UnstorableValues == Unstorable \subseteq TgIds \union Usernames

(* A telegram_id is an integer of any size to TokenPayload and a bigint to    *)
(* the table; a name is any string, and a varchar of bounded length without   *)
(* U+0000.                                                                    *)
Storable(id, username) == id \notin Unstorable /\ username \notin Unstorable

UserTable == [TgIds -> UserRow \union {Null}]

(* COALESCE(EXCLUDED.col, users.col)                                          *)
Coalesce(new, old) == IF new # Null THEN new ELSE old

\* faulty: a login without a username erases the one that is there
UpsertOverwriting(users, id, username, now) ==
    [users EXCEPT ![id] = [username |-> username, last_login_at |-> now]]

\* faulty: only the insert sets last_login_at
UpsertKeepingLogin(users, id, username, now) ==
    [users EXCEPT ![id] =
        IF users[id] = Null
          THEN [username |-> username, last_login_at |-> now]
          ELSE [@ EXCEPT !.username = Coalesce(username, @)]]

(* upsert_user: INSERT ... ON CONFLICT (telegram_id) DO UPDATE.               *)
UpsertUser(users, id, username, now) ==
    [users EXCEPT ![id] =
        IF users[id] = Null
          THEN [username |-> username, last_login_at |-> now]
          ELSE [username |-> Coalesce(username, users[id].username),
                last_login_at |-> now]]

\* faulty: the login that first brings a username creates the user as well
UpsertCreatesNamed(users, id) ==
    users[id] # Null => users[id].username = Null

(* (xmax = 0) AS created: the statement inserted the row.                     *)
UpsertCreates(users, id) == users[id] = Null

(* get_by_id finds a row                                                      *)
UserExists(users, id) == users[id] # Null
=============================================================================
