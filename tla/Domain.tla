-------------------------------- MODULE Domain --------------------------------
(* The values the modules share: app/services/models.py with the fields that  *)
(* no behaviour depends on left out.                                          *)
EXTENDS Integers

CONSTANTS
    Null,       \* None, an absent row, an SQL NULL
    TgIds,      \* users, by telegram_id
    Usernames   \* non-null usernames

UserRow == [username : Usernames \union {Null}, last_login_at : Int]

SessionRow == [user_id : TgIds, expires_at : Int, revoked_at : Int \union {Null}]

ASSUME NullIsNoValue ==
    /\ Null \notin Int
    /\ Null \notin Usernames
    /\ Null \notin UserRow
    /\ Null \notin SessionRow
=============================================================================
