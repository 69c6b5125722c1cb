------------------------------ MODULE Migrations ------------------------------
(* The migrations of the database: several runs of alembic, as each instance  *)
(* that is started makes one, next to the application.  A run reads the       *)
(* revision the database is at and executes the statements of its scripts in  *)
(* one transaction; every statement takes the locks of PostgreSQL on the      *)
(* tables it touches and keeps them to the end.                               *)
EXTENDS Integers, Sequences, FiniteSets

CONSTANTS
    Migrators,   \* processes that run alembic
    MaxRuns      \* bound: how many runs are begun

ASSUME MaxRunsIsNat == MaxRuns \in Nat

(* Deadlocked looks for cycles of two runs and a request.                     *)
ASSUME AtMostTwoMigrators == \A l, m, n \in Migrators : l = m \/ m = n \/ l = n

Tables ==
    {"alembic_version", "tmp", "users", "sessions", "spaces", "space_memberships"}

(* A schema is a set of objects: <<t, "table">> is table t, <<t, u>> for two  *)
(* tables a foreign key of t to u, and any other <<t, p>> a part of t.        *)
Table(t) == <<t, "table">>

----------------------------------------------------------------------------
(* Statements: the locks they take, in this order, the objects that must and  *)
(* must not exist, and what they add and drop.                                *)
Statement(locks, needs, absent, adds, drops) ==
    [locks |-> locks, needs |-> needs, absent |-> absent, adds |-> adds,
     drops |-> drops, emptied |-> {}, named |-> FALSE]

CreateTable(t, refs, parts) ==
    LET R == {refs[i] : i \in DOMAIN refs}
    IN  Statement(<<t>> \o refs, {Table(r) : r \in R}, {Table(t)},
                  {Table(t)} \union ({t} \X (R \union parts)), {})

(* A table that another one references is not dropped.                        *)
DropTable(t, refs) ==
    [Statement(<<t>> \o refs, {Table(t)}, {<<u, t>> : u \in Tables}, {}, {})
        EXCEPT !.emptied = {t}]

(* Columns, constraints and indexes.                                          *)
AddPart(t, p) == Statement(<<t>>, {Table(t)}, {<<t, p>>}, {<<t, p>>}, {})

DropPart(t, p) == Statement(<<t>>, {<<t, p>>}, {}, {}, {<<t, p>>})

ChangeType(t, refs, p, q) ==
    Statement(<<t>> \o refs, {<<t, p>>}, {}, {<<t, q>>}, {<<t, p>>})

(* SET NOT NULL on users.username fails when a row has none.                  *)
RequireUsernames ==
    [AddPart("users", "username not null") EXCEPT !.named = TRUE]

Applied(op, s) ==
    ({o \in s : o[1] \notin op.emptied} \ op.drops) \union op.adds

----------------------------------------------------------------------------
(* The scripts.                                                               *)

Revisions ==
    <<"0001_create_tmp_table", "0002_create_users_table",
      "0003_add_last_login_at", "0004_create_sessions_table",
      "0005_create_spaces">>

Newest == Len(Revisions)

Upgrade0001 == <<CreateTable("tmp", <<>>, {})>>

Upgrade0002 ==
    <<CreateTable("users", <<>>, {"telegram_id unique", "username not null"})>>

Upgrade0003 ==
    <<AddPart("users", "last_login_at"), DropPart("users", "username not null")>>

Upgrade0004 ==
    <<CreateTable("sessions", <<"users">>, {"user_id bigint", "token_hash key"}),
      AddPart("sessions", "index user_id"),
      AddPart("sessions", "index expires_at"),
      AddPart("sessions", "index revoked_at")>>

Upgrade0005 ==
    <<CreateTable("spaces", <<>>, {}),
      CreateTable("space_memberships", <<"spaces", "users">>, {}),
      ChangeType("sessions", <<"users">>, "user_id bigint", "user_id integer"),
      DropPart("sessions", "index expires_at"),
      DropPart("sessions", "index revoked_at"),
      DropPart("sessions", "token_hash key"),
      AddPart("sessions", "unique index token_hash")>>

Downgrade0001 == <<DropTable("tmp", <<>>)>>

Downgrade0002 == <<DropTable("users", <<>>)>>

Downgrade0003 == <<RequireUsernames, DropPart("users", "last_login_at")>>

Downgrade0004 ==
    <<DropPart("sessions", "index revoked_at"),
      DropPart("sessions", "index expires_at"),
      DropPart("sessions", "index user_id"),
      DropTable("sessions", <<"users">>)>>

\* faulty: the tables are dropped in the order they were created in
Downgrade0005SpacesFirst ==
    <<DropPart("sessions", "unique index token_hash"),
      AddPart("sessions", "token_hash key"),
      AddPart("sessions", "index revoked_at"),
      AddPart("sessions", "index expires_at"),
      ChangeType("sessions", <<"users">>, "user_id integer", "user_id bigint"),
      DropTable("spaces", <<>>),
      DropTable("space_memberships", <<"spaces", "users">>)>>

\* faulty: the constraint comes back under a name of its own
Downgrade0005Renaming ==
    <<DropPart("sessions", "unique index token_hash"),
      AddPart("sessions", "token_hash key1"),
      AddPart("sessions", "index revoked_at"),
      AddPart("sessions", "index expires_at"),
      ChangeType("sessions", <<"users">>, "user_id integer", "user_id bigint"),
      DropTable("space_memberships", <<"spaces", "users">>),
      DropTable("spaces", <<>>)>>

Downgrade0005 ==
    <<DropPart("sessions", "unique index token_hash"),
      AddPart("sessions", "token_hash key"),
      AddPart("sessions", "index revoked_at"),
      AddPart("sessions", "index expires_at"),
      ChangeType("sessions", <<"users">>, "user_id integer", "user_id bigint"),
      DropTable("space_memberships", <<"spaces", "users">>),
      DropTable("spaces", <<>>)>>

Upgrades == <<Upgrade0001, Upgrade0002, Upgrade0003, Upgrade0004, Upgrade0005>>

Downgrades ==
    <<Downgrade0001, Downgrade0002, Downgrade0003, Downgrade0004, Downgrade0005>>

(* alembic_version has the name of one revision, or no row at revision 0.     *)
VersionRow(n) ==
    IF n = 0 THEN {} ELSE {<<"alembic_version", Revisions[n]>>}

RevisionOf(s) ==
    IF \E n \in 1 .. Newest : VersionRow(n) \subseteq s
    THEN CHOOSE n \in 1 .. Newest : VersionRow(n) \subseteq s ELSE 0

(* Alembic moves the row from one revision to the next, and raises when it    *)
(* found no row to move.                                                      *)
Stamp(from, to) ==
    Statement(<<"alembic_version">>, VersionRow(from), VersionRow(to),
              VersionRow(to), VersionRow(from))

Commands == {"upgrade head", "downgrade -1"}

(* The statements of the step from revision n, in a run that has to create    *)
(* alembic_version itself if fresh.                                           *)
Script(command, n, fresh) ==
    IF command = "upgrade head"
    THEN (IF fresh /\ n = 0 THEN <<CreateTable("alembic_version", <<>>, {})>> ELSE <<>>)
            \o Upgrades[n + 1] \o <<Stamp(n, n + 1)>>
    ELSE Downgrades[n] \o <<Stamp(n, n - 1)>>

(* What the statements make of a schema, one after the other.                 *)
After(statements, s) ==
    LET after[i \in 0 .. Len(statements)] ==
            IF i = 0 THEN s ELSE Applied(statements[i], after[i - 1])
    IN  after

(* The scripts of revision 1 .. n, one after the other, on an empty database. *)
SchemaAt[n \in 0 .. Newest] ==
    IF n = 0 THEN {} ELSE After(Upgrades[n], SchemaAt[n - 1])[Len(Upgrades[n])]

(* A database at revision n, with the table that records it or without.       *)
Deployed(n, versioned) ==
    SchemaAt[n] \union VersionRow(n)
      \union (IF versioned THEN {Table("alembic_version")} ELSE {})

Objects == UNION {Deployed(n, TRUE) : n \in 0 .. Newest}

----------------------------------------------------------------------------
VARIABLES
    schema,     \* the objects that are committed
    nameless,   \* whether a user without a username is stored
    writing,    \* the tables that create_space has written to, uncommitted
    run,        \* the run of each migrator, see RunRecord
    runs        \* how many were begun

migrationVars == <<schema, nameless, writing, run, runs>>

RunRecord ==
    [stage     : {"idle", "running", "done", "failed"},
     command   : Commands,
     read      : 0 .. Newest,      \* the revision the run found
     at        : 0 .. Newest,      \* the one it has got to
     fresh     : BOOLEAN,        \* there was no alembic_version
     next      : Nat \ {0},      \* the next statement of the script
     held      : SUBSET Tables,  \* the locks it holds,
     mine      : SUBSET Objects, \* and what it made of those tables
     disturbed : BOOLEAN]        \* another run overlapped, or it was killed

Idle ==
    [stage |-> "idle", command |-> "upgrade head", read |-> 0, at |-> 0,
     fresh |-> FALSE, next |-> 1, held |-> {}, mine |-> {}, disturbed |-> FALSE]

Running(m) == run[m].stage = "running"

(* The schema as the transaction of m sees it.                                *)
View(m) == {o \in schema : o[1] \notin run[m].held} \union run[m].mine

(* The run has got to where its command leads.                                *)
Finished(m) ==
    IF run[m].command = "upgrade head" THEN run[m].at = Newest
    ELSE run[m].at = run[m].read - 1

ScriptOf(m) == Script(run[m].command, run[m].at, run[m].fresh)

StatementOf(m) == ScriptOf(m)[run[m].next]

Possible(m) ==
    /\ StatementOf(m).needs \subseteq View(m)
    /\ StatementOf(m).absent \intersect View(m) = {}

(* The locks its statement still needs; it takes them one after the other.    *)
Missing(m) ==
    {i \in DOMAIN StatementOf(m).locks : StatementOf(m).locks[i] \notin run[m].held}

Wants(m) ==
    StatementOf(m).locks[CHOOSE i \in Missing(m) : \A j \in Missing(m) : i <= j]

Executing(m) == Running(m) /\ ~Finished(m) /\ Possible(m)

Waiting(m) == Executing(m) /\ Missing(m) # {}

HoldersOf(t) == {n \in Migrators : t \in run[n].held}

(* A database that was deployed at some revision, or a new one.               *)
MigrationsInit ==
    /\ \E n \in 0 .. Newest : schema = Deployed(n, n # 0)
    /\ nameless = FALSE
    /\ writing = {}
    /\ run = [m \in Migrators |-> Idle]
    /\ runs = 0

----------------------------------------------------------------------------
(* A run of alembic.                                                          *)

(* The transaction begins, and the revision is read without a lock.  Before   *)
(* the first revision there is no relative one.                               *)
Begin(m, command) ==
    /\ ~Running(m) /\ runs < MaxRuns
    /\ runs' = runs + 1
    /\ LET v == RevisionOf(schema)
           alone == \A n \in Migrators : ~Running(n)
           mine == [Idle EXCEPT
                      !.stage = IF command = "downgrade -1" /\ v = 0
                                THEN "failed" ELSE "running",
                      !.command = command, !.read = v, !.at = v,
                      !.fresh = Table("alembic_version") \notin schema,
                      !.disturbed = ~alone]
       IN  run' = [n \in Migrators |->
                     IF n = m THEN mine
                     ELSE [run[n] EXCEPT !.disturbed = @ \/ Running(n)]]
    /\ UNCHANGED <<schema, nameless, writing>>

(* One more lock, when nobody else has it.                                    *)
Lock(m) ==
    /\ Waiting(m)
    /\ HoldersOf(Wants(m)) = {} /\ Wants(m) \notin writing
    /\ run' = [run EXCEPT
                 ![m].held = @ \union {Wants(m)},
                 ![m].mine = @ \union {o \in schema : o[1] = Wants(m)}]
    /\ UNCHANGED <<schema, nameless, writing, runs>>

(* The statement is executed; after the last one of its script the run goes   *)
(* on to the next revision.                                                   *)
Execute(m) ==
    /\ Executing(m) /\ Missing(m) = {}
    /\ StatementOf(m).named => ~nameless
    /\ LET last == run[m].next = Len(ScriptOf(m))
           step == IF run[m].command = "upgrade head" THEN 1 ELSE -1
       IN  run' = [run EXCEPT
                     ![m].mine = Applied(StatementOf(m), @),
                     ![m].next = IF last THEN 1 ELSE @ + 1,
                     ![m].at = IF last THEN @ + step ELSE @]
    /\ UNCHANGED <<schema, nameless, writing, runs>>

\* faulty: every statement is committed at once, as with AUTOCOMMIT
RollbackAutocommit(m, killed) ==
    /\ schema' = View(m)
    /\ run' = [run EXCEPT ![m].stage = "failed", ![m].held = {}, ![m].mine = {},
                          ![m].disturbed = @ \/ killed]
    /\ UNCHANGED <<nameless, writing, runs>>

\* faulty: the connection is left open, and its transaction with it
RollbackNever(m, killed) ==
    /\ run' = [run EXCEPT ![m].stage = "failed", ![m].disturbed = @ \/ killed]
    /\ UNCHANGED <<schema, nameless, writing, runs>>

(* The transaction ends with nothing done, and its connection is closed.      *)
Rollback(m, killed) ==
    /\ run' = [run EXCEPT ![m].stage = "failed", ![m].held = {}, ![m].mine = {},
                          ![m].disturbed = @ \/ killed]
    /\ UNCHANGED <<schema, nameless, writing, runs>>

(* A statement that cannot be executed: alembic raises.                       *)
Fail(m) ==
    /\ Running(m) /\ ~Finished(m)
    /\ \/ ~Possible(m)
       \/ Missing(m) = {} /\ StatementOf(m).named /\ nameless
    /\ Rollback(m, FALSE)

Commit(m) ==
    /\ Running(m) /\ Finished(m)
    /\ schema' = View(m)
    /\ nameless' = (nameless /\ Table("users") \in View(m))
    /\ run' = [run EXCEPT ![m].stage = "done", ![m].held = {}, ![m].mine = {}]
    /\ UNCHANGED <<writing, runs>>

(* The process dies, or its connection breaks.                                *)
Killed(m) == Running(m) /\ Rollback(m, TRUE)

----------------------------------------------------------------------------
(* The application at the same time.                                          *)

Free(t) == Table(t) \in schema /\ HoldersOf(t) = {}

(* A login of somebody without a username: upsert_user.                       *)
StoreNameless ==
    /\ Free("users") /\ <<"users", "last_login_at">> \in schema
    /\ <<"users", "username not null">> \notin schema
    /\ nameless' = TRUE
    /\ UNCHANGED <<schema, writing, run, runs>>

(* create_space: the first INSERT, and the second, which looks up the user it *)
(* refers to, with the end of the transaction.                                *)
WriteSpace ==
    /\ writing = {} /\ Free("spaces")
    /\ writing' = {"spaces"}
    /\ UNCHANGED <<schema, nameless, run, runs>>

WriteMembership ==
    /\ writing = {"spaces"} /\ Free("space_memberships") /\ Free("users")
    /\ writing' = {}
    /\ UNCHANGED <<schema, nameless, run, runs>>

----------------------------------------------------------------------------
(* Deadlocks, which PostgreSQL finds and ends by aborting one transaction.    *)
(* A cycle has at most two runs and the writer: at most two processes run     *)
(* alembic here.                                                              *)

WaitsFor(m, n) == Waiting(m) /\ n # m /\ n \in HoldersOf(Wants(m))

WaitsForWriter(m) == Waiting(m) /\ Wants(m) \in writing

WriterWaitsFor(m) ==
    writing = {"spaces"} /\ m \in HoldersOf("space_memberships") \union HoldersOf("users")

Deadlocked(m) ==
    \/ WaitsForWriter(m) /\ WriterWaitsFor(m)
    \/ \E n \in Migrators :
          WaitsFor(m, n) /\ (WaitsFor(n, m) \/ (WaitsForWriter(n) /\ WriterWaitsFor(m)))
    \/ WaitsForWriter(m) /\ \E n \in Migrators : WriterWaitsFor(n) /\ WaitsFor(n, m)

AbortRun(m) == Deadlocked(m) /\ Rollback(m, TRUE)

AbortWriter ==
    /\ \E m \in Migrators : WriterWaitsFor(m) /\ Deadlocked(m)
    /\ writing' = {}
    /\ UNCHANGED <<schema, nameless, run, runs>>

----------------------------------------------------------------------------
Advance(m) == Lock(m) \/ Execute(m) \/ Fail(m) \/ Commit(m) \/ AbortRun(m)

(* The operator begins no further run.                                        *)
AllRun ==
    /\ runs = MaxRuns /\ \A m \in Migrators : ~Running(m)
    /\ UNCHANGED migrationVars

MigrationsNext ==
    \/ \E m \in Migrators :
          \/ \E command \in Commands : Begin(m, command)
          \/ Advance(m) \/ Killed(m)
    \/ StoreNameless \/ WriteSpace \/ WriteMembership \/ AbortWriter
    \/ AllRun

(* PostgreSQL queues those who wait for a lock, so that whoever is often      *)
(* enough able to go on does so, and looks for deadlocks after a second.      *)
MigrationsFairness ==
    /\ \A m \in Migrators : SF_migrationVars(Advance(m))
    /\ WF_migrationVars(WriteMembership \/ AbortWriter)

MigrationsSpec ==
    MigrationsInit /\ [][MigrationsNext]_migrationVars /\ MigrationsFairness
=============================================================================
