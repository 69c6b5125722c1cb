--------------------------- MODULE MigrationsProps ----------------------------
(* The properties of Migrations.                                              *)
EXTENDS Migrations

(* The tables as app/models.py declares them.                                 *)
ModelsSchema ==
    {Table("tmp"), Table("users"), Table("sessions"), Table("spaces"),
     Table("space_memberships"),
     <<"users", "telegram_id unique">>, <<"users", "last_login_at">>,
     <<"sessions", "users">>, <<"sessions", "user_id integer">>,
     <<"sessions", "index user_id">>, <<"sessions", "unique index token_hash">>,
     <<"space_memberships", "users">>, <<"space_memberships", "spaces">>}

(* Every variable of Migrations holds values of its kind.                     *)
MigrationsTypeOK ==
    /\ schema \subseteq Objects
    /\ nameless \in BOOLEAN
    /\ writing \in {{}, {"spaces"}}
    /\ run \in [Migrators -> RunRecord]
    /\ runs \in 0 .. MaxRuns

(* Whatever is committed, by whichever runs of alembic at the same time and   *)
(* with whichever failures between: the tables are those that the scripts up  *)
(* to the recorded revision make from an empty database, after a downgrade as *)
(* well, and at the head they are those of app/models.py.                     *)
SchemaMatchesRevision ==
    LET v == RevisionOf(schema)
        tables == {o \in schema : o[1] # "alembic_version"}
    IN  /\ tables = SchemaAt[v]
        /\ v = Newest => tables = ModelsSchema
        /\ {o \in schema : o[1] = "alembic_version"} \subseteq
             VersionRow(v) \union {Table("alembic_version")}

(* A run that nobody disturbed fails only where it must: below the first      *)
(* revision, and on the way back from 0003 when a user has no username.  A    *)
(* start that failed in a race has only to be repeated.                       *)
FailsAloneOnlyForNames ==
    \A m \in Migrators :
        run[m].stage = "failed" /\ ~run[m].disturbed =>
            /\ run[m].command = "downgrade -1"
            /\ run[m].read = 0 \/ run[m].at = 3

(* Every run ends, whatever locks the others and the application hold.        *)
EveryRunEnds == \A m \in Migrators : Running(m) ~> ~Running(m)

----------------------------------------------------------------------------
(* The inductive invariant of the proofs.                                     *)

\* what schema s has of table t
Of(t, s) == {o \in s : o[1] = t}

(* The database at revision n, for a run that has to create alembic_version   *)
(* if it is fresh and there was no revision yet.                              *)
Base(n, fresh) == Deployed(n, n # 0 \/ ~fresh)

(* What a run took the database for when it began.                            *)
Found(m) == Base(run[m].read, run[m].fresh)

(* What the statements it has executed make of that.                          *)
Planned(m) ==
    LET base == Base(run[m].at, run[m].fresh)
    IN  IF Finished(m) THEN base ELSE After(ScriptOf(m), base)[run[m].next - 1]

LocksOf(op) == {op.locks[i] : i \in DOMAIN op.locks}

(* A run goes from the revision it found to where its command leads.          *)
CourseInv(m) ==
    Running(m) =>
        /\ IF run[m].command = "upgrade head" THEN run[m].read <= run[m].at
           ELSE run[m].read > 0 /\ run[m].at \in {run[m].read - 1, run[m].read}
        /\ run[m].next <= IF Finished(m) THEN 1 ELSE Len(ScriptOf(m))
        /\ IF run[m].fresh THEN run[m].read = 0 ELSE Table("alembic_version") \in schema

(* It changes only what it has locked, and nothing else has.                  *)
LockInv(m) ==
    /\ \A o \in run[m].mine : o[1] \in run[m].held
    /\ ~Running(m) \/ (run[m].read = Newest /\ run[m].command = "upgrade head") =>
         run[m].held = {}
    /\ \A n \in Migrators \ {m} : run[m].held \intersect run[n].held = {}

(* Of a table that is as the run took it to be, its view is as planned.       *)
ViewInv(m) ==
    Running(m) => \A t \in Tables :
        IF t \in run[m].held
        THEN Of(t, schema) = Of(t, Found(m)) => Of(t, run[m].mine) = Of(t, Planned(m))
        ELSE Of(t, Found(m)) = Of(t, Planned(m))

(* Within its first script, a table that no statement has locked yet is as it *)
(* was, and what a statement had to create was not there.                     *)
FirstInv(m) ==
    /\ \A t \in run[m].held :
          (\A i \in 1 .. run[m].next - 1 : t \notin LocksOf(ScriptOf(m)[i])) =>
             Of(t, run[m].mine) = Of(t, schema)
    /\ run[m].read = 0 =>
          /\ run[m].fresh /\ run[m].next > 1 =>
               /\ "alembic_version" \in run[m].held
               /\ Table("alembic_version") \notin schema
          /\ run[m].next > (IF run[m].fresh THEN 2 ELSE 1) =>
               "tmp" \in run[m].held /\ Table("tmp") \notin schema

(* It has got beyond that script only if the database was what it took it     *)
(* for, and then none but itself can change that.                             *)
StampInv(m) ==
    Running(m) =>
        IF run[m].at # run[m].read
        THEN "alembic_version" \in run[m].held /\ schema = Found(m)
        ELSE FirstInv(m)

(* Alone it finds the database as it was.                                     *)
AloneInv(m) ==
    Running(m) /\ ~run[m].disturbed =>
        schema = Found(m) /\ \A n \in Migrators \ {m} : ~Running(n)

MigrationsInv ==
    /\ MigrationsTypeOK
    /\ \E n \in 0 .. Newest, fresh \in BOOLEAN : schema = Base(n, fresh)
    /\ \A m \in Migrators : /\ CourseInv(m) /\ LockInv(m) /\ ViewInv(m)
                            /\ StampInv(m) /\ AloneInv(m)
    /\ FailsAloneOnlyForNames
=============================================================================
