# A verification of the wiki backend

TLA+ models of the FastAPI backend in `src/`, their model-checking runs and
machine-checked proofs. Paths below are relative to `src/`.

The backend verifies access tokens of oauth.name, keeps users and server-side
sessions in PostgreSQL, and serves spaces and a user search to whoever presents
a session. It is one asyncio process (or several) without state of its own: all
that is remembered is in the tables. Its difficulty is therefore not in any one
handler but in many of them at once. A handler runs undisturbed between two
awaits, every await is a statement in autocommit mode, and what one handler
read before an await may be stale when it is used after it.

## 1. Inventory

| Component | State | Operations | Interacts with | Correct when |
|---|---|---|---|---|
| Session endpoints, `SessionService` (`app/api/v1/routes/session.py`, `app/services/session_service.py`) | none | create, get, refresh, revoke | `AuthService`, both repositories | logout is final; only live sessions are served; no session outlives the TTL; an issued session is durable |
| Token endpoint, `AuthService` (`routes/auth.py`, `services/auth_service.py`) | none | verify token, upsert user | `TokenService`, `UserRepository` | a user is created once; a profile is not erased |
| `TokenService` (`services/token_service.py`) | key, TTL | `verify_token` | pure | accepts genuine fresh tokens and nothing else |
| `UserRepository` (`repositories/users.py`) | `users` | `upsert_user`, `get_by_id`, `search_by_username` | PostgreSQL | one row per telegram_id; `last_login_at` |
| `SessionRepository` (`repositories/sessions.py`) | `sessions` | `create_session`, `get_by_token_hash`, `update_expiry`, `revoke` | PostgreSQL | one row per token hash, never deleted |
| `mock_oauth/app.py` | none | issue, examples | the token format | undone by `TokenService`; examples are what they are called |
| Error format (`core/errors.py`) | none | five exception handlers | every route, the middlewares | one format; status and code go together |
| Dependencies, pool (`api/deps.py`, `app/db.py`) | 10 connections | `get_connection`, open, close | every route with a table | connections return; waiters are served; closing ends |
| Spaces (`routes/spaces.py`, `services/space_service.py`, `repositories/spaces.py`) | `spaces`, `space_memberships` | `create_space` | `SessionService`, PostgreSQL | no space without its owner |
| User search (`routes/users.py`, `services/user_service.py`) | none | search | `SessionService`, `UserRepository` | only for a live session |
| Assembly (`app/main.py`, `core/trace.py`) | pool, limiter counters | lifespan, trace id, CORS, handlers, rate limit, health | every request | the right trace id on every response; pool before requests |
| Configuration (`core/config.py`) | cached settings | `get_settings` | deps, main | read once, before the first request |
| Migrations (`alembic/`) | schema, `alembic_version` | upgrade, downgrade | tables, the running application | schema and recorded revision agree, whatever collides or fails |
| ORM models (`app/models.py`) | - | - | what the migrations arrive at | same tables and constraints |
| Schemas of requests and responses | - | validation | every route | which bodies are rejected |
| Tests, docs, CI, containers | - | - | - | not part of the running behaviour |

Hard behaviours, each at its line in the `hazards` of `PROJECT.json`:

- **Check then act.** Refresh and logout read the session, judge the record in
  the process, and write the row with another statement. In between the row may
  be revoked, prolonged or may expire.
- **Last commit wins.** `expires_at`, `revoked_at` and `last_login_at` are taken
  from the clock before the statement is sent, and stored unconditionally.
- **Partial failure.** A connection may break before a statement, or after it
  has taken effect and before its reply; the process may die with requests in
  flight. `POST /session` is two commits followed by an answer; `POST /spaces` is
  a transaction whose COMMIT may succeed without its reply.
- **Shared connections.** A request holds its connection from before its handler
  until after its answer; whoever finds none waits, and at shutdown the pool waits
  for all of them.
- **Nested error handling.** Five exception handlers, two of the middlewares and
  the framework's own outermost one each see some of the errors only.
- **Migrations at every start.** `alembic upgrade head` runs in each container
  that starts (`docker-compose.yml:32-36`), at the same time as in others and
  as the application of an older release.
- **Boundaries.** `expires_at <= now`, `now - created_at > ttl`, PKCS#7 padding.

## 2. Modules

| Module | What it is |
|---|---|
| `Domain` | users, session rows, `Null` |
| `TokenService` | `verify_token` as a function of a token and the time |
| `UserRepository`, `SessionRepository` | each SQL statement as a function of its table |
| `Sessions` | the five authentication endpoints over both tables: the core |
| `SessionsProps` | its properties, the refinement mapping, the inductive invariants |
| `SessionStore` | the abstract specification: what the sessions promise |
| `MCSessions` | instances of `Sessions` for TLC |
| `SessionsProofs`, `SessionAnswers`, `SessionTimes`, `SessionsRefinement` | the proofs about `Sessions` |
| `Spaces` | `POST /spaces` and `GET /users/search` next to the session endpoints |
| `SpacesProps` | its properties, the refinement mapping, the inductive invariant |
| `SpaceRegistry` | the abstract specification: what space creation promises |
| `MCSpaces` | instances of `Spaces` for TLC |
| `SpacesProofs` | the proofs about `Spaces` |
| `Pipeline` | one request's way: dependencies, trace id, CORS, exception handlers, settings, as operators |
| `Server` | the process: start and end, the pool, the limiter, requests side by side |
| `ConnectionPool` | the abstract specification: what a pool of connections promises |
| `ServerProps` | the properties of `Server`, the refinement mapping, the inductive invariant |
| `MCServer` | instances of `Server` for TLC |
| `ServerProofs` | the proofs about `Server` |
| `Migrations` | runs of alembic next to each other and to the application |
| `MigrationsProps`, `MCMigrations` | its properties, with the schema of `app/models.py`, and the inductive invariant; for TLC |
| `MigrationsProofs` | the proofs about `Migrations` |
| `MockOauth` | the issuer: how tokens are made, and its example tokens |
| `TokenLife`, `MCTokenLife` | a token presented again and again as time passes |
| `TokenLifeProofs` | the proofs about `TokenService` and `MockOauth` |

`Sessions` extends `TokenService`, `UserRepository` and `SessionRepository`;
`SessionsProps` instantiates `SessionStore`; `Spaces` extends `Sessions` and adds
its own requests to the same tables; `SpacesProps` instantiates `SpaceRegistry`;
`TokenLife` extends `MockOauth`,
which extends `TokenService`. `Server` extends `Pipeline`, and `ServerProps`
instantiates `ConnectionPool`. `Server` and `Migrations` stand next to `Sessions`
and `Spaces`: the first says what happens around a handler, the second where its
tables come from.

### How `Sessions` corresponds to the code

`req[r]` is the coroutine of request `r`: the endpoint, the statement it sent
last (`stmt`), what has become of it (`reply`), the raw session token, the login
payload, the record read, the timestamp parameter of the statement (`at`), and
the answer. `users` and `sessions` are the tables, `issued` stands for the
randomness of `secrets.token_urlsafe`, `clock` for `datetime.now` and
`time.time`. `before`, `active`, `loginAt` and `committed` are history: which
requests had been answered when this one arrived, whether its session was live when
its row was read, the time its upsert carried, and which logins were in the table
once its own was. They are read by properties only.

A request goes through three kinds of steps.

1. **Arrive**: everything up to the first await. `RejectBody`, `RejectHeader`
   and `NoConnection` answer at once; `StartLogin` runs the whole token
   verification; `StartBearer` sends the lookup.
2. **Execute**: PostgreSQL runs the awaited statement, at any later time and in
   any order with others (`ExecUpsert` ... `ExecGetUser`). With `lost` the effect
   stands and the reply does not come. `Break` loses the statement as well.
   `RefuseUpsert` is a login whose values do not fit: `TokenPayload` bounds neither
   `telegram_id` nor the length of a string nor what is in it, the columns of
   `users` do (`bigint`, `varchar(n)`, no U+0000). asyncpg or PostgreSQL refuses
   the upsert on a healthy connection, and the answer is 500. `Unstorable` holds
   the ids and names with that fate.
3. **Resume**: the coroutine continues with the reply up to the next await or to
   the answer: `ResumeCreate` draws a token and sends the insert,
   `GetSession`/`RefreshSession`/`RevokeThisSession` follow a successful
   `_ensure_active`, `ResumeFailed` stands for every `except Exception` of the
   services and for `unhandled_exception_handler`, whose code is the same.

`Crash` drops every request in flight; a statement already sent may still run.
The next process continues with the same tables, and so do several processes
side by side: nothing but the tables is shared.

### How `Spaces` corresponds to the code

A *job* is a request to `POST /spaces` or `GET /users/search`; `job[j]` is its
coroutine as `req[r]` is that of a request. It goes through the same three kinds
of steps, and both endpoints begin like `GET /session`: header, hash, lookup,
`_ensure_active`, `get_by_id`. Then

- `POST /spaces` looks at the stripped name (a blank one is answered
  `VALIDATION_ERROR`, but only now, after the session was found), and runs
  `create_space`: BEGIN, INSERT INTO `spaces`, INSERT INTO `space_memberships`,
  COMMIT, each a statement with a reply of its own. `tx` is what the open
  transaction holds and nobody else sees; `spaces` and `members` are written by
  `JobCommit` only. A statement refused inside the transaction leads to ROLLBACK
  and then to 500 (`JobRejected`, `JobFailed`); a broken connection, or the end of
  the process, takes the transaction with it.
- `GET /users/search` sends one SELECT (`JobSearch`). Which users it finds is not
  modelled, since nothing depends on it.

A name is `text`, `blank`, or `unstorable`: one with a U+0000, which pydantic
lets through and PostgreSQL refuses, so that the first INSERT (or the SELECT of
the search) fails. A session step may happen between any two steps of a job and
the other way round (`SessionStep`); `ProcessDies` drops both kinds of requests.

### How `Server` corresponds to the code

`Pipeline` has no state. `Depends` is the graph of `Depends(...)` in `api/deps.py`
and the routes; `ConnectionsOf(e)` follows from it, since FastAPI calls a provider
once per request. `Handled`, `Respond` and `ResponseTo` are the exception handlers
and the layers in the order Starlette builds them: the handler of `Exception`
outermost, then the trace id middleware, then CORS, then the other four handlers.

`req[r]` in `Server` is a request on its way: `Receive` is everything up to the
first await (preflight, router, a body that is no JSON, dependencies), then it is
*waiting* for a connection (`Acquire`, or `AcquireFails` when PostgreSQL is away),
*handling* (`HandleRoot` with the limiter, `RefuseInput`, or `Handle` with any
outcome the handlers of this endpoint have) and *leaving* (`Leave`, the exit code
of `get_connection`, which runs after the answer was made). A client may send any
trace id, also one that the server made and exposed to a page (`ClientIds` may
overlap `UuidHexes`). `raised` is history, what the answer was made from, so that
the properties tell an `AppError` with status 500 from an unhandled exception.
`Start` requires
settings that load and a database that answers, `Stop` is SIGTERM, `ClosePool`
the end of `lifespan`, `Die` a process that is killed. `Toggle` takes the database
away and brings it back at any time.

What a handler does with the tables is not repeated there: `Handle` chooses an
outcome, `Sessions` and `Spaces` say when which one occurs.

### How `Migrations` corresponds to the code

A schema is a set of objects: tables, foreign keys, and those parts of a table
that a constraint, a statement of the application or a later script depends on.
Each script is the sequence of statements of its `upgrade` or `downgrade`; a
statement has the locks it takes, what must and must not exist, and what it adds
and drops, and ends with alembic moving the row of `alembic_version`.

`run[m]` is a run of alembic by process `m`: `Begin` reads the revision, without a
lock and at the start of the one transaction `alembic/env.py:58` opens for all
scripts; `Lock` takes one table lock, `Execute` runs the statement, `Fail` raises
when it cannot be run, `Commit` ends the run. `View` is the committed schema with
the run's own changes. `Killed` and the deadlock detection of PostgreSQL
(`AbortRun`, `AbortWriter`) roll a run or a request back. The application runs
meanwhile: `StoreNameless` is a login of somebody without a username, `WriteSpace`
and `WriteMembership` are the two statements of `create_space`, which locks
`spaces` before `space_memberships`.

### What is abstracted

- Database and process share one clock that does not run back; a resuming
  coroutine reads it once.
- sha256 is injective; session tokens do not repeat and are not guessed, so
  clients present tokens they were given, or `Bogus`.
- A row is kept under its unique key. `username` stands for all five columns
  written with `COALESCE`, `profile` for the four optional strings of a payload;
  a username that does not fit stands for any of these that does not.
- `created_at` and `updated_at` of rows are left out: no code reads them back
  into a decision.
- TTLs and keys are constants: `get_settings` is read once, and a deployment
  that changes them between restarts is out of scope.
- `gen_random_uuid()` repeats no id, also not one of a transaction that was rolled
  back, and `uuid4()` none for requests that brought no trace id.
- A client that disconnects does not cancel its handler.
- A cryptographic stage is described by what it tells apart: an HMAC matches
  exactly when it was computed over these bytes with this key.
- Which request an idle connection goes to is open (asyncpg serves waiters in
  order). A connection that is lent is never broken by the model; a handler whose
  connection breaks ends in one of its outcomes.
- The limiter counts within windows that end at any time; that the real one is a
  window of one second is not used.
- In a checked instance at most two processes run alembic at a time
  (`AtMostTwoMigrators`), so that a deadlock is a cycle of two runs and one
  request. The proofs do not use this.
- All locks of migrations are exclusive and per table, so a run may wait where
  PostgreSQL would let it go on. Reads of the application, its row locks and the
  writes other than those above take none. A column without constraint is no
  object of the schema, except `last_login_at`, which `upsert_user` needs.
- A token's class `integer` also covers the floats and booleans that pydantic's
  lax mode takes for one.

## 3. Runs

| Run | Instance | Asks |
|---|---|---|
| `SessionRaces` | 3 requests to the three bearer endpoints, one session, two possible deadlines, clock to 3, TTL 2 | what survives every interleaving of checks, refreshes and logouts across an expiry; refinement of `SessionStore` |
| `LoginOutage` | 3 requests: logins with a username, without, and with one too long, checks and logouts; empty database; lost replies, broken connections, crashes | users created once, profile kept, 500 only on a broken connection or for a login that cannot be stored, issued sessions durable |
| `EveryEndpoint` | 2 requests to any of five endpoints, faults, clock to 2, a user and a session at hand; a name that cannot be stored | documented codes, recorded logins, every request answered |
| `SpaceRaces` | 2 `POST /spaces`, 1 `DELETE /session`; two users, one session that ends at 1, clock to 1, two ids; lost replies, broken connections, the process dies | a space and its owner come into being together or not at all, for a live session, and not after its logout; refinement of `SpaceRegistry` |
| `SpaceAnswers` | 1 job of either endpoint next to 1 refresh or logout; the same faults | served for a live session only; every job answered |
| `TokenLife` | blocks of 3 bytes, bytes 0..4, plaintexts up to two blocks; all transports, keys, contents, field classes; ages 0..6, TTL 3 | `TokenService` accepts exactly what an issuer with the key can make and no older than the TTL |
| `Serving` | 2 requests of seven kinds, one connection, limit 1, three environments (one that does not load), two starts; a client that sends a trace id of the server; database outages, stops, deaths | no connection leaks or is shared, headers and format of every answer, every request and every stop ends; refinement of `ConnectionPool` |
| `MigrationRaces` | 2 processes, 3 runs of `upgrade head` or `downgrade -1` from any of the six revisions, one `create_space` and nameless logins at a time; kills, deadlocks | the schema is that of the recorded revision and, at the head, of `app/models.py`; what fails undisturbed; every run ends |
| `RefreshShortens` | 2 requests | violated: the docstring of `refresh_session` |
| `ExpiredRevives` | 3 requests | violated: the document's meaning of `SESSION_EXPIRED` |
| `LastLoginGoesBack` | 2 logins | violated: `last_login_at` as the fact of the last login |
| `TraceIdMissing` | 2 requests | violated: `docs/errors.md` on `X-Trace-Id` |

**Why these bounds.** Every property relates at most two requests, and a third
gives an adversary between them: three requests suffice for the check, the write
and the observation that comes after both. With two deadlines, TTL 2 and a clock
to 3 a session expires before, during and after a refresh. `LoginOutage` stops
the clock: its properties do not depend on time, and the faults that replace it
are what makes that instance large. The properties of `Spaces` relate a job to one
logout, or to the other job that could take its space id; two jobs, two ids and
one logout are what they speak of. Blocks of three bytes contain each boundary of
PKCS#7 (0, 1, a full block, one more than a block, data shorter than the pad).
`Serving` needs two requests for one connection, so that one waits while the other
fails in each possible way. What takes two connections, a request that holds one
and asks for another, or a connection given to two requests while a second is idle,
this run cannot show; `ConnectionsNeverLeak` and `PoolImplemented` are proved for any
number. In
`MigrationRaces` two runs collide in every pair of statements, and the third finds
what they left: with a database at revision 4, one upgrade, one downgrade and
another upgrade are both directions and the way back to the head.
`MaxClock`, `MaxAge`, `MaxStarts` and `MaxRuns` are the only bounds in guards. Symmetry is used in runs
without liveness only, over requests and, where no session token is named in
`Init`, over tokens.

`CHECK_DEADLOCK` is never turned off: `Idle`, `SpacesIdle`, `Drop`, `Retired` and
`AllRun` are the only steps of a system whose clients or operators have nothing
left to ask.

**Fairness.** `EveryRequestAnswered` assumes weak fairness of each request's
`Resume` (the event loop runs coroutines whose reply is there) and of
`Execute \/ Break` (PostgreSQL answers, or the connection is dropped). The second
is an assumption about the database: the pool sets no `command_timeout`, and a
statement that is never answered does hold its request for ever. It also holds a
connection and the end of the process; `EveryRequestEnds` and `StopEnds` assume that
it does not happen and would not show it. Arrivals, the
clock and crashes are not fair. `SpacesFairness` assumes the same of jobs, and
`EveryJobAnswered` needs no more: a transaction that fails sends its ROLLBACK and
raises. `ServerFairness` assumes that each request proceeds when it can
(`Proceed`; of a waiter, that it gets an idle connection in the end, which the
order of asyncpg's queue guarantees) and that a server with nothing left to do
closes. `MigrationsFairness` is strong for runs: others may take the lock a run
waits for again and again, and PostgreSQL's queue of waiters lets nobody be passed
for ever; and weak for `create_space`, which has only one statement left.

**What the violations show.** Three share one cause: a time is taken before an
await and stored unconditionally after it.

- Two refreshes are sent at times 0 and 1 and commit in the other order. The
  second client was told a deadline one later than the one stored.
  `RefreshHoldsUnlessOverlapped` is what the code does keep: if the row ends
  earlier, it holds the older time of a refresh that overlapped.
- A refresh passes the check, its update waits, the deadline passes, another
  request is answered `SESSION_EXPIRED`, the update runs, and the token works
  again. `ExpiryHoldsUnlessOverlapped` is the part that holds: a session somebody
  was answered to be expired stays inactive unless a refresh overlapped that
  request. This includes the other direction, an answer `SESSION_EXPIRED` for a
  row that was prolonged after it was read.
- Two logins likewise leave `last_login_at` at the older time.
  `LoginRecordedUnlessOverlapped` holds: there is an overlapping login of the user
  that took its time earlier and committed it after the newer one.

The fourth is about order: Starlette calls the handler of `Exception` outside of
all middlewares, so what `unhandled_exception_handler` answers (also when no
connection could be opened) has no `X-Trace-Id`, nor an
`Access-Control-Allow-Origin` that would let the page read it.
`HeadersUnlessUnhandled` says that such an answer has neither header and that every
other one has both, those of an `AppError` with status 500 included.

Each property of the passing runs has a mutant: a faulty variant of one
definition, kept above the right one and marked `faulty`, under which TLC finds
the property violated.

## 4. Proofs

`SessionsProofs` proves `Spec => []IInv` for all values of the constants that
satisfy the named assumptions: any number of requests, tokens, users and initial
sessions, any TTL (negative ones too), with or without faults.

The safety properties are not inductive: `LogoutIsFinal`, for one, speaks of
answers, while what keeps it true is what the sessions row, the record read and
the statements in flight say meanwhile. `IInv` adds this in four parts:

- `StatementInv`: the statement a request sent tells its endpoint and what it
  holds; times waiting to be stored are no later than the TTL from now; a record
  that still looks active was active when it was read.
- `AnswerInv`: an answer tells which statement it followed.
- `TableInv`: what a reply said of the row stays true: no statement deletes a row
  or clears `revoked_at`.
- `HistoryInv`: a request that arrived after a logout or a login was answered
  cannot find its row missing, nor, after a logout, a record not revoked.

The argument follows the code. Tables grow (`Grows`: rows stay, owners stay,
revocations stay) and new expiry times are bounded (`ExpiresBy`); one lemma per
statement says so. `StepOfOneRequest` reduces a step of request `r` to the parts
of the invariant about `r`, then there is one lemma per action. From `IInv`:

| Theorem | Says |
|---|---|
| `TypeCorrect` | `TypeOK` |
| `SessionsExpire` | `LifetimeBounded`: no session outlives the TTL from now |
| `LogoutFinal` | `LogoutIsFinal`: nothing served with a token after its logout was answered |
| `ServedActive` | `ServedOnlyIfActive`: a served session was live when its row was read |
| `SessionDurable` | `IssuedSessionDurable`: an answered session is never unknown |

`SessionAnswers` proves what the answers rest on. An answer 500 means a broken
connection, or a login that cannot be stored, only if nothing else can go wrong in a
statement, that is, if no foreign key and no unique index is ever violated.
`AnswersInv`, inductive on top of `IInv`, says why:

- `OwnersExist`, `StoredTokensIssued`: a stored session has a user, and a token
  that was issued; so a new token collides with none.
- `KnowledgeInv`: the users that a login, a record or a `created` flag speaks of
  are still there, and a login that brought a name finds one in its row.
- `UniqueInv`: no two requests created one user or hold one new token.
- `ReplyInv`: no statement is rejected but the upsert of a login that cannot be
  stored, a user that is looked up is found, and each answer comes from the
  statement its endpoint ends with.

| Theorem | Says |
|---|---|
| `ErrorsHaveCauses` | `InternalErrorHasCause`: 500 only on a broken connection, or for an upsert refused for its values |
| `CreatedAtMostOnce` | `CreatedOnce`: of all logins of one user at most one is told `created` |
| `NamesStay` | `ProfileKept`: a login without a username erases none |
| `CodesAsDocumented` | `DocumentedAnswers`: each endpoint answers with the codes of its docstring only, and a bearer endpoint, whose docstring omits it, with `INTERNAL_ERROR` on a broken connection alone |

Its first part sorts the steps of `Sessions` by what they do to one request and
the tables, whatever the endpoint (`Arrived`, `Upserted` ... `Following`,
`Answers`), and shows that every action is a step of one of these kinds
(`KindsOfSteps`). The proofs after that have a case per kind.

`SessionTimes` proves what the violated runs leave true. A claim about a request
that is over, such as "its deadline is stored unless another refresh overlapped",
can be broken by a step of another request much later, so `TimesInv` remembers of
each finished request what the row still owes it:

- `OrderInv`, `TimeInv`: a request that arrived after another was answered took its
  time later, and no time is ahead of the clock it was taken from. With
  `BeforeStays` (who was answered before stays so) this makes "did not overlap" mean
  "took its time later".
- `LoginInv`, `RefreshInv`: the row is at least as recent as what a finished login
  or refresh wrote, or one that overlapped wrote an older time after it.
- `VerdictInv`, `RecordInv`, `ExpiredInv`: what was answered `SESSION_EXPIRED` was
  read from a row that still says so, and whoever arrived after that answer reads
  an inactive row as well, unless a refresh overlapped it.

| Theorem | Says |
|---|---|
| `RefreshHolds` | `RefreshHoldsUnlessOverlapped` |
| `ExpiryHolds` | `ExpiryHoldsUnlessOverlapped` |
| `LoginRecorded` | `LoginRecordedUnlessOverlapped` |

`SessionsRefinement` proves `Spec => ImplementsStore`: each insert, update and
revocation is one step of `SessionStore` on one session, everything else
stutters. The deadline of a revoked session is forgotten by the mapping, so a
refresh that loses the race against a logout and writes the row last stutters.

`SpacesProofs` is about the composition. `Composition` (`SpacesSpec => Spec`) says
that a job never writes what `Sessions` reads, so every theorem above holds with
the jobs running. On top of `IInv` it proves `SpacesSpec => []SpacesInv`:

- `JobStatementInv`: the statement of a job tells its endpoint, that its session
  was found live, and what its transaction holds;
- `JobTableInv`: the session row is still there with the same user; the space of a
  job is absent until its COMMIT and complete after it;
- `JobHistoryInv`: a job that arrived after a logout reads a revoked record;
- no two jobs hold the same id, and what the tables hold of a space is from one
  job's COMMIT (`MadeBy`).

Steps of `Sessions` enter the argument only through `Monotone` (rows, owners,
revocations and answers stay, the clock does not run back), which follows from
`IInv`. A step of one job reduces to a statement about its new record
(`StepOfOneJob`); COMMIT, the only step that writes a table, has a lemma of its
own.

| Theorem | Says |
|---|---|
| `SpacesTypeCorrect` | `SpacesTypeOK` |
| `LogoutReachesJobs` | `LogoutStopsJobs`: no job is served, and no space made, with a token after its logout was answered |
| `OwnerIsSessionUser` | `CreatedForSession`: a space has one member, the user of a session that was live |
| `FailedLeavesNothing` | `FailureLeavesNothing`: no half-made space |
| `AnsweredExists` | `AnsweredSpaceExists`: a space answered 201 is there |
| `JobsServedActive` | `JobServedOnlyIfActive` |
| `SpacesRefinement` | `ImplementsRegistry`: the two inserts are one step of `SpaceRegistry` |

`TokenLifeProofs` is about functions more than about steps, for every block
length up to 255, every key, TTL and plaintext. `LastBlock` and
`WholeBlocks` are the arithmetic of blocks, `PaddedIsOk` and `OkIsPadded` the two
directions of `PaddedExactly`: `_pkcs7_unpad` accepts the sequences that
`_pkcs7_pad` makes and no others. With the stages after it (`VerifyTokenAccepts`)
this gives what `verify_token` accepts.

| Theorem | Says |
|---|---|
| `TokensGenuine` | `AcceptsExactlyGenuine` |
| `RefusedForGood` | `RefusalIsFinal`: a token refused once is refused ever after |
| `ExamplesTrue` | `ExamplesAsNamed`: each example of `mock_oauth` is refused, or accepted, as its name says |

`ServerProofs` proves `ServerSafety => []ServerInv`: the type invariant, the
accounting of connections, and, for each request, what its stage says of its
record (`RecordOk`) and that the ids made for two requests that brought none differ
(`UuidsDiffer`); a third may have brought back one of them. A step of one request reduces to its new record (`StepOfRequest`,
with `Moves` for the connections that change hands); `EndingsFormat` and
`ResponseHeaders` say once for all outcomes what the handlers and middlewares make
of them.

| Theorem | Says |
|---|---|
| `ServerTypeCorrect` | `ServerTypeOK`; with it the rate limit per window |
| `ConnectionsNeverLeak` | `ConnectionsAccounted`: each connection is idle or with one request that is not over |
| `HeadersAsPromised` | `HeadersUnlessUnhandled` |
| `FormatAsPromised` | `AnswersInFormat` |
| `PoolImplemented` | `ImplementsPool`: the process and its requests are a `ConnectionPool` |

`MigrationsProofs` proves `MigrationsSpec => []MigrationsInv` for any number of
processes, of runs, and of requests between them. It has two parts.

The first is about the scripts alone. `Leads(ops, s, t)` says that each statement
of a script finds what it needs when the script is begun on `s`, and that the last
one makes it `t`. One lemma for each `upgrade` and `downgrade` (`Upgrade0001Leads`
... `Downgrade0005Leads`) follows it from the effect of its statements, next to
anything that `alembic_version` may have; together they are `UpgradesLead` and
`DowngradesLead`, and with the statement that moves the row `ScriptParts`: every
script that a command executes leads from one revision, as alembic leaves the
database there, to the next. `HeadIsModels` compares revision 5 with
`app/models.py`. `After` and `SchemaAt` are recursive functions, and nothing can be
proved of them by induction here. None has more than eight steps, though, so
`EightSteps` makes them one by one, and `SchemaAtIs` shows the values that satisfy
the definition.

The second is about runs next to each other. A run reads the revision without a
lock, so by the time it executes its first statement the database may be at another
one. `MigrationsInv` cannot say that a run sees the schema its script was written
for; it says this table by table:

- `CourseInv`: a run is within a script between the revision it read and where its
  command leads.
- `LockInv`: what it has changed it has locked, and no other has.
- `ViewInv`: of a table that is still as it was when the run began, the run sees
  what its script plans; a table it holds no lock of, its script has not changed
  so far.
- `StampInv` with `FirstInv`: a run gets beyond its first script only if the
  database is what it took it for. For moving the row of `alembic_version` needs
  the row it read, and that table stays locked to the end, so that nobody else can
  commit. Two runs on an empty database have no row that keeps them apart; there it
  is `CREATE TABLE tmp`, the first statement of 0001, that only one can execute.
- `AloneInv`: a run that nobody disturbed finds the database as it was.

So what `Commit` writes is a whole revision (`StampInv`), and a statement that
cannot be executed is one of a disturbed run (`AloneInv` with `Leads`), except where
usernames are required again. Each action has a lemma (`BeginKeeps`, `LockKeeps`,
`ExecuteKeeps`, `CommitKeeps`, `RollbackKeeps`); a step of run `m` that commits
nothing reduces to the parts about `m` (`StepKeeps`).

| Theorem | Says |
|---|---|
| `MigrationsTypeCorrect` | `MigrationsTypeOK`: no object that no revision has |
| `SchemaAsRecorded` | `SchemaMatchesRevision`: what is committed is the schema of the recorded revision, and at the head that of the models |
| `FailsAlone` | `FailsAloneOnlyForNames`: an undisturbed run fails only where it must |

Assumptions: `Null` is none of the values, rows, tokens or stored sessions it is
compared with (`NullIsNoValue`, `SessionConstants`, `SpaceConstants`,
`NullIsNoStoredSession`); sessions found in the database expire no later than the
TTL from the start, that is, they were made with the same TTL
(`SessionConstants`); verified tokens name users of the instance
(`OauthTokensNameUsers`); the block length is that of a byte (`TokenConstants`);
values that cannot be stored are ids and names (`UnstorableValues`), and users
found in the database have others (`SessionConstants`);
`*` is not an origin, and a preflight has one (`PipelineConstants`,
`ServerConstants`); a plaintext is a sequence of bytes, the
demo user of `mock_oauth` is one of the users, and its key is a key
(`MockConstants`); a field of a presented token has a value of the type its class
tells (`PresentedAreTokens`), which is what parsing can yield; and time begins
after the fixed `created_at` of the `wrong_types` example is out of date
(`WrongTypesStale`), a constant of the year 2023 in the code; and the number of
alembic runs is a natural number (`MaxRunsIsNat`). TLC evaluates all of them.

**Only model-checked**: `EveryRequestAnswered`, `EveryJobAnswered`,
`EveryRequestEnds`, `StopEnds` and `EveryRunEnds`, which are liveness under
fairness and out of the prover's reach.

## 5. Not modelled, and observations

- Offline migrations (`alembic/env.py:37-48`) print SQL and touch no database.
- `allow_credentials`, allowed methods and headers of CORS, wording and timestamp
  of error bodies, the shapes of responses, which users a search finds.
- Tests, CI, containers and documents are read, not modelled. FastAPI, Starlette,
  slowapi, asyncpg, uvicorn, alembic and PostgreSQL are modelled as far as the code
  relies on them, and marked external in `PROJECT.json`.
- The 32-bit sequence of `users.id` is out of any instance's reach.

Observations on the way:

- The `RuntimeError` of `get_connection` without a pool cannot occur behind
  `lifespan`, which creates the pool before the first request.
- A request with wrong parameters waits for a connection before it is refused,
  one with a body that is no JSON does not: FastAPI validates parameters after it
  has called the dependencies.
- The limiter counts in the memory of one process and by remote address; several
  processes allow several times the rate, and a proxy is one client.
- Two upgrades that start together: one of them fails on what the other has
  created, and its container does not start (`docs/render-deploy.md:153` names the
  risk). Nothing is damaged, and starting it again is enough:
  `FailsAloneOnlyForNames` says that a run nobody disturbs does not fail.
- `alembic downgrade -1` from 0003 fails once a user without a username has logged
  in; the database stays at 0003.
- Downgrading 0005 while spaces are created can deadlock; PostgreSQL ends one of
  the two.
- With `OAUTH_MOCK_FIXED_CREATED_AT` ahead of the clock, the `expired` example of
  `mock_oauth` is accepted until the clock has caught up.
- `create_space` looks at the stripped name and stores the name as it came; `%` and
  `_` in `q` are wildcards of ILIKE (`repositories/users.py:148-151`).
- `http_exception_handler` answers an unknown path with status 404 and
  `INTERNAL_ERROR`, since its table has no entry for it (`core/errors.py:80-88`).
- `username` must be present in a token payload (`token_service.py:30`), though it
  may be null; `docs/token-endpoint.md:35` calls it optional.
- The `wrong_types` example is refused because of its age only: its types are
  accepted by pydantic. Neither `invalid` nor `invalid_base64` decodes: the one has
  13 base64 characters, the other 10 and no padding.
- For an unknown session token `docs/Формат ошибок.md:122` and `:171` say
  `OAUTH_CODE_INVALID`; the code answers `SESSION_MISSING`
  (`app/services/session_service.py:106-107`), as do the docstring of `GET /session` and
  `DocumentedAnswers`.
- The docstrings of the three bearer endpoints (`app/api/v1/routes/session.py:141`,
  `:168`, `:195`) do not list `INTERNAL_ERROR`, which a broken connection gives.
- The values of a token payload have no bounds (`app/services/token_service.py:29-35`), the
  columns of `users` do: such a login is answered 500, not `VALIDATION_ERROR` or
  `OAUTH_CODE_INVALID`.
- A server's trace id may reappear as another request's: `trace_id_middleware` takes
  any header value, and `X-Trace-Id` is exposed to pages (`app/main.py:64`).
- A token whose `created_at` lies ahead of the clock is accepted, and for longer
  than the TTL.
- Each upsert of a known user consumes a value of the 32-bit sequence of
  `users.id`.

## 6. Plan

Every safety property of the runs is proved. What is left is a deadlock detection
for more than two processes that run alembic, with `EveryRunEnds` checked for three.
