# Formal models of the application API

The repository is a Go HTTP API over PostgreSQL: users with roles, roles, parameters,
login sessions, signed requests, and a program that migrates the schema. Most of it is
generated code of one shape: decode a body, open a transaction, run one or more
statements, COMMIT. Each of these handlers is easy to read; what happens when they
overlap, break off or are repeated is not, and that is what the models here are about.

Run `tlc -config X.cfg MC_M.tla` for a configuration and `tlapm M_proofs.tla` for a proof.

## 1. The system

### Components and their state

| Component | Where | State | Operations |
|---|---|---|---|
| User store | `model/gen__user_store_*.go`, `migrations/0001`, `0010` | `app_user` (with a `version`), `app_user_role` (no key, two foreign keys) | Create, Get, GetByEmail, Find, Update, UpdatePassword, Delete |
| Role store | `model/gen__role_store_*.go`, `migrations/0002` | `app_role` (unique name, no version) | Create, Get, Find, Update, Delete |
| Parameter store | `model/gen__param_store_*.go`, `migrations/0005` | `param` (unique code and group, no version) | Create, Get, Find, Update, Delete |
| Sessions | `handler/auth.go`, `handler/handler.go` | token and secret columns of `app_user`; `sPriv` of the process; what clients hold | login, refresh, logout, show |
| Admission | `handler/auth_lib.go` | the LRU cache `nonces` under `noncesLock` | Secure, BasicAuthenticate, BasicHMAC |
| Privileges | `handler/auth.go` `mergeMap`, `toLoginUser` | the merged document of one request | merge, look up |
| Migration | `cmd/migrate/*.go` | `app_migration`, the schema, the table lock | RunSQLFile for drop and up scripts, splitSQL |
| Handlers | `handler/gen__*.go` | none | what they pass to the stores |
| Request logger | `handler/http.go` | the captured body, the status of the answer | read, restore, answer, log |
| Filters | `findFilters` in `model/gen__*_store.go`, `model/gen___postgres.go` | the WHERE and its arguments of one Find | append a condition |
| Server, connection, passwords, JSON columns, build files | `main.go`, `util/`, `Makefile` | none that outlives a call, except the secret's mask in JSON | |

How they meet. Every HTTP request is a goroutine. `Secure` reads the user (two queries) and
merges its privileges; `BasicAuthenticate` looks the action up and, for PUT, PATCH and
DELETE, verifies a signature with the secret that `Secure` has read; the handler then calls
a store, whose transaction is the only thing that orders it against other requests. Login,
refresh and logout are read-modify-write on the user row through the same `Update` a client's
PATCH uses. Deleting a role meets the membership rows that updates of users write.

### What is hard

* A user is in two tables and is read by two queries outside a transaction, then written back.
* `Update` compares a SELECT of the membership rows with the object it was given, row by row.
* `Delete` has no deferred `Rollback`; `RunSQLFile` returns from a skipped file with its
  transaction, and the lock of `app_migration`, open.
* Loops over `rows.Next` never ask `rows.Err`: a broken result set looks like a short one.
* Tokens are checked and signed before the transaction that stores them.
* The nonce cache is bounded, filled before the signature is verified, and lost on restart.
* Roles and parameters have no version; `version` is a 32-bit column written from 64 bits.
* Both programs can die anywhere; answers can be lost; requests can be delivered twice.
* The handler and the signature check read a copy of the body that may be cut off, and an answer
  that breaks off sets a second status.
* `splitSQL` cuts a script with five flags, one per kind of quote or comment; a filter names its
  argument by the length of a list.

`PROJECT.json` lists each of these with its line under "hazards", and the properties that
would notice it.

## 2. The modules

| Module | Models | Checked by |
|---|---|---|
| `VersionedUsers` | abstract: an account with its roles is one record; a call does in one step what its arguments say, or nothing; one version per edit | refined by `UserStore` |
| `OneSession` | abstract: login, refresh and logout act on the session in one step, and the client is told what was done | refined by `Session` |
| `AtomicTable` | abstract: a call on a table without versions acts in one step as if alone, or not at all | refined by `RowStore` |
| `UserStore` | the user store on PostgreSQL, statement by statement, with role deletion | `MC_UserStore`, `UserStore_proofs` |
| `Session` | login, refresh, logout and admission for one address and several clients | `MC_Session`, `Session_proofs` |
| `NonceCache` | `BasicHMAC`: timestamp, nonce, LRU cache | `MC_NonceCache`, `NonceCache_proofs` |
| `Privileges` | `toLoginUser`, `mergeMap` and the lookup | `MC_Request`, `Privileges_proofs` |
| `Request` | one request from `HTTPLogger` to its answer, on top of `Privileges` | `MC_Request`, `Request_proofs` |
| `Filters` | the tables `findFilters` and the functions that build a WHERE | with `RowStore` |
| `RowStore` | role and parameter stores, with the Find of all three tables | `MC_RowStore`, `RowStore_proofs` |
| `Migrate` | `main` and `RunSQLFile` of `cmd/migrate` | `MC_Migrate`, `Migrate_proofs` |
| `SplitSQL` | `splitSQL` of `cmd/migrate`, beside PostgreSQL's own reading of the script | `MC_SplitSQL`, `SplitSQL_proofs` |

### UserStore

`users`, `members`, `roleRows` are what is committed; `tx[r]` is what the transaction of
request `r` has written so far. An action is one SQL statement with the Go code around it,
or COMMIT. PostgreSQL is READ COMMITTED: a statement sees what was committed when it runs;
a row that another transaction has written, an e-mail that it has taken or given up and a
role that it refers to make the statement wait, that is, the action is not enabled. An UPDATE
locks its row and then waits for the e-mail index, so it is two steps (`LockRow`, `UpdateRow`);
two updates that exchange e-mails deadlock between them. An INSERT waits while it holds only its
own new row, and is one step.

| Action | Code |
|---|---|
| `GetRow`, `GetRoles`, `CutRoles` | the two queries of Get and GetByEmail; the second may break off and is then taken as complete |
| `BeginCreate`, `BeginPatch`, `BeginWriteBack`, `BeginPassword`, `BeginDelete` | the store calls, with a client's or a handler's arguments |
| `InsertUser`, `LockRow` and `UpdateRow`, `WritePassword`, `DeleteUser` | the main statement |
| `SelectRoles`, `RevokeRole`, `GrantRole` | the role rows of Create and Update |
| `Commit`, `Rollback`, `Abort` | the three ends of a transaction |
| `LeakDelete`, `ReleaseLeaked` | Delete without Rollback, and the cancelled context that ends it |
| `DropRole`, `DropCommit`, `DropRollback` | `RoleStoreImpl.Delete` |

Abstractions. `created_by` and `updated_by` refer to users too; a statement they refuse is an
`Abort` (and `LeakDelete` may always happen), and that it may wait for the user it names is left out. The other columns of a user are like the e-mail
without its index and are left out. The sequence is drawn when a Create begins instead of by
the INSERT: ids are as unique, and as lost when the INSERT fails. A role's DELETE locks the role
(`DropRole`); its foreign-key check then waits for memberships that are being taken away, and ends
with `DropCommit` or `DropRollback`. A crash of the process aborts its transactions. A `Delete`
that leaves its transaction open (`LeakDelete`) keeps a connection but no lock: a DELETE that finds
no row locks none, and a failed statement aborts its transaction in PostgreSQL, which frees its
locks at once. The number of connections has no limit (`SetMaxOpenConns` is not called).

### Session

One address. The row is read in one step and replaced in one step if `id` and `version` are
those read; this is what `UserStore` is shown to implement (`CurrentCopyIsWhole`,
`ImplementsVersionedUsers`, `OldVersionsStayOld`). Tokens and secrets are not touched by a broken read of the roles.
Tokens of one address issued in the same second are equal byte by byte, so a token is a
second; a secret is the Diffie-Hellman key of a client and of one start of the process
(`sPriv`). `Edit` is every other update of the row, including one that stores the mask which
JSON shows instead of a secret. `End` is each way a request ends early, the lost answer after
its COMMIT included. `ParseHS256` does not know an access token from a refresh token, so where an
access token is expected (a write's bearer, a logout) either of a second will do, the refresh token
for longer (`SomeTokenValid`). Left out: renaming the address, a wrong password (it is a login that
ends), and a PATCH that writes a token or a secret of the client's own choice, an empty one included
(for what that does to a signature see `Request`). The clock does not go back.

`OneSession` has no rows, copies, checks or signatures. `Session` maps to it with the session of the
row, the answers that are under way (`Told`), what the clients hold, and `Closed`, the seconds of
which no token will be stored any more: those that have passed, unless a request that has signed
and still matches the row has a token of that second or an earlier one. Storing is the abstract LogIn,
Refresh or LogOut; reading, checking and signing are nothing; ticks and ends only close seconds.

### NonceCache

A request is its timestamp and nonce. `Deliver` is the check of the timestamp, before the lock;
`Refuse` and `Record` are what runs under `noncesLock`, up to its deferred Unlock. `newer` is
the recency order of the LRU list as a relation. One process; its cache dies with it.

### Privileges

A document maps resources to an object of actions, to a value or to nothing, and an action to
true, false or something else: two levels, because the lookup reads two. The roles come in any
order, as the query has no ORDER BY. A document that is not an object unmarshals to the empty
one. `Docs` are the documents that roles have; the proofs hold for any set of them.

### Request

`Request` EXTENDS `Privileges`: what one request adds is where it is (`pc`), its body, its
signature and its answer, and of its steps only `MergeRole` touches the privileges. It is the
order of the parts, not the parts again. Where another module says what a part does, the step is
a choice among its outcomes: a store call is `Succeed`, `Fail` or `FailAfterCommit` (a COMMIT
whose answer is lost), `Identify` and `Unauthorized` are `Session`'s token and user, `Denied` is
any refusal by a header, a token or a password.

| Action | Code |
|---|---|
| `Capture` | `HTTPLogger`: at most `MaxBodySize` bytes are read, fewer when the connection breaks; they are the body from here on |
| `Anonymous`, `Unauthorized`, `Identify`, `MergeRole`, `Identified` | `Secure`, `toLoginUser` |
| `Route`, `NoRoute` | the two muxes |
| `Admit`, `Forbid` | `BasicAuthenticate` with `BasicHMAC`, at the head of every handler of a table |
| `CallWithBody`, `CallById`, `BadInput` | create, update and find; get and delete; what they refuse before the store |
| `SendKey`, `Login`, `Refresh`, `Logout`, `WhoAmI`, `NotDecoded`, `Denied` | the handlers of `/auth` |
| `Succeed`, `Fail`, `FailAfterCommit` | the store call |
| `Encode`, `EncodeBreaks`, `Log` | the answer and the log line |

A body is three numbers: its length, where its first JSON value ends (the decoder ignores what
follows), and how much was captured. The hash is made over the captured bytes, so it is right
exactly when all were captured. A stored secret is `unusable` (NULL, or no base64, as the mask is),
`empty` (""), `blank` (line breaks, which base64 skips) or a `key`. `BasicHMAC` compares nothing when
the secret has no bytes (`auth_lib.go:135`): a table's handler refuses `empty` before it comes to that
but not `blank`, and a refresh refuses neither. `Route` chooses the secret the handler verifies with:
the context's user's, that of the user a refresh token belongs to, or a login's new key.

### RowStore

`UserStore`'s pattern for one row without a version: `Insert`, `Update` or `Delete`, then
COMMIT. The unique key is one column, the rest another; the modification columns are left out.
`Count` and `List` are the two queries of Find; `NoList` is a Find that ends without a whole
list. `Filters` builds the WHERE from the request's filters as the code does, one condition and
one argument per filter; a text column may be of the kind that is stored in lower case, which is
a user's e-mail (`Stored`). `FoundAsAsked` compares the rows with the filters as the client wrote
them. Columns of time are left out: their filters are decoded with a zone that PostgreSQL then drops.
`AtomicTable` is the promise: the call with its arguments, the ids drawn so far and the table;
statements, locks and the two queries of a Find are nothing in it. Texts are model values with a table of what matches what (LIKE) and of their lower case. No
cell is SQL NULL. The order is left open.

### Migrate

`Setup` is `main` up to the first file, then for each file `Lock`, `Select`, and `Skip`,
`Apply`, `Fail` or `Reapply`. A script's statements, its INSERT and COMMIT are one step, as they
are for every other session. A script is reduced to what makes it fail: its table exists, or one
it refers to does not. `Crash` is possible everywhere. Any runs may overlap, with `--drop` or
without: nothing in `main` looks for another one, and both targets of the Makefile pass `--drop`.
That does harm, and two history variables say where. A file is `doomed` when its up script is
recorded while another run has emptied `app_migration` and not yet come to its drop script of that
file: the table goes and the record stays, and every run without `--drop`, and the dropping one
itself, skips the file and ends with "Migration completed successfully" (`main.go:148`). A run is
`hit` when another one has emptied the records or dropped a table beside it. `RecordedIsApplied` and
`CompletedMeansMigrated` except these files and runs and nothing else: they say that this is the only
way in which the records become false. `--pattern`, `--exclude` and the `-- DB:` line only choose
the files. `Reapply` fails at the INSERT; with lib/pq a statement fails even earlier, because the
rows of the SELECT are still open, with the same outcome.

### SplitSQL

One action per branch of the loop over runes, with the code's five flags; `into` says for every
rune which statement it was written to. The reference is not a second scanner but a definition of
PostgreSQL's lexer: from where each of its tokens starts to the first place where it may end
(`TokenTo`), and from these the semicolons that separate. Its block comments nest, its tags do not
begin with a digit and may hold any rune that is not ASCII. What splitSQL reads differently is in
`Regular`, the precondition of the comparison, and excluded only where the scan is outside
everything: a comment `/*/`, whose star the code counts for both ends; a comment with another in it,
which the code ends at the first `*/`; a tag that begins with a digit, follows a letter (then `$` is
part of an identifier) or holds a rune of several bytes (`len(dollar)` counts bytes). A backslash
(E'' strings) and a carriage return, which ends a line for PostgreSQL, are excluded everywhere. No
script of `migrations/` has any of these. Only the lexer is compared: that psql keeps semicolons in
the parentheses of CREATE RULE or in a BEGIN ATOMIC body is not considered.

## 3. The runs

| Run | Bounds | Question |
|---|---|---|
| `UserStore` | 2 requests, 2 users, 2 e-mails, 1 role, 2 versions, a grant up to doubled | foreign keys, refinement of `VersionedUsers`, doubled grants |
| `UserStoreRoles` | 2 requests, 1 user, 2 roles, 3 versions, a grant up to doubled | read-modify-write over two tables and two queries |
| `UserStoreLive` | 2 requests that create, update and delete, 2 users, 2 e-mails, 1 role, 2 versions, fairness | every call ends, out of deadlocks too |
| `UserStoreFields` | 2 requests, 1 user, 1 role; violation | an update that does not name the roles keeps them |
| `Session` | 2 clients, 2 requests, 2 seconds, 4 versions, 1 account, 2 process starts | refresh, logout, refinement of `OneSession` |
| `SessionReborn` | 1 client, 2 requests, 3 seconds, 3 versions, 2 accounts | id, version and spent tokens across re-creation |
| `NonceCache` | 2 deliveries, 2 nonces, 3 seconds, 2 places | replays |
| `Request` | 2 roles, 1 table, 4 actions, 11 documents, 4 kinds of secret, bodies up to 2 with 1 captured | what is stored was granted and signed; what the status says; merge order |
| `RowStore` | 2 requests, 2 keys in both cases, 2 values, 3 rows, 7 lists of filters | keys, lost edits, resurrected rows, pages, what is found; refinement of `AtomicTable` |
| `Migrate` | 2 processes, 4 files (references, one always run, one empty), 2 contents of one, `--drop` with `--reapply` or neither, fairness | killed and overlapping runs, `--drop` or not; every run ends |
| `MigrateReapply` | 1 process, 2 contents; violation | `--reapply` applies |
| `SplitSQL` | scripts of up to 4 of 15 pieces, and a semicolon | the statements are the server's |

Why the bounds are enough. Two requests are the smallest number that can interfere; a third
that writes between the statements of a slow one is the fast one starting again, which the
bounds allow (three versions, three rows). In `UserStoreLive` two users and two e-mails are what two
updates need to exchange them; `Get` and `UpdatePassword`, which wait for no more than those do, are
left to the other runs. The safety properties about pairs of requests are
proved for any number. One role besides the e-mail already makes the account two tables; two
roles add the order of the role statements; doubling needs two copies. In `Session` two
seconds give tokens that are stored and spent; none expires, which is a guard less and so only more
behaviours. `SessionReborn` has a third second, in which they do. `NonceCache` has six keys for two
places, so nonces are pushed out while their timestamps are good. In `Migrate` the references make drop and
up scripts fail in the wrong order, and two contents are a changed file; such a file ends a run with
`--reapply` as it ends one without, only later, so one of the two flags for each kind of run is
enough there, and `MigrateReapply` has all four. In `Request` one byte more than `MaxBody` is a body that
is cut off, before or after its JSON value. Two roles are every pair that `mergeMap` meets; more are
merged one after the other, and any number is proved. The objects of `MergedDocs` have one value for
reading and one for the three changes, as the merge looks at one key at a time. In `RowStore` the
lists have each kind of column, folded and unfolded, an operator the column does not have, and two
and three conditions. In `SplitSQL` four pieces open a quote or comment, put another one's opener or
closer inside, and close both; the pieces also build every difference that `Regular` excludes but
the backslash and the carriage return.

`MaxBody` stands for 8 KB (`main.go:99`); `MaxLen` is a bound, and so are the lengths of `Scripts`.
`MaxVersion` is not only a bound: it is the largest value of the INTEGER column, and the run
reaches it. `MaxUsers`, `MaxIds`, `MaxTime`, `MaxLives` and `MaxCopies` are bounds. Requests,
clients, e-mails, roles, keys, contents and nonces are interchangeable, so the safety runs use
symmetry; the runs with liveness do not. Deadlock is checked in all runs but `Request` and `SplitSQL`,
which stop: a request with its log line, a script at its end.

What the safety runs show:

* `NoDanglingGrant`, `UniqueCodes`: constraints hold at every COMMIT although statements see
  only what is committed; the mutants drop a lock or an index check.
* `OverwritesOnlyWhatWasRead`, `CurrentCopyIsWhole`, `WriterSeesCommitted`: the version check on
  the row protects the membership rows too, because every writer locks the row first and every
  reader reads the row first. The exception is a read that broke off: see the hazard at
  `model/gen__user_store_get.go:174`.
* `RolesAreThoseOfTheCall`, `DoubledGrantIsPermanent`: what Update leaves behind.
* `RefreshKeepsTheSession`, `LogoutIsFinal`, `NoClientAhead`, `CurrentCopyIsTheSession`: what a
  request checked is still so when it stores. `SpentTokensStaySpent`: a token that was replaced is
  never stored again, by whatever was signed before and stored after.
* `ImplementsVersionedUsers`, `ImplementsOneSession`, `ImplementsAtomicTable`: to its callers each
  component is the small machine beside it. The user store's and the tables' calls keep their
  arguments in the abstract state, so a COMMIT has to do exactly what was asked; a lost lock, a stale
  comparison or a column too many is a step the abstract machine does not have.
* `ReplayNeedsEviction`: when a nonce can be forgotten.
* `GrantsAreUnion`, `NothingFromNowhere`: merging rights.
* `ChangesAreSignedWhole`, `ChangesAreGranted`: what was signed and what the roles allow is still
  what the store gets, after a body that may be cut off and a merge over several steps. The first
  has two exceptions, both a secret without bytes that a PUT or PATCH has stored: line breaks, for
  every change, and "", for a refresh. Then no signature is compared. A signed
  body beyond 8 KB is always refused; a search beyond it is carried out if its first JSON value
  fits. No text of the repository says what should happen to such a body.
* `StatusTellsOutcome`, `LoggedIsSent`: the status tells a client whether to try again. When the
  connection breaks while the answer is written, the client has a 200 and the log may say 500.
* `EditsMerge`, `DeletedStaysDeleted`, `PageFitsTotal`: what rows without a version still promise.
* `FoundAsAsked`: the WHERE built from a list of filters means that list.
* `SplitsAsTheServerReads`, `NothingLeftBehind`: statements are cut where PostgreSQL's lexer would
  cut, in scripts without the listed differences.
* `RecordedIsApplied`, `SelectStillHolds`, `CompletedMeansMigrated`: `app_migration` and the schema,
  with the exceptions of overlapping `--drop` runs named in section 2.

### Fairness

`UserStoreLive`: strong fairness of each request's next statement and of the end of a role's DELETE
that waits for nobody. The server goes on with a request it has begun; a blocked statement queues
for its lock, and PostgreSQL hands a row lock to its waiters in turn, so one that can run again and
again does run. `ReleaseLeaked` is fair because net/http cancels the context of a request after its
answer and database/sql then rolls back. Weak fairness of `BreakDeadlock`: PostgreSQL's detector
looks at the transactions that wait for each other (`Deadlocked`) and fails a statement of one. No
other `Abort` is assumed.
`Migrate` (`FairSpec`): strong fairness of a run's next step (the queue of the table lock), weak fairness of
`Release` (the deferred cancel). No run is assumed to crash or to be started.

### Findings

1. `UserStoreFields`: `Update` replaces the roles whatever fields are named
   (`model/gen__user_store_update.go:61` is an empty case), while `model/01-user_test.go:198-218`
   updates with the fields `UserField_Email` and `UserField_UpdatedAt`, from an object whose name is
   empty, and asserts that the name stays: a field that is not named is left alone. (The test does not
   look at the roles, which are lost there.)
2. `MigrateReapply`: `--reapply` ("Reapply changed migrations", `cmd/migrate/main.go:25`) always
   fails at the INSERT, because the changed file's row is still there.

## 4. What is proved

All for every value of the constants, from the assumptions named in the modules: bounds are
positive, `Nil` and the other marks are none of the values they stand beside.

* `UserStore_proofs`. `IInv` joins the types, the shape of a request at each place, one writer per
  row, the pending row against the committed one, how far the role statements have come, ids drawn
  once, copies that are outdated or whole, roles that are going, and the unique index over committed
  and pending rows. None of the safety properties is inductive alone: `OverwritesOnlyWhatWasRead`
  needs that copies never run ahead of a version, this needs that an id is never reused, and both
  need the row lock. The proof has a lemma per conjunct and in it a step per action. `Refinement`
  maps COMMIT to the abstract Create, Replace, SetPassword or Remove, the beginning of a call to
  Invoke, every other end of one to Fail and all else to stuttering. It needs one more invariant,
  `PendingArgs`: what a transaction has written is what its call says, applied to the row that is
  committed. `OldVersions`: a version that was replaced never comes back (`OldVersionsStayOld`, by
  `Past`, which also holds of users that are gone for good). `CallsGoForward`: see below.
* `Session_proofs`. Type correctness and all six safety properties, from the fact that a copy with
  the row's id and version is the row. For `SpentTokensStaySpent` and `SessionRefinement` the lemmas
  are that seconds close and stay closed (`ClosedStays`), that the stored token has closed all before
  it (`TokensClose`) and that a request that may store has a token whose second is open
  (`StoredIsOpen`).
* `NonceCache_proofs`. `ReplayNeedsEviction`: a served key is in the cache, or since its last use
  at least `Capacity` keys have been used.
* `Privileges_proofs`. Both properties, by the effect of one merge on one action.
* `Request_proofs`. Every step of a request is a `Merge` or leaves the privileges alone
  (`RequestMerges`), so what is proved of the merge holds for a request. `RInv` says what has been
  checked at each place; its point is that right, secret and signature are checked at `deciding` and
  used at `called`, and that `stored` is true exactly where the answer will say so. From both follow
  the types and all six properties, for any roles, tables, documents and lengths; `SignedWhole` with
  the two exceptions of a secret without bytes, which `SessionsCleared` and `Cleared` keep apart.
* `RowStore_proofs`. Type correctness and all six properties, `RowsRefinement` with a lemma for each
  end of a call (`CommitActsOnce`, `StartInvokes`); `FoundAsAsked` from the fact that the
  keys of committed and pending rows are folded, and that folding twice is folding once.
* `SplitSQL_proofs`. Type correctness and both properties, for scripts of any length: the flags agree
  with the token the position is in, and every token that has ended is one of PostgreSQL's. That a
  comment without another in it ends at its first `*/` although comments nest is `BlockEnds`.
* `Migrate_proofs`. Type correctness and the three safety properties, for processes that overlap in
  any way. The invariant says that a script is looked at under the lock, that the files named 0000-00
  are never recorded, that a record which a coming drop script will belie is of a `doomed` file
  (`AheadIsDoomed`: every other file a `--drop` run has still to drop is unrecorded), and that what a
  run has passed is there with the content of its directory unless it was `hit` (`PassedIsThere`); the
  last one needs `RecordedIsApplied` where a file is skipped because it is recorded.

Only model-checked: liveness (`EveryCallEnds`, `EveryRunEnds`), which is out of the prover's reach
under fairness, as is ENABLED and with it the absence of deadlock. The half of it that is a safety
property is proved, for any bounds: `CallsGoForward` (a store call has at most four steps and one
for every membership row it writes, whatever other calls do) and `RunsGoForward` (a migrate run has
at most 8 N + 2 steps on N files). What TLC adds on the small instances is that a step is always
possible in the end. Every safety property of a run is proved. `OldVersionsStayOld`,
`CallsMoveForward` and `RunsMoveForward` are stated in the proof modules and belong to no run.

## 5. Not modelled

* Cryptography, password hashing and key encoding (`util/gen___auth.go`), taken as ideal.
* The text of bodies, answers and log lines, with `maskSensitiveJSON`: a body is where its value
  ends. `util/gen___log.go` is output.
* Filters on columns of time (`filterPostgresTime`): the zone of the value is dropped by PostgreSQL,
  so a model that takes it for an instant would be wrong.
* ORDER BY, which decides only the order of a page. `filterPostgresTextUpper` and
  `filterPostgresNumeric` belong to no column, and the three `FindOne` and `GetUserFromRequest` are
  called by no handler. SQL NULL in a searched column.
* Reads of a single row of a role or a parameter: one query, nothing to interleave.
* The two listeners of `main` share its state, so their requests are requests like any other; a
  second process has nonces of its own (see the hazard at `handler/auth_lib.go:45`).
* Static files, health checks, the Swagger page; the retry loop that opens the database; build files.

`UserStore` holds that UpdatePassword leaves the version alone (`SetPassword` of `VersionedUsers`);
no handler calls it, so no run overlaps it with a login. `modified_date` is the handler's clock and
nothing relies on its order. `PROJECT.json` gives each component's status.

## 6. Plan

Written in this order, the most important behaviour first: `UserStore` with `VersionedUsers`, its
proofs, `Session`, `NonceCache`, `Migrate`, `Privileges`, `RowStore`, their proofs; `SplitSQL`,
`Filters`, `Request` and theirs, with the liveness of `Migrate` joined to its safety run and the run
of `Privileges` to that of `Request`; last `OneSession` and `AtomicTable`, calls with arguments in
`VersionedUsers`, and the proofs that they are implemented. What could follow:

1. `Session`: renaming the address while tokens of the old one are in use.
2. `NonceCache`: two server processes with a cache each.
3. `OneSession` over `VersionedUsers`: the row of `Session` with the abstract account in its place,
   instead of the argument in section 2.
4. Abstract specifications of the nonce cache (a list of the last `Capacity` keys) and of one request.
