# A TLA+ model of radium-backend

radium-backend is the FastAPI service behind an admin console: accounts and
sessions, a product catalogue, an inbox of enquiries, uploads. It keeps its state
in PostgreSQL and on disk. Every request has a SQLAlchemy session and a
transaction of its own; within a process the event loop interleaves requests at
every `await`, and several processes (`--workers 4`) share the database. What is
hard about it is therefore what two requests do to the same rows, and what a
request leaves behind that stops half-way. That is what these modules are about.

Paths below are relative to the repository; `auth.py` alone means
`app/services/auth.py`.

## Inventory

| Component | State | Operations | What makes it correct |
|---|---|---|---|
| Sessions (`auth.py`, `repositories/refresh_token.py`) | `refresh_tokens` | login, refresh, logout, logout-all | one accepted token per login; replay ends the sessions; the rotation trail is exact |
| Password lifecycle (`auth.py`, `repositories/password_reset.py`) | `users.hashed_password`, `password_reset_tokens` | change, forgot, reset | a new password ends older sessions; a link works once |
| Account administration (`services/user.py`) | `users` | create, update, soft-delete, list | unique live emails; no lost update; an administrator remains; no sessions on closed accounts |
| Access control (`api/deps.py`) | none | current user, roles | inactive and deleted accounts are out |
| Catalogue (`services/category.py`, `product.py`, `variant.py`, `accessory.py`) | four tables | create, update, delete | references, unique slugs/codes/skus, `has_models` |
| Activity log (`services/activity_log.py`) | `activity_log` | record, list the newest 40 | every change is recorded with it |
| Uploads (`storage/local.py`) | files | save, delete | answered files stay whole; a failure leaves no part of a file |
| Enquiries | `enquiries` | update, delete | independent rows |
| Lists and paging (`repositories/base.py`, `schemas/common.py`) | none | count + page | a walk shows the rows that stay in place, once |
| Migrations (`alembic/versions`) | the schema, its rows | upgrade, downgrade | every row moves, a failure leaves nothing |
| Import (`scripts/import_admin_seed_data.py`) | six tables | run | all or nothing, references hold, nothing is loaded twice |
| Seed (`db/seed.py`) | `users` | create the first administrator | idempotent, also at the same moment |
| Rate limiting (`core/rate_limit.py`, `utils/network.py`) | windows in the memory of a worker | count a request, in the router's dependency or in the decorator | every request is counted once; behind a proxy as `README.md:202` asks for, against its client |
| Settings (`core/config.py`) | the environment | read at import | no production with shipped secrets |
| Application shell (`main.py`, `core/exceptions.py`, `middleware`) | the worker process | boot, dispatch, answer | serves only with a database; order of the dependencies |

Components meet in the database, and within a worker in its memory and on its disk
(`Service`). In the database they meet as committed rows, as row locks and as
unique-index entries in flight. A service flushes in the order of its statements
and commits once (`db/session.py:51-64`; `refresh` may roll back and start
another transaction, `forgot_password` sends its mail after the commit).

## Modules

| Module | Models |
|---|---|
| `RadiumDb` | the tables of authentication, transactions, row locks, the statements requests share, commit, rollback |
| `AuthSessions` | login, refresh, logout, logout-all |
| `PasswordLifecycle` | change-, forgot-, reset-password |
| `UserAdmin` | the administrator's create, update, delete; the seed script |
| `Auth` | all of them interleaved; the properties |
| `SessionLineage` | abstract specification of the refresh-token service |
| `AuthInvariant`, `AuthProofs` | the inductive invariant of sessions and the proofs |
| `AccountProofs` | proofs about accounts and row locks, for any number of requests |
| `LifecycleProofs` | proofs about passwords, links and administrators, one request at a time |
| `CatalogueRows` | what a row of the four tables and of the activity log is |
| `Catalogue` | the endpoints on categories, products, variants, accessories, interleaved, with their locks and the log |
| `CatalogueStore` | abstract specification of the catalogue: each answered request is one consistent step with its entry |
| `CatalogueStoreProofs` | what the abstract specification implies |
| `CatalogueProofs` | the lock discipline of `Catalogue`, what follows from it, the refinement |
| `Lists` | a client's walk through the pages of a list (`list_paginated`, `ListParams`, `PageMeta.build`) |
| `ListsProofs` | the inductive invariant of a walk and the proofs |
| `Settings` | `APP_ENV`, the production check and the database driver as functions of the environment |
| `RateLimit` | the windows, the dependency and the decorator, `client_ip` on a list of elements |
| `Uploads` | `LocalStorageBackend.save` behind `POST /media` |
| `Service` | a worker process: boots by `Settings`, limits by `RateLimit`, runs `Uploads`, dies and starts again; the proxy in front of it |
| `ServiceProofs` | the inductive invariant of `Service` and the proofs |
| `Deployment` | the merge of the variant tables and its downgrade, the import script, and the service as they see it |
| `DeploymentProofs` | the inductive invariant of `Deployment` and the proofs |
| `MCAuth`, `MCCatalogue`, `MCLists`, `MCService`, `MCDeployment` | finite instances for TLC |

`RadiumDb` declares the state; `AuthSessions`, `PasswordLifecycle` and `UserAdmin`
each extend it with the actions of their endpoints; `Auth` extends the three and
is where they interact. `Catalogue` and `Service` share no state with them.
`Service` extends `Settings` and `RateLimit` and instantiates `Uploads`, whose
steps it interleaves with the arrival of requests and with crashes. `Lists` keeps
of its writers only what a commit does to a row: who may write is told in the
other modules.
`Deployment` looks at the catalogue from further away: of a variant it keeps what
the two schemas treat differently (its code, whether its name is too long for the
older table, whether it has a card), of the other tables whether they have rows.

### Requests

A request is a slot `r \in Req`. `pc[r]` is its next step, `job[r]` what it holds
in Python (arguments and *copies* of rows it has loaded) and `txn[r]` what its
transaction holds in the database and nobody else can see. One step is the code
between two awaits that reach the database. `Commit` moves `txn[r]` into the
tables in one step. `Abort` may end a request anywhere: an exception, a client
that disconnects, a dead process; PostgreSQL rolls back what was not committed.
A validation error or a 4xx that is answered before anything is written changes
nothing and has no action, except where a request ends that has begun.

### PostgreSQL and SQLAlchemy, as the code uses them

Neither is part of the repository; these facts are taken as they are and the
definitions that embody them are marked external in `PROJECT.json`.

- READ COMMITTED: each statement has a snapshot of its own. An `UPDATE` that
  meets a locked row waits, then tests the row again as it is then; rows that
  were inserted and not committed when it started are not visited.
- A row stays locked until the transaction ends. In `Auth` the foreign keys to
  `users` never wait: soft-delete and the other updates touch no key column.
  In `Catalogue` they do, so it has the three lock strengths (`Held` says which
  of them conflict). An update of `slug` counts as FOR UPDATE since the
  column has a unique index.
- An insert into a unique index waits for a transaction whose outcome decides.
- The rows of one `UPDATE` are locked in their order on disk; tokens and links
  are numbered in that order.
- A migration is one transaction, DDL included. A table that refers to `products`
  is created under SHARE ROW EXCLUSIVE on `products`, which keeps its writers out,
  and dropped under ACCESS EXCLUSIVE on both, which waits for every transaction
  that has read either. Nothing keeps writers of `variants` out before the drop.
- The ORM writes only columns that differ from the loaded copy, addresses rows by
  primary key, raises `StaleDataError` when an UPDATE finds no row and only warns
  when a DELETE finds none. Within one flush, mappers that no `relationship()`
  connects are written in the order of their modules' and classes' names: a reset
  updates `password_reset_tokens` before `users` (`models/password_reset_token.py`
  and `models/user.py` have none to each other), so it waits for the user's row
  while it holds the link's.

### Abstractions

A password stands for what a hash was computed from; "staff" is editor and
viewer; hashes, JWT encoding, `last_login_at`, `full_name`, user agents and
addresses are left out. Access tokens are not stored, so `HasAccess` says that the
user once got one: a superset of those that have not expired. `root`, `parent`
and `pw` of a token and `uses` of a link are history variables. In `Catalogue` a
row has one unique column (slug, code or sku), one reference, one flag: the four
services have the same shape. A file is its size.

In `Lists` rows are named by `created_at`, the start of the transaction that
inserts them, so a row may appear behind newer ones; a row has one column that
is not unique, and one bit that says whether it matches the filters and the
search of the walk. `writes` is a history of what was committed. In `Settings` a
variable has the few values that the code tells apart; in `RateLimit` all the
decorated endpoints are one, as are the others: slowapi keeps a window per address
and endpoint. A window ends at any time (`WindowEnds`), `asked` and `through` are
histories that end with it.

`X-Forwarded-For` is a list of addresses and of elements that are none. A client
sends any list of `Header`; `proxy` says what arrives: the same list without a
proxy, the client's address alone behind one that overwrites the header, and the
list with the client's address at its end behind one that appends.
`README.md:202-204` and `.env.example:39-41` ask for a proxy that overwrites or
strips the header wherever it is trusted, which the comment at
`core/config.py:67` does not say. `LetThroughExactly` is about the deployments
that follow the README (`AsDocumented`); the appending proxy is in the model and
in the run, and the property says nothing of it.

An upload is opened, copied chunk by chunk, and closed. Until the last chunk is
written and the copy closed (`Copied`) a failure or a cancellation reaches the
`except` clause and unlinks; in the `finally` clause after it (`close`) it no
longer does (`FailClose`). `sent` is what the client sends, `size` what has been
copied of it; `unanswered` is a history of the files that `FailClose` leaves.

## Runs

| Run | Instance | Checks |
|---|---|---|
| `sessions` | 3 requests, 3 tokens, 1 user | `TypeOK`, `OneLivePerLineage`, `RotationChain`, `LineageSpec`: two refreshes with one token and a third request between them; the third token shows a rotation after a rotation |
| `waiting` | 2 requests, 2 tokens, 2 links, `FairSpec` | `NoWaitCycle`, `RequestCompletes` |
| `accounts` | 2 requests, 3 account keys, 2 emails, 2 passwords, an empty table | `LiveEmailUnique`, `ColumnIsolation`: seeds, creations, updates, deletions, logins and resets of accounts: two creations of one email, one while the email is being released; a reset against update and delete |
| `lifecycle` | 1 request, 2 users, 2 passwords, 2 tokens, 2 links | `SessionsMatchPassword`, `ResetSingleUse`, `OneResetLink`, `InactiveHasNoSession`, `AdminRemains`: sequences of whole requests |
| `surviving_rotation` | 2 requests, 3 tokens | violation of `EverySessionRevoked` |
| `link_used_twice` | 2 requests, 1 link | violation of `ResetSingleUse` |
| `catalogue` | 2 requests, a category, 2 products, 2 variants, an accessory, 2 names; at most 4 rows | `TypeOK`, `CategoryKept`, `FamilyKept`, `NamesUnique`, `CircleNeedsDeleteOrRename`, `StoreSpec` |
| `flag_drift` | 1 request, 2 products, a variant | violation of `FlagFollows` |
| `lists` | 4 rows, 2 values, pages of one or two, at most 2 commits during the walk, any table to begin with | `TypeOK`, `MissedOnlyByWrites`, `RepeatedOnlyByWrites`, `AsManyAsCounted` |
| `service` | 5 deployments (4 environments; no proxy, one that overwrites, one that appends), 2 clients, limits of 1, 2 requests at once, 2 uploads of up to 4 units in chunks of 2 with a limit of 3 | `TypeOK`, `LetThroughExactly`, `HostedIsConfigured`, `AnsweredIsStored`, `NoPartialContent`, `WithinLimit` |
| `shipped_defaults` | every environment, no requests | violation of `ShippedDefaultsRefused` |
| `deployment` | 2 imports, 2 variants (one in the files, one that clients edit), a short and a long code | `TypeOK`, `ReferencesHold`, `HistoryLoadedOnce`, `RowsMoved`: migrations up and down, imports and clients at once |

Bounds. Keys, tokens, links and uuids are finite sets; `Room` and `UserRoom` start
a request that inserts a row only while one is left, so that the bound never cuts
a request short. `Aging` lists the tokens that may expire, `MaxUses` stops
counting at two, as `activity` of `Deployment` does. Two request slots are enough
to violate each concurrent property when the guard it rests on is removed (each has such a mutant in
`PROJECT.json`); a slot is reused, so the number of requests in a behaviour is not
bounded. `sessions` has a third slot because a claim, its competitor and a sweep
meet there. `Creatable`, `Updatable` and `Deletable` say which rows of the
catalogue a run works on, `MaxRows` how many there are at once. `catalogue` has one
category, so a product does not change it there: a variant's change of family,
which goes through the same statements, stands for both. `HISTORY_LIMIT` is 40 in
the code and 1 in `catalogue`: an action adds one entry to the front and reads
none, which is also why the run's VIEW leaves `log` out; `StoreSpec` still looks at
it in every step. In `lists` a walk has up to four pages, so that a page may be
reached by rows of the one before the last, and two commits are enough for a row
that leaves and one that enters. `MaxAsked` lets an address be refused once beyond
its limit, with windows of 1 at which the boundary is met at once; the theorem of
`LetThroughExactly` is for all limits. In `service` a client sends no header or a
list that starts with an address, its own or the other client's; the theorem is
for all lists. The VIEW `Seen` leaves out which client has asked where `AsDocumented` is
false: no guard looks at it, and `LetThroughExactly` says nothing there. In
`deployment`, `Editable` and `Changeable` say what clients change; the variant they
leave alone gets its rows from the import, the older tables and the migration.
Symmetry sets (slots, names, keys of a kind, uuids, clients) are used in safety
runs only.

Deadlock is not an error where the instance runs out: of account keys (`accounts`),
of tokens for accounts that can still sign in (`lifecycle`), of pages (`lists`), or
where an environment does not import, so that no worker ever starts (`service`,
`shipped_defaults`).

Fairness. `FairSpec` asks strong fairness of each request's own steps and nothing
of clients, failures or the clock: the event loop runs what is ready, and
PostgreSQL queues the waiters of a lock, so a waiter is not passed over for ever
although the lock may be taken and released again and again meanwhile.

One request at a time. The properties of `lifecycle` are checked with a single
slot on purpose. With two requests some do not hold, and nothing in the repository
says that they should: a login that verified the old password before a change
commits opens a session after it (`auth.py:41` to `58`); two administrators can
demote each other; two forgot-requests leave two links. They are in the list of
hazards.

## What the runs found

1. *Sessions survive "revoke every session"* (`surviving_rotation`). A refresh has
   claimed its token and inserted the replacement, uncommitted. logout-all starts
   its UPDATE: the replacement is not in its snapshot, and it waits for the claimed
   row. The refresh commits; the row no longer matches; the replacement lives.
   The same holds for the sweep of change, reset, deactivation and of the replay.
2. *A reset link can be used twice* (`link_used_twice`): `mark_used` is
   unconditional, unlike `claim`, so two requests that read the link before either
   commits both set a password.
3. *`has_models` drifts* (`flag_drift`): only `create_variant` sets it, a variant
   that moves to another family does not.
4. *Production boots with the shipped database password* (`shipped_defaults`):
   the check compares `POSTGRES_PASSWORD` with `"radium"`, the default is
   `"Admin@123"` (`core/config.py:49`, `144`).

Observed, and claimed nowhere to be otherwise: an `APP_ENV` that is not set at all
means development on a hosting platform too, although an *empty* one there means
production. `HostedIsConfigured` therefore is about a value that is there.
Behind a proxy that appends to a trusted `X-Forwarded-For`, the usual default of
reverse proxies, `client_ip` takes the first element (`utils/network.py:22`), which is
what the client has sent: requests are then counted against an address of the
client's choice. Without `AsDocumented` TLC finds `LetThroughExactly` violated by
two requests with two lists. An upload whose `file.close()` fails or is cancelled
(`storage/local.py:75`) leaves a whole file that nobody was told of: the `except`
clause promises only that no *partial* file stays, and `NoPartialContent` checks
that.

## What is proved

`AuthProofs` proves of `Spec`, for all users, passwords, tokens, links and any
finite number of requests in flight:

| Theorem | States |
|---|---|
| `SpecIInv` | `IInv` is an invariant |
| `TypeCorrect` | `TypeOK` |
| `OneLiveToken` | `OneLivePerLineage` |
| `RotationTrail` | `RotationChain` |
| `ImplementsLineage` | `Lineage!Spec` |

Assumptions: `NamesAssumption` (names are distinct from each other and from
`None`, tokens and links are numbers), `FiniteAssumption`, `Table0Assumption` (the
service starts with a well-formed users table). TLC evaluates them in every run of
`MCAuth`.

The argument. "At most one live token per lineage" is not inductive: a refresh in
the middle has inserted a token that will be live when it commits. `IInv` says
what protects it. A transaction that will commit a new token of a refresh holds
the row it replaces, and that row is still live (`WellFormed`); no two
transactions hold one row or insert one token (`Exclusive`); a token's root and
owner exist and a live token has no successor yet (`TokenRows`). A commit then
takes the old token away in the same step that brings the new one. Each action has
a lemma; those that only move a request along go through `StepIInv`, and
`CommitIInv` carries the argument. `ImplementsLineage` maps a login's commit to
`Open`, a refresh's to `Rotate`, any other that revokes to `Close`, and every
other step to a stutter.

`ServiceProofs` proves of a worker, for any number of clients, requests, files and
crashes, all limits, chunk sizes and environments:

| Theorem | States |
|---|---|
| `SpecIInv` | `IInv` is an invariant |
| `TypeCorrect` | `TypeOK` |
| `RateLimited` | `LetThroughExactly` |
| `Configured` | `HostedIsConfigured` |
| `Stored`, `CleanedUp`, `LimitKept` | `AnsweredIsStored`, `NoPartialContent`, `WithinLimit` |

Assumptions: `LimitsAssumption`, `DeployedAssumption`, `HeaderAssumption`,
`NoneAssumption`, `UploadsAssumption` (numbers are numbers, the proxy is not a
client, deployments are environments with a proxy or none, headers are lists).
The argument. `LetThroughExactly` counts clients, the windows count addresses:
`WindowsInv` adds that, where the deployment is `AsDocumented`, both counts agree
(`Exact`), which rests on `KeyTyped` (the address that is limited is then the
client's own, whatever list it sends) and on `CountedOnce` (of the dependency and
the decorator exactly one counts). `RateLimited` has that hypothesis inside its
property: of any other deployment nothing is proved but that the windows are typed. For
uploads `OwnUuid` says that requests, files whose upload has ended and threads
that still open a file have uuids of their own, so that no step touches another's
file, `Counted` that what a request has counted is what is on the disk, and all
the client sent once it closes, and `Whole` that a file nobody was told of is
complete. `CleanedUp` thus says that nothing but a crash leaves a part of a file
behind; that every file with content is answered for is false, and not claimed.
`Configured` is a property of
`Settings.Imports`, carried by the worker from its boot.

`CatalogueStoreProofs` proves `StoreConsistent`: in every behaviour of
`CatalogueStore`, for any catalogue, each reference leads to a row that is there
and names are unique (`KeysAssumption`: the keys of the tables are distinct). That
`Catalogue` implements `CatalogueStore` is proved in `CatalogueProofs`.

`CatalogueProofs` proves of `Catalogue`, for any number of categories, products,
variants, accessories, names and requests, whatever clients may change:

| Theorem | States |
|---|---|
| `SpecIInv` | `IInv` is an invariant |
| `TypeCorrect` | `TypeOK` |
| `NoProductWithoutCategory`, `NoVariantWithoutFamily` | `CategoryKept`, `FamilyKept` |
| `NoNameTwice` | `NamesUnique` |
| `ImplementsStore` | `StoreSpec`, the refinement of `CatalogueStore` |
| `DeadlocksExplained` | `CircleNeedsDeleteOrRename` |

Assumptions: `KeysAssumption`, `KeepAssumption` (the marks `None` and `Keep` are
no values). The argument. What a service checked before its first write proves
nothing later; what its locks protect does. `IInv` is the discipline of the locks:
what a request holds at each step (`Creating`, `Updating`, `Deleting`), that what
it holds is still as it read it (`Grounded`: the parent is there, the name is
free, a deletion holds or will visit every row that refers to its row), and that
no two requests hold what conflicts (`Apart`). Each waiting step ends with nobody
holding what it wants (`NotWaiting`), so that `Apart` is kept; a commit then finds
what the abstract step demands, and `Consistent` follows from
`CatalogueStoreProofs`. For `DeadlocksExplained` a circle without deletions and
renames is emptied step by step: who waits for a parent in it waits for another
who waits for a parent, one table further up; without those nobody holds a row FOR
UPDATE, so nobody waits to set a flag; then nobody holds a name that another
wants, and who waits to begin a write holds nothing.

The proof corrected the property. It used to say that a circle needs a deletion
with a cascade, which TLC confirmed on one category and two requests; it is false
beyond that. Two renames that swap the names of two rows wait for each other, and
so do two deletions of categories with two products that are renamed and moved
between them. `CircleNeedsDeleteOrRename` says what is true.

`AccountProofs` proves of `Auth`'s `Spec`, for any number of requests at once:

| Theorem | States |
|---|---|
| `SpecAInv` | `AInv` is an invariant |
| `NoEmailTwice` | `LiveEmailUnique` |
| `NoStaleWrite` | `ColumnIsolation` |
| `NoDeadlock` | `NoWaitCycle` |

under the assumptions of `AuthProofs`. `IInv` is about tokens; `AInv` adds what
each endpoint has locked, written and put in its patch at each of its steps
(`Shapes`). `ColumnIsolation` is then read off: a commit writes its patch, and a
patch of change or reset has a password and no rights, an administrator's has
rights and no password. For the emails, an account in use is compared with those
that are inserted and not committed (`InsertsFree`, `InsertsApart`): the INSERT
has waited for all of them. In a circle of waiting requests, which `NoDeadlock`
excludes, each is also waited for. A request that is waited for and waits itself
sweeps, or is a reset that has marked its link, waits for the user and has locked
nothing but the link (`ResetFlush` after `ResetMark`). Sweepers of tokens wait
only for sweepers of tokens, and have locked only rows before the one they wait
for (`OrderlySweep`), so the row waited for would rise without end: there are
none in the circle. Then nobody in it has written a user, so no reset in it waits
for one, and what is left is sweepers of links, whose rows would rise as well.

`LifecycleProofs` proves the properties of the run `lifecycle` for any number of
accounts, passwords, tokens and links and any sequence of operations:

| Theorem | States |
|---|---|
| `SpecLInv` | `LInv` is an invariant |
| `SessionsFollowPassword` | `SessionsMatchPassword` |
| `LinkUsedOnce`, `OneLinkPerAccount` | `ResetSingleUse`, `OneResetLink` |
| `NoSessionWhenInactive` | `InactiveHasNoSession` |
| `AnAdministratorStays` | `AdminRemains` |

They have the hypothesis `OneAtATime`, one slot for requests, which is what the
run has: without it they are false (see "One request at a time"; `link_used_twice`
is the run that breaks `ResetSingleUse`). Requests still fail, are aborted and
time out anywhere. `AnAdministratorStays` also supposes an administrator in
`Table0`, whom `db/seed.py` creates. The argument is `Current`: what a request has
read is true until it commits, and its sweep covers all the rows it is meant to.

`DeploymentProofs` proves of `Deployment`, for any variants, codes, seed files and
number of imports:

| Theorem | States |
|---|---|
| `SpecIInv` | `IInv` is an invariant |
| `TypeCorrect` | `TypeOK` |
| `NothingDangles` | `ReferencesHold` |
| `OneHistory` | `HistoryLoadedOnce` |
| `MigrationMovesRows` | `RowsMoved` |

Assumption: `FilesAssumption` (the files hold well-formed variants with distinct
codes). The argument. `InOrder` says that an import has behind it what it
inserted, in the order of `run()`; `RefersToRows` and `KeysApart` that rows its
own refer to stay until it commits and that primary keys admit one import.
`HistoryLoadedOnce` rests on `HistoryInv`: while `activity_log` is empty no client
has filled anything, so an import past the categories has inserted them, and only
one has. For the migration `CopiedUp` and `CopiedDown` say that what `alembic` has
copied is what the tables still hold, but for the rows that were written after
they were copied (`alembic.late`); the commit then installs the copy, and
`Upgraded` and `Downgraded` say which columns come back.

`ListsProofs` proves of `Lists`, for tables, pages, walks and numbers of writes of
any size:

| Theorem | States |
|---|---|
| `SpecIInv` | `IInv` is an invariant |
| `TypeCorrect` | `TypeOK` |
| `FewMissed`, `FewRepeated` | `MissedOnlyByWrites`, `RepeatedOnlyByWrites` |
| `AsManyShown` | `AsManyAsCounted` |

Assumptions: `SizesAssumption`, `AskedAssumption`. The argument. A row's place is
its `Rank`, the number of rows ahead of it, against the `Offset` of the next page.
A row that kept its place is missed when it comes from behind the offset to before
it (`Passed`), and repeated when it goes the other way (`Returned`). A commit
changes each rank by at most one, and ranks differ, so that one row at most
crosses the offset, in the direction of the write: `Shifts` compares `Passed` and
`Returned` with the writes. A page shows exactly the rows of its ranks.
`Unwritten` counts what the pages of an unwritten table have shown, ties and all,
against what they cover. What is counted is sets, of rows and of pairs of a row
and a number, because sums over a set would need an induction.

Every inductive invariant was checked by TLC, as an invariant of the run of its
module, before it was proved.

Only model-checked: `RequestCompletes`, since liveness under fairness is beyond
the prover. The runs that show a violation are TLC's too: `EverySessionRevoked`,
`FlagFollows`, `ShippedDefaultsRefused`, and `ResetSingleUse` with two requests.

## Not modelled

- Enquiries: the status of one row that no other row refers to. That the inbox is
  emptied is in `Deployment`.
- Lists without pages (`list_all`) are one statement of one snapshot. What a search
  or a filter matches is a bit of a row.
- Rate limits in a shared store (`RATE_LIMIT_STORAGE_URI`): the runs are about the
  default, the memory of one worker; several workers have windows of their own.
- Settings: the splitting of lists, the settings that are only read, TLS and
  pooler arguments (`build_connect_args`), the database connection string beyond
  its driver.
- Migrations: the first two revisions create and drop empty tables.
- Logging, request ids, headers, the envelope of errors: no state that anything
  reads. An exception handler's effect on a request is `Rollback`.
- Passwords as bytes, JWT encoding, sanitised file names: conversions whose result
  the properties do not tell apart.
- `LocalStorageBackend.delete` has no caller. A crash in the middle of an upload
  leaves the partial file, which `left` remembers: nothing in the code claims
  otherwise. A client that is gone when its answer is sent has its file answered
  for in the model.

## Plan

1. `RadiumDb`, `AuthSessions`, `PasswordLifecycle`, `UserAdmin`, `Auth` with
   `SessionLineage`: done.
2. Proof of the session invariants and of the refinement: done.
3. `Catalogue`, `Uploads`, `Deployment`: modelled and checked.
4. `CatalogueStore` and the refinement, `Lists`, the seed, `Settings`, `RateLimit` and
   `Service`, the proofs of `Service` and of `CatalogueStore`: done.
5. Proofs of `Catalogue` and its refinement, of accounts and their locks, of the password
   lifecycle, of `Deployment` and of `Lists`: done. Every safety property of a
   passing run is now a theorem.
6. Left: what remains true of the password lifecycle with any number of requests,
   as weaker properties to state, check and prove (a token belongs to an
   account that exists and opened with a password it had; a link that was used
   stays used); that a downgrade after an upgrade gives the same tables back when nobody
   writes between them; a bound on the waiting of a request that no circle can
   close, as the safety half of `RequestCompletes`.
