# A TLA+ model of the profile service backend

The repository is a Go backend (chi, pgx, PostgreSQL, optionally Redis) that keeps
demographic profiles behind a GitHub login. This directory holds TLA+ modules
translated from its source, the TLC configurations that check them on small
instances, and TLAPS proofs of what matters most for every instance. Source paths
below are relative to the repository.

    tlc -config Sessions.cfg SessionsMC            # a run
    tlapm SessionsProofs.tla                       # the proofs of a module

## The system and its parts

| Component | State | Operations | Interacts with |
|---|---|---|---|
| Sessions: `service/auth.go`, `repository/user.go`, `handler/auth.go` | tables `users`, `refresh_tokens` | `POST /auth/refresh`, `POST /auth/logout`, database part of the OAuth callback | PostgreSQL under READ COMMITTED; the middleware reads `users` |
| OAuth flow: `service/auth.go`, `handler/auth.go`, `client/github.go` | `stateStore`, a `sync.Map` in the memory of each instance | `GET /auth/github`, `GET /auth/github/callback`, purge goroutine | GitHub, the CLI's callback server, Sessions |
| CSV import: `handler/import.go`, `service/import.go`, `repository/import.go` | table `profiles`, `rowCh`, `importSem`, `ImportStats` | `POST /api/profiles/import` | other writers of `profiles`, the list cache |
| List cache: `service/profile.go`, `service/cache.go`, `repository/profile.go` | Redis keys `profiles:*`, 60 s | `GET /api/profiles`, search, `InvalidateProfileCache` | Redis, PostgreSQL, every writer |
| Profile creation: `service/profile.go`, `client/*.go` | table `profiles` | `POST /api/profiles`: look-up, three enrichment calls, insert | genderize, agify, nationalize |
| Access: `middleware/auth.go`, `rbac.go`, `apiversion.go` | none; reads `users` and the JWT | the chain JWTAuth, APIVersion, APIRateLimit, RequireRole | Sessions |
| Rate limits: `middleware/ratelimit.go` | a map of token buckets per process, evicted by a goroutine | `Allow` per IP or user | every route |
| Queries: `handler/profile.go`, `service/normalize.go`, `service/parser.go`, `pkg/response` | none | filter parsing, normalisation, cache keys, page links, the search parser | list cache |
| Boot: `bootstrap.go`, `db/seed`, `db/migrations`, `cmd`, `api` | tables | migrations, seed, serving, shutdown | everything |

What is hard in it:

* **Concurrency without locks in the program.** Handlers run as goroutines and
  serverless instances; what keeps them apart is PostgreSQL's row locks and
  unique constraints, `sync.Map`, one semaphore and one wait group. Check and act
  are separate SQL statements nearly everywhere.
* **Failure between steps.** Any statement or remote call may fail, take effect
  and lose its answer, or be cut off by the client; only `SaveRefreshToken` is a
  transaction.
* **State outside the database.** OAuth states, rate limiters and the semaphore
  live in one process; the cache is invalidated after the answer, by a goroutine
  nobody waits for.
* **Time.** Tokens, states and cache entries expire; cleanup runs beside use.

What makes each component correct: a dead refresh token stays dead and a new one
ends the older sessions; there is an administrator, and no surprising second one;
claims have a role the users table had; a login state serves one callback and only the
flow that stored it; an import reports the truth about every row; a cached list
is no staler than an overlapping write explains; who writes was an admin a moment
ago, and a disabled account is out at once; a POST creates one profile per person; the
links of a list lead through all of it; every request is answered.

## Modules

| Module | Models |
|---|---|
| `Sessions`, `SessionsMC`, `SessionsProofs` | users and refresh tokens, one action per SQL statement |
| `TokenStore`, `SessionsRefinement` | what a client of the session API may rely on, and the proof that `Sessions` implements it |
| `OAuthFlow`, `OAuthFlowMC`, `OAuthFlowProofs` | state store, PKCE check, callback, purge, restarts |
| `LoginTickets` | what the OAuth flow promises, which `OAuthFlow` implements |
| `ImportCSV`, `ImportCSVMC`, `ImportCSVProofs` | reader, handler and worker goroutines of uploads |
| `ListCache`, `ListCacheMC`, `ListCacheProofs` | cached lists against writes and their invalidations |
| `RateLimit` | a limiter store: map of token buckets, evicting goroutine |
| `ApiAccess`, `ApiAccessMC`, `ApiAccessProofs` | the middleware chain of `/api`, on top of `RateLimit`; the proofs of both |
| `Profiles`, `ProfilesMC`, `ProfilesProofs` | POST and DELETE of profiles, and the seeding of processes that start |
| `Queries`, `QueriesMC`, `QueriesProofs` | how a list or search is read, cached, paged and linked |

Modules with MC instantiate the others for TLC. `RateLimit` has no instance of its own:
`ApiAccess` EXTENDS it, as the chain contains the limiter, and its run checks both.

Operators called "Mutant of X" state a plausible mistake in X; nothing uses them.
Substituting one for X in its run breaks the property that X is there for, which
is how we know the property says something about the code.

### Sessions

A request is `idle`, at one of the statements of its handler (`lookup`,
`invalidate`, `user`, `count`, `upsert`, `snapshot`, `lock`, `commit`) or answered:
`ok` (200), `denied` (401), `failed` (500). One action is what PostgreSQL executes
atomically:

| Action | Code |
|---|---|
| `StartRefresh`, `StartLogout`, `StartLogin` | the handlers; a token presented is one some request answered, or none that exists |
| `Lookup` | `GetRefreshTokenByHash` and the check in `RefreshTokens` and `Logout` |
| `Invalidate` | `InvalidateRefreshToken`, whose WHERE does not look at `used` |
| `LoadUser` | `GetUserByID`, `IsActive`, the role of the claims |
| `Count`, `Upsert` | the two statements of `UpsertUser` |
| `Snapshot`, `LockRows`, `Commit` | `SaveRefreshToken`: the UPDATE finds its rows, waits for locks and evaluates WHERE again, then INSERT and COMMIT |
| `Fail` | any statement fails, the context is cancelled or the process dies; the transaction is rolled back |
| `Expire` | five minutes pass |
| `SetActive`, `SetRole` | an operator disables or enables an account, or changes its role, at any time |

`Invalidate`, `Upsert` and `Commit` may also take effect and lose their answer.
The rows an UPDATE locks are taken at once; PostgreSQL takes them one by one and
breaks a deadlock by failing a transaction, which `Fail` allows. Tokens are random,
so they are named by the request that mints them. Requests are numbered in the order they
begin, which distinguishes nothing but makes equal instances the same. `prior` and `seen`
are history: the requests answered 200 before a request began, and the roles the row of
its user had since it took the user up.

### OAuthFlow

A flow is one `GET /auth/github` and the entry it stores. `RedirectToGitHub` stores
it under a generated state or one the client supplies, which may be supplied again;
`Callback` pops it (`LoadAndDelete` is atomic) and validates; `Exchange` is
everything up to the tokens, which succeeds or fails; `Respond` chooses among JSON,
redirect and cookies as the handler does, or fails at an address that does not parse.
`Tick`, `Visit` and `Purge` are the purge goroutine: `now` is read, `Range` loads a value
and the closure compares it, and then it deletes the key. `Restart` empties a store and ends the requests of its process.

### ImportCSV

Per upload there is a reader (`ReadMalformed`, `ReadRow`, `ReadEOF`), the handler's
loop (`ReceiveInvalid`, `ReceiveRow`, `EndOfRows`, `Spawn`, `Respond`) and a worker for
every batch: `CopyAll`, `CopyConflict` or `CopyFails`, then `InsertPiece` for every
piece of a batch that conflicted, then `Account` with the deferred calls. The
semaphore and the table are shared by all uploads, and other requests create and
delete profiles meanwhile. A profile is a person and a spelling, because the seed
file capitalises names, the import lower-cases them, and the UNIQUE constraint tells
them apart. A row is a person, `Malformed` or `Invalid`: which column of a row is
invalid changes only the name of the reason. The additions of one worker to the
counters are one step; nobody reads them before the wait group lets the handler go on.

### ListCache

The contents of the table are named by the number of commits so far, so a query's
result is the version it saw; COUNT and the page of rows see one each. `Hit`, `Miss`,
`CountRows`, `FetchPage`, `QueryFails` and `Put` are `ListProfiles`; `Commit` and `Answer`
are a writer; `Scan`, `Del`, `Finish` and `Abandon` are its invalidation, which walks
the keys a page at a time with Redis' guarantee: what is there throughout is
returned. `Expire` takes any key at any time.

### TokenStore

The abstract specification of Sessions has no tables, statements or transactions:
`Begin`, `Accept` (let in with a token that lives), `End` (tokens die), `Answer` and
`Issue` (a new token; the one it was exchanged for and those the user was handed before
the request began are dead; other users' are untouched; the answer may be lost). The
mapping is at the end of `Sessions`: `owner` is the user of a row, `dead` the rows used or
expired, `known` is `prior`, `accepted` the token of a request past `Lookup`. `Invalidate`
is an `End`; `Commit` and a lost answer of it an `Issue`; most statements are stutters.

### LoginTickets

The abstract specification of OAuthFlow has tickets in place of instances, stores, state
strings and a purge: `Open`, `Lapse`, `Use`, which uses a ticket up for good and lets the
callback in if it comes in time and shows the verifier the ticket was opened for,
`Answer` with tokens to who was let in, and `Lose`. The mapping is at the end of
`OAuthFlow`: a ticket is open while its flow is in some store, and used by the callback
that has popped it; a new flow with the same state string replaces one other ticket at
most. A callback that finds nothing, a tick of the purge and a look-up are stutters.

### RateLimit and ApiAccess

`Load` and `LoadOrStore` are `getLimiter`, `Allow` the bucket, `Look` and `Evict` the
goroutine, which compares and deletes in two steps; `Tick` is the time in which a bucket
regains one token. A bucket is named by the call that made it. `ideal` is history: a
bucket of twice the size from which every admission is taken.

A request of ApiAccess goes `Arrive` (JWTAuth verifies the token), `LookUpUser` (JWTAuth
asks for `is_active`; APIVersion), `RateLimit` (`Load`, `LoadOrStore`, `Allow` with the user
id as key); `MayWrite` is RequireRole, which asks only what the request carries and
changes nothing. `ReadUser`, `Sign`, `SetRole` and `SetActive` are what happens meanwhile: a
login or refresh reads the user's row, and IssueTokenPair takes the time of `iat` later
(`auth.go:227`), so that the row may have changed and time may have passed (`Issuing`). A
token is named together with the user it is issued to (`Holder`). The chain is that of `bootstrap.go`, JWTAuth, APIVersion, APIRateLimit, RequireRole;
`README.md:45` gives another order, APIVersion before JWTAuth, which tells only in which
error a request without either is answered.

### Profiles

A POST goes `Begin`, `LookUp` (in any spelling), three `Fetch`es of an errgroup, `Gather`,
`Insert`, `Reply`, or `Fail`s: a caller that hangs up, a statement that fails or whose
result is lost. `Delete` and `Import` are other requests. A process goes `Start`, `Count`,
`SeedOne` for every seed in any order, `Serve`, `Stop`; two of them may do so at the same
time, and only a serving process takes requests. `raced` and `sawAbsent` are
history. The seed is skipped when the table has as many rows as there are seeds: a
process that starts after enough deletes brings the deleted seeds back, which
`SeedComplete` allows and nothing in the repository rules out.

### Queries

`Ask` takes the parameters or the search text; `Show` reads them anew for every page, as
the links do: `ParseFilterParams` or a member of `Readings`, `NormalizeFilter`, `CacheKey`,
`Where`, `Sorted`, `Offset`, `PageOf`, `TotalPages`. `Lists` is the whole list in every order
it may come in, `Exports` what GET /api/profiles/export has of it, up to `ListAllRowCap`.
A text is a member of a small set; `Lower` and `Upper` trim it and put it in one case. A
key is what `CacheKey` joins with `|` before it is hashed: the sequence of its parts, where a
text with a `|` in it, being `Before` its bar and then `Spelled` out, adds parts that it is
not the field of. A search text is what the parser's tables find in it, so that
`Readings` is the set of results the random order of Go's maps leaves. `Wrap` is the
width of `int`. The pages come from the table: that a page may come from the cache under
a key of its own is ListCache's.

## Runs

| Run | Checks | Instance | States |
|---|---|---|---|
| `sessions_safety` | `TypeOK`, `Superseded`, `DeadTokenRefused`, `SomeAdmin`, `ClaimsMatchRow`, `NoLateAdmin`, `ImplementsTokenStore`, `EveryRequestAnswered` | 3 requests, 2 accounts, one of which an operator writes to once; fair | 409 k |
| `sessions_one_token` | violates `OneValidTokenPerUser` | 3 requests, 1 account | |
| `oauth_safety` | `TypeOK`, `EntryTakenOnce`, `EntryNotStale`, `CliTokensNotInUrl`, `PurgeSparesFresh` | 2 flows, 2 callbacks, 2 instances, 1 client state, 2 verifiers, symmetric | |
| `oauth_purged` | `ExpiredPurged`, `ImplementsLoginTickets` | 2 flows, 2 callbacks, 1 instance, fair | 698 k |
| `oauth_cli_redirect` | violates `GitHubRedirectAccepted` | as `oauth_safety` | |
| `import_safety` | `TypeOK`, `ResponseAddsUp`, `InsertedAreReal`, `NothingDropped`, `WorkersBounded` | 2 uploads, files of 4 rows, chunk 3, piece 2, 2 workers | |
| `import_liveness` | `UploadAnswered` | 2 uploads of 4 rows, chunk 1, channel of 2, 1 worker, fair | |
| `import_duplicates` | violates `AllDuplicatesInsertNothing` | 1 upload, everybody seeded | |
| `cache_safety` | `TypeOK`, `StaleOnlyByOverlap` | 2 lists, 2 writes, 2 keys, 2 commits, symmetric | 477 k |
| `api_access` | `TypeOK`, `WritersWereAdmins`, `DisabledShutOut`, `ThrottledByOwnRequests`, `WithinTwiceTheBurst` | 3 requests, 2 users with a token each that lives 2 ticks, burst 1, 2 ticks, symmetric | 2.0 M |
| `profiles` | `TypeOK`, `CreatedOnlyIfAbsent`, `ConflictOnlyByRace`, `ErrorNamesCulprit`, `InsertsWhatWasFetched`, `SeedComplete` | 2 POSTs, 2 processes, 2 services, 2 seeds, a person in 2 spellings, symmetric | 1.7 M |
| `queries` | `TypeOK`, `LinksLeadThroughTheList`, `PagesAreFull`, `KeysTellApart` | 5 rows, 237 parameter sets and 511 search texts, 2 rows to a page and at most 4, 4 to an export, `int` up to 31 | 18 k |

**Why these bounds.** The conflicts of Sessions are between two requests on one
token or user; the third request is the observer that was answered before, and two
accounts let two first logins race. For OAuthFlow two flows can share a state
string, two callbacks can race for it, and the second instance is the one a callback
can land on by mistake; `ImplementsLoginTickets` is checked with one, where both callbacks
race for one store, and proved for any number. The files of ImportCSV hold a duplicate within a full batch,
a short last batch, a malformed and an invalid row; chunks of three rows and pieces
of two make full batches, short batches and a short last piece occur, and the liveness
instance has more rows than the channel holds and fewer slots than batches. In
ListCache one list fills what the other reads, and two keys let SCAN take two pages.
In ApiAccess a bucket of one token is used up by one request, so that the second holds
the evicted bucket and the third a new one, and within two ticks a token expires and a
bucket becomes idle. In Profiles two POSTs race for one person, two processes seed at
once and one of two seeds is enough to make a half-seeded table; two services give a
first error and a cancelled fetch. Requests of ApiAccess and Profiles return to `idle`, so
that their number bounds what runs at one time and not what happens. In Queries the
five rows make full, short and empty pages, equal and distinct sort keys, a list longer
than the export's cap, and page numbers whose offset is negative or back at 0 after it has
overflowed; every request is compared with every other for whatever pages, and among the
texts are `male|ag:adult`, `male` and `adult`.

The bounds with a name are `MaxVersion` (ListCache: commits), `MaxTime` (RateLimit and
ApiAccess: ticks), `MaxWrites` (Sessions: writes of the operator, any number in the
proofs) and, in Queries, `MaxInt`, which is the code's own. Nothing else is cut off.

`CHECK_DEADLOCK` is off where a behaviour ends when its requests are answered, which is
everywhere but in Profiles and ApiAccess, and there the behaviours of ApiAccess end at
`MaxTime` once every call is used.

**Fairness.** Safety assumes none. `Sessions!FairSpec`: a handler that can take its
next step does (`WF` of `Step(r)`): net/http runs a handler to its end and PostgreSQL
wakes who waits for a lock that is free. `ImportCSV!FairSpec` has the same for reader,
handler and workers of an upload, which Go schedules. `OAuthFlow!FairSpec` is fair only
to the purge goroutine. No fairness is assumed of clients, failures, expiry or
restarts.

## What the violations show

* `sessions_one_token`: two overlapping `SaveRefreshToken` of one user each miss the
  row the other is about to insert; both tokens stay valid. `user.go:81` and
  `README.md:36` promise one. `Superseded` is what does hold: a token handed out
  before the other request began is always ended.
* `oauth_cli_redirect`: GitHub's redirect carries no `code_verifier`, and the state check
  refuses a CLI flow without one, with the entry gone (`auth.go:169-176`). The CLI flow
  of `README.md:25-31` cannot complete through that redirect.
* `import_duplicates`: people with a capitalised, seeded name are inserted again in
  lower case, against `SOLUTION.md:76`.

Other things a reader of the code may want to know, which passing properties are
phrased around:

* The purge deletes a key although its value may have been replaced since it was
  compared (`auth.go:94-95`): a client that uses its state string again can lose a fresh
  entry. `PurgeSparesFresh`: a generated state never.
* A list asked for after a DELETE was answered can still show the profile; a list put in
  the cache during the invalidation's SCAN can do so for sixty seconds.
  `StaleOnlyByOverlap` is what holds once the invalidation has finished.
* A role is as old as the token it is in, three minutes at most, and older by the time
  between reading the row and signing the token (`WritersWereAdmins`), which is the
  answer of the query and the scheduler, and has no bound in the code; a login
  of a disabled account is given tokens, which open nothing (`DisabledShutOut`).
* The limits of 10 and 60 requests a minute are bursts with a refill of as many a minute,
  and limiters live in one process each: a client may be let through more often within
  some minute. An eviction can give away one more bucket (`WithinTwiceTheBurst`).
* Two POSTs of one new name: the loser's duplicate is answered 500, not with the
  profile (`ConflictOnlyByRace`).
* Rows that are equal in the sort column have no tie-break, and all seeds share one
  `created_at`: their pages may repeat and skip rows, whence the condition of
  `LinksLeadThroughTheList` that the order be unique. A page whose offset overflows is an
  error or even some page near the first, whence the condition of `PagesAreFull`.
* A search text that mentions several countries may be read either way; "equatorial
  guinea" is one of the texts with two entries. Hence `OneCountry` in the properties of the
  pages. A text with words of both genders is read as female (`parser.go:126`), whatever
  their order; `README.md:101` has the last match win.
* Probabilities less than a hundredth apart share a cache key (`KeysTellApart`), which
  SOLUTION.md names among the limitations. So do `gender=male|ag:adult` and
  `gender=male&age_group=adult`: `normalize.go:84` joins the parts with a `|` that values may
  hold. Hence `NoBars` in `KeysTellApart`; who asks for the one within a minute after the
  other gets the other's page, and the pages of the links are as good as the keys.

## Proofs

Every safety property that a passing run checks, and the refinements of `TokenStore` and
`LoginTickets`, are proved for every value of the constants. Each component has an inductive invariant of
which its properties are a part or a consequence; hardly one of them is inductive by
itself.

### SessionsProofs

`SessionsProofs` proves, for any `Requests`, `GitHubIds` and `Managed` accounts and any number
of writes, from the assumptions that requests are numbered (`RequestsAssumption`) and that
the sentinels are not rows or roles (`SentinelAssumption`):

| Theorem | States |
|---|---|
| `Inductive` | `IInv` holds in every reachable state |
| `TypeCorrect` | `TypeOK` |
| `SessionsSuperseded` | `Superseded` |
| `DeadTokensRefused` | `DeadTokenRefused` |
| `AdminExists` | `SomeAdmin` |
| `ClaimsAgree` | `ClaimsMatchRow` |
| `AdminsAreEarly` | `NoLateAdmin` |

None of the properties is inductive. `IInv` has three parts, each proved to be
preserved given the ones before:

* `Control`: types, and what the place of a request says about its variables: which
  operation it is, that the row it works on exists, that it holds locks only in its
  transaction, that two transactions never hold one row, and that `prior` has only
  requests that are answered.
* `Tokens`: `Superseded` and `DeadTokenRefused` with what they need while requests are
  under way: the rows an UPDATE has found (`SnapCovers`), or locked (`HeldCovers`),
  include every unused row of the user that an earlier answered request saved; and the
  token an accepted request presented is used from `Invalidate` on (`Consumed`).
* `Accounts`: a login that proposes `admin` counted no rows, so it began before any login
  was answered (`Proposals`), and the first row to be inserted has such a login, which is
  behind `SomeAdmin` and `NoLateAdmin`; what a request watches is `seen` (`Watching`), and past
  `Upsert` or `LoadUser` the role it carries is among it (`Claims`). The row itself may have
  changed, so an invariant that compares claims with the row would not hold.

`SomeAdmin`, `ClaimsMatchRow` and `NoLateAdmin` are about steps: an operator may demote the
last admin, and only by their step is a state without one reached from one with.

The steps are split by what each table can undergo: `TableMoves` and `UsersMove` say
who writes to it, `RowsGrow` that rows are never lost or revived, `BegunMoves` and
`AnsweredStays` how a request moves.

### OAuthFlowProofs

For any sets of flows, callbacks, instances, client states and verifiers, from
`NoneAssumption` (the sentinel is none of them):

| Theorem | States |
|---|---|
| `TypeCorrect` | `TypeOK` |
| `OneCallbackPerFlow` | `EntryTakenOnce` |
| `LastUseOfState` | `EntryNotStale` |
| `CliTokensInBody` | `CliTokensNotInUrl` |
| `PurgeReach` | `PurgeSparesFresh` |
| `Implements` | `ImplementsLoginTickets` |
| `TokensOnlyForTheVerifier` | `Tickets!TokensForTheVerifier` |

`StoresShrink` carries the argument: at any place of a store a step leaves the entry,
removes it, or puts a flow there that has just begun. So a popped entry, which `Pop`
leaves in no store (`Gone`), never comes back; and where a state string is used again
its first flow's entry never comes back either (`Overwritten`), which is what a callback
would have to find to break `EntryNotStale`. `Checked` adds that past the check the
verifier is the challenge's, hence not absent, which excludes the redirect. `Swept`
adds that a key is doomed only for a flow that used it and has expired
(`DoomedForExpired`): whoever stores there afterwards began later.

For `Implements` the types are enough of an invariant. `RedirectMaps` and `CallbackMaps`
have the work: that a store changes at one place means that one ticket is replaced, or
used, and every other stays open, in whatever store it is; the rest loses tickets
(`LoseMaps`). `TicketsNext` is about LoginTickets alone: a used ticket is open no more, so
it is used once, and who is let in has shown its verifier. `TokensOnlyForTheVerifier`
carries this over to the handlers.

### ListCacheProofs

For any sets of requests, writes and keys and any `MaxVersion`, from
`ListCacheAssumption`: `TypeCorrect` (`TypeOK`) and `FreshAfterInvalidation`
(`StaleOnlyByOverlap`). The fact that the property needs is `Swept`, about the middle of
an invalidation: what is cached under a key that SCAN has passed and that DEL does not
still owe (`Passed`) shows the write or was put there after SCAN began. It is kept
because a Put marks what it puts, and because a key SCAN passes is either absent or
returned for DEL. `Reads` then follows a request from the finished invalidation to
its answer, by the table or by the cache.

### SessionsRefinement

`Implements` proves `ImplementsTokenStore`, from the same assumption. Beside `IInv` the
mapping needs that a request works for nobody before it is let in (`NotLetIn`), that only
saved tokens expire (`ExpiredSaved`) and that an open transaction holds rows of its own
user only (`HeldOwn`). There is a lemma for each way a statement can look from outside:
nothing, `Begin`, `Accept`, `End`, `Answer`, `Issue`.

### ApiAccessProofs

First the limiter store by itself (`LimiterSpec`). `WithinTwice` is proved for any calls, clients, burst and idle time of at least twice the
burst less one (`LimiterAssumption`; 300 against 120 and 50 against 20 in the code). `ideal`
covers what a client can still spend (`Covered`): the bucket its next request finds, one
evicted under a call that still holds it, and a full one more while the eviction is about
to delete. It can, because a bucket is evicted only after an idle time in which `ideal` has
filled up (`FillsUp`), and because there is at most one evicted bucket in use per client
(`OneOrphan`).

`RefusedForOwnCalls` says that who is refused has used up the bucket. Its invariant,
`TokensWereSpent`, looks at what is missing in a bucket: since any time `s` its client
was admitted at least as often as the bucket has fewer tokens than it would then have
regained (`Least(Burst, now - s + 1)`). A refused call finds no token, and with `s` a
`Burst` of ticks ago that makes `Burst` admissions. The invariant holds of every bucket,
evicted ones too: an admission counts for the client whichever bucket gave it, and a new
bucket is full.

ApiAccess implements the limiter store (`UsesTheStore`, by `StepsOfTheStore`), from which
`ChainWithinTwice` follows, and `ThrottledByOwn`: since the chain asks the store under
the id of the user it has verified (`KeysAreUsers`), the calls that count are requests of
that user. `WritersAdmins` and `DisabledOut` rest on `TokensTellTheTruth`:
a token says what was read of the row (`Signed`), and who was read to be an admin was one in
that tick or is one since (`Told`); and `Histories`, what a request has recorded
by the place it is at. `AccessTypes` is the type invariant.

### ProfilesProofs

For any sets of POSTs, processes, spellings, seeds and services (`ProfilesAssumption`: seeds
are finitely many, lower-casing twice is lower-casing once): `Types`, `OnlyIfAbsent`,
`OnlyByRace`, `CulpritsNamed`, `FetchedThenInserted` and `SeedsComplete`. The last is the one with an idea: that
counting rows tells whether seeding was finished, because as long as no process has
served the table holds nothing but seeds (`Seeding`), so that it has as many rows only if
it has them all.

### ImportCSVProofs

For any uploads, files, chunk and piece sizes and 1 to 16 workers (`ImportAssumption`):

| Theorem | States |
|---|---|
| `ImportTypes` | `TypeOK`, with the bounds of the channel and the semaphore |
| `WorkersStayBounded` | `WorkersBounded` |
| `NobodyDropped` | `NothingDropped` |
| `ResponsesAddUp` | `ResponseAddsUp` |
| `InsertionsAreReal` | `InsertedAreReal` |

The semaphore and every wait group count the workers that have not returned (`Counted`).
A row that was read is in the channel, the batch, with such a worker, in the table, or a
batch error was counted (`Carried`). `WorkerFits` is what makes a worker's return keep
that: with no error all rows it tried have been in the table, and with one the rows it
can tell as added or duplicate are fewer than those it tried, so that something is left
to count as failed.

The last two theorems count rows, with a second invariant, `SInv`, which is inductive
given the first. Rows read are in the channel or counted as total; rows of the total are
inserted, skipped, in the batch or in workers' hands (`Sums`); and a worker without an
error knows what became of each row it tried (`Exact`), so that its return moves what it
has in hand to the counters. What workers have in hand is a sum over them. It needs no
induction, because it is taken as the cardinality of a set of that many cells (`Cells`),
which the library's theorems on finite sets add up (`CellsGrow`, `CellsChange`).

### QueriesProofs

For any table, parameters, search texts, default and largest limit and width of `int`:

| Theorem | States |
|---|---|
| `CallerTypes` | `TypeOK` |
| `KeysDoNotCollide` | `KeysTellApart` |
| `PagesShowTheRest` | `PagesAreFull` |
| `LinksLeadThrough` | `LinksLeadThroughTheList` |

The assumptions are `QueriesAssumption` and three that say what the inputs are.
`TableAssumption`: the table's rows can be counted by an `int`, as `COUNT(*)` does in the
code. `RequestAssumption`: page, limit and probabilities are numbers, absent or do not
parse, which is what `strconv` leaves of them; and a search text is made of the words that
the parser's chains look for. `TextsAssumption`: a text is what it is before its bar and
what it spells after it, and one in upper case spells no part, as tags are in lower case.
The run evaluates them on its instance.

The filter of every page is that of the first but for its number (`OneFilter`, `SameList`):
the first word of an if-chain that a text has is the only one `FirstOf` leaves
(`FirstOfChain`), and a text with one country is read as that country whichever table is
tried (`OneCountryOnly`).

`KeysDoNotCollide` finds in a key what each field has put there. The key is the parts of
its fields joined in their order (`KeyJoins`), and tells what they say because no field but
gender and age group can spell a part with another's tag (`Clean`, `PartElements`): so a
field that is there has the one part with its tag (`Value`), one that is not has none
(`KeyElements`), and equal keys have equal fields (`SameValues`, `SameFields`). A country may have a
bar, and what it spells is all that then lies between its part and the next
(`SameCountry`, with `CutPrefix`). Numbers with the same hundredths are less than ten
thousandths apart (`SameHundredths`).

The pages need an invariant of their own, `ShownInv`: the pages shown so far are full, are
followed by rows not yet shown, have together the length of what was passed, and begin
the one order of the list, if it has one. Hence the next offset is where they end and, as
it is less than the number of rows, is not wrapped (`OffsetNow`, `WrapSmall`); `LastPage`
says that the handler's count of pages, `total_pages`, ends the links at the first page
after which no row is left. TLC checked `ShownInv` on a part of the run's requests first.

`FlattenSeq` is recursive in the library, and `FlattenAppend` is what is needed of it.
The provers cannot instantiate the library's induction theorems. But they can use that
strict inclusion is well-founded on finite sets, which is stated without an operator:
`LeastNumber` and `InductionOnNat` follow, the latter for sets in place of predicates.

### What is only model-checked

Liveness, which is beyond these provers: `EveryRequestAnswered`, `ExpiredPurged`,
`UploadAnswered`. The three violations are TLC's counterexamples.

## Not modelled, and why

* The wording of answers, headers, logging, CORS, the CSRF middleware (on no route).
* Cryptography: tokens and generated states are distinct names, SHA-256 is injective.
* `InvalidateUserRefreshTokens` and `GetOrSet` are never called; `RBACAnalystRead` is on
  no route.
* Durations of sessions, logins and cache entries: expiry is an event that may come at any
  time after creation. Access tokens and buckets do have a clock, in ticks.
* A multipart file whose reads keep failing, on which the reader goroutine would
  count malformed rows for ever (`handler/import.go:92-96`).
* Which words a search text has: the regular expressions and tables of the parser are
  data, and their outcome is the model's input.
* Lists that come from the cache in Queries, and what a list of ListCache is asked with: the
  one has no cache, to the other keys are opaque.
* The attributes of a profile, and how the services' answers are turned into them.
* The store of the `/auth` routes, which is `RateLimit` with addresses for keys, has no
  composition of its own; addresses the middleware lets pass are no clients.
* Migrations are idempotent and run before anything else; wiring, environment, and
  shutdown, which waits for requests and is for them as if it had not begun.

## Plan

Done: all the components above, with proofs of all their safety. What would add most:

1. An abstract specification of ListCache, in which a list is simply some version that
   no finished invalidation forbids, and the proof that ListCache implements it.
2. Composition of ListCache with Queries: which lists of which filters a write makes
   stale, with keys that are shared by rounding or by a `|`.
3. Profiles with the import's batches in place of single rows, so that the boot's count
   meets an import that is under way.
