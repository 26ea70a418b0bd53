# Formal models of w3itch-backend

w3itch-backend is the NestJS server of a game portal. It keeps game projects
(EasyRPG, HTML, Minetest and plain downloads), runs a Minetest server per game
world as a child process, keeps ratings, tags and prices, and lets users sign up
and log in with MetaMask, GitHub and Discord. This directory models in TLA+ the
parts of it where the order of events matters, checks them with TLC on small
instances, and proves the most important facts for instances of every size.

The paths below are relative to `src/src/api` unless they say otherwise.

## The system

Everything runs in one Node.js process. JavaScript runs one callback at a time,
so code between two `await`s is atomic; between them, other handlers run. There
are no locks and no database transactions around more than one `save`. What can
overlap, therefore, is: requests with each other, requests with work that a
handler started and did not await, requests with the events of child processes,
and everything with the death of the process.

| Component | State | Operations | Interacts with | What is hard |
|---|---|---|---|---|
| Minetest supervisor (`games/minetest.games.service.ts:369-460`) | three tables per port: the child, its promise, the closure that resolves it | `execMinetest`, `stopMinetestChildProcessByPort`, the `close` callback | child processes, the handlers that await it | handlers that await the same child; a closure overwritten while awaited; a child's close arriving after the next child's start; death of the process, which children survive |
| Minetest worlds (same file, `games/minetest-worlds`) | table `minetest_world` (a port per world), folders `worlds/<w>` and `temp/<w>`, configuration files | restart, bootstrap, upload, removal | supervisor, game projects, file system | find-then-insert of rows, un-awaited removal, files changed under a server |
| Game projects (`games/games.logic.service.ts`, `games.base.service.ts`, the engines' services) | table `game`, archives in `downloads`, served folder, temporary folder | create, update (fields, archive, charset), delete, delete files | the engines' services, tags, prices | steps that fail halfway; two uploads of a name; archive, row and folder that drift apart |
| Game catalogue (`games.logic.service.ts:67-90, 196-203, 282-311`) | payment mode, donation address, tags and prices of a game; tables `tag`, `price`, `token` | create, update, get or create a tag, save a price, find or create a token, `PATCH tags`, `PUT tokens` | the chains' providers | values validated against a row read earlier; find-then-insert; prices saved before the game |
| Listing and pagination (`games.base.service.ts`) | none | find with filters, order and page links | | pages that shift between two requests; filters passed from link to link |
| Ratings (`ratings/ratings.service.ts`) | table `rating`, column `game.rating` | update, delete, `updateGameRating` (not awaited) | game projects | recomputations out of order, duplicate rows |
| Accounts and users (`accounts/accounts.service.ts`, `users/users.service.ts`) | tables `user` and `account` | signup, login, bind, unbind, profile edits | OAuth2, MetaMask, tokens | find-then-insert; two inserts for one signup; count-then-delete |
| OAuth2 (`accounts/accounts-oauth2`, `-github`, `-discord`) | authorization states in the cache, with a time to live | build the request, handle the callback | cache, platforms, accounts | expiry, repeated callbacks, the order of use and deletion |
| MetaMask (`accounts/accounts-metamask`) | nonce per address in the cache | nonce, login, signup, bind | cache, accounts | expiry, replacement by a second request |
| Cache (`src/src/cache/service.ts`) | keys with a time to live (memory or Redis) | get, set, del, lazyGet | OAuth2, MetaMask, calendar | two lazyGets at once, errors turned into a missing value |
| Tokens (`src/src/auth`, `accounts/accounts-token`, `accounts/jwt-cookie-helper.service.ts`) | three cookies in the browser, signed copies of rows | sign, refresh, log out, guard | users, accounts, listing | answers that arrive in another order; tokens that outlive what they name |
| Calendar (`calendar/calendar.controller.ts`) | fetched calendars in the cache | `getICal` | cache, other sites | overlapping fills |
| Storage, static serving, configuration, logging, migrations | none or external | reads and uploads | | |

## Modules

| Module | Models | Composes |
|---|---|---|
| `MinetestServers` | the supervisor | |
| `MinetestServers_proofs` | theorems about it | `MinetestServers` |
| `MinetestWorlds` | the handlers of worlds, the table, the folders | `MinetestServers` (INSTANCE; its specification is a property) |
| `MinetestWorlds_proofs` | theorems about them | `MinetestWorlds`, `MinetestServers_proofs` (INSTANCE) |
| `GameProjects` | row, archive, temporary and served folder of a game | |
| `GameProjects_proofs` | theorems about them | `GameProjects` |
| `Catalogue` | payment mode, donation address, tags and prices of a game; tokens | |
| `Catalogue_proofs` | theorems about them | `Catalogue` |
| `GamesListing` | the listing of games, and clients that walk its pages | |
| `Ratings` | ratings and averages | |
| `Ratings_proofs` | theorems about them | `Ratings` |
| `Accounts` | users and their accounts | |
| `Accounts_proofs` | theorems about them | `Accounts` |
| `AppCache` | the cache, with the logins by GitHub, Discord and MetaMask and the calendar, which keep what they remember in it | |
| `AppCache_proofs` | theorems about it | `AppCache` |
| `Sessions` | cookies and tokens of a browser, and what goes out of date in them | |
| `SessionsAndListing_proofs` | theorems about who a visitor is and which games a client is shown | `Sessions`, `GamesListing` (both extended; they share no name, hence `ListingSpec`, `ListingInit`, ...) |
| `MC...` | symmetry and value sets for TLC | the module of that name |

All of them share one convention: a process per request (`Requests`), reused
when the request is over; a program counter or step in the process's record;
one action per stretch of code between two awaits, named after what it does.
Locals that survive an await are fields of the record. A handler that fails
returns to `Idle` with the effects it already had. Each definition's lines in the
source are in `PROJECT.json` under `map`. Where a property only holds for work
that nothing else overlapped, the module records in a *history* variable what was
overlapped (it is read by properties only, never by an action). Operators marked *mutant* are faulty
variants of the definition that follows them. They are not part of any
specification; `PROJECT.json` lists which property each of them breaks.

### MinetestServers

`childProcesses`, `childProcessPromises` and `childProcessCloseResolves` are the
service's three tables. A child stands for its promise and its closure, which are
created together with it. `resolved` holds the promises resolved.
`pc[r]` says whether handler `r` is idle, suspended on a promise (`waiting`), or
has its continuation in the microtask queue (`ready`). The rule that microtasks
run before the next callback is `LoopFree`: calls (`CallExec`, `CallStop`) and
close events need it, continuations (`ContinueExec`, `ContinueStop`) do not.
`Exit` ends a process at any time, after SIGINT or not; `OnClose` is the `close`
callback, which runs *whatever closure the port has now*. `Crash` clears tables and handlers and leaves the processes alive
but detached (`main.ts` does not enable shutdown hooks). A process is `unborn`,
`running`, `exited` (its close event pending) or `closed`.

`Shared` is a set of ports for which calls may overlap. The supervisor does
nothing to prevent that; what it promises differs, and the properties of both
kinds of port are checked and proved in one model.

### MinetestWorlds

Adds the handlers around the supervisor: `Restart` (`POST .../restart`),
`BootRestart` (the un-awaited `forEach` of `onApplicationBootstrap`), `Create`,
`Update`, `Delete`, `DeleteFiles`. `FindGame`, `FindPort`, `Lookup`, `InsertRow`,
`SetPort` and `WriteConf` are the database and file steps in between; the calls of
`execMinetest` and `stopMinetestServerByGameWorldName` are the actions of
`MinetestServers`. `DeleteRow` runs concurrently with the removal that `delete`
did not await. The property `SupervisorSpec` is `MinetestServers!Spec`: whatever the
handlers do, they use the supervisor the way its own module assumes. The facts
proved about the supervisor therefore hold here too.

An upload may fail at each step that the code lets fail (`Fail`): `handleWorldMtFile`,
the copy and the removal of the temporary folder, the configuration file, and the save
of the game, before which the tags and prices of the request are converted and may be
refused. `rm` of the served folder may fail too, which the code takes for a missing
folder. (`generateAndUploadOverviewImage` catches its errors.) Nothing that such a
failure leaves is cleaned up. `failed` is a history variable: the worlds whose folder was not removed,
or whose upload failed after it was, until the folder is removed or an upload
succeeds.

`Careful` is a set of worlds whose clients send the next request after all work
for the last one is done; the requests for other worlds overlap as they like. A
boot restarts every world at once and does not wait for clients, so the properties
of careful worlds are stated for histories without a crash (`Serial`).

### GameProjects

An archive is a sequence of entries, a directory and the name of a file that some
engine requires; `Found` and `EntryPath` are the look-up of these files in the
services of the engines. A folder is abstracted to the uploads its files come from
and the directory they had there, so that mixture, loss and a wrong entry path can
be seen. `Unpack` is `uploadGame` up to its first await, which runs in the same
callback as the step before it; `RemoveFolder`, `CopyFolder`, `HandleWorldMt` and
`DrawOverview` (Minetest), `Index` (EasyRPG's gencache), `RemoveTemp`, `SaveNew` or
`SaveChange` and `Archive` follow. `FixKind` is the rule that fixes kind and genre
by classification. `Play` is a Minetest server that writes to
the folder of its world. Stopping and starting servers is left to
`MinetestWorlds`. `disturbed` collects the games for which two requests overlapped,
or an upload of which failed after the served folder was removed.

### Catalogue

`Find` completes the mode from the row and fixes the address (`Fix`, which is
`validateAndFixDonationAddress`). `FindTags` is the look-up and insertion of the tags; each
price is a task of its own (`Promise.all`), which finds its token, fetches it from
the chain, inserts it and saves the price: `FindToken`, `SaveToken`, `SavePrice`. TypeORM's `save`
selects the row with its relations (`Select`) and then writes what differs from
that (`Write`, `Insert`). Of two updates that overlap, one may write an address it
validated against the mode that the other has just replaced: `overlapped` marks
those requests, and `dirty` says that one of them made the last write. A chain's
provider exists if it is configured and known to `web3.provider.ts` (`Providers`).

### GamesListing

`Listed`, `Sorted` and `Page` are the query of `paginateGameProjects`, pure
operators of the rows; `AppendParams` is what a link asks for. `walk` is a client
that follows the links, while `Create`, `Save` and `Delete` change the rows.
`Before` is the order a query asks for, and `Rank` the number of games before one: the
page of a game is its rank divided by the size of the pages.
`steady` and `disturbed` record what a walk may expect to see: the games that were
listed all the time, and whether one of them was deleted or changed its place.
Games created meanwhile do not disturb a walk. In descending order they push the
others to later pages, so that a game may be shown twice and a new one out of its
place, but none is missed.

### Ratings

`FindRating`, `SaveRating` or `RemoveRating` up to the answer, `Recompute` and
`StoreAverage` behind it. `Patient` is the set of users who wait for an answer
before the next request: the properties about rows are those of the patient users,
the others do as they like. `raced` records the games on which requests overlapped.

### Accounts

`FindAccount` is the one query of `getUserAndAccount`, and what happens next depends
on the kind of request (`Kinds`). `SaveUser` and `SaveAccount` are the two inserts
of `initUser`. `disturbedUsers` and `disturbedIdentities` collect the users and the
platform accounts for which two requests overlapped; a user whose signup is cut
short by a crash between the two inserts is a disturbed one too. `borrowers` collects
the users who saved an account whose identity logs in another user at that time.

### AppCache

`subject`, `nonce` and `entry` are the three kinds of keys the server uses. A get
that fails returns nothing, a set or del that fails changes nothing (`Gets`,
`AfterSet`, `AfterDel`): the service logs the error and goes on. `Expire` is the end of a
time to live, at any moment. The two OAuth2 services have an action per
await, in their own orders: GitHub finds the state, asks the platform and deletes
(`GitHubFind`, `GitHubFetch`, `GitHubFinish`), Discord deletes before it asks
(`DiscordFind`, `DiscordDelete`, `DiscordFetch`). `Redirect` is the platform, which
sends the browser back with a code that can be exchanged once; `Callback` may come
any number of times with it. `handed` records the calls of `AccountsService`, where
`Accounts` takes over. `disturbed` collects the keys that two requests used at once
or of which a set or del failed.

### Sessions

`jar` is what the browser holds, `Tokens` the payloads, with the version of the
profile, the account and whether `account.user` was joined. A request reads
the cookies when it is sent (`Send...`), the server reads rows in between, and its
answer changes the jar when it arrives (`Receive`), in any order, or never (`Lose`).
`RefreshUser` and `RefreshAccount` are the two look-ups of a refresh. `Viewer`
is the expression by which the endpoints of the games take the username from the
access token. `crossed` collects the requests that were under way together.

## What the runs check

Passing runs:

| Run | Bounds | Shows |
|---|---|---|
| `ServersConcurrent` | 2 ports (one shared), 3 handlers, 4 children, 1 crash | no wakeup is lost, a stopping server keeps its slot; on the port without overlap every live server is tracked and a stop waits for the close; the inductive invariant, of which the consistency of the tables is part |
| `WorldsConcurrent` | 2 worlds (one careful, whose uploads and removals may fail), 2 handlers, 2 children, 2 rows, 1 crash | ports are stable and belong to one world; the supervisor is used as specified; on the careful world servers are reachable by name, and folders, games and servers agree unless an upload or a removal failed |
| `WorldsLive` | 1 world, 2 handlers, 2 children | every handler returns |
| `ProjectsConcurrent` | 1 name, 4 engines, 4 archives, 2 requests, 2 uploads | what is archived was saved; a game without overlap or late failure is served with the files its engine requires at the top, and from one upload |
| `CatalogueConcurrent` | 10 bodies of requests, 1 tag, 2 chains, 2 requests under way, 4 in all, 3 rows per table | disabled payments leave no address, an update without a mode keeps it, tags and tokens have one row, a game is sold at the prices written last; unless requests overlapped |
| `RatingsConcurrent` | 1 game, 2 users (one patient), 2 requests, 4 rows | one rating per game for the patient user, whatever the other does; correct averages where nothing overlapped |
| `AccountsConcurrent` | 2 platforms, 2 account ids, 2 free names and a reserved one, 2 requests, 2 users, 3 accounts, 1 crash | an account logs in as the same user until that user unbinds it; without overlap a user has one account per platform, keeps an account, and keeps one that logs it in unless it took another user's, and an account is signed up once |
| `CacheConcurrent` | 1 state, 2 redirects, 2 users of the platforms, 1 wallet, 2 codes, 1 calendar with 2 versions, 2 requests | `AccountsService` is called once per state; a failed callback may be tried again at GitHub, Discord is asked once; the latest code logs in and no other; a calendar never goes back |
| `SessionsConcurrent` | 2 users, 2 platforms with 1 account each, 2 rows of accounts, 1 edit per profile, 2 requests | a logout that crossed nothing leaves no token; tokens name an account of their user; a refresh keeps the session; the profile in the tokens goes forward |
| `ListingWalk` | 3 games, 2 users, 1 tag, pages of 1 game, 4 saves | a walk through the pages misses no game and shows none late, and repeats none in ascending order, unless games moved |

Runs that find a disagreement between what the code, its documentation or its
tests say and what the code does:

| Run | Property | What happens |
|---|---|---|
| `ProjectsWorldLost` | `WorldKept` | a new charset replaces a played Minetest world |
| `SessionsRefreshed` | `OwnGamesListed` | a refreshed access token names an account without its user; the listing and the page of a game then fail with a TypeError |

The conditions of the passing properties (`Shared`, `Patient`, `Careful`, and the
history variables) are needed. Dropping one gives a counterexample with the
behaviour it excludes: two restarts of a world leave a server that no table tracks;
two first ratings of a user are both inserted; two signups of one platform account
create two users; two unbinds of a user leave no account; two updates leave an
address with payments disabled; two callbacks at GitHub with one state both call
`AccountsService`; of two overlapping requests for a nonce the
second deletes the code that the first was answered with; a refresh whose answer arrives after that of a
logout signs the user in again; what a rejected upload
left in the temporary folder is served with the next upload.

### Behaviour worth knowing

Three definitions state what one might expect and the code does not keep;
they are in the modules for reference and in no run.

- `MinetestServers!StopWaitsForClose`: the `close` callback of every child of a
  port calls the closure that the latest start left there, so on a shared port a
  stop may return while the server it killed still runs.
- `Ratings!CalculatedAverage`: recomputations run behind the answers and store in
  any order; after two overlapping ratings a game may keep the older average.
- The answer to a deletion is sent before the folder is removed. A client that
  uploads right after it may have the new folder removed: the worlds in `Careful`
  are those where nobody does.

Others are excluded from a property by a history variable, since no code prevents them:

- An upload that fails late leaves what it did, with nothing else under way. If the copy
  fails, a game is left without its folder. If the save is refused (a chain that
  is not supported, a token that no contract answers for, a name taken meanwhile),
  a new world has a folder and a running server but no game, and an updated one is
  served from the refused file while its row names the old one.
- `bind` asks whether the user has an account of the platform, not whether another user
  has this account (`accounts.service.ts:306-318`). A user who binds the account of
  another one, and then unbinds its own, logs in as that other user with what it has
  left, and has no account that logs it in. `UsersCanLogin` excludes such users
  (`borrowers`).
- The listing's conditions on the viewer and on the filter by username share the
  parameter `:username`, which the filter sets last (`games.base.service.ts:105-113`).
  With that filter a viewer who is signed in is listed the private games of
  the user it names. `Accessible` models it, and no property says that a page lists only
  what its viewer may open.

Also: the entry path of an archive is that of the last entry that matches, and a
`._index.html` that macOS adds to an archive matches too, so that the upload fails after
the served folder was removed; several tags in a query share one parameter and
the last counts, and in a link they become one string that no tag has.

### Bounds

Three handlers are the fewest for a port with a server that stops, a handler that
waits for it and one that overwrites what the second waits for; four children let
each be replaced once and the last survive. Two ports and two worlds show
that handlers of different worlds do not touch each other. Two overlapping
requests are enough for a race of find and insert: one more loses it in the same way. Two uploads let the archive, the row, the temporary
folder and the served folder hold different ones; the four archives have the required
files in one directory, with a Mac's additions, in two directories, or not all of them. Two users and three accounts let two
signups run and a user bind a second platform. One crash reaches every state that a crash
can interrupt; a second one starts from the same tables. One state and two redirects
suffice for two callbacks of one state by different users, and keys do not affect each other.
Uploads and removals fail in the careful world of `WorldsConcurrent` (`Fallible`), where the
properties speak of what is left; in the other one a failure would only end a handler earlier.
The runs set `ExecEnabled` (`execMinetestEnabled`); the theorems hold for both values.
After a crash nothing fails, and no crash happens while a world is in `failed` (`MayFail`,
`MayCrash`): these properties are stated up to the first crash.
Two codes are a code and its replacement. Two rows of accounts are a signup and a
binding, or two users. Three games on pages of one are a first, a middle and a last
page, or two to walk through and one that comes first meanwhile. With four a walk
in descending order can show a new game between two others; that case is left to the
theorem `WalksComplete`, which has no bound.
Bounded quantities are `Children` (spawns), `MaxCrashes`, `Fallible`, `MaxRows`, `MaxUploads`,
`MaxUsers`, `MaxAccounts`, `MaxCode`, `MaxVersion`, `States`, `Grants`, `MaxEdits`,
`MaxSends` and `MaxTime`; the guards that stand for a bound say so. Deadlock is
checked in every run: a request refused without effect is always possible where a
bound could end all other work, so a bound never looks like a deadlock, and a handler
that is stuck still shows in the liveness run.

### Fairness

`MinetestWorlds!FairSpec` assumes that continuations run, that close events are
delivered, that statements and file operations are answered and that a server
that was sent SIGINT ends. A callback waits while the microtask queue is not
empty and is enabled again after it, hence strong fairness for callbacks.
Nothing is assumed of clients, of servers that nobody stopped, or of crashes.
`WorldsLive` uses no symmetry.

## What is proved

The proofs are for all values of the constants. The assumptions on these are
named in the modules, and every one is evaluated in a run: values that stand for
nothing differ from the others (`NoneIsFresh`, `MissIsFresh`), bounds are naturals,
the engines and platforms are those of the code, and one of the engines is the one
that only keeps a download. Each proof follows the same argument: an inductive
invariant (`IInv`, in the proof module) joins the types, what the
requests under way remember at each of their steps, and the property; a
lemma per action shows that it keeps the invariant, and each property follows from
it. What is worth saying is what the invariant needs beside the property.

`MinetestServers_proofs`
: `InvariantHolds`: `Spec => []IInv`. `IInv` joins the types and the three
  properties `TablesAgree`, `RunningsNotStale` and `NoLostWakeup` with three
  facts that make them inductive. `OneDrain`: while continuations of a port
  run, nobody waits on that port. Otherwise a continuation could spawn over a child
  that somebody waits for. `ReplacedIsNew`: a child that a running
  continuation may replace was spawned in the same drain of the queue and nobody
  asked it to stop. `References`: what tables and locals name exists and belongs
  to the port. There is one lemma per action; `OnCloseStep` is the interesting one, since the
  callback runs the closure of a child other than the one that closed.
: `SupervisorConsistent`, `NoWakeupLost`, `SlotKept` follow from it.
: `ExclusivePortsSafe`: on every port outside `Shared`, and until the process dies,
  `ServersAreTracked` and `ExclusiveStopWaits` hold, whatever happens on the
  shared ports. It rests on `IInv` and on there being at most one call per such
  port. A shared port has neither (see `StopWaitsForClose`).
  `ExclusiveStopsWait` is its second half on its own.

`MinetestWorlds_proofs`
: `SupervisorUsed`: the specification of the worlds implements that of the
  supervisor. Every action of a handler is mapped to an action of the supervisor or to a
  stutter (`WorldsCalls`). It rests on a port that a handler passes being one of the table
  (`Remembers`): a row has its port before a handler can find it by that port.
  The invariant and the lemmas of `MinetestServers_proofs` are then used through
  an INSTANCE of that module.
: `PortsServeTheirWorlds`: no two rows have one port, and the child tracked on a port
  serves the world that owns the port. Rows get their number and their port
  at different steps, so the invariant (`RowsInv`) relates each row to the
  handler that has yet to set its port. `TrackedServesOwner` also needs what a
  handler suspended in `execMinetest` will start (`ExecNamed`).
: `PortsStay`, an action property: the row found for a world is the one with the least
  id, and no later row has a smaller one. `TypesKept`: the types.
: `CarefulServersReachable`, `CarefulGameHasFolder`, `CarefulNothingLeft` and the action
  property `CarefulRemovals`: on a world whose clients wait for their work, and until
  the process dies, a live server can be found by name, folders agree with games and files unless an upload
  or a removal failed (`failed`), and no folder goes away under a live server. They follow from a second invariant
  (`CarefulInv`), about one such world (`SerialWorld`) while handlers of others come in
  at any step. It says what the one handler at work relies on at each of its steps (`Fits`):
  the row before it has its port (`Ported`), the folder after the copy, and after
  the stop that no server of the world is alive (`NoneAlive`), whether it was closed by this
  handler or ended by itself. Three lemmas carry the proof. `OwnCall`: a call of the supervisor
  goes on without a wait only when no server of the world is left. `ServerSerial`: a close
  event wakes handlers of the world that owns the port, and of no other, since no two
  rows have one port. `Elsewhere`: no other handler touches what the invariant says of the world.

`GameProjects_proofs`
: `SettledIsServed`, `OneUploadServed`: an undisturbed game is served as its engine
  needs it, and from one upload. The invariant (`GameFits`) says for every step
  of each engine what the row, the temporary folder and the served folder are at that
  step (`Phase`). A failure before the served folder was removed leaves a settled
  game; one after it disturbs the game.
: `OnlySavedIsArchived` holds for every game, overlap or not, since the archive is written after the
  row (`ArchivesSent`). `TypesKept`: the types.

`Catalogue_proofs`
: `NoAddressKept`, `ModeStays`: what an update validated against the row it read
  is true of the row it writes. A request that overlapped none finds the row as it read it
  (`Apart`, `NothingStale`).
: `NoneTwice`: who found no tag or token is the only one about to insert it, unless
  two looked for it at once (`Missing`, `KeysApart`).
: `PricesAsGiven`: the tasks of a request save their prices side by side before the
  game is saved, and prices have no order. The invariant counts them:
  per chain a request has saved one price for each task done (`Counted`), these are its own
  and of no game yet (`PricesKeyed`). The proof needs the cardinality lemmas of
  `FiniteSetTheorems`.

`Ratings_proofs`
: `OneRatingEach`: no patient user has two ratings of a game, and what the request
  of a patient user found is still true when it saves. The invariant says that
  ids are unique and keep their owner, that a patient user has one unanswered
  request, and that requests of others leave alone what it found. Nothing is
  assumed of the other users. `FindingsHold` is its second half on its own.
: `AveragesUndisturbed`: on a game without races the stored average is that of the
  ratings, once no request is under way. The invariant (`RacesKnown`, `AverageKept`)
  says that until then the only one that recomputes will store the average of the ratings there are. `FloorMean`
  is a function of the rows and is not expanded: the proof shows when it is taken, not what a
  mean is.

`Accounts_proofs`
: `NobodyLockedOut`, `OneBindingEach`: between the query of an undisturbed request
  and its write nothing changes what it found: the platform is still
  free (`BindingFree`), the account to delete is still not the last (`AccountToSpare`).
  Both rest on one request at a time per undisturbed user (`UsersAlone`), which also
  covers the user that a signup has inserted without an account, as a crash there disturbs that user.
  That the account logs in this user is `OwnLogin`: the oldest account with the identity of an
  account is of the same user, for every user not in `borrowers`. Neither a
  later account (`UserAfterInsert`) nor the deletion of accounts of others (`UserAfterDelete`) changes
  whose the oldest is.
: `SignupSkipped`, `SameUserLogsIn`, action properties: an identity without overlap
  has no user when a signup inserts one (`NotRegistered`), and a login takes
  the account with the least id, before which no later one comes.

`SessionsAndListing_proofs`
: `SignedOut`: after the answer to a logout that crossed nothing, only logouts are under way until a
  login is asked for (`LoggedOut`), so nothing can put a token back.
: `OwnersNamed`: tokens are copied from rows and from one another, arrive late and
  outlive the rows. The invariant therefore speaks of all places a token can be in, browser and
  requests (`TokensKnown`, `StepsRemember`), and relies on ids of accounts not being reused.
: `RefreshRenews`, `ProfileNotOlder`, action properties: a request that crossed nothing carries a token
  of the same user and account as the browser's, and no older (`Alone`).
: `WalksComplete`: what a client is shown is complete, for any games and any size of the
  pages. Ids and times are given out once (`RowsInOrder`), so a query orders what it lists strictly, and
  ranks decide the order (`RankDecides`). That every rank below the number of games is
  that of a game needs no induction: ranks are an injection of a finite set into an
  interval of the same cardinality (`RankTaken`). A page is then the
  games whose ranks lie between its bounds (`PageShows`). The invariant (`Walked`) says
  that each game listed all the time was shown once the pages reach its rank. It
  is kept by the next page (`PageWalked`), and by games that are created
  because these never lower a rank (`WalkSurvives`): in ascending order they come
  last and change none, in descending order they raise all. Its order clause is weaker for
  descending queries, where a stronger one is false with four games.

`AppCache_proofs`
: `ServedOnce`: one call per state, unless its key was disturbed. The invariant follows the subject
  from the request through the cache to the callback's locals (`OriginInv`), and `IInv` adds that
  two requests at one key disturb it (`OneAtKey`), that nobody comes back with a
  state before it was stored (`NoGrantYet`), that Discord is asked after the deletion
  (`DeletedAtDiscord`) and that a state that served is neither stored nor
  held by a callback (`GoneOnceServed`). The last is why one state serves once although
  the two services delete it at different times.
: `FailedMayRetry`, an action property: at GitHub only a callback that ends in a call
  takes the state from the cache. `TypeCorrect`: the types.
: `DiscordAskedOnce`, `LatestCodeAccepted`, `CalendarForward`, action properties, follow from
  `CacheInv`, which adds one fact each: a state that Discord was asked about is neither stored
  nor held (`GoneOnceAsked`), the nonce stored at an address is the one answered last unless
  one is about to be stored (`LatestStored`), and neither the cache nor a fill is ahead of the
  calendar, nor the cache ahead of a fill (`NothingNewer`). Each needs `OneAtKey`.

Only model-checked:

- Liveness (`HandlersReturn`): the prover does no reasoning with fairness.
- What `FloorMean` computes: it folds over a set, and facts about a fold need
  induction over data.
- `WorldKept` and `OwnGamesListed`, which the code violates.

## What is not modelled

A `spawn` that fails (its `error` event has no listener; what follows depends on
the logger's options), the content of configuration files, covers and game files,
HTTP, signatures, the object store, the chain, the Minetest server beyond its life
and its writes. Storage and the static serving of players and games are pure input and
output: they read or write one file per request and share no state. Configuration,
logging and migrations only run at the start. The guards change no
state; they appear as guards of the actions behind them. `PricesService.update` and
`delete` have no callers. The reason for each component is in `PROJECT.json`.
