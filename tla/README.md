# Verification of the FIFA WC 2026 card trading backend

TLA+ models of the sticker trading application in this repository: a Go HTTP
API (`cmd/api`, `internal/`) over PostgreSQL, an in-memory WebSocket hub, and a
browser client (`frontend/app.js`). TLC checks the models on small instances;
TLAPS proves every safety property the passing runs check, for all values of the constants.

## 1. The system

| Part | State | Operations | What is hard about it |
| --- | --- | --- | --- |
| Trade service (`internal/services/trade_service.go`) | tables `trades`, `trade_items`, `notifications`; reads `collection_items` | CreateTrade, RespondTrade | READ COMMITTED transactions that read without locks and write later; work and events after the commit; calls that fail anywhere |
| Notifications (`internal/handlers/notification_handler.go`) | column `is_read` | List, MarkRead | runs beside the trade service; publishes nothing |
| WebSocket hub (`internal/ws`, `internal/handlers/ws_handler.go`) | registry of clients per user; a buffer, a `done` channel and a connection per client | register, unregister, two pumps per client, PublishToUser, eviction | four kinds of goroutines, two unbuffered channels, a lock, full buffers, slow or vanished browsers |
| Sessions (`internal/services/auth_service.go`, `internal/auth/auth.go`) | table `refresh_tokens` | register, login, refresh, logout | refresh is three statements without a transaction |
| Rate limiting (`cmd/api/main.go`) | map from key to limiter and last use | limitByIP, limitByUser | entries are dropped and made again |
| Migrations (`internal/db/db.go`) | table `schema_migrations` | RunMigrations by every replica at its start | replicas race, crash between steps, and may have different images |
| Collections (`internal/services/collection_service.go`) | `collections`, `collection_items` | UpdateItem, lists, statistics, matching (in `trade_service.go`) | statistics and events after the commit; a match takes two queries per partner |
| Web client (`frontend/app.js`) | tokens, user, the latest lists, a socket, the page that is shown | login, refresh and retry, logout, load, changes, reconnect, page load | promises that overlap: answers of a load, a refresh or a login arrive after anything else has happened |
| Process and connection pool (`cmd/api/main.go`, `internal/db/db.go`) | at most `DB_MAX_OPEN_CONNS` connections | start, signal, Shutdown with its timeout; every query takes a connection | matching and listing query while they read the rows of a query: such calls need two connections |
| Stickers, users, health, configuration, wiring | none of their own | single queries | nothing |

How they interact. HTTP goroutines share only the database and the hub. The
trade and collection services call `PublishToUser` after their commits, in the
goroutine of the call. The hub's registry is changed by one goroutine
(`Hub.Run`), which is asked over unbuffered channels. Browsers answer an event
by loading everything again; `notification.unread.count` alone carries data
they show. The rate limiter stands before the handlers, the migrations before
the listener.

What makes each part correct:

- trade service: a trade has one final answer; rows and notifications are
  written together; no event tells of work that was rolled back; traded
  stickers were spare when they were offered; every call returns.
- hub: connection slots are neither leaked nor exceeded; a working connection
  misses no event without being closed; events of one call arrive in order;
  publishing never blocks on a browser.
- sessions: one usable token per session; a logout is final; nobody is logged
  out without a cause; two calls never answer with the same token.
- rate limiting: dropping idle entries makes no difference; a key under its
  limit is served, one far above it is not.
- collections: statistics, lists and events say what the tables held; a match
  names only what could be traded, and misses nothing that holds still.
- migrations: each script is applied once, in order, and before a replica that
  needs it serves; replicas that race come up in the end.
- web client: the page shows what belongs to whoever is signed in; the rotation
  of tokens signs nobody out; the page catches up with the events it was sent;
  a tab keeps one socket.
- process: calls that share the pool do not wait for each other for ever, and a
  shutdown ends.

## 2. Modules

| Module | What it is |
| --- | --- |
| `TradeTables` | the tables of the trade service, shared by the next two |
| `TradeLedger` | abstract: trades are proposed, answered once, and notified, each in one atomic step |
| `Trades` | the trade service, one action per SQL statement, commit or event |
| `TradesProofs` | theorems about `Trades`: all that its runs check, but liveness |
| `Hub`, `HubProofs` | `Hub.Run`, handlers, pumps and publishers, one action per channel operation, and the proof of its safety |
| `Sessions`, `SessionsProofs` | refresh tokens, one action per statement, and the proofs of all that the run checks |
| `Collections`, `CollectionsProofs` | collections and matching, one action per statement or event; statistics as the loop of the code; and the proofs of all that the run checks |
| `RateLimit` | abstract: a bucket per key that is never forgotten |
| `RateLimiter`, `RateLimiterProofs` | the map of limiters, the proof that it implements `RateLimit`, and that the limit holds |
| `Migrations`, `MigrationsProofs` | RunMigrations by any number of replicas, and its safety proof |
| `WebClient`, `WebClientProofs` | one browser tab: tokens, requests, loads, the socket; the server as far as the tab sees it; and the proofs of all that the run checks |
| `Server`, `ServerProofs` | the process from start to exit and the calls that share its connection pool |
| `MC*` | instances for TLC: values of constants, symmetry, constraints |

### Trades

`Calls` are goroutines that serve HTTP calls of the user `Caller[c]`, one after
another; `pc[c]` and `job[c]` are its program counter and local variables. Each
action is one statement as PostgreSQL runs it at READ COMMITTED: a SELECT sees
what is committed; `UpdateTrade` waits while another call is between its UPDATE
and its commit (`Lockers`); the ids of `trades` and `notifications` come from
sequences that move at once and never back. What a transaction writes appears
at `Commit`. Runs of statements nobody else can observe are one action (the
INSERTs of `InsertTrade`; the UPDATE and the notification's INSERT of
`UpdateTrade`). After the commit come `Reload` (GetTradeByID), `PublishTrade`,
`CountUnread` and `PublishUnread`. `GiveUp` is a failing statement, a client
that hangs up or a crash, possible at every point. The hub is what it was given
(`events[u]`). `UpdateItem` and `MarkNotificationRead` change the tables from
outside. Sticker codes are a set: `uniqueCodes` removes duplicates.
Statuses and events go by the same names, and `cancelled`, which the schema
allows, is never written by the code.

### Hub

A member of `Clients` is a `*ws.Client` with its connection and its goroutines:
`handler`, `reader` (ReadPump) and `writer` (WritePump) say what each does
next. `registering` and `unregistering` hold what `Hub.Run` has received and
not yet done, so that a rendezvous on a channel (`Register`, `Unregister`,
`Evict`) and the change of the registry under the lock (`HubRegister`,
`HubUnregister`) are two steps. A publisher copies the registry (`Snapshot`)
and offers the event to each recipient with `Offer`, the `select` with its
three cases. A `select` with several ready cases takes any of them. Deadlines
of the connection appear as reads and writes that may fail. `open` is the
server's end of the connection, `peer` the browser's. `PublishGlobal` has no
caller and is left out.

### Sessions

A token is a user and a clock reading, since that is what its id is made of,
and equal ids give equal strings. A session goes by the name of its first
token. Refresh is `Refresh`, `ValidateRefreshTokenStorage`, `Revoke`,
`StoreRefreshToken`, `Reply`; login and registration are `Start`,
`StoreRefreshToken`, `Reply`. Any of them may end with `GiveUp`. The sets under
"history" remember which sessions met what, so that the properties can name
their exceptions.

### Collections

`UpdateItem`, `Upsert`, `Commit`, `ReadStats`, `PublishItem`, `PublishStats`
are one call of the service; `Upsert` waits for another open transaction on the
same row. The loop of `CalculateCollectionStats` is a fold of its body,
`CountItem`, and `TrueStats` is what the numbers mean, stated with sets. The
queries are operators over the rows. A match is two queries per partner
(`TheyHaveYouNeed`, `YouHaveTheyNeed`), between which others commit. `past`
keeps the counts after each commit, so that events and matches can be compared
with what was true when. Every account has its collection (`AuthService.Register`
inserts both at once), so `ensureCollection` changes nothing and is left out.
To `Trades` an update is one step, `UpdateItem`, since nothing but the commit
changes what other transactions read.

### RateLimiter

Time advances in ticks, `Interval` ticks to a token and `Burst * Interval` to a
minute. `Seen(k)` is `limiterStore.get`, eviction included; `TokensAt` is how
`golang.org/x/time/rate` (external) computes a limiter's content when asked.

### Migrations

`Files(r)` is the number of files in the image of replica `r`; an older image
has fewer. A script and its row in `schema_migrations` are one transaction.
`Record` waits for another open transaction that inserted the same row and
fails if that one committed. The process then exits and is started again.
`LoseAnswer` is a COMMIT that takes effect without being confirmed.

### WebClient

One tab of the browser, from page load to page load. JavaScript runs from one
`await` to the next without interruption, so each such stretch is one action;
between them anything may happen. A token pair goes by its number, and 0 is "no
token". `jobs[s]` holds the requests of one `loadDashboard`, or of one change,
each of them sent, refused (its 401 is under way), waiting for the refresh that
is in flight, done or failed. `Retry` is `apiFetch` from the 401 on and
`refreshTokens`; `Refreshed` and `RefreshFailed` are its `then` and `catch`, up
to the requests that waited. `Land` is the end of `Promise.all`; one failure
loses the load (`Settle`). `LoginDone` is `login` and `register` after their
call: `setUser` renders before `setTokens`, so the login form stays on the page
until a load lands (`shown`), and a second login is possible behind it.
`Connect`, `SocketCloses`, `OldSocketCloses` and `Reconnect` are
`connectWebSocket` and its handlers; each closed socket runs the same `onclose`,
also when another has replaced it. The server is reduced to what the tab sees:
access tokens are valid until they expire, a refresh replaces the pair in one
step (its statements are in `Sessions`), and data are a version number whose
changes reach the open socket as up to two events (an update of a collection
publishes two to its user, a trade and its answer one to the other user, marking
a notification as read none; the details are in `Hub`).
`Clear` is the end of `logout`. It resets all lists but the statistics
(`state.stats`, the constant `Stats`), which stay in the hidden page until the
next user's first load. `leaving` counts the logouts whose calls are under way: a
second click sends another, and its late answer clears the tab once more.
Variables under "history" say when a property has no promise to keep:
`leftover` (work of an earlier sign-in was in flight at its end), `excuse`,
`missed`, `hasty`.

### Server

A member of `Calls` is a goroutine that serves calls one after another. A call
asks for a connection, keeps it while it reads rows or is in a transaction, and
asks again for its next query. The members of `Nesting` serve FindMatches or
ListTrades: `NextRow` asks for a second connection while the first is kept.
`Standstill` is the state in which every connection is held by such a call: it is
part of the model, and lasts until somebody hangs up or the process exits.
`Exit` is the shutdown's timeout or a failing listener. What the statements say
is left to the other modules, which in turn have no bound on connections.

## 3. Runs

| Run | Question and result | Bounds |
| --- | --- | --- |
| `trades_tabs` | with three calls in flight, two by one responder, and failures anywhere: status and notifications agree, events are of committed and notified work, the trades they carry are recent, every call returns. Holds. | one sticker, three calls: a proposal and two racing answers, or three proposals |
| `trades_single` | one call per user at a time: the service implements `TradeLedger` (in which an answer is final), offers were spare. Holds. | counts 1 and 2, around the threshold of 2, may change at every moment |
| `trades_final` | is an answer final with two tabs? **No.** | as `trades_tabs` |
| `hub_safe` | slots and delivery. Holds. | one slot, two connections, two publishers, buffers of one, two events: the second event finds the buffer full |
| `hub_live` | slots come back, evicted clients are closed, publishing returns. Holds under fairness. | one connection that comes and goes, two publishers |
| `hub_open` | are open connections capped? **No.** | as `hub_safe`, with one publisher |
| `sessions` | rotation, logout, causes of an end, uniqueness. Holds with the exceptions named in the properties. | one user, two calls in flight, three clock readings: a session with two refreshes, or two sessions |
| `collections` | statistics, lists, events and matches against the tables. Holds; that the last statistics sent are current needs updates that do not overlap. | two calls of one user, two updates, two stickers of two teams, first counts 0 to 2; the counts sent are 0, 3 and the refused -1 and 100 |
| `migrations` | once, in order, before serving, and all come up. Holds. | three replicas (the chart's maximum), two images, three failures |
| `limits` | eviction is unobservable; how much passes. Holds. | limit 2, a minute of 4 ticks, entries dropped after 5, 14 ticks: an entry can be dropped and made twice |
| `web_client` | does the page fit the user, the rotation of tokens sign anybody out, the page catch up, the socket survive? Holds with the exceptions named in the properties. | two users of one tab, three token pairs (a login and two refreshes, or two sign-ins), loads of two requests, one of them for the statistics, two loads in flight, two requests and logouts unanswered, one change |
| `pool` | does every call get its connections, and does a shutdown end? Yes, but for one standstill: as many nesting calls as connections. | two connections, two calls that nest and two that do not, up to two further queries each |

Symmetry is used where members of a set are only ever compared: publishers and
connections of the same user, calls and clock readings of `Sessions`, the calls
of `Collections`, keys, and users and load slots of `WebClient`.
`hub_live`, `pool` and `trades_tabs` check liveness and use none. `trades_tabs` leaves
notifications unread (action constraint `NobodyReads`), which no step of a call
depends on but for the count; `trades_single` reads them.
`migrations` does not check for deadlock: once all replicas are up and no
failure is left the model stops, as it should; nor does `pool`, where the
process has exited in the end, nor `web_client`, whose constraint ends
behaviours. That constraint, `Orderly`, stops where a history variable
(`leftover`, `hasty`) says that the properties promise nothing any more, and
where more than two requests and logouts are unanswered. Its view, `Relevant`,
identifies states that differ only in what no step and no property looks at:
token pairs nobody can use, and, after a failed load, the versions of lists that
only another load can make current.
TLC picks the representative of symmetric states before it applies the view, so the
number of states it counts varies by a few hundred; without symmetry it is the same
in every run (2,584,674).

Why the bounds are enough. The errors these models can have need two actors and
one shared row, slot, buffer or token; each instance has one more of what
competes than there is of what it competes for, and failures may hit at every
step. Buffers of one message and a slot count of one reach the limits in the
fewest steps; the code compares them in one place each.

Every property has a mutant: an operator beside the action it replaces, marked
`Mutant`, that differs as a plausible bug would.

### Fairness

- `Trades`: weak fairness of each call's next step (goroutines are scheduled,
  PostgreSQL answers or fails) and strong fairness of the UPDATE that waits for
  a lock, because PostgreSQL queues waiters. New calls need not come.
- `Hub`: weak fairness of the hub, the pumps and the publishers; strong fairness
  of what waits for the hub's channels (senders queue in order) and of taking
  `done`, since `select` chooses at random. Nothing is assumed of browsers.
- `Server`: strong fairness of getting a connection, since `database/sql` gives
  a returned connection to one of those who wait, at random; weak fairness of
  the statements and of Shutdown. Nothing is assumed of failures, clients that
  hang up, timeouts or new calls.
- `Migrations`: weak fairness of each replica, restart included (Kubernetes
  restarts exited containers). `MaxFailures` says that failures from outside
  end; losing a race is not counted as one.

## 4. Findings

1. `RespondTrade` can overwrite an answer (`trade_service.go:287,298`). Two
   answers both read `pending`, one waits for the other's row lock, and its
   UPDATE tests only the id. `trades_final` shows accepted turning into
   rejected, against "trade already processed" (`trade_service.go:295`). What
   still holds is `StatusIsLatestAnswer`: the last notification tells the truth.
   The same race reaches the events: the trade an event carries is read again
   after the commit, outside of the transaction (`trade_service.go:312`), so a
   `trade.request.accepted` may carry a rejected trade, or the reverse. What
   still holds is `PayloadsAreRecent`: the trade shows the announced answer or one
   that was committed after it.
2. `WS_MAX_CONNECTIONS_PER_USER` bounds registered clients, not connections
   (`hub.go:49,67,108`): an evicted client's slot is free before its connection
   is closed. README.md:75 says "Max concurrent WS connections per user".

Remarks, without runs of their own:

- The limits per minute (README.md:72-74, `API_RATE_LIMIT_PER_MINUTE` and its
  like) are sizes of buckets that are full at first and refill while they are
  used (`main.go:41`): read as at most so many calls in any minute, the names
  promise more than the code does. What holds is `LessThanTwiceTheLimit`: at
  most twice the limit less one.
- As many calls of FindMatches and ListTrades in flight as the pool has
  connections bring every call to a standstill (`trade_service.go:44,218`) until
  a client hangs up or the process ends; nothing limits them. `pool` contains
  it, and shows that there is no other (`OnlyNestingStalls`, `CallsReturn`).
- `logout` does not reset `state.stats` and renders it again
  (`app.js:145-158,172`): the statistics of the user who signed out stay in the
  hidden part of the page until the next user's first load has landed, which is
  also what shows that part (`WhatIsShownFits`).
- A login whose first load fails leaves the user signed in behind the login
  form (`app.js:115`); answers that were in flight at a logout bring tokens or
  lists back (`app.js:98,171`); somebody who signs in within the two seconds of
  a reconnect gets two sockets that replace each other for ever
  (`app.js:277,291`). The properties of `WebClient` name these exceptions.

## 5. Proofs

`TradesProofs`, for any sets of users, stickers and calls and any `Caller`:

- `TypeCorrect`: `Spec => []TypeOK`. Inductive with two facts about the calls in
  flight (`CallsInv`): each has a job that fits its program counter, and the
  keys it drew from the sequences are not yet used and not shared.
- `LatestAnswer`: `Spec => []StatusIsLatestAnswer`. The strengthening
  (`AnswersInv`) says that a call between its UPDATE and its commit is alone in
  that state for its trade and holds a notification id above those of all
  committed answers to it, and that notifications of answers name trades that
  exist.
- `Implements` and `AnswerFinal`, assuming `OneCallPerUser`: the service
  implements `TradeLedger`. The invariant is that a call which is about to
  answer a trade finds it still pending (`StillPending`): nobody but its
  responder answers it, and the responder has no other call. The assumption is
  necessary, as `trades_final` shows.
- `NoFalseEvents`: `Spec => []EventsAreCommitted`. The calls that have committed
  a proposal and not yet told of it, together with the events of proposals, are
  no more than the committed notifications of requests; and a call that is to
  tell of an answer names a committed row with its notification
  (`AnnouncedIsCommitted`). Rows are never taken back (`RowsStay`).
- `PayloadsRecent`: `Spec => []PayloadsAreRecent`, without assumptions. A trade's
  status is the one of its latest answer (`LatestAnswer`), so a call that reads
  its trade again finds its own answer or a later one (`ReloadShows`), and what
  was read stays a committed answer (`ShowsStays`).
- `OffersSpare`: `Spec => []OffersWereSpare`. While a proposal is validated,
  what is no longer to be looked at was spare once (`SpareInv`).
- `RequestsNotified`: `Spec => []RequestsAreNotified`. Only the commit of a
  proposal changes either set, and it adds one member to both; the sets are
  finite, because ids come from sequences.

`HubProofs`, for any users, connections, publishers, limits and buffer sizes:
`TypeCorrect`, `SlotsAccounted`, `NobodyIsDeaf`, `NothingIsLost`. The invariant
adds what the goroutines owe to the order of their statements (`Tidy`: pumps do
not run before the handler is through, a message is held only while it is
written, an idle publisher has no recipients left) and states `NoSilentLoss`
part by part of the stream (`NoLoss`), so that an event is followed from the
publisher's copy to the buffer, to WritePump and to the browser. The set of
clients is finite, or counting it would mean nothing. `InOrderOnly`
(`OwnEventsInOrder`) needs a second invariant, `Ordered`: what a client was
given is one stream in order, received, being written and buffered
(`StreamOK`), and the event that a publisher is about to offer comes after all
of it (`MayFollow`).

`SessionsProofs`, for any users, calls and clock readings, without assumptions:
`TypeCorrect`, `Rotates`, `LogoutFinal`, `NoSilentEnd`, `UniqueReplies`. The
invariant says what a job holds at each program counter, that the row of a
token in the hands of a call belongs to that call's session (uniqueness comes
from the primary key, not from the clock), that the usable tokens of a session
which no two calls refreshed at a time are at most one together with what its
refresh is about to store, and that an ended session has no refresh in flight
that could store one.

`ServerProofs`, for any pool and calls, without further assumptions:
`OnlyNestingCallsStall` (`OnlyNestingStalls`). The invariant bounds the open
connections by `MaxOpen` and says that only nesting calls ask for a second one.
At a standstill no second connection is held, so the first ones are exactly
`MaxOpen`, and each is held by a call that asks for a second.

`MigrationsProofs`, for any replicas, images and numbers of failures:
`TypeCorrect`, `ScriptsRunOnce`, `ScriptsInOrder`, `ServersAreMigrated`. The
invariant adds that a loop has passed only recorded files, and that at most one open
transaction has inserted a file's row, which is not recorded yet.

`RateLimiterProofs`, for any limit and keys, assuming
`EvictAfter >= Burst * Interval` (the code: ten minutes against one): the
limiter implements `RateLimit`, because an entry idle for that long is full, as
is the one that replaces it (`SeenIsFaithful`). `NeverTwice` and
`ServedUnderTheLimit` follow from `Accounts`, which relates the times at which a
key was served in the last minute to what its limiter has left: from any of them
on, what was taken and what is left come out of a full bucket and of what was
gained since; and what was gained since has not been lost. It holds for the
allowance, not for the entry, so that dropping an entry leaves it as it was.

`CollectionsProofs`, for any catalogue, users, calls, inputs and first
collections (the catalogue finite, public users being users): `TypeCorrect`,
`ViewsAgree`, `TruthTold`, `LastIsCurrent`, `MatchesAreRight`.

- What the loop of `CalculateCollectionStats` computes (`StatsAreTrue`) is a
  statement about a fold, whatever element `CHOOSE` takes first. It is proved
  without the library's induction theorems: the sets on which the fold and the
  statistics differ would have a smallest one (`SameFold`), and one more sticker
  changes both alike (`CountsOneMore`). A sum of counts is the number of copies
  (`SumIsCopies`), so that everything the loop adds up is a cardinality.
- Events: a call between its commit and its events (`Telling`) carries the
  version its commit made, the count of that version, and statistics of a
  version not older; no other call of the user has that version (`Apart`); and
  what is published is true and in sequence (`Told`). All of it survives the
  commits of others because the past is only added to (`PastGrows`). That the
  last statistics are current needs that an update which is alone has no other
  beside it from its beginning to its last event.
- Matches: each list that a call has read is fair (`Fair`): what is in it was so
  once since the call began, and what was so all the time is in it. A query makes
  a fair list, because it sees the present counts (`QueryIsFair`), and a commit
  leaves it fair (`StillFair`). Partners with two empty lists leave no match, so
  the invariant (`MatchFits`) keeps their lists as existing, not as stored.

`WebClientProofs`, for any users, parts of a load, slots, token pairs and
changes: `TypeCorrect`, `ShownFits`, `SignedOut`, `LoadsNotLost`,
`OneSocketOrTimer`. The proof does without `Orderly`, the constraint of the run:
any number of requests may be unanswered, and behaviours go on after a sign-in
that left work behind. The invariant, `Safe`, has one part for each promise and
what they need of each other: requests wait only for a refresh that is in flight
(`Awaited`); unless there are leftovers, whatever is in flight or shown is of the user
who is signed in (`Own`); without an excuse the tab holds a refresh token that is
live, or a refresh that brings one (`Holds`); sockets, those that are closing and
reconnects to come add up to one (`OneSocket`); and the page is current, or a
load that has not failed is under way which started late enough (`Current`). The
proof of `Holds` brought up a cause that the property had not named: a refresh
of an earlier sign-in that fails late signs the next user out (`app.js:89`), so
`RefreshFailed` counts as an excuse when there are leftovers.

Only model-checked is what is out of the prover's reach: liveness under fairness
(`CallsFinish`, `SlotsComeBack`, `QuittersAreClosed`, `PublishingReturns`,
`AllComeUp`, `CallsReturn`, `ShutdownEnds`). The two runs that expect a violation
have no theorem, for what they check is false; what is left of it is proved:
`AnswerFinal` under `OneCallPerUser`, `PayloadsRecent`, `SlotsAccounted`,
`NeverTwice`.

## 6. What is not modelled

- What the listings of trades, notifications and users say, and another user's collection
  (`GetUserCollection`): one query each, after a test of `is_public`, which no
  endpoint changes.
- Of the web client: rendering, and the notification badge, a number that
  `publishUnreadCount` sends and every load replaces; counts of overlapping
  calls may arrive in any order (`trade_service.go:366`), and marking a
  notification as read sends none. Other tabs, which share the local storage but
  read it only when they are loaded, appear as changes from elsewhere.
- WebSocket connections during a shutdown: they are hijacked, so Shutdown does
  not wait for them, and they end with the process.
- Passwords, the JWT library, input checks, JSON, configuration, logging,
  CORS, the sticker catalogue, user listing, health checks, markup, images and
  chart: no state of their own, or none that a property is about.
- Several backend replicas share the database (every module about tables allows
  for that) but not the hub or the limiters; README.md lists the former as a
  known limitation.

## 7. Plan

Done: trades and their ledger, hub, sessions, collections, rate limiting,
migrations, web client, process and pool. Next, in this order:

1. `WebClient` composed with `Sessions`: two tabs that share the local storage.
