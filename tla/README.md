# Navo: specifications of the platform

TLA+ models of the Navo maritime platform, of its services and of its web
applications, with TLC runs and TLAPS proofs. `PROJECT.json` lists the runs, the
source lines each definition stands for, the hazards, the findings and the
theorems.

Run, in this directory:

    tlc -workers 2 -config rfq_concurrent.cfg MCRfqService
    tlapm RfqServiceProofs.tla

The repository is read as it is. Parts of it do not build or fit together yet
(`services/core/cmd/main.go` names constructors that do not exist; the operator app
calls endpoints that no service has); the models follow the code that is there.

## 1. Inventory

Go services talk to PostgreSQL and Redis, and to browsers through the gateway.

| Part | State | Operations | Talks to |
|---|---|---|---|
| RFQs and quotes (`services/core/internal/service/rfq.go`, `repository/rfq.go`) | tables `rfqs`, `quotes` | create, update, publish, close, cancel, submit, award, withdraw, expiry sweep | PostgreSQL, each statement on its own; audit log |
| Service orders (`serviceorder.go`) | table `service_orders` | create, update, confirm, assign vendor, start, complete, cancel, delete | PostgreSQL inside the request's transaction; Redis cache |
| Port calls (`portcall.go`) | table `port_calls`, timeline | create with a reference number, update, change status, berth, agent, delete | same |
| Request transactions (`middleware/rls.go`, `repository/db.go`) | one transaction per request | begin, set tenant, commit on status 200-399, else roll back | all repositories that use `GetDB` |
| Vendors and invitations (`vendor.go`) | `vendors`, `vendor_invitations`, operator lists | create, invite, accept, cancel, verify, certify, suspend | PostgreSQL, each statement on its own |
| Realtime hub (`services/realtime`) | clients, three indexes, channel subscriptions, a Send channel per client | register, unregister, broadcast, heartbeat, cleanup, shutdown, subscribe, publish, disconnect | Redis pub/sub; WebSockets |
| Notifications (`services/notification`) | a JSON value per notification, a sorted set per user, the sorted set of pending ones | send, schedule, mark, mark all, delete; the worker every 30 s | Redis, SMTP |
| Webhooks (`services/integration`) | `webhooks`, `webhook_deliveries` | dispatch, deliver with retries, update, regenerate secret, delete | customers' servers |
| Weather, exchange rates (`services/integration`) | caches in memory | look up | public APIs |
| Sessions (`services/auth`) | users, sessions, login attempts, reset tokens | login, refresh, logout, reset, change password | PostgreSQL |
| Job scheduler (`services/worker`) | a map of jobs with their Running flag, a semaphore | register, tick, run, run now, stop | PostgreSQL, SMTP |
| Vessel positions (`services/vessel`) | positions table, updater state | start, stop, update cycle, record | AIS providers, Redis |
| Gateway, analytics | none | check token and proxy; aggregate queries | the services |
| Packages (`pkg/audit`, `pkg/features`, `pkg/realtime`, ...) | a buffered audit log; a flag cache | log, close; load, set, invalidate | PostgreSQL, Redis |
| Sessions in the browser (`apps/key/src/lib/auth.ts`, `stores/authStore.ts`, `middleware.ts`, the login page) | localStorage and a cookie, shared by the tabs; a store in each tab | login, logout, refreshUser, checkAuth, the route guard | auth service |
| Realtime client (`apps/key/src/hooks/useRealtime.ts`) | a WebSocket, its timer, wanted subscriptions | connect, disconnect, subscribe, events of the socket | realtime service; query cache |
| Query cache (`apps/key/src/hooks/use-*.ts`, `lib/api.ts`, three components) | what each screen has loaded | queries, mutations, invalidation by mutations and events | core and vessel services |
| Pages (`apps/key`, `apps/vendor`, `apps/portal`, `apps/www`) | React state of a page while it is shown | load, enter, submit, open a dialog, leave, search, filter | mostly timers in the place of requests |
| Seed scripts and schema (`packages/db`) | the database | clear and create; upsert | PostgreSQL |
| Other packages (`packages/ui`, `shared`, `theme`) | none | declarations and styled components | |

What is hard in them, in one line each:

* RFQs: every operation reads, checks and then updates by id alone; the
  repository uses the pool instead of the request's transaction, so nothing
  keeps the statements of two requests apart and nothing rolls back. Correct
  means that an award is sound and total, and a quoted RFQ does not go back.
* Service orders and port calls: the same pattern inside READ COMMITTED
  transactions, where in addition the answer goes out before the COMMIT and
  caches are emptied before it. Correct means that statuses follow their table
  and that no confirmed order lacks a vendor and a price.
* Vendors: an acceptance is four statements, of which the last may fail
  silently. Correct means one vendor per invitation.
* Realtime: one hub goroutine, two goroutines per connection, and goroutines for
  slow clients share tables and channels. Correct means no panic, no leak, no
  event outside its scope, and no connection that stays for ever.
* Notifications: a save is three Redis commands, the worker works on copies, and
  it can die between sending and saving. Correct means that what is scheduled is
  sent, once, and not before its time.
* Webhooks: deliveries outlive the row they were read from. Correct means that a
  change made meanwhile survives.
* Scheduler: the flag that keeps a job from running twice is read and written
  apart. Correct means one run of a job at a time and a Stop that returns.
* Sessions: counts are written behind the answer, a refresh is delete and insert.
* Sessions in the browser: tabs share tokens that are replaced when they are
  refreshed, every operation awaits, and nothing cancels anything. Correct means
  that overlapping calls never lock the browser out nor leave it loading.
* Realtime client: close events and timers come late, when the hook has another
  socket or user. Correct means that the socket in use has what is subscribed,
  that `isConnected` is never FALSE of an open socket in use nor TRUE when every socket
  has ended, and that attempts are bounded.
* Query cache: the keys of queries and of invalidations stand in different files,
  an invalidation may meet a fetch that read before it, and core answers before it
  commits. Correct means that who saves sees what was saved.
* Pages: a form lists its fields five times over, an await outlives the page that
  began it, and a status decides under which tab a record is found. Correct means
  that nothing is saved that was not loaded or entered, that a page gets free
  again, and that no record disappears.
* Seeds: no transaction, no foreign key on ids kept in arrays and JSON. Correct
  means that a script can be run again after dying anywhere.

## 2. Modules

| Module | What it is |
|---|---|
| `RfqService` | RFQs and quotes, one action per SQL statement |
| `RfqLifecycle` | what the RFQ API promises: every operation one step |
| `RfqSerial` | the refinement mapping from the first to the second |
| `RfqServiceProofs` | theorems about `RfqService`, and the refinement proved |
| `RealtimeHub` | hub goroutine, connections, subscriptions |
| `RealtimeHubProofs` | theorems about `RealtimeHub` |
| `NotificationQueue` | notifications in Redis, requests and worker, one action per command |
| `NotificationQueueProofs` | theorems about `NotificationQueue` |
| `SessionClient` | tokens, stores and calls of several tabs, and the sessions of the auth service |
| `SessionClientProofs` | theorems about `SessionClient` |
| `RealtimeClient` | `useRealtime`: sockets, timers, subscriptions |
| `RealtimeClientProofs` | theorems about `RealtimeClient` |
| `QueryCache` | the queries, mutations and events of the operator app over one entry of the cache |
| `QueryCacheProofs` | theorems about `QueryCache` |
| `SeedDatabase` | both seed scripts, statement by statement, over the keys of the schema |
| `SeedDatabaseProofs` | theorems about `SeedDatabase` |
| `Pages` | what each page declares: fields, inputs, acts, statuses, filters, groups |
| `WebPages` | what the pages do |
| `WebPagesProofs` | theorems about `WebPages` |
| `MC*` | instances for TLC: symmetry, and constants that are functions |

### RfqService

`rfqs` and `quotes` are the tables; `req[r]` is a handler invocation with the
statement it runs next (`pc`) and the local variables that outlive a statement.
An action `...Read` is a SELECT with the checks up to the next statement; the
guard is the conjunction of the early returns. `...Write` is an UPDATE or INSERT.
`AwardRead`, `AwardAccept`, `AwardList`, `AwardReject` (once per quote) and
`AwardFinish` are AwardQuote. A request that fails a check changes nothing and is
not a step of its own. `Fail` ends a request between two statements: a statement
returned an error, the client's context was cancelled, or the process died.
`DeadlinePasses` is the clock, seen only through `deadline.Before(now)`.
`Create` is a single INSERT. Deadlines may be edited into the past, as `Update`
does not compare them with the clock. `CheckExpiredRFQs` has no caller in the
repository; it is modelled because it is exported and documented.

### RfqLifecycle and RfqSerial

`RfqLifecycle` is what a user of the API sees when operations happen at once.
`RfqSerial` maps the tables of `RfqService` to it: an award that has accepted its
quote counts as carried out. The refinement is checked, and proved, for one request
at a time without failures. With two requests it does not hold, and cannot: that
is what `rfq_two_winners` shows.

### RealtimeHub

`hub` is the state of the goroutine of `Run`: running, stuck in its own
`Unregister`, or stopped. `clients`, `index` and `channels` are the maps of
`Hub`, `subs` the set kept in each client, `queue` and `closed` the Send
channels. `reader` and `writer` say where the pumps of a connection are, `wire`
which connections are open, `welcoming` where the welcome message is still to be
sent, `kicks` how many goroutines of slow sends wait to unregister a client,
`disconnecting` the clients that DisconnectUser has still to unregister. `crash`
is "hub" or "reply" when a goroutine without recover has sent on a closed
channel. An action is what a goroutine does under the hub's lock, or one receive
of `Run`; a registration is two, since `ServeWS` starts the pumps once the hub has received the
client (`admitting`), which may subscribe before `registerClient` enters it. The panic of the welcome message is recovered by net/http and so is no
crash. Which events exist, whom they address and who the clients are is given by
the constants `Route` and `Profile`; a profile is what the query parameters of the connection
say (`websocket.go:50-63`), and nothing ties its workspace to its organization.

### NotificationQueue

`store`, `listed` and `pending` are the three kinds of keys; `due` are the ids whose
scheduled time lies in a second that has begun: the scores of the pending set and the
worker's bound are Unix seconds, while `Send` compares the times as they are, so a
request may schedule (`soon`) what the worker finds at once. `actor[a]` is what a request or a worker is doing: the ids it has
still to fetch, the copies it has fetched (`batch`) and the copy it is saving. `SaveSet`, `SaveList` and `SavePend` are the commands
of `Save`. `sends` counts successful deliveries, for the properties, and `retries` of
a copy its failed ones, as in the code. In-app and
push notifications are "delivered" by setting a status, as in the code; types
sms and slack always fail. `SaveFails` is an error of a command, after which the
rest of the Save is skipped; `Die` is the end of a process or of a request's context.

### SessionClient

`storage` is localStorage (two tokens and what zustand's persist saved), `cookie`
the access token the guard reads, `store[t]` the memory of a tab. `call[t][o]` is
the call of operation o that is under way in tab t, with the token it carries
(`with`) and the pair the service issued (`got`); its phase says where it awaits.
`Login`, `Logout`, `RefreshUser` and `CheckAuth` are the operations up to their first
await, `Serve...` what the auth service does (a refresh reads the session, and
deletes and inserts in a second step), `Answer...` what follows the await. `Visit`
is the guard of middleware.ts. `answers` is how a deployment wraps its answers: the
client reads `response.data`, the auth service of this repository answers bare.
`Expire` is the clock; access tokens last equally long and so expire in order, and
so do, later, refresh tokens and the rows of their sessions (`EndSessions`).
`Lose` is a failed fetch, `Reload` a tab loaded again, the row of a
session may fail to be written, as the service ignores that error, and a refresh may
find the account not active, which deletes the row and answers 401. `lost` keeps the
refresh tokens that these faults make useless. Which
operations something calls in which tab is the constant `Callers`, because nothing in
`apps/key` calls any but `login` yet. The user is a Boolean: known or not. Sessions that
the service deletes elsewhere (sign-out of all devices, a reset of the password) are not
modelled: `StoredRefreshWorks` is about what the browser and the refresh do.

### RealtimeClient

`wsRef`, `timeoutRef`, `attempts`, `isConnected` and `wanted` are the refs and state of
the hook; `socket[s]` is a readyState, `as[s]` the user the handlers of s closed over,
`told[s]` the channels the service will hold for s once it has read all that was
sent to it. A timer is named by the socket whose close event set it. `Mount`,
`Unmount` and `UserChanges` are React; `Call...`, `Subscribe` and `Unsubscribe` what
the hook returns; `Opened`, `CloseEvent` and `TimerFires` the callbacks, of any socket,
whether the hook still uses it or not. `ServiceCloses` is the closing handshake the
service begins (its pump sends a CloseMessage): the socket is no longer open before its
close event has run. The handling of messages is in QueryCache
(`Events`). A connection that stays but delivers nothing is not modelled: the
hook has no heartbeat that would notice.

### QueryCache

`Queries` and `Mutations` are tables: for each `useQuery` its key and the tables its
endpoint reads, for each `useMutation` the tables it writes and the keys its
onSuccess invalidates, the components that do without the hooks included; `Events`
is `invalidateQueriesForEvent`. Keys are compared by prefix, as the library does.
@tanstack/react-query is external: an entry is loaded or not, stale or not,
mounted or not, with at most one fetch, which an invalidation replaces unless it
is the first. A request of port calls or orders runs in the transaction of `rls.go`:
`Mutate` is the handler, which writes the answer, `Commit` and `CommitFails` what the
middleware does after that, in either order with `Handle`, where the browser gets the
answer (net/http keeps a short answer back until the handler chain has returned, a long
one it does not). Requests of RFQs and vessels are committed statement by statement
before they are answered. Entries are independent, so a behaviour follows one, any of them,
with `Calls` mutations and events that touch it. Arguments of lists (filters, page
numbers) stand for one list. Optimistic updates do not exist in the code. Port calls are
read with their vessels; the names of ports, service types and vendors, which come with
other answers, are left out, as no screen of these changes them and no event is about
them. `current_position`, which the types of a vessel have, is filled by no repository of
the vessel service, so that the endpoints of vessels read no positions.

### SeedDatabase

A script is a sequence of batches; the statements of a batch (`Promise.all`) run in
any order, everything else one by one. A row has the references the
database enforces (`refs`) and the ids no key guards (`weak`). `Execute`, `Refuse` and
`Die` are the ends a statement or script can have; `AppAdds` and `AppAwards` are the
application at work beside it. A row that it adds holds the ids without a foreign key that
its columns allow (`AppWeak`: an entry of a vendor list or an invitation has the operator's
organization, the user who made it and service types), all of those there are, which stands
for any part of them; an award writes the id of the quote into its RFQ. `Dangling` names
the pairs of tables whose ids outlive what they name, and `WeakRefsHold` is about all the
others. `service_orders.rfq_id` is written by no code of the repository
(`core/internal/repository/serviceorder.go:35`), and is left out. Rows are named by their natural key and by the attempt that made
them, so that a row created twice is two rows. Columns that are no reference
are left out, and of ten service types created alike the five that are
referred to are kept.

### Pages and WebPages

`Pages` describes 38 pages: 22 forms and pages with an act, 6 that show a record, 10
lists. Each is a record of sets: the fields of its state, of the record in the
database, of its effect, its inputs with what the browser or the schema asks of
them, its acts (what a button awaits, whether it is disabled meanwhile, whether
it sits in a dialog, whether it may fail), statuses, filter options, and groups or
badges. `WebPages` gives them one behaviour: `Open` mounts the page with the
values of useState, `Loads`/`LoadFails` end its effect, `Change`, `Toggle`, `Hide` and
`Again` are the user, `Start` a handler up to its await, `Land` the rest of it, also when
the page has been left (`TooLate`, or a push that takes the tab along whatever it
shows) or opened again. A behaviour follows one page, one field and one record's
status. Where a page declares a type that its data do not have (the rfqs page
lists `sent` and `quotes_received`) the statuses are those it declares.

## 3. Runs

| Run | Instance | Shows |
|---|---|---|
| `rfq_concurrent` | 2 requests, 2 RFQs, 3 quotes, 1 vendor, failures | the invariants of RFQs and quotes under every interleaving and failure; no stale write takes back what was published or decided |
| `rfq_serial` | 1 request, 1 RFQ, 3 quotes, 3 vendors, no failures, fair | implements `RfqLifecycle`; awards are carried out |
| `rfq_two_winners` | 2 requests, 1 RFQ, 2 quotes | violation: two accepted quotes |
| `hub_concurrent` | 2 connections of 2 organizations, one in a workspace, events for a user, an organization and a workspace's entity, Send buffer 1, broadcast buffer 1 | no panic of the hub, no leak, no event out of scope |
| `hub_fair` | 1 connection, buffers 2, clock steps, fair | connections that end are unregistered |
| `notify_concurrent` | 2 notifications, 1 worker, 2 requests, 1 fault | sent once up to faults, nothing queued is forgotten, nothing before the second it is scheduled in |
| `notify_fair` | 1 notification, 1 worker, 2 requests, 1 fault, fair | what is pending is handled, also after a crash |
| `session_tabs` | 2 tabs, 2 calls at once, 3 pairs of tokens, 1 fault, both forms of answers, fair | refresh tokens work until they expire, loading ends, a bare service admits nobody |
| `realtime_client` | 4 sockets and timers, 1 user, 2 channels, 2 attempts, 3 changes, fair | the used socket is subscribed, isConnected agrees with it, attempts are bounded, the hook keeps trying |
| `query_cache` | 1 record, 2 mutations or events, 1 growing stale, 1 failed request or commit, fair | own writes, events and polled positions are shown |
| `seeds` | 2 attempts, 1 row of the application in any of 6 tables | scripts are refused nothing, leave their rows once; unguarded ids name rows, but for those of `Dangling` |
| `web_pages` | every page, field and status; 3 visits, fair | busy agrees, saved is shown, listed once, pages come to rest |

Why the bounds are enough to be of interest. Two overlapping requests are what the
races of the RFQ service need, since each statement touches one row; three
quotes give an award more than one quote to reject and leave one for the other
award; a second RFQ is there so that a quote could be awarded to the wrong one.
One vendor is enough there because the check for a second quote is what
overlaps break, and no invariant of that run rests on it. A Send buffer of one
makes slow clients common instead of rare (the code has 256). Two notifications
make the lists of the worker and of mark-all longer than one; one fault is
enough to separate a delivery from its Save, and `SentOnce` counts faults so
that the run shows what each costs.

Two calls at once, in two tabs or one, are what the browser's races need: two
refreshes of one token, a refresh and a sign-in, a sign-out and a refresh. Three
pairs are a sign-in and two refreshes, after each other or in both tabs, or two sign-ins
with a refresh beside the second; when they are used up the service issues no pair any
more, which `LoadingEnds` excepts. One tab signs in, and follows links; which of them it
is makes no difference, as what they share is the browser's. Four sockets
let three closing ones or their timers be about when a new one is opened; with two
attempts a chain of reconnections can end. Any two mutations or events of one entry
are tried, on each of the 20 queries; a third could only
meet the same states of the entry. Two attempts of the scripts cover
each script after each, complete or not; one row of the application is what the
next script would stumble over. Three visits let an answer to the first come in
the second or third, and flights of two earlier visits overlap.

The bounds in guards are `MaxKicks` (goroutines per client that wait to unregister
it; further ones would find the client gone), `BroadcastCap`, `SendCap`, `MaxFaults`, `MaxCalls`, `MaxPairs`,
`MaxChanges`, `MaxStale`, `MaxAttempts`, `MaxAppRows` and `MaxVisits`; the ids in `Quotes`,
`Rfqs`, `Notes` and `Sockets` bound how many rows a run creates and how many sockets
and timers are about. `due` only grows: a notification is scheduled once.

All runs have CHECK_DEADLOCK FALSE: when every id is used and every request has
been answered, or the pages have been left for the last time, the system is at
rest, and a hub that is stuck or a process that has ended makes no step.

### Fairness

* `RfqService`: weak fairness of `Advance(r)`. Go runs the goroutine of a handler,
  and statements return (an error is a step too). Nothing is assumed about which
  requests come.
* `RealtimeHub`: weak fairness of the hub's receive from `unregister` (the select in
  `Run` picks among ready cases at random), of a reply, of the read pump's end
  once its connection is closed (a read then fails), and of the cleanup ticker.
* `NotificationQueue`: time passes (`ComeDue`), the worker's ticker keeps ticking and
  its cycle goes on (`Work`), requests are carried on (`Continue`).
* `SessionClient`: each call goes on (`Progress`): the service answers or fetch rejects,
  and the continuation of a settled promise runs. Nobody has to call anything.
* `RealtimeClient`: a handshake succeeds or fails, a closing socket gets its event, a
  timer fires. A socket that is open need not close.
* `QueryCache`: a request is answered (a failure ends it, too), the minute of
  refetchInterval passes.
* `WebPages`: the effect's request ends (`Loads`, `LoadFails`), and so does what a
  visit awaits (`LandIn`): timers run out, requests are answered or fail.
* `SeedDatabase`: none, as it has no liveness property.

## 4. Proofs

Each theorem holds for every value of the constants that the assumption named in
the module allows. A module states its inductive invariant, of which TLC checked
the instances of the runs first, and shows that every action keeps it.

`RfqServiceProofs` proves, for any sets of requests, RFQs, quotes and vendors and
with or without failures:

* `TypeCorrect`: `Spec => []TypeOK`
* `SomeQuoteWins`: `Spec => []RejectionLeavesAWinner`
* `AwardsAreSound`: `Spec => []AwardIntegrity`
* `NoStepTakesBack`: `Spec => NothingTakenBack`
* `NoQuoteOnADraft`: `Spec => []QuotedRfqIsPublished`, a part of the invariant

They follow from `Invariance`, `Spec => []IInv`. The only assumption is
`RfqAssumption`: NULL is no id.

The properties are not inductive, because a step depends on what a request read
earlier. `IInv` adds:

* `Coherent`: what a request holds agrees with the tables until it writes: the
  ids its next statement needs are there, the quote it decides on and those it
  is about to reject belong to its RFQ, the quote it accepted is still decided
  on, the RFQ it submits to is published; and no two requests hold the same id
  for a quote to insert;
* `WinnerKept`: call an RFQ contested when one of its quotes has been rejected, or
  when an award of it has accepted its quote and goes on to reject others. Then
  some quote of it is undisputed: accepted, or withdrawn by its vendor, and on no
  list of quotes to reject. A list is read after the award has accepted
  its own quote and takes only submitted quotes, so that an undisputed
  quote never gets onto one. Hence the undisputed quotes only grow, and an RFQ becomes
  contested only by an award that adds one. The property alone says nothing about
  the lists of the awards in flight, which decide what is rejected next.

One lemma per variable (`RequestMoves`, `QuoteMoves`, `RfqMoves`) states what any
step can do to it; the invariants are shown against these lemmas rather than
against the twenty actions one by one.

`NothingTakenBack` is about steps: none returns an RFQ to its draft or clears the quote it was
awarded to, moves a quote to another RFQ or vendor, or makes it undecided again, and a quote
that is undisputed stays so. Each update goes by an id read earlier and checks nothing, so that the steps owe
this to `Coherent`, not to their guards: `UndisputedStay`, `QuotesStay` and `RfqsStay` are what
`IInv` needed already, `RfqsLast` and `VendorsLast` are added. It does not say that a decision
stands: a stale `WithdrawWrite` makes an accepted quote a withdrawn one, a stale `AwardAccept` the
reverse, an overlapping award may reject a quote that was accepted after it was listed or accept one
that is rejected, and the status of an awarded RFQ may be overwritten.

The last part of the module proves the refinement for any RFQs, quotes and vendors, under the
hypothesis `Serial`: no statement fails, and there is one request (or none) at a
time, which may be followed by any number of others.

* `SerialImplements`: `Spec => ImplementsLifecycle`
* `SerialAwardsSettle`: `Spec => []AwardSettles`
* `SerialQuotesInvited`: `Spec => []QuotesAreInvited`

The hypothesis is the one that `rfq_two_winners` shows to be necessary. `SerialInv`
adds to `IInv` that what a request has checked still holds when it writes (`Ready`):
an RFQ to be updated is a draft, one that is being awarded is open or closed, the
quotes on the list of an award are those still to be rejected. `Mapped` spells the
refinement mapping out row by row, the award in progress as if it were done. Then
every action is a step of the life cycle (`AwardAccept` is the award, `SubmitInsert`
the submission) or a stutter (reads, and the rest of the award).
That `RfqLifecycle` itself keeps its promises is `LifeInv`: quotes belong to RFQs that
have left their draft, whose invitations no longer change.

`RealtimeHubProofs` proves, for any clients, events, channels and capacities
(`HubAssumption`: capacities are positive, the message that is no event is none; nothing about profiles):

* `HubTypeCorrect`: `Spec => []TypeOK`, with it that no queue exceeds its capacity
* `HubGoroutineNeverPanics`: `Spec => []HubNeverPanics`
* `SubscriptionsAlwaysMatch`: `Spec => []SubscriptionsMatch`
* `ScopesHold`: `Spec => []EventsStayInScope`

`HubInv` adds `Tracked`: no registered client has a closed Send channel, a connection
that the hub has not received, or has still to enter, is neither, and while the hub runs every connection that
was registered is in `clients` or closed, and the indexes hold none but `clients`. This
makes an unregistration by whoever comes second do nothing, and lets a
broadcast find open channels only.

`NotificationQueueProofs` proves, for any notifications, requests, workers and faults
(`QueueAssumption`: the kinds are those of the code, None is no id):

* `QueueTypeCorrect`: `Spec => []TypeOK`
* `QueuedAlwaysPending`: `Spec => []QueuedIsPending`
* `NeverSentEarly`: `Spec => []NeverEarly`
* `ReplicasSendOnceEach`: `Spec => []SentOncePerReplica`, with a finite number of workers, not none
* `SentOnceByOneWorker`: `Spec => []SentOnce`, with at most one worker

`QueueInv` says what an actor holds at each command. The second theorem adds that only a
request that has just made a notification saves it as queued, when nobody else knows
of it (`Announced`), and that a Save which goes on to ZREM has not been followed by one that
made the notification queued (`Overtaken`). The third adds that what a worker holds is due, in
the second of its scheduled time or later, and that whatever was handed over before is no scheduled notification (`OnTime`). The last two
are about how often a notification is attempted. Replicas of the worker each fetch the same
pending ids and deliver them all; what `ReplicasSendOnceEach` says is that they do no worse: no
more attempts than there are replicas, and one more for each fault. `Counted` keeps two
accounts. The attempts are at most the faults and the workers that no longer hold the
notification (`Rest`), since each attempt takes it out of what a worker holds; and as long as it
is pending, at most the faults and the workers that have attempted it and are saving the outcome
(`Spent`), since the Save takes it out of the pending set. The second account is what the first
needs when a worker fetches the pending ids again. TLC finds the bound reached with two workers,
so it cannot be lowered. `SentOnceByOneWorker` is the case of one replica, or of none, where a
request still delivers what is due at once.

`SessionClientProofs` proves, for any number of tabs, routes, calls, pairs and faults
(`SessionAssumption`: the bounds are numbers, "/" and "/login" are routes, each tab calls
some of the operations):

* `TypeCorrect`: `Spec => []TypeOK`
* `BareAdmitsNobody`: `Spec => []BareServiceAdmitsNobody`
* `RefreshTokenWorks`: `Spec => []StoredRefreshWorks`

The second follows from `NothingKept`, which adds that against a bare service
neither the refresh token nor the cookie is ever kept. The third needs `RefreshInv`: every token
anywhere has been issued (`TokensIssued`), and a pair that a call holds but has not
stored is fresh (`PairsFresh`): held by that call alone, not in localStorage, not
carried by another refresh, and alive in `sessions` or lost. A refresh deletes the
token it carries, whose replacement then either is on the way or is lost (for an account
that is not active there is none, and the token counts as lost itself); nobody
can have replaced the token meanwhile without storing a newer one. `IssueStep`,
`StoreStep` and `QuietStep` say this once for the steps that issue, that store, and
that do neither.

`RealtimeClientProofs` proves, for any sockets, users, channels and bounds
(`RealtimeAssumption`: None is no user and no socket):

* `ClientTypeCorrect`: `Spec => []TypeOK`
* `ClientSubscribed`: `Spec => []UsedSocketSubscribed`
* `ClientConnectedAgrees`: `Spec => []ConnectedAgrees`
* `RetriesAreBounded`: `Spec => []RetriesBounded`

The first three follow from `SocketInv`, their conjunction, which is inductive: connect() is
called only when the socket in use is not open, so that the new one is connecting and
told nothing, and each close event, of whichever socket, gives up the one in use.
The last needs `Counts`: the sockets that are not closed or whose timer is about are at
most as many as the changes of the component, and the attempts made and the timers about
together are at most the maximum plus the changes; a timer that fires passes its place on
to a new socket, and that to its own timer.

`QueryCacheProofs` proves, for any records, calls, failures and times of growing stale:

* `CacheTypeCorrect`: `Spec => []TypeOK`
* `HooksShowOwnWrites`: `Spec => []OwnWritesShown`
* `DeliveredEventsShown`: `Spec => []EventsShown`

There are two halves. One is about the tables of the code: `HooksFit` and `EventsFit` go
through the four files of hooks and the events and show that whatever a query shows
of a mutation's or an event's record is invalidated by it, but for the exceptions `LeftOut`
and `EventsLeaveOut` name. The other is about the entry: `Fresh` says, of a call that has been
handled and has invalidated the entry, that its data have what the call wrote unless the
entry is stale, being asked for again from a time after the call, or in error. It says so of
a call that is not committed yet, too, of which no data can show anything: thus no read has
come between, and the commit itself disturbs nothing. A read that does come between takes
the call out (`early`) until the next one.

`WebPagesProofs` proves, for any number of visits (`MaxVisits`):

* `PagesTypeCorrect`: `Spec => []TypeOK`
* `BusyPagesAgree`: `Spec => []BusyAgrees`
* `PagesSaveWhatIsShown`: `Spec => []SavedIsShown`
* `RecordsAreListedOnce`: `Spec => []ListedOnce`

Again one half is about what is declared: `PagesWellMade` shows page by page that the
fields fit (`Fielded`), a button that awaits is disabled meanwhile (`Guarded`), a page that edits a
record fills each field, has an input for it and never clears it (`Recorded`), and
groups or badges part the statuses (`Grouped`). `PagesInv` then says of the behaviour that busy is
true while exactly one flight of the present visit is under way (`Sole`), that fields of a record,
in the form and in flight, hold the record's value or what was entered (`Kept`), and that an order
is only advanced from a status that has a next (`Advancing`).

`SeedDatabaseProofs` proves, for any number of attempts and of rows of the application, and any
of the tables that it may add them to (`SeedAssumption`):

* `Types`: `Spec => []TypeOK`
* `RefusedOnly`: `Spec => []RefusedOnlyInUse`
* `FinishedWhole`: `Spec => []FinishedIsWhole`
* `WeakHold`: `Spec => []WeakRefsHold`

Again there are two halves. One is about the text of the two scripts: `ClearedAt` ranks the
tables by the batch of `seeds/index.ts` that clears them, and `IndexRow19` to `IndexRow36` and `PrismaRow1` to
`PrismaRow11` show, batch by batch, that a row is made once, refers to rows that earlier batches make, and
only to tables cleared after its own or such that cascade or set null. The other half is the
inductive invariant, `Safe`. The properties alone are not inductive: that a delete is not refused rests on
what the tables referring to it hold by then, that a row is left once rests on what was there before. So
`RowsOK` keeps of every row that it refers to rows that are there and as the ranking allows, and
that what it names without a key is ranked alike or in `Dangling`; `Clearing`
that the tables passed so far are empty but for rows of the application; `Fresh` that
no row of this attempt exists that the script has still to make; and `Kept` that what the script has made
or found is there for the statements that refer to it. `OneOfEach` says that ids and unique keys name one row.

Only model-checked:

* Liveness: `AcceptedLeadsToAwarded`, `ConnectionsEnd`, `ScheduledIsHandled`, `LoadingEnds`, `KeepsTrying`,
  `PolledIsShown`, `PagesComeToRest`. Liveness under fairness needs ENABLED, which the
  prover does not handle.

## 5. Findings

`rfq_two_winners`. AwardQuote (`rfq.go:391-407`) accepts its quote, lists the
others and rejects "all other quotes" (`rfq.go:396`), but only those still
submitted. Two awards that read the RFQ before either finishes each accept
their quote; both stay accepted. The RFQ names the one whose UPDATE came last.

### Known disagreements

Seen while modelling, part of the models, and without a run of their own.

Services:

* `cleanupStaleConnections` (`hub.go:354`) runs on the hub goroutine and sends to it:
  the hub blocks for ever. After a shutdown of the hub, read pumps block in Unregister.
* A client that the hub gives up on may be answering a message
  (`websocket.go:263`): the send on the closed channel ends the process.
* An attempt that failed is saved as `sending`, which takes the notification out of
  the pending set (`repository/notification.go:71`); the limit of three attempts
  (`service/notification.go:301`) is never reached. Marking everything as read
  reaches notifications not sent yet (`repository/notification.go:163`).
* `docs/architecture/data-model.md:578` declares UNIQUE(rfq_id, vendor_id) on quotes,
  the Prisma schema does not, and two overlapping SubmitQuote calls insert two.
* Update is for drafts only (`service/rfq.go:119-124`), but checks that in a SELECT of its own:
  an RFQ published and quoted on in between is edited all the same, and may lose
  the invitation of a vendor whose quote it has.
* Cancel, Close, Publish and the sweep of expired RFQs check the status they have read
  and write theirs by id alone (`service/rfq.go:225-231`): an RFQ awarded in between is
  cancelled or closed, its winner accepted. A WithdrawQuote (`461`) that read a quote as
  submitted withdraws it after it was accepted.
* An entity subscription is matched by organization only, where the comment
  speaks of workspace scope (`hub.go:253`, `264-275`), and members of a workspace by workspace
  only. Both are what the connection's query says, unverified, so that an event goes to
  whoever names its workspace; `EventsStayInScope` says no more than that.
* A Subscribe that runs after its client was unregistered leaves it in `h.channels`
  (`hub.go:293`) until the answer to it ends the process, as above.
* `rls.go:93-97` commits after the response has been written and only logs a failure.

Browser and auth service:

* The auth service answers bare, the client reads `response.data`: nobody gets in
  (`BareServiceAdmitsNobody`). The client's logout sends no body, for which the handler
  answers 400 (`handler/auth.go:68-75`), so that the session stays, against
  `service/auth.go:114` and `docs/api/README.md:165`.
* `service/auth.go:70-77` and `162-169` pass six arguments to the `GenerateTokenPair` of
  `pkg/auth/jwt.go:80`, which has seven parameters, so that the auth service does not
  compile as it is; the model takes the call to issue the pair it is meant to issue.
* `isLoading` starts TRUE and disables the sign-in button (`login/page.tsx:186`) until
  something calls checkAuth, which nothing does; `e2e/auth.spec.ts:16` expects otherwise.
  `/invite` is no public route of the guard.
* An unmounted or disconnected useRealtime reconnects when a close event comes after
  disconnect (`useRealtime.ts:142`, `286`). No page uses it, nor the hooks of
  `hooks/use-*.ts`. Vessel endpoints of the client are not those of the vessel service,
  and none refreshes positions.
* Keys that do not fit: those of `LeftOut` in QueryCache, among them those of
  useRefreshPositions (`use-vessels.ts:125-134`), which invalidates the fleet's positions but
  neither useVesselPosition nor useVesselTrack; the award of QuoteComparison against the keys
  of the hooks and the other way round; `['vessels', ws]`; FleetMap's refresh against the
  hooks' positions; orders against the services of their port call; the vessel track,
  which no event names; a changed vessel, by a hook or an event, against the port calls that
  show it (`core/internal/repository/portcall.go:79-88`).
* A refetch of port calls or orders that overtakes the commit of `rls.go:94` shows the old
  rows as fresh ones until something else makes the entry stale; after a failed commit the
  answer has said otherwise for good.
* A close event of a socket no longer in use clears `wsRef` and `isConnected` of the one that is
  (`useRealtime.ts:108-111`): this one stays open, delivers events and counts in the service,
  and `isConnected` is FALSE; when it opens after that, TRUE with no `wsRef` to send by.

Pages:

* Submissions are simulated by timers. A push fires even after the page was left,
  and what is typed while a page is busy is lost.
* The award of QuoteComparison reports the quote chosen by then, not the one awarded
  (`quote-comparison.tsx:45`); a failed award leaves its dialog open.
* RFQForm without a port call can never be submitted and shows no error. In the
  vendor's RFQ, Cancel before the first submission hides the form for good
  (`rfqs/[id]/page.tsx:503`, `552`). The vendor's order update never reaches the API, and
  an unknown status has "pending" as its next. Hidden vendors stay selected in
  `rfqs/new` (70-78).
* An open RFQ is shown as quotes_received (`rfqs/[id]/page.tsx:174`); cancelled and
  expired RFQs, vessels, and the portal's draft and cancelled port calls have no
  badge (`NoBadge`). The groups of the RFQ list know neither open nor expired. Filters
  do not offer: cancelled RFQs, draft and cancelled services, laid-up vessels,
  vessels not_available on the map, cancelled port calls in the portal. The map's
  filters stay in force while "Map Only" hides them.
* The view of a vessel or vendor never loads its port calls, orders and
  reviews; `services/[id]` of the portal shows one static order; its approvals only log;
  documents are not uploaded; buttons of the settings have no handler; the edit pages
  of RFQs, services and vessels are linked from nowhere; /terms, /privacy
  and /register lead nowhere. The row of an expired pending invitation offers
  Cancel, Resend and Send New together.

Database:

* `operator_vendor_lists` is cleared by no script: with a row in it `seeds/index.ts` is
  refused, half cleared, every time (excepted in `RefusedOnlyInUse`).
* `vendor_invitations` is cleared by no script either: its rows lose their vendor but keep the
  ids of organizations, users and service types that are gone (`schema.prisma:455`, `464`,
  `471`). Between two deletes, and after dying there, vendors and agents list service
  types and ports that are gone, and an awarded RFQ names a quote that is (`329`).
* `prisma/seed.ts` after `seeds/index.ts` leaves a port call of `ws_demo` with a
  vessel of the other workspace. Seeds use the RFQ status `sent` and the vendor status
  `verified`, which the services do not know. `docs/deployment/local-setup.md:459-466`
  promises accounts no seed makes. `documents.entityId` has foreign keys to port
  calls and to service orders at once.

## 6. Plan

Done: `RfqService`, `RfqLifecycle` and `RfqSerial`, `RealtimeHub`, `NotificationQueue`, `SessionClient`,
`RealtimeClient`, `QueryCache`, `Pages` and `WebPages`, `SeedDatabase`, all with their proofs. Every
invariant and the refinement that the passing runs check are theorems.

Left, in this order:

1. `CoreOrders`: service orders and port calls inside the request transactions of
   `rls.go` (READ COMMITTED, answer before commit, cache emptied before commit);
   properties: statuses follow the table, a confirmed order has vendor and price,
   cache and table agree once requests are done; abstract specification: the
   transition table.
2. `VendorInvitations`: accept, cancel and expire over single statements, with
   partial failures; abstract specification: an invitation is used at most once.
3. `WebhookDelivery`: dispatch, retries, stale full-row writes, crash.
4. `JobScheduler`: tick, run now, semaphore, Stop.
5. `AuthSessions` (login attempts, reset), `AuditBuffer`, `FlagCache`, position updater.

These would take the place of smaller runs: the present twelve use what can be
checked in one go.

Theorems worth proving next: of `CoreOrders` that statuses follow their table under READ
COMMITTED, as a refinement; of `VendorInvitations` that an invitation is used at most once, or what
overlapping acceptances do at worst; of `RealtimeHub` and `SessionClient`, as of `RfqService`, which steps
never happen, as action properties.

## Not modelled

* The services of the plan above: not yet, for the reasons given there.
* Gateway and analytics keep no state; AIS providers, weather and storage are I/O.
* Of the auth service: login attempts, password reset, two-factor sign-in. Of
  `AuthService` in the browser: register, updateProfile, changePassword,
  forgotPassword and resetPassword, which nothing calls.
* Of the web applications: shells and menus, maps and charts, PDF export, static
  pages, the lists of the vendor app, the timers of its settings' success message,
  formats beyond required or not.
* Shared packages of types, styles and constants declare and do nothing.
* Token encoding, templates, texts, prices and metrics: no property tells them apart.
