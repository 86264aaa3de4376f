# A TLA+ model of the Solutions API server

The repository is a Kubernetes aggregated API server for one resource, `Solution`. Requests reach it
from kube-apiserver; `k8s.io/apiserver` runs each of them in a goroutine of its own and calls a
*storage* (`pkg/registry/solution`), which is where the program's own logic is: a map in memory or a
table in PostgreSQL, and a list of watchers that are told of every write. This directory models the
storages and the watchers, checks them with TLC on small instances, and proves the main results with
TLAPS for every size.

## 1. Inventory

| part | state | operations | modelled in |
|---|---|---|---|
| Solution objects (`apis/solution/types.go`, the fields a write derives from the old version) | none | `Created`, `Updated`, `StatusUpdated`, `NextVersion` | `Solutions` |
| In-memory storage (`registry/solution/storage.go`) | `s.objects` (pointers) and `s.watchers` under `s.mu` | Get, List, Create, Update, UpdateStatus, Delete, DeleteCollection, Watch, broadcast | `InMemoryStorage` |
| Watcher (`watcher.go`) | `w.ch`, `w.mu`, `w.stopped`, the watch's context, one goroutine | Stop, send, ResultChan, the goroutine of newWatcher | `Watcher` |
| PostgreSQL storage (`storage_postgres.go`) | table `solutions`; `s.watchers` under `s.watchMu` | the same requests as sequences of SQL statements; pg_notify; Watch, broadcast, Destroy | `PostgresStorage`; `PgListener` for the watchers and Destroy |
| PostgreSQL listener (`listenLoop`, `listenOnce`, `Destroy`) | connection, 64-slot channel, attempts, backoff | connect, LISTEN, wait, drain, retry, shut down | `PgListener` |
| Field selectors (`validateFieldSelector`, `GetAttrs`, List of both backends) | none | match an object; translate to SQL | `FieldSelectors` |
| StatusREST | none | Get, Update, both delegated | `InMemoryStorage.UpdateStatus` (the fallback to Update is dead code: both storages implement `StatusUpdater`) |
| Server assembly, scheme, TLS (`apiserver/server.go`, `cmd/server/main.go`) | none after start | wiring | not modelled, see section 6 |
| Versioned types and conversion (`v1alpha1`) | none | field copies | not modelled, see section 6 |
| `scripts/create-solutions.py` | none | kubectl in a loop | not modelled: one more client |

**How the parts interact.** A request goroutine calls the storage. The in-memory storage changes
`s.objects` in one critical section of `s.mu`, releases it, and calls `broadcast`, which takes `s.mu`
again and calls `send` on each watcher; only then is the response copied, from the very cell the map
points to. The PostgreSQL storage runs one or two SQL statements, then `pg_notify` as another; the
listener goroutine of *every* replica receives the notification and broadcasts it to the local
watchers. A watch handler reads `ResultChan()` and calls `Stop`; the goroutine that `newWatcher`
starts calls `Stop` when the context ends; `Destroy` of the PostgreSQL storage calls `Stop` on all.

**What is hard.**

* The order of events is not protected by the lock that orders the writes (`storage.go:73`,
  `209`, `302`).
* `UpdateStatus` writes in place through the pointer it finds in the map (`storage.go:297-299`), into
  a cell that an earlier request may still have to broadcast (`:178`, `:209`) or to copy into its
  response (`:182`, `:210`), without a lock.
* `DeleteCollection` works by name from a list taken in an earlier critical section (`:251-276`).
* `Stop`, `send` and the goroutine share two flags, a channel and a mutex (`watcher.go:44-90`); a slow
  consumer must not block a broadcast, which holds the storage's lock.
* In PostgreSQL, reading a row, writing it and announcing it are separate statements; the listener
  may lose its connection, and gives up after a fixed number of attempts.
* `Destroy` waits twice, for the listener and for the pool, while requests go on.

**What makes each part correct.** *Storage*: each request takes effect at one instant, is answered
consistently with it, touches one key (or one namespace), and never hands out a `resourceVersion`
twice. *Announcements*: each write is announced once to exactly the watchers it concerns, as a state
that really was stored; a client's own consecutive writes are not reordered; nothing is replayed;
nothing comes back after `DELETED`. *Watcher*: no panic, no event after `Stop`, no live watcher
dropped, no goroutine left behind. *Field selectors*: a `List` finds what its selector selects, in its
namespace or in all (`MemoryList`; the PostgreSQL backend falls short of it, see section 4).
*Listener*: it broadcasts what is committed, in that order and once; it loses something only when its
connection breaks or its channel is full; it reconnects or ends; `Destroy` ends it, leaves no watch open
and returns, although it waits for connections that requests use.
PROJECT.json lists the hazards at their lines, with the properties aimed at each.

## 2. Modules

| module | what it is |
|---|---|
| `Solutions` | The object both backends hold. `spec` stands for everything `UpdateStatus` preserves (Spec, labels, the rest of ObjectMeta), `phase` for the whole Status, `rv` for ResourceVersion, `born`, a ghost, for the incarnation (the request whose Create made it). The UID is not `born`: `Update` stores, or in PostgreSQL announces, whatever UID the client's object carries, unchecked, so it belongs to `spec`. |
| `SolutionsProofs` | Lemmas on `Solutions`, for the proofs about either backend. |
| `SolutionStore` | What a backend promises: an atomic map from key to Solution. |
| `InMemoryStorage` | `storage.go`, refining `SolutionStore`. |
| `MCInMemoryStorage` | Constants for TLC. |
| `InMemoryStorageProofs` | Its types, its refinement and the order of its events, proved. |
| `InMemoryEventsProofs` | Its versions and what its events say, proved. |
| `FieldSelectors` | Selectors, what they mean, and what the List of each backend answers to them. |
| `MCFieldSelectors` | The selectors TLC uses: none, `=` and `!=` on each field, several requirements, an unsupported one. |
| `SolutionTable` | What the PostgreSQL backend promises: less than `SolutionStore`, see below. |
| `PostgresStorage` | The requests of `storage_postgres.go`, refining `SolutionTable`. |
| `MCPostgresStorage` | Constants for TLC. |
| `PostgresStorageProofs` | Its theorems. |
| `NotificationFeed` | What the listener promises: an ordered part of what is committed, until the storage is shut down. |
| `PgListener` | `listenLoop`, `listenOnce`, `broadcast`, `Watch` and `Destroy` of `storage_postgres.go`, refining `NotificationFeed`. |
| `MCPgListener` | Constants for TLC. |
| `PgListenerProofs` | Its theorems. |
| `EventStream` | What a watcher promises: a bounded, ordered stream that loses an event only when full. |
| `Watcher` | `watcher.go`, refining `EventStream`. |
| `MCWatcher` | Constants for TLC. |
| `WatcherProofs` | Its theorems. |

### InMemoryStorage and `storage.go`

* `mu`, `objects`, `watchers` are the fields of `InMemoryStorage`. `objects` maps a key to a *cell*
  and `heap` holds the contents of cells: Go's pointers. Each successful Create, Update or
  UpdateStatus allocates one cell (`cp`), named after the request.
* A critical section is two steps: one that takes `s.mu` and does the work (`Create`, `Update`,
  `UpdateStatus`, `Delete`, `DeleteListed`), one that releases it (`Unlock`). In between other
  goroutines may do what needs no lock: copy a response (`CopyVersion`, `CopyStatus`), stop a watcher,
  receive an event.
* `pc` is where a request is: `idle`, `locked`, `collect` (DeleteCollection has its list), `broadcast`,
  `respond`, `done`. `Announce` and `AnnounceDeleted` are the critical section inside `broadcast`.
* `response` holds the fields copied so far by the unlocked `DeepCopyObject` at `:182`, `:210` and
  `:303`: a data race with `UpdateStatus` at `:297-299`. Its two reads are two steps, in either order,
  and may return versions that do not belong together. A torn read of a single Go string is not
  modelled.
* `sent[w]` is everything ever put into the channel of watcher `w` and `taken[w]` how much was
  received; the channel holds the difference, at most `ChanSize`.
* `effect`, `clock`, `since` and `missed` are history: no guard reads them.
* The loop over `s.watchers` is one step: no watcher is touched twice, and each only under its own
  lock. What happens inside one `send` is `Watcher`, whose refinement of `EventStream` is what
  justifies treating `send` and `Stop` as atomic here.

Left out: the early returns that are the same for every request before any state is read (the
BadRequest of an unknown field selector, a missing `createValidation`), which change nothing; `List`
as a request of its own (a read like `Get`; what it answers is `MemoryList` of `FieldSelectors`, which
`DeleteCollection` reads with any namespace and any supported selector);
DeleteCollection across all namespaces, which the API server does not route; `Destroy`, which is empty
here. `Update` with `forceAllowCreate` ends in NotFound, as in the code.

### Watcher and `watcher.go`

One watcher; the callers of `Stop` (`Callers`: the handler, Destroy) and the `Goroutine` of
`newWatcher` run `Lock`, `Swap`, `Cancel`, `Close`, `Unlock`, one step per lock, flag or channel
operation of lines 44-56. The sender (broadcasts are serialised by `s.mu` or `s.watchMu`) runs
`Offer`, then `Filtered` (lines 65-76, which read the flag without `w.mu`) or `SendLock`, `Check`,
`Push`, `SendUnlock` (lines 78-90). `panicked` records a close of, or a send on, a closed channel.
`registered` is what the broadcast does with the answer of `send`. `late` is history.

### PostgresStorage and `storage_postgres.go`

* `rows` is the table, `notified` every `NOTIFY` in commit order (which is the order PostgreSQL delivers
  them in). The code opens no transaction, so each `Exec` or `Query` is one atomic step: `Create` (the
  INSERT), `Read` and `List` (the SELECTs), `Update`, `UpdateStatus`, `Delete`, `DeleteItem`, and `Announce`
  (`SELECT pg_notify`). `pc` says which statement is next; `existing` is what the request has read.
* Update and UpdateStatus write `existing.rv + 1` into whatever row has that name by then, and announce
  the object they read, changed. `Gone` is `RowsAffected() == 0`.
* Failures: a statement may fail without effect (`StatementFails`, and the last disjuncts of `Get`,
  `Create`, `Read`, `List`), or take effect and fail, the connection being lost before the answer
  (`Commit`, `DeleteItem`); a failed `pg_notify` is ignored (`Announce`); a server may die between two
  statements (`Crash`). `Get` answers NotFound whatever its query failed of, as in the code.
  `MaxFailures` bounds all of them together.
* Requests may be those of one server or of several: nothing but the table is shared. `wrote`, `listed`,
  `after` and `unheard` are history, except that `EndCollect` takes what it announces from `listed`, the
  code's `sl.Items`.
* `List` and the first half of `DeleteCollection` read `SqlList` of `FieldSelectors`; `ListRefused` is
  their error paths.

`SolutionTable` is what a client may rely on: who is told ok, NotFound or AlreadyExists is told the
truth about the row; a write changes its own columns of its own row; a row that is gone is not brought
back; a version is one more than some version that name once had, and no more than that (finding 4).
Each failed statement may cost one request its answer.

### FieldSelectors and List

A selector is a sequence of requirements `field = value` or `field != value`, which is what
`fields.Selector` can hold; `Supported` is `validateFieldSelector` and the field label conversion of
`server.go:64-71`. `MemoryList` is the loop of `storage.go:127-143`. `SqlList` is the query of
`storage_postgres.go:293-305` followed by the match of lines 329-335: each requirement on
`spec.solutionName` becomes an equality with the argument `$2`, whatever its operator, so that

* `spec.solutionName!=v` answers no object at all on PostgreSQL (equality in SQL, inequality after it);
* two requirements on `spec.solutionName` end in a query with more arguments than parameters
  (`ArgumentsMatch`);
* a List of all namespaces compares the namespace with the empty string, and is empty.

Each of them contradicts what the repository says of a List (section 4). They need no interleaving and can be
read off `Where` and `ArgumentsMatch`, so no run is spent on them; the runs use the two Lists as
what a `DeleteCollection` works from.

### PgListener and `listenLoop`

* `lpc` is where the listener goroutine is: `try` (head of the loop, `:148`), `connect` (`:190`), `listen`
  (`:196`), `wait` (`:201`), `drain` (`:209`), `interrupted` (`WaitForNotification` finds the context
  done), `backoff` (`:156`), `exited`. `attempt`, `channel` and `cancelled` are the variable, the channel
  and `lctx.Done()` of the code; a `channel` belongs to one call of `listenOnce` (`Disconnect` empties it).
* The connection has two ends: `session` is the server's (`asked`: LISTEN received; `listening`: its
  transaction has committed; `idle`: ReadyForQuery sent), `wire` what has been sent and not been read.
  A commit puts its notification on the wire from the commit of LISTEN on, so also before the answer to
  LISTEN. `ReadAll` reads the wire up to `Ready` and `WaitForNotification` one message, each calling
  `OnNotification` (`Push`), which drops when the channel is full.
* `Fail` may hit a connect, a LISTEN or a wait at any moment, and any number of times. The length of a
  backoff is abstracted: its timer may fire at once or late.
* `Watch`, `Stop`, and `Destroy` as its steps `Cancel`, `Join`, `StopAll`, `CloseDB`, `PoolDrained`. A
  `Watch` may come while or after Destroy runs: nothing in the code prevents it. `pool.Close` first closes
  the pool, then waits until every connection is back: `acquired` are the `Statements` of requests that
  hold one, and they may `Acquire` until `CloseDB` and `Release` at any time. The listener's connection
  is its own (`pgconn.ConnectConfig`, `:190`), not one of the pool.
* Notifications are numbers in the order of commits, that of `notified` in `PostgresStorage`; those in
  `Malformed` fail one of the checks of lines 213-229. `drained`, `inARow` and `late` are history.

A notification that comes with the answer to LISTEN sits in the channel until the next one wakes the loop,
because the loop waits before it drains (section 4). `ReceivedIsTold` therefore speaks of what arrives
once the listener waits.

## 3. Runs

All 12 runs end within two minutes with two workers.

| run | instance | what it shows |
|---|---|---|
| `memory_store` | 3 requests, 2 names, 2 specs, 2 phases, no watcher | `TypeOK`, `VersionNamesContent`, `ImplementsStore`: pointers, in-place writes and three-part DeleteCollection together behave as the atomic map of `SolutionStore`; no two contents of an incarnation share a version |
| `memory_watch` | 3 requests, 1 object, 1 watcher, channel of 1 | `AtMostOneAhead`, `RealTimeOrder`, `NoReplay`, `DeletedIsGone`: how far the unlocked broadcast and response can diverge from the map, and no further |
| `memory_filter` | 2 requests, 2 namespaces, 2 specs, 2 phases, a watcher with any filter | `EventsCommitted`, `AnnouncedOnce`: an event is a state that was stored, and reaches exactly the watchers it concerns, once |
| `memory_live` | 3 requests, `FairSpec` | `EveryRequestReturns`: every path out of a critical section releases `s.mu`, and no broadcast is attempted with it held |
| `memory_order` | violated | `EventsInCommitOrder`, finding 1 |
| `memory_create_rv` | violated | `CreateAnswersVersionOne`, finding 2 |
| `postgres_store` | 3 requests, 2 namespaces, 2 specs, 1 failure, selectors of every kind | `TypeOK`, `ImplementsTable`, `AnnouncedWhatWasWritten`, `OkIsAnnounced`, `NotifiedInRealTimeOrder`, `FailedIsSilent`: what the separate statements leave true |
| `postgres_status` | violated | `UpdateStatusAtomic`, finding 3 |
| `postgres_version` | violated | `VersionsIncrease`, finding 4 |
| `listener` | 5 notifications, one of them malformed, channel of 2, 3 attempts, 2 watches, 1 statement, `FairSpec` | `ExitsForAReason`, `DestroyStopsWatches`, `LossExplained`, refinement of `NotificationFeed`, and liveness: `DestroyReturns`, `RecoversOrExits`, `ReceivedIsTold` |
| `listener_giveup` | violated | `GivesUpAfterFailuresInARow`, finding 5 |
| `watcher` | 3 stoppers, 5 events, channel of 2 | 3 invariants, `StopIsFinal`, refinement of `EventStream`, and liveness: `StopReturns`, `StreamEnds`, `GoroutineEnds` |

**Bounds.** `Requests` is the only bound of the storage: each request runs once, and a behaviour ends
when all have been answered. The hazards are between a write and its announcement, an UpdateStatus
that writes into its cell, and a third request that observes the result or sets the scene: three
requests are enough for each of the findings and each mutant, and with two requests the
three-party interleavings would not exist. Two names are needed for "no other key changes"; filters
need two namespaces and specs, where two requests suffice because the property relates one write to
one watcher. One watcher is enough because watchers do not interact: no action of one reads another's
state. `ChanSize` 1 (2 in `memory_order` and `watcher`) stands for 100: what matters is full or not
full, and both happen. In PostgreSQL, rows do not interact, so the two that a run
needs (to tell "its own row" from another) lie in two namespaces, which the selectors need as well; a
lost update takes a Create and two writes; one failure can hit any statement of any of them, and no property
depends on two. `MaxEvents` 5 exceeds `ChanSize` by more than one, so the channel fills, is
drained and fills again. In `listener` three attempts allow two connections to fail and a third to
work, or to fail for good, and five notifications a channel of two to overflow on one connection and
something to be told on the next; one statement can hold a connection, return it and take it again
at every point of Destroy, and statements do not interact. Requests are interchangeable, so the safety runs use
`Permutations(Requests)` as symmetry, and `memory_store`, `memory_filter` and `postgres_store` those of
names, namespaces and specs too, the two memory runs also those of phases: no definition, the set of
selectors included, distinguishes one of them. The liveness runs use none. `EveryKind` has a selector
of every form the code tells apart: fields, operators, one requirement or two, on one field or two.

**Fairness.** `FairSpec` of InMemoryStorage has `SF(Continue(r))`: a goroutine that has begun a
request keeps running, and since Go 1.9 `sync.Mutex`, on which `sync.RWMutex` rests, hands the lock
to a waiter after at most a millisecond of starvation, so a step enabled again and again (whenever the
lock is free) is taken. No request has to arrive. In `Watcher`, `SF` on the steps of a `Stop` and of a
`send` have the same reason; `ContextDone` and the receive are weakly fair; nobody has to call Stop,
and the handler is not assumed to leave. In
`PgListener`, `WF` on the listener and on `Destroy` says that a goroutine that can run does, that a timer
fires, that a call whose context is done returns (pgconn guarantees it), and that what has been sent
arrives unless the connection fails first (TCP; a dead peer ends in a `Fail`); `WF` on `CommitListen`
and `SendReady` that PostgreSQL answers a LISTEN, and on `Release` that it answers a statement, or that the
deadline of the request ends its context: k8s.io/apiserver sets one for every request but a watch, and
`Watch` runs no statement. `Commit`, `Fail`, `Acquire`, `Watch`, `Stop` and the call of Destroy have no
fairness.

## 4. Findings

1. `memory_order`: *events of one object can arrive out of order*. Two concurrent writes release `s.mu`
   before either broadcasts, and the second may broadcast first. The design
   (`2026-04-27-watch-listen-notify-design.md:67`) says broadcast is called while holding `mu`; the
   code's comment (`storage.go:73`) says the opposite and the code follows the comment. `RealTimeOrder`
   is what remains true.
2. `memory_create_rv`: *Create can answer resourceVersion 2*. The response is copied from the shared
   cell after unlocking (`storage.go:182`), and an UpdateStatus in between writes the version there.
   `AtMostOneAhead` bounds the damage.
3. `postgres_status`: *UpdateStatus answers and announces a spec the row no longer has*. It reads, then
   writes the status columns, then answers with the object it read (`storage_postgres.go:545`);
   `storage.go:34` promises "atomically, preserving spec". The row itself keeps its spec
   (`ImplementsTable`); the answer and every watcher are told otherwise.
4. `postgres_version`: *a version can be handed out twice, or go back*. The UPDATE does not compare
   `resource_version`; the design (`2026-04-23-aggregated-api-server-design.md:58`) calls it a monotonic
   counter. The line stands under "In-Memory Storage", the only storage of that time; what it describes
   is Update of the interface both backends now implement (`storage.go:27`).
5. `listener_giveup`: *the listener ends after five lost or refused connections, however far apart*. The
   loop counts attempts over the lifetime of the storage (`storage_postgres.go:148`); the design
   (`2026-04-27-watch-listen-notify-design.md:129`) says it gives up if all of five retries fail. Until
   then `RecoversOrExits` holds.

The models show more differences between the code and what the repository says of it, for which there is
no run:

* *Delete can answer and announce another object than the one it deletes*. In PostgreSQL it reads, then
  deletes by name, then answers what it read (`storage_postgres.go:452`); the design
  (`2026-04-23-aggregated-api-server-design.md:59`, under the same heading as the line of finding 4) says
  "returns deleted object". `AnnouncedWhatWasWritten` compares a DELETED by its key only, and
  `ImplementsTable` shows that a Delete that answers ok has removed a row of that name.
* *A List of all namespaces is empty in PostgreSQL*: the query compares the namespace with the empty
  string (`storage_postgres.go:295`). A plan (`2026-04-27-postgres-kubernetes.md:228-231`) expects
  `kubectl get solutions --all-namespaces` to show what has been created, and `docs/watch.md:26`
  and `:41` build on the same list.
* *`spec.solutionName!=v` finds nothing in PostgreSQL, and two requirements on the name fail*
  (`storage_postgres.go:301`); `storage.go:40` says the field is supported, with no such limit.
* *A notification can wait for the next one, and be lost with the connection*. One that comes with the
  answer to LISTEN is in the channel when the loop calls `WaitForNotification`
  (`storage_postgres.go:201`), before it drains; the design (`2026-04-27-watch-listen-notify-design.md:128`)
  says that a notification is broadcast.
* The same design says (line 74) that the goroutine of a watcher removes it from the list; it only stops
  it, and the next broadcast removes it, as line 148 of that document has it.
* It says (line 130) that the listener stops when the context passed to `NewPostgresStorage` is
  cancelled; the code derives its context from `context.Background()` and only `Destroy` stops it.

## 5. Proofs

Every safety property that a passing run checks is a theorem, for every value of the constants; the runs
show the same on small instances.

| module | theorems | for any |
|---|---|---|
| `InMemoryStorageProofs` | `TypeCorrect`, `StoreImplemented`, `EventsInRealTimeOrder`, `NothingReplayed` | sets of requests, keys, watchers, filters; channel size |
| `InMemoryEventsProofs` | `VersionsDistinct`, `EventsWereStored`, `DeletedForGood`, `OneAhead`, `ToldOnce` | the same |
| `PostgresStorageProofs` | `TypeCorrect`, `TableImplemented`, `WritesAnnounced`, `SuccessAnnounced`, `FailureSilent`, `RealTimeOrderKept` | sets of requests, keys, selectors; number of failures |
| `WatcherProofs` | `TypeCorrect`, `NeverPanics`, `RegistrationKept`, `StopFinal`, `StreamImplemented` | number of callers, channel size, set of matching events |
| `PgListenerProofs` | `TypeCorrect`, `ExitsJustified`, `WatchesStopped`, `LossesExplained`, `FeedImplemented` | number of watches, statements, notifications, attempts and connections; channel size; malformed notifications |

Each is of the form `Spec => ...`. The bounds `MaxFailures`, `MaxEvents` and the like are constants of the
specifications, so a theorem holds whatever number they are.

*Assumptions*: `Nil` is not a request, namespace, Solution, result or filter (`NilAssumption`,
`FiltersAssumption`), `All` is no namespace (`AllNamespacesAssumption`), the
channel has a positive size (`ChanSizeAssumption`, `SizeAssumption`, `BoundsAssumption`), failures and
notifications are counted (`MaxFailuresAssumption`, `MalformedAssumption`), and the threads of `Watcher`
are distinct (`ThreadsAssumption`). TLC evaluates them in the runs.

*In-memory storage: the map*. `TypeOK` and the refinement need `IInv`. The heart of it is `PointersSound`:
the map points to an allocated cell, whose key is the one it is stored under, so two keys never share a
cell and an in-place write shows under one key only. `IdleOwnsNothing` makes the cell of a new request
fresh; `OpenUntilEffect` says that a request that has not answered yet has not taken effect, which is
what the abstract store's `Answer` asks; `ListInNamespace` ties the list of a DeleteCollection to its
namespace, so that what it deletes by name is what `SolutionStore` lets it delete; `CellAllocated` says
a write that is to be broadcast or answered has a cell. `StoreImplemented` then maps each action to one
abstract action or to a stutter. `RealTimeOrder` and `NoReplay` need `OrderInv`: an event exists only for
a request that has been answered and is past its critical section (`EventsAnnounced`), the requests in
a history `after` or `since` have returned (`HistoryReturned`) and so announce nothing more, and a
watcher that is not registered has been sent nothing (`UnwatchedSentNothing`).

*In-memory storage: versions and events*. The actions are first sorted into kinds by what they do to
objects, cells and events (`NextKinds`: `WriteStep`, `RemoveStep`, `ListStep`, `MoveStep`, the two
broadcasts, `WatchStep`), and each invariant is proved kind by kind.

* `VersionInv`: the state stored under a key is the last of its incarnation, which was never under another
  key (`StoredIsLatest`), and an incarnation is named after a request that has begun (`BornBegan`). So the
  next version of an object is new, and so is the first of one just created: `VersionNamesContent`. Cells
  and lists hold only what was once stored (`CellsCommitted`), hence `EventsCommitted`.
* `EventInv`: of what a Delete or DeleteCollection has taken out and not yet announced, no incarnation is
  stored (`RemovedIsDead`), and nothing stores it again, because a write keeps the incarnation it finds or
  begins one of its own. What is announced as DELETED comes from there: `DeletedIsGone`.
* `NearInv`: the cell the map points to holds exactly what its request wrote (`PointedIsOwn`). The
  UpdateStatus that writes into a cell makes the map point to its own copy in the same critical section, so
  no second one can reach the first cell: `AtMostOneAhead`.
* `OnceInv`: whom a write has to tell is registered until it stops (`WatchedIsRegistered`); before its
  broadcast nobody has been told (`SilentBefore`), afterwards everybody (`ToldIsInformed`). It uses
  `NearInv`: a status update does not change whether an object matches a filter, so the watchers that the
  broadcast reaches with a cell one version ahead are those the write itself concerns.

*PostgreSQL storage*. `IInv` says of a request between its SELECT and its next statement that what it has
read was once a row (`ReadWasWritten`), however stale by now; that it has written, answered and announced
nothing so far (`Untouched`); and of a DeleteCollection that what it deletes is on its list, and in the one
namespace it was sent to (`CollectsListed`). This is as much as the code guarantees, and it is what
`SolutionTable` asks: `existing.rv + 1` is one more than a version that name once had. `TableImplemented`
maps each statement to a write, an answer or a stutter, a lost connection and a crash included.
`AnnounceInv` says that what is pending tells of what the request wrote (`PendingWasWritten`), that nobody
hears of a request before it has been answered ok (`SilentUntilOk`), and that every row of a successful
one is announced, pending or lost with its NOTIFY (`OkIsHeard`).

*Watcher*. The inductive invariant ties the places in `Stop` to the flags: only the holder of `w.mu`
is between Lock and Unlock, only the call that changed `stopped` from 0 to 1 can be at `cancel` or
`close`, `closed` implies `stopped`, and the sender that is about to push holds `w.mu` with `stopped`
false. From it, a push never meets a closed channel and a close never a closed one.

*Listener*. `LoopInv` says that Destroy is past its wait only when the listener has exited, and that an
interrupted listener has been cancelled. `ConnectionInv` ties the two ends of the connection to each
other: without a connection nothing is on the wire or in the channel, `Ready` is on the wire at most
once and only while LISTEN is being answered, and a channel that has been drained is empty whenever the
listener waits; the last is why only an answer to LISTEN can overflow it (`LossesExplained`). `OrderInv`
says that the last number told, the numbers in the channel and those on the wire increase in this order
and are all committed; what a commit, a read, a drain and a lost connection do to that order are four
lemmas about sequences, from which `FeedImplemented` follows: what a drain tells is greater than what
was told and is committed.

*Only model-checked*: the liveness properties (`EveryRequestReturns`, `StopReturns`, `StreamEnds`,
`GoroutineEnds`, `DestroyReturns`, `RecoversOrExits`, `ReceivedIsTold`), since TLAPS proves none under
fairness. The five findings are counterexamples of TLC.

## 6. Not modelled

* *Server assembly* (`apiserver/server.go`, `cmd/server/main.go`): one thread that fills the scheme and the
  OpenAPI table, makes a certificate, picks a storage by `STORAGE_BACKEND` and starts; a failing step ends
  the program, and no state of its own is left to change afterwards. What matters to the storages is in
  their models: both REST objects share one storage, of which `Destroy` is called once.
* *Versioned types and conversion*: copies field by field, both ways, with no condition.
* *Registration and types* (`register.go`, `v1alpha1/types.go`): declarations.
* *`scripts/create-solutions.py`*: a client, one of `Requests`.
* *Server start on an empty database*: two replicas may run `CREATE TABLE IF NOT EXISTS` at the same time
  (`storage_postgres.go:58`); what then happens is a matter of PostgreSQL's catalogues.
* *Inside SQL*: row values are those of `Solution`; the JSON of labels and conditions is not taken apart.
* *Time*: the length of backoffs, and deadlines of requests (a statement may fail at any point instead).

## 7. Plan

No safety property of the runs is without a proof. What can still be said and proved:

* that the components compose: that the sequence each watcher is sent by the broadcasts of a storage is an
  input that `EventStream` allows, and that `notified` of `PostgresStorage` is the sequence of commits of
  `PgListener`, so that the proofs about one apply to the other as an INSTANCE and not only by the argument
  of section 2;
* the hazards that have no property yet, each with its reason in PROJECT.json.
