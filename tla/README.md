# lib-systemplane: a TLA+ model

`lib-systemplane` is a Go library for runtime configuration. A process registers
keys with defaults; the values live in PostgreSQL or MongoDB; every process keeps
a cache per *scope* (the process-wide zero scope and one per tenant), is told of
changes by a changefeed, and calls subscribers when a value changes. Nothing in
the library blocks a reader: reads are served from the cache, and everything else
in it exists to keep that cache right while writes, notifications, re-reads,
snapshots, reconnects, activations and shutdown overlap.

This directory holds TLA+ modules translated from the Go source, the TLC runs
that check them on small instances, and TLAPS proofs about all of them but the
debouncer's.
`PROJECT.json` is the machine-readable index: the components, the runs, the
source lines behind every definition (`map`), one mutation of the code per
property (`mutants`), the hazards and the theorems. Paths below are relative to
the repository root.

    cd tla
    tlc -workers 2 -config MCScopeCache_feed.cfg MCScopeCache
    tlapm ScopeCache_proofs.tla

## 1. Inventory

| Component | State | Operations | Module |
|---|---|---|---|
| Engine: scope cache (`internal/engine` scope, reconcile, feed, ingest, publish) | entries, key fences, stale flag and unconfirmed keys, disconnect and reconcile generations, reconcile windows, single-slot resync mailbox, trailing re-reads | `onEvent`, `markStale`, `onResync`, the re-read with its one retry, the reconcile worker, `publish` | `ScopeCache` |
| Engine: dispatch (`dispatch.go`) | a worker per (scope state, key) with a single-slot mailbox and a buffered wake-up; subscriber lists; a wait group | `OnChange`, `submit`, the worker loop, sweep of a dropped scope, `Close` | `Dispatch`, `Conflation` |
| Engine: activation (`activate.go`, `engine.go`) | tracked map, blocked set, one activation slot per tenant, cooldowns | `Activate`, `Block`, `Unblock`, `Reactivate`, bring-up, drop, `Close` | `Activation` |
| Debounce (`internal/debounce`) | entry and generation per key, timers | `Submit`, expiry, `fire`, `Close` | `Debouncer` |
| Group coordinator (`internal/group/coordinator.go`) | current observation, appliers, seed watermark, `lastErr` | `Publish`, `Register`, unsubscribe, the fan-out | `Coordinator` |
| PostgreSQL LISTEN (`internal/postgres/postgres_listen.go`) | feeds, slots by scope, references, reader goroutines | `Subscribe`, the reader, `Start`, `Close`, unsubscribe | `ListenFeed`, `ChangeFeed` |
| PostgreSQL rows | rows with a revision, two triggers | `Get`, `List`, `Set`, `Delete` | the store of `ScopeCache` |
| Store contract (`internal/store`) | – | what `Subscribe` promises | `ChangeFeed` |
| Client (`internal/client`) | `started`, `registryFrozen`, `closed`, the start lock, the registry | `Register`, `Start`, `Set`, `Delete`, reads, tenant events, `Close` | `Client`; `Delete` in `ScopeCache` |
| MongoDB polling (`internal/mongodb`, `PollInterval > 0`) | watermark in milliseconds, values seen at it, known live keys | first round, tick, announcement of recovery, backoff | `PollFeed`, `ChangeFeed` |
| MongoDB change streams (`internal/mongodb/mongodb_changestream.go`) | feeds by scope, the collection each claims | `Subscribe`, probe, claim, open, reopen, `Start`, `Close` | `WatchFeed` |
| MongoDB documents | documents with a writer's stamp, tombstones | `Get`, `List`, `Set`, `Delete` | the collection of `PollFeed` |
| Group binding and codec, catalog, admin HTTP, tenant connectors, schema, logging guard | – | conversion, configuration, I/O | not modelled |

How they interact. The store's feed goroutine calls the engine with `OpResync`
after each (re)connect, one event per changed key, and `OpDisconnect` once per
outage. A key event goes through the debouncer (or runs inline when the window
is 0) to a re-read of the store, whose row is published into the cache.
`OpResync` arms a reconcile, which a worker per scope performs: one `List`,
applied row by row. The client's `Set` and `Delete` commit to the store and then
publish into the cache themselves, and the echo of the commit comes back on the
feed. A publication that the revision fence accepts is submitted to the key's
dispatch worker, which calls the `OnChange` subscribers; the group coordinator is
one of those, and fans out to its appliers. Reads and tenant events bring tenant
scopes up and down, each with its own feed.

What makes each part hard, and what correct means for it:

* **Scope cache.** A fact about the store travels (re-read, snapshot, local
  write) while fresher facts are applied. A fresh key must end up holding what
  the store holds; a late fact must never undo a newer one; a scope that lost its
  connection must say so until the next snapshot has been applied.
* **Dispatch.** Lock-free signalling to a worker that parks, two ways to stop.
  The newest publication always gets through, in order, at most once, and
  `Close` leaves no callback behind.
* **Activation.** Reads and lifecycle events race with a slow bring-up. One feed
  per tenant, and the state after the dust settles is that of the last event.
* **Debounce.** A timer that has expired cannot be stopped. Nothing pending is
  lost, superseded or run after `Close`.
* **Coordinator.** Documents are decoded outside the lock, appliers called
  outside it, a registration seeded from a read that races the feed. Nobody
  misses the newest document and `Status` does not lie.
* **Client.** `Start`, `Register` and `Close` share a lock, `Set` and the reads do
  not; a `Start` may time out or fail and be called again. A read that is reported
  as confirmed must not be older than a `Set` that returned nil, and no call may
  hang.
* **MongoDB polling.** Stamps are milliseconds of several clocks; a round is two
  queries; either may fail after part of the round was announced. No visible
  change is missed, no delete is invented.
* **MongoDB change streams.** A tenant's database may move under its feed. No
  collection is streamed to two scopes, and a lost stream comes back.
* **LISTEN feeds.** A feed is shared, created and released concurrently, and can
  be torn down from within its own callback. Every subscriber sees the promised
  sequence of markers, no feed leaks, nobody waits for ever.

## 2. Modules

A lock hold of the code is one action; what runs outside a lock may be delayed
arbitrarily. Where several short holds are one action instead, the section of the
module says so and why. Values, documents and callbacks are model values: decoding,
cloning, logging, metrics and tracing are left out. Operators named `X_Variant`
stand beside some definitions; each is a plausible defect of the definition `X`
and is used by no specification (PROJECT.json pairs it with the property that
notices it).

### ScopeCache

State and code: `entries`, `fences`, `stale`, `unconfirmed`, `disconnectGen`,
`reconcileGen`, `windows`, `resyncPending`, `resyncSignal`, `firstReconcile`,
`again` are the fields of `scopeState`; `worker`, `timers`, `readers`, `writers`
are its goroutines with what each holds in local variables. `db`, `commits`,
`wire`, `link` are the store as `internal/postgres` and the triggers of
`ddl/schema.sql` present it: revisions are drawn from one sequence, an upsert of
the same value keeps its revision and still notifies, a removal has revision 0,
and what is committed during an outage is not notified.

| Actions | Code |
|---|---|
| `RemoteWrite` | a commit by another process (rows and triggers) |
| `ClientSet`, `ClientDelete`, `PublishBegin`, `PublishEnd`, `PublishDelete` | `Client.Set`, `Client.Delete`: commit, then publish |
| `LoseConnection`, `OnDisconnect`, `Reconnect`, `OnResync`, `OnEvent` | the feed and the engine's handler |
| `TrackedRefresh`, `ArmRead`, `GetRow`, `GetFails`, `PublishAbsentDelete`, `NoRowForUpsert`, `IngestBegin`, `IngestEnd`, `RetryRefresh` | one re-read: arm the fence, read, publish; the retry |
| `WorkerWakes`, `TakeReconcile`, `List`, `ListFails`, `Abandon`, `ApplySnapshotRow`, `ApplyAbsentKey`, `FinishReconcile` | the reconcile worker |

History variables, read by no guard: `basis` (the commit behind each entry),
`acked`, `removedAt` (the newest removal reported to the engine), `gone` (the
newest one committed), and `late`. The last needs explaining. The code resolves
some races conservatively, by letting a decision stand although the store had
already moved on; `late` names the kind of the last such decision on a key:

* `"write"`: a local write published after the store had moved past it;
* `"reread"`: a re-read begun before the last `OpResync` ended after it, with a
  row the store had moved past or with an error, and so decided the key for the
  new window;
* `"repair"`: a re-read failed for a change that nothing covers afterwards. The
  default a reconcile publishes for a key its snapshot lacks confirms the key;
  or `recordUnconfirmed` is refused because something, however old, was published
  since the first attempt; or the retry finds the key's retry slot taken; or an
  older re-read, ending with a row the store has moved past, confirms a key that
  was already left unconfirmed.

`Converged` says that outside these three the cache is right at rest. A name
stays until the key is decided again by something current. In most executions
even a late decision is repaired by the event still on the wire;
`MCScopeCache_resync.cfg` (section 5) shows one where it is not.

A reconcile whose `List` fails is not repeated: the scope stays stale until the next
`OpResync`. `EventuallySettles` excuses exactly that. `faults.list` is the
generation of the last reconcile whose `List` failed, and a scope at rest may be
stale only if that is the newest generation; an earlier failed `List` with a
reconnect after it, and a failed re-read, excuse nothing.

Two actions join holds that nothing can tell apart. `FinishReconcile` is
`clearStale`, `finishFirstReconcile` and `closeWindow`; `ArmReconcile` is the arming
and the closing of the window it displaced. In both the window stays open a
little longer in the code, and a publication in between may be recorded in it; but
a reconcile reads only its own window, this one's has read it for the last time or
never will, and windows are closed by generation, so a resync in between neither
loses nor gains one. `firstReconcile` is read by `Start` only, which `Client`
models with steps of its own.

### Dispatch, and the abstract Conflation

One key in successive states of its scope. `Accept` (the revision fence admits a
publication, under the scope's lock), `WorkerFor`, `Submit`, `Signal` are the
publisher; `Wake`, `Recheck`, `Take`, `StartCallback`, `EndCallback`, `Park`,
`Exit` the worker; `DropScope` and `StopScopeWorkers` the sweep; `MarkClosed` to
`WaitForWorkers` are `Engine.Close`, which either drains or times out.
`Conflation` is what a mailbox promises: each subscriber sees increasing
publications of a scope state, each at most once, and what it is owed is settled
by the newest one, by leaving, or by a stop. `Conflates` is the refinement.
`EndCallback` is a step nobody promises: the code puts no bound on a consumer's
callback. `DebtsSettled` therefore has one excuse, a worker that is inside a
callback for ever, and that excuse covers every subscriber of the same key, since
they share the worker.

### Activation

One tenant. `slot` is its entry in the activating map with the `superseded`
mark; `holder` is the goroutine that owns it, step by step through resolve,
subscribe, store the handle, await the first reconcile, release, decide. Each
bring-up is a state number of its own, so that a feed can be told from the next.
`Unblock` clears the cooldown, but a `releaseActivation` that comes after it may
set one again: a tenant just unblocked can then wait one cooldown, which
`FollowsEvents` allows for.

### Debouncer

A positive window; `ScopeCache` models the inline case where it is used.
`debounce.go:71-73` says that only the last-submitted function fires, and
nothing fires after `Close`.
Generations restart at 1 once an entry is removed, so a timer that expired in an
earlier life of the entry and is very late to the lock can pass for the current
one; `LatestOfItsLife` states the promise with that exception.

### Coordinator

One scope of one group. A publication is stamped in arrival order (`Stamp`),
decoded, and committed under the lock (`Commit`); `Register` reads a seed and
arms the watermark; `Drain`, `NextBatch`, `Skip`, `Call`, `Return`, `Record` are
the fan-out, run by whichever goroutine finds none running. The check of
`removed` and the call of the applier that follows it are one action (an applier
may in the code be called once just after it unsubscribed). A publication that
the watermark drops because its bytes equal the seed's leaves `Desired` at the
seed's revision. That a fan-out ends is not stated as liveness, since nothing
says that appliers return; `NothingDropped` says that somebody is at work while
there is work, and the run checks deadlock.

### ListenFeed, and the abstract ChangeFeed

Feeds are numbered in order of creation. `Subscribe` finds or reserves a slot;
`Create`, `CreateFails`, `AwaitFeed`, `GiveUp` are the creator and those parked
on it; `Join` and `DeliverJoining` the joining marker; `BeginResync` to
`ReconnectFails` the reader; `Teardown`, `ReleaseFeed`, `StopFeed`,
`StopFeedReturns` the release, also from inside a callback; `Start*`,
`StopFeeds`, `SignalFeed`, `CloseReturns` the store's life. A feed is refused
when a live one already listens on the same database, as in the code.
`ChangeFeed` is the contract of `store.Subscribe` that the scope cache is built
on, kept for each subscriber by itself: the markers it is handed alternate, and it
is handed no key event before a resync of its own, whatever the others were told.
It binds a feed until
the feed is told to stop: after that `beginResync` is skipped and a notification
may still slip through to a subscriber that is leaving. The snapshot of the
subscribers and the start of a dispatch are one action; two teardowns of one
subscription contending in `once.Do`, and a callback tearing down somebody
else's subscription, are left out.

### PollFeed

One polled collection, under the same `ChangeFeed`. `poll` is `pollState`, the
value one round hands to the next; `round` is what `pollOnce` holds while it
runs. `Find`, `ReadDoc`, `SnapshotKeys`, `EmitDelete` and `RoundEnds` are one
round, split at the two queries and at every event, so that writes fall anywhere
in it; `RoundFails` and `SnapshotFails` are its failures, the first of which
keeps the old state although events were told; `RecoverBeforeEvent` is the
marker `pollEmitter` hangs on a round's first event. A document's stamp is the
clock of its writer, taken before the write commits, so any stamp may come in
any order. `view` is what a subscriber that believes every event would hold;
`OpResync` makes it reload. `excused` names what no poller of this design can
see, by construction of the watermark: a write stamped earlier than one already
there (clocks of two processes, or a commit delayed past another's), a value put
back within its own millisecond, a document removed outright that no complete
snapshot held, or that was put there and removed within the round that had just
found the key's tombstone, which then explains its absence (`Entombed`). A key
leaves `excused` with its next visible change. A tenant moved to another
collection while it is polled is not modelled.

### WatchFeed

The feeds map of one store: the zero scope and the tenants, each feed at one
phase of *resolve, probe, claim, open, stream, back off*. A creator goes through
them once, a tenant's reader on every reopen (`refreshFeedColl`); the zero scope
reopens on its own handle. `home` is where the connector would resolve a scope
now, `target` the handle just resolved, `id` what its server answered, `coll` and
`claim` the fields `f.coll` and `f.collID`. `Move` and `Evict` are the tenant
manager's doing. Two differences between creator and reader matter and are
kept: an unanswered probe lets a creator go on without a claim and stops a reader,
and a failed `Start` keeps the zero feed, with its claim, in the map.
`StreamsAgain` excepts a tenant whose database is claimed by another scope, for
as long as it is: two tenants that exchange their databases refuse each other,
since each keeps its claim until its next one succeeds.
How subscribers attach to a feed and are told is the same code as for
PostgreSQL and is modelled in `ListenFeed`; so `Leave`, the last subscriber's, takes
the feed away at once, where in the code its reader runs on, with nobody to tell,
until it sees the stop.

### Client

`Register`, `Start`, `Set`, reads and `Close` around one scope. Whether the Client
is single-tenant or tenant-managed is chosen in `Init`. `starter` and `closer`
are the calls in progress, which hold `startMu`; `scope` is the `scopeState` with
an identity of its own, its cache reduced to one revision per key; `link` and
`reconcile` are its feed connection and its worker. The races inside the cache
are `ScopeCache`'s and those of an activation `Activation`'s; here a drop or an
activation is one step, and what is kept whole is the order of the Client's own
steps: `Set` checks, commits, resolves its scope (`writeScope`) and publishes,
and `published()` decides what an untracked scope means. `Served` is what
a read returns and whether it says `Stale`. `Register` looks at `closed` in the same
step that takes `startMu`; in the code it looks first, so one call may still add a
key to a Client that has just closed, which then serves nothing.

`acked` is the newest revision a `Set` returned nil for; `skipped` is, for each
key, the newer row the last reconcile listed and passed over because its window
said the key was touched. `ConfirmedReads` excepts a key for as long as the cache
is older than that row, and the run `own` shows one.
`CallsReturn` rests on the store's promise that a connected feed says
`OpResync`. `Client.Close` waits for `startMu`, so a `Start` whose feed never does
and whose context never ends keeps `Close` waiting too; `onchange.go:37-39`
documents the lock, and the `ErrClosed` case in the comment of `Engine.Start`
(`engine.go:186-190`) cannot be reached through the Client. After a `Start`
whose reconcile failed, the next one drops the scope: until its reconcile ends a
key written meanwhile reads as the default again, marked stale.

## 3. Runs

| Run | Instance | Shows |
|---|---|---|
| `cache_feed` | 1 key, a default, a good and a refused value, 3 commits, 1 loss, 2 failed reads | a quiet, fresh scope holds what the store holds (`Converged`); no snapshot or re-read undoes a later fact (`SnapshotNeverRegresses`, `RemovalStands`); `WindowsOwned`; `StaleWhileDisconnected` |
| `cache_writes` | 2 writers, 3 commits, 1 failed read, with and without a window | no re-read, repair or reconcile takes an acknowledged write back, unless its row was removed since (`AckedWritesStand`) |
| `cache_live` | 2 keys, 2 commits, 1 loss, 1 failed read | all work ends, and the scope becomes fresh again unless the `List` of its last resync failed (`EventuallySettles`) |
| `debounce` | 2 keys, 5 submissions | what runs is the latest and not after `Close` (`LatestOfItsLife`); every submission is answered (`PendingAnswered`) |
| `dispatch` | 2 scope states, 2 subscribers, 2 publishers, 2 publications | no lost wake-up (`PendingWakes`, `OwedVisible`), the mailbox implements `Conflation` (`Conflates`), `Close` drains (`DrainedForGood`), debts are settled unless a callback never returns (`DebtsSettled`) |
| `activation` | 5 bring-ups, 3 events, 1 failure | `OneFeed`; block and rotation win against an activation under way; nothing outlives `Close`; the last event prevails (`FollowsEvents`) |
| `coordinator` | 2 appliers, 1 publisher, 3 documents of which one undecodable, 2 versions | `NothingDropped`, `PreviousInForce`, `NewestOffered`, `StatusTruthful`; the scope never goes back to an arrival that was overtaken while it was decoded (`NoneAhead`) |
| `listen` | the zero scope and a tenant on one database, 2 subscribers, 2 feeds | implements `ChangeFeed` for each subscriber (`KeepsContract`); `Informed`; feeds owned; holders served; no self-wait; nobody stranded |
| `poll` | 2 keys, 2 values, 2 milliseconds, 3 writes, 1 failed query and one more within the outage | between rounds everything visible was told or will be (`NothingMissed`), and sooner or later it is (`CatchesUp`); `NoPhantomDelete`; implements `ChangeFeed` |
| `watch` | the zero scope and 2 tenants, 2 collections, 2 subscribers each, 2 moves, 2 faults | `OneScopePerCollection`, `StreamsAgain` |
| `client` | both kinds of Client, 1 key, 2 writers, 2 commits, 2 Starts, 1 loss or drop, 1 failed store call | `NeverAMiss`, `FreshVerdict`, `ConfirmedReads`, `CallsReturn` |
| `own` | as `client` | the disagreement of section 5 |

Each module also has a `TypeOK`, which holds on its instance and is not listed
among the runs' properties, because a theorem states it (`Debouncer`'s is only
checked). `WatchFeed.ClaimsStand` and `Activation.TrackedIffFed` (no cache without a
feed, no feed without a cache; `FollowsEvents` fails where it does) are theorems
too, and `Debouncer.PendingHasTimer` is a fact kept for a proof of that module.

Why these bounds. In `ScopeCache` keys interact only through the shared flag,
mailbox and worker, so one key carries the ordering properties and two the
liveness. Three commits are a row, its removal and its return: the case in
which revision 0 has to win over a row and to lose against the next; one loss
gives two connections and so overlapping reconciles; two faults are a failed
re-read and its failed retry, or a failed re-read and a failed `List`. Five
submissions on two keys give an entry three lives. Two states of a scope are an
old worker beside a new one. Five bring-ups let every event supersede an
activation that itself failed. In `listen` the reader's losses, failures and
notifications are unbounded; only feeds are counted, and two are an old and a
new feed of one scope. In `poll` two milliseconds are the boundary and what
follows it, three writes a value, its change and its removal, two keys let one
advance the watermark past the other. In `watch` two collections and three
scopes make every claim contested; two moves are an exchange. In `client` two
Starts are a failed or abandoned one and its retry, two writers and two commits
the inversion of two Sets; a key registered late is the same key absent at first.
Deadlock is checked everywhere but in `debounce`, where a closed debouncer has
nothing left to do; the other modules say in which states they may rest.

Symmetry is used in `cache_writes` (writers), `coordinator` (appliers) and `listen`
(subscribers), where only safety is checked.

Fairness, always weak:

* `ScopeCache`: the feed reconnects for ever, timers fire, store calls return or
  time out (each has a context with a deadline), locks are held for bounded work.
  Writes by others and losses are not fair.
* `Debouncer`: timers expire and their goroutines get the lock. Nobody has to
  call `Close`.
* `Dispatch`: publishers run, and each worker takes its own steps (`OwnStep`).
  `EndCallback` is not among them: that a callback returns is not assumed, and
  `DebtsSettled` excuses a worker that stays in one.
* `PollFeed`: the reader runs on its ticker and its queries have a deadline.
* `WatchFeed`: creators and readers run, their calls have deadlines, and each
  feed's steps are fair on their own. Nobody has to move or leave.
* `Client`: the goroutines inside `Start` and `Close` and the scope's worker run, a
  subscription ends, and the store sends the `OpResync` it promises. Nothing is
  assumed of the caller's context, and nobody has to call anything.
* `Activation`: the holder runs, subscribing is bounded by the store's timeouts,
  the cooldown passes, and the tenant keeps being read. No event has to occur.

## 4. Proofs

Every theorem is about all values of the constants: any keys, tenants,
subscribers, writers and bounds. The constants are assumed to be what the modules'
named `ASSUME`s say: bounds are naturals, the marks for "none" are not members of
the sets they complete (`EntryAssumption`: no cache entry is the mark for none),
the default is a value that is not refused, appliers and
publishers are different goroutines, and a group has a publisher (its one
`OnChange` subscription, `api_group.go`), without which nobody would bring the
document in force. No theorem needs fairness.

A module `X_proofs` starts with the inductive invariant of `X`, split into named
parts, and then has one lemma per part with one step per action; the properties
the runs check follow at the end of each layer. Each invariant was first checked
by TLC on the run's instance, and the larger ones on a second one.

`ScopeCache_proofs`; `TypeInv`, `OwnedInv`, `OrderInv`, `FactInv` and `ConvInv` are
each built over the one before:

* `TypeCorrect`. `TypeInv` is `TypeOK` with `WritersHold`: a writer about to
  publish holds the row it committed, which the type alone does not say.
* `StaleUntilResync`: `StaleWhileDisconnected`. Not inductive by itself, because
  `FinishReconcile` clears the flag: `ArmingsFenced` adds that while the link is
  down no arming, in the mailbox or with the worker, carries the current
  disconnect generation, so `MayClearStale` refuses.
* `Owned`, and from it `WindowsAreOwned`. `ArmingsDistinct` says that the
  mailbox and the worker hold different, already issued generations; without it,
  displacing the arming in the mailbox could close the worker's window.
* `Ordered`, the invariant `OrderInv` over `OwnedInv`. `RowsBehind`: nothing that
  travels (an event, a row held by a re-read, a snapshot or a writer) nor any entry
  is ahead of the row the store holds. `ArmingsNamed`: a worker at work has a
  window of its own. `SnapshotCurrent`: while a key's turn in the snapshot is to
  come the cache holds nothing newer for it, unless the window says it was
  touched. `FencesSound`: a re-read whose delete counter still stands has seen
  every removal reported so far.
* `SnapshotsNeverRegress`: a key the snapshot would take back is touched, so it is
  skipped. `RemovalsStand`: a row older than a reported removal fails its fence.
* `FactsHold`, the invariant `FactInv` over `OrderInv`, about what rows and entries
  say. `RowsSound`: a row in flight names its own commit, is the store's row if no
  commit came between, and is missing only since a removal. `EntriesSound`: an
  entry with a revision is of that very commit, one without is a removal's or from
  before any local write; this is what makes the comparison of revisions in
  `publish` a comparison of commits. `PublicationsSound`: an empty read whose
  publication counter still stands is no older than the cache. `SnapshotAcked`: a
  snapshot lacks no acknowledged write for an untouched key. It gives
  `AckedWritesRemain`, that is `AckedWritesStand`: the revision fence guards against
  rows, the counters against empty reads, the window against the snapshot.
* `KeysAccounted`, the invariant `ConvInv` over `FactInv`, and from it
  `FreshKeysConverge`, that is `Converged`. For each key that does not agree with the
  store it names what answers for it (`Accounted`): an overtaken decision (`late`);
  an event on the wire that tells of the key's present row (`Eventful`), a local
  write, a timer, a trailing or a running re-read (`Queued`); or the key is
  unconfirmed or will be (`Marked`). `Settles` says of a re-read, stage by stage,
  when it can be relied on: its fence still lets it through and its row is the
  store's, or it is a retry that will leave the key unconfirmed, or it is about to
  be named. A key has to be accounted for (`Claimed`) when the scope is fresh, and
  before that as soon as the running reconcile will not decide it rightly: its turn
  is over or its snapshot row out of date, the window says touched, or unusable
  with no row to fall back on, or a re-read of this window holds a row the store has
  moved past (`Raced`). Two parts look superfluous and are not. `Pressed`: where an
  outdated snapshot is about to confirm a key, the unconfirmed mark it will erase
  must not be all that accounts for it. And for a key outrun or pressed the row is
  there, or its removal is on the wire or already reported: only then does the
  delete counter refuse the outdated row.

`Dispatch_proofs`, in three layers:

* `Types`; `Order`: who is inside a scope's lock holds a publication newer than any
  submitted (`Locked`), the slot holds the newest one, unseen (`Newest`), and the
  worker hands out news, to each subscriber of its list once (`News`, `Roster`);
  `Debts`: what is owed is in the slot or on the list of a worker handing out the
  newest (`Placed`), and the busy mark is up from the wake-up on (`Marked`).
* `NoLostWakeUp`, `DebtsAreVisible`, `CloseIsFinal`, and `Refinement`: every step is
  a step of `Conflation` or a stutter. `Order` is what makes a delivery an allowed
  one there (increasing, once), `Debts` what makes a stop settle the debt.

`Activation_proofs`: one invariant, by where the holder of the slot is. Only the
holder creates and drops, so a feed is the one it has just opened, or the one of
the scope in the map, or of the scope the holder took out (`Building`, `Standing`,
`Dropping`); a holder nobody superseded builds for a tenant that is not blocked,
with the credentials in force (`Current`). The five invariants of the run are read
off it, with the slot free as a special case.

`Coordinator_proofs`, in three layers:

* `FanOut`: the flag `delivering` is one goroutine's, and what it has not recorded
  is what its calls returned. It gives `NothingDropped` and `PreviousInForce`.
* `Status`: the sequence numbers of arrivals, of the current observation and of the
  appliers are ordered (`Numbered`), and an error stands exactly for an applier
  that is behind with no fan-out to come for it (`Errors`). It gives
  `StatusTruthful` and, with `FanOut`, `NoneAhead`.
* `Upstream` and `Offered`: with no publisher to bring anything newer, the document
  in force has been committed, a seed that is armed is current, and whoever is
  marked with the current observation was called with it last. They give
  `NewestOffered`.

`WatchFeed_proofs`: `Exclusive` says that no two scopes claim one collection at any
phase, not only while streaming; `Sound` that past its claim an identified feed is
on the collection it claims; `ZeroSound` that a claim which a failed `Start` left
behind is the one the next attempt makes. They give `OneScopePerCollection` and
`ClaimsStand`.

`ListenFeed_proofs`, in three layers:

* `Types`: where the numbers of feeds point, that a reserved feed has one creator,
  and that references are counted.
* `Ownership`: who waits on what. A reserved feed of a tenant is in the map and has
  its creator; one that is live has a holder, somebody about to stop it, or
  `Close`. It gives `FeedsOwned`, `HoldersServed`, `NobodyStranded`.
* `Telltale`: at most one feed knows a subscriber, now or in a fan-out under way;
  whoever a marker has yet to reach has not heard it, and everybody else has. It
  gives `Informed`, `NoSelfWait` and `Refinement`, that the feeds implement
  `ChangeFeed` with each subscriber's markers and key events told apart.

`Client_proofs`, in two layers:

* `Boot`: the stages of a `Start` (`Starting`), that a failure it may still report is
  its own (`Verdict`), that the registry is frozen under a scope that may come up
  (`Frozen`), and that such a scope lacks no registered key but those the last
  step of the reconcile fills in (`Filled`, from `Touched`). It gives `FreshVerdict`
  and `NeverAMiss`.
* `Reads`: from the `List` on, every acknowledged write is in the photograph, or in
  the window and the cache; a `Set` bound to an earlier scope is in the photograph
  (`Photograph`); a row of it was applied or is recorded as passed over, or belongs
  to a key registered since, whose writes are newer (`Applied`); so a scope that
  turns fresh covers all of them (`Confirmed`). It gives `ConfirmedReads`. The
  exception there has to name the row passed over: with three `Set`s the middle one
  may be published after the reconcile while the last was acknowledged before it,
  so a mark that any later publication clears would not do.

`PollFeed_proofs`, in three layers:

* `Types`; `MarkInv`: an outage is announced exactly while the feed is marked
  disconnected, and nothing is said before the first marker. It gives `Refinement`,
  that the polled feed implements `ChangeFeed`.
* `RoundInv`: no stamp is ahead of the newest, and the values of the newest
  millisecond are those the watermark remembers (`ClockInv`); what the query found is
  what the collection holds but for what was written since (`BatchInv`); the known
  keys are those of the last complete snapshot (`KnownInv`); a key to be announced as
  deleted is not live unless it was written since the query (`DeleteInv`). It gives
  `NoPhantomDelete`.
* `OwedInv`: where the news of each key is, between rounds, while documents are
  read and while removals are told. A round that fails hands the old state on, so
  what it announced is told again and nothing is dropped. It gives `NothingMissed`.

What these proofs changed. Three exceptions that no small instance had asked for
turned up as proof steps that could not be closed, and each was then confirmed by
TLC at larger bounds and written into the property with its reason: a removal
that a re-read or a reconcile puts in force resets the revision fence and counts
no delete, so that a re-read under way may put back a row from before it (`gone` in
`AckedWritesStand`); a slow retry that answers with an outdated row confirms a key
that a later failed re-read had left unconfirmed (`"repair"`); and the tombstone a
round has just found hides an outright removal within that round (`Entombed`).

Only model-checked, and why:

* all liveness (`EventuallySettles`, `DebtsSettled`, `FollowsEvents`, `StreamsAgain`,
  `CatchesUp`, `PendingAnswered`, `CallsReturn`): fairness and `ENABLED` are beyond
  the prover;
* `Debouncer.LatestOfItsLife`: not attempted. The keys of a debouncer do not
  interact, and the run's five submissions already give an entry three lives with a
  late timer from each;
* the seven properties of section 5, which do not hold.

## 5. Where the code and its documentation disagree

The run `own`. `internal/client/set.go:32-33` says "A nil return therefore means
the next read in this process serves this write or something newer", and
`README.md:87-89` repeats it. On a tenant-managed Client two Sets of one key
commit revisions 1 and 2. The second finds no scope to publish into and returns
nil, since a read would go to the row. A read activates the tenant, its
feed joins after both commits and its reconcile lists revision 2. Now the first
Set resolves the new scope and publishes revision 1 into the open window; the key
is touched, the reconcile skips its row (`reconcile.go:381`) and clears stale.
Reads serve revision 1 as confirmed, until the key is written again or
the feed reconnects.

Six further configurations state what the code says of itself and are violated.
They are short, and are run by hand:

| Configuration | Property | What the code says, and what the instance shows |
|---|---|---|
| `MCScopeCache_resync` | `ResyncConverges` | `internal/engine/reconcile.go:47-49` calls `onResync` "the convergence guarantee". A re-read armed before the loss that publishes after the new window opened marks its key touched there, and the reconcile skips the newer row: the same window rule as in `own`. |
| `MCScopeCache_acked` | `AckedWritesVisible` | `set.go:32-33` again: a `Set` and a concurrent `Delete` publish in the opposite order of their commits; the deleted value is served until the delete's notification has been re-read. |
| `MCDispatch_reactivate` | `NeverBackwards` | `internal/client/onchange.go:16-19`: a subscriber "never sees revisions out of order". A worker of a dropped scope that has taken its change is not waited for, and delivers it after, or beside, the worker of the re-activated scope. |
| `MCCoordinator_twice` | `NeverTwice` | `api_group.go:361-362`: the same revision and bytes are "never delivered twice". The watermark of a seed is spent on the first publication after it; when that is an older one still on its way, the seeded document is delivered again. |
| `MCPollFeed_delete` | `LateNotLost` | `pollOnce` "Diffs the live key set against the previous round's to catch the one delete that leaves nothing behind", and "a late delete beats a phantom one" (`mongodb_changestream.go:1618-1622`, `1721-1723`). A document announced in a round whose snapshot failed and removed before the next one was in no known set: its removal is lost, not late. |
| `MCWatchFeed_unidentified` | `OnlyIdentified` | `mongodb_changestream.go:350-353`: "no unidentified feed is ever admitted into service". The probe and the open are two calls: a server that fails the first and answers the second is streamed without a claim, and another scope may stream it too. |

## 6. Not modelled

* A polled tenant moved to another collection, where the watermark and the known
  keys of the old one are carried over.
* The subscribers of a MongoDB stream, since `ListenFeed` models the same code,
  and the schema and index setup of a collection.
* The composition of a whole `ScopeCache` with `Client` or `Activation`: each
  module reduces the others to what its own steps can see of them, and the
  contract between feed and cache is `ChangeFeed`.
* Value cloning, codec and reflection over group types, catalog and options,
  admin HTTP surface, tenant connectors, schema helpers, log wrappers: no
  protocol state, or I/O only. Connection, SQL and backoff delays are
  nondeterministic outcomes.
* `ListenFeed`'s liveness: its fair state graph is too large for TLC.
  `NobodyStranded`, `Informed` and the deadlock check stand for it.

## 7. Plan

The order was: the scope cache first, since every promise to a reader rests on
it; then what it stands on (debounce, LISTEN feeds) and what stands on it
(dispatch, coordinator), the life of scopes (activation), the second
backend (polling, change streams), and the Client around them; then the theorems
of section 4. What is left: `Debouncer.LatestOfItsLife`, from `PendingHasTimer`; and
the composition of `ScopeCache` with `ListenFeed` through `ChangeFeed`, whose two
halves are proved here one at a time.
