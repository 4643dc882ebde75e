----------------------------- MODULE ScopeCache -----------------------------
(***************************************************************************)
(* One tracked scope of the engine (internal/engine): the cache entries it *)
(* serves reads from, and every path by which a fact about the store       *)
(* reaches them.                                                           *)
(*                                                                         *)
(*   - the changefeed: per-key events, OpDisconnect and OpResync           *)
(*     (onEvent, markStale, onResync), re-reading the key off the feed;    *)
(*   - the reconcile worker: one List of the whole scope per OpResync,     *)
(*     applied row by row under its own pair of fences (reconcile.go);     *)
(*   - the process's own writers: Client.Set and Client.Delete, which      *)
(*     commit to the store and then publish into the cache.                *)
(*                                                                         *)
(* A fact travels for a while before it is applied, and every fence in the *)
(* engine is there because a fresher one may have been applied meanwhile.  *)
(* Every step that takes a lock of its own in the code is one action here; *)
(* what runs outside a lock may be delayed arbitrarily.                    *)
(***************************************************************************)
EXTENDS Naturals, Sequences, FiniteSets

CONSTANTS
  Keys,         \* the registered (namespace, key) pairs
  Values,       \* the values a row may hold
  Default,      \* the registered default, a member of Values
  Bad,          \* the values the registered validator or the decoder refuses
  Nothing,      \* no row in the store, no entry in the cache
  Writers,      \* goroutines of this process calling Client.Set and Client.Delete
  Windows,      \* the debounce settings: TRUE a window, FALSE none, re-reads run inline
  MaxCommits,   \* bound: commits to the store
  MaxLosses,    \* bound: losses of the changefeed connection
  MaxFaults     \* bound: failing store reads (Get or List)

ASSUME ValuesAssumption == Default \in Values /\ Bad \subseteq Values \ {Default}
ASSUME NothingAssumption == Nothing \notin Values
ASSUME WindowsAssumption == Windows \subseteq BOOLEAN
ASSUME BoundsAssumption == MaxCommits \in Nat /\ MaxLosses \in Nat /\ MaxFaults \in Nat

VARIABLES
  \* the store and its changefeed (external)
  db,            \* the committed row of each key
  commits,       \* commits so far: the revision sequence
  link,          \* the feed connection, as the feed goroutine knows it
  wire,          \* events of this connection not yet handed to the engine
  losses,        \* connections lost so far
  async,         \* whether this Client debounces; never changes
  faults,        \* store reads failed so far, and (history) the generation of
                 \* the reconcile whose List failed last
  \* scopeState
  entries,       \* the cache
  fences,        \* keyFence per key
  stale,         \* the connection's flag
  unconfirmed,   \* keys whose re-read and its retry could not answer
  disconnectGen, reconcileGen,
  windows,       \* the open reconcile windows, by generation
  resyncPending, \* the arming in the single-slot mailbox
  resyncSignal,  \* the buffered wake-up
  firstReconcile,\* "pending", then "ok" or "failed" for good
  again,         \* trailing re-reads owed, per key
  \* goroutines
  worker,        \* the scope's reconcile goroutine
  timers,        \* re-reads the debouncer holds or has just let go, per key
  readers,       \* re-reads in flight
  writers,       \* Client.Set and Client.Delete in flight
  \* history, read by no action
  basis,         \* the commit behind each cache entry
  acked,         \* the newest commit a writer was told is visible
  removedAt,     \* the newest removal the feed or Client.Delete reported
  gone,          \* the newest removal of each key's row from the store
  late           \* how the last decision on each key was overtaken, if it was

storeVars == <<db, commits, wire, gone>>
feedVars == <<link, losses, async>>
cacheVars == <<entries, fences, unconfirmed>>
armVars == <<disconnectGen, reconcileGen, resyncPending, resyncSignal>>
historyVars == <<basis, acked, removedAt, late>>
vars == <<db, commits, link, wire, losses, async, faults, entries, fences, stale,
          unconfirmed, disconnectGen, reconcileGen, windows, resyncPending,
          resyncSignal, firstReconcile, again, worker, timers, readers,
          writers, basis, acked, removedAt, gone, late>>

-----------------------------------------------------------------------------
(* Data.  A row carries its revision, its value and the commit that put it *)
(* there; revision 0 with value Nothing is a row that is not there.        *)

Row == [rev : Nat, val : Values \cup {Nothing}, at : Nat]
NoRow == [rev |-> 0, val |-> Nothing, at |-> 0]
Entry == [rev : Nat, val : Values]
ASSUME EntryAssumption == Nothing \notin Entry
KeyFence == [deletes : Nat, publications : Nat]
NoFence == [deletes |-> 0, publications |-> 0]
Window == [touched : SUBSET Keys, unusable : SUBSET Keys]
Arming == [reconcile : Nat, disconnect : Nat]
NoArming == [reconcile |-> 0, disconnect |-> 0]

FeedEvent == [op : {"upsert", "delete"}, key : Keys, at : Nat]

Present(row) == row.val # Nothing
Usable(row) == row.val \in Values \ Bad

(* A re-read is named by its key and its kind: the key's one tracked       *)
(* re-read, or the one repair retryRefresh allows per key and op.          *)
Kinds == {"refresh", "retryUpsert", "retryDelete"}
Readers == Keys \X Kinds
Key(r) == r[1]
Retried(r) == r[2] # "refresh"
RetryOf(k, deleted) == <<k, IF deleted THEN "retryDelete" ELSE "retryUpsert">>

Reader == [pc : {"idle", "start", "reading", "got", "grading", "repair"},
           deleted : BOOLEAN, fence : KeyFence, origin : KeyFence,
           row : Row, gen : Nat]
IdleReader == [pc |-> "idle", deleted |-> FALSE, fence |-> NoFence,
               origin |-> NoFence, row |-> NoRow, gen |-> 0]

Worker == [pc : {"idle", "woken", "taken", "applying"},
           arm : Arming, snap : [Keys -> Row], todo : SUBSET Keys]
IdleWorker == [pc |-> "idle", arm |-> NoArming,
               snap |-> [k \in Keys |-> NoRow], todo |-> {}]

Writer == [pc : {"idle", "written", "grading", "deleted"}, key : Keys \cup {Nothing}, row : Row]
IdleWriter == [pc |-> "idle", key |-> Nothing, row |-> NoRow]

Init ==
  /\ db \in [Keys -> {NoRow} \cup [rev : {1}, val : Values, at : {1}]]
  /\ commits = 1
  /\ link = "joined"
  /\ wire = << >>
  /\ losses = 0
  /\ async \in Windows
  /\ faults = [reads |-> 0, list |-> 0]
  /\ entries = [k \in Keys |-> Nothing]
  /\ fences = [k \in Keys |-> NoFence]
  /\ stale = TRUE
  /\ unconfirmed = {}
  /\ disconnectGen = 0
  /\ reconcileGen = 0
  /\ windows = [g \in {} |-> [touched |-> {}, unusable |-> {}]]
  /\ resyncPending = NoArming
  /\ resyncSignal = FALSE
  /\ firstReconcile = "pending"
  /\ again = [k \in Keys |-> "no"]
  /\ worker = IdleWorker
  /\ timers = [k \in Keys |-> {}]
  /\ readers = [r \in Readers |-> IdleReader]
  /\ writers = [w \in Writers |-> IdleWriter]
  /\ basis = [k \in Keys |-> 0]
  /\ acked = [k \in Keys |-> 0]
  /\ removedAt = [k \in Keys |-> 0]
  /\ gone = [k \in Keys |-> 0]
  /\ late = [k \in Keys |-> "no"]

-----------------------------------------------------------------------------
(* The store: commits and what the feed connection carries of them.        *)

Event(op, k, at) == [op |-> op, key |-> k, at |-> at]

(* The connection carries what is committed while it listens. *)
Carried(event) == IF link \in {"joined", "up"} THEN Append(wire, event) ELSE wire

(* An upsert draws a revision unless the row already holds the value.      *)
SetRow(k, v) ==
  /\ commits < MaxCommits
  /\ commits' = commits + 1
  /\ db' = IF db[k].val = v THEN db
           ELSE [db EXCEPT ![k] = [rev |-> commits + 1, val |-> v, at |-> commits + 1]]
  /\ wire' = Carried(Event("upsert", k, db'[k].at))
  /\ UNCHANGED gone

(* Removing a row that is not there changes nothing and notifies nobody.   *)
RemoveRow(k) ==
  /\ commits < MaxCommits
  /\ commits' = commits + 1
  /\ IF Present(db[k])
     THEN /\ db' = [db EXCEPT ![k] = [rev |-> 0, val |-> Nothing, at |-> commits + 1]]
          /\ wire' = Carried(Event("delete", k, commits + 1))
          /\ gone' = [gone EXCEPT ![k] = commits + 1]
     ELSE UNCHANGED <<db, wire, gone>>

(* Another process, or a local write whose store call reported an error    *)
(* after it had committed.                                                 *)
RemoteWrite ==
  /\ \E k \in Keys : \/ \E v \in Values : SetRow(k, v)
                     \/ Present(db[k]) /\ RemoveRow(k)
  /\ UNCHANGED <<feedVars, faults, cacheVars, stale, armVars, windows,
                 firstReconcile, again, worker, timers, readers, writers,
                 historyVars>>

(* Mutant: the re-read never compares the delete counter. *)
SupersededByDelete_Never(k, fence) == FALSE

-----------------------------------------------------------------------------
(* The revision fence and the key fences.                                  *)

(* Mutant: an empty read never asks what was published meanwhile. *)
SupersededByPublication_Never(k, fence) == FALSE

SupersededByDelete(k, fence) == fences[k].deletes # fence.deletes

SupersededByPublication(k, fence) == fences[k] # fence

(* What publish puts in force: nothing cached, no revision, a newer        *)
(* revision, or another value under the same one.                          *)
Accepts(k, rev, val) ==
  \/ entries[k] = Nothing
  \/ rev = 0
  \/ rev > entries[k].rev
  \/ rev = entries[k].rev /\ val # entries[k].val

(* publish: the key is confirmed whatever the fence says; marked re-marks  *)
(* it in the same critical section of the caller.                          *)
Publish(k, rev, val, deleted, at, marked) ==
  /\ unconfirmed' = (unconfirmed \ {k}) \cup marked
  /\ IF Accepts(k, rev, val)
     THEN /\ entries' = [entries EXCEPT ![k] = [rev |-> rev, val |-> val]]
          /\ fences' = [fences EXCEPT
               ![k] = [deletes |-> @.deletes + (IF deleted THEN 1 ELSE 0),
                       publications |-> @.publications + 1]]
          /\ basis' = [basis EXCEPT ![k] = at]
     ELSE UNCHANGED <<entries, fences, basis>>

(* ingestDefault: the registered default at revision 0. *)
IngestDefault(k, deleted, at) == Publish(k, 0, Default, deleted, at, {})

(* Mutant: the window stays open. *)
CloseWindow_Leaks(ws, gen) == ws

(* record: an outcome goes into every open window. *)
Record(k, usable) ==
  windows' = [g \in DOMAIN windows |->
    IF usable
    THEN [touched |-> windows[g].touched \cup {k},
          unusable |-> windows[g].unusable \ {k}]
    ELSE [windows[g] EXCEPT !.unusable = @ \cup {k}]]

CloseWindow(ws, gen) == [g \in DOMAIN ws \ {gen} |-> ws[g]]

(* What a read of k should find: the row, or the default when there is     *)
(* none.  A row the validator refuses leaves the last good value.          *)
Agrees(k) ==
  IF Present(db[k])
  THEN Usable(db[k]) => entries[k] = [rev |-> db[k].rev, val |-> db[k].val]
  ELSE entries[k] = [rev |-> 0, val |-> Default]

(* A key keeps the first name it was overtaken under, until decided again. *)
Tagged(k, name) == [late EXCEPT ![k] = IF @ = "no" THEN name ELSE @]

(* recordUnconfirmed: refused when anything was published since the first  *)
(* attempt began, whatever the publication knew.                           *)
RecordUnconfirmed(k, origin) ==
  /\ unconfirmed' = IF SupersededByPublication(k, origin) THEN unconfirmed
                    ELSE unconfirmed \cup {k}
  /\ late' = IF SupersededByPublication(k, origin) /\ ~Agrees(k)
             THEN Tagged(k, "repair") ELSE late

-----------------------------------------------------------------------------
(* The process's own writes: Client.Set and Client.Delete.                 *)

ClientSet(w) ==
  /\ writers[w].pc = "idle"
  /\ \E k \in Keys, v \in Values \ Bad :
       /\ SetRow(k, v)
       /\ writers' = [writers EXCEPT ![w] = [pc |-> "written", key |-> k, row |-> db'[k]]]
  /\ UNCHANGED <<feedVars, faults, cacheVars, stale, armVars, windows,
                 firstReconcile, again, worker, timers, readers, historyVars>>

ClientDelete(w) ==
  /\ writers[w].pc = "idle"
  /\ \E k \in Keys :
       /\ RemoveRow(k)
       /\ writers' = [writers EXCEPT ![w] = [pc |-> "deleted", key |-> k, row |-> db'[k]]]
  /\ UNCHANGED <<feedVars, faults, cacheVars, stale, armVars, windows,
                 firstReconcile, again, worker, timers, readers, historyVars>>

(* A local write applied after the store moved past it is overtaken. *)
WriteOvertaken(k, row) ==
  late' = [late EXCEPT ![k] = IF row.at # db[k].at THEN "write" ELSE "no"]

(* Engine.Publish, first half of ingest: the key is fenced as unusable     *)
(* before its value is graded.                                             *)
PublishBegin(w) ==
  /\ writers[w].pc = "written"
  /\ Record(writers[w].key, FALSE)
  /\ writers' = [writers EXCEPT ![w].pc = "grading"]
  /\ UNCHANGED <<storeVars, feedVars, faults, cacheVars, stale, armVars,
                 firstReconcile, again, worker, timers, readers, historyVars>>

(* Second half: publish and record, and the caller is told. *)
PublishEnd(w) ==
  LET k == writers[w].key  row == writers[w].row IN
  /\ writers[w].pc = "grading"
  /\ Publish(k, row.rev, row.val, FALSE, row.at, {})
  /\ Record(k, TRUE)
  /\ writers' = [writers EXCEPT ![w] = IdleWriter]
  /\ acked' = [acked EXCEPT ![k] = IF row.at > @ THEN row.at ELSE @]
  /\ WriteOvertaken(k, row)
  /\ UNCHANGED <<storeVars, feedVars, faults, stale, armVars, firstReconcile,
                 again, worker, timers, readers, removedAt>>

(* Engine.PublishDelete: one critical section. *)
PublishDelete(w) ==
  LET k == writers[w].key  row == writers[w].row IN
  /\ writers[w].pc = "deleted"
  /\ IngestDefault(k, TRUE, row.at)
  /\ Record(k, TRUE)
  /\ writers' = [writers EXCEPT ![w] = IdleWriter]
  /\ acked' = [acked EXCEPT ![k] = IF row.at > @ THEN row.at ELSE @]
  /\ removedAt' = [removedAt EXCEPT ![k] = IF row.at > @ THEN row.at ELSE @]
  /\ WriteOvertaken(k, row)
  /\ UNCHANGED <<storeVars, feedVars, faults, stale, armVars, firstReconcile,
                 again, worker, timers, readers>>

-----------------------------------------------------------------------------
(* The feed goroutine.  Between a loss and its OpDisconnect, and between a  *)
(* reconnect and its OpResync, the engine does not know yet.               *)

(* With no debounce window the re-read runs on the feed goroutine itself.  *)
FeedFree == async \/ \A k \in Keys : readers[<<k, "refresh">>].pc = "idle"

LoseConnection ==
  /\ link = "up"
  /\ losses < MaxLosses
  /\ link' = "lost"
  /\ losses' = losses + 1
  /\ wire' = << >>
  /\ UNCHANGED <<db, commits, gone, async, faults, cacheVars, stale, armVars, windows,
                 firstReconcile, again, worker, timers, readers, writers,
                 historyVars>>

(* onEvent, OpDisconnect: markStale. *)
MarkStale ==
  /\ stale' = TRUE
  /\ disconnectGen' = disconnectGen + 1

OnDisconnect ==
  /\ link = "lost"
  /\ FeedFree
  /\ link' = "down"
  /\ MarkStale
  /\ UNCHANGED <<storeVars, losses, async, faults, cacheVars, reconcileGen, windows,
                 resyncPending, resyncSignal, firstReconcile, again, worker,
                 timers, readers, writers, historyVars>>

Reconnect ==
  /\ link = "down"
  /\ link' = "joined"
  /\ UNCHANGED <<storeVars, losses, async, faults, cacheVars, stale, armVars, windows,
                 firstReconcile, again, worker, timers, readers, writers,
                 historyVars>>

(* Mutant: the wake-up is lost. *)
ArmReconcile_Silent ==
  LET gen == reconcileGen + 1
      kept == CloseWindow(windows, resyncPending.reconcile) IN
  /\ stale' = TRUE
  /\ reconcileGen' = gen
  /\ windows' = [g \in DOMAIN kept \cup {gen} |->
                   IF g = gen THEN [touched |-> {}, unusable |-> {}] ELSE kept[g]]
  /\ resyncPending' = [reconcile |-> gen, disconnect |-> disconnectGen]
  /\ UNCHANGED resyncSignal

(* armReconcile: a fresh window under a new generation, and the mailbox    *)
(* swapped; onResync closes the window of the arming it displaced.         *)
ArmReconcile ==
  LET gen == reconcileGen + 1
      kept == CloseWindow(windows, resyncPending.reconcile) IN
  /\ stale' = TRUE
  /\ reconcileGen' = gen
  /\ windows' = [g \in DOMAIN kept \cup {gen} |->
                   IF g = gen THEN [touched |-> {}, unusable |-> {}] ELSE kept[g]]
  /\ resyncPending' = [reconcile |-> gen, disconnect |-> disconnectGen]
  /\ resyncSignal' = TRUE

OnResync ==
  /\ link = "joined"
  /\ link' = "up"
  /\ ArmReconcile
  /\ UNCHANGED <<storeVars, losses, async, faults, cacheVars, disconnectGen,
                 firstReconcile, again, worker, timers, readers, writers,
                 historyVars>>

(* submitRefresh: the key's pending timer is replaced, and one that has    *)
(* fired already but not yet begun keeps running beside the new one.       *)
SubmitRefresh(k, op) ==
  IF async
  THEN /\ \/ timers' = [timers EXCEPT ![k] = {op}]
          \/ timers' = [timers EXCEPT ![k] = @ \cup {op}]
       /\ UNCHANGED readers
  ELSE /\ readers' = [readers EXCEPT ![<<k, "refresh">>] =
                        [IdleReader EXCEPT !.pc = "start", !.deleted = (op = "delete")]]
       /\ UNCHANGED timers

(* recordFeedDelete: both fences move at arrival, before the quiet window. *)
RecordFeedDelete(k) ==
  /\ Record(k, TRUE)
  /\ fences' = [fences EXCEPT ![k].deletes = @ + 1]

OnEvent ==
  /\ link = "up"
  /\ wire # << >>
  /\ FeedFree
  /\ wire' = Tail(wire)
  /\ LET ev == Head(wire)  k == ev.key IN
     /\ IF ev.op = "delete"
        THEN /\ RecordFeedDelete(k)
             /\ removedAt' = [removedAt EXCEPT ![k] = IF ev.at > @ THEN ev.at ELSE @]
        ELSE UNCHANGED <<windows, fences, removedAt>>
     /\ SubmitRefresh(k, ev.op)
  /\ UNCHANGED <<db, commits, gone, feedVars, faults, entries, unconfirmed, stale,
                 armVars, firstReconcile, again, worker, writers, basis,
                 acked, late>>

-----------------------------------------------------------------------------
(* Re-reads: trackedRefresh, refreshKey and retryRefresh.                  *)

(* beginRefresh: one tracked re-read per key; a notification landing       *)
(* mid-read owes one trailing read, a delete if any was.                   *)
TrackedRefresh(k, op) ==
  LET r == <<k, "refresh">> IN
  /\ op \in timers[k]
  /\ timers' = [timers EXCEPT ![k] = @ \ {op}]
  /\ IF readers[r].pc # "idle"
     THEN /\ again' = [again EXCEPT ![k] =
                         IF op = "delete" \/ @ = "delete" THEN "delete" ELSE "upsert"]
          /\ UNCHANGED readers
     ELSE /\ readers' = [readers EXCEPT ![r] =
                           [IdleReader EXCEPT !.pc = "start", !.deleted = (op = "delete")]]
          /\ UNCHANGED again
  /\ UNCHANGED <<storeVars, feedVars, faults, cacheVars, stale, armVars,
                 windows, firstReconcile, worker, writers, historyVars>>

(* The window open when the read began is not the one open now. *)
Straddles(r) == readers[r].gen # reconcileGen

(* The fence is read before the store call; the first attempt's is the     *)
(* origin its retry keeps.                                                 *)
ArmRead(r) ==
  /\ readers[r].pc = "start"
  /\ readers' = [readers EXCEPT
       ![r] = [@ EXCEPT !.pc = "reading", !.fence = fences[Key(r)],
                        !.origin = IF Retried(r) THEN readers[r].origin ELSE fences[Key(r)],
                        !.gen = reconcileGen]]
  /\ UNCHANGED <<storeVars, feedVars, faults, cacheVars, stale, armVars, windows,
                 firstReconcile, again, worker, timers, writers, historyVars>>

GetRow(r) ==
  /\ readers[r].pc = "reading"
  /\ readers' = [readers EXCEPT ![r] = [@ EXCEPT !.pc = "got", !.row = db[Key(r)]]]
  /\ UNCHANGED <<storeVars, feedVars, faults, cacheVars, stale, armVars, windows,
                 firstReconcile, again, worker, timers, writers, historyVars>>

(* An error, a timeout, or a panic recoverRefresh turns into one: the key  *)
(* is recorded unusable (recordFeedOutcome) before the repair is arranged. *)
GetFails(r) ==
  /\ readers[r].pc = "reading"
  /\ faults.reads < MaxFaults
  /\ faults' = [faults EXCEPT !.reads = @ + 1]
  /\ Record(Key(r), FALSE)
  /\ readers' = [readers EXCEPT ![r] = [@ EXCEPT !.pc = "repair", !.fence = NoFence]]
  /\ UNCHANGED <<storeVars, feedVars, cacheVars, stale, armVars, firstReconcile,
                 again, worker, timers, writers, historyVars>>

(* endRefresh: the trailing read, if one is owed. *)
EndRead(r, rs) ==
  LET k == Key(r)  owed == ~Retried(r) /\ again[k] # "no" IN
  /\ readers' = [rs EXCEPT ![r] =
       IF owed THEN [IdleReader EXCEPT !.pc = "start", !.deleted = (again[k] = "delete")]
       ELSE IdleReader]
  /\ again' = IF owed THEN [again EXCEPT ![k] = "no"] ELSE again

(* A re-read that ends after the store moved past it is overtaken in a     *)
(* window opened after it began, and where it confirms a key whose later   *)
(* change could not be read back.                                          *)
ReadOvertaken(r, decided) ==
  late' = [late EXCEPT ![Key(r)] =
    IF readers[r].row.at = db[Key(r)].at THEN IF decided THEN "no" ELSE @
    ELSE IF @ # "no" THEN @
    ELSE IF Straddles(r) THEN "reread"
    ELSE IF decided /\ Key(r) \in unconfirmed THEN "repair" ELSE "no"]

(* publishAbsentDelete: an empty read under a delete is the removal, unless *)
(* anything landed on the key since the read began.                        *)
PublishAbsentDelete(r) ==
  LET k == Key(r) IN
  /\ readers[r].pc = "got"
  /\ ~Present(readers[r].row)
  /\ readers[r].deleted
  /\ IF SupersededByPublication(k, readers[r].fence)
     THEN UNCHANGED <<cacheVars, windows, basis, late>>
     ELSE /\ IngestDefault(k, FALSE, readers[r].row.at)
          /\ Record(k, TRUE)
          /\ ReadOvertaken(r, TRUE)
  /\ EndRead(r, readers)
  /\ UNCHANGED <<storeVars, feedVars, faults, stale, armVars, firstReconcile,
                 worker, timers, writers, acked, removedAt>>

(* An empty read under an upsert says nothing; a retry that ends so leaves *)
(* the key unconfirmed.                                                    *)
NoRowForUpsert(r) ==
  /\ readers[r].pc = "got"
  /\ ~Present(readers[r].row)
  /\ ~readers[r].deleted
  /\ IF Retried(r) THEN RecordUnconfirmed(Key(r), readers[r].origin)
     ELSE UNCHANGED <<unconfirmed, late>>
  /\ EndRead(r, readers)
  /\ UNCHANGED <<storeVars, feedVars, faults, entries, fences, stale, armVars,
                 windows, firstReconcile, worker, timers, writers, basis, acked,
                 removedAt>>

(* ingest, first half: fenced as unusable before the validator runs. *)
IngestBegin(r) ==
  /\ readers[r].pc = "got"
  /\ Present(readers[r].row)
  /\ Record(Key(r), FALSE)
  /\ readers' = [readers EXCEPT ![r].pc = "grading"]
  /\ UNCHANGED <<storeVars, feedVars, faults, cacheVars, stale, armVars,
                 firstReconcile, again, worker, timers, writers, historyVars>>

(* What the second half may put in force. *)
Publishable(k, row, fence) == Usable(row) /\ ~SupersededByDelete(k, fence)

(* ingest, second half: a row the validator refused or a delete overtook   *)
(* is recorded unusable; any other is published and recorded as touched.   *)
IngestEnd(r) ==
  LET k == Key(r)
      row == readers[r].row
      publishable == Publishable(k, row, readers[r].fence) IN
  /\ readers[r].pc = "grading"
  /\ IF publishable
     THEN /\ Publish(k, row.rev, row.val, FALSE, row.at, {})
     ELSE UNCHANGED <<cacheVars, basis>>
  /\ ReadOvertaken(r, publishable)
  /\ Record(k, publishable)
  /\ EndRead(r, readers)
  /\ UNCHANGED <<storeVars, feedVars, faults, stale, armVars, firstReconcile,
                 worker, timers, writers, acked, removedAt>>

(* retryRefresh: a retry that failed again leaves the key unconfirmed; a   *)
(* first attempt arms one retry, unless one is pending for the key and op. *)
RetryRefresh(r) ==
  LET k == Key(r)
      slot == RetryOf(k, readers[r].deleted)
      free == readers[slot].pc = "idle" IN
  /\ readers[r].pc = "repair"
  /\ IF Retried(r)
     THEN /\ RecordUnconfirmed(k, readers[r].origin)
          /\ EndRead(r, readers)
     ELSE /\ UNCHANGED unconfirmed
          /\ EndRead(r, IF free
                        THEN [readers EXCEPT ![slot] =
                                [IdleReader EXCEPT !.pc = "start",
                                                   !.deleted = readers[r].deleted,
                                                   !.origin = readers[r].origin]]
                        ELSE readers)
          /\ late' = IF free THEN late ELSE Tagged(k, "repair")
  /\ UNCHANGED <<storeVars, feedVars, faults, entries, fences, stale, armVars,
                 windows, firstReconcile, worker, timers, writers, basis, acked,
                 removedAt>>

-----------------------------------------------------------------------------
(* The reconcile worker: runReconcileWorker, reconcileScope, applyScope.   *)

Superseded(arm) == reconcileGen # arm.reconcile

WorkerWakes ==
  /\ worker.pc = "idle"
  /\ resyncSignal
  /\ resyncSignal' = FALSE
  /\ worker' = [worker EXCEPT !.pc = "woken"]
  /\ UNCHANGED <<storeVars, feedVars, faults, cacheVars, stale, disconnectGen,
                 reconcileGen, resyncPending, windows, firstReconcile, again,
                 timers, readers, writers, historyVars>>

(* takeReconcile: the slot may have been emptied by an earlier wake-up. *)
TakeReconcile ==
  /\ worker.pc = "woken"
  /\ worker' = IF resyncPending = NoArming THEN IdleWorker
               ELSE [worker EXCEPT !.pc = "taken", !.arm = resyncPending]
  /\ resyncPending' = NoArming
  /\ UNCHANGED <<storeVars, feedVars, faults, cacheVars, stale, disconnectGen,
                 reconcileGen, resyncSignal, windows, firstReconcile, again,
                 timers, readers, writers, historyVars>>

(* Store.List: one consistent snapshot.  The checks on either side of the  *)
(* call are Abandon's.                                                     *)
List ==
  /\ worker.pc = "taken"
  /\ worker' = [worker EXCEPT !.pc = "applying", !.snap = db, !.todo = Keys]
  /\ UNCHANGED <<storeVars, feedVars, faults, cacheVars, stale, armVars, windows,
                 firstReconcile, again, timers, readers, writers, historyVars>>

(* finishFirstReconcile fires once. *)
FinishFirstReconcile(outcome) ==
  firstReconcile' = IF firstReconcile = "pending" THEN outcome ELSE firstReconcile

(* An error or a panic: the window closes and the scope stays stale. *)
ListFails ==
  /\ worker.pc = "taken"
  /\ faults.reads < MaxFaults
  /\ faults' = [reads |-> faults.reads + 1, list |-> worker.arm.reconcile]
  /\ FinishFirstReconcile("failed")
  /\ windows' = CloseWindow(windows, worker.arm.reconcile)
  /\ worker' = IdleWorker
  /\ UNCHANGED <<storeVars, feedVars, cacheVars, stale, armVars, again, timers,
                 readers, writers, historyVars>>

(* A newer OpResync owns the scope: the snapshot is abandoned, at the      *)
(* check before List, at the one after it or at any row.                   *)
Abandon ==
  /\ worker.pc = "taken" \/ worker.todo # {}
  /\ Superseded(worker.arm)
  /\ windows' = CloseWindow(windows, worker.arm.reconcile)
  /\ worker' = IdleWorker
  /\ UNCHANGED <<storeVars, feedVars, faults, cacheVars, stale, armVars,
                 firstReconcile, again, timers, readers, writers, historyVars>>

(* Mutant: the reconcile does not look at what the feed published. *)
Touched_Never(k) == FALSE

(* The window the arming carries. *)
Touched(k) == k \in windows[worker.arm.reconcile].touched
Unusable(k) == k \in windows[worker.arm.reconcile].unusable

(* A default published from a snapshot older than the change a failed      *)
(* re-read was sent for confirms the key: the repair is overtaken.         *)
Decided(k, confirms) ==
  late' = [late EXCEPT ![k] =
    IF worker.snap[k].at = db[k].at THEN "no"
    ELSE IF confirms /\ Unusable(k) THEN "repair" ELSE @]

(* Mutant: the snapshot row confirms the key. *)
Reopened_Never(k) == {}

(* A snapshot row confirms nothing the feed failed to read back. *)
Reopened(k) == IF Unusable(k) THEN {k} ELSE {}

(* applySnapshotRow *)
ApplySnapshotRow(k) ==
  LET row == worker.snap[k] IN
  /\ k \in worker.todo
  /\ Present(row)
  /\ ~Superseded(worker.arm)
  /\ worker' = [worker EXCEPT !.todo = @ \ {k}]
  /\ \/ /\ Touched(k)
        /\ UNCHANGED <<cacheVars, basis, late>>
     \/ /\ ~Touched(k)
        /\ Usable(row)
        /\ Publish(k, row.rev, row.val, FALSE, row.at, Reopened(k))
        /\ Decided(k, FALSE)
     \/ /\ ~Touched(k)
        /\ ~Usable(row)
        /\ IF entries[k] = Nothing
           THEN IngestDefault(k, FALSE, row.at) /\ Decided(k, TRUE)
           ELSE UNCHANGED <<cacheVars, basis, late>>
  /\ UNCHANGED <<storeVars, feedVars, faults, stale, armVars, windows,
                 firstReconcile, again, timers, readers, writers, acked,
                 removedAt>>

(* keepsCachedValue: whether, and whether the cache agrees with absence. *)
Agreed(k) == entries[k] = [rev |-> 0, val |-> Default]
KeepsCachedValue(k) ==
  Touched(k) \/ (entries[k] # Nothing /\ (Unusable(k) \/ Agreed(k)))

(* applyAbsentKey: once the rows are done, each key the snapshot lacks. *)
ApplyAbsentKey(k) ==
  /\ k \in worker.todo
  /\ \A other \in worker.todo : ~Present(worker.snap[other])
  /\ ~Superseded(worker.arm)
  /\ worker' = [worker EXCEPT !.todo = @ \ {k}]
  /\ IF KeepsCachedValue(k)
     THEN /\ unconfirmed' = IF ~Touched(k) /\ ~Unusable(k) THEN unconfirmed \ {k}
                            ELSE unconfirmed
          /\ UNCHANGED <<entries, fences, basis, late>>
     ELSE IngestDefault(k, FALSE, worker.snap[k].at) /\ Decided(k, TRUE)
  /\ UNCHANGED <<storeVars, feedVars, faults, stale, armVars, windows,
                 firstReconcile, again, timers, readers, writers, acked,
                 removedAt>>

(* Mutant: only the window generation is compared. *)
MayClearStale_WindowOnly(arm) == ~Superseded(arm)

(* clearStale: fenced by both generations. *)
MayClearStale(arm) == ~Superseded(arm) /\ disconnectGen = arm.disconnect

(* The snapshot is applied: clearStale, the first outcome, the window. *)
FinishReconcile ==
  /\ worker.pc = "applying"
  /\ worker.todo = {}
  /\ stale' = IF MayClearStale(worker.arm) THEN FALSE ELSE stale
  /\ FinishFirstReconcile("ok")
  /\ windows' = CloseWindow(windows, worker.arm.reconcile)
  /\ worker' = IdleWorker
  /\ UNCHANGED <<storeVars, feedVars, faults, cacheVars, armVars, again, timers,
                 readers, writers, historyVars>>

-----------------------------------------------------------------------------
(* Nothing is in flight and the connection is up: what the cache holds is  *)
(* what it will hold until somebody writes again.                          *)
Idle ==
  /\ link = "up"
  /\ wire = << >>
  /\ worker.pc = "idle" /\ ~resyncSignal
  /\ \A k \in Keys : timers[k] = {}
  /\ \A r \in Readers : readers[r].pc = "idle"
  /\ \A w \in Writers : writers[w].pc = "idle"

(* Every budget spent and nothing in flight. *)
AtRest == Idle /\ UNCHANGED vars

Next ==
  \/ RemoteWrite
  \/ LoseConnection \/ OnDisconnect \/ Reconnect \/ OnResync \/ OnEvent
  \/ \E w \in Writers : \/ ClientSet(w) \/ ClientDelete(w)
                        \/ PublishBegin(w) \/ PublishEnd(w) \/ PublishDelete(w)
  \/ \E k \in Keys, op \in {"upsert", "delete"} : TrackedRefresh(k, op)
  \/ \E r \in Readers : \/ ArmRead(r) \/ GetRow(r) \/ GetFails(r)
                        \/ PublishAbsentDelete(r) \/ NoRowForUpsert(r)
                        \/ IngestBegin(r) \/ IngestEnd(r) \/ RetryRefresh(r)
  \/ WorkerWakes \/ TakeReconcile \/ List \/ ListFails \/ Abandon
  \/ \E k \in Keys : ApplySnapshotRow(k) \/ ApplyAbsentKey(k)
  \/ FinishReconcile
  \/ AtRest

Spec == Init /\ [][Next]_vars

-----------------------------------------------------------------------------
(* Properties.                                                             *)

(* Type invariant of the scope's state. *)
TypeOK ==
  /\ db \in [Keys -> Row]
  /\ commits \in Nat
  /\ link \in {"up", "lost", "down", "joined"}
  /\ wire \in Seq(FeedEvent)
  /\ losses \in Nat
  /\ async \in BOOLEAN
  /\ faults \in [reads : Nat, list : Nat]
  /\ entries \in [Keys -> Entry \cup {Nothing}]
  /\ fences \in [Keys -> KeyFence]
  /\ stale \in BOOLEAN
  /\ unconfirmed \in SUBSET Keys
  /\ disconnectGen \in Nat
  /\ reconcileGen \in Nat
  /\ DOMAIN windows \in SUBSET Nat
  /\ windows \in [DOMAIN windows -> Window]
  /\ resyncPending \in Arming
  /\ resyncSignal \in BOOLEAN
  /\ firstReconcile \in {"pending", "ok", "failed"}
  /\ again \in [Keys -> {"no", "upsert", "delete"}]
  /\ worker \in Worker
  /\ timers \in [Keys -> SUBSET {"upsert", "delete"}]
  /\ readers \in [Readers -> Reader]
  /\ writers \in [Writers -> Writer]
  /\ basis \in [Keys -> Nat]
  /\ acked \in [Keys -> Nat]
  /\ removedAt \in [Keys -> Nat]
  /\ gone \in [Keys -> Nat]
  /\ late \in [Keys -> {"no", "write", "reread", "repair"}]

(* Lookup's Stale, negated. *)
Fresh(k) == ~stale /\ k \notin unconfirmed

ConvergedExcept(names) ==
  Idle => \A k \in Keys : Fresh(k) /\ late[k] \notin names => Agrees(k)

(* With nothing in flight, a key the engine reports fresh holds what the   *)
(* store holds, whatever order events, re-reads, repairs, reconciles and   *)
(* local writes were applied in.  The three ways late names are the only   *)
(* ones in which the code gives this up.                                   *)
Converged == ConvergedExcept({"write", "reread", "repair"})

(* onResync calls itself the convergence guarantee: a value written while  *)
(* the feed was down becomes visible without a second write.  It does not  *)
(* when a re-read from before the loss lands in the new window.            *)
ResyncConverges == ConvergedExcept({"write", "repair"})

(* Client.Set's promise to its caller: after a nil return reads serve this *)
(* write or something newer.                                               *)
AckedWritesVisible == \A k \in Keys : basis[k] >= acked[k]

(* The same, unless a local write was itself applied after the store had   *)
(* moved past it, or the row was removed since: no re-read, repair or      *)
(* reconcile takes it back.  A removal that a re-read or a reconcile has   *)
(* put in force resets the revision fence without counting a delete, and a *)
(* re-read that was under way may then put back a row from before it.      *)
AckedWritesStand ==
  \A k \in Keys : late[k] = "write" \/ basis[k] >= acked[k] \/ gone[k] > acked[k]

(* Every open window belongs to the arming in the mailbox or to the        *)
(* reconcile running: none leaks, and none is closed under its owner.      *)
WindowsOwned ==
  DOMAIN windows = {resyncPending.reconcile, worker.arm.reconcile} \ {0}

(* Between OpDisconnect and the OpResync after it the scope reports stale, *)
(* whatever reconcile of the lost connection finishes meanwhile.           *)
StaleWhileDisconnected == link \in {"down", "joined"} => stale

(* A reconcile never replaces what the cache holds by an older snapshot.   *)
SnapshotNeverRegresses ==
  [][worker' # worker => \A k \in Keys : basis'[k] >= basis[k]]_vars

(* A re-read never puts back a row whose removal the feed or Client.Delete *)
(* has already reported.                                                   *)
RemovalStands ==
  [][readers' # readers =>
       \A k \in Keys : basis'[k] # basis[k] => basis'[k] >= removedAt[k]]_vars

-----------------------------------------------------------------------------
(* Every goroutine that can take a step takes one: the feed reconnects     *)
(* for ever, timers fire, store calls return or time out, and locks are    *)
(* held for bounded work only.                                             *)
Fairness ==
  /\ WF_vars(OnDisconnect) /\ WF_vars(Reconnect) /\ WF_vars(OnResync)
  /\ WF_vars(OnEvent)
  /\ \A w \in Writers : WF_vars(PublishBegin(w) \/ PublishEnd(w) \/ PublishDelete(w))
  /\ \A k \in Keys, op \in {"upsert", "delete"} : WF_vars(TrackedRefresh(k, op))
  /\ \A r \in Readers :
       WF_vars(\/ ArmRead(r) \/ GetRow(r) \/ GetFails(r) \/ PublishAbsentDelete(r)
               \/ NoRowForUpsert(r) \/ IngestBegin(r) \/ IngestEnd(r) \/ RetryRefresh(r))
  /\ WF_vars(\/ WorkerWakes \/ TakeReconcile \/ List \/ ListFails \/ Abandon
             \/ (\E k \in Keys : ApplySnapshotRow(k) \/ ApplyAbsentKey(k))
             \/ FinishReconcile)

FairSpec == Spec /\ Fairness

(* Once writes and failures stop, the work in flight drains, and the scope *)
(* stops reporting stale, unless the List of its last OpResync failed: no  *)
(* reconnect came after it.  An earlier failed List, and any failed Get,   *)
(* excuses nothing.                                                        *)
EventuallySettles == <>[](Idle /\ (stale => faults.list = reconcileGen))
=============================================================================
