------------------------------- MODULE Client -------------------------------
(***************************************************************************)
(* The Client as its callers see it: Register, Start, Set, the reads and   *)
(* Close, around one scope of the engine.  On a single-tenant Client that  *)
(* is the zero scope, which Start brings up; on a tenant-managed one it is *)
(* the scope of a tenant, which a read that misses brings up and a         *)
(* lifecycle event drops at any moment.                                    *)
(*                                                                         *)
(* The engine's cache is reduced to the revision it holds for each key,    *)
(* one reconcile at a time and one feed connection: its races are those of *)
(* ScopeCache, a tenant's activation is Activation's.  Client.Delete       *)
(* passes the same checks as Set and is left to ScopeCache.  What is kept  *)
(* whole here is the lifecycle: who holds startMu, when the Client counts  *)
(* as started, when the registry freezes, which scope a write reaches.     *)
(***************************************************************************)
EXTENDS Integers, FiniteSets

CONSTANTS
  Keys,         \* the keys the service may register
  Writers,      \* goroutines calling Client.Set
  MaxCommits,   \* bound: rows written
  MaxStarts,    \* bound: calls of Start
  MaxLosses,    \* bound: feed connections lost and tenant scopes dropped
  MaxFaults     \* bound: failing calls of the store

ASSUME KeysAssumption == IsFiniteSet(Keys) /\ Keys # {}
ASSUME BoundsAssumption ==
  {MaxCommits, MaxStarts, MaxLosses, MaxFaults} \subseteq Nat

VARIABLES
  multiTenant,  \* WithMultiTenantEnabled and a tenant manager; never changes
  registry,     \* the registered keys
  started, registryFrozen, closed,
  starter,      \* the call of Start in progress, which holds startMu
  closer,       \* the call of Close
  engineClosed,
  scope,        \* the scopeState tracked for this scope, or the last one dropped
  link,         \* the feed connection of that scope
  reconcile,    \* the reconcile the scope's worker is running
  writers,      \* the Sets in progress
  rows,         \* the store: the revision of each row, 0 for none (external)
  acked,        \* history: the newest revision a nil Set returned for
  skipped,      \* history: the newer row the last reconcile passed over, 0 for none
  earlier,      \* history: the store's failures before the last Start was called
  commits, starts, losses, faults

lifecycle == <<started, registryFrozen, closed, engineClosed>>
bounds == <<starts, losses, faults>>
stored == <<rows, commits>>
history == <<acked, skipped, earlier>>
vars == <<multiTenant, registry, started, registryFrozen, closed, starter,
          closer, engineClosed, scope, link, reconcile, writers, rows, acked,
          skipped, earlier, commits, starts, losses, faults>>

-----------------------------------------------------------------------------
Unpublished == -1
Revisions == 0 .. MaxCommits

Starter == [pc : {"idle", "store", "scope", "subscribe", "wait"}, expired : BOOLEAN]
IdleStarter == [pc |-> "idle", expired |-> FALSE]

\* id tells one scopeState from the next under the same scope value.
Scope == [id : 0 .. MaxStarts + MaxLosses + MaxFaults + 1, tracked : BOOLEAN,
          first : {"pending", "ok", "failed"}, stale : BOOLEAN,
          cache : [Keys -> Revisions \cup {Unpublished}]]
NewScope(id) == [id |-> id, tracked |-> TRUE, first |-> "pending", stale |-> TRUE,
                 cache |-> [k \in Keys |-> Unpublished]]

\* touched is the reconcile's window; lost says the connection went away since.
Reconcile == [pc : {"idle", "armed", "listed", "rows"}, touched : SUBSET Keys,
              lost : BOOLEAN, snap : [Keys -> Revisions]]
NoReconcile == [pc |-> "idle", touched |-> {}, lost |-> FALSE,
                snap |-> [k \in Keys |-> 0]]

Writer == [pc : {"idle", "admitted", "written", "resolved"}, key : Keys,
           rev : Revisions, id : 0 .. MaxStarts + MaxLosses + MaxFaults + 1]
NoWrite == [pc |-> "idle", key |-> CHOOSE k \in Keys : TRUE, rev |-> 0, id |-> 0]

Init ==
  /\ multiTenant \in BOOLEAN
  /\ registry = {}
  /\ started = FALSE /\ registryFrozen = FALSE /\ closed = FALSE
  /\ starter = IdleStarter
  /\ closer = "idle"
  /\ engineClosed = FALSE
  /\ scope = [NewScope(0) EXCEPT !.tracked = FALSE]
  /\ link = "none"
  /\ reconcile = NoReconcile
  /\ writers = [w \in Writers |-> NoWrite]
  /\ rows = [k \in Keys |-> 0]
  /\ acked = [k \in Keys |-> 0]
  /\ skipped = [k \in Keys |-> 0]
  /\ earlier = 0 /\ commits = 0 /\ starts = 0 /\ losses = 0 /\ faults = 0

\* startMu is held by a Start from its checks to its return and by a Close
\* from its first step; Register takes it for its own single step.
StartMuFree == starter.pc = "idle" /\ closer \in {"idle", "asked", "done"}

Larger(a, b) == IF a > b THEN a ELSE b

-----------------------------------------------------------------------------
(* Register.                                                               *)

\* registryFrozen is not read.
Register_Thawed(k) ==
  /\ ~closed /\ StartMuFree /\ ~started
  /\ k \notin registry
  /\ registry' = registry \cup {k}
  /\ UNCHANGED <<multiTenant, lifecycle, starter, closer, scope, link,
                 reconcile, writers, stored, history, bounds>>

Register(k) ==
  /\ ~closed /\ StartMuFree
  /\ ~started /\ ~registryFrozen
  /\ k \notin registry
  /\ registry' = registry \cup {k}
  /\ UNCHANGED <<multiTenant, lifecycle, starter, closer, scope, link,
                 reconcile, writers, stored, history, bounds>>

-----------------------------------------------------------------------------
(* The scope: tracked before its feed opens, so that nothing the feed or a *)
(* writer says is lost between the two; dropped with everything it held.   *)

TrackNewScope ==
  /\ scope' = NewScope(scope.id + 1)
  /\ link' = "none"
  /\ reconcile' = NoReconcile

DropScope ==
  /\ scope' = [scope EXCEPT !.tracked = FALSE]
  /\ link' = "none"
  /\ reconcile' = NoReconcile

\* A tenant's read misses and Activate finds no scope of the tenant's.
Activate ==
  /\ multiTenant /\ ~closed /\ ~engineClosed
  /\ registry # {}
  /\ ~scope.tracked
  /\ scope.id < MaxStarts + MaxLosses + MaxFaults + 1
  /\ TrackNewScope
  /\ UNCHANGED <<multiTenant, registry, lifecycle, starter, closer, writers,
                 stored, history, bounds>>

\* An activation whose first reconcile failed, or a lifecycle event.
DropTenant ==
  /\ multiTenant /\ ~engineClosed
  /\ scope.tracked
  /\ \/ scope.first = "failed" /\ losses' = losses
     \/ losses < MaxLosses /\ losses' = losses + 1
  /\ DropScope
  /\ UNCHANGED <<multiTenant, registry, lifecycle, starter, closer, writers,
                 stored, history, starts, faults>>

-----------------------------------------------------------------------------
(* Start.  startMu is held from the first step to the last.                *)

StartBegins ==
  /\ StartMuFree /\ ~closed /\ ~started
  /\ starts < MaxStarts
  /\ starts' = starts + 1
  /\ earlier' = faults
  /\ starter' = [pc |-> "store", expired |-> FALSE]
  /\ UNCHANGED <<multiTenant, registry, lifecycle, closer, scope, link,
                 reconcile, writers, stored, acked, skipped, losses, faults>>

\* The caller's context ends; nothing makes it.
ContextEnds ==
  /\ starter.pc # "idle" /\ ~starter.expired
  /\ starter' = [starter EXCEPT !.expired = TRUE]
  /\ UNCHANGED <<multiTenant, registry, lifecycle, closer, scope, link,
                 reconcile, writers, stored, history, bounds>>

StoreStarts ==
  /\ starter.pc = "store"
  /\ \/ /\ started' = TRUE
        /\ starter' = IF multiTenant THEN IdleStarter ELSE [starter EXCEPT !.pc = "scope"]
        /\ faults' = faults
     \/ /\ starter.expired \/ faults < MaxFaults
        /\ faults' = IF starter.expired THEN faults ELSE faults + 1
        /\ starter' = IdleStarter
        /\ started' = started
  /\ UNCHANGED <<multiTenant, registry, registryFrozen, closed, engineClosed,
                 closer, scope, link, reconcile, writers, stored, history,
                 starts, losses>>

\* A failed scope is waited on again like a pending one.
FailedScope_Kept == FALSE

FailedScope == scope.tracked /\ scope.first = "failed"

\* retryFailedScope and scopeFor: a scope whose first reconcile failed is
\* replaced, one whose first reconcile is pending is waited on again.
StartBringsUp ==
  /\ starter.pc = "scope"
  /\ IF FailedScope \/ ~scope.tracked
     THEN TrackNewScope ELSE UNCHANGED <<scope, link, reconcile>>
  /\ starter' = [starter EXCEPT
       !.pc = IF FailedScope \/ link = "none" THEN "subscribe" ELSE "wait"]
  /\ UNCHANGED <<multiTenant, registry, lifecycle, closer, writers, stored, history,
                 bounds>>

\* Store.Subscribe, for Start or for a tenant's activation.
Subscribe ==
  /\ ~engineClosed
  /\ scope.tracked /\ link = "none"
  /\ multiTenant \/ starter.pc = "subscribe"
  /\ link' = "joined"
  /\ starter' = IF multiTenant THEN starter ELSE [starter EXCEPT !.pc = "wait"]
  /\ UNCHANGED <<multiTenant, registry, lifecycle, closer, scope, reconcile,
                 writers, stored, history, bounds>>

\* What Start leaves when the engine did not come up.
RollBack ==
  /\ started' = FALSE
  /\ registryFrozen' = starter.expired
  /\ starter' = IdleStarter

\* The half-built scope is dropped; an activation is retried by a later read.
SubscribeFails ==
  /\ ~engineClosed
  /\ scope.tracked /\ link = "none"
  /\ faults < MaxFaults
  /\ faults' = faults + 1
  /\ DropScope
  /\ \/ multiTenant /\ UNCHANGED <<started, registryFrozen, starter>>
     \/ starter.pc = "subscribe" /\ RollBack
  /\ UNCHANGED <<multiTenant, registry, closed, engineClosed, closer, writers,
                 stored, history, starts, losses>>

\* The select on the first reconcile and the caller's context: either branch
\* when both are ready.
StartReturns ==
  /\ starter.pc = "wait"
  /\ \/ /\ scope.first = "ok"
        /\ starter' = IdleStarter
        /\ UNCHANGED <<started, registryFrozen>>
     \/ /\ scope.first = "failed" \/ starter.expired
        /\ RollBack
  /\ UNCHANGED <<multiTenant, registry, closed, engineClosed, closer, scope,
                 link, reconcile, writers, stored, history, bounds>>

-----------------------------------------------------------------------------
(* The feed and the reconcile.                                             *)

\* The OpResync the store promises after every connect opens a new window and
\* supersedes the reconcile in progress.
Resync ==
  /\ ~engineClosed
  /\ scope.tracked /\ link \in {"joined", "down"}
  /\ link' = "up"
  /\ reconcile' = [NoReconcile EXCEPT !.pc = "armed"]
  /\ UNCHANGED <<multiTenant, registry, lifecycle, starter, closer, scope,
                 writers, stored, history, bounds>>

Disconnect ==
  /\ ~engineClosed
  /\ link = "up" /\ losses < MaxLosses
  /\ losses' = losses + 1
  /\ link' = "down"
  /\ scope' = [scope EXCEPT !.stale = TRUE]
  /\ reconcile' = [reconcile EXCEPT !.lost = reconcile.pc # "idle"]
  /\ UNCHANGED <<multiTenant, registry, lifecycle, starter, closer, writers,
                 stored, history, starts, faults>>

\* A publication is a fact the open window must not overwrite.
Record(k) ==
  reconcile' = [reconcile EXCEPT
    !.touched = IF reconcile.pc = "idle" THEN @ ELSE @ \cup {k}]

\* A change of a registered row, re-read and published.
Refresh(k) ==
  /\ ~engineClosed
  /\ link = "up" /\ k \in registry
  /\ rows[k] > scope.cache[k]
  /\ scope' = [scope EXCEPT !.cache[k] = rows[k]]
  /\ Record(k)
  /\ UNCHANGED <<multiTenant, registry, lifecycle, starter, closer, link,
                 writers, stored, history, bounds>>

\* finishFirstReconcile: the first outcome stands.
Finish(outcome) == IF scope.first = "pending" THEN outcome ELSE scope.first

List ==
  /\ ~engineClosed
  /\ reconcile.pc = "armed"
  /\ reconcile' = [reconcile EXCEPT !.pc = "listed", !.snap = rows]
  /\ UNCHANGED <<multiTenant, registry, lifecycle, starter, closer, scope, link,
                 writers, stored, history, bounds>>

\* The failure tells nobody.
ListFails_Silent ==
  /\ ~engineClosed
  /\ reconcile.pc = "armed" /\ faults < MaxFaults
  /\ faults' = faults + 1
  /\ reconcile' = NoReconcile
  /\ UNCHANGED <<multiTenant, registry, lifecycle, starter, closer, scope, link,
                 writers, stored, history, starts, losses>>

ListFails ==
  /\ ~engineClosed
  /\ reconcile.pc = "armed" /\ faults < MaxFaults
  /\ faults' = faults + 1
  /\ reconcile' = NoReconcile
  /\ scope' = [scope EXCEPT !.first = Finish("failed")]
  /\ UNCHANGED <<multiTenant, registry, lifecycle, starter, closer, link,
                 writers, stored, history, starts, losses>>

\* The window is not read.
Untouched_Any(k) == TRUE

Untouched(k) == k \notin reconcile.touched

\* The rows of the photograph, for the keys registered by now: a first
\* publication or a newer revision.
ApplySnapshotRows ==
  /\ ~engineClosed
  /\ reconcile.pc = "listed"
  /\ reconcile' = [reconcile EXCEPT !.pc = "rows"]
  /\ scope' = [scope EXCEPT !.cache =
       [k \in Keys |-> IF k \in registry /\ reconcile.snap[k] > 0 /\ Untouched(k)
                       THEN Larger(@[k], reconcile.snap[k]) ELSE @[k]]]
  /\ skipped' = [k \in Keys |-> IF k \in registry /\ ~Untouched(k)
                                    /\ reconcile.snap[k] > scope.cache[k]
                                THEN reconcile.snap[k] ELSE 0]
  /\ UNCHANGED <<multiTenant, registry, lifecycle, starter, closer, link,
                 writers, stored, acked, earlier, bounds>>

\* The registered keys the photograph did not carry get their default at
\* revision 0, which always wins; then the scope is fresh and Start is told.
ApplyAbsentKeys ==
  /\ ~engineClosed
  /\ reconcile.pc = "rows"
  /\ reconcile' = NoReconcile
  /\ scope' = [scope EXCEPT
       !.cache = [k \in Keys |-> IF k \in registry /\ reconcile.snap[k] = 0 /\ Untouched(k)
                                 THEN 0 ELSE @[k]],
       !.stale = @ /\ reconcile.lost,
       !.first = Finish("ok")]
  /\ UNCHANGED <<multiTenant, registry, lifecycle, starter, closer, link,
                 writers, stored, history, bounds>>

-----------------------------------------------------------------------------
(* Set.  The checks, the store, the scope and the cache are four steps.    *)

Move(w, write) == writers' = [writers EXCEPT ![w] = write]
Ack(w) == acked' = [acked EXCEPT ![writers[w].key] = Larger(@, writers[w].rev)]

\* The store stamps the row with the next revision (external).
Commit(k) ==
  /\ commits < MaxCommits
  /\ commits' = commits + 1
  /\ rows' = [rows EXCEPT ![k] = commits + 1]

SetBegins(w, k) ==
  /\ writers[w].pc = "idle"
  /\ ~closed /\ started /\ k \in registry
  /\ commits < MaxCommits
  /\ Move(w, [NoWrite EXCEPT !.pc = "admitted", !.key = k])
  /\ UNCHANGED <<multiTenant, registry, lifecycle, starter, closer, scope, link,
                 reconcile, stored, history, bounds>>

SetWrites(w) ==
  LET k == writers[w].key IN
  /\ writers[w].pc = "admitted"
  /\ \/ /\ closer # "done"
        /\ Commit(k)
        /\ Move(w, [writers[w] EXCEPT !.pc = "written", !.rev = commits + 1])
     \/ /\ Move(w, NoWrite)  \* the store refused the write
        /\ UNCHANGED stored
  /\ UNCHANGED <<multiTenant, registry, lifecycle, starter, closer, scope, link,
                 reconcile, history, bounds>>

\* writeScope, and what published() makes of a scope the engine does not
\* track: nil for a tenant, an error for the single-tenant Client.
SetResolves(w) ==
  /\ writers[w].pc = "written"
  /\ \/ /\ ~engineClosed /\ scope.tracked
        /\ Move(w, [writers[w] EXCEPT !.pc = "resolved", !.id = scope.id])
        /\ acked' = acked
     \/ /\ engineClosed \/ ~scope.tracked
        /\ Move(w, NoWrite)
        /\ IF multiTenant /\ ~engineClosed THEN Ack(w) ELSE acked' = acked
  /\ UNCHANGED <<multiTenant, registry, lifecycle, starter, closer, scope, link,
                 reconcile, stored, skipped, earlier, bounds>>

\* publish: a scope dropped under the write is refused once its goroutines are
\* stopped, and written to in vain before that.
SetPublishes(w) ==
  LET k == writers[w].key
      live == ~engineClosed /\ scope.tracked /\ scope.id = writers[w].id IN
  /\ writers[w].pc = "resolved"
  /\ Move(w, NoWrite)
  /\ \/ /\ live /\ Ack(w)
        /\ scope' = [scope EXCEPT !.cache[k] = Larger(@, writers[w].rev)]
        /\ Record(k)
     \/ /\ ~live
        /\ \/ ~engineClosed /\ Ack(w)
           \/ (engineClosed \/ ~multiTenant) /\ acked' = acked
        /\ UNCHANGED <<scope, reconcile>>
  /\ UNCHANGED <<multiTenant, registry, lifecycle, starter, closer, link, stored,
                 skipped, earlier, bounds>>

\* Another process.
RemoteWrite(k) ==
  /\ Commit(k)
  /\ UNCHANGED <<multiTenant, registry, lifecycle, starter, closer, scope, link,
                 reconcile, writers, history, bounds>>

-----------------------------------------------------------------------------
(* Close.                                                                  *)

CloseAsks ==
  /\ closer = "idle"
  /\ closer' = "asked"
  /\ UNCHANGED <<multiTenant, registry, lifecycle, starter, scope, link,
                 reconcile, writers, stored, history, bounds>>

CloseTakesLock ==
  /\ closer = "asked" /\ StartMuFree
  /\ closer' = "closing"
  /\ closed' = TRUE
  /\ UNCHANGED <<multiTenant, registry, started, registryFrozen, engineClosed,
                 starter, scope, link, reconcile, writers, stored, history, bounds>>

\* engine.Close ends the feeds and the reconcile; it waits for the workers
\* under the close timeout.  The cache stays as it is.
EngineCloses ==
  /\ closer = "closing"
  /\ closer' = "engine"
  /\ engineClosed' = TRUE
  /\ link' = "none" /\ reconcile' = NoReconcile
  /\ UNCHANGED <<multiTenant, registry, started, registryFrozen, closed,
                 starter, scope, writers, stored, history, bounds>>

StoreCloses ==
  /\ closer = "engine"
  /\ closer' = "done"
  /\ UNCHANGED <<multiTenant, registry, lifecycle, starter, scope, link,
                 reconcile, writers, stored, history, bounds>>

\* A closed Client with no Set in progress stays as it is.
AtRest ==
  /\ closer = "done" /\ \A w \in Writers : writers[w].pc = "idle"
  /\ UNCHANGED vars

-----------------------------------------------------------------------------
StartSteps == StoreStarts \/ StartBringsUp \/ StartReturns
WorkerSteps == List \/ ApplySnapshotRows \/ ApplyAbsentKeys
CloseSteps == CloseTakesLock \/ EngineCloses \/ StoreCloses

Next ==
  \/ \E k \in Keys : Register(k) \/ Refresh(k) \/ RemoteWrite(k)
  \/ Activate \/ DropTenant
  \/ StartBegins \/ ContextEnds \/ StartSteps \/ Subscribe \/ SubscribeFails
  \/ Resync \/ Disconnect \/ ListFails \/ WorkerSteps
  \/ \E w \in Writers : \/ \E k \in Keys : SetBegins(w, k)
                        \/ SetWrites(w) \/ SetResolves(w) \/ SetPublishes(w)
  \/ CloseAsks \/ CloseSteps
  \/ AtRest

Spec == Init /\ [][Next]_vars

(* The goroutine inside Start, the scope's worker and the goroutine inside *)
(* Close keep running, and the store keeps its promise of an OpResync      *)
(* after every connect.  Nothing is assumed of the caller's context, of    *)
(* the connection or of anyone calling Start, Set or Close.                *)
FairSpec == Spec /\ WF_vars(StartSteps) /\ WF_vars(Subscribe) /\ WF_vars(Resync)
                 /\ WF_vars(WorkerSteps) /\ WF_vars(CloseSteps)

-----------------------------------------------------------------------------
(* Properties.                                                             *)

TypeOK ==
  /\ multiTenant \in BOOLEAN /\ registry \subseteq Keys
  /\ {started, registryFrozen, closed, engineClosed} \subseteq BOOLEAN
  /\ starter \in Starter
  /\ closer \in {"idle", "asked", "closing", "engine", "done"}
  /\ scope \in Scope
  /\ link \in {"none", "joined", "up", "down"}
  /\ reconcile \in Reconcile
  /\ writers \in [Writers -> Writer]
  /\ rows \in [Keys -> Revisions] /\ acked \in [Keys -> Revisions]
  /\ skipped \in [Keys -> Revisions] /\ earlier \in 0 .. MaxFaults /\ commits \in Revisions
  /\ starts \in 0 .. MaxStarts /\ losses \in 0 .. MaxLosses /\ faults \in 0 .. MaxFaults

Hit(k) == scope.tracked /\ scope.cache[k] # Unpublished

\* What a read of k serves and whether it is marked stale: singleTenantEntry
\* and tenantEntry.  Revision 0 is the registered default.
Served(k) ==
  CASE Hit(k)                  -> [rev |-> scope.cache[k], stale |-> scope.stale]
    [] ~Hit(k) /\ multiTenant  -> [rev |-> rows[k], stale |-> FALSE]
    [] ~Hit(k) /\ ~multiTenant -> [rev |-> 0, stale |-> TRUE]

(* Once Start has returned nil on a single-tenant Client, a read of a      *)
(* registered key is never the unpublished default: not after a Start that *)
(* timed out and one that found its reconcile already finished, not after  *)
(* a failed one and its retry, not for a key registered in between.        *)
NeverAMiss ==
  started /\ starter.pc = "idle" /\ ~multiTenant => \A k \in registry : Hit(k)

(* A Start never reports a failure older than itself: an outcome is kept   *)
(* for good in its scope, so a retry that waited on the same scope would   *)
(* return the first boot's error for the life of the process.              *)
FreshVerdict ==
  starter.pc = "wait" /\ scope.first = "failed" => faults > earlier

FreshAndOlder(k) == ~Served(k).stale /\ Served(k).rev < acked[k]

(* A read that is not marked stale is never older than a Set that returned *)
(* nil, in this process, before it: whether that Set was published into    *)
(* the scope, into one dropped under it, or into none because the tenant   *)
(* had no scope yet, and whatever reconcile or activation it crossed.  One *)
(* way remains: the reconcile passed over the newer row it had listed,     *)
(* because an older write of this process was published in its window, and *)
(* nothing as new as that row has been published since.                    *)
ConfirmedReads ==
  \A k \in registry : FreshAndOlder(k) => Hit(k) /\ scope.cache[k] < skipped[k]

(* Set's promise, for reads reported as confirmed: after a nil return the  *)
(* next read serves that write or something newer.                         *)
ReadsOwnWrites == \A k \in registry : ~FreshAndOlder(k)

(* A Start begun returns and a Close begun completes, whatever the caller's *)
(* context does, as long as the store's feed resyncs when it connects.     *)
CallsReturn ==
  /\ starter.pc # "idle" ~> starter.pc = "idle"
  /\ closer = "asked" ~> closer = "done"
=============================================================================
