----------------------------- MODULE Activation -----------------------------
(***************************************************************************)
(* The life of one tenant's scope (internal/engine/activate.go and the     *)
(* bring-up, drop and Close of engine.go).  A read that misses activates   *)
(* the scope in the background; tenant lifecycle events block, unblock or  *)
(* rebuild it.  One goroutine at a time holds the scope's activation slot, *)
(* and an event that finds it held leaves a mark the holder settles before *)
(* it lets go.  Scopes share nothing but Close.                            *)
(***************************************************************************)
EXTENDS Naturals, FiniteSets

CONSTANTS
  MaxBuilds,    \* bound: scope states created
  MaxEvents,    \* bound: tenant lifecycle events
  MaxFaults     \* bound: failing Subscribes and first reconciles

ASSUME BoundsAssumption == MaxBuilds \in Nat /\ MaxEvents \in Nat /\ MaxFaults \in Nat

VARIABLES
  blocked,
  slot,         \* activating: "free", "held", or "superseded" (true)
  cooling,      \* failedAt is younger than the retry delay
  tracked,      \* the scope state in the engine's map, or 0
  handle,       \* scope states holding their unsubscribe
  first,        \* outcome of each scope state's first reconcile
  feeds,        \* scope states whose changefeed subscription is open
  holder,       \* the goroutine in the slot: where it is, its state, its verdict
  closing,      \* how far Engine.Close is
  builds, events, faults,
  \* history, read by no action
  creds,        \* the tenant's credentials, renewed by each rotation
  openedWith    \* the credentials each feed was opened with

verbVars == <<blocked, cooling>>
scopeVars == <<tracked, handle, first, feeds>>
countVars == <<builds, events, faults>>
historyVars == <<creds, openedWith>>
vars == <<blocked, slot, cooling, tracked, handle, first, feeds, holder, closing,
          builds, events, faults, creds, openedWith>>

States == 1 .. MaxBuilds
NoHolder == [pc |-> "none", sc |-> 0, up |-> FALSE, then |-> "none"]

Init ==
  /\ blocked = FALSE
  /\ slot = "free"
  /\ cooling = FALSE
  /\ tracked = 0
  /\ handle = {}
  /\ first = [s \in States |-> "pending"]
  /\ feeds = {}
  /\ holder = NoHolder
  /\ closing = "open"
  /\ builds = 0 /\ events = 0 /\ faults = 0
  /\ creds = 0
  /\ openedWith = [s \in States |-> 0]

Closed == closing # "open"
Canceled == closing \notin {"open", "closed"}
WorkersClosed == closing \in {"waiting", "drained", "timeout"}

-----------------------------------------------------------------------------
(* The scope verbs, each under activationsMu. *)

(* launchActivation; a rebuild starts superseded.  beginWork refuses it    *)
(* once the door is shut.                                                  *)
LaunchActivation(rebuild) ==
  IF WorkersClosed THEN UNCHANGED <<slot, holder>>
  ELSE /\ slot' = IF rebuild THEN "superseded" ELSE "held"
       /\ holder' = [NoHolder EXCEPT !.pc = IF rebuild THEN "release" ELSE "resolve"]

(* Mutant: an activation in flight is left to finish. *)
Supersede_IfTracked ==
  IF slot = "free" /\ tracked # 0 THEN LaunchActivation(TRUE)
  ELSE UNCHANGED <<slot, holder>>

(* supersede: the holder is told, or one is launched for a tracked scope. *)
Supersede ==
  IF slot # "free" THEN slot' = "superseded" /\ UNCHANGED holder
  ELSE IF tracked # 0 THEN LaunchActivation(TRUE)
  ELSE UNCHANGED <<slot, holder>>

(* What Activate refuses on. *)
MayActivate == ~blocked /\ slot = "free" /\ ~Closed /\ tracked = 0 /\ ~cooling

(* A read that missed the cache. *)
Activate ==
  /\ MayActivate
  /\ builds < MaxBuilds
  /\ LaunchActivation(FALSE)
  /\ UNCHANGED <<verbVars, scopeVars, closing, countVars, historyVars>>

(* Tenant suspended or deleted. *)
Block ==
  /\ events < MaxEvents
  /\ events' = events + 1
  /\ blocked' = TRUE
  /\ Supersede
  /\ UNCHANGED <<cooling, scopeVars, closing, builds, faults, historyVars>>

(* Tenant activated. *)
Unblock ==
  /\ events < MaxEvents
  /\ events' = events + 1
  /\ blocked' = FALSE
  /\ cooling' = FALSE
  /\ UNCHANGED <<slot, scopeVars, holder, closing, builds, faults, historyVars>>

(* Credentials rotated. *)
Reactivate ==
  /\ events < MaxEvents
  /\ events' = events + 1
  /\ creds' = creds + 1
  /\ IF blocked THEN UNCHANGED <<cooling, slot, holder>>
     ELSE cooling' = FALSE /\ Supersede
  /\ UNCHANGED <<blocked, scopeVars, closing, builds, faults, openedWith>>

(* The retry delay passes. *)
CoolDown ==
  /\ cooling
  /\ cooling' = FALSE
  /\ UNCHANGED <<blocked, slot, scopeVars, holder, closing, countVars, historyVars>>

-----------------------------------------------------------------------------
(* The holder: activate, bringUpScope and dropScope. *)

Drop(then, up) == [holder EXCEPT !.pc = "unmap", !.then = then, !.up = up]

(* scopeFor: a closed engine creates nothing. *)
Resolve ==
  /\ holder.pc = "resolve"
  /\ IF Closed
     THEN /\ holder' = Drop("release", FALSE)
          /\ UNCHANGED <<tracked, builds>>
     ELSE /\ builds < MaxBuilds
          /\ builds' = builds + 1
          /\ tracked' = builds + 1
          /\ holder' = [holder EXCEPT !.pc = "subscribe", !.sc = builds + 1]
  /\ UNCHANGED <<verbVars, slot, handle, first, feeds, closing, events, faults,
                 historyVars>>

Subscribe ==
  /\ holder.pc = "subscribe"
  /\ feeds' = feeds \cup {holder.sc}
  /\ openedWith' = [openedWith EXCEPT ![holder.sc] = creds]
  /\ holder' = [holder EXCEPT !.pc = "store"]
  /\ UNCHANGED <<verbVars, slot, tracked, handle, first, closing, countVars, creds>>

(* Mutant: the half-built scope is left behind. *)
SubscribeFails_Keeps ==
  /\ holder.pc = "subscribe"
  /\ faults < MaxFaults
  /\ faults' = faults + 1
  /\ holder' = [holder EXCEPT !.pc = "release", !.up = FALSE]
  /\ UNCHANGED <<verbVars, slot, scopeVars, closing, builds, events, historyVars>>

(* Store.Subscribe returned an error: the scope is dropped again. *)
SubscribeFails ==
  /\ holder.pc = "subscribe"
  /\ faults < MaxFaults \/ Canceled
  /\ faults' = IF Canceled THEN faults ELSE faults + 1
  /\ holder' = Drop("release", FALSE)
  /\ UNCHANGED <<verbVars, slot, scopeVars, closing, builds, events, historyVars>>

(* Mutant: the handle is stored without looking at closed. *)
StoreHandle_Unchecked ==
  /\ holder.pc = "store"
  /\ handle' = handle \cup {holder.sc}
  /\ holder' = [holder EXCEPT !.pc = "await"]
  /\ UNCHANGED <<verbVars, slot, tracked, first, feeds, closing, countVars, historyVars>>

(* The handle is stored under the scope's lock, unless Close has begun:    *)
(* then the holder releases the feed itself.                               *)
StoreHandle ==
  /\ holder.pc = "store"
  /\ IF Closed
     THEN /\ feeds' = feeds \ {holder.sc}
          /\ holder' = Drop("release", FALSE)
          /\ UNCHANGED handle
     ELSE /\ handle' = handle \cup {holder.sc}
          /\ holder' = [holder EXCEPT !.pc = "await"]
          /\ UNCHANGED feeds
  /\ UNCHANGED <<verbVars, slot, tracked, first, closing, countVars, historyVars>>

(* The feed's OpResync and the reconcile it arms, elsewhere. *)
FirstReconcile(s, outcome) ==
  /\ s \in feeds
  /\ first[s] = "pending"
  /\ outcome = "failed" => faults < MaxFaults
  /\ first' = [first EXCEPT ![s] = outcome]
  /\ faults' = IF outcome = "failed" THEN faults + 1 ELSE faults
  /\ UNCHANGED <<verbVars, slot, tracked, handle, feeds, holder, closing, builds,
                 events, historyVars>>

(* A first reconcile that failed drops the scope; a canceled wait leaves   *)
(* it to Close.                                                            *)
AwaitFirstReconcile ==
  /\ holder.pc = "await"
  /\ \/ first[holder.sc] = "ok" /\ holder' = [holder EXCEPT !.pc = "release", !.up = TRUE]
     \/ first[holder.sc] = "failed" /\ holder' = Drop("release", FALSE)
     \/ Canceled /\ holder' = [holder EXCEPT !.pc = "release", !.up = FALSE]
  /\ UNCHANGED <<verbVars, slot, scopeVars, closing, countVars, historyVars>>

(* dropScope: out of the map first. *)
Unmap ==
  /\ holder.pc = "unmap"
  /\ tracked' = 0
  /\ holder' = IF tracked = 0 THEN [holder EXCEPT !.pc = holder.then]
               ELSE [holder EXCEPT !.pc = "unsubscribe", !.sc = tracked]
  /\ UNCHANGED <<verbVars, slot, handle, first, feeds, closing, countVars, historyVars>>

(* Mutant: the drop forgets the subscription. *)
Unsubscribe_Forgets ==
  /\ holder.pc = "unsubscribe"
  /\ handle' = handle \ {holder.sc}
  /\ holder' = [holder EXCEPT !.pc = holder.then]
  /\ UNCHANGED <<verbVars, slot, tracked, first, feeds, closing, countVars, historyVars>>

(* The handle is taken under the scope's lock and called outside it. *)
Unsubscribe ==
  /\ holder.pc = "unsubscribe"
  /\ handle' = handle \ {holder.sc}
  /\ feeds' = IF holder.sc \in handle THEN feeds \ {holder.sc} ELSE feeds
  /\ holder' = [holder EXCEPT !.pc = holder.then]
  /\ UNCHANGED <<verbVars, slot, tracked, first, closing, countVars, historyVars>>

(* releaseActivation: a superseded holder keeps the slot and drops. *)
ReleaseActivation ==
  /\ holder.pc = "release"
  /\ IF slot = "superseded"
     THEN /\ slot' = "held"
          /\ holder' = Drop("decide", holder.up)
          /\ UNCHANGED cooling
     ELSE /\ slot' = "free"
          /\ cooling' = ~holder.up
          /\ holder' = NoHolder
  /\ UNCHANGED <<blocked, scopeVars, closing, countVars, historyVars>>

(* Mutant: it rebuilds without asking again whether the tenant is blocked. *)
MayRebuild_IfOpen == ~Closed

MayRebuild == ~blocked /\ ~Closed

(* endActivation builds again unless the scope is blocked by now. *)
Decide ==
  /\ holder.pc = "decide"
  /\ MayRebuild => builds < MaxBuilds
  /\ holder' = IF MayRebuild THEN [holder EXCEPT !.pc = "resolve"]
               ELSE [holder EXCEPT !.pc = "release", !.up = FALSE]
  /\ UNCHANGED <<verbVars, slot, scopeVars, closing, countVars, historyVars>>

-----------------------------------------------------------------------------
(* Engine.Close, one step per lock it takes. *)

CloseStep(from, to) == closing = from /\ closing' = to

MarkClosed ==
  /\ CloseStep("open", "closed")
  /\ UNCHANGED <<verbVars, slot, scopeVars, holder, countVars, historyVars>>

Cancel ==
  /\ CloseStep("closed", "canceled")
  /\ UNCHANGED <<verbVars, slot, scopeVars, holder, countVars, historyVars>>

(* The scope in the map is unsubscribed if it holds its handle. *)
UnsubscribeTracked ==
  /\ CloseStep("canceled", "unsubscribed")
  /\ feeds' = IF tracked \in handle THEN feeds \ {tracked} ELSE feeds
  /\ UNCHANGED <<verbVars, slot, tracked, handle, first, holder, countVars, historyVars>>

CloseWorkers ==
  /\ CloseStep("unsubscribed", "waiting")
  /\ UNCHANGED <<verbVars, slot, scopeVars, holder, countVars, historyVars>>

WaitForWorkers ==
  /\ \/ holder.pc = "none" /\ CloseStep("waiting", "drained")
     \/ CloseStep("waiting", "timeout")
  /\ UNCHANGED <<verbVars, slot, scopeVars, holder, countVars, historyVars>>

(* Nothing in flight; what may follow comes from outside. *)
AtRest == holder.pc = "none" /\ UNCHANGED vars

HolderStep ==
  \/ Resolve \/ Subscribe \/ SubscribeFails \/ StoreHandle \/ AwaitFirstReconcile
  \/ Unmap \/ Unsubscribe \/ ReleaseActivation \/ Decide

Next ==
  \/ Activate \/ Block \/ Unblock \/ Reactivate \/ CoolDown
  \/ HolderStep
  \/ \E s \in States, outcome \in {"ok", "failed"} : FirstReconcile(s, outcome)
  \/ MarkClosed \/ Cancel \/ UnsubscribeTracked \/ CloseWorkers \/ WaitForWorkers
  \/ AtRest

Spec == Init /\ [][Next]_vars

(* The holder runs, store calls return, the first reconcile is bounded by  *)
(* the store's timeouts, the delay passes, and the tenant keeps being read.*)
FairSpec ==
  /\ Spec
  /\ WF_vars(HolderStep) /\ WF_vars(CoolDown) /\ WF_vars(Activate)
  /\ WF_vars(\E s \in States, outcome \in {"ok", "failed"} : FirstReconcile(s, outcome))

-----------------------------------------------------------------------------
(* Type invariant; the slot is taken exactly while a goroutine holds it, so *)
(* it is never left taken with nobody to free it.                          *)
TypeOK ==
  /\ blocked \in BOOLEAN
  /\ slot \in {"free", "held", "superseded"}
  /\ slot = "free" <=> holder.pc = "none"
  /\ cooling \in BOOLEAN
  /\ tracked \in States \cup {0}
  /\ handle \in SUBSET States
  /\ first \in [States -> {"pending", "ok", "failed"}]
  /\ feeds \in SUBSET States
  /\ holder \in [pc : {"none", "resolve", "subscribe", "store", "await", "release",
                       "unmap", "unsubscribe", "decide"},
                 sc : States \cup {0}, up : BOOLEAN,
                 then : {"none", "release", "decide"}]
  /\ closing \in {"open", "closed", "canceled", "unsubscribed", "waiting", "drained",
                  "timeout"}
  /\ builds \in 0 .. MaxBuilds
  /\ events \in Nat
  /\ faults \in Nat
  /\ creds \in Nat
  /\ openedWith \in [States -> Nat]

(* Never two changefeeds of one tenant at a time, whatever reads, events   *)
(* and rebuilds overlap: the slot is held from the drop to the rebuild.    *)
OneFeed == Cardinality(feeds) <= 1

(* With the slot free, what is tracked has its feed open and nothing else  *)
(* has: no cache without a feed, no feed without a cache, until Close      *)
(* takes the feeds down.                                                   *)
TrackedIffFed ==
  slot = "free" /\ ~Closed => feeds = {tracked} \ {0}

(* Block's promise: once the slot is free a blocked tenant is neither      *)
(* tracked nor fed, even when the block landed in the middle of an         *)
(* activation or of a rebuild.                                             *)
BlockedMeansDown == slot = "free" /\ blocked /\ ~Closed => tracked = 0 /\ feeds = {}

(* Reactivate's promise: once the slot is free a tracked tenant is on a    *)
(* feed opened after the last rotation.                                    *)
RotationReaches ==
  slot = "free" /\ tracked # 0 /\ ~Closed => openedWith[tracked] = creds

(* Close leaves no changefeed behind, whichever of bring-up and Close saw  *)
(* the other first.                                                        *)
NoFeedOutlivesClose == closing = "drained" => feeds = {}

(* The scope follows the last lifecycle event: unless the engine closes,   *)
(* a tenant that stays blocked ends down and one that stays unblocked, and *)
(* is read, ends up with its first reconcile done.                         *)
FollowsEvents ==
  <>[](\/ Closed
       \/ blocked /\ tracked = 0 /\ feeds = {}
       \/ ~blocked /\ tracked # 0 /\ first[tracked] = "ok")
=============================================================================
