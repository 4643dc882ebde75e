----------------------------- MODULE ListenFeed -----------------------------
(***************************************************************************)
(* The Postgres changefeeds (internal/postgres/postgres_listen.go): one    *)
(* LISTEN connection per scope, shared by its subscribers.  The first      *)
(* Subscribe of a tenant reserves the map slot, connects outside the lock  *)
(* and publishes or retracts it while others wait; the last one to leave   *)
(* stops it.  The zero scope's feed belongs to Start and lives until       *)
(* Close.  One reader goroutine per feed announces the connection and      *)
(* hands its notifications to the subscribers, with no lock held but the   *)
(* subscription's own.                                                     *)
(***************************************************************************)
EXTENDS Naturals, FiniteSets

CONSTANTS
  Scopes,         \* tenants, and possibly Zero
  Zero,           \* the single-tenant scope
  OneDatabase,    \* the scopes whose DSN names one and the same database
  Subscribers,    \* calls of Subscribe
  Nobody,
  MaxFeeds        \* bound: feeds created

ASSUME ScopesAssumption == OneDatabase \subseteq Scopes
ASSUME NobodyAssumption == Nobody \notin Subscribers
ASSUME BoundsAssumption == MaxFeeds \in Nat

VARIABLES
  feeds,      \* every feed created, by number
  slots,      \* the feeds map: the feed of each scope, or 0
  readers,    \* the reader goroutine of each feed
  subs,       \* each call of Subscribe, and the subscription it made
  starting,   \* the feed Start is opening, or 0
  closing,    \* how far Store.Close is
  toSignal,   \* the feeds Close still has to stop
  created,
  heard       \* history: what each subscriber was told by a feed that runs

vars == <<feeds, slots, readers, subs, starting, closing, toSignal, created, heard>>
storeVars == <<starting, closing, toSignal>>

Feeds == 1 .. MaxFeeds

(* state: "reserved" until the creator is done, then "live" or "failed". *)
Feed == [scope : Scopes, state : {"reserved", "live", "failed"}, refs : Nat,
         subs : SUBSET Subscribers, connected : BOOLEAN, disconnected : BOOLEAN,
         closing : BOOLEAN]
NewFeed(sc, refs) ==
  [scope |-> sc, state |-> "reserved", refs |-> refs, subs |-> {},
   connected |-> FALSE, disconnected |-> FALSE, closing |-> FALSE]

Reader == [pc : {"none", "resync", "delivering", "consume", "lost", "reconnect",
                 "dialing", "exited"},
           event : {"none", "resync", "disconnect", "key"},
           todo : SUBSET Subscribers, in : Subscribers \cup {Nobody},
           then : {"none", "consume", "reconnect"}]
NoReader == [pc |-> "none", event |-> "none", todo |-> {}, in |-> Nobody, then |-> "none"]

(* inside: the teardown runs on the reader, in the subscriber's callback. *)
Sub == [pc : {"idle", "waiting", "creating", "held", "joining", "active", "release",
              "signal", "stopping", "gone", "refused"},
        feed : Feeds \cup {0}, joining : {"none", "resync", "disconnect"},
        inside : BOOLEAN, then : {"gone", "refused"}]
IdleSub == [pc |-> "idle", feed |-> 0, joining |-> "none", inside |-> FALSE, then |-> "gone"]

C == INSTANCE ChangeFeed WITH Subscribers <- Subscribers, heard <- heard

Init ==
  /\ feeds = [f \in {} |-> NewFeed(Zero, 0)]
  /\ slots = [sc \in Scopes |-> 0]
  /\ readers = [f \in Feeds |-> NoReader]
  /\ subs = [s \in Subscribers |-> IdleSub]
  /\ starting = 0
  /\ closing = "open"
  /\ toSignal = {}
  /\ created = 0
  /\ C!Init

StoreClosing == closing \in {"signalling", "done"}
(* The call goes on, or is over and forgets its feed. *)
Goto(s, pc) ==
  subs' = [subs EXCEPT ![s] = IF pc \in {"gone", "refused"} THEN [IdleSub EXCEPT !.pc = pc]
                              ELSE [@ EXCEPT !.pc = pc]]

-----------------------------------------------------------------------------
(* Creating a feed: reserve the slot, connect, publish or retract.         *)

(* A new placeholder in the scope's slot. *)
Reserve(sc, refs) ==
  /\ created < MaxFeeds
  /\ created' = created + 1
  /\ slots' = [slots EXCEPT ![sc] = created + 1]
  /\ feeds' = [f \in DOMAIN feeds \cup {created + 1} |->
                 IF f = created + 1 THEN NewFeed(sc, refs) ELSE feeds[f]]

(* acquireFeed: the zero scope is refused while Start's last failure       *)
(* stands; a tenant's slot is shared or reserved by this caller.           *)
Subscribe(s, sc) ==
  LET f == slots[sc] IN
  /\ subs[s].pc = "idle"
  /\ \/ /\ StoreClosing \/ (sc = Zero /\ f # 0 /\ feeds[f].state = "failed")
        /\ Goto(s, "refused")
        /\ UNCHANGED <<feeds, slots, created>>
     \/ /\ ~StoreClosing
        /\ f # 0
        /\ sc = Zero => feeds[f].state # "failed"
        /\ feeds' = [feeds EXCEPT ![f].refs = @ + 1]
        /\ subs' = [subs EXCEPT ![s] =
             [@ EXCEPT !.pc = IF sc = Zero THEN "held" ELSE "waiting", !.feed = f]]
        /\ UNCHANGED <<slots, created>>
     \/ /\ ~StoreClosing
        /\ f = 0
        /\ Reserve(sc, 1)
        /\ subs' = [subs EXCEPT ![s] =
             [@ EXCEPT !.pc = IF sc = Zero THEN "held" ELSE "creating", !.feed = created + 1]]
  /\ UNCHANGED <<readers, storeVars, heard>>

(* Mutant: the cause is recorded and nobody is woken. *)
FailLocked_Silent(f) ==
  /\ slots' = [sc \in Scopes |-> IF slots[sc] = f /\ sc # Zero THEN 0 ELSE slots[sc]]
  /\ UNCHANGED feeds

(* failLocked and closeReadyLocked: a tenant's slot is gone before its     *)
(* waiters wake; the zero scope keeps its feed and the cause.              *)
FailLocked(f) ==
  /\ slots' = [sc \in Scopes |-> IF slots[sc] = f /\ sc # Zero THEN 0 ELSE slots[sc]]
  /\ feeds' = [feeds EXCEPT ![f].state = "failed"]

(* refuseSharedDatabaseLocked: a live feed in the map listens there.       *)
SharesDatabase(f) ==
  /\ feeds[f].scope \in OneDatabase
  /\ \E sc \in OneDatabase : slots[sc] \notin {0, f} /\ feeds[slots[sc]].state = "live"

(* Mutant: the store is not looked at again after the connect. *)
Publishable_Unfenced(f) == ~SharesDatabase(f)

(* publishFeed: live with its reader in one hold, or refused. *)
Publishable(f) == ~StoreClosing /\ ~SharesDatabase(f)
PublishFeed(f) ==
  IF Publishable(f)
  THEN /\ feeds' = [feeds EXCEPT ![f].state = "live"]
       /\ readers' = [readers EXCEPT ![f].pc = "resync"]
       /\ UNCHANGED slots
  ELSE FailLocked(f) /\ UNCHANGED readers

(* The creator's DSN or connection failed, or the store was closing. *)
CreateFails(s) ==
  /\ subs[s].pc = "creating"
  /\ FailLocked(subs[s].feed)
  /\ Goto(s, "refused")
  /\ UNCHANGED <<readers, storeVars, created, heard>>

Create(s) ==
  /\ subs[s].pc = "creating"
  /\ PublishFeed(subs[s].feed)
  /\ Goto(s, IF Publishable(subs[s].feed) THEN "held" ELSE "refused")
  /\ UNCHANGED <<storeVars, created, heard>>

(* awaitFeed: the creator is done, or this caller's context is. *)
AwaitFeed(s) ==
  LET state == feeds[subs[s].feed].state IN
  /\ subs[s].pc = "waiting"
  /\ state # "reserved"
  /\ subs' = [subs EXCEPT ![s] =
       IF state = "live" THEN [@ EXCEPT !.pc = "held"]
       ELSE [@ EXCEPT !.pc = "release", !.then = "refused"]]
  /\ UNCHANGED <<feeds, slots, readers, storeVars, created, heard>>

GiveUp(s) ==
  /\ subs[s].pc = "waiting"
  /\ subs' = [subs EXCEPT ![s] = [@ EXCEPT !.pc = "release", !.then = "refused"]]
  /\ UNCHANGED <<feeds, slots, readers, storeVars, created, heard>>

(* Start: the zero scope's slot, an earlier failure forgotten; nothing to  *)
(* do when its reader runs.                                                *)
Start ==
  LET f == slots[Zero] IN
  /\ Zero \in Scopes
  /\ starting = 0
  /\ ~StoreClosing
  /\ \/ /\ f = 0
        /\ Reserve(Zero, 0)
        /\ starting' = created + 1
     \/ /\ f # 0
        /\ feeds[f].state # "live"
        /\ feeds' = [feeds EXCEPT ![f].state = "reserved"]
        /\ starting' = f
        /\ UNCHANGED <<slots, created>>
  /\ UNCHANGED <<readers, subs, closing, toSignal, heard>>

StartFails ==
  /\ starting # 0
  /\ FailLocked(starting)
  /\ starting' = 0
  /\ UNCHANGED <<readers, subs, closing, toSignal, created, heard>>

StartPublishes ==
  /\ starting # 0
  /\ PublishFeed(starting)
  /\ starting' = 0
  /\ UNCHANGED <<subs, closing, toSignal, created, heard>>

-----------------------------------------------------------------------------
(* Joining and leaving.                                                    *)

(* The contract binds a feed until it is told to stop: a notification read  *)
(* in that instant may reach a subscriber whose resync was skipped.        *)
Told(f, s, op) ==
  heard' = IF feeds[f].closing \/ op = "none" THEN heard
           ELSE IF op = "key" THEN [heard EXCEPT !.key[s] = ~@]
           ELSE [heard EXCEPT !.op[s] = op, !.mark[s] = ~@]

(* Mutant: a subscriber that joins waits for the next announcement. *)
JoiningOp_Later(f) == "none"

(* joiningOpLocked: what the feed last announced. *)
JoiningOp(f) ==
  IF feeds[f].connected THEN "resync"
  ELSE IF feeds[f].disconnected THEN "disconnect" ELSE "none"

(* The subscriber is added, and what it must be told is read, in one hold  *)
(* of the feed's lock; its own lock is held until it has been told.        *)
Join(s) ==
  LET f == subs[s].feed IN
  /\ subs[s].pc = "held"
  /\ feeds' = [feeds EXCEPT ![f].subs = @ \cup {s}]
  /\ subs' = [subs EXCEPT ![s] = [@ EXCEPT !.pc = "joining", !.joining = JoiningOp(f)]]
  /\ UNCHANGED <<slots, readers, storeVars, created, heard>>

DeliverJoining(s) ==
  /\ subs[s].pc = "joining"
  /\ Told(subs[s].feed, s, subs[s].joining)
  /\ subs' = [subs EXCEPT ![s] = [@ EXCEPT !.pc = "active", !.joining = "none"]]
  /\ UNCHANGED <<feeds, slots, readers, storeVars, created>>

(* teardown, once: by the caller, its context, Close, or from inside the   *)
(* subscriber's own callback.                                              *)
Teardown(s, inside) ==
  LET f == subs[s].feed IN
  /\ subs[s].pc = "active"
  /\ inside => readers[f].in = s
  /\ feeds' = [feeds EXCEPT ![f].subs = @ \ {s}]
  /\ subs' = [subs EXCEPT ![s] = [@ EXCEPT !.pc = "release", !.inside = inside]]
  /\ UNCHANGED <<slots, readers, storeVars, created, heard>>

(* Mutant: whoever leaves stops the feed. *)
LastToLeave_Anyone(f) == feeds[f].scope # Zero /\ slots[feeds[f].scope] = f

(* The last reference to a tenant's feed that is still in the map. *)
LastToLeave(f) ==
  LET sc == feeds[f].scope IN sc # Zero /\ feeds[f].refs = 1 /\ slots[sc] = f

(* releaseFeed *)
ReleaseFeed(s) ==
  LET f == subs[s].feed IN
  /\ subs[s].pc = "release"
  /\ feeds' = [feeds EXCEPT ![f].refs = @ - 1]
  /\ IF LastToLeave(f)
     THEN slots' = [slots EXCEPT ![feeds[f].scope] = 0] /\ Goto(s, "signal")
     ELSE UNCHANGED slots /\ Goto(s, subs[s].then)
  /\ UNCHANGED <<readers, storeVars, created, heard>>

(* Mutant: only key events count as deliveries. *)
Dispatching_Keys(f) == readers[f].pc = "delivering" /\ readers[f].event = "key"

(* The reader is inside a fan-out, of a marker or of a key event. *)
Dispatching(f) == readers[f].pc = "delivering"

(* signalFeed from the last unsubscribe: it does not wait for a reader     *)
(* that may be running it.                                                 *)
StopFeed(s) ==
  LET f == subs[s].feed IN
  /\ subs[s].pc = "signal"
  /\ feeds' = [feeds EXCEPT ![f].closing = TRUE]
  /\ Goto(s, IF feeds[f].closing \/ Dispatching(f) THEN subs[s].then ELSE "stopping")
  /\ UNCHANGED <<slots, readers, storeVars, created, heard>>

(* The reader has exited, or closeTimeout has passed. *)
StopFeedReturns(s) ==
  /\ subs[s].pc = "stopping"
  /\ Goto(s, subs[s].then)
  /\ UNCHANGED <<feeds, slots, readers, storeVars, created, heard>>

-----------------------------------------------------------------------------
(* The reader: runFeed, consumeUntilFailure and reconnect.                 *)

Move(f, pc) == readers' = [readers EXCEPT ![f] = [NoReader EXCEPT !.pc = pc]]

(* A fan-out to the subscribers of this moment. *)
Broadcast(f, event, then) ==
  readers' = [readers EXCEPT ![f] =
    [pc |-> "delivering", event |-> event, todo |-> feeds[f].subs, in |-> Nobody,
     then |-> then]]

(* beginResync: nothing is announced once teardown has begun. *)
BeginResync(f) ==
  /\ readers[f].pc = "resync"
  /\ IF feeds[f].closing
     THEN Move(f, "consume") /\ UNCHANGED feeds
     ELSE /\ feeds' = [feeds EXCEPT ![f] = [@ EXCEPT !.connected = TRUE, !.disconnected = FALSE]]
          /\ Broadcast(f, "resync", "consume")
  /\ UNCHANGED <<slots, subs, storeVars, created, heard>>

(* A notification that decodes, fanned out. *)
HandleNotification(f) ==
  /\ readers[f].pc = "consume"
  /\ Broadcast(f, "key", "consume")
  /\ UNCHANGED <<feeds, slots, subs, storeVars, created, heard>>

(* deliver takes the subscription's lock, which a joiner may hold; the     *)
(* snapshot may name one that has left.                                    *)
StartCallback(f, s) ==
  /\ readers[f].pc = "delivering"
  /\ readers[f].in = Nobody
  /\ s \in readers[f].todo
  /\ subs[s].pc # "joining"
  /\ readers' = [readers EXCEPT ![f] = [readers[f] EXCEPT !.in = s, !.todo = @ \ {s}]]
  /\ Told(f, s, readers[f].event)
  /\ UNCHANGED <<feeds, slots, subs, storeVars, created>>

(* It returns, once a teardown it made has. *)
EndCallback(f) ==
  LET s == readers[f].in IN
  /\ s # Nobody
  /\ ~(subs[s].inside /\ subs[s].pc \in {"release", "signal", "stopping"})
  /\ readers' = [readers EXCEPT ![f].in = Nobody]
  /\ UNCHANGED <<feeds, slots, subs, storeVars, created, heard>>

EndDispatch(f) ==
  /\ readers[f].pc = "delivering"
  /\ readers[f].in = Nobody
  /\ readers[f].todo = {}
  /\ Move(f, readers[f].then)
  /\ UNCHANGED <<feeds, slots, subs, storeVars, created, heard>>

(* The connection is lost, or stop has been closed. *)
ConsumeFails(f) ==
  /\ readers[f].pc = "consume"
  /\ Move(f, "lost")
  /\ UNCHANGED <<feeds, slots, subs, storeVars, created, heard>>

(* Mutant: the flags are left as they were. *)
BeginDisconnect_Unmarked(f) ==
  /\ readers[f].pc = "lost"
  /\ IF feeds[f].closing THEN Move(f, "reconnect") ELSE Broadcast(f, "disconnect", "reconnect")
  /\ UNCHANGED <<feeds, slots, subs, storeVars, created, heard>>

(* beginDisconnect: once per outage, never for a teardown. *)
BeginDisconnect(f) ==
  /\ readers[f].pc = "lost"
  /\ IF feeds[f].closing \/ feeds[f].disconnected
     THEN Move(f, "reconnect") /\ UNCHANGED feeds
     ELSE /\ feeds' = [feeds EXCEPT ![f] = [@ EXCEPT !.connected = FALSE, !.disconnected = TRUE]]
          /\ Broadcast(f, "disconnect", "reconnect")
  /\ UNCHANGED <<slots, subs, storeVars, created, heard>>

(* reconnect looks at stop and at the store before each attempt; an        *)
(* attempt under way is not interrupted.                                   *)
Attempt(f) ==
  /\ readers[f].pc = "reconnect"
  /\ Move(f, IF feeds[f].closing \/ StoreClosing THEN "exited" ELSE "dialing")
  /\ UNCHANGED <<feeds, slots, subs, storeVars, created, heard>>

Reconnected(f) ==
  /\ readers[f].pc = "dialing"
  /\ Move(f, "resync")
  /\ UNCHANGED <<feeds, slots, subs, storeVars, created, heard>>

ReconnectFails(f) ==
  /\ readers[f].pc = "dialing"
  /\ Move(f, "reconnect")
  /\ UNCHANGED <<feeds, slots, subs, storeVars, created, heard>>

-----------------------------------------------------------------------------
(* Store.Close.                                                            *)

(* stopFeeds: the flag and the walk in one hold.  A tenant's slot whose    *)
(* creator still connects is failed; the others are to be stopped.         *)
StopFeeds ==
  LET mapped == {slots[sc] : sc \in Scopes} \ {0}
      connecting == {f \in mapped : feeds[f].scope # Zero /\ feeds[f].state = "reserved"} IN
  /\ closing = "open"
  /\ closing' = "signalling"
  /\ toSignal' = mapped \ connecting
  /\ slots' = [sc \in Scopes |-> 0]
  /\ feeds' = [f \in DOMAIN feeds |->
                 IF f \in connecting THEN [feeds[f] EXCEPT !.state = "failed"] ELSE feeds[f]]
  /\ UNCHANGED <<readers, subs, starting, created, heard>>

SignalFeed(f) ==
  /\ f \in toSignal
  /\ toSignal' = toSignal \ {f}
  /\ feeds' = [feeds EXCEPT ![f].closing = TRUE]
  /\ UNCHANGED <<slots, readers, subs, starting, closing, created, heard>>

(* The readers it signalled have exited, or closeTimeout has passed. *)
CloseReturns ==
  /\ closing = "signalling"
  /\ toSignal = {}
  /\ closing' = "done"
  /\ UNCHANGED <<feeds, slots, readers, subs, starting, toSignal, created, heard>>

-----------------------------------------------------------------------------
(* What may still happen is a call from outside or a notification. *)
AtRest ==
  /\ \A s \in Subscribers : subs[s].pc \in {"idle", "active", "gone", "refused"}
  /\ \A f \in Feeds : \/ readers[f].pc \in {"none", "exited"}
                      \/ readers[f].pc = "consume" /\ ~feeds[f].closing
  /\ UNCHANGED vars

Next ==
  \/ \E s \in Subscribers, sc \in Scopes : Subscribe(s, sc)
  \/ \E s \in Subscribers, inside \in BOOLEAN : Teardown(s, inside)
  \/ \E s \in Subscribers :
       \/ CreateFails(s) \/ Create(s) \/ AwaitFeed(s) \/ GiveUp(s) \/ Join(s)
       \/ DeliverJoining(s) \/ ReleaseFeed(s) \/ StopFeed(s) \/ StopFeedReturns(s)
  \/ \E f \in DOMAIN feeds :
       \/ BeginResync(f) \/ HandleNotification(f) \/ EndCallback(f) \/ EndDispatch(f)
       \/ ConsumeFails(f) \/ BeginDisconnect(f) \/ Attempt(f) \/ Reconnected(f)
       \/ ReconnectFails(f)
       \/ \E s \in Subscribers : StartCallback(f, s)
  \/ Start \/ StartFails \/ StartPublishes
  \/ StopFeeds \/ (\E f \in toSignal : SignalFeed(f)) \/ CloseReturns
  \/ AtRest

Spec == Init /\ [][Next]_vars

-----------------------------------------------------------------------------
(* Type invariant; a tenant's slot never names a feed that failed. *)
TypeOK ==
  /\ DOMAIN feeds = 1 .. created
  /\ \A f \in DOMAIN feeds : feeds[f] \in Feed
  /\ slots \in [Scopes -> Feeds \cup {0}]
  /\ \A sc \in Scopes \ {Zero} : slots[sc] # 0 => feeds[slots[sc]].state # "failed"
  /\ readers \in [Feeds -> Reader]
  /\ subs \in [Subscribers -> Sub]
  /\ starting \in Feeds \cup {0}
  /\ closing \in {"open", "signalling", "done"}
  /\ toSignal \in SUBSET Feeds
  /\ created \in 0 .. MaxFeeds
  /\ heard \in [op : [Subscribers -> {"none", "resync", "disconnect"}],
                mark : [Subscribers -> BOOLEAN], key : [Subscribers -> BOOLEAN]]

(* Subscribe keeps the store's contract with every subscriber, one that    *)
(* joins in the middle of an announcement or of an outage included: the    *)
(* markers each is handed alternate, and each is handed key events only    *)
(* after a resync of its own.                                              *)
KeepsContract == C!Spec

(* Nobody misses an announcement: while the reader consumes, each of its   *)
(* subscribers was last told of a resync, and while it reconnects of the   *)
(* disconnect.                                                             *)
Informed ==
  \A f \in DOMAIN feeds : \A s \in feeds[f].subs :
    subs[s].pc = "active" /\ ~feeds[f].closing =>
      /\ readers[f].pc = "consume" => heard.op[s] = "resync"
      /\ readers[f].pc \in {"reconnect", "dialing"} => heard.op[s] = "disconnect"

(* The call will drop its reference. *)
Owes(s) == subs[s].pc \in {"waiting", "held", "joining", "active", "release"}

(* A tenant's feed that runs has somebody who will stop it: a holder of a  *)
(* reference, or Close.  None outlives its last subscriber, and Close      *)
(* leaves none behind.                                                     *)
FeedsOwned ==
  \A f \in DOMAIN feeds :
    feeds[f].state = "live" /\ ~feeds[f].closing =>
      \/ f \in toSignal
      \/ closing = "open" /\ slots[feeds[f].scope] = f /\
           (feeds[f].scope = Zero \/
            \E s \in Subscribers : subs[s].feed = f /\ Owes(s))
      \/ \E s \in Subscribers : subs[s].feed = f /\ subs[s].pc = "signal"

(* A subscriber's feed is never stopped under it while the store is open. *)
HoldersServed ==
  closing = "open" =>
    \A s \in Subscribers : subs[s].pc \in {"held", "joining", "active"} =>
      ~feeds[subs[s].feed].closing /\ slots[feeds[subs[s].feed].scope] = subs[s].feed

(* A callback that drops the last subscription never waits for the reader  *)
(* that is running it.                                                     *)
NoSelfWait == \A s \in Subscribers : ~(subs[s].inside /\ subs[s].pc = "stopping")

(* Nobody waits for a connection that nobody makes: the slot a caller is   *)
(* parked on has its creator at work, and Close answers them all at once.  *)
NobodyStranded ==
  \A s \in Subscribers :
    subs[s].pc = "waiting" /\ feeds[subs[s].feed].state = "reserved" =>
      /\ closing = "open"
      /\ \E c \in Subscribers : subs[c].pc = "creating" /\ subs[c].feed = subs[s].feed
=============================================================================
