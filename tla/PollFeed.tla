------------------------------ MODULE PollFeed ------------------------------
(***************************************************************************)
(* The MongoDB polling changefeed (internal/mongodb, PollInterval > 0):    *)
(* one reader per scope asks the collection, on every tick, for the        *)
(* documents stamped at or after its watermark and announces each, then    *)
(* compares the live keys with those of the round before to find the       *)
(* documents removed outright.  A document's stamp, updated_at, is the     *)
(* millisecond of its WRITER's clock, taken before the write commits.      *)
(***************************************************************************)
EXTENDS Naturals, FiniteSets

CONSTANTS
  Keys,
  Values,
  Tombstone,      \* what Delete leaves in the value's place
  Absent,         \* no document
  Engine,         \* the subscriber
  MaxStamp,       \* bound: milliseconds
  MaxWrites,      \* bound: writes to the collection
  MaxFailures     \* bound: queries that fail, one more within an outage

ASSUME MarksAssumption == {Tombstone, Absent} \cap Values = {} /\ Tombstone # Absent
ASSUME BoundsAssumption == MaxStamp \in Nat /\ MaxWrites \in Nat /\ MaxFailures \in Nat

VARIABLES
  docs,       \* the collection
  poll,       \* pollState: what one round carries into the next
  round,      \* the round under way
  feed,       \* the flags of the feed
  writes, failures,
  told,       \* history: the markers and key events the subscriber was given
  view,       \* history: the contents those told it of
  newest,     \* history: the newest stamp taken, of a write or of the first watermark
  held,       \* history: what each key held in that millisecond
  lived,      \* history: the keys that were live in the last complete snapshot
  touched,    \* history: the keys written since the round's query
  excused     \* history: the keys whose last change the poller cannot see

vars == <<docs, poll, round, feed, writes, failures, told, view, newest, held, lived, touched, excused>>
storeVars == <<docs, writes, newest, held, touched, excused>>

InRound == round.pc \in {"scan", "diff"}

Stamps == 0 .. MaxStamp
Doc == [value : Values \cup {Tombstone, Absent}, stamp : Stamps]
NoDoc == [value |-> Absent, stamp |-> 0]
Seen == Keys \X (Values \cup {Tombstone})
PollState == [watermark : Stamps, known : SUBSET Keys, seen : SUBSET Seen, first : BOOLEAN]
Found == [key : Keys, value : Values \cup {Tombstone}, stamp : Stamps]
Round == [pc : {"off", "start", "scan", "diff", "ready", "idle", "lost", "backoff", "exited"},
          batch : SUBSET Found, next : PollState, tombstoned : SUBSET Keys,
          deletes : SUBSET Keys]
NewPollState(now) == [watermark |-> now, known |-> {}, seen |-> {}, first |-> TRUE]
NoRound(pc) ==
  [pc |-> pc, batch |-> {}, next |-> NewPollState(0), tombstoned |-> {}, deletes |-> {}]

Init ==
  /\ docs = [k \in Keys |-> NoDoc]
  /\ poll = NewPollState(0)
  /\ round = NoRound("off")
  /\ feed = [connected |-> FALSE, disconnected |-> FALSE, closing |-> FALSE]
  /\ writes = 0 /\ failures = 0
  /\ told = [op |-> "none", mark |-> FALSE, key |-> FALSE]
  /\ view = [k \in Keys |-> Absent]
  /\ newest = 0
  /\ held = {}
  /\ lived = {} /\ touched = {} /\ excused = {}

(* notDeleted: what Get, List and snapshotKeys see of a document. *)
Live(k) == docs[k].value \in Values
Content(k) == IF Live(k) THEN docs[k].value ELSE Absent
Later(a, b) == IF a < b THEN b ELSE a

-----------------------------------------------------------------------------
(* The collection, written by this process and by others.                  *)

(* Bound; and nobody follows the collection once the feed closes. *)
CanWrite == writes < MaxWrites /\ ~feed.closing

(* A document is written with the stamp its writer took.  The poller can   *)
(* miss it when it is late, stamped before another that is already there,  *)
(* and when it restores what the key held earlier in the same millisecond. *)
Unseeable(k, value, t) ==
  \/ t < newest
  \/ t = newest /\ <<k, value>> \in held /\ docs[k].value # value

Write(k, value, t) ==
  /\ CanWrite
  /\ docs[k] # [value |-> value, stamp |-> t]
  /\ writes' = writes + 1
  /\ docs' = [docs EXCEPT ![k] = [value |-> value, stamp |-> t]]
  /\ newest' = Later(newest, t)
  /\ held' = IF t > newest THEN {<<k, value>>}
             ELSE IF t = newest THEN held \cup {<<k, value>>} ELSE held
  /\ touched' = IF InRound THEN touched \cup {k} ELSE {}
  /\ excused' = IF Unseeable(k, value, t) THEN excused \cup {k}
                ELSE IF docs[k].value = value THEN excused ELSE excused \ {k}
  /\ UNCHANGED <<poll, round, feed, failures, told, view, lived>>

Set(k, v, t) == Write(k, v, t)

(* Delete writes a tombstone over a live document and nothing otherwise. *)
Delete(k, t) == Live(k) /\ Write(k, Tombstone, t)

(* The round under way has found k's tombstone, and will report no         *)
(* difference for it.                                                      *)
Entombed(k) ==
  /\ round.pc = "scan"
  /\ \/ k \in round.tombstoned
     \/ \E d \in round.batch : d.key = k /\ d.value = Tombstone

(* A foreign deleteOne leaves nothing: only a key of the last complete     *)
(* snapshot can be missed from the next one.                               *)
DeleteOne(k) ==
  /\ docs[k] # NoDoc
  /\ CanWrite
  /\ writes' = writes + 1
  /\ docs' = [docs EXCEPT ![k] = NoDoc]
  /\ touched' = IF InRound THEN touched \cup {k} ELSE {}
  /\ excused' = IF k \in lived /\ ~Entombed(k) THEN excused \ {k} ELSE excused \cup {k}
  /\ UNCHANGED <<poll, round, feed, failures, told, view, newest, held, lived>>

-----------------------------------------------------------------------------
(* What the subscriber is told.                                            *)

(* The contract binds a feed until it is told to stop. *)
Told(op) ==
  told' = IF feed.closing THEN told
          ELSE IF op = "key" THEN [told EXCEPT !.key = ~@]
          ELSE [told EXCEPT !.op = op, !.mark = ~@]

(* markConnectedLocked, and OpResync: the subscriber reloads the scope. *)
Resync ==
  /\ feed' = [feed EXCEPT !.connected = TRUE, !.disconnected = FALSE]
  /\ Told("resync")
  /\ view' = [k \in Keys |-> Content(k)]

(* beginResyncAfterOutage *)
Recovering == feed.disconnected /\ ~feed.closing

(* Mutant: the emitter hands the event over and leaves the marker to the   *)
(* end of the round.                                                       *)
Emit_Bare(k, content) ==
  /\ Told("key")
  /\ view' = [view EXCEPT ![k] = content]

(* pollEmitter: a key event, after the recovery of this round; the first   *)
(* round hands out nothing.                                                *)
Emit(k, content) ==
  IF poll.first THEN UNCHANGED <<told, view>>
  ELSE /\ ~Recovering
       /\ Told("key")
       /\ view' = [view EXCEPT ![k] = content]

-----------------------------------------------------------------------------
(* A round trip: pollOnce.                                                 *)

CanFail == failures < MaxFailures \/ (feed.disconnected /\ failures = MaxFailures)

(* startPolling: the watermark is the poller's clock. *)
StartPolling(now) ==
  /\ round.pc = "off"
  /\ ~feed.closing
  /\ poll' = NewPollState(now)
  /\ round' = NoRound("start")
  /\ newest' = Later(newest, now)
  /\ held' = IF now > newest THEN {} ELSE held
  /\ lived' = {}
  /\ UNCHANGED <<docs, feed, writes, failures, told, view, touched, excused>>

(* Mutant: strictly after the watermark. *)
Due_Strict(k) == docs[k] # NoDoc /\ docs[k].stamp > poll.watermark

(* The filter of the incremental query; tombstones are not left out. *)
Due(k) == docs[k] # NoDoc /\ docs[k].stamp >= poll.watermark

(* The tick, and the query. *)
Find ==
  /\ round.pc \in {"start", "idle"}
  /\ round' =
       [pc |-> "scan",
        batch |-> {[key |-> k, value |-> docs[k].value, stamp |-> docs[k].stamp] :
                     k \in {j \in Keys : Due(j)}},
        next |-> [poll EXCEPT !.seen = {}, !.first = FALSE],
        tombstoned |-> {}, deletes |-> {}]
  /\ UNCHANGED <<poll, feed, failures, told, view, lived, storeVars>>

(* Mutant: a key is told apart by its name alone. *)
BoundaryDedupHit_ByKey(d) ==
  d.stamp = poll.watermark /\ \E s \in poll.seen : s[1] = d.key

(* An idempotent rewrite in the boundary millisecond. *)
BoundaryDedupHit(d) ==
  d.stamp = poll.watermark /\ <<d.key, d.value>> \in poll.seen

(* What the rest of the round, and the next one, know of d. *)
Advance(next, d) ==
  LET s == <<d.key, d.value>> IN
  IF BoundaryDedupHit(d) THEN [next EXCEPT !.seen = @ \cup {s}]
  ELSE IF d.stamp > next.watermark THEN [next EXCEPT !.watermark = d.stamp, !.seen = {s}]
  ELSE IF d.stamp = next.watermark THEN [next EXCEPT !.seen = @ \cup {s}]
  ELSE next

(* The next document of the cursor, in the order of the stamps. *)
ReadDoc(d) ==
  /\ round.pc = "scan"
  /\ d \in round.batch
  /\ \A e \in round.batch : d.stamp <= e.stamp
  /\ IF BoundaryDedupHit(d) THEN UNCHANGED <<told, view>>
     ELSE Emit(d.key, IF d.value = Tombstone THEN Absent ELSE d.value)
  /\ round' = [round EXCEPT !.batch = @ \ {d},
                            !.next = Advance(@, d),
                            !.tombstoned = IF d.value = Tombstone THEN @ \cup {d.key} ELSE @]
  /\ UNCHANGED <<poll, feed, failures, lived, storeVars>>

(* announceRecovery, from the emitter: before the first event of a round. *)
RecoverBeforeEvent ==
  /\ round.pc \in {"scan", "diff"}
  /\ Recovering
  /\ round.deletes # {} \/ \E d \in round.batch : ~BoundaryDedupHit(d)
  /\ Resync
  /\ UNCHANGED <<poll, round, failures, lived, storeVars>>

(* The query or its cursor fails: the state is as it was.  The first round *)
(* fails its caller, and the slot is retracted.                            *)
RoundFails ==
  /\ round.pc \in {"start", "idle", "scan"}
  /\ CanFail
  /\ failures' = failures + 1
  /\ round' = NoRound(IF poll.first THEN "off" ELSE "lost")
  /\ touched' = {}
  /\ UNCHANGED <<docs, writes, newest, held, excused, poll, feed, told, view, lived>>

(* Mutant: the keys of a scan cut short are taken for the live keys. *)
SnapshotFails_Partial ==
  /\ round.pc = "scan" /\ round.batch = {}
  /\ CanFail
  /\ failures' = failures + 1
  /\ \E current \in SUBSET {k \in Keys : Live(k)} :
       round' = [round EXCEPT
         !.pc = "diff", !.next.known = current,
         !.deletes = IF poll.first THEN {} ELSE (poll.known \ current) \ round.tombstoned]
  /\ UNCHANGED <<poll, feed, told, view, lived, storeVars>>

(* snapshotKeys fails: the key set of the round before is kept. *)
SnapshotFails ==
  /\ round.pc = "scan" /\ round.batch = {}
  /\ CanFail
  /\ failures' = failures + 1
  /\ round' = [round EXCEPT !.pc = "diff"]
  /\ UNCHANGED <<poll, feed, told, view, lived, storeVars>>

(* The second query, and the difference to the round before. *)
SnapshotKeys ==
  LET current == {k \in Keys : Live(k)} IN
  /\ round.pc = "scan" /\ round.batch = {}
  /\ round' = [round EXCEPT
       !.pc = "diff", !.next.known = current,
       !.deletes = IF poll.first THEN {} ELSE (poll.known \ current) \ round.tombstoned]
  /\ lived' = current
  /\ UNCHANGED <<poll, feed, failures, told, view, storeVars>>

EmitDelete(k) ==
  /\ round.pc = "diff"
  /\ k \in round.deletes
  /\ Emit(k, Absent)
  /\ round' = [round EXCEPT !.deletes = @ \ {k}]
  /\ UNCHANGED <<poll, feed, failures, lived, storeVars>>

(* The round's state is adopted; a recovery no event announced is.  The    *)
(* first round launches the reader.                                        *)
RoundEnds ==
  /\ round.pc = "diff" /\ round.deletes = {}
  /\ poll' = round.next
  /\ round' = NoRound(IF poll.first THEN "ready" ELSE "idle")
  /\ IF ~poll.first /\ Recovering THEN Resync ELSE UNCHANGED <<feed, told, view>>
  /\ touched' = {}
  /\ UNCHANGED <<docs, writes, newest, held, excused, failures, lived>>

-----------------------------------------------------------------------------
(* The reader between rounds: pollForever.                                 *)

(* beginResync: the connection is announced before the first tick. *)
BeginResync ==
  /\ round.pc = "ready"
  /\ round' = NoRound("idle")
  /\ IF feed.closing THEN UNCHANGED <<feed, told, view>> ELSE Resync
  /\ UNCHANGED <<poll, failures, lived, storeVars>>

(* beginDisconnect: the first failure of a streak. *)
BeginDisconnect ==
  /\ round.pc = "lost"
  /\ round' = NoRound("backoff")
  /\ IF feed.closing \/ feed.disconnected THEN UNCHANGED <<feed, told>>
     ELSE /\ feed' = [feed EXCEPT !.connected = FALSE, !.disconnected = TRUE]
          /\ Told("disconnect")
  /\ UNCHANGED <<poll, failures, view, lived, storeVars>>

(* pollBackoff has passed. *)
BackoffEnds ==
  /\ round.pc = "backoff"
  /\ round' = NoRound("idle")
  /\ UNCHANGED <<poll, feed, failures, told, view, lived, storeVars>>

(* stop is seen at the ticker and in the backoff. *)
Exit ==
  /\ feed.closing
  /\ round.pc \in {"idle", "backoff"}
  /\ round' = NoRound("exited")
  /\ UNCHANGED <<poll, feed, failures, told, view, lived, storeVars>>

(* signalFeed *)
Close ==
  /\ ~feed.closing
  /\ feed' = [feed EXCEPT !.closing = TRUE]
  /\ UNCHANGED <<poll, round, failures, told, view, lived, storeVars>>

-----------------------------------------------------------------------------
Poller ==
  \/ \E now \in Stamps : StartPolling(now)
  \/ Find \/ (\E d \in round.batch : ReadDoc(d)) \/ RecoverBeforeEvent
  \/ SnapshotKeys \/ (\E k \in round.deletes : EmitDelete(k)) \/ RoundEnds
  \/ BeginResync \/ BeginDisconnect \/ BackoffEnds \/ Exit

Next ==
  \/ Poller
  \/ RoundFails \/ SnapshotFails
  \/ \E k \in Keys, t \in Stamps : Delete(k, t) \/ \E v \in Values : Set(k, v, t)
  \/ \E k \in Keys : DeleteOne(k)
  \/ Close
  \/ UNCHANGED vars /\ feed.closing /\ round.pc \in {"off", "exited"}

(* The reader is a goroutine on a ticker, and its queries have a deadline; *)
(* that they fail for ever is excluded by their bound.                     *)
Spec == Init /\ [][Next]_vars
FairSpec == Spec /\ WF_vars(Poller)

-----------------------------------------------------------------------------
TypeOK ==
  /\ docs \in [Keys -> Doc]
  /\ poll \in PollState
  /\ round \in Round
  /\ feed \in [connected : BOOLEAN, disconnected : BOOLEAN, closing : BOOLEAN]
  /\ writes \in 0 .. MaxWrites /\ failures \in 0 .. MaxFailures + 1
  /\ told \in [op : {"none", "resync", "disconnect"}, mark : BOOLEAN, key : BOOLEAN]
  /\ view \in [Keys -> Values \cup {Absent}]
  /\ newest \in Stamps
  /\ held \subseteq Seen
  /\ lived \subseteq Keys /\ touched \subseteq Keys /\ excused \subseteq Keys

(* The next round that completes, begun with p, will announce k: its       *)
(* document is found and is no repetition, or it is missed from the        *)
(* snapshot and no tombstone found explains that.                          *)
WillAnnounce(k, p) ==
  LET repeated == docs[k].stamp = p.watermark /\ <<k, docs[k].value>> \in p.seen
  IN \/ docs[k] # NoDoc /\ docs[k].stamp >= p.watermark /\ ~repeated
     \/ ~Live(k) /\ k \in p.known /\ ~repeated

(* Between two rounds a connected feed has announced every change or is    *)
(* about to, whatever the millisecond it was made in and whichever query   *)
(* of which round it fell between.  What can be missed is a write stamped  *)
(* before another that committed first, a value restored within its        *)
(* millisecond, and the removal of a document no complete snapshot held or *)
(* whose tombstone the round under way has found.                          *)
NothingMissed ==
  round.pc = "idle" /\ feed.connected /\ ~feed.closing =>
    \A k \in Keys \ excused : view[k] # Content(k) => WillAnnounce(k, poll)

(* A late delete beats a phantom one: a key that was live all through a    *)
(* round is never announced as deleted by it.                              *)
NoPhantomDelete ==
  [][\A k \in Keys :
       view'[k] = Absent /\ view[k] # Absent /\ Live(k) => k \in touched]_vars

(* Every change but those is told to the subscriber sooner or later. *)
CatchesUp ==
  \A k \in Keys :
    []<>(view[k] = Content(k) \/ k \in excused \/ feed.closing \/ round.pc = "off")

Contract == INSTANCE ChangeFeed
              WITH Subscribers <- {Engine},
                   heard <- [op |-> [s \in {Engine} |-> told.op],
                             mark |-> [s \in {Engine} |-> told.mark],
                             key |-> [s \in {Engine} |-> told.key]]

(* Polling keeps the store's contract: the markers alternate, one per      *)
(* outage however many rounds fail, and a round that ends an outage        *)
(* announces it before the first key event it read.                        *)
KeepsContract == Contract!Spec

(* What pollOnce says of a document removed outright: the difference to    *)
(* the round before finds it, late when a snapshot fails but never lost.   *)
LateNotLost ==
  round.pc = "idle" /\ feed.connected /\ ~feed.closing =>
    \A k \in Keys : docs[k] = NoDoc /\ view[k] # Absent => k \in poll.known
=============================================================================
