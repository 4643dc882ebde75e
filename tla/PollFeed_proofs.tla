--------------------------- MODULE PollFeed_proofs --------------------------
(***************************************************************************)
(* Proofs about PollFeed.  The poller's state is its watermark and what it *)
(* saw in the watermark's millisecond; what a writer can still do in that  *)
(* millisecond is what the history variables newest and held bound.  The   *)
(* layers are: types, the markers, the round under way against the         *)
(* collection, and what is still owed to the subscriber.                   *)
(***************************************************************************)
EXTENDS PollFeed, TLAPS

(* Every document has content or is a tombstone. *)
Types == TypeOK /\ \A k \in Keys : docs[k] # NoDoc => docs[k].value # Absent

-----------------------------------------------------------------------------
(* Types *)

(* The state a poller starts a round with, and a round not under way.      *)
LEMMA NoRoundType ==
  ASSUME NEW pc \in {"off", "start", "ready", "idle", "lost", "backoff", "exited"}
  PROVE  /\ NoRound(pc) \in Round
         /\ NoRound(pc).pc = pc /\ NoRound(pc).batch = {} /\ NoRound(pc).deletes = {}
<1>1. 0 \in Stamps
  BY BoundsAssumption DEF Stamps
<1> QED BY <1>1 DEF NoRound, NewPollState, Round, PollState, Found, Seen

(* What Init establishes. *)
LEMMA TypeInit == Init => Types
<1> SUFFICES ASSUME Init PROVE Types
  OBVIOUS
<1>1. 0 \in Stamps
  BY BoundsAssumption DEF Stamps
<1>2. NoDoc \in Doc
  BY <1>1 DEF NoDoc, Doc
<1>3. NewPollState(0) \in PollState
  BY <1>1 DEF NewPollState, PollState
<1>4. writes \in 0 .. MaxWrites /\ failures \in 0 .. MaxFailures + 1
  BY BoundsAssumption DEF Init
<1> QED BY <1>1, <1>2, <1>3, <1>4, NoRoundType DEF Init, Types, TypeOK

(* The content of a document is a value or nothing. *)
LEMMA ContentType ==
  ASSUME NEW k \in Keys
  PROVE  Content(k) \in Values \cup {Absent} /\ (Live(k) <=> Content(k) # Absent)
BY MarksAssumption DEF Content, Live

(* What a write of a document with a stamp leaves of the store's types. *)
LEMMA WriteTypes ==
  ASSUME Types, NEW k \in Keys, NEW t \in Stamps, NEW value \in Values \cup {Tombstone},
         Write(k, value, t)
  PROVE  Types'
<1>1. /\ docs \in [Keys -> Doc] /\ writes \in 0 .. MaxWrites /\ newest \in Stamps
      /\ held \subseteq Seen /\ touched \subseteq Keys /\ excused \subseteq Keys
  BY DEF Types, TypeOK
<1>2. [value |-> value, stamp |-> t] \in Doc /\ <<k, value>> \in Seen
  BY DEF Doc, Seen
<1>3. docs' \in [Keys -> Doc] /\ held' \subseteq Seen /\ touched' \subseteq Keys
  BY <1>1, <1>2 DEF Write
<1>4. writes' \in 0 .. MaxWrites
  BY <1>1, BoundsAssumption DEF Write, CanWrite
<1>5. newest' \in Stamps /\ excused' \subseteq Keys
  BY <1>1 DEF Write, Later
<1>6. ASSUME NEW j \in Keys PROVE docs'[j] # NoDoc => docs'[j].value # Absent
  BY <1>1, <1>6, MarksAssumption DEF Write, Types
<1> QED BY <1>3, <1>4, <1>5, <1>6 DEF Write, Types, TypeOK

(* What Emit and Resync leave of the types. *)
LEMMA TellTypes ==
  ASSUME Types, NEW k \in Keys, NEW content \in Values \cup {Absent},
         \/ Emit(k, content) /\ UNCHANGED feed
         \/ Resync
         \/ UNCHANGED <<told, view, feed>>
  PROVE  /\ told' \in [op : {"none", "resync", "disconnect"}, mark : BOOLEAN, key : BOOLEAN]
         /\ view' \in [Keys -> Values \cup {Absent}]
         /\ feed' \in [connected : BOOLEAN, disconnected : BOOLEAN, closing : BOOLEAN]
<1>1. /\ told \in [op : {"none", "resync", "disconnect"}, mark : BOOLEAN, key : BOOLEAN]
      /\ view \in [Keys -> Values \cup {Absent}]
      /\ feed \in [connected : BOOLEAN, disconnected : BOOLEAN, closing : BOOLEAN]
  BY DEF Types, TypeOK
<1>2. CASE Emit(k, content) /\ UNCHANGED feed
  BY <1>1, <1>2 DEF Emit, Told
<1>3. CASE Resync
  <2>1. \A j \in Keys : Content(j) \in Values \cup {Absent}
    BY ContentType
  <2> QED BY <1>1, <1>3, <2>1 DEF Resync, Told
<1> QED BY <1>1, <1>2, <1>3

(* The round after a document was read. *)
LEMMA ReadDocRound ==
  ASSUME Types, NEW d \in round.batch, ReadDoc(d)
  PROVE  /\ d \in Found
         /\ Advance(round.next, d) \in PollState
         /\ round' \in Round
         /\ round'.pc = "scan" /\ round.pc = "scan"
         /\ round'.batch = round.batch \ {d}
         /\ round'.next = Advance(round.next, d)
         /\ round'.tombstoned = IF d.value = Tombstone THEN round.tombstoned \cup {d.key}
                                ELSE round.tombstoned
         /\ round'.deletes = round.deletes
<1>1. round \in Round
  BY DEF Types, TypeOK
<1>2. d \in Found /\ round.next \in PollState
  BY <1>1 DEF Round
<1>3. <<d.key, d.value>> \in Seen /\ d.stamp \in Stamps
  BY <1>2 DEF Found, Seen
<1>4. Advance(round.next, d) \in PollState
  <2> DEFINE s == <<d.key, d.value>>
  <2> HIDE DEF s
  <2>1. s \in Seen
    BY <1>3 DEF s
  <2>2. /\ [round.next EXCEPT !.seen = @ \cup {s}] \in PollState
        /\ [round.next EXCEPT !.watermark = d.stamp, !.seen = {s}] \in PollState
    BY <1>2, <1>3, <2>1 DEF PollState
  <2> QED BY <1>2, <2>2 DEF Advance, s
<1> DEFINE a == Advance(round.next, d)
<1> HIDE DEF a
<1>5. a \in PollState
  BY <1>4 DEF a
<1>6. round' = [round EXCEPT !.batch = @ \ {d}, !.next = a,
                 !.tombstoned = IF d.value = Tombstone THEN @ \cup {d.key} ELSE @]
  BY DEF ReadDoc, a
<1>7. round.pc = "scan"
  BY DEF ReadDoc
<1>8. /\ round'.pc = "scan"
      /\ round'.batch = round.batch \ {d}
      /\ round'.next = a
      /\ round'.tombstoned = IF d.value = Tombstone THEN round.tombstoned \cup {d.key}
                             ELSE round.tombstoned
      /\ round'.deletes = round.deletes
  BY <1>1, <1>6, <1>7 DEF Round
<1>9. round' \in Round
  BY <1>1, <1>2, <1>5, <1>6 DEF Round, Found
<1> QED BY <1>2, <1>4, <1>7, <1>8, <1>9 DEF a

(* The round a query begins. *)
LEMMA FindRound ==
  ASSUME Types, Find
  PROVE  /\ round' \in Round
         /\ round'.pc = "scan"
         /\ round'.batch = {[key |-> k, value |-> docs[k].value, stamp |-> docs[k].stamp] :
                              k \in {j \in Keys : Due(j)}}
         /\ round'.next.watermark = poll.watermark /\ round'.next.known = poll.known
         /\ round'.next.seen = {} /\ ~round'.next.first
         /\ round'.tombstoned = {} /\ round'.deletes = {}
<1>1. poll \in PollState /\ docs \in [Keys -> Doc]
  BY DEF Types, TypeOK
<1> DEFINE next == [poll EXCEPT !.seen = {}, !.first = FALSE]
           batch == {[key |-> k, value |-> docs[k].value, stamp |-> docs[k].stamp] :
                              k \in {j \in Keys : Due(j)}}
<1>2. next \in PollState /\ next.watermark = poll.watermark /\ next.known = poll.known
      /\ next.seen = {} /\ ~next.first
  BY <1>1 DEF PollState
<1>3. ASSUME NEW k \in Keys, Due(k)
      PROVE  [key |-> k, value |-> docs[k].value, stamp |-> docs[k].stamp] \in Found
  <2>1. docs[k] \in Doc /\ docs[k].value # Absent
    BY <1>1, <1>3 DEF Types, Due
  <2>2. docs[k].value \in Values \cup {Tombstone} /\ docs[k].stamp \in Stamps
    BY <2>1 DEF Doc
  <2> QED BY <2>2 DEF Found
<1>4. batch \subseteq Found
  BY <1>3
<1>5. round' = [pc |-> "scan", batch |-> batch, next |-> next, tombstoned |-> {}, deletes |-> {}]
  BY DEF Find
<1> HIDE DEF next, batch
<1>6. /\ round' \in Round /\ round'.pc = "scan" /\ round'.batch = batch /\ round'.next = next
      /\ round'.tombstoned = {} /\ round'.deletes = {}
  BY <1>2, <1>4, <1>5 DEF Round
<1> QED BY <1>2, <1>6 DEF batch

(* The round after its snapshot of the live keys, complete or not. *)
LEMMA SnapshotRound ==
  ASSUME Types, SnapshotKeys \/ SnapshotFails
  PROVE  /\ round' \in Round
         /\ round.pc = "scan" /\ round.batch = {}
         /\ round'.pc = "diff" /\ round'.batch = {}
         /\ round'.next.watermark = round.next.watermark
         /\ round'.next.seen = round.next.seen /\ round'.next.first = round.next.first
         /\ round'.tombstoned = round.tombstoned
         /\ \/ /\ SnapshotKeys
               /\ round'.next.known = {k \in Keys : Live(k)}
               /\ round'.deletes = IF poll.first THEN {}
                    ELSE (poll.known \ {k \in Keys : Live(k)}) \ round.tombstoned
            \/ /\ SnapshotFails
               /\ round'.next.known = round.next.known
               /\ round'.deletes = round.deletes
<1>1. round \in Round /\ poll \in PollState /\ round.next \in PollState
  BY DEF Types, TypeOK, Round
<1>2. CASE SnapshotFails
  BY <1>1, <1>2 DEF SnapshotFails, Round
<1>3. CASE SnapshotKeys
  <2> DEFINE current == {k \in Keys : Live(k)}
             deletes == IF poll.first THEN {} ELSE (poll.known \ current) \ round.tombstoned
  <2>1. current \subseteq Keys /\ deletes \subseteq Keys
    BY <1>1 DEF PollState
  <2>2. round' = [round EXCEPT !.pc = "diff", !.next.known = current, !.deletes = deletes]
    BY <1>3 DEF SnapshotKeys
  <2>3. round.pc = "scan" /\ round.batch = {}
    BY <1>3 DEF SnapshotKeys
  <2> HIDE DEF current, deletes
  <2> DEFINE next == [round.next EXCEPT !.known = current]
  <2>4. /\ next \in PollState /\ next.known = current
        /\ next.watermark = round.next.watermark /\ next.seen = round.next.seen
        /\ next.first = round.next.first
    BY <1>1, <2>1 DEF PollState
  <2>5. round' = [round EXCEPT !.pc = "diff", !.next = next, !.deletes = deletes]
    BY <1>1, <2>2
  <2> HIDE DEF next
  <2>6. /\ round' \in Round /\ round'.pc = "diff" /\ round'.batch = {} /\ round'.next = next
        /\ round'.tombstoned = round.tombstoned /\ round'.deletes = deletes
    BY <1>1, <2>1, <2>3, <2>4, <2>5 DEF Round
  <2> QED BY <1>3, <2>3, <2>4, <2>6 DEF current, deletes
<1> QED BY <1>2, <1>3

(* The round after one of its deletes was announced. *)
LEMMA DeleteRound ==
  ASSUME Types, NEW k \in round.deletes, EmitDelete(k)
  PROVE  /\ k \in Keys
         /\ round' \in Round /\ round.pc = "diff" /\ round'.pc = "diff"
         /\ round'.batch = round.batch /\ round'.next = round.next
         /\ round'.tombstoned = round.tombstoned /\ round'.deletes = round.deletes \ {k}
<1>1. round \in Round
  BY DEF Types, TypeOK
<1> QED BY <1>1 DEF EmitDelete, Round

(* The types after a step that leaves the collection alone. *)
LEMMA QuietTypes ==
  ASSUME Types, UNCHANGED <<docs, writes, newest, held, excused>>,
         poll' \in PollState, round' \in Round, touched' \subseteq Keys, lived' \subseteq Keys,
         failures' \in 0 .. MaxFailures + 1,
         told' \in [op : {"none", "resync", "disconnect"}, mark : BOOLEAN, key : BOOLEAN],
         view' \in [Keys -> Values \cup {Absent}],
         feed' \in [connected : BOOLEAN, disconnected : BOOLEAN, closing : BOOLEAN]
  PROVE  Types'
BY DEF Types, TypeOK

(* A query that fails is counted. *)
LEMMA FailureType ==
  ASSUME Types, CanFail, failures' = failures + 1
  PROVE  failures' \in 0 .. MaxFailures + 1
BY BoundsAssumption DEF Types, TypeOK, CanFail

(* Every step keeps the types. *)
LEMMA TypeStep == Types /\ [Next]_vars => Types'
<1> SUFFICES ASSUME Types, [Next]_vars PROVE Types'
  OBVIOUS
<1>1. /\ poll \in PollState /\ round \in Round /\ touched \subseteq Keys /\ lived \subseteq Keys
      /\ failures \in 0 .. MaxFailures + 1 /\ newest \in Stamps /\ held \subseteq Seen
      /\ told \in [op : {"none", "resync", "disconnect"}, mark : BOOLEAN, key : BOOLEAN]
      /\ view \in [Keys -> Values \cup {Absent}]
      /\ feed \in [connected : BOOLEAN, disconnected : BOOLEAN, closing : BOOLEAN]
      /\ docs \in [Keys -> Doc] /\ excused \subseteq Keys /\ writes \in 0 .. MaxWrites
  BY DEF Types, TypeOK
<1>2. CASE UNCHANGED vars
  BY <1>2 DEF vars, Types, TypeOK, Live
<1>3. ASSUME NEW now \in Stamps, StartPolling(now) PROVE Types'
  <2>1. NewPollState(now) \in PollState
    BY DEF NewPollState, PollState
  <2>2. newest' \in Stamps /\ held' \subseteq Seen
    BY <1>1, <1>3 DEF StartPolling, Later
  <2> QED BY <1>1, <1>3, <2>1, <2>2, NoRoundType DEF StartPolling, Types, TypeOK
<1>4. CASE Find
  BY <1>1, <1>4, FindRound, QuietTypes DEF Find, storeVars
<1>5. ASSUME NEW d \in round.batch, ReadDoc(d) PROVE Types'
  <2> DEFINE content == IF d.value = Tombstone THEN Absent ELSE d.value
  <2>1. d \in Found /\ round' \in Round
    BY <1>5, ReadDocRound
  <2>2. d.key \in Keys /\ content \in Values \cup {Absent}
    BY <2>1 DEF Found
  <2>3. (Emit(d.key, content) /\ UNCHANGED feed) \/ UNCHANGED <<told, view, feed>>
    BY <1>5 DEF ReadDoc
  <2> HIDE DEF content
  <2>4. /\ told' \in [op : {"none", "resync", "disconnect"}, mark : BOOLEAN, key : BOOLEAN]
        /\ view' \in [Keys -> Values \cup {Absent}]
        /\ feed' \in [connected : BOOLEAN, disconnected : BOOLEAN, closing : BOOLEAN]
    BY <2>2, <2>3, TellTypes
  <2> QED BY <1>1, <1>5, <2>1, <2>4, QuietTypes DEF ReadDoc, storeVars
<1>6. CASE Keys = {} /\ (RecoverBeforeEvent \/ BeginResync \/ RoundEnds)
  <2>1. view' \in [Keys -> Values \cup {Absent}]
    BY <1>1, <1>6 DEF RecoverBeforeEvent, BeginResync, RoundEnds, Resync
  <2>2. /\ told' \in [op : {"none", "resync", "disconnect"}, mark : BOOLEAN, key : BOOLEAN]
        /\ feed' \in [connected : BOOLEAN, disconnected : BOOLEAN, closing : BOOLEAN]
    <3>1. \/ UNCHANGED <<told, feed>>
          \/ Resync
      BY <1>6 DEF RecoverBeforeEvent, BeginResync, RoundEnds
    <3>2. CASE Resync
      BY <1>1, <3>2 DEF Resync, Told
    <3> QED BY <1>1, <3>1, <3>2
  <2>3. round' \in Round /\ poll' \in PollState
    BY <1>1, <1>6, NoRoundType DEF RecoverBeforeEvent, BeginResync, RoundEnds, Round
  <2> QED BY <1>1, <1>6, <2>1, <2>2, <2>3, QuietTypes
          DEF RecoverBeforeEvent, BeginResync, RoundEnds, storeVars
<1>7. ASSUME NEW k \in Keys, RecoverBeforeEvent \/ BeginResync \/ RoundEnds PROVE Types'
  <2>1. Resync \/ UNCHANGED <<told, view, feed>>
    BY <1>7 DEF RecoverBeforeEvent, BeginResync, RoundEnds
  <2>2. /\ told' \in [op : {"none", "resync", "disconnect"}, mark : BOOLEAN, key : BOOLEAN]
        /\ view' \in [Keys -> Values \cup {Absent}]
        /\ feed' \in [connected : BOOLEAN, disconnected : BOOLEAN, closing : BOOLEAN]
    BY <2>1, TellTypes
  <2>3. round' \in Round /\ poll' \in PollState
    BY <1>1, <1>7, NoRoundType DEF RecoverBeforeEvent, BeginResync, RoundEnds, Round
  <2> QED BY <1>1, <1>7, <2>2, <2>3, QuietTypes
          DEF RecoverBeforeEvent, BeginResync, RoundEnds, storeVars
<1>8. CASE RoundFails
  BY <1>1, <1>8, NoRoundType, FailureType, QuietTypes DEF RoundFails
<1>9. CASE SnapshotFails
  BY <1>1, <1>9, SnapshotRound, FailureType, QuietTypes DEF SnapshotFails, storeVars
<1>10. CASE SnapshotKeys
  BY <1>1, <1>10, SnapshotRound, QuietTypes DEF SnapshotKeys, storeVars
<1>11. ASSUME NEW k \in round.deletes, EmitDelete(k) PROVE Types'
  <2>1. k \in Keys /\ round' \in Round
    BY <1>11, DeleteRound
  <2>2. Emit(k, Absent) /\ UNCHANGED feed
    BY <1>11 DEF EmitDelete
  <2>3. /\ told' \in [op : {"none", "resync", "disconnect"}, mark : BOOLEAN, key : BOOLEAN]
        /\ view' \in [Keys -> Values \cup {Absent}]
        /\ feed' \in [connected : BOOLEAN, disconnected : BOOLEAN, closing : BOOLEAN]
    BY <2>1, <2>2, TellTypes
  <2> QED BY <1>1, <1>11, <2>1, <2>3, QuietTypes DEF EmitDelete, storeVars
<1>12. CASE BeginDisconnect
  <2>1. /\ told' \in [op : {"none", "resync", "disconnect"}, mark : BOOLEAN, key : BOOLEAN]
        /\ feed' \in [connected : BOOLEAN, disconnected : BOOLEAN, closing : BOOLEAN]
    BY <1>1, <1>12, ZenonT(40) DEF BeginDisconnect, Told
  <2> QED BY <1>1, <1>12, <2>1, NoRoundType, QuietTypes DEF BeginDisconnect, storeVars
<1>13. CASE BackoffEnds \/ Exit \/ Close
  <2>1. /\ feed' \in [connected : BOOLEAN, disconnected : BOOLEAN, closing : BOOLEAN]
        /\ round' \in Round
    BY <1>1, <1>13, NoRoundType DEF BackoffEnds, Exit, Close
  <2> QED BY <1>1, <1>13, <2>1, QuietTypes DEF BackoffEnds, Exit, Close, storeVars
<1>14. ASSUME NEW k \in Keys, NEW t \in Stamps, Delete(k, t) \/ \E v \in Values : Set(k, v, t)
       PROVE  Types'
  BY <1>14, WriteTypes DEF Delete, Set
<1>15. ASSUME NEW k \in Keys, DeleteOne(k) PROVE Types'
  <2>1. NoDoc \in Doc
    BY BoundsAssumption DEF NoDoc, Doc, Stamps
  <2>2. docs' \in [Keys -> Doc] /\ touched' \subseteq Keys /\ excused' \subseteq Keys
    BY <1>1, <1>15, <2>1 DEF DeleteOne
  <2>3. writes' \in 0 .. MaxWrites
    BY <1>1, <1>15, BoundsAssumption DEF DeleteOne, CanWrite
  <2>4. \A j \in Keys : docs'[j] # NoDoc => docs'[j].value # Absent
    BY <1>1, <1>15 DEF DeleteOne, Types
  <2> QED BY <1>1, <1>15, <2>2, <2>3, <2>4 DEF DeleteOne, Types, TypeOK
<1>16. RecoverBeforeEvent \/ BeginResync \/ RoundEnds => Types'
  BY <1>6, <1>7
<1> QED BY <1>2, <1>3, <1>4, <1>5, <1>8, <1>9, <1>10, <1>11, <1>12, <1>13, <1>14, <1>15, <1>16
        DEF Next, Poller

(* The state is well typed throughout, and no document is without content  *)
(* unless it is a tombstone.                                               *)
THEOREM TypesHold == Spec => []Types
BY TypeInit, TypeStep, PTL DEF Spec

(* The state is well typed throughout. *)
THEOREM TypeCorrect == Spec => []TypeOK
BY TypesHold, PTL DEF Types

-----------------------------------------------------------------------------
(* The markers *)

(* Nothing is announced before the first round is complete. *)
FirstInv ==
  /\ poll.first => ~feed.connected /\ ~feed.disconnected
  /\ round.pc \in {"off", "start"} => poll.first
  /\ round.pc \in {"ready", "idle", "lost", "backoff", "exited"} => ~poll.first
  /\ InRound => ~round.next.first

(* The last marker told is the one the feed's flags stand for, and a feed  *)
(* past its first marker is in an outage or is not.                        *)
MarkerInv ==
  /\ feed.connected => ~feed.disconnected
  /\ ~feed.closing /\ feed.disconnected => told.op = "disconnect"
  /\ ~feed.closing /\ feed.connected => told.op = "resync"
  /\ ~feed.closing /\ ~feed.connected /\ ~feed.disconnected => told.op = "none"
  /\ round.pc = "ready" => ~feed.connected /\ ~feed.disconnected
  /\ ~feed.closing /\ ~poll.first /\ round.pc # "ready" => feed.connected \/ feed.disconnected

MarkInv == FirstInv /\ MarkerInv

(* The states of the round that no query is part of. *)
LEMMA Outside ==
  ASSUME NEW pc \in {"off", "start", "ready", "idle", "lost", "backoff", "exited"},
         round' = NoRound(pc)
  PROVE  round'.pc = pc /\ round'.batch = {} /\ round'.deletes = {} /\ ~InRound'
BY NoRoundType DEF InRound

(* What Resync does to the flags and the marker. *)
LEMMA ResyncFacts ==
  ASSUME Types, Resync
  PROVE  /\ feed'.connected /\ ~feed'.disconnected /\ feed'.closing = feed.closing
         /\ ~feed.closing => told'.op = "resync"
         /\ \A k \in Keys : view'[k] = Content(k)
<1>1. /\ told \in [op : {"none", "resync", "disconnect"}, mark : BOOLEAN, key : BOOLEAN]
      /\ feed \in [connected : BOOLEAN, disconnected : BOOLEAN, closing : BOOLEAN]
  BY DEF Types, TypeOK
<1> QED BY <1>1 DEF Resync, Told

(* What Emit does to the subscriber. *)
LEMMA EmitFacts ==
  ASSUME Types, NEW k \in Keys, NEW content, Emit(k, content)
  PROVE  /\ told'.op = told.op
         /\ \A j \in Keys : j # k => view'[j] = view[j]
         /\ \/ poll.first /\ UNCHANGED <<told, view>>
            \/ ~poll.first /\ ~Recovering /\ Told("key") /\ view'[k] = content
<1>1. /\ told \in [op : {"none", "resync", "disconnect"}, mark : BOOLEAN, key : BOOLEAN]
      /\ view \in [Keys -> Values \cup {Absent}]
  BY DEF Types, TypeOK
<1>2. CASE poll.first
  BY <1>2 DEF Emit
<1>3. CASE ~poll.first
  <2>1. ~Recovering /\ Told("key") /\ view' = [view EXCEPT ![k] = content]
    BY <1>3 DEF Emit
  <2>2. told'.op = told.op
    BY <1>1, <2>1 DEF Told
  <2> QED BY <1>1, <1>3, <2>1, <2>2
<1> QED BY <1>2, <1>3

(* Every step keeps them. *)
LEMMA MarkStep == Types /\ MarkInv /\ [Next]_vars => MarkInv'
<1> SUFFICES ASSUME Types, MarkInv, [Next]_vars PROVE MarkInv'
  OBVIOUS
<1> USE DEF MarkInv, FirstInv, MarkerInv
<1>1. /\ poll \in PollState /\ round \in Round
      /\ told \in [op : {"none", "resync", "disconnect"}, mark : BOOLEAN, key : BOOLEAN]
      /\ feed \in [connected : BOOLEAN, disconnected : BOOLEAN, closing : BOOLEAN]
  BY DEF Types, TypeOK
<1>2. CASE UNCHANGED <<poll, round, feed, told>>
  BY <1>2 DEF InRound
<1>3. ASSUME NEW now \in Stamps, StartPolling(now) PROVE MarkInv'
  <2>1. round'.pc = "start" /\ ~InRound' /\ poll'.first
    BY <1>3, Outside DEF StartPolling, NewPollState
  <2>2. ~feed.connected /\ ~feed.disconnected /\ UNCHANGED <<feed, told>>
    BY <1>3 DEF StartPolling
  <2> QED BY <2>1, <2>2
<1>4. CASE Find
  <2>1. round'.pc = "scan" /\ ~round'.next.first /\ UNCHANGED <<poll, feed, told>>
    BY <1>4, FindRound DEF Find
  <2>2. round.pc # "ready"
    BY <1>4 DEF Find
  <2> QED BY <2>1, <2>2 DEF InRound
<1>5. ASSUME NEW d \in round.batch, ReadDoc(d) PROVE MarkInv'
  <2>1. /\ round.pc = "scan" /\ round'.pc = "scan" /\ d \in Found
        /\ round'.next = Advance(round.next, d)
    BY <1>5, ReadDocRound
  <2>2. told'.op = told.op /\ UNCHANGED <<poll, feed>>
    BY <1>5, <2>1, EmitFacts DEF ReadDoc, Found
  <2>3. ~round'.next.first
    BY <1>1, <2>1 DEF Advance, InRound, Round, PollState
  <2> QED BY <2>1, <2>2, <2>3 DEF InRound
<1>6. CASE RecoverBeforeEvent
  <2>1. Recovering /\ Resync /\ InRound /\ UNCHANGED <<poll, round>>
    BY <1>6 DEF RecoverBeforeEvent, InRound
  <2>2. ~poll.first
    BY <2>1 DEF Recovering
  <2>3. /\ feed'.connected /\ ~feed'.disconnected /\ feed'.closing = feed.closing
        /\ ~feed.closing => told'.op = "resync"
    BY <2>1, ResyncFacts
  <2> QED BY <2>1, <2>2, <2>3 DEF InRound
<1>7. CASE RoundFails
  <2>1. round'.pc = (IF poll.first THEN "off" ELSE "lost") /\ ~InRound'
    BY <1>7, Outside DEF RoundFails
  <2>2. UNCHANGED <<poll, feed, told>> /\ round.pc # "ready"
    BY <1>7 DEF RoundFails
  <2> QED BY <2>1, <2>2
<1>8. CASE SnapshotKeys \/ SnapshotFails
  <2>1. /\ round.pc = "scan" /\ round'.pc = "diff" /\ round'.next.first = round.next.first
        /\ UNCHANGED <<poll, feed, told>>
    BY <1>8, SnapshotRound DEF SnapshotKeys, SnapshotFails
  <2> QED BY <2>1 DEF InRound
<1>9. ASSUME NEW k \in round.deletes, EmitDelete(k) PROVE MarkInv'
  <2>1. round.pc = "diff" /\ round'.pc = "diff" /\ round'.next = round.next /\ k \in Keys
    BY <1>9, DeleteRound
  <2>2. told'.op = told.op /\ UNCHANGED <<poll, feed>>
    BY <1>9, <2>1, EmitFacts DEF EmitDelete
  <2> QED BY <2>1, <2>2 DEF InRound
<1>10. CASE RoundEnds
  <2>1. /\ round'.pc = (IF poll.first THEN "ready" ELSE "idle") /\ ~InRound'
        /\ ~poll'.first /\ round.pc = "diff"
    BY <1>10, Outside DEF RoundEnds, InRound
  <2>2. CASE ~poll.first /\ Recovering
    <3>1. Resync
      BY <1>10, <2>2 DEF RoundEnds
    <3>2. /\ feed'.connected /\ ~feed'.disconnected /\ feed'.closing = feed.closing
          /\ ~feed.closing => told'.op = "resync"
      BY <3>1, ResyncFacts
    <3> QED BY <2>1, <2>2, <3>2
  <2>3. CASE ~(~poll.first /\ Recovering)
    <3>1. UNCHANGED <<feed, told>>
      BY <1>10, <2>3 DEF RoundEnds
    <3> QED BY <2>1, <2>3, <3>1
  <2> QED BY <2>2, <2>3
<1>11. CASE BeginResync
  <2>1. round'.pc = "idle" /\ ~InRound' /\ round.pc = "ready" /\ poll' = poll
    BY <1>11, Outside DEF BeginResync
  <2>2. CASE feed.closing
    BY <1>11, <2>1, <2>2 DEF BeginResync
  <2>3. CASE ~feed.closing
    <3>1. Resync
      BY <1>11, <2>3 DEF BeginResync
    <3>2. /\ feed'.connected /\ ~feed'.disconnected /\ feed'.closing = feed.closing
          /\ ~feed.closing => told'.op = "resync"
      BY <3>1, ResyncFacts
    <3> QED BY <2>1, <3>2
  <2> QED BY <2>2, <2>3
<1>12. CASE BeginDisconnect
  <2>1. round'.pc = "backoff" /\ ~InRound' /\ round.pc = "lost" /\ poll' = poll
    BY <1>12, Outside DEF BeginDisconnect
  <2>2. CASE feed.closing \/ feed.disconnected
    <3>1. UNCHANGED <<feed, told>>
      BY <1>12, <2>2 DEF BeginDisconnect
    <3> QED BY <2>1, <3>1
  <2>3. CASE ~(feed.closing \/ feed.disconnected)
    <3>1. /\ ~feed'.connected /\ feed'.disconnected /\ feed'.closing = feed.closing
          /\ told'.op = "disconnect"
      BY <1>1, <1>12, <2>3 DEF BeginDisconnect, Told
    <3> QED BY <2>1, <3>1
  <2> QED BY <2>2, <2>3
<1>13. CASE BackoffEnds \/ Exit
  <2>1. /\ round'.pc \in {"idle", "exited"} /\ ~InRound' /\ round.pc \in {"backoff", "idle"}
        /\ UNCHANGED <<poll, feed, told>>
    BY <1>13, Outside DEF BackoffEnds, Exit
  <2> QED BY <2>1
<1>14. CASE Close
  <2>1. /\ feed'.connected = feed.connected /\ feed'.disconnected = feed.disconnected
        /\ feed'.closing /\ UNCHANGED <<poll, round, told>>
    BY <1>1, <1>14 DEF Close
  <2> QED BY <2>1 DEF InRound
<1>15. ASSUME NEW k \in Keys, NEW t \in Stamps, Delete(k, t) \/ \E v \in Values : Set(k, v, t)
       PROVE  MarkInv'
  BY <1>2, <1>15 DEF Delete, Set, Write
<1>16. ASSUME NEW k \in Keys, DeleteOne(k) PROVE MarkInv'
  BY <1>2, <1>16 DEF DeleteOne
<1>17. CASE UNCHANGED vars
  BY <1>2, <1>17 DEF vars
<1> QED BY <1>3, <1>4, <1>5, <1>6, <1>7, <1>8, <1>9, <1>10, <1>11, <1>12, <1>13, <1>14, <1>15,
           <1>16, <1>17 DEF Next, Poller

(* The markers stand for the feed's flags throughout. *)
THEOREM MarksHold == Spec => []MarkInv
<1>1. Init => MarkInv
  BY DEF Init, MarkInv, FirstInv, MarkerInv, NoRound, NewPollState, InRound
<1> QED BY <1>1, TypesHold, MarkStep, PTL DEF Spec

(* What the contract knows of the subscriber. *)
Heard == [op |-> [s \in {Engine} |-> told.op], mark |-> [s \in {Engine} |-> told.mark],
          key |-> [s \in {Engine} |-> told.key]]

Hearing == [op : [{Engine} -> {"none", "resync", "disconnect"}],
            mark : [{Engine} -> BOOLEAN], key : [{Engine} -> BOOLEAN]]

(* What is told is a step of the contract: a marker that differs from the  *)
(* last, or a key event after a resync.                                    *)
LEMMA TellRefines ==
  ASSUME Types, NEW op \in {"key", "resync", "disconnect"}, Told(op),
         ~feed.closing => \/ op # "key" /\ told.op # op
                          \/ op = "key" /\ told.op = "resync"
  PROVE  [Contract!Next]_Heard
<1>1. told \in [op : {"none", "resync", "disconnect"}, mark : BOOLEAN, key : BOOLEAN]
  BY DEF Types, TypeOK
<1>2. CASE feed.closing
  BY <1>2 DEF Told, Heard
<1>3. CASE ~feed.closing /\ op = "key"
  <2>1. told'.op = told.op /\ told'.mark = told.mark /\ told'.key = ~told.key
    BY <1>1, <1>3 DEF Told
  <2>2. Contract!KeyEvent(Engine)
    <3>1. Heard.op[Engine] = "resync"
      BY <1>3 DEF Heard
    <3>2. Heard \in Hearing /\ Heard' \in Hearing
      BY <1>1, <2>1 DEF Heard, Hearing
    <3>3. Heard'.key = [Heard.key EXCEPT ![Engine] = ~Heard.key[Engine]]
      BY <2>1 DEF Heard
    <3>4. Heard'.op = Heard.op /\ Heard'.mark = Heard.mark
      BY <2>1 DEF Heard
    <3>5. Heard' = [Heard EXCEPT !.key[Engine] = ~@]
      BY <3>2, <3>3, <3>4 DEF Hearing
    <3> QED BY <3>1, <3>5 DEF Heard, Contract!KeyEvent
  <2> QED BY <2>2 DEF Contract!Next
<1>4. CASE ~feed.closing /\ op # "key"
  <2>1. told'.op = op /\ told'.mark = ~told.mark /\ told'.key = told.key
    BY <1>1, <1>4 DEF Told
  <2>2. Contract!Marker(Engine, op)
    <3>1. Heard.op[Engine] # op
      BY <1>4 DEF Heard
    <3>2. Heard \in Hearing /\ Heard' \in Hearing
      BY <1>1, <1>4, <2>1 DEF Heard, Hearing
    <3>3. Heard'.op = [Heard.op EXCEPT ![Engine] = op]
      BY <2>1 DEF Heard
    <3>4. /\ Heard'.mark = [Heard.mark EXCEPT ![Engine] = ~Heard.mark[Engine]]
          /\ Heard'.key = Heard.key
      BY <2>1 DEF Heard
    <3>5. Heard' = [Heard EXCEPT !.op[Engine] = op, !.mark[Engine] = ~@]
      BY <3>2, <3>3, <3>4 DEF Hearing
    <3> QED BY <3>1, <3>5 DEF Heard, Contract!Marker
  <2> QED BY <1>4, <2>2 DEF Contract!Next
<1> QED BY <1>2, <1>3, <1>4

(* Every step of the poller is a step of the store's contract or none: the *)
(* markers alternate, and no key event comes before the resync of its      *)
(* connection.                                                             *)
LEMMA StepRefines == Types /\ MarkInv /\ [Next]_vars => [Contract!Next]_Heard
<1> SUFFICES ASSUME Types, MarkInv, [Next]_vars PROVE [Contract!Next]_Heard
  OBVIOUS
<1> USE DEF MarkInv, FirstInv, MarkerInv
<1>1. CASE UNCHANGED told
  BY <1>1 DEF Heard
<1>2. ASSUME NEW k \in Keys, NEW content, Emit(k, content), InRound
      PROVE  [Contract!Next]_Heard
  <2>1. CASE poll.first
    BY <1>1, <1>2, <2>1 DEF Emit
  <2>2. CASE ~poll.first
    <3>1. Told("key") /\ ~Recovering
      BY <1>2, <2>2 DEF Emit
    <3>2. ~feed.closing => told.op = "resync"
      BY <1>2, <2>2, <3>1 DEF Recovering, InRound
    <3> QED BY <3>1, <3>2, TellRefines
  <2> QED BY <2>1, <2>2
<1>3. ASSUME NEW d \in round.batch, ReadDoc(d) PROVE [Contract!Next]_Heard
  <2>1. d.key \in Keys /\ InRound
    BY <1>3, ReadDocRound DEF Found, InRound
  <2>2. CASE BoundaryDedupHit(d)
    BY <1>1, <1>3, <2>2 DEF ReadDoc
  <2>3. CASE ~BoundaryDedupHit(d)
    BY <1>2, <1>3, <2>1, <2>3 DEF ReadDoc
  <2> QED BY <2>2, <2>3
<1>4. ASSUME NEW k \in round.deletes, EmitDelete(k) PROVE [Contract!Next]_Heard
  <2>1. k \in Keys /\ InRound
    BY <1>4, DeleteRound DEF InRound
  <2> QED BY <1>2, <1>4, <2>1 DEF EmitDelete
<1>5. ASSUME Resync, ~feed.closing => ~feed.connected PROVE [Contract!Next]_Heard
  <2>1. Told("resync")
    BY <1>5 DEF Resync
  <2>2. ~feed.closing => told.op # "resync"
    BY <1>5
  <2> QED BY <2>1, <2>2, TellRefines
<1>6. CASE RecoverBeforeEvent
  BY <1>5, <1>6 DEF RecoverBeforeEvent, Recovering
<1>7. CASE RoundEnds
  <2>1. CASE ~poll.first /\ Recovering
    BY <1>5, <1>7, <2>1 DEF RoundEnds, Recovering
  <2>2. CASE ~(~poll.first /\ Recovering)
    BY <1>1, <1>7, <2>2 DEF RoundEnds
  <2> QED BY <2>1, <2>2
<1>8. CASE BeginResync
  <2>1. CASE feed.closing
    BY <1>1, <1>8, <2>1 DEF BeginResync
  <2>2. CASE ~feed.closing
    <3>1. Resync /\ round.pc = "ready"
      BY <1>8, <2>2 DEF BeginResync
    <3>2. ~feed.connected
      BY <3>1 DEF BeginResync
    <3> QED BY <1>5, <3>1, <3>2
  <2> QED BY <2>1, <2>2
<1>9. CASE BeginDisconnect
  <2>1. CASE feed.closing \/ feed.disconnected
    BY <1>1, <1>9, <2>1 DEF BeginDisconnect
  <2>2. CASE ~(feed.closing \/ feed.disconnected)
    <3>1. Told("disconnect") /\ told.op # "disconnect"
      BY <1>9, <2>2 DEF BeginDisconnect
    <3> QED BY <3>1, TellRefines
  <2> QED BY <2>1, <2>2
<1>10. CASE \/ \E now \in Stamps : StartPolling(now)
            \/ Find \/ RoundFails \/ SnapshotKeys \/ SnapshotFails \/ BackoffEnds \/ Exit
            \/ Close \/ (\E k \in Keys : DeleteOne(k))
            \/ (\E k \in Keys, t \in Stamps : Delete(k, t) \/ \E v \in Values : Set(k, v, t))
            \/ UNCHANGED vars
  BY <1>1, <1>10 DEF StartPolling, Find, RoundFails, SnapshotKeys, SnapshotFails, BackoffEnds,
                     Exit, Close, DeleteOne, Delete, Set, Write, vars
<1> QED BY <1>3, <1>4, <1>6, <1>7, <1>8, <1>9, <1>10 DEF Next, Poller

(* Polling implements the store's contract: one resync per connection,     *)
(* before the key events read on it, and one disconnect per outage         *)
(* (pollEmitter, beginResyncAfterOutage, beginDisconnect).                 *)
THEOREM Refinement == Spec => KeepsContract
<1>1. Init => Contract!Init
  BY DEF Init, Contract!Init
<1>2. Heard = [op |-> [s \in {Engine} |-> told.op], mark |-> [s \in {Engine} |-> told.mark],
               key |-> [s \in {Engine} |-> told.key]]
  BY DEF Heard
<1>3. Types /\ MarkInv /\ [Next]_vars =>
        [Contract!Next]_([op |-> [s \in {Engine} |-> told.op],
                          mark |-> [s \in {Engine} |-> told.mark],
                          key |-> [s \in {Engine} |-> told.key]])
  BY StepRefines DEF Heard
<1> QED BY <1>1, <1>3, TypesHold, MarksHold, PTL DEF Spec, KeepsContract, Contract!Spec

-----------------------------------------------------------------------------
(* The round and the collection *)

(* Nothing is stamped after newest, and what carries that stamp was held   *)
(* then; a document that is older and not excused was not written since.   *)
Current(p) ==
  /\ p.watermark <= newest
  /\ p.watermark = newest => p.seen \subseteq held
Dated(k) ==
  /\ docs[k].stamp <= newest
  /\ docs[k] # NoDoc /\ docs[k].stamp = newest => <<k, docs[k].value>> \in held
  /\ docs[k] # NoDoc /\ docs[k].stamp < newest /\ k \notin excused =>
       \A x \in Values \cup {Tombstone} : <<k, x>> \notin held
ClockInv ==
  /\ Current(poll)
  /\ InRound => Current(round.next) /\ poll.watermark <= round.next.watermark
  /\ \A k \in Keys : Dated(k)

(* What the query found is what the collection holds, but for what was     *)
(* written since; it comes in the order of the stamps, once per key.       *)
BatchInv ==
  /\ \A d \in round.batch :
       /\ d.stamp <= newest /\ round.next.watermark <= d.stamp
       /\ d.stamp = newest => <<d.key, d.value>> \in held
       /\ d.key \notin touched => docs[d.key] = [value |-> d.value, stamp |-> d.stamp]
       /\ \A e \in round.batch : e.key = d.key => e = d
  /\ round.pc # "scan" => round.batch = {}

(* The keys remembered are those of the last complete snapshot. *)
KnownInv ==
  /\ round.pc # "diff" => poll.known = lived
  /\ InRound => round.next.known = lived

(* The tombstones the query met suppress a delete, and a key to announce   *)
(* as deleted is not live unless it was written since the query.           *)
DeleteInv ==
  /\ ~InRound => touched = {}
  /\ round.pc # "diff" => round.deletes = {}
  /\ \A k \in round.deletes : k \notin touched => ~Live(k)
  /\ round.pc = "scan" =>
       \A k \in Keys \ touched : docs[k].value = Tombstone /\ Due(k) => Entombed(k)

RoundInv == ClockInv /\ BatchInv /\ KnownInv /\ DeleteInv

(* Stamps are numbers. *)
LEMMA Numbers ==
  ASSUME Types
  PROVE  /\ \A t \in Stamps : t \in Nat
         /\ newest \in Nat /\ poll.watermark \in Nat /\ round.next.watermark \in Nat
         /\ \A k \in Keys : docs[k].stamp \in Nat
         /\ \A d \in round.batch : d.stamp \in Nat
<1>1. \A t \in Stamps : t \in Nat
  BY DEF Stamps
<1>2. newest \in Stamps /\ poll \in PollState /\ round \in Round /\ docs \in [Keys -> Doc]
  BY DEF Types, TypeOK
<1>3. poll.watermark \in Stamps
  BY <1>2 DEF PollState
<1>4. round.next.watermark \in Stamps
  BY <1>2 DEF PollState, Round
<1>5. \A k \in Keys : docs[k].stamp \in Stamps
  BY <1>2 DEF Doc
<1>6. \A d \in round.batch : d.stamp \in Stamps
  BY <1>2 DEF Round, Found
<1> QED BY <1>1, <1>2, <1>3, <1>4, <1>5, <1>6

(* What a write does to the collection and its histories.                  *)
LEMMA WriteFacts ==
  ASSUME Types, ClockInv, NEW k \in Keys, NEW t \in Stamps,
         NEW value \in Values \cup {Tombstone}, Write(k, value, t)
  PROVE  /\ docs'[k] = [value |-> value, stamp |-> t] /\ docs'[k] # NoDoc
         /\ docs'[k].value = value /\ docs'[k].stamp = t
         /\ \A j \in Keys : j # k => docs'[j] = docs[j] /\ (j \in excused' <=> j \in excused)
         /\ newest <= newest' /\ t <= newest' /\ newest' \in Nat
         /\ newest' = newest => held \subseteq held'
         /\ t = newest' => <<k, value>> \in held'
         /\ \A j \in Keys : \A x : j # k /\ <<j, x>> \in held' =>
              <<j, x>> \in held /\ newest' = newest
         /\ k \notin excused' => t = newest' /\ (t > newest \/ <<k, value>> \notin held)
         /\ touched' = IF InRound THEN touched \cup {k} ELSE {}
         /\ UNCHANGED <<poll, round, feed, view, lived>>
<1>1. docs \in [Keys -> Doc] /\ t \in Nat /\ newest \in Nat
  BY Numbers DEF Types, TypeOK
<1>2. newest' = Later(newest, t) /\ docs' = [docs EXCEPT ![k] = [value |-> value, stamp |-> t]]
  BY DEF Write
<1>3. newest <= newest' /\ t <= newest' /\ newest' \in Nat
      /\ (t > newest => newest' = t) /\ (t <= newest => newest' = newest)
  BY <1>1, <1>2 DEF Later
<1>4. docs'[k] = [value |-> value, stamp |-> t] /\ value # Absent
  BY <1>1, <1>2, MarksAssumption
<1>5. docs'[k] # NoDoc /\ docs'[k].value = value /\ docs'[k].stamp = t
  BY <1>4 DEF NoDoc
<1>6. \A j \in Keys : j # k => docs'[j] = docs[j]
  BY <1>1, <1>2
<1>7. held' = IF t > newest THEN {<<k, value>>}
             ELSE IF t = newest THEN held \cup {<<k, value>>} ELSE held
  BY DEF Write
<1>8. /\ newest' = newest => held \subseteq held'
      /\ t = newest' => <<k, value>> \in held'
  BY <1>1, <1>3, <1>7
<1>9. ASSUME NEW j \in Keys, NEW x, j # k, <<j, x>> \in held'
      PROVE  <<j, x>> \in held /\ newest' = newest
  BY <1>1, <1>3, <1>7, <1>9
<1>10. \A j \in Keys : j # k => (j \in excused' <=> j \in excused)
  BY DEF Write
<1>11. ASSUME k \notin excused' PROVE t = newest' /\ (t > newest \/ <<k, value>> \notin held)
  <2>1. ~Unseeable(k, value, t)
    BY <1>11 DEF Write
  <2>2. t >= newest
    BY <1>1, <2>1 DEF Unseeable
  <2>3. CASE t > newest
    BY <1>3, <2>3
  <2>4. CASE t = newest /\ <<k, value>> \in held
    <3>1. docs[k].value = value
      BY <2>1, <2>4 DEF Unseeable
    <3>2. k \notin excused /\ docs[k] # [value |-> value, stamp |-> t]
      BY <1>11, <2>1, <3>1 DEF Write
    <3>3. docs[k].stamp # t
      BY <1>1, <3>1, <3>2 DEF Doc
    <3>4. docs[k].stamp <= newest /\ docs[k].stamp \in Nat
      BY Numbers DEF ClockInv, Dated
    <3>5. docs[k].stamp < newest /\ docs[k] # NoDoc
      BY <1>1, <1>4, <2>4, <3>1, <3>3, <3>4 DEF NoDoc
    <3> QED BY <2>4, <3>2, <3>5 DEF ClockInv, Dated
  <2> QED BY <1>1, <1>3, <2>2, <2>3, <2>4
<1> QED BY <1>3, <1>4, <1>5, <1>6, <1>8, <1>9, <1>10, <1>11 DEF Write

(* What a removal does to the collection and its histories. *)
LEMMA RemoveFacts ==
  ASSUME Types, NEW k \in Keys, DeleteOne(k)
  PROVE  /\ docs'[k] = NoDoc /\ docs'[k].value = Absent /\ ~Live(k)' /\ docs'[k].stamp = 0
         /\ \A j \in Keys : j # k => docs'[j] = docs[j] /\ (j \in excused' <=> j \in excused)
         /\ k \notin excused' => k \in lived /\ ~Entombed(k)
         /\ touched' = IF InRound THEN touched \cup {k} ELSE {}
         /\ UNCHANGED <<poll, round, feed, view, lived, newest, held>>
<1>1. docs \in [Keys -> Doc]
  BY DEF Types, TypeOK
<1>2. docs'[k] = NoDoc /\ \A j \in Keys : j # k => docs'[j] = docs[j]
  BY <1>1 DEF DeleteOne
<1>3. docs'[k].value = Absent /\ docs'[k].stamp = 0
  BY <1>2 DEF NoDoc
<1>4. ~Live(k)'
  BY <1>3, MarksAssumption DEF Live
<1> QED BY <1>2, <1>3, <1>4 DEF DeleteOne

(* A document read moves the round's watermark to its stamp, and is seen. *)
LEMMA AdvanceFacts ==
  ASSUME Types, RoundInv, NEW d \in round.batch, ReadDoc(d)
  PROVE  /\ round'.next.watermark = d.stamp
         /\ round'.next.known = round.next.known
         /\ round'.next.seen = (IF d.stamp = round.next.watermark THEN round.next.seen ELSE {})
                                 \cup {<<d.key, d.value>>}
         /\ round.next.watermark <= d.stamp
<1>1. /\ round.next \in PollState /\ round'.next = Advance(round.next, d) /\ round.pc = "scan"
  BY ReadDocRound DEF Types, TypeOK, Round
<1>2. round.next.watermark <= d.stamp /\ poll.watermark <= round.next.watermark
  BY <1>1 DEF RoundInv, BatchInv, ClockInv, InRound
<1>3. d.stamp \in Nat /\ round.next.watermark \in Nat /\ poll.watermark \in Nat
  BY Numbers
<1> DEFINE s == <<d.key, d.value>>
<1> HIDE DEF s
<1>4. CASE BoundaryDedupHit(d)
  <2>1. d.stamp = round.next.watermark
    BY <1>2, <1>3, <1>4 DEF BoundaryDedupHit
  <2>2. round'.next = [round.next EXCEPT !.seen = @ \cup {s}]
    BY <1>1, <1>4 DEF Advance, s
  <2>3. round'.next.seen = round.next.seen \cup {s}
        /\ round'.next.watermark = round.next.watermark
        /\ round'.next.known = round.next.known
    BY <1>1, <2>2 DEF PollState
  <2> QED BY <1>2, <2>1, <2>3 DEF s
<1>5. CASE ~BoundaryDedupHit(d) /\ d.stamp > round.next.watermark
  <2>1. round'.next = [round.next EXCEPT !.watermark = d.stamp, !.seen = {s}]
    BY <1>1, <1>5 DEF Advance, s
  <2>2. round'.next.seen = {s} /\ round'.next.watermark = d.stamp
        /\ round'.next.known = round.next.known
    BY <1>1, <2>1 DEF PollState
  <2>3. d.stamp # round.next.watermark
    BY <1>3, <1>5
  <2> QED BY <1>2, <2>2, <2>3 DEF s
<1>6. CASE ~BoundaryDedupHit(d) /\ d.stamp = round.next.watermark
  <2>1. round'.next = [round.next EXCEPT !.seen = @ \cup {s}]
    BY <1>1, <1>3, <1>6 DEF Advance, s
  <2>2. round'.next.seen = round.next.seen \cup {s} /\ round'.next.watermark = d.stamp
        /\ round'.next.known = round.next.known
    BY <1>1, <1>6, <2>1 DEF PollState
  <2> QED BY <1>2, <1>6, <2>2 DEF s
<1> QED BY <1>2, <1>3, <1>4, <1>5, <1>6

(* A change of one key of the collection keeps them. *)
LEMMA ChangeKeeps ==
  ASSUME Types, RoundInv, NEW k \in Keys,
         \A j \in Keys : j # k => docs'[j] = docs[j] /\ (j \in excused' <=> j \in excused),
         newest <= newest', newest' \in Nat,
         newest' = newest => held \subseteq held',
         \A j \in Keys : \A x : j # k /\ <<j, x>> \in held' =>
              <<j, x>> \in held /\ newest' = newest,
         Dated(k)',
         touched' = IF InRound THEN touched \cup {k} ELSE {},
         UNCHANGED <<poll, round, lived>>
  PROVE  RoundInv'
<1>1. /\ newest \in Nat /\ poll.watermark \in Nat /\ round.next.watermark \in Nat
      /\ \A j \in Keys : docs[j].stamp \in Nat
      /\ \A d \in round.batch : d.stamp \in Nat
  BY Numbers
<1>2. InRound' = InRound
  BY DEF InRound
<1>3. ClockInv'
  <2>1. Current(poll)'
    BY <1>1 DEF RoundInv, ClockInv, Current
  <2>2. InRound' => Current(round.next)' /\ poll'.watermark <= round'.next.watermark
    BY <1>1, <1>2 DEF RoundInv, ClockInv, Current
  <2>3. ASSUME NEW j \in Keys, j # k PROVE Dated(j)'
    <3>1. Dated(j) /\ docs'[j] = docs[j] /\ (j \in excused' <=> j \in excused)
      BY <2>3 DEF RoundInv, ClockInv
    <3>2. docs[j].stamp <= newest' /\ (docs[j].stamp = newest' => newest' = newest)
      BY <1>1, <3>1 DEF Dated
    <3>3. docs[j] # NoDoc /\ docs[j].stamp = newest' => <<j, docs[j].value>> \in held'
      BY <3>1, <3>2 DEF Dated
    <3>4. ASSUME docs[j] # NoDoc, docs[j].stamp < newest', j \notin excused,
                 NEW x \in Values \cup {Tombstone}, <<j, x>> \in held'
          PROVE  FALSE
      <4>1. <<j, x>> \in held /\ newest' = newest
        BY <2>3, <3>4
      <4> QED BY <3>1, <3>4, <4>1 DEF Dated
    <3> QED BY <3>1, <3>2, <3>3, <3>4 DEF Dated
  <2> QED BY <2>1, <2>2, <2>3 DEF ClockInv
<1>4. BatchInv'
  <2>1. ASSUME NEW d \in round.batch
        PROVE  /\ d.stamp <= newest' /\ round.next.watermark <= d.stamp
               /\ d.stamp = newest' => <<d.key, d.value>> \in held'
               /\ d.key \notin touched' => docs'[d.key] = [value |-> d.value, stamp |-> d.stamp]
               /\ \A e \in round.batch : e.key = d.key => e = d
    <3>1. /\ d.stamp <= newest /\ round.next.watermark <= d.stamp
          /\ d.stamp = newest => <<d.key, d.value>> \in held
          /\ d.key \notin touched => docs[d.key] = [value |-> d.value, stamp |-> d.stamp]
          /\ \A e \in round.batch : e.key = d.key => e = d
      BY <2>1 DEF RoundInv, BatchInv
    <3>2. round.pc = "scan" /\ d.key \in Keys
      BY <2>1 DEF RoundInv, BatchInv, Types, TypeOK, Round, Found
    <3>3. d.key \notin touched' => d.key # k /\ d.key \notin touched
      BY <3>2 DEF InRound
    <3>4. d.stamp <= newest' /\ (d.stamp = newest' => newest' = newest)
      BY <1>1, <2>1, <3>1
    <3> QED BY <3>1, <3>2, <3>3, <3>4
  <2> QED BY <2>1 DEF RoundInv, BatchInv
<1>5. KnownInv'
  BY <1>2 DEF RoundInv, KnownInv
<1>6. DeleteInv'
  <2>1. ASSUME NEW j \in round.deletes, j \notin touched' PROVE ~Live(j)'
    <3>1. InRound /\ j \in Keys
      BY <2>1 DEF RoundInv, DeleteInv, InRound, Types, TypeOK, Round
    <3>2. j # k /\ j \notin touched /\ docs'[j] = docs[j]
      BY <2>1, <3>1
    <3> QED BY <2>1, <3>2 DEF RoundInv, DeleteInv, Live
  <2>2. ASSUME round.pc = "scan", NEW j \in Keys, j \notin touched',
               docs'[j].value = Tombstone, Due(j)'
        PROVE  Entombed(j)'
    <3>1. j # k /\ j \notin touched /\ docs'[j] = docs[j]
      BY <2>2 DEF InRound
    <3>2. Due(j) /\ docs[j].value = Tombstone
      BY <2>2, <3>1 DEF Due
    <3>3. Entombed(j)
      BY <2>2, <3>1, <3>2 DEF RoundInv, DeleteInv
    <3> QED BY <3>3 DEF Entombed
  <2>3. ~InRound' => touched' = {}
    BY <1>2
  <2> QED BY <2>1, <2>2, <2>3 DEF RoundInv, DeleteInv
<1> QED BY <1>3, <1>4, <1>5, <1>6 DEF RoundInv

(* So every writer does. *)
LEMMA WriterKeeps ==
  ASSUME Types, RoundInv, NEW k \in Keys, NEW t \in Stamps,
         \/ DeleteOne(k)
         \/ \E value \in Values \cup {Tombstone} : Write(k, value, t)
  PROVE  RoundInv'
<1>1. ASSUME NEW value \in Values \cup {Tombstone}, Write(k, value, t) PROVE RoundInv'
  <2>1. ClockInv
    BY DEF RoundInv
  <2>2. /\ docs'[k].value = value /\ docs'[k].stamp = t
        /\ \A j \in Keys : j # k => docs'[j] = docs[j] /\ (j \in excused' <=> j \in excused)
        /\ newest <= newest' /\ t <= newest' /\ newest' \in Nat
        /\ newest' = newest => held \subseteq held'
        /\ t = newest' => <<k, value>> \in held'
        /\ \A j \in Keys : \A x : j # k /\ <<j, x>> \in held' =>
             <<j, x>> \in held /\ newest' = newest
        /\ k \notin excused' => t = newest'
        /\ touched' = IF InRound THEN touched \cup {k} ELSE {}
        /\ UNCHANGED <<poll, round, lived>>
    BY <1>1, <2>1, WriteFacts
  <2>3. t \in Nat
    BY Numbers
  <2>4. Dated(k)'
    BY <2>2, <2>3 DEF Dated
  <2> QED BY <2>2, <2>4, ChangeKeeps
<1>2. CASE DeleteOne(k)
  <2>1. /\ docs'[k] = NoDoc /\ docs'[k].stamp = 0
        /\ \A j \in Keys : j # k => docs'[j] = docs[j] /\ (j \in excused' <=> j \in excused)
        /\ touched' = IF InRound THEN touched \cup {k} ELSE {}
        /\ UNCHANGED <<poll, round, lived, newest, held>>
    BY <1>2, RemoveFacts
  <2>2. newest \in Nat
    BY Numbers
  <2>3. Dated(k)'
    BY <2>1, <2>2 DEF Dated
  <2> QED BY <2>1, <2>2, <2>3, ChangeKeeps
<1> QED BY <1>1, <1>2

(* A step outside the rounds that leaves the poller's state alone keeps    *)
(* them.                                                                   *)
LEMMA OutsideKeeps ==
  ASSUME Types, RoundInv, UNCHANGED <<docs, poll, newest, held, excused, lived>>,
         round.pc # "diff",
         NEW pc \in {"off", "start", "ready", "idle", "lost", "backoff", "exited"},
         round' = NoRound(pc), touched' = {}
  PROVE  RoundInv'
<1>1. round'.pc = pc /\ round'.batch = {} /\ round'.deletes = {} /\ ~InRound'
  BY Outside
<1>2. ClockInv'
  BY <1>1 DEF RoundInv, ClockInv, Current, Dated
<1>3. BatchInv' /\ KnownInv' /\ DeleteInv'
  BY <1>1 DEF RoundInv, BatchInv, KnownInv, DeleteInv
<1> QED BY <1>2, <1>3 DEF RoundInv

(* Every step keeps them. *)
LEMMA RoundStep == Types /\ Types' /\ RoundInv /\ [Next]_vars => RoundInv'
<1> SUFFICES ASSUME Types, Types', RoundInv, [Next]_vars PROVE RoundInv'
  OBVIOUS
<1>1. /\ newest \in Nat /\ poll.watermark \in Nat /\ round.next.watermark \in Nat
      /\ \A j \in Keys : docs[j].stamp \in Nat
      /\ \A d \in round.batch : d.stamp \in Nat
      /\ \A t \in Stamps : t \in Nat
  BY Numbers
<1>2. /\ poll \in PollState /\ round \in Round /\ docs \in [Keys -> Doc]
  BY DEF Types, TypeOK
<1>3. CASE UNCHANGED <<docs, poll, round, newest, held, lived, touched, excused>>
  BY <1>3 DEF RoundInv, ClockInv, BatchInv, KnownInv, DeleteInv, Current, Dated, Live, Due,
              Entombed, InRound
<1>4. ASSUME NEW now \in Stamps, StartPolling(now) PROVE RoundInv'
  <2>1. /\ round'.pc = "start" /\ round'.batch = {} /\ round'.deletes = {} /\ ~InRound'
    BY <1>4, Outside DEF StartPolling
  <2>2. /\ poll'.watermark = now /\ poll'.seen = {} /\ poll'.known = {}
    BY <1>4 DEF StartPolling, NewPollState
  <2>3. /\ newest <= newest' /\ now <= newest' /\ (now > newest => held' = {} /\ newest' = now)
        /\ (~(now > newest) => held' = held /\ newest' = newest)
    BY <1>1, <1>4 DEF StartPolling, Later
  <2>4. Current(poll)'
    BY <2>2, <2>3 DEF Current
  <2>5. ASSUME NEW j \in Keys PROVE Dated(j)'
    <3>1. UNCHANGED <<docs, excused>> /\ Dated(j)
      BY <1>4 DEF StartPolling, RoundInv, ClockInv
    <3>2. CASE now > newest
      <4>1. docs[j].stamp < newest'
        BY <1>1, <2>3, <3>1, <3>2 DEF Dated
      <4> QED BY <1>1, <2>3, <3>1, <3>2, <4>1 DEF Dated
    <3>3. CASE ~(now > newest)
      BY <2>3, <3>1, <3>3 DEF Dated
    <3> QED BY <3>2, <3>3
  <2>6. KnownInv' /\ BatchInv'
    BY <1>4, <2>1, <2>2 DEF StartPolling, KnownInv, BatchInv
  <2>7. DeleteInv'
    BY <1>4, <2>1 DEF StartPolling, RoundInv, DeleteInv, InRound
  <2> QED BY <2>1, <2>4, <2>5, <2>6, <2>7 DEF RoundInv, ClockInv
<1>5. CASE Find
  <2> DEFINE Read(j) == [key |-> j, value |-> docs[j].value, stamp |-> docs[j].stamp]
  <2>1. /\ round'.pc = "scan" /\ round'.batch = {Read(j) : j \in {i \in Keys : Due(i)}}
        /\ round'.next.watermark = poll.watermark /\ round'.next.known = poll.known
        /\ round'.next.seen = {} /\ round'.tombstoned = {} /\ round'.deletes = {}
    BY <1>5, FindRound
  <2>2. /\ UNCHANGED <<docs, poll, newest, held, touched, excused, lived>>
        /\ round.pc \in {"start", "idle"}
    BY <1>5 DEF Find, storeVars
  <2>3. touched = {}
    BY <2>2 DEF RoundInv, DeleteInv, InRound
  <2>4. ClockInv'
    BY <1>1, <2>1, <2>2 DEF RoundInv, ClockInv, Current, Dated
  <2>5. BatchInv'
    <3>1. ASSUME NEW j \in Keys, Due(j)
          PROVE  /\ Read(j).stamp <= newest /\ poll.watermark <= Read(j).stamp
                 /\ Read(j).stamp = newest => <<Read(j).key, Read(j).value>> \in held
                 /\ docs[Read(j).key] = [value |-> Read(j).value, stamp |-> Read(j).stamp]
      <4>1. docs[j] # NoDoc /\ docs[j].stamp >= poll.watermark /\ docs[j] \in Doc
        BY <1>2, <3>1 DEF Due
      <4>2. docs[j] = [value |-> docs[j].value, stamp |-> docs[j].stamp]
        BY <4>1 DEF Doc
      <4>3. Dated(j)
        BY DEF RoundInv, ClockInv
      <4> QED BY <1>1, <4>1, <4>2, <4>3 DEF Dated
    <3>2. ASSUME NEW d \in round'.batch
          PROVE  /\ d.stamp <= newest' /\ round'.next.watermark <= d.stamp
                 /\ d.stamp = newest' => <<d.key, d.value>> \in held'
                 /\ docs'[d.key] = [value |-> d.value, stamp |-> d.stamp]
                 /\ \A e \in round'.batch : e.key = d.key => e = d
      <4>1. PICK j \in Keys : Due(j) /\ d = Read(j)
        BY <2>1, <3>2
      <4>2. ASSUME NEW e \in round'.batch, e.key = d.key PROVE e = d
        <5>1. PICK i \in Keys : Due(i) /\ e = Read(i)
          BY <2>1, <4>2
        <5> QED BY <4>1, <4>2, <5>1
      <4> QED BY <2>1, <2>2, <3>1, <4>1, <4>2
    <3> QED BY <2>1, <3>2 DEF BatchInv
  <2>6. KnownInv'
    BY <2>1, <2>2 DEF RoundInv, KnownInv
  <2>7. DeleteInv'
    <3>1. ASSUME NEW j \in Keys, docs'[j].value = Tombstone, Due(j)' PROVE Entombed(j)'
      <4>1. Due(j) /\ docs[j].value = Tombstone
        BY <2>2, <3>1 DEF Due
      <4>2. Read(j) \in round'.batch
        BY <2>1, <4>1
      <4> QED BY <2>1, <4>1, <4>2 DEF Entombed
    <3> QED BY <2>1, <3>1 DEF DeleteInv, InRound
  <2> QED BY <2>4, <2>5, <2>6, <2>7 DEF RoundInv
<1>6. ASSUME NEW d \in round.batch, ReadDoc(d) PROVE RoundInv'
  <2>1. /\ round.pc = "scan" /\ round'.pc = "scan" /\ round'.batch = round.batch \ {d}
        /\ round'.tombstoned = (IF d.value = Tombstone THEN round.tombstoned \cup {d.key}
                                ELSE round.tombstoned)
        /\ round'.deletes = round.deletes
    BY <1>6, ReadDocRound
  <2>2. /\ round'.next.watermark = d.stamp /\ round'.next.known = round.next.known
        /\ round'.next.seen = (IF d.stamp = round.next.watermark THEN round.next.seen ELSE {})
                                \cup {<<d.key, d.value>>}
        /\ round.next.watermark <= d.stamp
    BY <1>6, AdvanceFacts
  <2>3. /\ UNCHANGED <<docs, poll, newest, held, touched, excused, lived>>
        /\ \A e \in round.batch : d.stamp <= e.stamp
    BY <1>6 DEF ReadDoc, storeVars
  <2>4. /\ d.stamp <= newest
        /\ d.stamp = newest => <<d.key, d.value>> \in held
    BY DEF RoundInv, BatchInv
  <2>5. ClockInv'
    <3>1. Current(round.next) /\ poll.watermark <= round.next.watermark
      BY <2>1 DEF RoundInv, ClockInv, InRound
    <3>2. Current(round.next)'
      <4>1. d.stamp = newest /\ d.stamp = round.next.watermark => round.next.seen \subseteq held
        BY <3>1 DEF Current
      <4> QED BY <2>2, <2>3, <2>4, <4>1 DEF Current
    <3>3. poll'.watermark <= round'.next.watermark
      BY <1>1, <2>2, <2>3, <3>1
    <3> QED BY <2>3, <3>2, <3>3 DEF RoundInv, ClockInv, Current, Dated
  <2>6. BatchInv'
    BY <2>1, <2>2, <2>3 DEF RoundInv, BatchInv
  <2>7. KnownInv'
    BY <2>1, <2>2, <2>3 DEF RoundInv, KnownInv, InRound
  <2>8. DeleteInv'
    <3>1. ASSUME NEW j \in Keys, j \notin touched, docs'[j].value = Tombstone, Due(j)'
          PROVE  Entombed(j)'
      <4>1. Due(j) /\ docs[j].value = Tombstone
        BY <2>3, <3>1 DEF Due
      <4>2. Entombed(j)
        BY <2>1, <3>1, <4>1 DEF RoundInv, DeleteInv
      <4> QED BY <2>1, <4>2 DEF Entombed
    <3> QED BY <2>1, <2>3, <3>1 DEF RoundInv, DeleteInv, InRound, Live
  <2> QED BY <2>5, <2>6, <2>7, <2>8 DEF RoundInv
<1>7. CASE SnapshotKeys \/ SnapshotFails
  <2>1. /\ round.pc = "scan" /\ round.batch = {} /\ round'.pc = "diff" /\ round'.batch = {}
        /\ round'.next.watermark = round.next.watermark
        /\ round'.next.seen = round.next.seen
    BY <1>7, SnapshotRound
  <2>2. UNCHANGED <<docs, poll, newest, held, touched, excused>>
    BY <1>7 DEF SnapshotKeys, SnapshotFails, storeVars
  <2>3. ClockInv'
    BY <2>1, <2>2 DEF RoundInv, ClockInv, Current, Dated, InRound
  <2>4. BatchInv'
    BY <2>1 DEF BatchInv
  <2>5. CASE SnapshotFails /\ round'.next.known = round.next.known
                           /\ round'.deletes = round.deletes
    <3>1. lived' = lived
      BY <2>5 DEF SnapshotFails
    <3>2. KnownInv' /\ DeleteInv'
      BY <2>1, <2>2, <2>5, <3>1 DEF RoundInv, KnownInv, DeleteInv, InRound
    <3> QED BY <2>3, <2>4, <3>2 DEF RoundInv
  <2>6. CASE /\ SnapshotKeys /\ round'.next.known = {j \in Keys : Live(j)}
             /\ round'.deletes = IF poll.first THEN {}
                  ELSE (poll.known \ {j \in Keys : Live(j)}) \ round.tombstoned
    <3>1. lived' = {j \in Keys : Live(j)}
      BY <2>6 DEF SnapshotKeys
    <3>2. KnownInv'
      BY <2>1, <2>6, <3>1 DEF KnownInv
    <3>3. \A j \in round'.deletes : ~Live(j)'
      BY <1>2, <2>2, <2>6 DEF Live, PollState
    <3>4. DeleteInv'
      BY <2>1, <3>3 DEF DeleteInv, InRound
    <3> QED BY <2>3, <2>4, <3>2, <3>4 DEF RoundInv
  <2> QED BY <1>7, <2>5, <2>6, SnapshotRound
<1>8. ASSUME NEW k \in round.deletes, EmitDelete(k) PROVE RoundInv'
  <2>1. /\ round.pc = "diff" /\ round'.pc = "diff" /\ round'.batch = round.batch
        /\ round'.next = round.next /\ round'.deletes = round.deletes \ {k}
    BY <1>8, DeleteRound
  <2>2. UNCHANGED <<docs, poll, newest, held, touched, excused, lived>>
    BY <1>8 DEF EmitDelete, storeVars
  <2>3. ClockInv' /\ BatchInv' /\ KnownInv' /\ DeleteInv'
    BY <2>1, <2>2 DEF RoundInv, ClockInv, BatchInv, KnownInv, DeleteInv, Current, Dated, InRound,
                      Live
  <2> QED BY <2>3 DEF RoundInv
<1>9. CASE RoundEnds
  <2>1. /\ round.pc = "diff" /\ poll' = round.next /\ touched' = {}
        /\ UNCHANGED <<docs, newest, held, excused, lived>>
    BY <1>9 DEF RoundEnds
  <2>2. /\ round'.pc \in {"ready", "idle"} /\ round'.batch = {} /\ round'.deletes = {}
        /\ ~InRound'
    BY <1>9, Outside DEF RoundEnds
  <2>3. ClockInv' /\ BatchInv' /\ KnownInv' /\ DeleteInv'
    BY <2>1, <2>2 DEF RoundInv, ClockInv, BatchInv, KnownInv, DeleteInv, Current, Dated, InRound
  <2> QED BY <2>3 DEF RoundInv
<1>10. CASE RoundFails
  <2>1. /\ UNCHANGED <<docs, poll, newest, held, excused, lived>> /\ round.pc # "diff"
        /\ touched' = {} /\ round' = NoRound(IF poll.first THEN "off" ELSE "lost")
    BY <1>10 DEF RoundFails
  <2> QED BY <2>1, OutsideKeeps
<1>11. CASE BeginResync \/ BeginDisconnect \/ BackoffEnds \/ Exit
  <2>1. /\ UNCHANGED <<docs, poll, newest, held, excused, lived, touched>>
        /\ round.pc \in {"ready", "lost", "backoff", "idle"}
        /\ \E pc \in {"idle", "backoff", "exited"} : round' = NoRound(pc)
    BY <1>11 DEF BeginResync, BeginDisconnect, BackoffEnds, Exit, storeVars
  <2>2. touched' = {}
    BY <2>1 DEF RoundInv, DeleteInv, InRound
  <2> QED BY <2>1, <2>2, OutsideKeeps
<1>12. CASE RecoverBeforeEvent \/ Close \/ UNCHANGED vars
  BY <1>3, <1>12 DEF RecoverBeforeEvent, Close, vars, storeVars
<1>13. ASSUME NEW k \in Keys, NEW t \in Stamps,
              Delete(k, t) \/ (\E v \in Values : Set(k, v, t)) \/ DeleteOne(k)
       PROVE  RoundInv'
  BY <1>13, WriterKeeps DEF Delete, Set
<1>14. 0 \in Stamps
  BY BoundsAssumption DEF Stamps
<1> QED BY <1>4, <1>5, <1>6, <1>7, <1>8, <1>9, <1>10, <1>11, <1>12, <1>13, <1>14 DEF Next, Poller

(* They hold throughout. *)
THEOREM RoundsHold == Spec => []RoundInv
<1>1. Init => RoundInv
  <2> SUFFICES ASSUME Init PROVE RoundInv
    OBVIOUS
  <2>1. /\ round.pc = "off" /\ round.batch = {} /\ round.deletes = {} /\ ~InRound
        /\ poll.watermark = 0 /\ poll.seen = {} /\ poll.known = {}
        /\ \A k \in Keys : docs[k] = NoDoc /\ docs[k].stamp = 0
    BY DEF Init, NoRound, NewPollState, NoDoc, InRound
  <2> QED BY <2>1 DEF Init, RoundInv, ClockInv, BatchInv, KnownInv, DeleteInv, Current, Dated
<1> QED BY <1>1, TypesHold, RoundStep, PTL DEF Spec

(* A late delete beats a phantom one: what a round announces as deleted is *)
(* not live, unless the key was written after the round's query (the       *)
(* tombstones of pollOnce and its difference of complete snapshots).       *)
THEOREM PhantomDeletesNeverHappen == Spec => NoPhantomDelete
<1> DEFINE Phantom == \A k \in Keys :
             view'[k] = Absent /\ view[k] # Absent /\ Live(k) => k \in touched
<1>1. Types /\ RoundInv /\ [Next]_vars => Phantom \/ UNCHANGED vars
  <2> SUFFICES ASSUME Types, RoundInv, Next, NEW k \in Keys,
                      view'[k] = Absent, view[k] # Absent, Live(k)
               PROVE  k \in touched
    OBVIOUS
  <2>1. view'[k] # view[k] /\ Content(k) # Absent
    BY ContentType
  <2>2. ~Resync
    BY <2>1, ResyncFacts
  <2>3. ASSUME NEW d \in round.batch, ReadDoc(d) PROVE k \in touched
    <3>1. d \in Found /\ d.key \in Keys
      BY <2>3, ReadDocRound DEF Found
    <3>2. Emit(d.key, IF d.value = Tombstone THEN Absent ELSE d.value)
      BY <2>1, <2>3 DEF ReadDoc
    <3>3. d.key = k /\ view'[k] = IF d.value = Tombstone THEN Absent ELSE d.value
      BY <2>1, <3>1, <3>2, EmitFacts
    <3>4. d.value = Tombstone
      BY <3>1, <3>3, MarksAssumption DEF Found
    <3>5. d.key \notin touched => docs[d.key] = [value |-> d.value, stamp |-> d.stamp]
      BY <2>3 DEF RoundInv, BatchInv
    <3>6. d.key \notin touched => docs[k].value = Tombstone
      BY <3>3, <3>4, <3>5
    <3> QED BY <3>3, <3>6, MarksAssumption DEF Live
  <2>4. ASSUME NEW j \in round.deletes, EmitDelete(j) PROVE k \in touched
    <3>1. j \in Keys /\ Emit(j, Absent)
      BY <2>4, DeleteRound DEF EmitDelete
    <3>2. j = k
      BY <2>1, <3>1, EmitFacts
    <3> QED BY <2>4, <3>2 DEF RoundInv, DeleteInv
  <2>5. \/ \E d \in round.batch : ReadDoc(d)
        \/ \E j \in round.deletes : EmitDelete(j)
    BY <2>1, <2>2 DEF Next, Poller, StartPolling, Find, RecoverBeforeEvent, SnapshotKeys,
       RoundEnds, BeginResync, BeginDisconnect, BackoffEnds, Exit, RoundFails, SnapshotFails,
       Delete, Set, Write, DeleteOne, Close, vars
  <2> QED BY <2>3, <2>4, <2>5
<1>2. Types /\ RoundInv /\ [Next]_vars => [Phantom]_vars
  BY <1>1
<1> QED BY <1>2, TypesHold, RoundsHold, PTL DEF Spec, NoPhantomDelete

-----------------------------------------------------------------------------
(* What is owed to the subscriber *)

(* The snapshot will miss the key, and no tombstone found explains that. *)
Missing(k) == ~Live(k) /\ k \in poll.known /\ ~Entombed(k)

(* The document is newer than all the round has found, or differs from     *)
(* what it found in the same millisecond: no round before the next, and no *)
(* round repeated after a failure, takes it for a repetition.              *)
Rewritten(k) ==
  /\ docs[k] # NoDoc
  /\ docs[k].stamp >= round.next.watermark
  /\ docs[k].stamp = round.next.watermark => <<k, docs[k].value>> \notin round.next.seen
  /\ docs[k].stamp = poll.watermark => <<k, docs[k].value>> \notin poll.seen
  /\ \A d \in round.batch :
       d.key = k /\ d.stamp = docs[k].stamp => d.value # docs[k].value
  /\ \A d \in round.batch : d.stamp <= docs[k].stamp

(* Between rounds, a difference the subscriber was not told of is one the  *)
(* next round announces.  While the cursor is read it is among what is yet *)
(* to be read or missed; a key written since the query is left to the next *)
(* round, whatever this one still announces of it.  After the snapshot it  *)
(* is among the deletes or left to the next round.                         *)
OwedBetween(k) ==
  ~InRound /\ feed.connected /\ view[k] # Content(k) => WillAnnounce(k, poll)
OwedReading(k) ==
  /\ round.pc = "scan" /\ k \notin touched /\ feed.connected /\ view[k] # Content(k) =>
       Missing(k) \/ \E d \in round.batch : d.key = k /\ ~BoundaryDedupHit(d)
  /\ round.pc = "scan" /\ k \in touched => Rewritten(k) \/ (docs[k] = NoDoc /\ Missing(k))
OwedAfter(k) ==
  /\ round.pc = "diff" /\ feed.connected /\ view[k] # Content(k) =>
       k \in round.deletes \/ WillAnnounce(k, round.next)
  /\ round.pc = "diff" /\ k \in round.deletes /\ Live(k) => WillAnnounce(k, round.next)
Owed(k) == OwedBetween(k) /\ OwedReading(k) /\ OwedAfter(k)
OwedInv == \A k \in Keys \ excused : Owed(k)

(* What is owed of a key depends on its document, the poller and the feed. *)
LEMMA OwedFrame ==
  ASSUME NEW k \in Keys, Owed(k), docs'[k] = docs[k], view'[k] = view[k],
         feed'.connected => feed.connected,
         UNCHANGED <<poll, round>>, k \in touched' <=> k \in touched
  PROVE  Owed(k)'
<1>1. Content(k)' = Content(k) /\ Live(k)' = Live(k) /\ InRound' = InRound
  BY DEF Content, Live, InRound
<1>2. WillAnnounce(k, poll)' = WillAnnounce(k, poll)
  BY <1>1 DEF WillAnnounce
<1>3. WillAnnounce(k, round.next)' = WillAnnounce(k, round.next)
  BY <1>1 DEF WillAnnounce
<1>4. Missing(k)' = Missing(k)
  BY <1>1 DEF Missing, Entombed
<1>5. Rewritten(k)' = Rewritten(k)
  BY DEF Rewritten
<1>6. \A d : BoundaryDedupHit(d)' = BoundaryDedupHit(d)
  BY DEF BoundaryDedupHit
<1>7. OwedBetween(k)'
  BY <1>1, <1>2 DEF Owed, OwedBetween
<1>8. OwedReading(k)'
  BY <1>1, <1>4, <1>5, <1>6 DEF Owed, OwedReading
<1>9. OwedAfter(k)'
  BY <1>1, <1>3 DEF Owed, OwedAfter
<1> QED BY <1>7, <1>8, <1>9 DEF Owed

(* A key that is missing has no document a round would take for repeated. *)
LEMMA NotRepeated ==
  ASSUME Types, RoundInv, NEW k \in Keys, ~Live(k), NEW p \in PollState,
         docs[k] = NoDoc \/ (round.pc = "scan" /\ k \notin touched /\ ~Entombed(k)),
         poll.watermark <= p.watermark
  PROVE  ~(docs[k].stamp = p.watermark /\ <<k, docs[k].value>> \in p.seen)
<1> SUFFICES ASSUME docs[k].stamp = p.watermark, <<k, docs[k].value>> \in p.seen PROVE FALSE
  OBVIOUS
<1>1. docs[k].value \in Values \cup {Tombstone}
  BY DEF PollState, Seen
<1>2. docs[k].value = Tombstone /\ docs[k].value # Absent
  BY <1>1, MarksAssumption DEF Live
<1>3. docs[k] # NoDoc
  BY <1>2 DEF NoDoc
<1>4. docs[k].stamp >= poll.watermark
  BY Numbers
<1> QED BY <1>2, <1>3, <1>4 DEF Due, RoundInv, DeleteInv

(* What a writer the poller can see changes is owed. *)
LEMMA WriteOwed ==
  ASSUME Types, RoundInv, NEW k \in Keys, NEW t \in Stamps,
         NEW value \in Values \cup {Tombstone}, Write(k, value, t), k \notin excused'
  PROVE  Owed(k)'
<1>1. ClockInv
  BY DEF RoundInv
<1>2. /\ docs'[k] # NoDoc /\ docs'[k].value = value /\ docs'[k].stamp = t
      /\ newest <= newest' /\ newest' \in Nat
      /\ t = newest' /\ (t > newest \/ <<k, value>> \notin held)
      /\ touched' = IF InRound THEN touched \cup {k} ELSE {}
      /\ UNCHANGED <<poll, round, feed, view, lived>>
  BY <1>1, WriteFacts
<1>3. /\ newest \in Nat /\ poll.watermark \in Nat /\ round.next.watermark \in Nat /\ t \in Nat
      /\ \A d \in round.batch : d.stamp \in Nat
  BY Numbers
<1>4. /\ t >= poll.watermark
      /\ t = poll.watermark => <<k, value>> \notin poll.seen
  BY <1>2, <1>3 DEF RoundInv, ClockInv, Current
<1>5. InRound => /\ t >= round.next.watermark
                 /\ t = round.next.watermark => <<k, value>> \notin round.next.seen
  BY <1>2, <1>3 DEF RoundInv, ClockInv, Current
<1>6. ASSUME NEW d \in round.batch
      PROVE  d.stamp <= t /\ (d.key = k /\ d.stamp = t => d.value # value)
  <2>1. d.stamp <= newest /\ (d.stamp = newest => <<d.key, d.value>> \in held)
    BY <1>6 DEF RoundInv, BatchInv
  <2> QED BY <1>2, <1>3, <2>1
<1>7. InRound' = InRound
  BY <1>2 DEF InRound
<1>8. OwedBetween(k)'
  BY <1>2, <1>4 DEF OwedBetween, WillAnnounce
<1>9. round.pc = "scan" => Rewritten(k)' /\ k \in touched'
  <2> SUFFICES ASSUME round.pc = "scan" PROVE Rewritten(k)' /\ k \in touched'
    OBVIOUS
  <2>1. InRound
    BY DEF InRound
  <2> QED BY <1>2, <1>4, <1>5, <1>6, <2>1 DEF Rewritten
<1>10. OwedReading(k)'
  BY <1>2, <1>9 DEF OwedReading
<1>11. round.pc = "diff" => WillAnnounce(k, round.next)'
  <2> SUFFICES ASSUME round.pc = "diff" PROVE WillAnnounce(k, round.next)'
    OBVIOUS
  <2>1. InRound
    BY DEF InRound
  <2> QED BY <1>2, <1>5, <2>1 DEF WillAnnounce
<1>12. OwedAfter(k)'
  BY <1>2, <1>11 DEF OwedAfter
<1> QED BY <1>8, <1>10, <1>12 DEF Owed

(* So is a removal the poller can see. *)
LEMMA RemoveOwed ==
  ASSUME Types, RoundInv, NEW k \in Keys, DeleteOne(k), k \notin excused'
  PROVE  Owed(k)'
<1>1. /\ docs'[k] = NoDoc /\ docs'[k].value = Absent /\ ~Live(k)'
      /\ k \in lived /\ ~Entombed(k)
      /\ touched' = IF InRound THEN touched \cup {k} ELSE {}
      /\ UNCHANGED <<poll, round, feed, view, lived>>
  BY RemoveFacts
<1>2. <<k, Absent>> \notin Seen
  BY MarksAssumption DEF Seen
<1>3. poll.seen \subseteq Seen /\ round.next.seen \subseteq Seen
  BY DEF Types, TypeOK, Round, PollState
<1>4. OwedBetween(k)'
  <2>1. ~InRound => k \in poll.known
    BY <1>1 DEF RoundInv, KnownInv, InRound
  <2>2. ~InRound => WillAnnounce(k, poll)'
    BY <1>1, <1>2, <1>3, <2>1 DEF WillAnnounce
  <2> QED BY <1>1, <2>2 DEF OwedBetween, InRound
<1>5. OwedReading(k)'
  <2>1. round.pc = "scan" => k \in poll.known /\ k \in touched'
    BY <1>1 DEF RoundInv, KnownInv, InRound
  <2>2. ~Entombed(k)'
    BY <1>1 DEF Entombed
  <2>3. round.pc = "scan" => Missing(k)'
    BY <1>1, <2>1, <2>2 DEF Missing
  <2> QED BY <1>1, <2>1, <2>3 DEF OwedReading
<1>6. OwedAfter(k)'
  <2>1. round.pc = "diff" => k \in round.next.known
    BY <1>1 DEF RoundInv, KnownInv, InRound
  <2>2. round.pc = "diff" => WillAnnounce(k, round.next)'
    BY <1>1, <1>2, <1>3, <2>1 DEF WillAnnounce
  <2> QED BY <1>1, <2>2 DEF OwedAfter
<1> QED BY <1>4, <1>5, <1>6 DEF Owed

(* A query finds what is owed, or its snapshot will miss it. *)
LEMMA FindOwed ==
  ASSUME Types, RoundInv, NEW k \in Keys, Owed(k), Find
  PROVE  Owed(k)'
<1> DEFINE Read(j) == [key |-> j, value |-> docs[j].value, stamp |-> docs[j].stamp]
<1>1. /\ round'.pc = "scan" /\ round'.batch = {Read(j) : j \in {i \in Keys : Due(i)}}
      /\ round'.tombstoned = {}
  BY FindRound
<1>2. /\ UNCHANGED <<docs, poll, feed, view, touched>> /\ round.pc \in {"start", "idle"}
  BY DEF Find, storeVars
<1>3. touched' = {} /\ ~InRound
  BY <1>2 DEF RoundInv, DeleteInv, InRound
<1>4. Content(k)' = Content(k) /\ Live(k)' = Live(k)
  BY <1>2 DEF Content, Live
<1>5. ASSUME feed.connected, view[k] # Content(k)
      PROVE  Missing(k)' \/ \E d \in round'.batch : d.key = k /\ ~BoundaryDedupHit(d)'
  <2>1. WillAnnounce(k, poll)
    BY <1>3, <1>5 DEF Owed, OwedBetween
  <2>2. CASE Due(k) /\ ~(docs[k].stamp = poll.watermark /\ <<k, docs[k].value>> \in poll.seen)
    <3>1. PICK d \in round'.batch : d = Read(k)
      BY <1>1, <2>2
    <3>2. d.key = k /\ ~BoundaryDedupHit(d)'
      BY <1>2, <2>2, <3>1 DEF BoundaryDedupHit
    <3> QED BY <3>1, <3>2
  <2>3. CASE ~Due(k) /\ ~Live(k) /\ k \in poll.known
    <3>1. \A d \in round'.batch : d.key # k
      BY <1>1, <2>3
    <3>2. ~Entombed(k)'
      BY <1>1, <3>1 DEF Entombed
    <3> QED BY <1>2, <1>4, <2>3, <3>2 DEF Missing
  <2> QED BY <2>1, <2>2, <2>3 DEF WillAnnounce, Due
<1>6. OwedReading(k)'
  BY <1>2, <1>3, <1>4, <1>5 DEF OwedReading
<1>7. OwedBetween(k)' /\ OwedAfter(k)'
  BY <1>1 DEF OwedBetween, OwedAfter, InRound
<1> QED BY <1>6, <1>7 DEF Owed

(* A document read is announced, or left to the next round. *)
LEMMA ReadOwed ==
  ASSUME Types, MarkInv, RoundInv, NEW k \in Keys, Owed(k), NEW d \in round.batch, ReadDoc(d)
  PROVE  Owed(k)'
<1>1. /\ d \in Found /\ d.key \in Keys
      /\ round.pc = "scan" /\ round'.pc = "scan" /\ round'.batch = round.batch \ {d}
      /\ round'.tombstoned = (IF d.value = Tombstone THEN round.tombstoned \cup {d.key}
                              ELSE round.tombstoned)
  BY ReadDocRound DEF Found
<1>2. /\ round'.next.watermark = d.stamp
      /\ round'.next.seen = (IF d.stamp = round.next.watermark THEN round.next.seen ELSE {})
                              \cup {<<d.key, d.value>>}
  BY AdvanceFacts
<1>3. UNCHANGED <<docs, poll, feed, touched>>
  BY DEF ReadDoc, storeVars
<1>4. Content(k)' = Content(k) /\ Live(k)' = Live(k)
  BY <1>3 DEF Content, Live
<1>5. Entombed(k)' => Entombed(k)
  BY <1>1 DEF Entombed
<1>6. Missing(k) => Missing(k)'
  BY <1>3, <1>4, <1>5 DEF Missing
<1>7. Rewritten(k) => Rewritten(k)'
  <2> SUFFICES ASSUME Rewritten(k) PROVE Rewritten(k)'
    OBVIOUS
  <2>1. d.stamp <= docs[k].stamp /\ docs[k].stamp \in Nat /\ d.stamp \in Nat
    BY Numbers DEF Rewritten
  <2>2. docs[k].stamp = d.stamp => <<k, docs[k].value>> \notin round'.next.seen
    BY <1>2 DEF Rewritten
  <2> QED BY <1>1, <1>2, <1>3, <2>1, <2>2 DEF Rewritten
<1>8. \A e : BoundaryDedupHit(e)' = BoundaryDedupHit(e)
  BY <1>3 DEF BoundaryDedupHit
<1>9. ASSUME k \notin touched, feed.connected, view'[k] # Content(k)
      PROVE  Missing(k)' \/ \E e \in round'.batch : e.key = k /\ ~BoundaryDedupHit(e)'
  <2>1. ~poll.first
    BY <1>9 DEF MarkInv, FirstInv
  <2>2. ASSUME d.key = k PROVE BoundaryDedupHit(d)
    <3> SUFFICES ASSUME ~BoundaryDedupHit(d) PROVE FALSE
      OBVIOUS
    <3>1. Emit(d.key, IF d.value = Tombstone THEN Absent ELSE d.value)
      BY DEF ReadDoc
    <3>2. view'[k] = IF d.value = Tombstone THEN Absent ELSE d.value
      BY <1>1, <2>1, <2>2, <3>1, EmitFacts
    <3>3. docs[k] = [value |-> d.value, stamp |-> d.stamp]
      BY <1>9, <2>2 DEF RoundInv, BatchInv
    <3>4. docs[k].value = d.value /\ d.value \in Values \cup {Tombstone}
      BY <1>1, <3>3 DEF Found
    <3>5. Content(k) = view'[k]
      BY <3>2, <3>4, MarksAssumption DEF Content, Live
    <3> QED BY <1>9, <3>5
  <2>3. view'[k] = view[k]
    <3>1. CASE d.key = k
      BY <2>2, <3>1 DEF ReadDoc
    <3>2. CASE d.key # k /\ BoundaryDedupHit(d)
      BY <3>2 DEF ReadDoc
    <3>3. CASE d.key # k /\ ~BoundaryDedupHit(d)
      <4>1. Emit(d.key, IF d.value = Tombstone THEN Absent ELSE d.value)
        BY <3>3 DEF ReadDoc
      <4> QED BY <1>1, <3>3, <4>1, EmitFacts
    <3> QED BY <3>1, <3>2, <3>3
  <2>4. Missing(k) \/ \E e \in round.batch : e.key = k /\ ~BoundaryDedupHit(e)
    BY <1>1, <1>9, <2>3 DEF Owed, OwedReading
  <2>5. ASSUME NEW e \in round.batch, e.key = k, ~BoundaryDedupHit(e)
        PROVE  e \in round'.batch
    <3>1. e # d
      BY <2>2, <2>5
    <3> QED BY <1>1, <2>5, <3>1
  <2> QED BY <1>6, <1>8, <2>4, <2>5
<1>10. k \in touched => Rewritten(k)' \/ (docs'[k] = NoDoc /\ Missing(k)')
  BY <1>1, <1>3, <1>6, <1>7 DEF Owed, OwedReading
<1>11. OwedReading(k)'
  BY <1>3, <1>4, <1>9, <1>10 DEF OwedReading
<1>12. OwedBetween(k)' /\ OwedAfter(k)'
  BY <1>1 DEF OwedBetween, OwedAfter, InRound
<1> QED BY <1>11, <1>12 DEF Owed

(* A key that is missing is announced by the snapshot that is complete,    *)
(* and left to the next round by one that is not.                          *)
LEMMA SnapshotOwed ==
  ASSUME Types, MarkInv, RoundInv, NEW k \in Keys, Owed(k), SnapshotKeys \/ SnapshotFails
  PROVE  Owed(k)'
<1>1. /\ round.pc = "scan" /\ round.batch = {} /\ round'.pc = "diff"
      /\ round'.next.watermark = round.next.watermark
      /\ round'.next.seen = round.next.seen
      /\ \/ /\ SnapshotKeys
            /\ round'.next.known = {j \in Keys : Live(j)}
            /\ round'.deletes = IF poll.first THEN {}
                 ELSE (poll.known \ {j \in Keys : Live(j)}) \ round.tombstoned
         \/ /\ SnapshotFails
            /\ round'.next.known = round.next.known
            /\ round'.deletes = round.deletes
  BY SnapshotRound
<1>2. UNCHANGED <<docs, poll, feed, view, touched>>
  BY DEF SnapshotKeys, SnapshotFails, storeVars
<1>3. Content(k)' = Content(k) /\ Live(k)' = Live(k)
  BY <1>2 DEF Content, Live
<1>4. /\ round.next \in PollState /\ poll.watermark <= round.next.watermark
      /\ round.next.known = poll.known /\ round.deletes = {}
  BY <1>1 DEF Types, TypeOK, Round, RoundInv, ClockInv, KnownInv, DeleteInv, InRound
<1>5. Rewritten(k) => WillAnnounce(k, round.next)'
  BY <1>1, <1>2 DEF Rewritten, WillAnnounce
<1>6. ASSUME Missing(k), docs[k] = NoDoc \/ k \notin touched, feed.connected
      PROVE  k \in round'.deletes \/ WillAnnounce(k, round.next)'
  <2>1. ~poll.first
    BY <1>6 DEF MarkInv, FirstInv
  <2>2. ~Live(k) /\ k \in poll.known /\ ~Entombed(k)
    BY <1>6 DEF Missing
  <2>3. k \notin round.tombstoned
    BY <1>1, <2>2 DEF Entombed
  <2>4. ~(docs[k].stamp = round.next.watermark /\ <<k, docs[k].value>> \in round.next.seen)
    BY <1>1, <1>4, <1>6, <2>2, NotRepeated
  <2>5. CASE SnapshotKeys /\ round'.deletes = IF poll.first THEN {}
                 ELSE (poll.known \ {j \in Keys : Live(j)}) \ round.tombstoned
    BY <2>1, <2>2, <2>3, <2>5
  <2>6. CASE round'.next.known = round.next.known
    BY <1>1, <1>2, <1>3, <1>4, <2>2, <2>4, <2>6 DEF WillAnnounce
  <2> QED BY <1>1, <2>5, <2>6
<1>7. ASSUME feed.connected, view[k] # Content(k)
      PROVE  k \in round'.deletes \/ WillAnnounce(k, round.next)'
  <2>1. CASE k \in touched
    BY <1>1, <1>5, <1>6, <1>7, <2>1 DEF Owed, OwedReading
  <2>2. CASE k \notin touched
    BY <1>1, <1>6, <1>7, <2>2 DEF Owed, OwedReading
  <2> QED BY <2>1, <2>2
<1>8. k \in round'.deletes => ~Live(k)
  BY <1>1, <1>4
<1>9. OwedAfter(k)'
  BY <1>2, <1>3, <1>7, <1>8 DEF OwedAfter
<1>10. OwedBetween(k)' /\ OwedReading(k)'
  BY <1>1 DEF OwedBetween, OwedReading, InRound
<1> QED BY <1>9, <1>10 DEF Owed

(* A round that fails leaves to the next what it had not announced. *)
LEMMA FailOwed ==
  ASSUME Types, RoundInv, NEW k \in Keys, Owed(k), RoundFails
  PROVE  Owed(k)'
<1>1. round'.pc \in {"off", "lost"} /\ ~InRound'
  BY Outside DEF RoundFails
<1>2. UNCHANGED <<docs, poll, feed, view>> /\ round.pc \in {"start", "idle", "scan"}
  BY DEF RoundFails
<1>3. Content(k)' = Content(k) /\ Live(k)' = Live(k)
  BY <1>2 DEF Content, Live
<1>4. WillAnnounce(k, poll)' = WillAnnounce(k, poll)
  BY <1>2, <1>3 DEF WillAnnounce
<1>5. ASSUME feed.connected, view[k] # Content(k) PROVE WillAnnounce(k, poll)
  <2>1. CASE round.pc # "scan"
    BY <1>2, <1>5, <2>1 DEF Owed, OwedBetween, InRound
  <2>2. CASE round.pc = "scan"
    <3>1. poll.watermark <= round.next.watermark /\ poll \in PollState
      BY <2>2 DEF RoundInv, ClockInv, InRound, Types, TypeOK
    <3>2. /\ poll.watermark \in Nat /\ round.next.watermark \in Nat /\ docs[k].stamp \in Nat
          /\ \A d \in round.batch : d.stamp \in Nat
      BY Numbers
    <3>3. ASSUME Missing(k), docs[k] = NoDoc \/ k \notin touched PROVE WillAnnounce(k, poll)
      <4>1. ~(docs[k].stamp = poll.watermark /\ <<k, docs[k].value>> \in poll.seen)
        BY <2>2, <3>1, <3>2, <3>3, NotRepeated DEF Missing
      <4> QED BY <3>3, <4>1 DEF Missing, WillAnnounce
    <3>4. Rewritten(k) => WillAnnounce(k, poll)
      BY <3>1, <3>2 DEF Rewritten, WillAnnounce
    <3>5. ASSUME NEW d \in round.batch, d.key = k, ~BoundaryDedupHit(d), k \notin touched
          PROVE  WillAnnounce(k, poll)
      <4>1. /\ docs[k] = [value |-> d.value, stamp |-> d.stamp]
            /\ round.next.watermark <= d.stamp
        BY <3>5 DEF RoundInv, BatchInv
      <4>2. docs[k].value = d.value /\ docs[k].stamp = d.stamp
        BY <4>1
      <4>3. d.value # Absent
        BY <3>5, MarksAssumption DEF Types, TypeOK, Round, Found
      <4>4. docs[k] # NoDoc
        BY <4>2, <4>3 DEF NoDoc
      <4>5. docs[k].stamp >= poll.watermark
        BY <3>1, <3>2, <3>5, <4>1, <4>2
      <4> QED BY <3>5, <4>2, <4>4, <4>5 DEF WillAnnounce, BoundaryDedupHit
    <3>6. CASE k \in touched
      BY <2>2, <3>3, <3>4, <3>6 DEF Owed, OwedReading
    <3>7. CASE k \notin touched
      BY <1>5, <2>2, <3>3, <3>5, <3>7 DEF Owed, OwedReading
    <3> QED BY <3>6, <3>7
  <2> QED BY <2>1, <2>2
<1>6. OwedBetween(k)'
  BY <1>2, <1>3, <1>4, <1>5 DEF OwedBetween
<1>7. OwedReading(k)' /\ OwedAfter(k)'
  BY <1>1 DEF OwedReading, OwedAfter
<1> QED BY <1>6, <1>7 DEF Owed

(* A delete announced is the key's content, or a write since is left to    *)
(* the next round.                                                         *)
LEMMA DeleteOwed ==
  ASSUME Types, MarkInv, NEW k \in Keys, Owed(k), NEW j \in round.deletes, EmitDelete(j)
  PROVE  Owed(k)'
<1>1. /\ j \in Keys /\ round.pc = "diff" /\ round'.pc = "diff" /\ round'.next = round.next
      /\ round'.deletes = round.deletes \ {j}
  BY DeleteRound
<1>2. UNCHANGED <<docs, poll, feed, touched>> /\ Emit(j, Absent)
  BY DEF EmitDelete, storeVars
<1>3. Content(k)' = Content(k) /\ Live(k)' = Live(k)
  BY <1>2 DEF Content, Live
<1>4. WillAnnounce(k, round.next)' = WillAnnounce(k, round.next)
  BY <1>1, <1>2, <1>3 DEF WillAnnounce
<1>5. ASSUME feed.connected, view'[k] # Content(k)
      PROVE  k \in round'.deletes \/ WillAnnounce(k, round.next)
  <2>1. CASE j # k
    <3>1. view'[k] = view[k]
      BY <1>1, <1>2, <2>1, EmitFacts
    <3> QED BY <1>1, <1>5, <2>1, <3>1 DEF Owed, OwedAfter
  <2>2. CASE j = k
    <3>1. ~poll.first
      BY <1>5 DEF MarkInv, FirstInv
    <3>2. view'[k] = Absent
      BY <1>1, <1>2, <2>2, <3>1, EmitFacts
    <3>3. Live(k)
      BY <1>5, <3>2, ContentType
    <3> QED BY <1>1, <2>2, <3>3 DEF Owed, OwedAfter
  <2> QED BY <2>1, <2>2
<1>6. OwedAfter(k)'
  BY <1>1, <1>2, <1>3, <1>4, <1>5 DEF Owed, OwedAfter
<1>7. OwedBetween(k)' /\ OwedReading(k)'
  BY <1>1 DEF OwedBetween, OwedReading, InRound
<1> QED BY <1>6, <1>7 DEF Owed

(* What the round's end leaves is owed by the state it adopts. *)
LEMMA EndOwed ==
  ASSUME Types, NEW k \in Keys, Owed(k), RoundEnds
  PROVE  Owed(k)'
<1>1. /\ round.pc = "diff" /\ round.deletes = {} /\ poll' = round.next /\ docs' = docs
  BY DEF RoundEnds
<1>2. round'.pc \in {"ready", "idle"} /\ ~InRound'
  BY Outside DEF RoundEnds
<1>3. Content(k)' = Content(k) /\ Live(k)' = Live(k)
  BY <1>1 DEF Content, Live
<1>4. WillAnnounce(k, round.next) => WillAnnounce(k, poll)'
  BY <1>1, <1>3 DEF WillAnnounce
<1>5. CASE ~poll.first /\ Recovering
  <2>1. Resync
    BY <1>5 DEF RoundEnds
  <2>2. view'[k] = Content(k)
    BY <2>1, ResyncFacts
  <2> QED BY <1>2, <1>3, <2>2 DEF Owed, OwedBetween, OwedReading, OwedAfter
<1>6. CASE ~(~poll.first /\ Recovering)
  <2>1. UNCHANGED <<feed, view>>
    BY <1>6 DEF RoundEnds
  <2> QED BY <1>1, <1>2, <1>3, <1>4, <2>1 DEF Owed, OwedBetween, OwedReading, OwedAfter
<1> QED BY <1>5, <1>6

(* A reload owes nothing but what is written since the query. *)
LEMMA ResyncOwed ==
  ASSUME Types, NEW k \in Keys, Owed(k), Resync, UNCHANGED <<docs, poll, round, touched>>
  PROVE  Owed(k)'
<1>1. view'[k] = Content(k)
  BY ResyncFacts
<1>2. Content(k)' = Content(k) /\ Live(k)' = Live(k)
  BY DEF Content, Live
<1>3. WillAnnounce(k, round.next)' = WillAnnounce(k, round.next)
  BY <1>2 DEF WillAnnounce
<1>4. Missing(k)' = Missing(k) /\ Rewritten(k)' = Rewritten(k)
  BY <1>2 DEF Missing, Entombed, Rewritten
<1> QED BY <1>1, <1>2, <1>3, <1>4 DEF Owed, OwedBetween, OwedReading, OwedAfter

(* A step between rounds owes what was owed. *)
LEMMA BetweenOwed ==
  ASSUME Types, MarkInv, NEW k \in Keys, Owed(k),
         BeginResync \/ BeginDisconnect \/ BackoffEnds \/ Exit
  PROVE  Owed(k)'
<1>1. /\ UNCHANGED <<docs, poll>> /\ round.pc \in {"ready", "lost", "backoff", "idle"}
      /\ \E pc \in {"idle", "backoff", "exited"} : round' = NoRound(pc)
  BY DEF BeginResync, BeginDisconnect, BackoffEnds, Exit, storeVars
<1>2. ~InRound /\ ~InRound' /\ round'.pc \in {"idle", "backoff", "exited"}
  BY <1>1, Outside DEF InRound
<1>3. Content(k)' = Content(k) /\ Live(k)' = Live(k)
  BY <1>1 DEF Content, Live
<1>4. WillAnnounce(k, poll)' = WillAnnounce(k, poll)
  BY <1>1, <1>3 DEF WillAnnounce
<1>5. view'[k] = Content(k) \/ (view'[k] = view[k] /\ (feed'.connected => feed.connected))
  <2>1. CASE BeginResync
    BY <2>1, ResyncFacts DEF BeginResync
  <2>2. CASE BeginDisconnect
    <3>1. feed \in [connected : BOOLEAN, disconnected : BOOLEAN, closing : BOOLEAN]
      BY DEF Types, TypeOK
    <3> QED BY <2>2, <3>1 DEF BeginDisconnect
  <2>3. CASE BackoffEnds \/ Exit
    BY <2>3 DEF BackoffEnds, Exit
  <2> QED BY <2>1, <2>2, <2>3
<1> QED BY <1>2, <1>3, <1>4, <1>5 DEF Owed, OwedBetween, OwedReading, OwedAfter

(* Every step keeps what is owed. *)
LEMMA OwedStep == Types /\ MarkInv /\ RoundInv /\ OwedInv /\ [Next]_vars => OwedInv'
<1> SUFFICES ASSUME Types, MarkInv, RoundInv, OwedInv, [Next]_vars,
                    NEW k \in Keys, k \notin excused'
             PROVE  Owed(k)'
  BY DEF OwedInv
<1>1. k \notin excused => Owed(k)
  BY DEF OwedInv
<1>2. CASE UNCHANGED vars
  BY <1>1, <1>2, OwedFrame DEF vars
<1>3. ASSUME NEW j \in Keys, NEW t \in Stamps, NEW value \in Values \cup {Tombstone},
             Write(j, value, t)
      PROVE  Owed(k)'
  <2>1. CASE j = k
    BY <1>3, <2>1, WriteOwed
  <2>2. CASE j # k
    <3>1. ClockInv
      BY DEF RoundInv
    <3>2. /\ docs'[k] = docs[k] /\ (k \in excused' <=> k \in excused)
          /\ touched' = IF InRound THEN touched \cup {j} ELSE {}
          /\ UNCHANGED <<poll, round, feed, view, lived>>
      BY <1>3, <2>2, <3>1, WriteFacts
    <3>3. k \in touched' <=> k \in touched
      BY <2>2, <3>2 DEF RoundInv, DeleteInv
    <3> QED BY <1>1, <3>2, <3>3, OwedFrame
  <2> QED BY <2>1, <2>2
<1>4. ASSUME NEW j \in Keys, DeleteOne(j) PROVE Owed(k)'
  <2>1. CASE j = k
    BY <1>4, <2>1, RemoveOwed
  <2>2. CASE j # k
    <3>1. /\ docs'[k] = docs[k] /\ (k \in excused' <=> k \in excused)
          /\ touched' = IF InRound THEN touched \cup {j} ELSE {}
          /\ UNCHANGED <<poll, round, feed, view, lived>>
      BY <1>4, <2>2, RemoveFacts
    <3>2. k \in touched' <=> k \in touched
      BY <2>2, <3>1 DEF RoundInv, DeleteInv
    <3> QED BY <1>1, <3>1, <3>2, OwedFrame
  <2> QED BY <2>1, <2>2
<1>5. ASSUME NEW now \in Stamps, StartPolling(now) PROVE Owed(k)'
  <2>1. ~feed.connected /\ feed' = feed
    BY <1>5 DEF StartPolling, MarkInv, FirstInv
  <2>2. round'.pc = "start"
    BY <1>5, Outside DEF StartPolling
  <2> QED BY <2>1, <2>2 DEF Owed, OwedBetween, OwedReading, OwedAfter
<1>6. CASE Find
  BY <1>1, <1>6, FindOwed DEF Find, storeVars
<1>7. ASSUME NEW d \in round.batch, ReadDoc(d) PROVE Owed(k)'
  BY <1>1, <1>7, ReadOwed DEF ReadDoc, storeVars
<1>8. CASE SnapshotKeys \/ SnapshotFails
  BY <1>1, <1>8, SnapshotOwed DEF SnapshotKeys, SnapshotFails, storeVars
<1>9. CASE RoundFails
  BY <1>1, <1>9, FailOwed DEF RoundFails
<1>10. ASSUME NEW j \in round.deletes, EmitDelete(j) PROVE Owed(k)'
  BY <1>1, <1>10, DeleteOwed DEF EmitDelete, storeVars
<1>11. CASE RoundEnds
  BY <1>1, <1>11, EndOwed DEF RoundEnds
<1>12. CASE RecoverBeforeEvent
  BY <1>1, <1>12, ResyncOwed DEF RecoverBeforeEvent, storeVars
<1>13. CASE BeginResync \/ BeginDisconnect \/ BackoffEnds \/ Exit
  BY <1>1, <1>13, BetweenOwed DEF BeginResync, BeginDisconnect, BackoffEnds, Exit, storeVars
<1>14. CASE Close
  <2>1. /\ feed'.connected = feed.connected
        /\ UNCHANGED <<docs, view, poll, round, touched, excused>>
    BY <1>14 DEF Close, storeVars, Types, TypeOK
  <2> QED BY <1>1, <2>1, OwedFrame
<1>15. ASSUME NEW j \in Keys, NEW t \in Stamps, Delete(j, t) \/ \E v \in Values : Set(j, v, t)
       PROVE  Owed(k)'
  BY <1>3, <1>15 DEF Delete, Set
<1> QED BY <1>2, <1>4, <1>5, <1>6, <1>7, <1>8, <1>9, <1>10, <1>11, <1>12, <1>13, <1>14, <1>15
        DEF Next, Poller

(* What is owed is accounted for throughout. *)
THEOREM OwedHolds == Spec => []OwedInv
<1>1. Init => OwedInv
  BY DEF Init, OwedInv, Owed, OwedBetween, OwedReading, OwedAfter, NoRound
<1> QED BY <1>1, TypesHold, MarksHold, RoundsHold, OwedStep, PTL DEF Spec

(* Polling misses nothing a poller of stamped documents can see: whatever  *)
(* the millisecond of a write, whichever query it falls between and        *)
(* whatever round fails in between, a difference between the collection    *)
(* and what the subscriber was told is one the next complete round         *)
(* announces (pollOnce's watermark, its boundary dedup, the tombstones and *)
(* the difference of the snapshots).                                       *)
THEOREM ChangesNeverMissed == Spec => []NothingMissed
<1>1. OwedInv => NothingMissed
  BY DEF OwedInv, Owed, OwedBetween, InRound, NothingMissed
<1> QED BY <1>1, OwedHolds, PTL
=============================================================================
