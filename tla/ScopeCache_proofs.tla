-------------------------- MODULE ScopeCache_proofs --------------------------
(***************************************************************************)
(* What holds of ScopeCache for any keys, values, writers and bounds.      *)
(***************************************************************************)
EXTENDS ScopeCache, TLAPS

(* A local write in flight knows its key, and a Set knows its value. *)
WritersHold ==
  \A w \in Writers : writers[w].pc # "idle" =>
    /\ writers[w].key \in Keys
    /\ writers[w].pc # "deleted" => writers[w].row.val \in Values

TypeInv == TypeOK /\ WritersHold

CacheType ==
  /\ entries \in [Keys -> Entry \cup {Nothing}]
  /\ fences \in [Keys -> KeyFence]
  /\ unconfirmed \in SUBSET Keys
  /\ basis \in [Keys -> Nat]

WindowsType ==
  /\ DOMAIN windows \in SUBSET Nat
  /\ windows \in [DOMAIN windows -> Window]

ReadersType ==
  /\ readers \in [Readers -> Reader]
  /\ again \in [Keys -> {"no", "upsert", "delete"}]

StoreType ==
  /\ db \in [Keys -> Row]
  /\ commits \in Nat
  /\ wire \in Seq(FeedEvent)
  /\ gone \in [Keys -> Nat]

(* An upsert keeps the store's types, and leaves a value in the row. *)
LEMMA SetRowType ==
  ASSUME TypeOK, NEW k \in Keys, NEW v \in Values, SetRow(k, v)
  PROVE  StoreType' /\ db'[k] \in Row /\ db'[k].val \in Values
<1>1. commits' \in Nat
  BY DEF SetRow, TypeOK
<1>2. db' \in [Keys -> Row] /\ db'[k].val \in Values
  BY DEF SetRow, TypeOK, Row
<1>3. db'[k].at \in Nat
  BY <1>2 DEF Row
<1>4. Event("upsert", k, db'[k].at) \in FeedEvent
  BY <1>3 DEF Event, FeedEvent
<1>5. wire' \in Seq(FeedEvent)
  BY <1>4 DEF SetRow, Carried, TypeOK
<1>6. gone' \in [Keys -> Nat]
  BY DEF SetRow, TypeOK
<1> QED BY <1>1, <1>2, <1>5, <1>6 DEF StoreType

(* A removal keeps the store's types. *)
LEMMA RemoveRowType ==
  ASSUME TypeOK, NEW k \in Keys, RemoveRow(k)
  PROVE  StoreType' /\ db'[k] \in Row
<1>1. commits' \in Nat
  BY DEF RemoveRow, TypeOK
<1>2. db' \in [Keys -> Row]
  <2>1. [rev |-> 0, val |-> Nothing, at |-> commits + 1] \in Row
    BY DEF TypeOK, Row
  <2> QED BY <2>1 DEF RemoveRow, TypeOK
<1>3. Event("delete", k, commits + 1) \in FeedEvent
  BY DEF Event, FeedEvent, TypeOK
<1>4. wire' \in Seq(FeedEvent)
  <2>1. wire \in Seq(FeedEvent)
    BY DEF TypeOK
  <2>2. wire' = wire \/ wire' = Append(wire, Event("delete", k, commits + 1))
    BY DEF RemoveRow, Carried
  <2> QED BY <1>3, <2>1, <2>2
<1>5. gone' \in [Keys -> Nat]
  <2>1. gone \in [Keys -> Nat] /\ commits + 1 \in Nat
    BY DEF TypeOK
  <2>2. gone' = gone \/ gone' = [gone EXCEPT ![k] = commits + 1]
    BY DEF RemoveRow
  <2> QED BY <2>1, <2>2
<1> QED BY <1>1, <1>2, <1>4, <1>5 DEF StoreType

(* Whatever is published, the cache keeps its types. *)
LEMMA PublishType ==
  ASSUME TypeOK, NEW k \in Keys, NEW rev \in Nat, NEW val \in Values,
         NEW deleted \in BOOLEAN, NEW at \in Nat, NEW marked \in SUBSET Keys,
         Publish(k, rev, val, deleted, at, marked)
  PROVE  CacheType'
<1>1. unconfirmed' \in SUBSET Keys
  BY DEF Publish, TypeOK
<1>2. CASE Accepts(k, rev, val)
  <2>1. [rev |-> rev, val |-> val] \in Entry
    BY DEF Entry
  <2>2. entries' \in [Keys -> Entry \cup {Nothing}]
    <3>1. entries \in [Keys -> Entry \cup {Nothing}]
      BY DEF TypeOK
    <3>2. entries' = [entries EXCEPT ![k] = [rev |-> rev, val |-> val]]
      BY <1>2 DEF Publish
    <3> QED BY <2>1, <3>1, <3>2
  <2>3. fences \in [Keys -> KeyFence]
    BY DEF TypeOK
  <2>4. [deletes |-> fences[k].deletes + (IF deleted THEN 1 ELSE 0),
         publications |-> fences[k].publications + 1] \in KeyFence
    BY <2>3 DEF KeyFence
  <2>5. fences' \in [Keys -> KeyFence]
    BY <1>2, <2>3, <2>4 DEF Publish
  <2>6. basis' \in [Keys -> Nat]
    BY <1>2, ZenonT(40) DEF Publish, TypeOK
  <2> QED BY <1>1, <2>2, <2>5, <2>6 DEF CacheType
<1>3. CASE ~Accepts(k, rev, val)
  BY <1>1, <1>3 DEF Publish, TypeOK, CacheType
<1> QED BY <1>2, <1>3

(* An outcome recorded in the open windows leaves the same windows open. *)
LEMMA RecordType ==
  ASSUME TypeOK, NEW k \in Keys, NEW usable \in BOOLEAN, Record(k, usable)
  PROVE  WindowsType' /\ DOMAIN windows' = DOMAIN windows
<1>1. DOMAIN windows' = DOMAIN windows
  BY DEF Record
<1>2. ASSUME NEW g \in DOMAIN windows
      PROVE  windows'[g] \in Window
  <2>1. windows[g] \in Window
    BY DEF TypeOK
  <2>2. windows[g].touched \in SUBSET Keys /\ windows[g].unusable \in SUBSET Keys
    BY <2>1 DEF Window
  <2>3. CASE usable
    <3>1. windows'[g] = [touched |-> windows[g].touched \cup {k},
                         unusable |-> windows[g].unusable \ {k}]
      BY <2>3 DEF Record
    <3> QED BY <2>2, <3>1 DEF Window
  <2>4. CASE ~usable
    <3>1. windows'[g] = [windows[g] EXCEPT !.unusable = @ \cup {k}]
      BY <2>4 DEF Record
    <3> QED BY <2>1, <2>2, <3>1 DEF Window
  <2> QED BY <2>3, <2>4
<1>3. windows' = [g \in DOMAIN windows' |-> windows'[g]]
  BY DEF Record
<1> QED BY <1>1, <1>2, <1>3 DEF WindowsType, TypeOK

(* A closed window leaves the others open. *)
LEMMA CloseWindowType ==
  ASSUME TypeOK, NEW gen, windows' = CloseWindow(windows, gen)
  PROVE  WindowsType' /\ DOMAIN windows' = DOMAIN windows \ {gen}
BY DEF CloseWindow, TypeOK, WindowsType

(* A re-read ends idle or in the trailing read owed. *)
LEMMA EndReadType ==
  ASSUME TypeOK, NEW r \in Readers, NEW rs \in [Readers -> Reader], EndRead(r, rs)
  PROVE  ReadersType'
<1>1. Key(r) \in Keys
  BY DEF Readers, Key
<1>2. IdleReader \in Reader
  BY DEF IdleReader, Reader, NoFence, KeyFence, NoRow, Row
<1>3. [IdleReader EXCEPT !.pc = "start", !.deleted = (again[Key(r)] = "delete")] \in Reader
  BY <1>2 DEF Reader, IdleReader
<1> QED BY <1>1, <1>2, <1>3 DEF EndRead, ReadersType, TypeOK

-----------------------------------------------------------------------------
(* The type invariant. *)

(* The scope starts with its types. *)
LEMMA InitType == Init => TypeInv
<1> SUFFICES ASSUME Init PROVE TypeInv
  OBVIOUS
<1>1. NoRow \in Row /\ NoFence \in KeyFence /\ NoArming \in Arming
  BY DEF NoRow, Row, NoFence, KeyFence, NoArming, Arming
<1>2. db \in [Keys -> Row]
  <2>1. [rev : {1}, val : Values, at : {1}] \subseteq Row
    BY DEF Row
  <2> QED BY <1>1, <2>1 DEF Init
<1>3. IdleReader \in Reader
  BY <1>1 DEF IdleReader, Reader
<1>4. IdleWriter \in Writer
  BY <1>1 DEF IdleWriter, Writer
<1>5. IdleWorker \in Worker
  BY <1>1 DEF IdleWorker, Worker
<1>6. /\ readers \in [Readers -> Reader]
      /\ writers \in [Writers -> Writer]
      /\ worker \in Worker
      /\ fences \in [Keys -> KeyFence]
      /\ resyncPending \in Arming
  BY <1>1, <1>3, <1>4, <1>5 DEF Init
<1>7. /\ DOMAIN windows \in SUBSET Nat
      /\ windows \in [DOMAIN windows -> Window]
  BY DEF Init
<1>8. wire \in Seq(FeedEvent)
  BY DEF Init
<1>9. TypeOK
  BY <1>2, <1>6, <1>7, <1>8, WindowsAssumption DEF Init, TypeOK
<1>10. WritersHold
  BY DEF Init, WritersHold, IdleWriter
<1> QED BY <1>9, <1>10 DEF TypeInv

(* RemoteWrite. *)
LEMMA RemoteWriteType == TypeInv /\ RemoteWrite => TypeInv'
<1> SUFFICES ASSUME TypeInv, RemoteWrite PROVE TypeInv'
  OBVIOUS
<1>1. TypeOK
  BY DEF TypeInv
<1>2. StoreType'
  BY <1>1, SetRowType, RemoveRowType DEF RemoteWrite
<1>3. UNCHANGED <<feedVars, faults, cacheVars, stale, armVars, windows,
                  firstReconcile, again, worker, timers, readers, writers, historyVars>>
  BY DEF RemoteWrite
<1> QED BY <1>2, <1>3 DEF TypeInv, TypeOK, WritersHold, StoreType, feedVars, cacheVars,
             armVars, historyVars

(* Client.Set and Client.Delete. *)
LEMMA WriterType ==
  ASSUME TypeInv, NEW w \in Writers,
         \/ ClientSet(w) \/ ClientDelete(w)
         \/ PublishBegin(w) \/ PublishEnd(w) \/ PublishDelete(w)
  PROVE  TypeInv'
<1>1. TypeOK
  BY DEF TypeInv
<1>2. writers \in [Writers -> Writer] /\ IdleWriter \in Writer
  BY DEF TypeInv, TypeOK, IdleWriter, Writer, NoRow, Row
<1>3. CASE ClientSet(w)
  <2>1. PICK k \in Keys, v \in Values \ Bad :
          /\ SetRow(k, v)
          /\ writers' = [writers EXCEPT ![w] = [pc |-> "written", key |-> k, row |-> db'[k]]]
    BY <1>3 DEF ClientSet
  <2>2. StoreType' /\ db'[k] \in Row /\ db'[k].val \in Values
    BY <1>1, <2>1, SetRowType
  <2>3. [pc |-> "written", key |-> k, row |-> db'[k]] \in Writer
    BY <2>2 DEF Writer
  <2>4. writers' \in [Writers -> Writer] /\ WritersHold'
    BY <1>2, <2>1, <2>2, <2>3 DEF TypeInv, WritersHold
  <2>5. UNCHANGED <<feedVars, faults, cacheVars, stale, armVars, windows,
                    firstReconcile, again, worker, timers, readers, historyVars>>
    BY <1>3 DEF ClientSet
  <2> QED BY <2>2, <2>4, <2>5 DEF TypeInv, TypeOK, StoreType, feedVars, cacheVars,
               armVars, historyVars
<1>4. CASE ClientDelete(w)
  <2>1. PICK k \in Keys :
          /\ RemoveRow(k)
          /\ writers' = [writers EXCEPT ![w] = [pc |-> "deleted", key |-> k, row |-> db'[k]]]
    BY <1>4 DEF ClientDelete
  <2>2. StoreType' /\ db'[k] \in Row
    BY <1>1, <2>1, RemoveRowType
  <2>3. [pc |-> "deleted", key |-> k, row |-> db'[k]] \in Writer
    BY <2>2 DEF Writer
  <2>4. writers' \in [Writers -> Writer] /\ WritersHold'
    BY <1>2, <2>1, <2>2, <2>3 DEF TypeInv, WritersHold
  <2>5. UNCHANGED <<feedVars, faults, cacheVars, stale, armVars, windows,
                    firstReconcile, again, worker, timers, readers, historyVars>>
    BY <1>4 DEF ClientDelete
  <2> QED BY <2>2, <2>4, <2>5 DEF TypeInv, TypeOK, StoreType, feedVars, cacheVars,
               armVars, historyVars
<1>5. CASE PublishBegin(w)
  <2>1. writers[w].key \in Keys
    BY <1>5 DEF TypeInv, WritersHold, PublishBegin
  <2>2. WindowsType'
    BY <1>1, <1>5, <2>1, RecordType DEF PublishBegin
  <2>3. writers' = [writers EXCEPT ![w].pc = "grading"] /\ writers[w].pc = "written"
    BY <1>5 DEF PublishBegin
  <2>4. writers' \in [Writers -> Writer] /\ WritersHold'
    BY <1>2, <2>3 DEF TypeInv, WritersHold, Writer
  <2>5. UNCHANGED <<storeVars, feedVars, faults, cacheVars, stale, armVars,
                    firstReconcile, again, worker, timers, readers, historyVars>>
    BY <1>5 DEF PublishBegin
  <2> QED BY <2>2, <2>4, <2>5 DEF TypeInv, TypeOK, WindowsType, storeVars, feedVars,
               cacheVars, armVars, historyVars
<1>6. CASE PublishEnd(w) \/ PublishDelete(w)
  <2> DEFINE k == writers[w].key
             row == writers[w].row
  <2>1. k \in Keys /\ row \in Row
    BY <1>2, <1>6 DEF TypeInv, WritersHold, PublishEnd, PublishDelete, Writer
  <2>2. row.rev \in Nat /\ row.at \in Nat
    BY <2>1 DEF Row
  <2>3. CacheType'
    <3>1. CASE PublishEnd(w)
      <4>1. row.val \in Values /\ Publish(k, row.rev, row.val, FALSE, row.at, {})
        BY <3>1 DEF PublishEnd, TypeInv, WritersHold
      <4>2. {} \in SUBSET Keys
        OBVIOUS
      <4> HIDE DEF k, row
      <4> QED BY <1>1, <2>1, <2>2, <4>1, <4>2, PublishType
    <3>2. CASE PublishDelete(w)
      <4>1. Publish(k, 0, Default, TRUE, row.at, {})
        BY <3>2 DEF PublishDelete, IngestDefault
      <4>2. {} \in SUBSET Keys /\ Default \in Values
        BY ValuesAssumption
      <4> HIDE DEF k, row
      <4> QED BY <1>1, <2>1, <2>2, <4>1, <4>2, PublishType
    <3> QED BY <1>6, <3>1, <3>2
  <2>4. WindowsType'
    BY <1>1, <1>6, <2>1, RecordType DEF PublishEnd, PublishDelete
  <2>5. writers' = [writers EXCEPT ![w] = IdleWriter]
    BY <1>6 DEF PublishEnd, PublishDelete
  <2>6. writers' \in [Writers -> Writer] /\ WritersHold'
    BY <1>2, <2>5 DEF TypeInv, WritersHold, IdleWriter
  <2>7. acked' \in [Keys -> Nat] /\ removedAt' \in [Keys -> Nat]
    BY <1>1, <1>6, <2>1, <2>2, ZenonT(40) DEF PublishEnd, PublishDelete, TypeOK
  <2>8. late' \in [Keys -> {"no", "write", "reread", "repair"}]
    BY <1>1, <1>6, <2>1 DEF PublishEnd, PublishDelete, WriteOvertaken, TypeOK
  <2>9. UNCHANGED <<storeVars, feedVars, faults, stale, armVars, firstReconcile,
                    again, worker, timers, readers>>
    BY <1>6 DEF PublishEnd, PublishDelete
  <2> QED BY <2>3, <2>4, <2>6, <2>7, <2>8, <2>9 DEF TypeInv, TypeOK, CacheType,
               WindowsType, storeVars, feedVars, armVars
<1> QED BY <1>3, <1>4, <1>5, <1>6

(* The feed goroutine. *)
LEMMA FeedType ==
  TypeInv /\ (LoseConnection \/ OnDisconnect \/ Reconnect \/ OnResync \/ OnEvent)
    => TypeInv'
<1> SUFFICES ASSUME TypeInv,
                    LoseConnection \/ OnDisconnect \/ Reconnect \/ OnResync \/ OnEvent
             PROVE  TypeInv'
  OBVIOUS
<1>1. TypeOK
  BY DEF TypeInv
<1>2. CASE LoseConnection \/ OnDisconnect \/ Reconnect
  <2>1. /\ link' \in {"up", "lost", "down", "joined"}
        /\ wire' \in Seq(FeedEvent)
        /\ losses' \in Nat
        /\ disconnectGen' \in Nat
        /\ stale' \in BOOLEAN
    <3>1. /\ wire \in Seq(FeedEvent) /\ << >> \in Seq(FeedEvent)
          /\ losses \in Nat /\ disconnectGen \in Nat /\ stale \in BOOLEAN
      BY <1>1 DEF TypeOK
    <3>2. CASE LoseConnection
      BY <3>1, <3>2 DEF LoseConnection, armVars
    <3>3. CASE OnDisconnect
      BY <3>1, <3>3 DEF OnDisconnect, MarkStale, storeVars
    <3>4. CASE Reconnect
      BY <3>1, <3>4 DEF Reconnect, storeVars, armVars
    <3> QED BY <1>2, <3>2, <3>3, <3>4
  <2>2. UNCHANGED <<db, commits, gone, async, faults, cacheVars, reconcileGen, windows,
                    resyncPending, resyncSignal, firstReconcile, again, worker,
                    timers, readers, writers, historyVars>>
    BY <1>2 DEF LoseConnection, OnDisconnect, Reconnect, MarkStale, storeVars, armVars
  <2> QED BY <2>1, <2>2 DEF TypeInv, TypeOK, WritersHold, cacheVars, historyVars
<1>3. CASE OnResync
  <2> DEFINE gen == reconcileGen + 1
             kept == CloseWindow(windows, resyncPending.reconcile)
  <2>1. gen \in Nat /\ disconnectGen \in Nat
    BY <1>1 DEF TypeOK
  <2>2. /\ stale' = TRUE
        /\ reconcileGen' = gen
        /\ windows' = [g \in DOMAIN kept \cup {gen} |->
                         IF g = gen THEN [touched |-> {}, unusable |-> {}] ELSE kept[g]]
        /\ resyncPending' = [reconcile |-> gen, disconnect |-> disconnectGen]
        /\ resyncSignal' = TRUE
    BY <1>3 DEF OnResync, ArmReconcile
  <2>3. resyncPending' \in Arming
    BY <2>1, <2>2 DEF Arming
  <2>4. WindowsType'
    <3>1. DOMAIN kept \subseteq Nat /\ \A g \in DOMAIN kept : kept[g] \in Window
      BY <1>1 DEF CloseWindow, TypeOK
    <3>2. [touched |-> {}, unusable |-> {}] \in Window
      BY DEF Window
    <3> HIDE DEF kept, gen
    <3> QED BY <2>1, <2>2, <3>1, <3>2 DEF WindowsType
  <2>5. link' = "up"
    BY <1>3 DEF OnResync
  <2>6. UNCHANGED <<storeVars, losses, async, faults, cacheVars, disconnectGen,
                    firstReconcile, again, worker, timers, readers, writers, historyVars>>
    BY <1>3 DEF OnResync
  <2> QED BY <2>1, <2>2, <2>3, <2>4, <2>5, <2>6 DEF TypeInv, TypeOK, WritersHold,
               WindowsType, storeVars, cacheVars, historyVars
<1>4. CASE OnEvent
  <2> DEFINE ev == Head(wire)
  <2>1. ev \in FeedEvent /\ wire' \in Seq(FeedEvent)
    BY <1>1, <1>4 DEF OnEvent, TypeOK
  <2>2. ev.op \in {"upsert", "delete"} /\ ev.key \in Keys /\ ev.at \in Nat
    BY <2>1 DEF FeedEvent
  <2>3. WindowsType' /\ fences' \in [Keys -> KeyFence] /\ removedAt' \in [Keys -> Nat]
    <3> HIDE DEF ev
    <3>1. CASE ev.op = "delete"
      <4>1. RecordFeedDelete(ev.key)
        BY <1>4, <3>1 DEF OnEvent, ev
      <4>2. WindowsType'
        BY <1>1, <2>2, <4>1, RecordType DEF RecordFeedDelete
      <4>3. fences \in [Keys -> KeyFence] /\ fences' = [fences EXCEPT ![ev.key].deletes = @ + 1]
        BY <1>1, <4>1 DEF RecordFeedDelete, TypeOK
      <4>4. fences' \in [Keys -> KeyFence]
        BY <2>2, <4>3 DEF KeyFence
      <4>5. removedAt \in [Keys -> Nat]
        BY <1>1 DEF TypeOK
      <4>6. removedAt' = [removedAt EXCEPT ![ev.key] = IF ev.at > @ THEN ev.at ELSE @]
        BY <1>4, <3>1 DEF OnEvent, ev
      <4> QED BY <2>2, <4>2, <4>4, <4>5, <4>6
    <3>2. CASE ev.op # "delete"
      BY <1>1, <1>4, <3>2 DEF OnEvent, ev, TypeOK, WindowsType
    <3> QED BY <3>1, <3>2
  <2>4. readers' \in [Readers -> Reader] /\ timers' \in [Keys -> SUBSET {"upsert", "delete"}]
    <3>1. SubmitRefresh(ev.key, ev.op)
      BY <1>4 DEF OnEvent
    <3>2. [IdleReader EXCEPT !.pc = "start", !.deleted = (ev.op = "delete")] \in Reader
      BY DEF IdleReader, Reader, NoFence, KeyFence, NoRow, Row
    <3>3. /\ readers \in [Readers -> Reader]
          /\ timers \in [Keys -> SUBSET {"upsert", "delete"}]
      BY <1>1 DEF TypeOK
    <3> HIDE DEF ev
    <3>4. CASE async
      BY <2>2, <3>1, <3>3, <3>4 DEF SubmitRefresh
    <3>5. CASE ~async
      BY <3>1, <3>2, <3>3, <3>5 DEF SubmitRefresh
    <3> QED BY <3>4, <3>5
  <2>5. UNCHANGED <<db, commits, gone, feedVars, faults, entries, unconfirmed, stale,
                    armVars, firstReconcile, again, worker, writers, basis, acked, late>>
    BY <1>4 DEF OnEvent
  <2> QED BY <2>1, <2>3, <2>4, <2>5 DEF TypeInv, TypeOK, WritersHold, WindowsType,
               feedVars, armVars
<1> QED BY <1>2, <1>3, <1>4

(* Re-reads. *)
LEMMA ReadType ==
  ASSUME TypeInv, NEW r \in Readers,
         \/ ArmRead(r) \/ GetRow(r) \/ GetFails(r) \/ PublishAbsentDelete(r)
         \/ NoRowForUpsert(r) \/ IngestBegin(r) \/ IngestEnd(r) \/ RetryRefresh(r)
  PROVE  TypeInv'
<1>1. TypeOK
  BY DEF TypeInv
<1>2. /\ readers \in [Readers -> Reader]
      /\ fences \in [Keys -> KeyFence]
      /\ late \in [Keys -> {"no", "write", "reread", "repair"}]
  BY <1>1 DEF TypeOK
<1>3. Key(r) \in Keys /\ Retried(r) \in BOOLEAN
  BY DEF Readers, Key, Retried
<1>4. readers[r] \in Reader /\ readers[r].row \in Row
  BY <1>2 DEF Reader
<1>5. CASE ArmRead(r)
  <2> DEFINE new == [readers[r] EXCEPT !.pc = "reading", !.fence = fences[Key(r)],
                       !.origin = IF Retried(r) THEN readers[r].origin
                                 ELSE fences[Key(r)],
                       !.gen = reconcileGen]
  <2>1. readers' = [readers EXCEPT ![r] = new]
    BY <1>2, <1>5 DEF ArmRead
  <2>2. reconcileGen \in Nat
    BY <1>1 DEF TypeOK
  <2>3. new \in Reader
    BY <1>2, <1>3, <1>4, <2>2 DEF Reader
  <2>4. readers' \in [Readers -> Reader]
    BY <1>2, <2>1, <2>3
  <2>5. UNCHANGED <<storeVars, feedVars, faults, cacheVars, stale, armVars, windows,
                    firstReconcile, again, worker, timers, writers, historyVars>>
    BY <1>5 DEF ArmRead
  <2> QED BY <2>4, <2>5 DEF TypeInv, TypeOK, WritersHold, storeVars, feedVars, cacheVars,
               armVars, historyVars
<1>6. CASE GetRow(r)
  <2>1. readers' = [readers EXCEPT ![r] = [@ EXCEPT !.pc = "got", !.row = db[Key(r)]]]
    BY <1>6 DEF GetRow
  <2>2. db[Key(r)] \in Row
    BY <1>1, <1>3 DEF TypeOK
  <2>3. [readers[r] EXCEPT !.pc = "got", !.row = db[Key(r)]] \in Reader
    BY <1>4, <2>2 DEF Reader
  <2>4. readers' \in [Readers -> Reader]
    BY <1>2, <2>1, <2>3
  <2>5. UNCHANGED <<storeVars, feedVars, faults, cacheVars, stale, armVars, windows,
                    firstReconcile, again, worker, timers, writers, historyVars>>
    BY <1>6 DEF GetRow
  <2> QED BY <2>4, <2>5 DEF TypeInv, TypeOK, WritersHold, storeVars, feedVars, cacheVars,
               armVars, historyVars
<1>7. CASE GetFails(r)
  <2>1. readers' = [readers EXCEPT ![r] = [@ EXCEPT !.pc = "repair", !.fence = NoFence]]
    BY <1>7 DEF GetFails
  <2>2. [readers[r] EXCEPT !.pc = "repair", !.fence = NoFence] \in Reader
    BY <1>4 DEF Reader, NoFence, KeyFence
  <2>3. readers' \in [Readers -> Reader]
    BY <1>2, <2>1, <2>2
  <2>4. WindowsType'
    BY <1>1, <1>3, <1>7, RecordType DEF GetFails
  <2>5. faults' \in [reads : Nat, list : Nat]
    <3>1. faults \in [reads : Nat, list : Nat]
      BY <1>1 DEF TypeOK
    <3>2. faults' = [faults EXCEPT !.reads = faults.reads + 1]
      BY <1>7, <3>1 DEF GetFails
    <3> QED BY <3>1, <3>2
  <2>6. UNCHANGED <<storeVars, feedVars, cacheVars, stale, armVars, firstReconcile,
                    again, worker, timers, writers, historyVars>>
    BY <1>7 DEF GetFails
  <2> QED BY <2>3, <2>4, <2>5, <2>6 DEF TypeInv, TypeOK, WritersHold, WindowsType,
               storeVars, feedVars, cacheVars, armVars, historyVars
<1>8. CASE IngestBegin(r)
  <2>1. readers' \in [Readers -> Reader]
    BY <1>2, <1>8 DEF IngestBegin, Reader
  <2>2. WindowsType'
    BY <1>1, <1>3, <1>8, RecordType DEF IngestBegin
  <2>3. UNCHANGED <<storeVars, feedVars, faults, cacheVars, stale, armVars,
                    firstReconcile, again, worker, timers, writers, historyVars>>
    BY <1>8 DEF IngestBegin
  <2> QED BY <2>1, <2>2, <2>3 DEF TypeInv, TypeOK, WritersHold, WindowsType, storeVars,
               feedVars, cacheVars, armVars, historyVars
<1>9. CASE PublishAbsentDelete(r) \/ IngestEnd(r)
  <2> DEFINE k == Key(r)
             row == readers[r].row
  <2>1. row.rev \in Nat /\ row.at \in Nat /\ k \in Keys
    BY <1>3, <1>4 DEF Row
  <2>2. {} \in SUBSET Keys /\ Default \in Values
    BY ValuesAssumption
  <2>3. CacheType'
    <3>1. \/ UNCHANGED <<cacheVars, basis>>
          \/ Publish(k, 0, Default, FALSE, row.at, {})
          \/ row.val \in Values /\ Publish(k, row.rev, row.val, FALSE, row.at, {})
      BY <1>9 DEF PublishAbsentDelete, IngestEnd, IngestDefault, Publishable, Usable
    <3>2. CASE UNCHANGED <<cacheVars, basis>>
      BY <1>1, <3>2 DEF TypeOK, CacheType, cacheVars
    <3> HIDE DEF k, row
    <3>3. CASE Publish(k, 0, Default, FALSE, row.at, {})
      BY <1>1, <2>1, <2>2, <3>3, PublishType
    <3>4. CASE row.val \in Values /\ Publish(k, row.rev, row.val, FALSE, row.at, {})
      BY <1>1, <2>1, <2>2, <3>4, PublishType
    <3> QED BY <3>1, <3>2, <3>3, <3>4
  <2>4. WindowsType'
    <3>1. \/ UNCHANGED windows \/ Record(k, TRUE) \/ Record(k, FALSE)
      BY <1>9 DEF PublishAbsentDelete, IngestEnd, Publishable, Usable, SupersededByDelete
    <3>2. CASE UNCHANGED windows
      BY <1>1, <3>2 DEF TypeOK, WindowsType
    <3>3. CASE Record(k, TRUE) \/ Record(k, FALSE)
      BY <1>1, <2>1, <3>3, RecordType
    <3> QED BY <3>1, <3>2, <3>3
  <2>5. ReadersType'
    <3>1. EndRead(r, readers)
      BY <1>9 DEF PublishAbsentDelete, IngestEnd
    <3> QED BY <1>1, <1>2, <3>1, EndReadType
  <2>6. late' \in [Keys -> {"no", "write", "reread", "repair"}]
    BY <1>2, <1>3, <1>9 DEF PublishAbsentDelete, IngestEnd, ReadOvertaken
  <2>7. UNCHANGED <<storeVars, feedVars, faults, stale, armVars, firstReconcile,
                    worker, timers, writers, acked, removedAt>>
    BY <1>9 DEF PublishAbsentDelete, IngestEnd
  <2> QED BY <2>3, <2>4, <2>5, <2>6, <2>7 DEF TypeInv, TypeOK, WritersHold, CacheType,
               WindowsType, ReadersType, storeVars, feedVars, armVars
<1>10. CASE NoRowForUpsert(r) \/ RetryRefresh(r)
  <2> DEFINE slot == RetryOf(Key(r), readers[r].deleted)
             armed == [readers EXCEPT ![slot] =
                         [IdleReader EXCEPT !.pc = "start",
                                            !.deleted = readers[r].deleted,
                                            !.origin = readers[r].origin]]
  <2>1. slot \in Readers
    BY <1>3 DEF RetryOf, Readers, Kinds
  <2>2. armed \in [Readers -> Reader]
    <3>1. [IdleReader EXCEPT !.pc = "start", !.deleted = readers[r].deleted,
                             !.origin = readers[r].origin] \in Reader
      BY <1>4 DEF IdleReader, Reader, NoFence, KeyFence, NoRow, Row
    <3> QED BY <1>2, <2>1, <3>1
  <2>3. ReadersType'
    <3>1. EndRead(r, readers) \/ EndRead(r, armed)
      BY <1>10 DEF NoRowForUpsert, RetryRefresh
    <3> HIDE DEF armed, slot
    <3> QED BY <1>1, <1>2, <2>2, <3>1, EndReadType
  <2>4. late' \in [Keys -> {"no", "write", "reread", "repair"}] /\ unconfirmed' \in SUBSET Keys
    <3>1. \/ UNCHANGED <<unconfirmed, late>>
          \/ UNCHANGED unconfirmed /\ late' = Tagged(Key(r), "repair")
          \/ RecordUnconfirmed(Key(r), readers[r].origin)
      BY <1>10 DEF NoRowForUpsert, RetryRefresh
    <3>2. unconfirmed \in SUBSET Keys
      BY <1>1 DEF TypeOK
    <3>3. Tagged(Key(r), "repair") \in [Keys -> {"no", "write", "reread", "repair"}]
      BY <1>2, <1>3 DEF Tagged
    <3>4. CASE RecordUnconfirmed(Key(r), readers[r].origin)
      BY <1>2, <1>3, <3>2, <3>3, <3>4 DEF RecordUnconfirmed
    <3> QED BY <1>2, <3>1, <3>2, <3>3, <3>4
  <2>5. UNCHANGED <<storeVars, feedVars, faults, entries, fences, stale, armVars,
                    windows, firstReconcile, worker, timers, writers, basis, acked,
                    removedAt>>
    BY <1>10 DEF NoRowForUpsert, RetryRefresh
  <2> QED BY <2>3, <2>4, <2>5 DEF TypeInv, TypeOK, WritersHold, ReadersType, storeVars,
               feedVars, armVars
<1> QED BY <1>5, <1>6, <1>7, <1>8, <1>9, <1>10

(* A timer firing. *)
LEMMA TimerType ==
  ASSUME TypeInv, NEW k \in Keys, NEW op \in {"upsert", "delete"}, TrackedRefresh(k, op)
  PROVE  TypeInv'
<1>1. TypeOK
  BY DEF TypeInv
<1>2. timers' \in [Keys -> SUBSET {"upsert", "delete"}]
  BY <1>1 DEF TrackedRefresh, TypeOK
<1>3. ReadersType'
  <2>1. ReadersType
    BY <1>1 DEF TypeOK, ReadersType
  <2>2. [IdleReader EXCEPT !.pc = "start", !.deleted = (op = "delete")] \in Reader
    BY DEF IdleReader, Reader, NoFence, KeyFence, NoRow, Row
  <2>3. CASE readers[<<k, "refresh">>].pc # "idle"
    BY <2>1, <2>3 DEF TrackedRefresh, ReadersType
  <2>4. CASE readers[<<k, "refresh">>].pc = "idle"
    BY <2>1, <2>2, <2>4 DEF TrackedRefresh, ReadersType
  <2> QED BY <2>3, <2>4
<1>4. UNCHANGED <<storeVars, feedVars, faults, cacheVars, stale, armVars,
                  windows, firstReconcile, worker, writers, historyVars>>
  BY DEF TrackedRefresh
<1> QED BY <1>2, <1>3, <1>4 DEF TypeInv, TypeOK, WritersHold, ReadersType, storeVars,
             feedVars, cacheVars, armVars, historyVars

WorkerStep ==
  \/ WorkerWakes \/ TakeReconcile \/ List \/ ListFails \/ Abandon
  \/ (\E k \in Keys : ApplySnapshotRow(k) \/ ApplyAbsentKey(k))
  \/ FinishReconcile

(* The reconcile worker. *)
LEMMA WorkerType == TypeInv /\ WorkerStep => TypeInv'
<1> SUFFICES ASSUME TypeInv, WorkerStep PROVE TypeInv'
  OBVIOUS
<1>1. TypeOK
  BY DEF TypeInv
<1>2. worker \in Worker /\ db \in [Keys -> Row] /\ resyncPending \in Arming
  BY <1>1 DEF TypeOK
<1>3. IdleWorker \in Worker /\ NoArming \in Arming
  BY DEF IdleWorker, Worker, NoArming, Arming, NoRow, Row
<1>4. CASE WorkerWakes \/ TakeReconcile \/ List
  <2>1. worker' \in Worker
    BY <1>2, <1>3, <1>4 DEF WorkerWakes, TakeReconcile, List, Worker
  <2>2. resyncPending' \in Arming /\ resyncSignal' \in BOOLEAN
    BY <1>1, <1>3, <1>4 DEF WorkerWakes, TakeReconcile, List, TypeOK, armVars
  <2>3. UNCHANGED <<storeVars, feedVars, faults, cacheVars, stale, disconnectGen,
                    reconcileGen, windows, firstReconcile, again, timers, readers,
                    writers, historyVars>>
    BY <1>4 DEF WorkerWakes, TakeReconcile, List, armVars
  <2> QED BY <2>1, <2>2, <2>3 DEF TypeInv, TypeOK, WritersHold, storeVars, feedVars,
               cacheVars, historyVars
<1>5. CASE ListFails \/ Abandon \/ FinishReconcile
  <2>1. worker' = IdleWorker /\ windows' = CloseWindow(windows, worker.arm.reconcile)
    BY <1>5 DEF ListFails, Abandon, FinishReconcile
  <2>2. WindowsType'
    BY <1>1, <2>1, CloseWindowType
  <2>3. /\ faults' \in [reads : Nat, list : Nat]
        /\ stale' \in BOOLEAN
        /\ firstReconcile' \in {"pending", "ok", "failed"}
    <3>1. /\ faults \in [reads : Nat, list : Nat] /\ stale \in BOOLEAN
          /\ firstReconcile \in {"pending", "ok", "failed"}
      BY <1>1 DEF TypeOK
    <3>2. CASE ListFails
      <4>1. worker.arm.reconcile \in Nat
        BY <1>2 DEF Worker, Arming
      <4>2. faults' \in [reads : Nat, list : Nat]
        BY <3>1, <3>2, <4>1 DEF ListFails
      <4> QED BY <3>1, <3>2, <4>2 DEF ListFails, FinishFirstReconcile
    <3>3. CASE Abandon
      BY <3>1, <3>3 DEF Abandon
    <3>4. CASE FinishReconcile
      <4>1. stale' \in BOOLEAN
        BY <3>1, <3>4, Zenon DEF FinishReconcile
      <4> QED BY <3>1, <3>4, <4>1 DEF FinishReconcile, FinishFirstReconcile
    <3> QED BY <1>5, <3>2, <3>3, <3>4
  <2>4. UNCHANGED <<storeVars, feedVars, cacheVars, armVars, again, timers,
                    readers, writers, historyVars>>
    BY <1>5 DEF ListFails, Abandon, FinishReconcile
  <2> QED BY <1>3, <2>1, <2>2, <2>3, <2>4 DEF TypeInv, TypeOK, WritersHold, WindowsType,
               storeVars, feedVars, cacheVars, armVars, historyVars
<1>6. ASSUME NEW k \in Keys, ApplySnapshotRow(k) \/ ApplyAbsentKey(k)
      PROVE  TypeInv'
  <2> DEFINE row == worker.snap[k]
  <2>1. row \in Row
    BY <1>2 DEF Worker
  <2>2. row.rev \in Nat /\ row.at \in Nat
    BY <2>1 DEF Row
  <2>3. {} \in SUBSET Keys /\ Default \in Values /\ Reopened(k) \in SUBSET Keys
    BY ValuesAssumption DEF Reopened
  <2>4. worker' \in Worker
    <3>1. worker' = [worker EXCEPT !.todo = @ \ {k}]
      BY <1>6 DEF ApplySnapshotRow, ApplyAbsentKey
    <3> QED BY <1>2, <3>1 DEF Worker
  <2>5. CacheType'
    <3>1. \/ UNCHANGED <<cacheVars, basis>>
          \/ UNCHANGED <<entries, fences, basis>> /\ unconfirmed' \in SUBSET unconfirmed
          \/ Publish(k, 0, Default, FALSE, row.at, {})
          \/ row.val \in Values /\ Publish(k, row.rev, row.val, FALSE, row.at, Reopened(k))
      BY <1>6 DEF ApplySnapshotRow, ApplyAbsentKey, IngestDefault, Usable, cacheVars
    <3>2. CASE \/ UNCHANGED <<cacheVars, basis>>
               \/ UNCHANGED <<entries, fences, basis>> /\ unconfirmed' \in SUBSET unconfirmed
      BY <1>1, <3>2 DEF TypeOK, CacheType, cacheVars
    <3> HIDE DEF row
    <3>3. CASE Publish(k, 0, Default, FALSE, row.at, {})
      BY <1>1, <2>2, <2>3, <3>3, PublishType
    <3>4. CASE row.val \in Values /\ Publish(k, row.rev, row.val, FALSE, row.at, Reopened(k))
      BY <1>1, <2>2, <2>3, <3>4, PublishType
    <3> QED BY <3>1, <3>2, <3>3, <3>4
  <2>6. late' \in [Keys -> {"no", "write", "reread", "repair"}]
    <3>1. late \in [Keys -> {"no", "write", "reread", "repair"}]
      BY <1>1 DEF TypeOK
    <3>2. UNCHANGED late \/ Decided(k, TRUE) \/ Decided(k, FALSE)
      BY <1>6 DEF ApplySnapshotRow, ApplyAbsentKey
    <3> QED BY <3>1, <3>2 DEF Decided
  <2>7. UNCHANGED <<storeVars, feedVars, faults, stale, armVars, windows, firstReconcile,
                    again, timers, readers, writers, acked, removedAt>>
    BY <1>6 DEF ApplySnapshotRow, ApplyAbsentKey
  <2> QED BY <2>4, <2>5, <2>6, <2>7 DEF TypeInv, TypeOK, WritersHold, CacheType,
               storeVars, feedVars, armVars
<1> QED BY <1>4, <1>5, <1>6 DEF WorkerStep

(* One step of the scope keeps the types. *)
LEMMA StepType == TypeInv /\ [Next]_vars => TypeInv'
<1> SUFFICES ASSUME TypeInv, [Next]_vars PROVE TypeInv'
  OBVIOUS
<1>1. CASE UNCHANGED vars
  BY <1>1 DEF TypeInv, TypeOK, WritersHold, vars
<1>2. CASE AtRest
  BY <1>1, <1>2 DEF AtRest
<1>3. CASE RemoteWrite
  BY <1>3, RemoteWriteType
<1>4. CASE LoseConnection \/ OnDisconnect \/ Reconnect \/ OnResync \/ OnEvent
  BY <1>4, FeedType
<1>5. ASSUME NEW w \in Writers,
             \/ ClientSet(w) \/ ClientDelete(w)
             \/ PublishBegin(w) \/ PublishEnd(w) \/ PublishDelete(w)
      PROVE  TypeInv'
  BY <1>5, WriterType
<1>6. ASSUME NEW k \in Keys, NEW op \in {"upsert", "delete"}, TrackedRefresh(k, op)
      PROVE  TypeInv'
  BY <1>6, TimerType
<1>7. ASSUME NEW r \in Readers,
             \/ ArmRead(r) \/ GetRow(r) \/ GetFails(r) \/ PublishAbsentDelete(r)
             \/ NoRowForUpsert(r) \/ IngestBegin(r) \/ IngestEnd(r) \/ RetryRefresh(r)
      PROVE  TypeInv'
  BY <1>7, ReadType
<1>8. CASE WorkerStep
  BY <1>8, WorkerType
<1> QED BY <1>1, <1>2, <1>3, <1>4, <1>5, <1>6, <1>7, <1>8 DEF Next, WorkerStep

(* Type correctness of the whole scope: no step of the feed, of a re-read, *)
(* of the reconcile or of a local write leaves the cache, the windows or   *)
(* the mailbox outside their types; the missing row of a delete never      *)
(* reaches the cache as a value.                                           *)
THEOREM TypeCorrect == Spec => []TypeOK
<1>1. Init => TypeInv
  BY InitType
<1>2. TypeInv /\ [Next]_vars => TypeInv'
  BY StepType
<1>3. TypeInv => TypeOK
  BY DEF TypeInv
<1> QED BY <1>1, <1>2, <1>3, PTL DEF Spec

-----------------------------------------------------------------------------
(* The fences of the arming: disconnectGen and reconcileGen.               *)

Holding == worker.pc \in {"taken", "applying"}

(* No arming is ahead of the disconnects seen, and once a disconnect was   *)
(* seen with no OpResync after it every arming is behind: the reconcile it *)
(* belongs to may finish, and may not clear the flag.                      *)
ArmingsFenced ==
  /\ resyncPending # NoArming => resyncPending.disconnect <= disconnectGen
  /\ Holding => worker.arm.disconnect <= disconnectGen
  /\ link \in {"down", "joined"} =>
       /\ resyncPending # NoArming => resyncPending.disconnect < disconnectGen
       /\ Holding => worker.arm.disconnect < disconnectGen

StaleInv == TypeInv /\ ArmingsFenced /\ StaleWhileDisconnected

(* Steps that move neither the link nor an arming keep the fences. *)
LEMMA StaleFrame ==
  ASSUME StaleInv, UNCHANGED <<link, stale, disconnectGen, resyncPending, worker>>
  PROVE  ArmingsFenced' /\ StaleWhileDisconnected'
BY DEF StaleInv, ArmingsFenced, StaleWhileDisconnected, Holding

(* One step keeps what the stale flag rests on. *)
LEMMA StaleStep == StaleInv /\ [Next]_vars => StaleInv'
<1> SUFFICES ASSUME StaleInv, [Next]_vars PROVE StaleInv'
  OBVIOUS
<1>1. TypeInv'
  BY StepType DEF StaleInv
<1>2. /\ disconnectGen \in Nat /\ resyncPending \in Arming /\ worker \in Worker
      /\ link \in {"up", "lost", "down", "joined"}
  BY DEF StaleInv, TypeInv, TypeOK
<1>3. resyncPending.disconnect \in Nat /\ worker.arm.disconnect \in Nat
  BY <1>2 DEF Arming, Worker
<1> SUFFICES ArmingsFenced' /\ StaleWhileDisconnected'
  BY <1>1 DEF StaleInv
<1>4. CASE UNCHANGED vars \/ AtRest \/ RemoteWrite \/ OnEvent
  BY <1>4, StaleFrame DEF vars, AtRest, RemoteWrite, OnEvent, feedVars, armVars
<1>5. ASSUME NEW w \in Writers,
             \/ ClientSet(w) \/ ClientDelete(w)
             \/ PublishBegin(w) \/ PublishEnd(w) \/ PublishDelete(w)
      PROVE  ArmingsFenced' /\ StaleWhileDisconnected'
  BY <1>5, StaleFrame DEF ClientSet, ClientDelete, PublishBegin, PublishEnd, PublishDelete,
       feedVars, armVars
<1>6. ASSUME NEW k \in Keys, NEW op \in {"upsert", "delete"}, TrackedRefresh(k, op)
      PROVE  ArmingsFenced' /\ StaleWhileDisconnected'
  BY <1>6, StaleFrame DEF TrackedRefresh, feedVars, armVars
<1>7. ASSUME NEW r \in Readers,
             \/ ArmRead(r) \/ GetRow(r) \/ GetFails(r) \/ PublishAbsentDelete(r)
             \/ NoRowForUpsert(r) \/ IngestBegin(r) \/ IngestEnd(r) \/ RetryRefresh(r)
      PROVE  ArmingsFenced' /\ StaleWhileDisconnected'
  BY <1>7, StaleFrame DEF ArmRead, GetRow, GetFails, PublishAbsentDelete, NoRowForUpsert,
       IngestBegin, IngestEnd, RetryRefresh, feedVars, armVars
<1>8. CASE LoseConnection
  BY <1>8 DEF LoseConnection, StaleInv, ArmingsFenced, StaleWhileDisconnected, Holding, armVars
<1>9. CASE OnDisconnect
  BY <1>2, <1>3, <1>9 DEF OnDisconnect, MarkStale, StaleInv, ArmingsFenced,
       StaleWhileDisconnected, Holding
<1>10. CASE Reconnect
  BY <1>10 DEF Reconnect, StaleInv, ArmingsFenced, StaleWhileDisconnected, Holding, armVars
<1>11. CASE OnResync
  BY <1>2, <1>3, <1>11 DEF OnResync, ArmReconcile, StaleInv, ArmingsFenced,
       StaleWhileDisconnected, Holding
<1>12. CASE WorkerWakes
  BY <1>12 DEF WorkerWakes, StaleInv, ArmingsFenced, StaleWhileDisconnected, Holding,
       feedVars
<1>13. CASE TakeReconcile
  <2>1. worker'.pc \in {"taken", "applying"} => resyncPending # NoArming /\ worker'.arm = resyncPending
    BY <1>2, <1>13 DEF TakeReconcile, IdleWorker, Worker
  <2>2. resyncPending' = NoArming
    BY <1>13 DEF TakeReconcile
  <2>3. UNCHANGED <<link, stale, disconnectGen>>
    BY <1>13 DEF TakeReconcile, feedVars
  <2> QED BY <2>1, <2>2, <2>3 DEF StaleInv, ArmingsFenced, StaleWhileDisconnected, Holding
<1>14. CASE List
  <2>1. worker'.arm = worker.arm /\ Holding
    BY <1>2, <1>14 DEF List, Worker, Holding
  <2> QED BY <1>14, <2>1 DEF List, StaleInv, ArmingsFenced, StaleWhileDisconnected, Holding,
               feedVars, armVars
<1>15. CASE ListFails \/ Abandon
  <2>1. ~Holding'
    BY <1>15 DEF ListFails, Abandon, Holding, IdleWorker
  <2>2. UNCHANGED <<link, stale, disconnectGen, resyncPending>>
    BY <1>15 DEF ListFails, Abandon, feedVars, armVars
  <2> QED BY <2>1, <2>2 DEF StaleInv, ArmingsFenced, StaleWhileDisconnected
<1>16. ASSUME NEW k \in Keys, ApplySnapshotRow(k) \/ ApplyAbsentKey(k)
       PROVE  ArmingsFenced' /\ StaleWhileDisconnected'
  <2>1. worker' = [worker EXCEPT !.todo = @ \ {k}]
    BY <1>16 DEF ApplySnapshotRow, ApplyAbsentKey
  <2>2. worker'.arm = worker.arm /\ worker'.pc = worker.pc
    BY <1>2, <2>1 DEF Worker
  <2>3. UNCHANGED <<link, stale, disconnectGen, resyncPending>>
    BY <1>16 DEF ApplySnapshotRow, ApplyAbsentKey, feedVars, armVars
  <2> QED BY <2>2, <2>3 DEF StaleInv, ArmingsFenced, StaleWhileDisconnected, Holding
<1>17. CASE FinishReconcile
  <2>1. ~Holding' /\ Holding
    BY <1>17 DEF FinishReconcile, Holding, IdleWorker
  <2>2. UNCHANGED <<link, disconnectGen, resyncPending>>
    BY <1>17 DEF FinishReconcile, feedVars, armVars
  <2>3. ASSUME link \in {"down", "joined"}
        PROVE  stale' = stale
    <3>1. disconnectGen # worker.arm.disconnect
      BY <1>2, <1>3, <2>1, <2>3 DEF StaleInv, ArmingsFenced
    <3> QED BY <1>17, <3>1 DEF FinishReconcile, MayClearStale
  <2> QED BY <2>1, <2>2, <2>3 DEF StaleInv, ArmingsFenced, StaleWhileDisconnected
<1> QED BY <1>4, <1>5, <1>6, <1>7, <1>8, <1>9, <1>10, <1>11, <1>12, <1>13, <1>14, <1>15,
           <1>16, <1>17 DEF Next

(* From an OpDisconnect to the OpResync after it every read reports Stale, *)
(* whenever the reconcile of the lost connection finishes: clearStale      *)
(* compares the disconnects its arming had seen.                           *)
THEOREM StaleUntilResync == Spec => []StaleWhileDisconnected
<1>1. Init => StaleInv
  <2> SUFFICES ASSUME Init PROVE StaleInv
    OBVIOUS
  <2>1. TypeInv
    BY InitType
  <2>2. ArmingsFenced /\ StaleWhileDisconnected
    BY DEF Init, ArmingsFenced, StaleWhileDisconnected, Holding, IdleWorker
  <2> QED BY <2>1, <2>2 DEF StaleInv
<1>2. StaleInv /\ [Next]_vars => StaleInv'
  BY StaleStep
<1>3. StaleInv => StaleWhileDisconnected
  BY DEF StaleInv
<1> QED BY <1>1, <1>2, <1>3, PTL DEF Spec

-----------------------------------------------------------------------------
(* The reconcile windows and who closes them.                              *)

(* A worker between reconciles holds no arming; generations are handed out *)
(* in order, and no two armings share one.                                 *)
ArmingsDistinct ==
  /\ worker.pc \in {"idle", "woken"} => worker.arm = NoArming
  /\ resyncPending.reconcile <= reconcileGen
  /\ worker.arm.reconcile <= reconcileGen
  /\ worker.arm.reconcile # 0 => resyncPending.reconcile # worker.arm.reconcile

OwnedInv == TypeInv /\ ArmingsDistinct /\ WindowsOwned

(* A step that moves no arming, and at most records in the windows. *)
LEMMA OwnedFrame ==
  ASSUME OwnedInv, DOMAIN windows' = DOMAIN windows,
         UNCHANGED <<reconcileGen, resyncPending>>,
         worker'.arm = worker.arm,
         worker'.pc \in {"idle", "woken"} => worker.pc \in {"idle", "woken"}
  PROVE  ArmingsDistinct' /\ WindowsOwned'
BY DEF OwnedInv, ArmingsDistinct, WindowsOwned

(* One step keeps the windows with their owners. *)
LEMMA OwnedStep == OwnedInv /\ [Next]_vars => OwnedInv'
<1> SUFFICES ASSUME OwnedInv, [Next]_vars PROVE OwnedInv'
  OBVIOUS
<1>1. TypeInv'
  BY StepType DEF OwnedInv
<1>2. TypeOK
  BY DEF OwnedInv, TypeInv
<1>3. /\ reconcileGen \in Nat /\ resyncPending \in Arming /\ worker \in Worker
      /\ DOMAIN windows \in SUBSET Nat
  BY <1>2 DEF TypeOK
<1>4. resyncPending.reconcile \in Nat /\ worker.arm.reconcile \in Nat
  BY <1>3 DEF Arming, Worker
<1> SUFFICES ArmingsDistinct' /\ WindowsOwned'
  BY <1>1 DEF OwnedInv
<1>5. CASE UNCHANGED vars \/ AtRest \/ RemoteWrite \/ LoseConnection \/ OnDisconnect \/ Reconnect
  BY <1>5, OwnedFrame DEF vars, AtRest, RemoteWrite, LoseConnection, OnDisconnect, MarkStale,
       Reconnect, feedVars, armVars
<1>6. CASE OnEvent
  <2>1. DOMAIN windows' = DOMAIN windows
    BY <1>6 DEF OnEvent, RecordFeedDelete, Record
  <2> QED BY <1>6, <2>1, OwnedFrame DEF OnEvent, armVars
<1>7. ASSUME NEW w \in Writers,
             \/ ClientSet(w) \/ ClientDelete(w)
             \/ PublishBegin(w) \/ PublishEnd(w) \/ PublishDelete(w)
      PROVE  ArmingsDistinct' /\ WindowsOwned'
  <2>1. DOMAIN windows' = DOMAIN windows
    BY <1>7 DEF ClientSet, ClientDelete, PublishBegin, PublishEnd, PublishDelete, Record
  <2>2. UNCHANGED <<reconcileGen, resyncPending, worker>>
    BY <1>7 DEF ClientSet, ClientDelete, PublishBegin, PublishEnd, PublishDelete, armVars
  <2> QED BY <2>1, <2>2, OwnedFrame
<1>8. ASSUME NEW k \in Keys, NEW op \in {"upsert", "delete"}, TrackedRefresh(k, op)
      PROVE  ArmingsDistinct' /\ WindowsOwned'
  BY <1>8, OwnedFrame DEF TrackedRefresh, armVars
<1>9. ASSUME NEW r \in Readers,
             \/ ArmRead(r) \/ GetRow(r) \/ GetFails(r) \/ PublishAbsentDelete(r)
             \/ NoRowForUpsert(r) \/ IngestBegin(r) \/ IngestEnd(r) \/ RetryRefresh(r)
      PROVE  ArmingsDistinct' /\ WindowsOwned'
  <2>1. DOMAIN windows' = DOMAIN windows
    BY <1>9 DEF ArmRead, GetRow, GetFails, PublishAbsentDelete, NoRowForUpsert, IngestBegin,
         IngestEnd, RetryRefresh, Record
  <2>2. UNCHANGED <<reconcileGen, resyncPending, worker>>
    BY <1>9 DEF ArmRead, GetRow, GetFails, PublishAbsentDelete, NoRowForUpsert, IngestBegin,
         IngestEnd, RetryRefresh, armVars
  <2> QED BY <2>1, <2>2, OwnedFrame
<1>10. CASE OnResync
  <2>1. /\ reconcileGen' = reconcileGen + 1
        /\ resyncPending'.reconcile = reconcileGen + 1
        /\ worker' = worker
    BY <1>10 DEF OnResync, ArmReconcile
  <2>2. DOMAIN windows' = (DOMAIN windows \ {resyncPending.reconcile}) \cup {reconcileGen + 1}
    BY <1>10 DEF OnResync, ArmReconcile, CloseWindow
  <2>3. DOMAIN windows \ {resyncPending.reconcile} = {worker.arm.reconcile} \ {0}
    BY DEF OwnedInv, ArmingsDistinct, WindowsOwned
  <2> QED BY <1>3, <1>4, <2>1, <2>2, <2>3 DEF OwnedInv, ArmingsDistinct, WindowsOwned
<1>11. CASE WorkerWakes \/ List
  <2>1. worker'.arm = worker.arm /\ UNCHANGED <<reconcileGen, resyncPending, windows>>
    BY <1>3, <1>11 DEF WorkerWakes, List, Worker, armVars
  <2>2. worker'.pc \in {"idle", "woken"} => worker.pc \in {"idle", "woken"}
    BY <1>3, <1>11 DEF WorkerWakes, List, Worker
  <2> QED BY <2>1, <2>2, OwnedFrame
<1>12. CASE TakeReconcile
  <2>1. worker.arm = NoArming /\ resyncPending' = NoArming /\ UNCHANGED <<windows, reconcileGen>>
    BY <1>12 DEF TakeReconcile, OwnedInv, ArmingsDistinct
  <2>2. CASE resyncPending = NoArming
    <3>1. worker' = IdleWorker
      BY <1>12, <2>2 DEF TakeReconcile
    <3> QED BY <2>1, <2>2, <3>1 DEF OwnedInv, ArmingsDistinct, WindowsOwned, IdleWorker
  <2>3. CASE resyncPending # NoArming
    <3>1. worker'.arm = resyncPending /\ worker'.pc = "taken"
      BY <1>3, <1>12, <2>3 DEF TakeReconcile, Worker
    <3> QED BY <1>3, <1>4, <2>1, <3>1 DEF OwnedInv, ArmingsDistinct, WindowsOwned, NoArming
  <2> QED BY <2>2, <2>3
<1>13. CASE ListFails \/ Abandon \/ FinishReconcile
  <2>1. worker' = IdleWorker /\ UNCHANGED <<reconcileGen, resyncPending>>
    BY <1>13 DEF ListFails, Abandon, FinishReconcile, armVars
  <2>2. DOMAIN windows' = DOMAIN windows \ {worker.arm.reconcile}
    BY <1>13 DEF ListFails, Abandon, FinishReconcile, CloseWindow
  <2>3. worker'.arm = NoArming /\ NoArming.reconcile = 0
    BY <2>1 DEF IdleWorker, NoArming
  <2> QED BY <1>3, <1>4, <2>1, <2>2, <2>3 DEF OwnedInv, ArmingsDistinct, WindowsOwned
<1>14. ASSUME NEW k \in Keys, ApplySnapshotRow(k) \/ ApplyAbsentKey(k)
       PROVE  ArmingsDistinct' /\ WindowsOwned'
  <2>1. worker' = [worker EXCEPT !.todo = @ \ {k}]
    BY <1>14 DEF ApplySnapshotRow, ApplyAbsentKey
  <2>2. worker'.arm = worker.arm /\ worker'.pc = worker.pc
    BY <1>3, <2>1 DEF Worker
  <2>3. UNCHANGED <<reconcileGen, resyncPending, windows>>
    BY <1>14 DEF ApplySnapshotRow, ApplyAbsentKey, armVars
  <2> QED BY <2>2, <2>3, OwnedFrame
<1> QED BY <1>5, <1>6, <1>7, <1>8, <1>9, <1>10, <1>11, <1>12, <1>13, <1>14 DEF Next

(* The invariant the windows rest on holds throughout. *)
THEOREM Owned == Spec => []OwnedInv
<1>1. Init => OwnedInv
  <2> SUFFICES ASSUME Init PROVE OwnedInv
    OBVIOUS
  <2>1. TypeInv
    BY InitType
  <2>2. ArmingsDistinct /\ WindowsOwned
    BY DEF Init, ArmingsDistinct, WindowsOwned, IdleWorker, NoArming
  <2> QED BY <2>1, <2>2 DEF OwnedInv
<1>2. OwnedInv /\ [Next]_vars => OwnedInv'
  BY OwnedStep
<1> QED BY <1>1, <1>2, PTL DEF Spec

(* No window leaks and none is closed under its owner: the open windows    *)
(* are those of the arming in the mailbox and of the reconcile running,    *)
(* whichever of onResync, a failure, an abandon or an end closed one.      *)
THEOREM WindowsAreOwned == Spec => []WindowsOwned
<1>1. OwnedInv => WindowsOwned
  BY DEF OwnedInv
<1> QED BY <1>1, Owned, PTL

-----------------------------------------------------------------------------
(* The order facts reach the cache in: neither a reconcile's snapshot nor  *)
(* a re-read undoes what is newer.                                         *)

(* Everything that travels was read from the store: none of it is ahead of *)
(* the row of its key.                                                     *)
RowsBehind ==
  /\ \A k \in Keys : /\ db[k].at <= commits
                     /\ basis[k] <= db[k].at
                     /\ removedAt[k] <= db[k].at
                     /\ worker.snap[k].at <= db[k].at
  /\ \A i \in 1 .. Len(wire) : wire[i].at <= db[wire[i].key].at
  /\ \A w \in Writers : writers[w].pc # "idle" => writers[w].row.at <= db[writers[w].key].at
  /\ \A r \in Readers : readers[r].row.at <= db[Key(r)].at

(* An arming outside its empty value names a window of its own. *)
ArmingsNamed ==
  /\ resyncPending # NoArming => resyncPending.reconcile # 0
  /\ Holding => worker.arm.reconcile # 0
  /\ worker.todo # {} => worker.pc = "applying"

(* While the snapshot's turn for a key is to come, the cache holds nothing *)
(* newer for it, unless the window says that the key was touched.          *)
SnapshotCurrent ==
  \A k \in worker.todo : ~Touched(k) => basis[k] <= worker.snap[k].at

(* A re-read whose delete counter still stands has seen every removal      *)
(* reported so far.                                                        *)
FencesSound ==
  \A r \in Readers :
    /\ readers[r].pc \in {"reading", "got", "grading"} =>
         readers[r].fence.deletes <= fences[Key(r)].deletes
    /\ readers[r].pc \in {"got", "grading"}
         /\ readers[r].fence.deletes = fences[Key(r)].deletes =>
           removedAt[Key(r)] <= readers[r].row.at

OrderInv == OwnedInv /\ RowsBehind /\ ArmingsNamed /\ SnapshotCurrent /\ FencesSound

-----------------------------------------------------------------------------
(* What the helpers do. *)

(* The numbers compared below are natural numbers. *)
LEMMA Numbers ==
  ASSUME TypeOK
  PROVE  /\ commits \in Nat
         /\ \A k \in Keys : /\ db[k].at \in Nat /\ basis[k] \in Nat /\ removedAt[k] \in Nat
                            /\ worker.snap[k].at \in Nat /\ fences[k].deletes \in Nat
         /\ \A w \in Writers : writers[w].row.at \in Nat
         /\ \A r \in Readers : /\ Key(r) \in Keys
                               /\ readers[r].row.at \in Nat
                               /\ readers[r].fence.deletes \in Nat
<1>1. commits \in Nat /\ \A k \in Keys : basis[k] \in Nat /\ removedAt[k] \in Nat
  BY DEF TypeOK
<1>2. \A k \in Keys : db[k].at \in Nat
  BY DEF TypeOK, Row
<1>3. \A k \in Keys : fences[k].deletes \in Nat
  BY DEF TypeOK, KeyFence
<1>4. worker \in Worker
  BY DEF TypeOK
<1>5. \A k \in Keys : worker.snap[k].at \in Nat
  BY <1>4 DEF Worker, Row
<1>6. \A w \in Writers : writers[w] \in Writer
  BY DEF TypeOK
<1>7. \A w \in Writers : writers[w].row.at \in Nat
  BY <1>6 DEF Writer, Row
<1>8. \A r \in Readers : readers[r] \in Reader /\ Key(r) \in Keys
  BY DEF TypeOK, Readers, Key
<1>9. \A r \in Readers : readers[r].row.at \in Nat /\ readers[r].fence.deletes \in Nat
  BY <1>8 DEF Reader, Row, KeyFence
<1> QED BY <1>1, <1>2, <1>3, <1>5, <1>7, <1>8, <1>9

(* A commit moves the row of its key forward, and the event with it. *)
LEMMA StoreAdvances ==
  ASSUME TypeOK, RowsBehind, NEW k \in Keys,
         (\E v \in Values : SetRow(k, v)) \/ RemoveRow(k)
  PROVE  /\ \A j \in Keys : db[j].at <= db'[j].at /\ db'[j].at <= commits'
         /\ \A i \in 1 .. Len(wire') : wire'[i].at <= db'[wire'[i].key].at
<1>1. /\ db \in [Keys -> Row] /\ wire \in Seq(FeedEvent) /\ commits \in Nat
      /\ \A j \in Keys : db[j].at \in Nat /\ db[j].at <= commits
      /\ \A i \in 1 .. Len(wire) : wire[i].at <= db[wire[i].key].at
  BY Numbers DEF TypeOK, RowsBehind
<1>2. /\ \A j \in Keys : db[j].at <= db'[j].at /\ db'[j].at <= commits' /\ db'[j].at \in Nat
      /\ \/ wire' = wire
         \/ \E op \in {"upsert", "delete"} : wire' = Append(wire, Event(op, k, db'[k].at))
  <2>1. CASE \E v \in Values : SetRow(k, v)
    BY <1>1, <2>1 DEF SetRow, Carried
  <2>2. CASE RemoveRow(k)
    BY <1>1, <2>2 DEF RemoveRow, Carried
  <2> QED BY <2>1, <2>2
<1>3. ASSUME NEW i \in 1 .. Len(wire)
      PROVE  wire[i].key \in Keys /\ wire[i].at \in Nat
  <2>1. wire[i] \in FeedEvent
    BY <1>1
  <2> QED BY <2>1 DEF FeedEvent
<1>4. \A i \in 1 .. Len(wire) : wire[i].at <= db'[wire[i].key].at
  BY <1>1, <1>2, <1>3, SMTT(20)
<1>5. ASSUME NEW op \in {"upsert", "delete"}, wire' = Append(wire, Event(op, k, db'[k].at)),
             NEW i \in 1 .. Len(wire')
      PROVE  wire'[i].at <= db'[wire'[i].key].at
  <2>1. CASE i \in 1 .. Len(wire)
    <3>1. wire'[i] = wire[i]
      BY <1>1, <1>5, <2>1
    <3> QED BY <1>4, <2>1, <3>1
  <2>2. CASE i \notin 1 .. Len(wire)
    <3>1. wire'[i] = Event(op, k, db'[k].at)
      BY <1>1, <1>5, <2>2
    <3> QED BY <1>2, <3>1 DEF Event
  <2> QED BY <2>1, <2>2
<1> QED BY <1>2, <1>4, <1>5

(* A publication gives its own key the commit it was read from or leaves   *)
(* it alone, and never moves a delete counter back.                        *)
LEMMA PublishEffect ==
  ASSUME TypeOK, NEW k \in Keys, NEW rev \in Nat, NEW val, NEW deleted \in BOOLEAN,
         NEW at \in Nat, NEW marked, Publish(k, rev, val, deleted, at, marked)
  PROVE  /\ \A j \in Keys : basis'[j] = basis[j] \/ (j = k /\ basis'[j] = at)
         /\ \A j \in Keys : fences'[j].deletes >= fences[j].deletes
         /\ \A j \in Keys : j # k => fences'[j] = fences[j]
         /\ rev = 0 /\ deleted => fences'[k].deletes > fences[k].deletes
<1>1. /\ fences \in [Keys -> KeyFence] /\ basis \in [Keys -> Nat]
      /\ \A j \in Keys : fences[j].deletes \in Nat
  BY Numbers DEF TypeOK
<1>2. CASE Accepts(k, rev, val)
  <2>1. /\ fences' = [fences EXCEPT
              ![k] = [deletes |-> @.deletes + (IF deleted THEN 1 ELSE 0),
                      publications |-> @.publications + 1]]
        /\ basis' = [basis EXCEPT ![k] = at]
    BY <1>2 DEF Publish
  <2>2. fences'[k].deletes = fences[k].deletes + (IF deleted THEN 1 ELSE 0)
    BY <1>1, <2>1
  <2> QED BY <1>1, <2>1, <2>2
<1>3. CASE ~Accepts(k, rev, val)
  <2>1. fences' = fences /\ basis' = basis /\ rev # 0
    BY <1>3 DEF Publish, Accepts
  <2> QED BY <1>1, <2>1
<1> QED BY <1>2, <1>3

(* Recording an outcome only ever adds to what was touched. *)
LEMMA RecordEffect ==
  ASSUME OrderInv, NEW k \in Keys, NEW usable \in BOOLEAN, Record(k, usable),
         UNCHANGED worker
  PROVE  \A j \in worker.todo : /\ Touched(j) => Touched(j)'
                                /\ usable /\ j = k => Touched(j)'
<1> SUFFICES ASSUME NEW j \in worker.todo
             PROVE  (Touched(j) => Touched(j)') /\ (usable /\ j = k => Touched(j)')
  OBVIOUS
<1> DEFINE g == worker.arm.reconcile
<1>1. g \in DOMAIN windows
  BY DEF OrderInv, OwnedInv, WindowsOwned, ArmingsNamed, Holding
<1>2. windows'[g] = IF usable
                    THEN [touched |-> windows[g].touched \cup {k},
                          unusable |-> windows[g].unusable \ {k}]
                    ELSE [windows[g] EXCEPT !.unusable = @ \cup {k}]
  BY <1>1 DEF Record
<1>3. windows[g] \in Window
  BY <1>1 DEF OrderInv, OwnedInv, TypeInv, TypeOK
<1>4. windows'[g].touched = IF usable THEN windows[g].touched \cup {k} ELSE windows[g].touched
  BY <1>2, <1>3 DEF Window
<1> QED BY <1>4 DEF Touched

-----------------------------------------------------------------------------
(* What a step leaves alone. *)

(* A step that moves no arming keeps their names. *)
LEMMA NamedFrame ==
  ASSUME ArmingsNamed, UNCHANGED <<resyncPending, worker>> PROVE ArmingsNamed'
BY DEF ArmingsNamed, Holding

(* A step that touches neither the cache, the windows nor the worker. *)
LEMMA SnapshotFrame ==
  ASSUME SnapshotCurrent, UNCHANGED <<windows, worker, basis>> PROVE SnapshotCurrent'
BY DEF SnapshotCurrent, Touched

(* A step that moves no fence, no removal and no re-read. *)
LEMMA FencesFrame ==
  ASSUME FencesSound, UNCHANGED <<readers, fences, removedAt>> PROVE FencesSound'
BY DEF FencesSound

(* The rows in flight stay behind a store that only moves forward. *)
LEMMA RowsFrame ==
  ASSUME TypeOK, TypeOK', RowsBehind, NEW k \in Keys,
         (\E v \in Values : SetRow(k, v)) \/ RemoveRow(k),
         UNCHANGED <<basis, removedAt, worker, readers>>,
         \A w \in Writers : \/ writers'[w] = writers[w]
                            \/ writers'[w].row = db'[k] /\ writers'[w].key = k,
         \A w \in Writers : writers[w].pc # "idle" => writers[w].key \in Keys
  PROVE  RowsBehind'
<1>1. /\ \A j \in Keys : db[j].at <= db'[j].at /\ db'[j].at <= commits'
      /\ \A i \in 1 .. Len(wire') : wire'[i].at <= db'[wire'[i].key].at
  BY StoreAdvances
<1>2. \A j \in Keys : /\ db[j].at \in Nat /\ db'[j].at \in Nat
                      /\ basis[j] \in Nat /\ removedAt[j] \in Nat
                      /\ worker.snap[j].at \in Nat
  <2>1. \A j \in Keys : db'[j].at \in Nat
    BY DEF TypeOK, Row
  <2> QED BY <2>1, Numbers
<1>3. \A j \in Keys : /\ basis'[j] <= db'[j].at /\ removedAt'[j] <= db'[j].at
                      /\ worker'.snap[j].at <= db'[j].at
  BY <1>1, <1>2 DEF RowsBehind
<1>4. \A r \in Readers : readers'[r].row.at <= db'[Key(r)].at
  BY <1>1, <1>2, Numbers DEF RowsBehind
<1>5. ASSUME NEW w \in Writers, writers'[w].pc # "idle"
      PROVE  writers'[w].row.at <= db'[writers'[w].key].at
  <2>1. CASE writers'[w] = writers[w]
    BY <1>1, <1>2, <1>5, <2>1, Numbers DEF RowsBehind
  <2>2. CASE writers'[w].row = db'[k] /\ writers'[w].key = k
    BY <1>2, <2>2
  <2> QED BY <2>1, <2>2
<1> QED BY <1>1, <1>3, <1>4, <1>5 DEF RowsBehind

-----------------------------------------------------------------------------
(* The actions. *)

(* Commits, by another process or a local writer. *)
LEMMA CommitOrder ==
  ASSUME OrderInv, TypeOK',
         RemoteWrite \/ \E w \in Writers : ClientSet(w) \/ ClientDelete(w)
  PROVE  RowsBehind' /\ ArmingsNamed' /\ SnapshotCurrent' /\ FencesSound'
<1>1. TypeOK /\ WritersHold /\ RowsBehind
  BY DEF OrderInv, OwnedInv, TypeInv
<1>2. UNCHANGED <<basis, removedAt, worker, readers, resyncPending, windows, fences>>
  BY DEF RemoteWrite, ClientSet, ClientDelete, armVars, cacheVars, historyVars
<1>3. writers \in [Writers -> Writer]
  BY <1>1 DEF TypeOK
<1>4. PICK k \in Keys :
        /\ (\E v \in Values : SetRow(k, v)) \/ RemoveRow(k)
        /\ \A w \in Writers : \/ writers'[w] = writers[w]
                              \/ writers'[w].row = db'[k] /\ writers'[w].key = k
  <2>1. CASE RemoteWrite
    BY <2>1 DEF RemoteWrite
  <2>2. ASSUME NEW w \in Writers, ClientSet(w)
        PROVE  \E k \in Keys :
                 /\ (\E v \in Values : SetRow(k, v)) \/ RemoveRow(k)
                 /\ \A u \in Writers : \/ writers'[u] = writers[u]
                                       \/ writers'[u].row = db'[k] /\ writers'[u].key = k
    BY <1>3, <2>2 DEF ClientSet
  <2>3. ASSUME NEW w \in Writers, ClientDelete(w)
        PROVE  \E k \in Keys :
                 /\ (\E v \in Values : SetRow(k, v)) \/ RemoveRow(k)
                 /\ \A u \in Writers : \/ writers'[u] = writers[u]
                                       \/ writers'[u].row = db'[k] /\ writers'[u].key = k
    BY <1>3, <2>3 DEF ClientDelete
  <2> QED BY <2>1, <2>2, <2>3
<1>5. \A w \in Writers : writers[w].pc # "idle" => writers[w].key \in Keys
  BY <1>1 DEF WritersHold
<1>6. RowsBehind'
  BY <1>1, <1>2, <1>4, <1>5, RowsFrame
<1> QED BY <1>2, <1>6, NamedFrame, SnapshotFrame, FencesFrame DEF OrderInv

(* A local write being published: its key is touched in every window, and  *)
(* a removal moves the key's delete counter.                               *)
LEMMA PublishOrder ==
  ASSUME OrderInv, TypeOK', NEW w \in Writers,
         PublishBegin(w) \/ PublishEnd(w) \/ PublishDelete(w)
  PROVE  RowsBehind' /\ ArmingsNamed' /\ SnapshotCurrent' /\ FencesSound'
<1> DEFINE k == writers[w].key
           row == writers[w].row
<1>1. TypeOK /\ WritersHold /\ RowsBehind /\ worker \in Worker /\ writers \in [Writers -> Writer]
  BY DEF OrderInv, OwnedInv, TypeInv, TypeOK
<1>2. k \in Keys /\ row.at <= db[k].at
  BY <1>1 DEF PublishBegin, PublishEnd, PublishDelete, WritersHold, RowsBehind
<1>3. row.at \in Nat /\ row.rev \in Nat
  <2>1. row \in Row
    BY <1>1 DEF Writer
  <2> QED BY <2>1 DEF Row
<1>4. UNCHANGED <<db, commits, wire, worker, readers, resyncPending>>
  BY DEF PublishBegin, PublishEnd, PublishDelete, storeVars, armVars
<1>5. ArmingsNamed'
  BY <1>4, NamedFrame DEF OrderInv
<1>6. \A u \in Writers : writers'[u] = writers[u] \/ writers'[u].pc = "idle"
                         \/ (writers'[u].row = writers[u].row /\ writers'[u].key = writers[u].key
                             /\ writers[u].pc # "idle")
  <2>1. CASE PublishBegin(w)
    <3>1. writers' = [writers EXCEPT ![w].pc = "grading"] /\ writers[w].pc = "written"
      BY <2>1 DEF PublishBegin
    <3> QED BY <1>1, <3>1 DEF Writer
  <2>2. CASE PublishEnd(w) \/ PublishDelete(w)
    <3>1. writers' = [writers EXCEPT ![w] = IdleWriter]
      BY <2>2 DEF PublishEnd, PublishDelete
    <3> QED BY <1>1, <3>1 DEF IdleWriter
  <2> QED BY <2>1, <2>2
<1> HIDE DEF k, row
<1>7. CASE PublishBegin(w)
  <2>1. UNCHANGED <<basis, removedAt, fences>> /\ Record(k, FALSE)
    BY <1>7 DEF PublishBegin, cacheVars, historyVars, k
  <2>2. RowsBehind'
    BY <1>1, <1>4, <1>6, <2>1 DEF RowsBehind
  <2>3. SnapshotCurrent'
    BY <1>2, <1>4, <2>1, RecordEffect DEF OrderInv, SnapshotCurrent
  <2> QED BY <1>4, <1>5, <2>1, <2>2, <2>3, FencesFrame DEF OrderInv
<1>8. CASE PublishEnd(w) \/ PublishDelete(w)
  <2>1. Record(k, TRUE)
    BY <1>8 DEF PublishEnd, PublishDelete, k
  <2>2. /\ \A j \in Keys : basis'[j] = basis[j] \/ (j = k /\ basis'[j] = row.at)
        /\ \A j \in Keys : fences'[j].deletes >= fences[j].deletes
        /\ \A j \in Keys : j # k => fences'[j] = fences[j]
        /\ PublishDelete(w) => fences'[k].deletes > fences[k].deletes
    <3>1. CASE PublishEnd(w)
      <4>1. Publish(k, row.rev, row.val, FALSE, row.at, {})
        BY <3>1 DEF PublishEnd, k, row
      <4>2. ~PublishDelete(w)
        BY <3>1 DEF PublishEnd, PublishDelete
      <4> QED BY <1>1, <1>2, <1>3, <4>1, <4>2, PublishEffect, ZenonT(40)
    <3>2. CASE PublishDelete(w)
      <4>1. Publish(k, 0, Default, TRUE, row.at, {})
        BY <3>2 DEF PublishDelete, IngestDefault, k, row
      <4> QED BY <1>1, <1>2, <1>3, <4>1, PublishEffect, ZenonT(40)
    <3> QED BY <1>8, <3>1, <3>2
  <2>3. /\ \A j \in Keys : removedAt'[j] = removedAt[j] \/ (j = k /\ removedAt'[j] = row.at)
        /\ ~PublishDelete(w) => removedAt' = removedAt
    <3>1. CASE PublishEnd(w)
      BY <3>1 DEF PublishEnd, PublishDelete
    <3>2. CASE PublishDelete(w)
      <4>1. removedAt' = [removedAt EXCEPT ![k] = IF row.at > @ THEN row.at ELSE @]
        BY <3>2 DEF PublishDelete, k, row
      <4>2. removedAt \in [Keys -> Nat]
        BY <1>1 DEF TypeOK
      <4> QED BY <3>2, <4>1, <4>2
    <3> QED BY <1>8, <3>1, <3>2
  <2>4. RowsBehind'
    BY <1>1, <1>2, <1>4, <1>6, <2>2, <2>3 DEF RowsBehind
  <2>5. SnapshotCurrent'
    <3>1. worker.todo \subseteq Keys
      BY <1>1 DEF Worker
    <3> QED BY <1>2, <1>4, <2>1, <2>2, <3>1, RecordEffect DEF OrderInv, SnapshotCurrent
  <2>6. FencesSound'
    <3> SUFFICES ASSUME NEW r \in Readers
                 PROVE  /\ readers[r].pc \in {"reading", "got", "grading"} =>
                             readers[r].fence.deletes <= fences'[Key(r)].deletes
                        /\ readers[r].pc \in {"got", "grading"}
                             /\ readers[r].fence.deletes = fences'[Key(r)].deletes =>
                               removedAt'[Key(r)] <= readers[r].row.at
      BY <1>4 DEF FencesSound
    <3>1. /\ Key(r) \in Keys /\ readers[r].fence.deletes \in Nat
          /\ fences[Key(r)].deletes \in Nat
      BY <1>1, Numbers
    <3>2. fences'[Key(r)].deletes \in Nat
      BY <3>1 DEF TypeOK, KeyFence
    <3>3. readers[r].pc \in {"reading", "got", "grading"} =>
            readers[r].fence.deletes <= fences[Key(r)].deletes
      BY DEF OrderInv, FencesSound
    <3>4. removedAt'[Key(r)] = removedAt[Key(r)] \/ fences'[Key(r)].deletes > fences[Key(r)].deletes
      BY <1>8, <2>2, <2>3, <3>1
    <3> QED BY <2>2, <3>1, <3>2, <3>3, <3>4 DEF OrderInv, FencesSound
  <2> QED BY <1>5, <2>4, <2>5, <2>6
<1> QED BY <1>7, <1>8

(* The connection: a loss drops events, and an OpResync opens a window     *)
(* beside the one the running reconcile reads.                             *)
LEMMA LinkOrder ==
  ASSUME OrderInv, LoseConnection \/ OnDisconnect \/ Reconnect \/ OnResync
  PROVE  RowsBehind' /\ ArmingsNamed' /\ SnapshotCurrent' /\ FencesSound'
<1>1. TypeOK /\ RowsBehind
  BY DEF OrderInv, OwnedInv, TypeInv
<1>2. UNCHANGED <<db, commits, basis, removedAt, worker, writers, readers, fences>>
  BY DEF LoseConnection, OnDisconnect, Reconnect, OnResync, storeVars, cacheVars, historyVars
<1>3. wire' = wire \/ wire' = << >>
  BY DEF LoseConnection, OnDisconnect, Reconnect, OnResync, storeVars
<1>4. RowsBehind'
  <2>1. \A i \in 1 .. Len(wire') : wire'[i].at <= db'[wire'[i].key].at
    BY <1>1, <1>2, <1>3 DEF RowsBehind
  <2> QED BY <1>1, <1>2, <2>1 DEF RowsBehind
<1>5. FencesSound'
  BY <1>2, FencesFrame DEF OrderInv
<1>6. CASE LoseConnection \/ OnDisconnect \/ Reconnect
  <2>1. UNCHANGED <<windows, resyncPending>>
    BY <1>6 DEF LoseConnection, OnDisconnect, Reconnect, armVars
  <2> QED BY <1>2, <1>4, <1>5, <2>1, NamedFrame, SnapshotFrame DEF OrderInv
<1>7. CASE OnResync
  <2> DEFINE gen == reconcileGen + 1
             g == worker.arm.reconcile
  <2>1. /\ resyncPending' = [reconcile |-> gen, disconnect |-> disconnectGen]
        /\ windows' = [h \in DOMAIN CloseWindow(windows, resyncPending.reconcile) \cup {gen} |->
                         IF h = gen THEN [touched |-> {}, unusable |-> {}]
                         ELSE CloseWindow(windows, resyncPending.reconcile)[h]]
    BY <1>7 DEF OnResync, ArmReconcile
  <2>2. reconcileGen \in Nat /\ resyncPending \in Arming /\ worker \in Worker
    BY <1>1 DEF TypeOK
  <2>3. ArmingsNamed'
    BY <1>2, <2>1, <2>2 DEF OrderInv, ArmingsNamed, Holding
  <2>4. ASSUME NEW k \in worker.todo
        PROVE  windows'[g] = windows[g]
    <3>1. g # 0 /\ g \in DOMAIN windows /\ g # resyncPending.reconcile /\ g # gen
      <4>1. g # 0
        BY DEF OrderInv, ArmingsNamed, Holding
      <4>2. g <= reconcileGen /\ g # resyncPending.reconcile /\ g \in DOMAIN windows
        BY <4>1 DEF OrderInv, OwnedInv, ArmingsDistinct, WindowsOwned
      <4>3. g \in Nat
        BY <2>2 DEF Worker, Arming
      <4> QED BY <2>2, <4>1, <4>2, <4>3
    <3> QED BY <2>1, <3>1 DEF CloseWindow
  <2>5. SnapshotCurrent'
    BY <1>2, <2>4 DEF OrderInv, SnapshotCurrent, Touched
  <2> QED BY <1>4, <1>5, <2>3, <2>5
<1> QED BY <1>6, <1>7

(* An event: a delete is fenced before its re-read is even scheduled. *)
LEMMA EventOrder ==
  ASSUME OrderInv, TypeOK', OnEvent
  PROVE  RowsBehind' /\ ArmingsNamed' /\ SnapshotCurrent' /\ FencesSound'
<1> DEFINE ev == Head(wire)
<1>1. TypeOK /\ RowsBehind /\ wire \in Seq(FeedEvent) /\ wire # << >>
  BY DEF OrderInv, OwnedInv, TypeInv, TypeOK, OnEvent
<1>2. ev \in FeedEvent /\ ev = wire[1] /\ 1 \in 1 .. Len(wire)
  BY <1>1
<1>3. ev.key \in Keys /\ ev.at \in Nat /\ ev.at <= db[ev.key].at
  BY <1>1, <1>2 DEF FeedEvent, RowsBehind
<1>4. UNCHANGED <<db, commits, basis, worker, writers, resyncPending>>
  BY DEF OnEvent, armVars
<1>5. \A i \in 1 .. Len(wire') : wire'[i].at <= db'[wire'[i].key].at
  <2>1. wire' = Tail(wire)
    BY DEF OnEvent
  <2>2. \A i \in 1 .. Len(wire') : i + 1 \in 1 .. Len(wire) /\ wire'[i] = wire[i + 1]
    BY <1>1, <2>1
  <2> QED BY <1>1, <1>4, <2>2 DEF RowsBehind
<1>6. /\ readers \in [Readers -> Reader]
      /\ \A r \in Readers : \/ readers'[r] = readers[r]
                            \/ readers'[r].pc = "start" /\ readers'[r].row.at = 0
  <2>1. readers \in [Readers -> Reader]
    BY <1>1 DEF TypeOK
  <2>2. SubmitRefresh(ev.key, ev.op)
    BY DEF OnEvent
  <2>3. CASE UNCHANGED readers
    BY <2>1, <2>3
  <2>4. CASE readers' = [readers EXCEPT ![<<ev.key, "refresh">>] =
                          [IdleReader EXCEPT !.pc = "start", !.deleted = (ev.op = "delete")]]
    <3> DEFINE new == [IdleReader EXCEPT !.pc = "start", !.deleted = (ev.op = "delete")]
    <3>1. new.pc = "start" /\ new.row.at = 0
      BY DEF IdleReader, NoRow
    <3> HIDE DEF new
    <3>2. \A r \in Readers : readers'[r] = readers[r] \/ readers'[r] = new
      BY <2>1, <2>4 DEF new
    <3> QED BY <2>1, <3>1, <3>2
  <2> QED BY <2>2, <2>3, <2>4 DEF SubmitRefresh
<1> HIDE DEF ev
<1>7. /\ \A k \in Keys : removedAt'[k] = removedAt[k] \/ (k = ev.key /\ removedAt'[k] = ev.at)
      /\ \A k \in Keys : \/ fences'[k] = fences[k] /\ removedAt'[k] = removedAt[k]
                         \/ fences'[k].deletes > fences[k].deletes
      /\ UNCHANGED windows \/ Record(ev.key, TRUE)
  <2>1. /\ removedAt \in [Keys -> Nat] /\ fences \in [Keys -> KeyFence]
        /\ \A k \in Keys : fences[k].deletes \in Nat
    BY <1>1, Numbers DEF TypeOK
  <2>2. CASE ev.op = "delete"
    <3>1. /\ removedAt' = [removedAt EXCEPT ![ev.key] = IF ev.at > @ THEN ev.at ELSE @]
          /\ fences' = [fences EXCEPT ![ev.key].deletes = @ + 1]
          /\ Record(ev.key, TRUE)
      BY <2>2 DEF OnEvent, RecordFeedDelete, ev
    <3>2. fences'[ev.key].deletes = fences[ev.key].deletes + 1
      BY <1>3, <2>1, <3>1 DEF KeyFence
    <3>3. \A k \in Keys : removedAt'[k] = removedAt[k] \/ (k = ev.key /\ removedAt'[k] = ev.at)
      BY <1>3, <2>1, <3>1
    <3>4. \A k \in Keys : k # ev.key => fences'[k] = fences[k] /\ removedAt'[k] = removedAt[k]
      BY <2>1, <3>1
    <3>5. fences'[ev.key].deletes > fences[ev.key].deletes
      BY <1>3, <2>1, <3>2
    <3> QED BY <3>1, <3>3, <3>4, <3>5
  <2>3. CASE ev.op # "delete"
    BY <2>3 DEF OnEvent, ev
  <2> QED BY <2>2, <2>3
<1>8. RowsBehind'
  <2>1. \A r \in Readers : readers'[r].row.at <= db'[Key(r)].at
    BY <1>1, <1>4, <1>6, Numbers DEF RowsBehind
  <2> QED BY <1>1, <1>3, <1>4, <1>5, <1>7, <2>1 DEF RowsBehind
<1>9. SnapshotCurrent'
  <2>1. CASE UNCHANGED windows
    BY <1>4, <2>1, SnapshotFrame DEF OrderInv
  <2>2. CASE Record(ev.key, TRUE)
    BY <1>3, <1>4, <2>2, RecordEffect DEF OrderInv, SnapshotCurrent
  <2> QED BY <1>7, <2>1, <2>2
<1>10. FencesSound'
  <2> SUFFICES ASSUME NEW r \in Readers
               PROVE  /\ readers'[r].pc \in {"reading", "got", "grading"} =>
                           readers'[r].fence.deletes <= fences'[Key(r)].deletes
                      /\ readers'[r].pc \in {"got", "grading"}
                           /\ readers'[r].fence.deletes = fences'[Key(r)].deletes =>
                             removedAt'[Key(r)] <= readers'[r].row.at
    BY DEF FencesSound
  <2>1. CASE readers'[r].pc = "start"
    BY <2>1
  <2>2. CASE readers'[r] = readers[r]
    <3>1. /\ Key(r) \in Keys /\ readers[r].fence.deletes \in Nat
          /\ fences[Key(r)].deletes \in Nat
      BY <1>1, Numbers
    <3>2. fences'[Key(r)].deletes \in Nat
      BY <3>1 DEF TypeOK, KeyFence
    <3> QED BY <1>7, <2>2, <3>1, <3>2 DEF OrderInv, FencesSound
  <2> QED BY <1>6, <2>1, <2>2
<1>11. ArmingsNamed'
  BY <1>4, NamedFrame DEF OrderInv
<1> QED BY <1>8, <1>9, <1>10, <1>11

(* A reader that has just begun or ended carries no row. *)
Blank(reader) == reader.pc \in {"idle", "start", "repair"} /\ reader.row.at = 0

(* The end of a re-read leaves it blank and the others as they were given. *)
LEMMA EndReadEffect ==
  ASSUME NEW r \in Readers, NEW rs \in [Readers -> Reader], EndRead(r, rs)
  PROVE  \A q \in Readers : readers'[q] = rs[q] \/ Blank(readers'[q])
<1> DEFINE trailing == [IdleReader EXCEPT !.pc = "start", !.deleted = (again[Key(r)] = "delete")]
<1>1. Blank(trailing) /\ Blank(IdleReader)
  BY DEF Blank, IdleReader, NoRow
<1> HIDE DEF trailing
<1>2. readers' = [rs EXCEPT ![r] = trailing] \/ readers' = [rs EXCEPT ![r] = IdleReader]
  BY DEF EndRead, trailing
<1> QED BY <1>1, <1>2

(* Readers that keep their row or are blank stay behind and fenced, while  *)
(* no delete counter or removal moves.                                     *)
LEMMA ReadersFrame ==
  ASSUME OrderInv, TypeOK',
         UNCHANGED <<db, commits, wire, worker, writers, resyncPending, removedAt>>,
         \A k \in Keys : basis'[k] <= db[k].at,
         \A k \in Keys : fences'[k].deletes >= fences[k].deletes,
         \A q \in Readers : \/ Blank(readers'[q])
                            \/ /\ readers'[q].row = readers[q].row
                               /\ readers'[q].fence = readers[q].fence
                               /\ readers'[q].pc = readers[q].pc
                                  \/ (readers[q].pc = "got" /\ readers'[q].pc = "grading")
                                  \/ readers'[q].pc = "repair"
                            \/ readers'[q].pc = "repair" /\ readers'[q].row = readers[q].row
  PROVE  RowsBehind' /\ ArmingsNamed' /\ FencesSound'
<1>1. TypeOK /\ RowsBehind /\ ArmingsNamed /\ FencesSound
  BY DEF OrderInv, OwnedInv, TypeInv
<1>2. RowsBehind'
  <2>1. ASSUME NEW q \in Readers
        PROVE  readers'[q].row.at <= db'[Key(q)].at
    <3>1. CASE Blank(readers'[q])
      BY <1>1, <3>1, Numbers DEF Blank
    <3>2. CASE readers'[q].row = readers[q].row
      BY <1>1, <3>2 DEF RowsBehind
    <3> QED BY <3>1, <3>2
  <2> QED BY <1>1, <2>1 DEF RowsBehind
<1>3. FencesSound'
  <2> SUFFICES ASSUME NEW q \in Readers
               PROVE  /\ readers'[q].pc \in {"reading", "got", "grading"} =>
                           readers'[q].fence.deletes <= fences'[Key(q)].deletes
                      /\ readers'[q].pc \in {"got", "grading"}
                           /\ readers'[q].fence.deletes = fences'[Key(q)].deletes =>
                             removedAt'[Key(q)] <= readers'[q].row.at
    BY DEF FencesSound
  <2>1. CASE readers'[q].pc \in {"idle", "start", "repair"}
    BY <2>1
  <2>2. CASE readers'[q].pc \notin {"idle", "start", "repair"}
    <3>1. /\ readers'[q].row = readers[q].row /\ readers'[q].fence = readers[q].fence
          /\ \/ readers'[q].pc = readers[q].pc
             \/ (readers[q].pc = "got" /\ readers'[q].pc = "grading")
      BY <2>2 DEF Blank
    <3>2. /\ Key(q) \in Keys /\ readers[q].fence.deletes \in Nat
          /\ fences[Key(q)].deletes \in Nat
      BY <1>1, Numbers
    <3>3. fences'[Key(q)].deletes \in Nat /\ fences'[Key(q)].deletes >= fences[Key(q)].deletes
      BY <3>2 DEF TypeOK, KeyFence
    <3> QED BY <1>1, <3>1, <3>2, <3>3 DEF FencesSound
  <2> QED BY <2>1, <2>2
<1> QED BY <1>1, <1>2, <1>3, NamedFrame

(* A timer firing or a read arming, failing or ending with nothing to      *)
(* publish.                                                                *)
LEMMA QuietReadOrder ==
  ASSUME OrderInv, TypeOK', NEW r \in Readers,
         \/ \E k \in Keys, op \in {"upsert", "delete"} : TrackedRefresh(k, op)
         \/ GetFails(r) \/ NoRowForUpsert(r) \/ IngestBegin(r) \/ RetryRefresh(r)
  PROVE  RowsBehind' /\ ArmingsNamed' /\ SnapshotCurrent' /\ FencesSound'
<1>1. TypeOK /\ RowsBehind /\ readers \in [Readers -> Reader]
  BY DEF OrderInv, OwnedInv, TypeInv, TypeOK
<1>2. UNCHANGED <<db, commits, wire, worker, writers, resyncPending, removedAt, basis, fences>>
  BY DEF TrackedRefresh, GetFails, NoRowForUpsert, IngestBegin, RetryRefresh, storeVars,
         armVars, cacheVars, historyVars
<1>3. Key(r) \in Keys
  BY <1>1, Numbers
<1>4. SnapshotCurrent'
  <2>1. UNCHANGED windows \/ Record(Key(r), FALSE)
    BY DEF TrackedRefresh, GetFails, NoRowForUpsert, IngestBegin, RetryRefresh
  <2>2. CASE UNCHANGED windows
    BY <1>2, <2>2, SnapshotFrame DEF OrderInv
  <2>3. CASE Record(Key(r), FALSE)
    BY <1>2, <1>3, <2>3, RecordEffect DEF OrderInv, SnapshotCurrent
  <2> QED BY <2>1, <2>2, <2>3
<1>5. \A q \in Readers : \/ Blank(readers'[q])
                         \/ /\ readers'[q].row = readers[q].row
                            /\ readers'[q].fence = readers[q].fence
                            /\ readers'[q].pc = readers[q].pc
                               \/ (readers[q].pc = "got" /\ readers'[q].pc = "grading")
                               \/ readers'[q].pc = "repair"
                         \/ readers'[q].pc = "repair" /\ readers'[q].row = readers[q].row
  <2>1. ASSUME NEW k \in Keys, NEW op \in {"upsert", "delete"}, TrackedRefresh(k, op)
        PROVE  \A q \in Readers : readers'[q] = readers[q] \/ Blank(readers'[q])
    <3> DEFINE new == [IdleReader EXCEPT !.pc = "start", !.deleted = (op = "delete")]
    <3>1. Blank(new)
      BY DEF Blank, IdleReader, NoRow
    <3> HIDE DEF new
    <3>2. readers' = readers \/ readers' = [readers EXCEPT ![<<k, "refresh">>] = new]
      BY <2>1 DEF TrackedRefresh, new
    <3> QED BY <1>1, <3>1, <3>2
  <2>2. CASE GetFails(r)
    <3>1. readers' = [readers EXCEPT ![r] = [@ EXCEPT !.pc = "repair", !.fence = NoFence]]
      BY <2>2 DEF GetFails
    <3> QED BY <1>1, <3>1 DEF Reader
  <2>3. CASE IngestBegin(r)
    <3>1. readers' = [readers EXCEPT ![r].pc = "grading"] /\ readers[r].pc = "got"
      BY <2>3 DEF IngestBegin
    <3> QED BY <1>1, <3>1 DEF Reader
  <2>4. CASE NoRowForUpsert(r)
    BY <1>1, <2>4, EndReadEffect DEF NoRowForUpsert
  <2>5. CASE RetryRefresh(r)
    <3> DEFINE slot == RetryOf(Key(r), readers[r].deleted)
               new == [IdleReader EXCEPT !.pc = "start", !.deleted = readers[r].deleted,
                                         !.origin = readers[r].origin]
               armed == [readers EXCEPT ![slot] = new]
    <3>1. EndRead(r, readers) \/ EndRead(r, armed)
      BY <2>5 DEF RetryRefresh
    <3>2. Blank(new) /\ new \in Reader
      BY <1>1 DEF Blank, IdleReader, NoRow, Reader, NoFence, KeyFence, Row
    <3> HIDE DEF new
    <3>3. armed \in [Readers -> Reader] /\ \A q \in Readers : armed[q] = readers[q] \/ Blank(armed[q])
      BY <1>1, <3>2
    <3> HIDE DEF armed
    <3> QED BY <1>1, <3>1, <3>3, EndReadEffect
  <2> QED BY <2>1, <2>2, <2>3, <2>4, <2>5
<1>6. RowsBehind' /\ ArmingsNamed' /\ FencesSound'
  <2>1. \A k \in Keys : basis'[k] <= db[k].at /\ fences'[k].deletes >= fences[k].deletes
    BY <1>1, <1>2, Numbers DEF RowsBehind
  <2> QED BY <1>2, <1>5, <2>1, ReadersFrame
<1> QED BY <1>4, <1>6

(* The fence is read before the row: a removal reported in between moves   *)
(* the counter, and one reported before is in the row.                     *)
LEMMA ReadOrder ==
  ASSUME OrderInv, NEW r \in Readers, ArmRead(r) \/ GetRow(r)
  PROVE  RowsBehind' /\ ArmingsNamed' /\ SnapshotCurrent' /\ FencesSound'
<1>1. TypeOK /\ RowsBehind /\ FencesSound /\ readers \in [Readers -> Reader]
  BY DEF OrderInv, OwnedInv, TypeInv, TypeOK
<1>2. /\ UNCHANGED <<db, commits, wire, worker, writers, resyncPending, removedAt, basis>>
      /\ UNCHANGED <<fences, windows>>
  BY DEF ArmRead, GetRow, storeVars, armVars, cacheVars, historyVars
<1>3. Key(r) \in Keys
  BY <1>1, Numbers
<1>4. CASE ArmRead(r)
  <2>1. /\ readers'[r].pc = "reading" /\ readers'[r].fence = fences[Key(r)]
        /\ readers'[r].row = readers[r].row
        /\ \A q \in Readers : q # r => readers'[q] = readers[q]
    BY <1>1, <1>4 DEF ArmRead, Reader
  <2>2. RowsBehind'
    BY <1>1, <1>2, <2>1 DEF RowsBehind
  <2>3. FencesSound'
    BY <1>1, <1>2, <1>3, <2>1, Numbers DEF FencesSound
  <2> QED BY <1>2, <2>2, <2>3, NamedFrame, SnapshotFrame DEF OrderInv
<1>5. CASE GetRow(r)
  <2>1. /\ readers[r].pc = "reading" /\ readers'[r].fence = readers[r].fence
        /\ readers'[r].row = db[Key(r)]
        /\ \A q \in Readers : q # r => readers'[q] = readers[q]
    BY <1>1, <1>5 DEF GetRow, Reader
  <2>2. RowsBehind'
    BY <1>1, <1>2, <1>3, <2>1, Numbers DEF RowsBehind
  <2>3. FencesSound'
    BY <1>1, <1>2, <1>3, <2>1 DEF FencesSound, RowsBehind
  <2> QED BY <1>2, <2>2, <2>3, NamedFrame, SnapshotFrame DEF OrderInv
<1> QED BY <1>4, <1>5

(* A re-read puts in force its own row, read no earlier than the removals  *)
(* reported so far, or nothing.                                            *)
LEMMA ReadPublishes ==
  ASSUME OrderInv, NEW r \in Readers, PublishAbsentDelete(r) \/ IngestEnd(r)
  PROVE  /\ \A k \in Keys : \/ basis'[k] = basis[k]
                           \/ /\ k = Key(r) /\ basis'[k] = readers[r].row.at
                              /\ removedAt[k] <= readers[r].row.at
                              /\ Record(k, TRUE)
         /\ \A k \in Keys : fences'[k].deletes >= fences[k].deletes
         /\ UNCHANGED windows \/ Record(Key(r), TRUE) \/ Record(Key(r), FALSE)
<1> DEFINE k == Key(r)
           row == readers[r].row
<1>1. TypeOK /\ RowsBehind /\ FencesSound
  BY DEF OrderInv, OwnedInv, TypeInv
<1>2. k \in Keys /\ row.at \in Nat
  BY <1>1, Numbers
<1>3. row.rev \in Nat
  <2>1. row \in Row
    BY <1>1 DEF TypeOK, Reader
  <2> QED BY <2>1 DEF Row
<1>4. readers[r].pc \in {"got", "grading"}
  BY DEF PublishAbsentDelete, IngestEnd
<1>5. \/ UNCHANGED <<fences, basis>> /\ (UNCHANGED windows \/ Record(k, FALSE))
      \/ /\ readers[r].fence.deletes = fences[k].deletes
         /\ Record(k, TRUE)
         /\ \/ Publish(k, 0, Default, FALSE, row.at, {})
            \/ Publish(k, row.rev, row.val, FALSE, row.at, {})
  <2>1. CASE PublishAbsentDelete(r)
    BY <2>1 DEF PublishAbsentDelete, SupersededByPublication, IngestDefault, cacheVars
  <2>2. CASE IngestEnd(r)
    <3>1. CASE Publishable(k, row, readers[r].fence)
      <4>1. readers[r].fence.deletes = fences[k].deletes
        BY <3>1 DEF Publishable, SupersededByDelete
      <4>2. Record(k, TRUE) /\ Publish(k, row.rev, row.val, FALSE, row.at, {})
        BY <2>2, <3>1 DEF IngestEnd, Publishable, SupersededByDelete, Record
      <4> QED BY <4>1, <4>2
    <3>2. CASE ~Publishable(k, row, readers[r].fence)
      BY <2>2, <3>2 DEF IngestEnd, Publishable, SupersededByDelete, cacheVars, Record
    <3> QED BY <3>1, <3>2
  <2> QED BY <2>1, <2>2
<1>6. readers[r].fence.deletes = fences[k].deletes => removedAt[k] <= row.at
  BY <1>1, <1>4 DEF FencesSound
<1> HIDE DEF k, row
<1>7. CASE UNCHANGED <<fences, basis>> /\ (UNCHANGED windows \/ Record(k, FALSE))
  <2>1. \A j \in Keys : fences'[j].deletes >= fences[j].deletes /\ basis'[j] = basis[j]
    BY <1>1, <1>7, Numbers
  <2> QED BY <1>7, <2>1 DEF k
<1>8. CASE /\ readers[r].fence.deletes = fences[k].deletes
           /\ Record(k, TRUE)
           /\ \/ Publish(k, 0, Default, FALSE, row.at, {})
              \/ Publish(k, row.rev, row.val, FALSE, row.at, {})
  <2>1. /\ \A j \in Keys : basis'[j] = basis[j] \/ (j = k /\ basis'[j] = row.at)
        /\ \A j \in Keys : fences'[j].deletes >= fences[j].deletes
    <3>1. CASE Publish(k, 0, Default, FALSE, row.at, {})
      BY <1>1, <1>2, <3>1, PublishEffect
    <3>2. CASE Publish(k, row.rev, row.val, FALSE, row.at, {})
      BY <1>1, <1>2, <1>3, <3>2, PublishEffect, ZenonT(40)
    <3> QED BY <1>8, <3>1, <3>2
  <2> QED BY <1>6, <1>8, <2>1 DEF k, row
<1> QED BY <1>5, <1>7, <1>8

(* The two re-read steps that publish keep the order. *)
LEMMA ReadPublishOrder ==
  ASSUME OrderInv, TypeOK', NEW r \in Readers, PublishAbsentDelete(r) \/ IngestEnd(r)
  PROVE  RowsBehind' /\ ArmingsNamed' /\ SnapshotCurrent' /\ FencesSound'
<1>1. TypeOK /\ RowsBehind /\ readers \in [Readers -> Reader] /\ worker \in Worker
  BY DEF OrderInv, OwnedInv, TypeInv, TypeOK
<1>2. UNCHANGED <<db, commits, wire, worker, writers, resyncPending, removedAt>>
  BY DEF PublishAbsentDelete, IngestEnd, storeVars, armVars
<1>3. Key(r) \in Keys /\ worker.todo \subseteq Keys
  BY <1>1, Numbers DEF Worker
<1>4. \A q \in Readers : readers'[q] = readers[q] \/ Blank(readers'[q])
  <2>1. EndRead(r, readers)
    BY DEF PublishAbsentDelete, IngestEnd
  <2> QED BY <1>1, <2>1, EndReadEffect
<1>5. \A k \in Keys : basis'[k] <= db[k].at
  BY <1>1, ReadPublishes DEF RowsBehind
<1>6. RowsBehind' /\ ArmingsNamed' /\ FencesSound'
  BY <1>2, <1>4, <1>5, ReadPublishes, ReadersFrame
<1>7. SnapshotCurrent'
  <2> SUFFICES ASSUME NEW k \in worker.todo, ~Touched(k)'
               PROVE  basis'[k] <= worker.snap[k].at
    BY <1>2 DEF SnapshotCurrent
  <2>1. ~Touched(k)
    <3>1. CASE UNCHANGED windows
      BY <1>2, <3>1 DEF Touched
    <3>2. CASE Record(Key(r), TRUE) \/ Record(Key(r), FALSE)
      BY <1>2, <1>3, <3>2, RecordEffect
    <3> QED BY <3>1, <3>2, ReadPublishes
  <2>2. basis'[k] = basis[k]
    <3>1. ASSUME Record(k, TRUE)
          PROVE  FALSE
      BY <1>2, <1>3, <3>1, RecordEffect
    <3> QED BY <1>3, <3>1, ReadPublishes
  <2> QED BY <2>1, <2>2 DEF OrderInv, SnapshotCurrent
<1> QED BY <1>6, <1>7

-----------------------------------------------------------------------------
(* The reconcile worker's turn for a key: the snapshot's row, or the       *)
(* default of a row it lacks, or nothing.                                  *)
LEMMA SnapshotPublishes ==
  ASSUME OrderInv, NEW k \in Keys, ApplySnapshotRow(k) \/ ApplyAbsentKey(k)
  PROVE  /\ \A j \in Keys : \/ basis'[j] = basis[j]
                           \/ /\ j = k /\ basis'[j] = worker.snap[k].at
                              /\ basis[j] <= worker.snap[k].at
         /\ \A j \in Keys : fences'[j].deletes >= fences[j].deletes
<1> DEFINE row == worker.snap[k]
<1>1. TypeOK /\ k \in worker.todo
  BY DEF OrderInv, OwnedInv, TypeInv, ApplySnapshotRow, ApplyAbsentKey
<1>2. row.at \in Nat
  BY <1>1, Numbers
<1>3. row.rev \in Nat
  <2>1. row \in Row
    BY <1>1 DEF TypeOK, Worker
  <2> QED BY <2>1 DEF Row
<1>4. \/ UNCHANGED <<fences, basis>>
      \/ /\ ~Touched(k)
         /\ \/ Publish(k, 0, Default, FALSE, row.at, {})
            \/ Publish(k, row.rev, row.val, FALSE, row.at, Reopened(k))
  <2>1. CASE ApplySnapshotRow(k)
    BY <2>1 DEF ApplySnapshotRow, IngestDefault, cacheVars
  <2>2. CASE ApplyAbsentKey(k)
    BY <2>2 DEF ApplyAbsentKey, IngestDefault, KeepsCachedValue
  <2> QED BY <2>1, <2>2
<1>5. ~Touched(k) => basis[k] <= row.at
  BY <1>1 DEF OrderInv, SnapshotCurrent
<1> HIDE DEF row
<1>6. CASE UNCHANGED <<fences, basis>>
  BY <1>1, <1>6, Numbers
<1>7. CASE Publish(k, 0, Default, FALSE, row.at, {})
  BY <1>1, <1>2, <1>4, <1>5, <1>6, <1>7, PublishEffect, ZenonT(40) DEF row
<1>8. CASE Publish(k, row.rev, row.val, FALSE, row.at, Reopened(k))
  BY <1>1, <1>2, <1>3, <1>4, <1>5, <1>6, <1>8, PublishEffect, ZenonT(40) DEF row
<1> QED BY <1>4, <1>6, <1>7, <1>8

(* The reconcile worker's steps keep the order. *)
LEMMA WorkerOrder ==
  ASSUME OrderInv, TypeOK', WorkerStep
  PROVE  RowsBehind' /\ ArmingsNamed' /\ SnapshotCurrent' /\ FencesSound'
<1>1. /\ TypeOK /\ RowsBehind /\ ArmingsNamed /\ FencesSound
      /\ worker \in Worker /\ resyncPending \in Arming
  BY DEF OrderInv, OwnedInv, TypeInv, TypeOK
<1>2. UNCHANGED <<db, commits, wire, writers, readers, removedAt>>
  BY DEF WorkerStep, WorkerWakes, TakeReconcile, List, ListFails, Abandon, ApplySnapshotRow,
         ApplyAbsentKey, FinishReconcile, storeVars, historyVars
<1>3. CASE WorkerWakes \/ TakeReconcile
  <2>1. UNCHANGED <<basis, fences, windows>>
    BY <1>3 DEF WorkerWakes, TakeReconcile, cacheVars, historyVars
  <2>2. worker.todo = {}
    BY <1>1, <1>3 DEF WorkerWakes, TakeReconcile, ArmingsNamed
  <2>3. /\ worker'.todo = {}
        /\ worker'.snap = worker.snap \/ worker'.snap = [k \in Keys |-> NoRow]
    <3>1. \/ worker' = IdleWorker
          \/ worker' = [worker EXCEPT !.pc = "woken"]
          \/ worker' = [worker EXCEPT !.pc = "taken", !.arm = resyncPending]
      BY <1>3 DEF WorkerWakes, TakeReconcile
    <3>2. CASE worker' = IdleWorker
      BY <3>2 DEF IdleWorker
    <3>3. CASE \/ worker' = [worker EXCEPT !.pc = "woken"]
               \/ worker' = [worker EXCEPT !.pc = "taken", !.arm = resyncPending]
      BY <1>1, <2>2, <3>3 DEF Worker
    <3> QED BY <3>1, <3>2, <3>3
  <2>4. RowsBehind'
    <3>1. \A k \in Keys : worker'.snap[k].at <= db[k].at
      BY <1>1, <2>3, Numbers DEF RowsBehind, NoRow
    <3> QED BY <1>1, <1>2, <2>1, <3>1 DEF RowsBehind
  <2>5. ArmingsNamed'
    <3>1. CASE WorkerWakes
      BY <1>1, <2>3, <3>1 DEF WorkerWakes, ArmingsNamed, Holding, Worker
    <3>2. CASE TakeReconcile
      <4>1. /\ worker'.pc \in {"taken", "applying"} =>
                 resyncPending # NoArming /\ worker'.arm = resyncPending
            /\ resyncPending' = NoArming
        BY <1>1, <3>2 DEF TakeReconcile, IdleWorker, Worker
      <4> QED BY <1>1, <2>3, <4>1 DEF ArmingsNamed, Holding
    <3> QED BY <1>3, <3>1, <3>2
  <2> QED BY <1>1, <1>2, <2>1, <2>3, <2>4, <2>5, FencesFrame DEF SnapshotCurrent
<1>4. CASE List
  <2>1. UNCHANGED <<basis, fences, windows, resyncPending>>
    BY <1>4 DEF List, cacheVars, historyVars, armVars
  <2>2. /\ worker'.todo = Keys /\ worker'.snap = db /\ worker'.arm = worker.arm
        /\ worker'.pc = "applying" /\ worker.pc = "taken"
    BY <1>1, <1>4 DEF List, Worker
  <2>3. RowsBehind'
    <3>1. \A k \in Keys : worker'.snap[k].at <= db[k].at
      BY <1>1, <2>2, Numbers
    <3> QED BY <1>1, <1>2, <2>1, <3>1 DEF RowsBehind
  <2>4. ArmingsNamed'
    BY <1>1, <2>1, <2>2 DEF ArmingsNamed, Holding
  <2>5. SnapshotCurrent'
    BY <1>1, <2>1, <2>2 DEF SnapshotCurrent, RowsBehind
  <2> QED BY <1>1, <1>2, <2>1, <2>3, <2>4, <2>5, FencesFrame
<1>5. CASE ListFails \/ Abandon \/ FinishReconcile
  <2>1. UNCHANGED <<basis, fences, resyncPending>>
    BY <1>5 DEF ListFails, Abandon, FinishReconcile, cacheVars, historyVars, armVars
  <2>2. worker' = IdleWorker
    BY <1>5 DEF ListFails, Abandon, FinishReconcile
  <2>3. worker'.todo = {} /\ worker'.pc = "idle" /\ worker'.snap = [k \in Keys |-> NoRow]
    BY <2>2 DEF IdleWorker
  <2>4. RowsBehind'
    <3>1. \A k \in Keys : worker'.snap[k].at <= db[k].at
      BY <1>1, <2>3, Numbers DEF NoRow
    <3> QED BY <1>1, <1>2, <2>1, <3>1 DEF RowsBehind
  <2>5. ArmingsNamed' /\ SnapshotCurrent'
    BY <1>1, <2>1, <2>3 DEF ArmingsNamed, SnapshotCurrent, Holding
  <2> QED BY <1>1, <1>2, <2>1, <2>4, <2>5, FencesFrame
<1>6. ASSUME NEW k \in Keys, ApplySnapshotRow(k) \/ ApplyAbsentKey(k)
      PROVE  RowsBehind' /\ ArmingsNamed' /\ SnapshotCurrent' /\ FencesSound'
  <2>1. UNCHANGED <<windows, resyncPending>> /\ worker' = [worker EXCEPT !.todo = @ \ {k}]
    BY <1>6 DEF ApplySnapshotRow, ApplyAbsentKey, armVars
  <2>2. /\ worker'.todo = worker.todo \ {k} /\ worker'.snap = worker.snap
        /\ worker'.arm = worker.arm /\ worker'.pc = worker.pc /\ worker.todo \subseteq Keys
    BY <1>1, <2>1 DEF Worker
  <2>3. RowsBehind'
    <3>1. \A j \in Keys : basis'[j] <= db[j].at
      BY <1>1, <1>6, SnapshotPublishes DEF RowsBehind
    <3> QED BY <1>1, <1>2, <2>2, <3>1 DEF RowsBehind
  <2>4. ArmingsNamed'
    BY <1>1, <2>1, <2>2 DEF ArmingsNamed, Holding
  <2>5. SnapshotCurrent'
    <3>1. \A j \in worker.todo \ {k} : basis'[j] = basis[j]
      BY <1>6, <2>2, SnapshotPublishes
    <3> QED BY <2>1, <2>2, <3>1 DEF OrderInv, SnapshotCurrent, Touched
  <2>6. FencesSound'
    <3>1. \A j \in Keys : fences'[j].deletes >= fences[j].deletes /\ fences'[j].deletes \in Nat
      BY <1>6, SnapshotPublishes DEF TypeOK, KeyFence
    <3> QED BY <1>1, <1>2, <3>1, Numbers DEF FencesSound
  <2> QED BY <2>3, <2>4, <2>5, <2>6
<1> QED BY <1>3, <1>4, <1>5, <1>6 DEF WorkerStep

-----------------------------------------------------------------------------
(* The step and the theorems. *)

(* Nothing has been read, published or removed at the start. *)
LEMMA OrderInit == Init => OrderInv
<1> SUFFICES ASSUME Init PROVE OrderInv
  OBVIOUS
<1>1. TypeInv
  BY InitType
<1>2. ArmingsDistinct /\ WindowsOwned
  BY DEF Init, ArmingsDistinct, WindowsOwned, IdleWorker, NoArming
<1>3. \A k \in Keys : db[k].at \in {0, 1}
  BY DEF Init, NoRow
<1>4. RowsBehind
  <2>1. \A k \in Keys : /\ db[k].at <= commits /\ basis[k] <= db[k].at
                       /\ removedAt[k] <= db[k].at /\ worker.snap[k].at <= db[k].at
    BY <1>3 DEF Init, IdleWorker, NoRow
  <2>2. \A i \in 1 .. Len(wire) : wire[i].at <= db[wire[i].key].at
    BY DEF Init
  <2>3. \A w \in Writers : writers[w].pc = "idle"
    BY DEF Init, IdleWriter
  <2>4. \A r \in Readers : readers[r].row.at = 0 /\ Key(r) \in Keys
    BY DEF Init, IdleReader, NoRow, Readers, Key
  <2>5. \A r \in Readers : readers[r].row.at <= db[Key(r)].at
    BY <1>3, <2>4
  <2> QED BY <2>1, <2>2, <2>3, <2>5 DEF RowsBehind
<1>5. ArmingsNamed /\ SnapshotCurrent /\ FencesSound
  BY DEF Init, ArmingsNamed, Holding, SnapshotCurrent, FencesSound, IdleWorker, IdleReader
<1> QED BY <1>1, <1>2, <1>4, <1>5 DEF OrderInv, OwnedInv

(* One step of the scope keeps the order, action by action. *)
LEMMA OrderStep == OrderInv /\ [Next]_vars => OrderInv'
<1> SUFFICES ASSUME OrderInv, [Next]_vars PROVE OrderInv'
  OBVIOUS
<1>1. OwnedInv'
  BY OwnedStep DEF OrderInv
<1>2. TypeOK'
  BY <1>1 DEF OwnedInv, TypeInv
<1> SUFFICES RowsBehind' /\ ArmingsNamed' /\ SnapshotCurrent' /\ FencesSound'
  BY <1>1 DEF OrderInv
<1>3. CASE UNCHANGED vars \/ AtRest
  <2>1. UNCHANGED <<db, commits, wire, basis, removedAt, worker, writers, readers, windows,
                    fences, resyncPending>>
    BY <1>3 DEF vars, AtRest
  <2>2. RowsBehind'
    BY <2>1 DEF OrderInv, RowsBehind
  <2> QED BY <2>1, <2>2, NamedFrame, SnapshotFrame, FencesFrame DEF OrderInv
<1>4. CASE RemoteWrite \/ \E w \in Writers : ClientSet(w) \/ ClientDelete(w)
  BY <1>2, <1>4, CommitOrder
<1>5. ASSUME NEW w \in Writers, PublishBegin(w) \/ PublishEnd(w) \/ PublishDelete(w)
      PROVE  RowsBehind' /\ ArmingsNamed' /\ SnapshotCurrent' /\ FencesSound'
  BY <1>2, <1>5, PublishOrder
<1>6. CASE LoseConnection \/ OnDisconnect \/ Reconnect \/ OnResync
  BY <1>6, LinkOrder
<1>7. CASE OnEvent
  BY <1>2, <1>7, EventOrder
<1>8. ASSUME NEW k \in Keys, NEW op \in {"upsert", "delete"}, TrackedRefresh(k, op)
      PROVE  RowsBehind' /\ ArmingsNamed' /\ SnapshotCurrent' /\ FencesSound'
  <2>1. <<k, "refresh">> \in Readers
    BY DEF Readers, Kinds
  <2> QED BY <1>2, <1>8, <2>1, QuietReadOrder
<1>9. ASSUME NEW r \in Readers,
             \/ GetFails(r) \/ NoRowForUpsert(r) \/ IngestBegin(r) \/ RetryRefresh(r)
      PROVE  RowsBehind' /\ ArmingsNamed' /\ SnapshotCurrent' /\ FencesSound'
  BY <1>2, <1>9, QuietReadOrder
<1>10. ASSUME NEW r \in Readers, ArmRead(r) \/ GetRow(r)
       PROVE  RowsBehind' /\ ArmingsNamed' /\ SnapshotCurrent' /\ FencesSound'
  BY <1>10, ReadOrder
<1>11. ASSUME NEW r \in Readers, PublishAbsentDelete(r) \/ IngestEnd(r)
       PROVE  RowsBehind' /\ ArmingsNamed' /\ SnapshotCurrent' /\ FencesSound'
  BY <1>2, <1>11, ReadPublishOrder
<1>12. CASE WorkerStep
  BY <1>2, <1>12, WorkerOrder
<1> QED BY <1>3, <1>4, <1>5, <1>6, <1>7, <1>8, <1>9, <1>10, <1>11, <1>12 DEF Next, WorkerStep

(* The order invariant holds throughout. *)
THEOREM Ordered == Spec => []OrderInv
BY OrderInit, OrderStep, PTL DEF Spec

(* A reconcile never puts an older snapshot over what the cache holds,     *)
(* however long its List took: applySnapshotRow and applyAbsentKey look at *)
(* the window of their own arming, where every publication since it opened *)
(* left its key.                                                           *)
THEOREM SnapshotsNeverRegress == Spec => SnapshotNeverRegresses
<1>1. ASSUME OrderInv, [Next]_vars
      PROVE  [worker' # worker => \A k \in Keys : basis'[k] >= basis[k]]_vars
  <2> SUFFICES ASSUME Next, worker' # worker, NEW k \in Keys
               PROVE  basis'[k] >= basis[k]
    BY <1>1 DEF vars
  <2>1. TypeOK
    BY <1>1 DEF OrderInv, OwnedInv, TypeInv
  <2>2. basis[k] \in Nat /\ worker.snap[k].at \in Nat
    BY <2>1, Numbers
  <2>3. WorkerStep
    BY DEF Next, WorkerStep, AtRest, vars, RemoteWrite, LoseConnection, OnDisconnect, Reconnect,
           OnResync, OnEvent, ClientSet, ClientDelete, PublishBegin, PublishEnd, PublishDelete,
           TrackedRefresh, ArmRead, GetRow, GetFails, PublishAbsentDelete, NoRowForUpsert,
           IngestBegin, IngestEnd, RetryRefresh
  <2>4. CASE \E j \in Keys : ApplySnapshotRow(j) \/ ApplyAbsentKey(j)
    BY <1>1, <2>2, <2>4, SnapshotPublishes
  <2>5. CASE WorkerWakes \/ TakeReconcile \/ List \/ ListFails \/ Abandon \/ FinishReconcile
    <3>1. UNCHANGED basis
      BY <2>5 DEF WorkerWakes, TakeReconcile, List, ListFails, Abandon, FinishReconcile,
           historyVars
    <3> QED BY <2>2, <3>1
  <2> QED BY <2>3, <2>4, <2>5 DEF WorkerStep
<1> QED BY <1>1, Ordered, PTL DEF Spec, SnapshotNeverRegresses

(* A re-read never puts back a row whose removal the feed or Client.Delete *)
(* has reported, with the counter it read before its store call as the     *)
(* only witness.                                                           *)
THEOREM RemovalsStand == Spec => RemovalStands
<1>1. ASSUME OrderInv, [Next]_vars
      PROVE  [readers' # readers =>
                \A k \in Keys : basis'[k] # basis[k] => basis'[k] >= removedAt[k]]_vars
  <2> SUFFICES ASSUME Next, readers' # readers, NEW k \in Keys, basis'[k] # basis[k]
               PROVE  basis'[k] >= removedAt[k]
    BY <1>1 DEF vars
  <2>1. PICK r \in Readers : PublishAbsentDelete(r) \/ IngestEnd(r)
    BY DEF Next, AtRest, vars, RemoteWrite, LoseConnection, OnDisconnect, Reconnect,
           OnResync, OnEvent, ClientSet, ClientDelete, PublishBegin, PublishEnd, PublishDelete,
           TrackedRefresh, ArmRead, GetRow, GetFails, NoRowForUpsert, IngestBegin,
           RetryRefresh, WorkerWakes, TakeReconcile, List, ListFails, Abandon,
           ApplySnapshotRow, ApplyAbsentKey, FinishReconcile, historyVars
  <2>2. TypeOK
    BY <1>1 DEF OrderInv, OwnedInv, TypeInv
  <2>3. removedAt[k] \in Nat /\ readers[r].row.at \in Nat
    BY <2>2, Numbers
  <2> QED BY <1>1, <2>1, <2>3, ReadPublishes
<1> QED BY <1>1, Ordered, PTL DEF Spec, RemovalStands

-----------------------------------------------------------------------------
(* What is known of a row in flight, against the row its key holds now and *)
(* the key's newest removal: it names its own commit, it is that very row  *)
(* if no commit came between, and a missing row is missing since a removal.*)
Named(row) ==
  /\ row.rev = IF Present(row) THEN row.at ELSE 0
  /\ Present(row) => row.rev # 0
Sound(row, now, removal) ==
  /\ Named(row)
  /\ row.at = now.at => row = now
  /\ ~Present(row) => row.at <= removal
  /\ Present(row) => row.at # removal

RowsSound ==
  /\ \A k \in Keys : /\ Sound(NoRow, db[k], gone[k])
                     /\ Sound(db[k], db[k], gone[k])
                     /\ Sound(worker.snap[k], db[k], gone[k])
                     /\ gone[k] <= db[k].at
  /\ \A r \in Readers : Sound(readers[r].row, db[Key(r)], gone[Key(r)])
  /\ \A w \in Writers : writers[w].pc # "idle" =>
       Sound(writers[w].row, db[writers[w].key], gone[writers[w].key])

(* A row being graded is there; a removal being published is one. *)
RowsFit ==
  /\ \A r \in Readers : readers[r].pc = "grading" => Present(readers[r].row)
  /\ \A w \in Writers : writers[w].pc # "idle" =>
       (Present(writers[w].row) <=> writers[w].pc # "deleted")

(* An entry with a revision is of the commit of that number; one without   *)
(* is a default some removal put in force, or from before any local write. *)
EntrySound(k) ==
  /\ entries[k] = Nothing => basis[k] = 0 /\ acked[k] = 0
  /\ entries[k] # Nothing /\ entries[k].rev # 0 => entries[k].rev = basis[k]
  /\ entries[k] # Nothing /\ entries[k].rev = 0 => acked[k] = 0 \/ basis[k] <= gone[k]

(* Acknowledged commits are commits of the store, and an acknowledged      *)
(* removal is a reported one.                                              *)
AckSound(k) ==
  /\ acked[k] <= db[k].at
  /\ gone[k] = acked[k] => acked[k] <= removedAt[k]

Stands(k) == late[k] = "write" \/ basis[k] >= acked[k] \/ gone[k] > acked[k]

EntriesSound == \A k \in Keys : EntrySound(k) /\ AckSound(k) /\ Stands(k)

(* While nothing was published since a re-read took its fence, its row is  *)
(* no older than the cache.                                                *)
PublicationsSound ==
  \A r \in Readers : readers[r].pc \in {"reading", "got"} =>
    /\ readers[r].fence.publications <= fences[Key(r)].publications
    /\ readers[r].pc = "got"
         /\ readers[r].fence.publications = fences[Key(r)].publications =>
           basis[Key(r)] <= readers[r].row.at

(* While the snapshot's turn for a key is to come, no write was            *)
(* acknowledged that it lacks, unless the window says so.                  *)
SnapshotAcked ==
  \A k \in worker.todo : ~Touched(k) => acked[k] <= worker.snap[k].at

FactInv ==
  /\ OrderInv
  /\ RowsSound
  /\ RowsFit
  /\ EntriesSound
  /\ PublicationsSound
  /\ SnapshotAcked

-----------------------------------------------------------------------------
(* Rows *)

(* A later commit leaves a row in flight behind. *)
LEMMA SoundAfter ==
  ASSUME NEW row, NEW now, NEW removal \in Nat, NEW then, NEW c \in Nat,
         row.at \in Nat, row.at <= c, Sound(row, now, removal),
         then.at = c + 1,
         NEW newer \in Nat, newer = removal \/ newer = c + 1, removal <= c
  PROVE  Sound(row, then, newer)
BY DEF Sound

(* The row a commit puts there. *)
LEMMA SoundNew ==
  ASSUME NEW now, NEW removal \in Nat, NEW c \in Nat, now.at = c + 1, Named(now),
         removal <= c
  PROVE  Sound(now, now, IF Present(now) THEN removal ELSE c + 1)
BY DEF Sound

Op(row) == IF Present(row) THEN "upsert" ELSE "delete"

(* What a commit does: one key's row is replaced by a row of the new       *)
(* commit, or none is; the feed carries it while it listens.               *)
LEMMA CommitEffect ==
  ASSUME TypeOK, RemoteWrite \/ \E w \in Writers : ClientSet(w) \/ ClientDelete(w)
  PROVE  /\ commits' = commits + 1
         /\ UNCHANGED <<link, async, entries, fences, unconfirmed, stale, disconnectGen,
                        reconcileGen, windows, resyncPending, resyncSignal, again, worker,
                        timers, readers, basis, acked, removedAt, late>>
         /\ \E k \in Keys :
              /\ \A j \in Keys : j # k => db'[j] = db[j] /\ gone'[j] = gone[j]
              /\ \/ db'[k] = db[k] /\ gone'[k] = gone[k]
                 \/ /\ db'[k].at = commits + 1 /\ Named(db'[k])
                    /\ gone'[k] = IF Present(db'[k]) THEN gone[k] ELSE commits + 1
                    /\ link \in {"joined", "up"} =>
                         wire' = Append(wire, Event(Op(db'[k]), k, db'[k].at))
              /\ \/ wire' = wire
                 \/ /\ wire' = Append(wire, Event(Op(db'[k]), k, db'[k].at))
                    /\ link \in {"joined", "up"}
              /\ \A w \in Writers :
                   \/ writers'[w] = writers[w]
                   \/ /\ writers[w].pc = "idle"
                      /\ writers'[w].pc \in {"written", "deleted"}
                      /\ writers'[w].key = k /\ writers'[w].row = db'[k]
                      /\ Present(db'[k]) <=> writers'[w].pc # "deleted"
<1> DEFINE Committed(k) ==
      /\ \A j \in Keys : j # k => db'[j] = db[j] /\ gone'[j] = gone[j]
      /\ \/ db'[k] = db[k] /\ gone'[k] = gone[k]
         \/ /\ db'[k].at = commits + 1 /\ Named(db'[k])
            /\ gone'[k] = IF Present(db'[k]) THEN gone[k] ELSE commits + 1
            /\ link \in {"joined", "up"} =>
                 wire' = Append(wire, Event(Op(db'[k]), k, db'[k].at))
      /\ \/ wire' = wire
         \/ /\ wire' = Append(wire, Event(Op(db'[k]), k, db'[k].at))
            /\ link \in {"joined", "up"}
<1>1. /\ db \in [Keys -> Row] /\ gone \in [Keys -> Nat] /\ commits \in Nat
      /\ writers \in [Writers -> Writer]
  BY DEF TypeOK
<1>2. UNCHANGED <<link, async, entries, fences, unconfirmed, stale, disconnectGen,
                  reconcileGen, windows, resyncPending, resyncSignal, again, worker,
                  timers, readers, basis, acked, removedAt, late>>
  BY DEF RemoteWrite, ClientSet, ClientDelete, feedVars, cacheVars, armVars, historyVars
<1>3. ASSUME NEW k \in Keys, NEW v \in Values, SetRow(k, v)
      PROVE  commits' = commits + 1 /\ Committed(k) /\ Present(db'[k])
  <2>1. v # Nothing
    BY NothingAssumption
  <2>2. /\ commits' = commits + 1 /\ gone' = gone
        /\ wire' = Carried(Event("upsert", k, db'[k].at))
    BY <1>3 DEF SetRow
  <2>3. CASE db[k].val = v
    <3>1. db' = db
      BY <1>3, <2>3 DEF SetRow
    <3>2. Op(db'[k]) = "upsert" /\ Present(db'[k])
      BY <2>1, <2>3, <3>1 DEF Op, Present
    <3> QED BY <2>2, <3>1, <3>2 DEF Carried
  <2>4. CASE db[k].val # v
    <3> DEFINE new == [rev |-> commits + 1, val |-> v, at |-> commits + 1]
    <3>1. db' = [db EXCEPT ![k] = new]
      BY <1>3, <2>4 DEF SetRow
    <3>2. new.at = commits + 1 /\ new.rev = commits + 1 /\ new.val = v
      OBVIOUS
    <3> HIDE DEF new
    <3>3. db'[k] = new /\ \A j \in Keys : j # k => db'[j] = db[j]
      BY <1>1, <3>1
    <3>4. Present(db'[k]) /\ Op(db'[k]) = "upsert" /\ Named(db'[k]) /\ db'[k].at = commits + 1
      BY <1>1, <2>1, <3>2, <3>3 DEF Op, Present, Named
    <3> QED BY <2>2, <3>3, <3>4 DEF Carried
  <2> QED BY <2>3, <2>4
<1>4. ASSUME NEW k \in Keys, RemoveRow(k)
      PROVE  commits' = commits + 1 /\ Committed(k) /\ ~Present(db'[k])
  <2>1. CASE Present(db[k])
    <3> DEFINE new == [rev |-> 0, val |-> Nothing, at |-> commits + 1]
    <3>1. /\ db' = [db EXCEPT ![k] = new] /\ gone' = [gone EXCEPT ![k] = commits + 1]
          /\ wire' = Carried(Event("delete", k, commits + 1))
          /\ commits' = commits + 1
      BY <1>4, <2>1 DEF RemoveRow
    <3>2. new.at = commits + 1 /\ new.rev = 0 /\ new.val = Nothing
      OBVIOUS
    <3> HIDE DEF new
    <3>3. db'[k] = new /\ \A j \in Keys : j # k => db'[j] = db[j]
      BY <1>1, <3>1
    <3>4. ~Present(db'[k]) /\ Op(db'[k]) = "delete" /\ Named(db'[k]) /\ db'[k].at = commits + 1
      BY <3>2, <3>3 DEF Op, Present, Named
    <3>5. gone'[k] = commits + 1 /\ \A j \in Keys : j # k => gone'[j] = gone[j]
      BY <1>1, <3>1
    <3> QED BY <3>1, <3>3, <3>4, <3>5 DEF Carried
  <2>2. CASE ~Present(db[k])
    BY <1>4, <2>2 DEF RemoveRow
  <2> QED BY <2>1, <2>2
<1> HIDE DEF Committed
<1>5. CASE RemoteWrite
  <2>1. UNCHANGED writers
    BY <1>5 DEF RemoteWrite
  <2>2. PICK k \in Keys : commits' = commits + 1 /\ Committed(k)
    BY <1>3, <1>4, <1>5 DEF RemoteWrite
  <2> QED BY <1>2, <2>1, <2>2 DEF Committed
<1>6. ASSUME NEW w \in Writers, ClientSet(w) \/ ClientDelete(w)
      PROVE  \E k \in Keys :
               /\ commits' = commits + 1 /\ Committed(k)
               /\ \A u \in Writers :
                   \/ writers'[u] = writers[u]
                   \/ /\ writers[u].pc = "idle"
                      /\ writers'[u].pc \in {"written", "deleted"}
                      /\ writers'[u].key = k /\ writers'[u].row = db'[k]
                      /\ Present(db'[k]) <=> writers'[u].pc # "deleted"
  <2>1. CASE ClientSet(w)
    <3>1. PICK k \in Keys, v \in Values :
            /\ SetRow(k, v)
            /\ writers' = [writers EXCEPT ![w] = [pc |-> "written", key |-> k, row |-> db'[k]]]
            /\ writers[w].pc = "idle"
      BY <2>1 DEF ClientSet
    <3> QED BY <1>1, <1>3, <3>1
  <2>2. CASE ClientDelete(w)
    <3>1. PICK k \in Keys :
            /\ RemoveRow(k)
            /\ writers' = [writers EXCEPT ![w] = [pc |-> "deleted", key |-> k, row |-> db'[k]]]
            /\ writers[w].pc = "idle"
      BY <2>2 DEF ClientDelete
    <3> QED BY <1>1, <1>4, <3>1
  <2> QED BY <1>6, <2>1, <2>2
<1> QED BY <1>2, <1>5, <1>6 DEF Committed

(* What a publication does to its key. *)
Took(k, rev, val, deleted, at) ==
  /\ entries'[k] = [rev |-> rev, val |-> val]
  /\ basis'[k] = at
  /\ fences'[k].publications = fences[k].publications + 1
  /\ fences'[k].deletes = fences[k].deletes + IF deleted THEN 1 ELSE 0
  /\ entries[k] = Nothing \/ rev = 0 \/ rev >= entries[k].rev
Kept(k, rev, val) ==
  /\ entries'[k] = entries[k] /\ basis'[k] = basis[k] /\ fences'[k] = fences[k]
  /\ entries[k] # Nothing /\ rev # 0
  /\ entries[k].rev > rev \/ entries[k] = [rev |-> rev, val |-> val]

(* What publishCore leaves behind: the entry it installs or the one that   *)
(* overtook it, and nothing else of the key.                               *)
LEMMA PublishFacts ==
  ASSUME TypeOK, NEW k \in Keys, NEW rev \in Nat, NEW val, NEW deleted \in BOOLEAN, NEW at,
         NEW marked, Publish(k, rev, val, deleted, at, marked)
  PROVE  /\ \A j \in Keys : j # k => /\ entries'[j] = entries[j] /\ fences'[j] = fences[j]
                                     /\ basis'[j] = basis[j]
         /\ unconfirmed' = (unconfirmed \ {k}) \cup marked
         /\ Took(k, rev, val, deleted, at) \/ Kept(k, rev, val)
<1>1. /\ entries \in [Keys -> Entry \cup {Nothing}] /\ fences \in [Keys -> KeyFence]
      /\ basis \in [Keys -> Nat]
  BY DEF TypeOK
<1>2. unconfirmed' = (unconfirmed \ {k}) \cup marked
  BY DEF Publish
<1>3. entries[k] # Nothing => entries[k] \in Entry
  BY <1>1
<1>4. entries[k] # Nothing => entries[k].rev \in Nat
                              /\ entries[k] = [rev |-> entries[k].rev, val |-> entries[k].val]
  BY <1>3 DEF Entry
<1>5. CASE Accepts(k, rev, val)
  <2> DEFINE fence == [deletes |-> fences[k].deletes + (IF deleted THEN 1 ELSE 0),
                       publications |-> fences[k].publications + 1]
  <2>1. /\ entries' = [entries EXCEPT ![k] = [rev |-> rev, val |-> val]]
        /\ fences' = [fences EXCEPT ![k] = fence]
        /\ basis' = [basis EXCEPT ![k] = at]
    BY <1>5 DEF Publish
  <2>2. /\ fence.deletes = fences[k].deletes + (IF deleted THEN 1 ELSE 0)
        /\ fence.publications = fences[k].publications + 1
    OBVIOUS
  <2> HIDE DEF fence
  <2>3. fences'[k] = fence /\ \A j \in Keys : j # k => fences'[j] = fences[j]
    BY <1>1, <2>1
  <2>4. entries[k] = Nothing \/ rev = 0 \/ rev >= entries[k].rev
    BY <1>4, <1>5 DEF Accepts
  <2>5. entries'[k] = [rev |-> rev, val |-> val] /\ basis'[k] = at
    BY <1>1, <2>1
  <2> QED BY <1>1, <1>2, <2>1, <2>2, <2>3, <2>4, <2>5 DEF Took
<1>6. CASE ~Accepts(k, rev, val)
  <2>1. UNCHANGED <<entries, fences, basis>>
    BY <1>6 DEF Publish
  <2>2. entries[k] # Nothing /\ rev # 0
    BY <1>6 DEF Accepts
  <2>3. ~(rev > entries[k].rev) /\ ~(rev = entries[k].rev /\ val # entries[k].val)
    BY <1>6 DEF Accepts
  <2>4. entries[k].rev > rev \/ entries[k] = [rev |-> rev, val |-> val]
    <3>1. CASE rev = entries[k].rev
      BY <1>4, <2>2, <2>3, <3>1
    <3>2. CASE rev # entries[k].rev
      BY <1>4, <2>2, <2>3, <3>2
    <3> QED BY <3>1, <3>2
  <2> QED BY <1>2, <2>1, <2>2, <2>4 DEF Kept
<1> QED BY <1>5, <1>6

-----------------------------------------------------------------------------
(* Re-reads *)

Done(x) == x.pc = "idle" /\ x.row = NoRow /\ x.gen = 0
Begun(x, deleted) == x.pc = "start" /\ x.deleted = deleted /\ x.row = NoRow /\ x.gen = 0

(* The end of a re-read: it is done, or it begins the trailing read owed. *)
Ends(r) ==
  /\ \A j \in Keys : j # Key(r) => again'[j] = again[j]
  /\ \/ /\ Done(readers'[r])
        /\ again'[Key(r)] = again[Key(r)]
        /\ Retried(r) \/ again[Key(r)] = "no"
     \/ /\ ~Retried(r) /\ again[Key(r)] # "no" /\ again'[Key(r)] = "no"
        /\ Begun(readers'[r], again[Key(r)] = "delete")

(* A point read that begins carries the delete flag it was begun with.     *)
LEMMA BeginReader ==
  ASSUME NEW deleted \in BOOLEAN
  PROVE  Begun([IdleReader EXCEPT !.pc = "start", !.deleted = deleted], deleted)
BY DEF Begun, IdleReader

(* The end of a point read: the reader is idle, or the read its key asked  *)
(* for again begins with the flag that was kept for it.                    *)
LEMMA EndFacts ==
  ASSUME TypeOK, NEW r \in Readers, NEW rs \in [Readers -> Reader], EndRead(r, rs)
  PROVE  (\A q \in Readers : q # r => readers'[q] = rs[q]) /\ Ends(r)
<1> DEFINE k == Key(r)
           owed == ~Retried(r) /\ again[k] # "no"
           trailing == [IdleReader EXCEPT !.pc = "start", !.deleted = (again[k] = "delete")]
<1>1. k \in Keys /\ again \in [Keys -> {"no", "upsert", "delete"}]
  BY DEF TypeOK, Readers, Key
<1>2. Begun(trailing, again[k] = "delete") /\ Done(IdleReader)
  BY DEF Begun, Done, IdleReader
<1>3. /\ readers' = [rs EXCEPT ![r] = IF owed THEN trailing ELSE IdleReader]
      /\ again' = IF owed THEN [again EXCEPT ![k] = "no"] ELSE again
  BY DEF EndRead
<1> HIDE DEF trailing, k
<1>4. CASE owed
  <2>1. readers'[r] = trailing /\ \A q \in Readers : q # r => readers'[q] = rs[q]
    BY <1>3, <1>4
  <2>2. again'[k] = "no" /\ \A j \in Keys : j # k => again'[j] = again[j]
    BY <1>1, <1>3, <1>4
  <2> QED BY <1>2, <1>4, <2>1, <2>2 DEF Ends, k
<1>5. CASE ~owed
  <2>1. readers'[r] = IdleReader /\ \A q \in Readers : q # r => readers'[q] = rs[q]
    BY <1>3, <1>5
  <2>2. again' = again
    BY <1>3, <1>5
  <2> QED BY <1>2, <1>5, <2>1, <2>2 DEF Ends, k
<1> QED BY <1>4, <1>5

(* A timer firing: the re-read begins, or is owed when one is under way. *)
LEMMA TimerFacts ==
  ASSUME TypeOK, NEW k \in Keys, NEW op \in {"upsert", "delete"}, TrackedRefresh(k, op)
  PROVE  LET r == <<k, "refresh">> IN
         /\ op \in timers[k] /\ timers'[k] = timers[k] \ {op}
         /\ \A j \in Keys : j # k => timers'[j] = timers[j] /\ again'[j] = again[j]
         /\ \A q \in Readers : q # r => readers'[q] = readers[q]
         /\ \/ /\ readers[r].pc # "idle" /\ readers'[r] = readers[r]
               /\ again'[k] = IF op = "delete" \/ again[k] = "delete" THEN "delete" ELSE "upsert"
            \/ /\ readers[r].pc = "idle" /\ Begun(readers'[r], op = "delete")
               /\ again'[k] = again[k]
         /\ UNCHANGED <<db, commits, gone, wire, link, async, entries, fences, unconfirmed, stale,
                        disconnectGen, reconcileGen, windows, resyncPending, resyncSignal,
                        worker, writers, basis, acked, removedAt, late>>
<1> DEFINE r == <<k, "refresh">>
           new == [IdleReader EXCEPT !.pc = "start", !.deleted = (op = "delete")]
<1>1. /\ timers \in [Keys -> SUBSET {"upsert", "delete"}] /\ readers \in [Readers -> Reader]
      /\ again \in [Keys -> {"no", "upsert", "delete"}] /\ r \in Readers
  BY DEF TypeOK, Readers, Kinds
<1>2. Begun(new, op = "delete")
  BY BeginReader
<1>3. UNCHANGED <<db, commits, gone, wire, link, async, entries, fences, unconfirmed, stale,
                  disconnectGen, reconcileGen, windows, resyncPending, resyncSignal,
                  worker, writers, basis, acked, removedAt, late>>
  BY DEF TrackedRefresh, storeVars, feedVars, cacheVars, armVars, historyVars
<1>4. op \in timers[k] /\ timers' = [timers EXCEPT ![k] = @ \ {op}]
  BY DEF TrackedRefresh
<1>5. timers'[k] = timers[k] \ {op} /\ \A j \in Keys : j # k => timers'[j] = timers[j]
  BY <1>1, <1>4
<1> HIDE DEF new
<1>6. CASE readers[r].pc # "idle"
  <2>1. /\ readers' = readers
        /\ again' = [again EXCEPT ![k] =
                       IF op = "delete" \/ @ = "delete" THEN "delete" ELSE "upsert"]
    BY <1>6 DEF TrackedRefresh
  <2>2. /\ again'[k] = IF op = "delete" \/ again[k] = "delete" THEN "delete" ELSE "upsert"
        /\ \A j \in Keys : j # k => again'[j] = again[j]
    BY <1>1, <2>1
  <2> QED BY <1>3, <1>4, <1>5, <1>6, <2>1, <2>2
<1>7. CASE readers[r].pc = "idle"
  <2>1. readers' = [readers EXCEPT ![r] = new] /\ again' = again
    BY <1>7 DEF TrackedRefresh, new
  <2>2. readers'[r] = new /\ \A q \in Readers : q # r => readers'[q] = readers[q]
    BY <1>1, <2>1
  <2> QED BY <1>2, <1>3, <1>4, <1>5, <1>7, <2>1, <2>2
<1> QED BY <1>6, <1>7

(* An event handed over: its re-read is scheduled, or begins at once on    *)
(* the feed goroutine, and a delete moves the fences at arrival.           *)
LEMMA EventFacts ==
  ASSUME TypeOK, OnEvent
  PROVE  LET ev == Head(wire)  k == ev.key  r == <<k, "refresh">> IN
         /\ link = "up" /\ wire # << >> /\ wire' = Tail(wire)
         /\ k \in Keys /\ ev.op \in {"upsert", "delete"} /\ ev.at \in Nat /\ r \in Readers
         /\ \A j \in Keys : j # k => /\ timers'[j] = timers[j] /\ fences'[j] = fences[j]
                                     /\ removedAt'[j] = removedAt[j]
         /\ \A q \in Readers : q # r => readers'[q] = readers[q]
         /\ \/ /\ ev.op = "delete" /\ Record(k, TRUE)
               /\ fences'[k].deletes = fences[k].deletes + 1
               /\ fences'[k].publications = fences[k].publications
               /\ removedAt'[k] = IF ev.at > removedAt[k] THEN ev.at ELSE removedAt[k]
            \/ /\ ev.op = "upsert" /\ windows' = windows /\ fences'[k] = fences[k]
               /\ removedAt'[k] = removedAt[k]
         /\ \/ /\ readers'[r] = readers[r] /\ ev.op \in timers'[k]
               /\ timers'[k] = {ev.op} \/ timers'[k] = timers[k] \cup {ev.op}
            \/ /\ readers[r].pc = "idle" /\ timers'[k] = timers[k]
               /\ Begun(readers'[r], ev.op = "delete")
         /\ UNCHANGED <<db, commits, gone, link, async, entries, unconfirmed, stale,
                        disconnectGen, reconcileGen, resyncPending, resyncSignal, again,
                        worker, writers, basis, acked, late>>
<1> DEFINE ev == Head(wire)
           k == ev.key
           r == <<k, "refresh">>
           new == [IdleReader EXCEPT !.pc = "start", !.deleted = (ev.op = "delete")]
<1>1. link = "up" /\ wire # << >> /\ wire' = Tail(wire)
  BY DEF OnEvent
<1>2. ev \in FeedEvent
  BY <1>1 DEF TypeOK
<1>3. k \in Keys /\ ev.op \in {"upsert", "delete"} /\ ev.at \in Nat
  BY <1>2 DEF FeedEvent
<1>4. /\ timers \in [Keys -> SUBSET {"upsert", "delete"}] /\ readers \in [Readers -> Reader]
      /\ fences \in [Keys -> KeyFence] /\ removedAt \in [Keys -> Nat] /\ r \in Readers
  BY <1>3 DEF TypeOK, Readers, Kinds
<1>5. UNCHANGED <<db, commits, gone, link, async, entries, unconfirmed, stale,
                  disconnectGen, reconcileGen, resyncPending, resyncSignal, again,
                  worker, writers, basis, acked, late>>
  BY DEF OnEvent, feedVars, armVars
<1>6. /\ \A j \in Keys : j # k => fences'[j] = fences[j] /\ removedAt'[j] = removedAt[j]
      /\ \/ /\ ev.op = "delete" /\ Record(k, TRUE)
            /\ fences'[k].deletes = fences[k].deletes + 1
            /\ fences'[k].publications = fences[k].publications
            /\ removedAt'[k] = IF ev.at > removedAt[k] THEN ev.at ELSE removedAt[k]
         \/ /\ ev.op = "upsert" /\ windows' = windows /\ fences'[k] = fences[k]
            /\ removedAt'[k] = removedAt[k]
  <2>1. CASE ev.op = "delete"
    <3>1. /\ removedAt' = [removedAt EXCEPT ![k] = IF ev.at > @ THEN ev.at ELSE @]
          /\ fences' = [fences EXCEPT ![k].deletes = @ + 1]
          /\ Record(k, TRUE)
      BY <2>1 DEF OnEvent, RecordFeedDelete
    <3> HIDE DEF k, ev
    <3>2. fences'[k].deletes = fences[k].deletes + 1
      BY <1>3, <1>4, <3>1 DEF KeyFence
    <3>3. fences'[k].publications = fences[k].publications
      BY <1>3, <1>4, <3>1 DEF KeyFence
    <3>4. \A j \in Keys : j # k => fences'[j] = fences[j]
      BY <1>4, <3>1
    <3>5. /\ removedAt'[k] = IF ev.at > removedAt[k] THEN ev.at ELSE removedAt[k]
          /\ \A j \in Keys : j # k => removedAt'[j] = removedAt[j]
      BY <1>3, <1>4, <3>1
    <3> QED BY <2>1, <3>1, <3>2, <3>3, <3>4, <3>5
  <2>2. CASE ev.op = "upsert"
    BY <2>2 DEF OnEvent
  <2> QED BY <1>3, <2>1, <2>2
<1>7. Begun(new, ev.op = "delete")
  BY BeginReader
<1>8. SubmitRefresh(k, ev.op) /\ FeedFree
  BY DEF OnEvent
<1> HIDE DEF ev, new
<1>9. /\ \A j \in Keys : j # k => timers'[j] = timers[j]
      /\ \A q \in Readers : q # r => readers'[q] = readers[q]
      /\ \/ /\ readers'[r] = readers[r] /\ ev.op \in timers'[k]
            /\ timers'[k] = {ev.op} \/ timers'[k] = timers[k] \cup {ev.op}
         \/ /\ readers[r].pc = "idle" /\ timers'[k] = timers[k]
            /\ Begun(readers'[r], ev.op = "delete")
  <2>1. CASE async
    <3>1. /\ readers' = readers
          /\ \/ timers' = [timers EXCEPT ![k] = {ev.op}]
             \/ timers' = [timers EXCEPT ![k] = @ \cup {ev.op}]
      BY <1>8, <2>1 DEF SubmitRefresh
    <3> QED BY <1>3, <1>4, <3>1
  <2>2. CASE ~async
    <3>1. readers' = [readers EXCEPT ![r] = new] /\ timers' = timers
      BY <1>8, <2>2 DEF SubmitRefresh, new
    <3>2. readers[r].pc = "idle"
      BY <1>3, <1>8, <2>2 DEF FeedFree
    <3>3. readers'[r] = new /\ \A q \in Readers : q # r => readers'[q] = readers[q]
      BY <1>4, <3>1
    <3> QED BY <1>7, <3>1, <3>2, <3>3
  <2> QED BY <2>1, <2>2
<1> HIDE DEF k, r
<1> QED BY <1>1, <1>3, <1>4, <1>5, <1>6, <1>9 DEF k, r, ev

(* More numbers. *)
LEMMA MoreNumbers ==
  ASSUME TypeOK
  PROVE  /\ \A k \in Keys : /\ acked[k] \in Nat /\ gone[k] \in Nat
                            /\ fences[k].publications \in Nat
                            /\ db[k] \in Row /\ worker.snap[k] \in Row
                            /\ entries[k] # Nothing => entries[k].rev \in Nat
         /\ \A w \in Writers : writers[w].row \in Row
         /\ \A r \in Readers : /\ readers[r].row \in Row
                               /\ readers[r].fence.publications \in Nat
                               /\ readers[r].gen \in Nat
         /\ \A row \in Row : row.rev \in Nat /\ row.at \in Nat
<1>1. \A k \in Keys : acked[k] \in Nat /\ gone[k] \in Nat /\ db[k] \in Row
  BY DEF TypeOK
<1>2. \A k \in Keys : fences[k].publications \in Nat
  BY DEF TypeOK, KeyFence
<1>3. worker \in Worker
  BY DEF TypeOK
<1>4. \A k \in Keys : worker.snap[k] \in Row
  BY <1>3 DEF Worker
<1>5. ASSUME NEW k \in Keys, entries[k] # Nothing
      PROVE  entries[k].rev \in Nat
  <2>1. entries[k] \in Entry
    BY <1>5 DEF TypeOK
  <2> QED BY <2>1 DEF Entry
<1>6. \A w \in Writers : writers[w] \in Writer
  BY DEF TypeOK
<1>7. \A w \in Writers : writers[w].row \in Row
  BY <1>6 DEF Writer
<1>8. \A r \in Readers : readers[r] \in Reader
  BY DEF TypeOK
<1>9. \A r \in Readers : readers[r].row \in Row /\ readers[r].fence \in KeyFence
                         /\ readers[r].gen \in Nat
  BY <1>8 DEF Reader
<1>10. \A r \in Readers : readers[r].fence.publications \in Nat
  BY <1>9 DEF KeyFence
<1>11. \A row \in Row : row.rev \in Nat /\ row.at \in Nat
  BY DEF Row
<1> QED BY <1>1, <1>2, <1>4, <1>5, <1>7, <1>9, <1>10, <1>11

(* A re-read under way: armed, answered, failed, or about to be graded. *)
LEMMA ReadingFacts ==
  ASSUME TypeOK, NEW r \in Readers, ArmRead(r) \/ GetRow(r) \/ GetFails(r) \/ IngestBegin(r)
  PROVE  /\ Key(r) \in Keys
         /\ \A q \in Readers : q # r => readers'[q] = readers[q]
         /\ readers'[r].deleted = readers[r].deleted
         /\ \/ /\ readers[r].pc = "start" /\ readers'[r].pc = "reading"
               /\ readers'[r].fence = fences[Key(r)] /\ readers'[r].row = readers[r].row
               /\ readers'[r].gen = reconcileGen
               /\ windows' = windows
            \/ /\ readers[r].pc = "reading" /\ readers'[r].pc = "got"
               /\ readers'[r].fence = readers[r].fence /\ readers'[r].row = db[Key(r)]
               /\ readers'[r].gen = readers[r].gen
               /\ windows' = windows
            \/ /\ readers[r].pc = "reading" /\ readers'[r].pc = "repair"
               /\ readers'[r].row = readers[r].row /\ readers'[r].gen = readers[r].gen
               /\ Record(Key(r), FALSE)
            \/ /\ readers[r].pc = "got" /\ readers'[r].pc = "grading"
               /\ readers'[r].fence = readers[r].fence /\ readers'[r].row = readers[r].row
               /\ readers'[r].gen = readers[r].gen /\ Present(readers[r].row)
               /\ Record(Key(r), FALSE)
         /\ UNCHANGED <<db, commits, gone, wire, link, async, entries, fences, unconfirmed,
                        stale, disconnectGen, reconcileGen, resyncPending, resyncSignal,
                        again, timers, worker, writers, basis, acked, removedAt, late>>
<1>1. readers \in [Readers -> Reader] /\ readers[r] \in Reader /\ Key(r) \in Keys
  BY DEF TypeOK, Readers, Key
<1>2. UNCHANGED <<db, commits, gone, wire, link, async, entries, fences, unconfirmed,
                  stale, disconnectGen, reconcileGen, resyncPending, resyncSignal,
                  again, timers, worker, writers, basis, acked, removedAt, late>>
  BY DEF ArmRead, GetRow, GetFails, IngestBegin, storeVars, feedVars, cacheVars, armVars,
         historyVars
<1>3. CASE ArmRead(r)
  <2> DEFINE g == [readers[r] EXCEPT !.pc = "reading", !.fence = fences[Key(r)],
                     !.origin = IF Retried(r) THEN readers[r].origin ELSE fences[Key(r)],
                     !.gen = reconcileGen]
  <2>1. /\ g.pc = "reading" /\ g.fence = fences[Key(r)] /\ g.row = readers[r].row
        /\ g.gen = reconcileGen /\ g.deleted = readers[r].deleted
    BY <1>1 DEF Reader
  <2>2. readers' = [readers EXCEPT ![r] = g]
    BY <1>3 DEF ArmRead
  <2> HIDE DEF g
  <2>3. readers'[r] = g /\ \A q \in Readers : q # r => readers'[q] = readers[q]
    BY <1>1, <2>2
  <2>4. readers[r].pc = "start" /\ windows' = windows
    BY <1>3 DEF ArmRead
  <2> QED BY <1>1, <1>2, <2>1, <2>3, <2>4
<1>4. CASE GetRow(r)
  <2> DEFINE g == [readers[r] EXCEPT !.pc = "got", !.row = db[Key(r)]]
  <2>1. /\ g.pc = "got" /\ g.fence = readers[r].fence /\ g.row = db[Key(r)]
        /\ g.gen = readers[r].gen /\ g.deleted = readers[r].deleted
    BY <1>1 DEF Reader
  <2>2. readers' = [readers EXCEPT ![r] = g]
    BY <1>4 DEF GetRow
  <2> HIDE DEF g
  <2>3. readers'[r] = g /\ \A q \in Readers : q # r => readers'[q] = readers[q]
    BY <1>1, <2>2
  <2>4. readers[r].pc = "reading" /\ windows' = windows
    BY <1>4 DEF GetRow
  <2> QED BY <1>1, <1>2, <2>1, <2>3, <2>4
<1>5. CASE GetFails(r)
  <2> DEFINE g == [readers[r] EXCEPT !.pc = "repair", !.fence = NoFence]
  <2>1. /\ g.pc = "repair" /\ g.row = readers[r].row
        /\ g.gen = readers[r].gen /\ g.deleted = readers[r].deleted
    BY <1>1 DEF Reader
  <2>2. readers' = [readers EXCEPT ![r] = g]
    BY <1>5 DEF GetFails
  <2> HIDE DEF g
  <2>3. readers'[r] = g /\ \A q \in Readers : q # r => readers'[q] = readers[q]
    BY <1>1, <2>2
  <2>4. readers[r].pc = "reading" /\ Record(Key(r), FALSE)
    BY <1>5 DEF GetFails
  <2> QED BY <1>1, <1>2, <2>1, <2>3, <2>4
<1>6. CASE IngestBegin(r)
  <2> DEFINE g == [readers[r] EXCEPT !.pc = "grading"]
  <2>1. /\ g.pc = "grading" /\ g.row = readers[r].row /\ g.fence = readers[r].fence
        /\ g.gen = readers[r].gen /\ g.deleted = readers[r].deleted
    BY <1>1 DEF Reader
  <2>2. readers' = [readers EXCEPT ![r] = g]
    BY <1>6 DEF IngestBegin
  <2> HIDE DEF g
  <2>3. readers'[r] = g /\ \A q \in Readers : q # r => readers'[q] = readers[q]
    BY <1>1, <2>2
  <2>4. readers[r].pc = "got" /\ Record(Key(r), FALSE) /\ Present(readers[r].row)
    BY <1>6 DEF IngestBegin
  <2> QED BY <1>1, <1>2, <2>1, <2>3, <2>4
<1> QED BY <1>3, <1>4, <1>5, <1>6

(* A re-read ending with nothing to publish: no row for an upsert, or a    *)
(* failure, for which a first attempt begins the retry if its slot is free.*)
LEMMA QuietEndFacts ==
  ASSUME TypeOK, NEW r \in Readers, NoRowForUpsert(r) \/ RetryRefresh(r)
  PROVE  LET k == Key(r)  slot == RetryOf(k, readers[r].deleted) IN
         /\ k \in Keys /\ slot \in Readers /\ Retried(slot) /\ Key(slot) = k
         /\ Ends(r)
         /\ \/ /\ readers[r].pc = "got" /\ ~Present(readers[r].row) /\ ~readers[r].deleted
               /\ ~Retried(r) /\ UNCHANGED <<unconfirmed, late>>
               /\ \A q \in Readers : q # r => readers'[q] = readers[q]
            \/ /\ \/ readers[r].pc = "repair"
                  \/ readers[r].pc = "got" /\ ~Present(readers[r].row) /\ ~readers[r].deleted
               /\ Retried(r) /\ RecordUnconfirmed(k, readers[r].origin)
               /\ \A q \in Readers : q # r => readers'[q] = readers[q]
            \/ /\ readers[r].pc = "repair" /\ ~Retried(r) /\ UNCHANGED <<unconfirmed, late>>
               /\ readers[slot].pc = "idle" /\ Begun(readers'[slot], readers[r].deleted)
               /\ \A q \in Readers : q # r /\ q # slot => readers'[q] = readers[q]
            \/ /\ readers[r].pc = "repair" /\ ~Retried(r) /\ UNCHANGED unconfirmed
               /\ late' = Tagged(k, "repair")
               /\ \A q \in Readers : q # r => readers'[q] = readers[q]
         /\ UNCHANGED <<db, commits, gone, wire, link, async, entries, fences, windows,
                        stale, disconnectGen, reconcileGen, resyncPending, resyncSignal,
                        timers, worker, writers, basis, acked, removedAt>>
<1> DEFINE k == Key(r)
           slot == RetryOf(k, readers[r].deleted)
           new == [IdleReader EXCEPT !.pc = "start", !.deleted = readers[r].deleted,
                                     !.origin = readers[r].origin]
           armed == [readers EXCEPT ![slot] = new]
<1>1. readers \in [Readers -> Reader] /\ readers[r] \in Reader /\ k \in Keys
  BY DEF TypeOK, Readers, Key
<1>2. slot \in Readers /\ Retried(slot) /\ Key(slot) = k
  BY <1>1 DEF RetryOf, Readers, Kinds, Retried, Key
<1>3. UNCHANGED <<db, commits, gone, wire, link, async, entries, fences, windows,
                  stale, disconnectGen, reconcileGen, resyncPending, resyncSignal,
                  timers, worker, writers, basis, acked, removedAt>>
  BY DEF NoRowForUpsert, RetryRefresh, storeVars, feedVars, armVars
<1>4. Begun(new, readers[r].deleted) /\ new \in Reader
  BY <1>1 DEF Begun, IdleReader, NoRow, Reader, NoFence, KeyFence, Row
<1>5. CASE NoRowForUpsert(r)
  <2>1. /\ readers[r].pc = "got" /\ ~Present(readers[r].row) /\ ~readers[r].deleted
        /\ IF Retried(r) THEN RecordUnconfirmed(k, readers[r].origin)
           ELSE UNCHANGED <<unconfirmed, late>>
        /\ EndRead(r, readers)
    BY <1>5 DEF NoRowForUpsert
  <2>2. (\A q \in Readers : q # r => readers'[q] = readers[q]) /\ Ends(r)
    BY <1>1, <2>1, EndFacts
  <2> HIDE DEF k, slot
  <2> QED BY <1>1, <1>2, <1>3, <2>1, <2>2 DEF k, slot
<1>6. CASE RetryRefresh(r) /\ Retried(r)
  <2>1. /\ readers[r].pc = "repair" /\ RecordUnconfirmed(k, readers[r].origin)
        /\ EndRead(r, readers)
    BY <1>6 DEF RetryRefresh
  <2>2. (\A q \in Readers : q # r => readers'[q] = readers[q]) /\ Ends(r)
    BY <1>1, <2>1, EndFacts
  <2>3. Retried(r)
    BY <1>6
  <2> HIDE DEF k, slot
  <2> QED BY <1>1, <1>2, <1>3, <2>1, <2>2, <2>3 DEF k, slot
<1>7. CASE RetryRefresh(r) /\ ~Retried(r) /\ readers[slot].pc = "idle"
  <2>1. /\ readers[r].pc = "repair" /\ UNCHANGED <<unconfirmed, late>>
        /\ EndRead(r, armed)
    BY <1>7 DEF RetryRefresh
  <2> HIDE DEF new
  <2>2. /\ armed \in [Readers -> Reader] /\ armed[slot] = new
        /\ \A q \in Readers : q # slot => armed[q] = readers[q]
    BY <1>1, <1>2, <1>4
  <2> HIDE DEF armed
  <2>3. (\A q \in Readers : q # r => readers'[q] = armed[q]) /\ Ends(r)
    BY <2>1, <2>2, EndFacts
  <2>4. slot # r
    BY <1>2, <1>7
  <2>5. Begun(readers'[slot], readers[r].deleted)
    BY <1>2, <1>4, <2>2, <2>3, <2>4
  <2> HIDE DEF k, slot
  <2> QED BY <1>1, <1>2, <1>3, <1>7, <2>1, <2>2, <2>3, <2>5 DEF k, slot
<1>8. CASE RetryRefresh(r) /\ ~Retried(r) /\ readers[slot].pc # "idle"
  <2>1. /\ readers[r].pc = "repair" /\ UNCHANGED unconfirmed /\ late' = Tagged(k, "repair")
        /\ EndRead(r, readers)
    BY <1>8 DEF RetryRefresh
  <2>2. (\A q \in Readers : q # r => readers'[q] = readers[q]) /\ Ends(r)
    BY <1>1, <2>1, EndFacts
  <2> HIDE DEF k, slot
  <2> QED BY <1>1, <1>2, <1>3, <1>8, <2>1, <2>2 DEF k, slot
<1> QED BY <1>5, <1>6, <1>7, <1>8

(* A re-read ending with an answer. *)
LEMMA AnswerFacts ==
  ASSUME TypeOK, NEW r \in Readers, PublishAbsentDelete(r) \/ IngestEnd(r)
  PROVE  LET k == Key(r)  x == readers[r] IN
         /\ k \in Keys
         /\ Ends(r)
         /\ \A q \in Readers : q # r => readers'[q] = readers[q]
         /\ \/ /\ x.pc = "got" /\ ~Present(x.row) /\ x.deleted /\ fences[k] # x.fence
               /\ UNCHANGED <<entries, fences, unconfirmed, basis, windows, late>>
            \/ /\ x.pc = "got" /\ ~Present(x.row) /\ x.deleted /\ fences[k] = x.fence
               /\ Publish(k, 0, Default, FALSE, x.row.at, {})
               /\ Record(k, TRUE) /\ ReadOvertaken(r, TRUE)
            \/ /\ x.pc = "grading" /\ Usable(x.row) /\ fences[k].deletes = x.fence.deletes
               /\ Publish(k, x.row.rev, x.row.val, FALSE, x.row.at, {})
               /\ Record(k, TRUE) /\ ReadOvertaken(r, TRUE)
            \/ /\ x.pc = "grading" /\ ~(Usable(x.row) /\ fences[k].deletes = x.fence.deletes)
               /\ UNCHANGED <<entries, fences, unconfirmed, basis>>
               /\ Record(k, FALSE) /\ ReadOvertaken(r, FALSE)
         /\ UNCHANGED <<db, commits, gone, wire, link, async,
                        stale, disconnectGen, reconcileGen, resyncPending, resyncSignal,
                        timers, worker, writers, acked, removedAt>>
<1> DEFINE k == Key(r)
           x == readers[r]
<1>1. readers \in [Readers -> Reader] /\ k \in Keys
  BY DEF TypeOK, Readers, Key
<1>2. UNCHANGED <<db, commits, gone, wire, link, async,
                  stale, disconnectGen, reconcileGen, resyncPending, resyncSignal,
                  timers, worker, writers, acked, removedAt>>
  BY DEF PublishAbsentDelete, IngestEnd, storeVars, feedVars, armVars
<1>3. EndRead(r, readers)
  BY DEF PublishAbsentDelete, IngestEnd
<1>4. Ends(r) /\ \A q \in Readers : q # r => readers'[q] = readers[q]
  BY <1>1, <1>3, EndFacts
<1>5. CASE PublishAbsentDelete(r)
  <2>1. x.pc = "got" /\ ~Present(x.row) /\ x.deleted
    BY <1>5 DEF PublishAbsentDelete
  <2>2. CASE fences[k] # x.fence
    BY <1>1, <1>2, <1>4, <1>5, <2>1, <2>2 DEF PublishAbsentDelete, SupersededByPublication, cacheVars
  <2>3. CASE fences[k] = x.fence
    <3>1. /\ Publish(k, 0, Default, FALSE, x.row.at, {})
          /\ Record(k, TRUE) /\ ReadOvertaken(r, TRUE)
      BY <1>5, <2>3 DEF PublishAbsentDelete, SupersededByPublication, IngestDefault
    <3> HIDE DEF k, x
    <3> QED BY <1>1, <1>2, <1>4, <2>1, <2>3, <3>1 DEF k, x
  <2> QED BY <2>2, <2>3
<1>6. CASE IngestEnd(r) /\ Usable(x.row) /\ fences[k].deletes = x.fence.deletes
  <2>1. Publishable(k, x.row, x.fence) = TRUE
    BY <1>6 DEF Publishable, SupersededByDelete
  <2>2. /\ Publish(k, x.row.rev, x.row.val, FALSE, x.row.at, {})
        /\ ReadOvertaken(r, TRUE) /\ Record(k, TRUE) /\ x.pc = "grading"
    BY <1>6, <2>1 DEF IngestEnd
  <2> HIDE DEF k, x
  <2> QED BY <1>1, <1>2, <1>4, <1>6, <2>2 DEF k, x
<1>7. CASE IngestEnd(r) /\ ~(Usable(x.row) /\ fences[k].deletes = x.fence.deletes)
  <2>1. Publishable(k, x.row, x.fence) = FALSE
    BY <1>7 DEF Publishable, SupersededByDelete
  <2>2. /\ UNCHANGED <<entries, fences, unconfirmed, basis>>
        /\ ReadOvertaken(r, FALSE) /\ Record(k, FALSE) /\ x.pc = "grading"
    BY <1>7, <2>1 DEF IngestEnd, cacheVars
  <2> HIDE DEF k, x
  <2> QED BY <1>1, <1>2, <1>4, <1>7, <2>2 DEF k, x
<1> QED BY <1>5, <1>6, <1>7

(* A local write being applied: graded, published, or its removal          *)
(* published, and the caller told.                                         *)
LEMMA WriterFacts ==
  ASSUME TypeInv, NEW w \in Writers, PublishBegin(w) \/ PublishEnd(w) \/ PublishDelete(w)
  PROVE  LET k == writers[w].key  row == writers[w].row IN
         /\ k \in Keys /\ writers[w].pc # "idle"
         /\ \A u \in Writers : u # w => writers'[u] = writers[u]
         /\ \/ /\ writers[w].pc = "written" /\ writers'[w].pc = "grading"
               /\ writers'[w].key = k /\ writers'[w].row = row
               /\ Record(k, FALSE)
               /\ UNCHANGED <<entries, fences, unconfirmed, basis, acked, removedAt, late>>
            \/ /\ writers[w].pc = "grading" /\ writers'[w].pc = "idle"
               /\ Publish(k, row.rev, row.val, FALSE, row.at, {})
               /\ Record(k, TRUE)
               /\ acked'[k] = IF row.at > acked[k] THEN row.at ELSE acked[k]
               /\ \A j \in Keys : j # k => acked'[j] = acked[j]
               /\ removedAt' = removedAt
               /\ WriteOvertaken(k, row)
            \/ /\ writers[w].pc = "deleted" /\ writers'[w].pc = "idle"
               /\ Publish(k, 0, Default, TRUE, row.at, {})
               /\ Record(k, TRUE)
               /\ acked'[k] = IF row.at > acked[k] THEN row.at ELSE acked[k]
               /\ removedAt'[k] = IF row.at > removedAt[k] THEN row.at ELSE removedAt[k]
               /\ \A j \in Keys : j # k => acked'[j] = acked[j] /\ removedAt'[j] = removedAt[j]
               /\ WriteOvertaken(k, row)
         /\ UNCHANGED <<db, commits, gone, wire, link, async,
                        stale, disconnectGen, reconcileGen, resyncPending, resyncSignal,
                        again, timers, worker, readers>>
<1> DEFINE k == writers[w].key
           row == writers[w].row
<1>1. /\ writers \in [Writers -> Writer] /\ writers[w] \in Writer /\ acked \in [Keys -> Nat]
      /\ removedAt \in [Keys -> Nat]
  BY DEF TypeInv, TypeOK
<1>2. writers[w].pc # "idle"
  BY DEF PublishBegin, PublishEnd, PublishDelete
<1>3. k \in Keys
  BY <1>2 DEF TypeInv, WritersHold
<1>4. UNCHANGED <<db, commits, gone, wire, link, async,
                  stale, disconnectGen, reconcileGen, resyncPending, resyncSignal,
                  again, timers, worker, readers>>
  BY DEF PublishBegin, PublishEnd, PublishDelete, storeVars, feedVars, armVars
<1>5. CASE PublishBegin(w)
  <2> DEFINE g == [writers[w] EXCEPT !.pc = "grading"]
  <2>1. g.pc = "grading" /\ g.key = k /\ g.row = row
    BY <1>1 DEF Writer
  <2>2. writers' = [writers EXCEPT ![w] = g]
    BY <1>5 DEF PublishBegin
  <2> HIDE DEF g
  <2>3. writers'[w] = g /\ \A u \in Writers : u # w => writers'[u] = writers[u]
    BY <1>1, <2>2
  <2>4. /\ writers[w].pc = "written" /\ Record(k, FALSE)
        /\ UNCHANGED <<entries, fences, unconfirmed, basis, acked, removedAt, late>>
    BY <1>5 DEF PublishBegin, cacheVars, historyVars
  <2> HIDE DEF k, row
  <2> QED BY <1>2, <1>3, <1>4, <2>1, <2>3, <2>4 DEF k, row
<1>6. CASE PublishEnd(w)
  <2>1. /\ writers[w].pc = "grading" /\ Publish(k, row.rev, row.val, FALSE, row.at, {})
        /\ Record(k, TRUE) /\ writers' = [writers EXCEPT ![w] = IdleWriter]
        /\ acked' = [acked EXCEPT ![k] = IF row.at > @ THEN row.at ELSE @]
        /\ WriteOvertaken(k, row) /\ removedAt' = removedAt
    BY <1>6 DEF PublishEnd
  <2>2. writers'[w].pc = "idle" /\ \A u \in Writers : u # w => writers'[u] = writers[u]
    BY <1>1, <2>1 DEF IdleWriter
  <2> HIDE DEF k, row
  <2>3. /\ acked'[k] = IF row.at > acked[k] THEN row.at ELSE acked[k]
        /\ \A j \in Keys : j # k => acked'[j] = acked[j]
    BY <1>1, <1>3, <2>1
  <2> QED BY <1>2, <1>3, <1>4, <2>1, <2>2, <2>3 DEF k, row
<1>7. CASE PublishDelete(w)
  <2>1. /\ writers[w].pc = "deleted" /\ Publish(k, 0, Default, TRUE, row.at, {})
        /\ Record(k, TRUE) /\ writers' = [writers EXCEPT ![w] = IdleWriter]
        /\ acked' = [acked EXCEPT ![k] = IF row.at > @ THEN row.at ELSE @]
        /\ removedAt' = [removedAt EXCEPT ![k] = IF row.at > @ THEN row.at ELSE @]
        /\ WriteOvertaken(k, row)
    BY <1>7 DEF PublishDelete, IngestDefault
  <2>2. writers'[w].pc = "idle" /\ \A u \in Writers : u # w => writers'[u] = writers[u]
    BY <1>1, <2>1 DEF IdleWriter
  <2> HIDE DEF k, row
  <2>3. /\ acked'[k] = IF row.at > acked[k] THEN row.at ELSE acked[k]
        /\ removedAt'[k] = IF row.at > removedAt[k] THEN row.at ELSE removedAt[k]
        /\ \A j \in Keys : j # k => acked'[j] = acked[j] /\ removedAt'[j] = removedAt[j]
    BY <1>1, <1>3, <2>1
  <2> QED BY <1>2, <1>3, <1>4, <2>1, <2>2, <2>3 DEF k, row
<1> QED BY <1>5, <1>6, <1>7

(* The worker's turn for a key: passed over, its row published, or the     *)
(* default put in force.                                                   *)
LEMMA TurnFacts ==
  ASSUME TypeOK, NEW k \in Keys, ApplySnapshotRow(k) \/ ApplyAbsentKey(k)
  PROVE  LET row == worker.snap[k] IN
         /\ k \in worker.todo /\ worker.arm.reconcile = reconcileGen
         /\ worker'.todo = worker.todo \ {k} /\ worker'.snap = worker.snap
         /\ worker'.arm = worker.arm /\ worker'.pc = worker.pc
         /\ \/ /\ UNCHANGED <<entries, fences, basis, late>>
               /\ unconfirmed' = unconfirmed
                  \/ /\ ~Present(row) /\ ~Touched(k) /\ ~Unusable(k) /\ Agreed(k)
                     /\ unconfirmed' = unconfirmed \ {k}
               /\ \/ Touched(k)
                  \/ Present(row) /\ ~Usable(row) /\ entries[k] # Nothing
                  \/ ~Present(row) /\ Agreed(k)
                  \/ ~Present(row) /\ Unusable(k) /\ unconfirmed' = unconfirmed
            \/ /\ ~Touched(k) /\ Usable(row)
               /\ Publish(k, row.rev, row.val, FALSE, row.at, Reopened(k))
               /\ Decided(k, FALSE)
            \/ /\ ~Touched(k) /\ ~Usable(row)
               /\ Present(row) => entries[k] = Nothing
               /\ ~Present(row) => entries[k] = Nothing \/ ~Unusable(k)
               /\ Publish(k, 0, Default, FALSE, row.at, {})
               /\ Decided(k, TRUE)
         /\ UNCHANGED <<db, commits, gone, wire, link, async,
                        stale, disconnectGen, reconcileGen, resyncPending, resyncSignal,
                        again, timers, windows, readers, writers, acked, removedAt>>
<1> DEFINE row == worker.snap[k]
<1>1. worker \in Worker
  BY DEF TypeOK
<1>2. k \in worker.todo /\ worker.arm.reconcile = reconcileGen
  BY DEF ApplySnapshotRow, ApplyAbsentKey, Superseded
<1>3. /\ worker'.todo = worker.todo \ {k} /\ worker'.snap = worker.snap
      /\ worker'.arm = worker.arm /\ worker'.pc = worker.pc
  <2>1. worker' = [worker EXCEPT !.todo = @ \ {k}]
    BY DEF ApplySnapshotRow, ApplyAbsentKey
  <2> QED BY <1>1, <2>1 DEF Worker
<1>4. UNCHANGED <<db, commits, gone, wire, link, async,
                  stale, disconnectGen, reconcileGen, resyncPending, resyncSignal,
                  again, timers, windows, readers, writers, acked, removedAt>>
  BY DEF ApplySnapshotRow, ApplyAbsentKey, storeVars, feedVars, armVars
<1>5. CASE ApplySnapshotRow(k)
  <2>1. Present(row)
    BY <1>5 DEF ApplySnapshotRow
  <2>2. \/ Touched(k) /\ UNCHANGED <<entries, fences, unconfirmed, basis, late>>
        \/ /\ ~Touched(k) /\ Usable(row)
           /\ Publish(k, row.rev, row.val, FALSE, row.at, Reopened(k)) /\ Decided(k, FALSE)
        \/ /\ ~Touched(k) /\ ~Usable(row) /\ entries[k] = Nothing
           /\ Publish(k, 0, Default, FALSE, row.at, {}) /\ Decided(k, TRUE)
        \/ /\ ~Touched(k) /\ ~Usable(row) /\ entries[k] # Nothing
           /\ UNCHANGED <<entries, fences, unconfirmed, basis, late>>
    BY <1>5 DEF ApplySnapshotRow, IngestDefault, cacheVars
  <2> HIDE DEF row
  <2> QED BY <1>2, <1>3, <1>4, <2>1, <2>2 DEF row
<1>6. CASE ApplyAbsentKey(k)
  <2>1. ~Present(row) /\ ~Usable(row)
    <3>1. ~Present(row)
      BY <1>2, <1>6 DEF ApplyAbsentKey
    <3> QED BY <3>1, NothingAssumption DEF Present, Usable
  <2>2. \/ /\ Touched(k) \/ (entries[k] # Nothing /\ (Unusable(k) \/ Agreed(k)))
           /\ unconfirmed' = IF ~Touched(k) /\ ~Unusable(k) THEN unconfirmed \ {k}
                             ELSE unconfirmed
           /\ UNCHANGED <<entries, fences, basis, late>>
        \/ /\ ~Touched(k)
           /\ entries[k] = Nothing \/ (~Unusable(k) /\ ~Agreed(k))
           /\ Publish(k, 0, Default, FALSE, row.at, {}) /\ Decided(k, TRUE)
    BY <1>6 DEF ApplyAbsentKey, KeepsCachedValue, IngestDefault
  <2> HIDE DEF row
  <2>3. CASE /\ Touched(k) \/ (entries[k] # Nothing /\ (Unusable(k) \/ Agreed(k)))
             /\ unconfirmed' = IF ~Touched(k) /\ ~Unusable(k) THEN unconfirmed \ {k}
                               ELSE unconfirmed
             /\ UNCHANGED <<entries, fences, basis, late>>
    <3>1. \/ unconfirmed' = unconfirmed
          \/ /\ ~Present(row) /\ ~Touched(k) /\ ~Unusable(k) /\ Agreed(k)
             /\ unconfirmed' = unconfirmed \ {k}
      BY <2>1, <2>3
    <3>2. \/ Touched(k)
          \/ ~Present(row) /\ Agreed(k)
          \/ ~Present(row) /\ Unusable(k) /\ unconfirmed' = unconfirmed
      BY <2>1, <2>3
    <3> QED BY <1>2, <1>3, <1>4, <2>3, <3>1, <3>2 DEF row
  <2>4. CASE /\ ~Touched(k)
             /\ entries[k] = Nothing \/ (~Unusable(k) /\ ~Agreed(k))
             /\ Publish(k, 0, Default, FALSE, row.at, {}) /\ Decided(k, TRUE)
    <3>1. entries[k] = Nothing \/ ~Unusable(k)
      BY <2>4
    <3> QED BY <1>2, <1>3, <1>4, <2>1, <2>4, <3>1 DEF row
  <2> QED BY <2>2, <2>3, <2>4
<1> QED BY <1>5, <1>6

-----------------------------------------------------------------------------
(* One step keeps what is known of rows, entries and fences. *)

NextFacts == RowsSound' /\ RowsFit' /\ EntriesSound' /\ PublicationsSound' /\ SnapshotAcked'

(* The windows the running reconcile looks at only gain touched keys. *)
LEMMA TouchedGrows ==
  ASSUME OrderInv, NEW k \in Keys, UNCHANGED worker,
         windows' = windows \/ Record(k, TRUE) \/ Record(k, FALSE)
  PROVE  \A j \in worker.todo : Touched(j) => Touched(j)'
<1>1. CASE windows' = windows
  BY <1>1 DEF Touched
<1>2. CASE Record(k, TRUE) \/ Record(k, FALSE)
  BY <1>2, RecordEffect
<1> QED BY <1>1, <1>2

(* While the store rests, rows in flight that stay or are none are sound. *)
LEMMA RowsSoundFrame ==
  ASSUME FactInv, UNCHANGED <<db, gone>>,
         \A k \in Keys : worker'.snap[k] \in {worker.snap[k], NoRow, db[k]},
         \A r \in Readers : readers'[r].row \in {readers[r].row, NoRow, db[Key(r)]},
         \A w \in Writers : \/ writers'[w].pc = "idle"
                            \/ /\ writers'[w].row = writers[w].row /\ writers[w].pc # "idle"
                               /\ writers'[w].key = writers[w].key
  PROVE  RowsSound'
<1>1. RowsSound /\ \A r \in Readers : Key(r) \in Keys
  BY DEF FactInv, Readers, Key
<1>2. ASSUME NEW r \in Readers
      PROVE  Sound(readers'[r].row, db'[Key(r)], gone'[Key(r)])
  BY <1>1, <1>2 DEF RowsSound
<1>3. ASSUME NEW k \in Keys
      PROVE  Sound(worker'.snap[k], db'[k], gone'[k])
  BY <1>1, <1>3 DEF RowsSound
<1>4. ASSUME NEW w \in Writers, writers'[w].pc # "idle"
      PROVE  Sound(writers'[w].row, db'[writers'[w].key], gone'[writers'[w].key])
  BY <1>1, <1>4 DEF RowsSound
<1> QED BY <1>1, <1>2, <1>3, <1>4 DEF RowsSound

(* A publication moves the counter of its key, and every re-read under way *)
(* sees that; readers that stay as they are or are past comparing.         *)
LEMMA PublicationsFrame ==
  ASSUME FactInv,
         \A k \in Keys : \/ fences'[k].publications = fences[k].publications
                            /\ basis'[k] = basis[k]
                         \/ fences'[k].publications = fences[k].publications + 1,
         \A r \in Readers : \/ readers'[r].pc \notin {"reading", "got"}
                            \/ /\ readers'[r].pc = readers[r].pc
                               /\ readers'[r].row = readers[r].row
                               /\ readers'[r].fence = readers[r].fence
  PROVE  PublicationsSound'
<1> SUFFICES ASSUME NEW r \in Readers, readers'[r].pc \in {"reading", "got"}
             PROVE  /\ readers'[r].fence.publications <= fences'[Key(r)].publications
                    /\ readers'[r].pc = "got"
                         /\ readers'[r].fence.publications = fences'[Key(r)].publications =>
                           basis'[Key(r)] <= readers'[r].row.at
  BY DEF PublicationsSound
<1>1. TypeOK
  BY DEF FactInv, OrderInv, OwnedInv, TypeInv
<1>2. /\ Key(r) \in Keys /\ readers[r].fence.publications \in Nat
      /\ fences[Key(r)].publications \in Nat
  BY <1>1, Numbers, MoreNumbers
<1>3. /\ readers'[r].pc = readers[r].pc /\ readers'[r].row = readers[r].row
      /\ readers'[r].fence = readers[r].fence
  OBVIOUS
<1>4. /\ readers[r].fence.publications <= fences[Key(r)].publications
      /\ readers[r].pc = "got" /\ readers[r].fence.publications = fences[Key(r)].publications =>
           basis[Key(r)] <= readers[r].row.at
  BY <1>3 DEF FactInv, PublicationsSound
<1> QED BY <1>2, <1>3, <1>4

(* Entries of keys nothing was published for. *)
LEMMA EntryFrame ==
  ASSUME FactInv, NEW k \in Keys, UNCHANGED <<db, gone>>,
         entries'[k] = entries[k], basis'[k] = basis[k], acked'[k] = acked[k],
         removedAt'[k] >= removedAt[k], removedAt'[k] \in Nat,
         late[k] = "write" => late'[k] = "write"
  PROVE  EntrySound(k)' /\ AckSound(k)' /\ Stands(k)'
<1>1. EntrySound(k) /\ AckSound(k) /\ Stands(k) /\ TypeOK
  BY DEF FactInv, EntriesSound, OrderInv, OwnedInv, TypeInv
<1>2. acked[k] \in Nat /\ removedAt[k] \in Nat
  BY <1>1, Numbers, MoreNumbers
<1>3. EntrySound(k)'
  BY <1>1 DEF EntrySound
<1>4. AckSound(k)'
  BY <1>1, <1>2 DEF AckSound
<1>5. Stands(k)'
  BY <1>1 DEF Stands
<1> QED BY <1>3, <1>4, <1>5

(* Commits. *)
LEMMA CommitFacts ==
  ASSUME FactInv, TypeOK', RemoteWrite \/ \E w \in Writers : ClientSet(w) \/ ClientDelete(w)
  PROVE  NextFacts
<1>1. TypeOK /\ RowsBehind /\ TypeInv /\ RowsSound /\ EntriesSound /\ RowsFit
  BY DEF FactInv, OrderInv, OwnedInv, TypeInv
<1>2. PICK k \in Keys :
        /\ \A j \in Keys : j # k => db'[j] = db[j] /\ gone'[j] = gone[j]
        /\ \/ db'[k] = db[k] /\ gone'[k] = gone[k]
           \/ /\ db'[k].at = commits + 1 /\ Named(db'[k])
              /\ gone'[k] = IF Present(db'[k]) THEN gone[k] ELSE commits + 1
        /\ \A w \in Writers :
             \/ writers'[w] = writers[w]
             \/ /\ writers'[w].key = k /\ writers'[w].row = db'[k]
                /\ Present(db'[k]) <=> writers'[w].pc # "deleted"
  BY <1>1, CommitEffect
<1>3. UNCHANGED <<entries, fences, windows, worker, readers, basis, acked, removedAt, late>>
  BY <1>1, CommitEffect
<1>4. \A j \in Keys : /\ db[j].at \in Nat /\ gone[j] \in Nat /\ basis[j] \in Nat
                      /\ acked[j] \in Nat /\ commits \in Nat
                      /\ db[j].at <= commits /\ gone[j] <= db[j].at /\ basis[j] <= db[j].at
                      /\ acked[j] <= db[j].at
  BY <1>1, Numbers, MoreNumbers DEF RowsBehind, RowsSound, EntriesSound, AckSound
<1>5. \A j \in Keys : \/ db'[j] = db[j] /\ gone'[j] = gone[j]
                      \/ /\ db'[j].at = commits + 1 /\ Named(db'[j])
                         /\ gone'[j] = IF Present(db'[j]) THEN gone[j] ELSE commits + 1
  BY <1>2
<1>6. ASSUME NEW j \in Keys, NEW row, row.at \in Nat, row.at <= db[j].at,
             Sound(row, db[j], gone[j])
      PROVE  Sound(row, db'[j], gone'[j])
  <2>1. CASE db'[j] = db[j] /\ gone'[j] = gone[j]
    BY <1>6, <2>1
  <2>2. CASE /\ db'[j].at = commits + 1
             /\ gone'[j] = IF Present(db'[j]) THEN gone[j] ELSE commits + 1
    <3>1. row.at <= commits /\ gone[j] <= commits /\ gone[j] \in Nat /\ commits \in Nat
      BY <1>4, <1>6
    <3>2. gone'[j] \in Nat /\ (gone'[j] = gone[j] \/ gone'[j] = commits + 1)
      BY <2>2, <3>1
    <3> QED BY <1>6, <2>2, <3>1, <3>2, SoundAfter
  <2> QED BY <1>5, <2>1, <2>2
<1>7. \A j \in Keys : Sound(db'[j], db'[j], gone'[j]) /\ gone'[j] <= db'[j].at
  <2> SUFFICES ASSUME NEW j \in Keys
               PROVE  Sound(db'[j], db'[j], gone'[j]) /\ gone'[j] <= db'[j].at
    OBVIOUS
  <2>1. CASE db'[j] = db[j] /\ gone'[j] = gone[j]
    BY <1>1, <2>1 DEF RowsSound
  <2>2. CASE /\ db'[j].at = commits + 1 /\ Named(db'[j])
             /\ gone'[j] = IF Present(db'[j]) THEN gone[j] ELSE commits + 1
    <3>1. gone[j] <= commits /\ gone[j] \in Nat /\ commits \in Nat
      BY <1>4
    <3>2. Sound(db'[j], db'[j], gone'[j])
      BY <2>2, <3>1, SoundNew
    <3> QED BY <2>2, <3>1, <3>2
  <2> QED BY <1>5, <2>1, <2>2
<1>8. RowsSound'
  <2>1. ASSUME NEW j \in Keys
        PROVE  Sound(NoRow, db'[j], gone'[j]) /\ Sound(worker'.snap[j], db'[j], gone'[j])
    <3>1. Sound(NoRow, db[j], gone[j]) /\ NoRow.at \in Nat /\ NoRow.at <= db[j].at
      BY <1>1, <1>4 DEF RowsSound, NoRow
    <3>2. /\ Sound(worker.snap[j], db[j], gone[j]) /\ worker.snap[j].at \in Nat
          /\ worker.snap[j].at <= db[j].at
      BY <1>1, Numbers DEF RowsSound, RowsBehind
    <3> QED BY <1>3, <1>6, <3>1, <3>2
  <2>2. ASSUME NEW r \in Readers
        PROVE  Sound(readers'[r].row, db'[Key(r)], gone'[Key(r)])
    BY <1>1, <1>3, <1>6, Numbers DEF RowsSound, RowsBehind
  <2>3. ASSUME NEW w \in Writers, writers'[w].pc # "idle"
        PROVE  Sound(writers'[w].row, db'[writers'[w].key], gone'[writers'[w].key])
    <3>1. CASE writers'[w] = writers[w]
      <4>1. writers[w].key \in Keys
        BY <1>1, <2>3, <3>1 DEF TypeInv, WritersHold
      <4> QED BY <1>1, <1>6, <2>3, <3>1, <4>1, Numbers DEF RowsSound, RowsBehind
    <3>2. CASE writers'[w].key = k /\ writers'[w].row = db'[k]
      BY <1>7, <3>2
    <3> QED BY <1>2, <3>1, <3>2
  <2> QED BY <1>7, <2>1, <2>2, <2>3 DEF RowsSound
<1>9. RowsFit'
  BY <1>1, <1>2, <1>3 DEF RowsFit
<1>10. EntriesSound'
  <2> SUFFICES ASSUME NEW j \in Keys PROVE EntrySound(j)' /\ AckSound(j)' /\ Stands(j)'
    BY DEF EntriesSound
  <2>1. EntrySound(j) /\ AckSound(j) /\ Stands(j)
    BY <1>1 DEF EntriesSound
  <2>2. /\ gone'[j] = gone[j] \/ gone'[j] = commits + 1
        /\ db'[j].at = db[j].at \/ db'[j].at = commits + 1
    BY <1>5
  <2>3. EntrySound(j)'
    <3>1. basis[j] <= gone[j] => basis[j] <= gone'[j]
      BY <1>4, <2>2
    <3> QED BY <1>3, <2>1, <3>1 DEF EntrySound
  <2>4. AckSound(j)'
    <3>1. acked[j] <= db'[j].at /\ (gone'[j] = acked[j] => gone[j] = acked[j])
      BY <1>4, <2>2
    <3> QED BY <1>3, <2>1, <3>1 DEF AckSound
  <2>5. Stands(j)'
    <3>1. gone[j] > acked[j] => gone'[j] > acked[j]
      BY <1>4, <2>2
    <3> QED BY <1>3, <2>1, <3>1 DEF Stands
  <2> QED BY <2>3, <2>4, <2>5
<1>11. PublicationsSound' /\ SnapshotAcked'
  BY <1>3 DEF FactInv, PublicationsSound, SnapshotAcked, Touched
<1> QED BY <1>8, <1>9, <1>10, <1>11 DEF NextFacts

(* A publication of a row: what it leaves the key with, when it is no      *)
(* older than the newest acknowledged write, or comes from a re-read that  *)
(* has seen the removals reported.                                         *)
LEMMA PublishedSound ==
  ASSUME FactInv, NEW k \in Keys, UNCHANGED <<db, gone, acked>>,
         NEW row \in Row, Sound(row, db[k], gone[k]), row.at <= db[k].at,
         removedAt'[k] = removedAt[k],
         \/ Present(row) /\ (Took(k, row.rev, row.val, FALSE, row.at) \/ Kept(k, row.rev, row.val))
         \/ /\ Took(k, 0, Default, FALSE, row.at)
            /\ ~Present(row) \/ entries[k] = Nothing
            /\ basis[k] <= row.at,
         late[k] = "write" => late'[k] = "write" \/ row.at = db[k].at,
         acked[k] <= row.at \/ removedAt[k] <= row.at
  PROVE  EntrySound(k)' /\ AckSound(k)' /\ Stands(k)'
<1>1. TypeOK /\ EntrySound(k) /\ AckSound(k) /\ Stands(k)
  BY DEF FactInv, OrderInv, OwnedInv, TypeInv, EntriesSound
<1>2. /\ row.at \in Nat /\ row.rev \in Nat /\ row.val \in Values \cup {Nothing}
      /\ basis[k] \in Nat /\ acked[k] \in Nat /\ gone[k] \in Nat /\ removedAt[k] \in Nat
      /\ db[k].at \in Nat
      /\ entries[k] # Nothing => entries[k].rev \in Nat
  BY <1>1, Numbers, MoreNumbers DEF Row
<1>3. Default \in Values /\ \A v \in Values : [rev |-> row.rev, val |-> v] # Nothing
                                              /\ [rev |-> 0, val |-> v] # Nothing
  BY <1>2, ValuesAssumption, EntryAssumption DEF Entry
<1>4. AckSound(k)'
  BY <1>1 DEF AckSound
<1>5. CASE Present(row) /\ Took(k, row.rev, row.val, FALSE, row.at)
  <2>1. row.rev = row.at /\ row.rev # 0 /\ row.val \in Values
    BY <1>2, <1>5 DEF Sound, Named, Present
  <2>2. entries'[k] = [rev |-> row.rev, val |-> row.val] /\ basis'[k] = row.at
    BY <1>5 DEF Took
  <2>3. entries'[k] # Nothing /\ entries'[k].rev = row.at
    BY <1>3, <2>1, <2>2
  <2>4. EntrySound(k)'
    BY <2>1, <2>2, <2>3 DEF EntrySound
  <2>5. Stands(k)'
    <3>1. CASE acked[k] <= row.at
      BY <1>2, <2>2, <3>1 DEF Stands
    <3>2. CASE late[k] = "write" /\ ~(acked[k] <= row.at)
      <4>1. late'[k] = "write"
        BY <1>1, <3>2 DEF AckSound
      <4> QED BY <4>1 DEF Stands
    <3>3. CASE gone[k] > acked[k]
      BY <3>3 DEF Stands
    <3>4. CASE basis[k] >= acked[k] /\ ~(gone[k] > acked[k]) /\ ~(acked[k] <= row.at)
      <4>1. entries[k] # Nothing /\ row.at >= entries[k].rev
        BY <1>1, <1>2, <1>5, <2>1, <3>4 DEF Took, EntrySound
      <4>2. CASE entries[k].rev # 0
        BY <1>1, <1>2, <3>4, <4>1, <4>2 DEF EntrySound
      <4>3. CASE entries[k].rev = 0
        <5>1. acked[k] = 0 \/ basis[k] <= gone[k]
          BY <1>1, <4>1, <4>3 DEF EntrySound
        <5>2. acked[k] # 0
          BY <1>2, <3>4
        <5>3. gone[k] = acked[k]
          BY <1>2, <3>4, <5>1, <5>2
        <5>4. acked[k] <= removedAt[k]
          BY <1>1, <5>3 DEF AckSound
        <5> QED BY <1>2, <3>4, <5>4
      <4> QED BY <4>2, <4>3
    <3> QED BY <1>1, <3>1, <3>2, <3>3, <3>4 DEF Stands
  <2> QED BY <1>4, <2>4, <2>5
<1>6. CASE Present(row) /\ Kept(k, row.rev, row.val)
  <2>1. /\ entries'[k] = entries[k] /\ basis'[k] = basis[k]
        /\ entries[k] # Nothing /\ row.rev # 0
        /\ entries[k].rev > row.rev \/ entries[k].rev = row.rev
    BY <1>6 DEF Kept
  <2>2. EntrySound(k)'
    BY <1>1, <2>1 DEF EntrySound
  <2>3. entries[k].rev = basis[k] /\ row.rev = row.at
    BY <1>1, <1>2, <1>6, <2>1 DEF EntrySound, Sound, Named
  <2>4. basis[k] >= row.at
    BY <1>2, <2>1, <2>3
  <2>5. Stands(k)'
    <3>1. late[k] = "write" => late'[k] = "write" \/ basis[k] >= acked[k]
      BY <1>1, <1>2, <2>4 DEF AckSound
    <3> QED BY <1>1, <2>1, <3>1 DEF Stands
  <2> QED BY <1>4, <2>2, <2>5
<1>7. CASE /\ Took(k, 0, Default, FALSE, row.at)
           /\ ~Present(row) \/ entries[k] = Nothing
           /\ basis[k] <= row.at
  <2>1. entries'[k] = [rev |-> 0, val |-> Default] /\ basis'[k] = row.at
    BY <1>7 DEF Took
  <2>2. entries'[k] # Nothing /\ entries'[k].rev = 0
    BY <1>3, <2>1
  <2>3. acked[k] = 0 \/ row.at <= gone[k]
    BY <1>1, <1>7 DEF EntrySound, Sound
  <2>4. EntrySound(k)'
    BY <2>1, <2>2, <2>3 DEF EntrySound
  <2>5. Stands(k)'
    <3>1. late[k] = "write" => late'[k] = "write" \/ row.at >= acked[k]
      BY <1>1, <1>2 DEF AckSound
    <3>2. basis[k] >= acked[k] => row.at >= acked[k]
      BY <1>2, <1>7
    <3> QED BY <1>1, <2>1, <3>1, <3>2 DEF Stands
  <2> QED BY <1>4, <2>4, <2>5
<1> QED BY <1>5, <1>6, <1>7

(* Local writes being applied: one told to its caller is in force, or the  *)
(* store has moved past it.                                                *)
LEMMA WriterKeeps ==
  ASSUME FactInv, TypeOK', NEW w \in Writers,
         PublishBegin(w) \/ PublishEnd(w) \/ PublishDelete(w)
  PROVE  NextFacts
<1>0. PICK k \in Keys, row \in Row : k = writers[w].key /\ row = writers[w].row
  <2>1. TypeInv /\ TypeOK
    BY DEF FactInv, OrderInv, OwnedInv, TypeInv
  <2> QED BY <2>1, WriterFacts, MoreNumbers
<1>1. /\ TypeOK /\ RowsBehind /\ TypeInv /\ RowsSound /\ EntriesSound /\ RowsFit /\ OrderInv
      /\ SnapshotAcked
  BY DEF FactInv, OrderInv, OwnedInv, TypeInv
<1>2. /\ k \in Keys /\ writers[w].pc # "idle"
      /\ \A u \in Writers : u # w => writers'[u] = writers[u]
      /\ UNCHANGED <<db, gone, worker, readers>>
  BY <1>0, <1>1, WriterFacts
<1>3. /\ Sound(row, db[k], gone[k]) /\ row.at <= db[k].at
      /\ Present(row) <=> writers[w].pc # "deleted"
  BY <1>0, <1>1, <1>2 DEF RowsSound, RowsBehind, RowsFit
<1>4. /\ row.at \in Nat /\ row.rev \in Nat /\ row.val \in Values \cup {Nothing}
      /\ basis[k] \in Nat /\ acked[k] \in Nat /\ gone[k] \in Nat /\ removedAt[k] \in Nat
      /\ db[k].at \in Nat /\ late \in [Keys -> {"no", "write", "reread", "repair"}]
      /\ entries[k] # Nothing => entries[k].rev \in Nat
  <2>1. row \in Row /\ late \in [Keys -> {"no", "write", "reread", "repair"}]
    BY <1>1, MoreNumbers DEF TypeOK
  <2> QED BY <1>1, <1>2, <2>1, Numbers, MoreNumbers DEF Row
<1>5. EntrySound(k) /\ AckSound(k) /\ Stands(k)
  BY <1>1, <1>2 DEF EntriesSound
<1>6. worker.todo \subseteq Keys
  BY <1>1 DEF TypeOK, Worker
<1>7. CASE /\ writers[w].pc = "written" /\ writers'[w].pc = "grading"
           /\ writers'[w].key = k /\ writers'[w].row = row
           /\ Record(k, FALSE)
           /\ UNCHANGED <<entries, fences, unconfirmed, basis, acked, removedAt, late>>
  <2>1. RowsSound'
    BY <1>0, <1>2, <1>7, RowsSoundFrame
  <2>2. RowsFit'
    BY <1>0, <1>1, <1>2, <1>7 DEF RowsFit
  <2>3. EntriesSound'
    BY <1>1, <1>2, <1>7 DEF EntriesSound, EntrySound, AckSound, Stands
  <2>4. PublicationsSound'
    BY <1>2, <1>7 DEF FactInv, PublicationsSound
  <2>5. SnapshotAcked'
    <3>1. \A j \in worker.todo : Touched(j) => Touched(j)'
      BY <1>1, <1>2, <1>7, TouchedGrows
    <3> QED BY <1>1, <1>2, <1>7, <3>1 DEF SnapshotAcked
  <2> QED BY <2>1, <2>2, <2>3, <2>4, <2>5 DEF NextFacts
<1>8. ASSUME NEW rev \in Nat, NEW val, NEW deleted \in BOOLEAN,
             Publish(k, rev, val, deleted, row.at, {}), Record(k, TRUE),
             writers'[w].pc = "idle",
             acked'[k] = IF row.at > acked[k] THEN row.at ELSE acked[k],
             \A j \in Keys : j # k => acked'[j] = acked[j] /\ removedAt'[j] = removedAt[j],
             WriteOvertaken(k, row),
             EntrySound(k)' /\ AckSound(k)' /\ Stands(k)'
      PROVE  NextFacts
  <2>1. RowsSound'
    BY <1>2, <1>8, RowsSoundFrame
  <2>2. RowsFit'
    BY <1>1, <1>2, <1>8 DEF RowsFit
  <2>3. /\ \A j \in Keys : j # k => /\ entries'[j] = entries[j] /\ fences'[j] = fences[j]
                                    /\ basis'[j] = basis[j]
        /\ Took(k, rev, val, deleted, row.at) \/ Kept(k, rev, val)
    <3>1. Publish(k, rev, val, deleted, row.at, {})
      BY <1>8
    <3>2. CASE deleted = TRUE
      BY <1>1, <3>1, <3>2, PublishFacts
    <3>3. CASE deleted = FALSE
      BY <1>1, <3>1, <3>3, PublishFacts
    <3> QED BY <3>2, <3>3
  <2>4. EntriesSound'
    <3> SUFFICES ASSUME NEW j \in Keys, j # k PROVE EntrySound(j)' /\ AckSound(j)' /\ Stands(j)'
      BY <1>8 DEF EntriesSound
    <3>1. late'[j] = late[j]
      BY <1>4, <1>8 DEF WriteOvertaken
    <3>2. removedAt'[j] >= removedAt[j] /\ removedAt'[j] \in Nat
      BY <1>1, <1>8, Numbers
    <3> QED BY <1>2, <1>8, <2>3, <3>1, <3>2, EntryFrame
  <2>5. PublicationsSound'
    <3>1. \A j \in Keys : \/ fences'[j].publications = fences[j].publications
                             /\ basis'[j] = basis[j]
                          \/ fences'[j].publications = fences[j].publications + 1
      BY <2>3 DEF Took, Kept
    <3> QED BY <1>2, <3>1, PublicationsFrame
  <2>6. SnapshotAcked'
    <3>1. \A j \in worker.todo : (Touched(j) => Touched(j)') /\ (j = k => Touched(j)')
      BY <1>1, <1>2, <1>8, RecordEffect
    <3> QED BY <1>1, <1>2, <1>6, <1>8, <3>1 DEF SnapshotAcked
  <2> QED BY <2>1, <2>2, <2>4, <2>5, <2>6 DEF NextFacts
<1>9. CASE /\ writers[w].pc = "grading" /\ writers'[w].pc = "idle"
           /\ Publish(k, row.rev, row.val, FALSE, row.at, {})
           /\ Record(k, TRUE)
           /\ acked'[k] = IF row.at > acked[k] THEN row.at ELSE acked[k]
           /\ \A j \in Keys : j # k => acked'[j] = acked[j]
           /\ removedAt' = removedAt
           /\ WriteOvertaken(k, row)
  <2>1. Took(k, row.rev, row.val, FALSE, row.at) \/ Kept(k, row.rev, row.val)
    BY <1>1, <1>2, <1>4, <1>9, PublishFacts
  <2>2. Present(row) /\ row.rev = row.at /\ row.rev # 0 /\ row.val \in Values
    BY <1>3, <1>4, <1>9 DEF Sound, Named, Present
  <2>3. AckSound(k)'
    <3>1. acked'[k] <= db[k].at
      BY <1>3, <1>4, <1>5, <1>9 DEF AckSound
    <3>2. gone[k] = acked'[k] => acked'[k] <= removedAt[k]
      <4>1. row.at # gone[k]
        BY <1>3, <2>2 DEF Sound
      <4> QED BY <1>4, <1>5, <1>9, <4>1 DEF AckSound
    <3> QED BY <1>2, <1>9, <3>1, <3>2 DEF AckSound
  <2>4. acked'[k] \in Nat /\ acked'[k] <= db[k].at
    BY <1>3, <1>4, <1>5, <1>9 DEF AckSound
  <2>5. late'[k] = IF row.at # db[k].at THEN "write" ELSE "no"
    BY <1>2, <1>4, <1>9 DEF WriteOvertaken
  <2>6. CASE Took(k, row.rev, row.val, FALSE, row.at)
    <3>1. entries'[k] = [rev |-> row.rev, val |-> row.val] /\ basis'[k] = row.at
      BY <2>6 DEF Took
    <3>2. entries'[k] # Nothing /\ entries'[k].rev = row.at
      BY <1>4, <2>2, <3>1, EntryAssumption DEF Entry
    <3>3. EntrySound(k)'
      BY <2>2, <3>1, <3>2 DEF EntrySound
    <3>4. Stands(k)'
      BY <1>2, <2>4, <2>5, <3>1 DEF Stands
    <3> QED BY <1>4, <1>8, <1>9, <2>3, <3>3, <3>4
  <2>7. CASE Kept(k, row.rev, row.val)
    <3>1. /\ entries'[k] = entries[k] /\ basis'[k] = basis[k]
          /\ entries[k] # Nothing
          /\ entries[k].rev > row.rev \/ entries[k].rev = row.rev
      BY <2>7 DEF Kept
    <3>2. entries[k].rev # 0
      BY <1>4, <2>2, <3>1
    <3>3. EntrySound(k)'
      BY <1>5, <3>1, <3>2 DEF EntrySound
    <3>4. basis[k] >= row.at
      BY <1>4, <1>5, <2>2, <3>1, <3>2 DEF EntrySound
    <3>5. Stands(k)'
      BY <1>2, <1>4, <2>4, <2>5, <3>1, <3>4 DEF Stands
    <3> QED BY <1>4, <1>8, <1>9, <2>3, <3>3, <3>5
  <2> QED BY <2>1, <2>6, <2>7
<1>10. CASE /\ writers[w].pc = "deleted" /\ writers'[w].pc = "idle"
            /\ Publish(k, 0, Default, TRUE, row.at, {})
            /\ Record(k, TRUE)
            /\ acked'[k] = IF row.at > acked[k] THEN row.at ELSE acked[k]
            /\ removedAt'[k] = IF row.at > removedAt[k] THEN row.at ELSE removedAt[k]
            /\ \A j \in Keys : j # k => acked'[j] = acked[j] /\ removedAt'[j] = removedAt[j]
            /\ WriteOvertaken(k, row)
  <2>1. Took(k, 0, Default, TRUE, row.at)
    BY <1>1, <1>2, <1>4, <1>10, PublishFacts DEF Kept
  <2>2. row.at <= gone[k]
    BY <1>3, <1>10 DEF Sound
  <2>3. AckSound(k)'
    <3>1. acked'[k] <= db[k].at
      BY <1>3, <1>4, <1>5, <1>10 DEF AckSound
    <3>2. gone[k] = acked'[k] => acked'[k] <= removedAt'[k]
      <4>1. CASE row.at > acked[k]
        BY <1>4, <1>10, <4>1
      <4>2. CASE ~(row.at > acked[k])
        BY <1>4, <1>5, <1>10, <4>2 DEF AckSound
      <4> QED BY <4>1, <4>2
    <3> QED BY <1>2, <3>1, <3>2 DEF AckSound
  <2>4. acked'[k] \in Nat /\ acked'[k] <= db[k].at
    BY <1>3, <1>4, <1>5, <1>10 DEF AckSound
  <2>5. late'[k] = IF row.at # db[k].at THEN "write" ELSE "no"
    BY <1>2, <1>4, <1>10 DEF WriteOvertaken
  <2>6. entries'[k] = [rev |-> 0, val |-> Default] /\ basis'[k] = row.at
    BY <2>1 DEF Took
  <2>7. entries'[k] # Nothing /\ entries'[k].rev = 0
    BY <2>6, ValuesAssumption, EntryAssumption DEF Entry
  <2>8. EntrySound(k)'
    BY <1>2, <2>2, <2>6, <2>7 DEF EntrySound
  <2>9. Stands(k)'
    BY <1>2, <2>4, <2>5, <2>6 DEF Stands
  <2> QED BY <1>8, <1>10, <2>3, <2>8, <2>9
<1>11. \/ /\ writers[w].pc = "written" /\ writers'[w].pc = "grading"
          /\ writers'[w].key = k /\ writers'[w].row = row
          /\ Record(k, FALSE)
          /\ UNCHANGED <<entries, fences, unconfirmed, basis, acked, removedAt, late>>
       \/ /\ writers[w].pc = "grading" /\ writers'[w].pc = "idle"
          /\ Publish(k, row.rev, row.val, FALSE, row.at, {})
          /\ Record(k, TRUE)
          /\ acked'[k] = IF row.at > acked[k] THEN row.at ELSE acked[k]
          /\ \A j \in Keys : j # k => acked'[j] = acked[j]
          /\ removedAt' = removedAt
          /\ WriteOvertaken(k, row)
       \/ /\ writers[w].pc = "deleted" /\ writers'[w].pc = "idle"
          /\ Publish(k, 0, Default, TRUE, row.at, {})
          /\ Record(k, TRUE)
          /\ acked'[k] = IF row.at > acked[k] THEN row.at ELSE acked[k]
          /\ removedAt'[k] = IF row.at > removedAt[k] THEN row.at ELSE removedAt[k]
          /\ \A j \in Keys : j # k => acked'[j] = acked[j] /\ removedAt'[j] = removedAt[j]
          /\ WriteOvertaken(k, row)
  BY <1>0, <1>1, WriterFacts, ZenonT(40)
<1> QED BY <1>7, <1>9, <1>10, <1>11

(* The connection's steps leave the cache, the re-reads and the running    *)
(* reconcile's window alone.                                               *)
LEMMA LinkFacts ==
  ASSUME OrderInv, LoseConnection \/ OnDisconnect \/ Reconnect \/ OnResync
  PROVE  /\ UNCHANGED <<db, commits, gone, async, entries, fences, unconfirmed, again, worker,
                        timers, readers, writers, basis, acked, removedAt, late>>
         /\ worker.todo # {} =>
              windows'[worker.arm.reconcile] = windows[worker.arm.reconcile]
<1>1. UNCHANGED <<db, commits, gone, async, entries, fences, unconfirmed, again, worker,
                  timers, readers, writers, basis, acked, removedAt, late>>
  BY DEF LoseConnection, OnDisconnect, Reconnect, OnResync, storeVars, feedVars, cacheVars,
         historyVars
<1>2. CASE LoseConnection \/ OnDisconnect \/ Reconnect
  <2>1. UNCHANGED windows
    BY <1>2 DEF LoseConnection, OnDisconnect, Reconnect
  <2> QED BY <1>1, <2>1
<1>3. CASE OnResync
  <2> SUFFICES ASSUME worker.todo # {}
               PROVE  windows'[worker.arm.reconcile] = windows[worker.arm.reconcile]
    BY <1>1
  <2> DEFINE gen == reconcileGen + 1
             g == worker.arm.reconcile
  <2>1. windows' = [h \in DOMAIN CloseWindow(windows, resyncPending.reconcile) \cup {gen} |->
                      IF h = gen THEN [touched |-> {}, unusable |-> {}]
                      ELSE CloseWindow(windows, resyncPending.reconcile)[h]]
    BY <1>3 DEF OnResync, ArmReconcile
  <2>2. reconcileGen \in Nat /\ worker \in Worker
    BY DEF OrderInv, OwnedInv, TypeInv, TypeOK
  <2>3. g # 0
    BY DEF OrderInv, ArmingsNamed, Holding
  <2>4. g <= reconcileGen /\ g # resyncPending.reconcile /\ g \in DOMAIN windows
    BY <2>3 DEF OrderInv, OwnedInv, ArmingsDistinct, WindowsOwned
  <2>5. g \in Nat
    BY <2>2 DEF Worker, Arming
  <2>6. g # gen
    BY <2>2, <2>4, <2>5
  <2> QED BY <2>1, <2>4, <2>6 DEF CloseWindow
<1> QED BY <1>2, <1>3

(* Steps of the connection. *)
LEMMA LinkKeeps ==
  ASSUME FactInv, LoseConnection \/ OnDisconnect \/ Reconnect \/ OnResync
  PROVE  NextFacts
<1>1. OrderInv /\ RowsSound /\ RowsFit /\ EntriesSound /\ PublicationsSound /\ SnapshotAcked
  BY DEF FactInv
<1>2. /\ UNCHANGED <<db, commits, gone, entries, fences, worker, readers, writers, basis,
                     acked, removedAt, late>>
      /\ worker.todo # {} => windows'[worker.arm.reconcile] = windows[worker.arm.reconcile]
  BY <1>1, LinkFacts
<1>3. RowsSound' /\ RowsFit' /\ PublicationsSound'
  BY <1>1, <1>2 DEF RowsSound, RowsFit, PublicationsSound
<1>4. EntriesSound'
  BY <1>1, <1>2 DEF EntriesSound, EntrySound, AckSound, Stands
<1>5. SnapshotAcked'
  BY <1>1, <1>2 DEF SnapshotAcked, Touched
<1> QED BY <1>3, <1>4, <1>5 DEF NextFacts

(* A re-read as a quiet step leaves it: as it was, done or begun, or past  *)
(* comparing with its row kept.                                            *)
Quieted(x, y) ==
  \/ y = x
  \/ y.pc \in {"idle", "start", "repair", "grading"} /\ (y.row = x.row \/ y.row = NoRow)

(* A quiet step: re-reads come and go, and removals may be reported. *)
LEMMA QuietKeeps ==
  ASSUME FactInv, TypeOK', NEW k \in Keys,
         UNCHANGED <<db, gone, entries, worker, writers, basis, acked>>,
         windows' = windows \/ Record(k, TRUE) \/ Record(k, FALSE),
         \A j \in Keys : /\ fences'[j].publications = fences[j].publications
                         /\ removedAt'[j] >= removedAt[j]
                         /\ late[j] = "write" => late'[j] = "write",
         \A r \in Readers : /\ Quieted(readers[r], readers'[r])
                            /\ readers'[r].pc = "grading" => Present(readers'[r].row)
  PROVE  NextFacts
<1>1. /\ OrderInv /\ RowsSound /\ RowsFit /\ EntriesSound /\ PublicationsSound /\ SnapshotAcked
      /\ removedAt' \in [Keys -> Nat]
  BY DEF FactInv, TypeOK
<1>2. \A r \in Readers : readers'[r].row \in {readers[r].row, NoRow}
  BY DEF Quieted
<1>3. RowsSound'
  BY <1>2, RowsSoundFrame
<1>4. RowsFit'
  BY <1>1 DEF RowsFit
<1>5. EntriesSound'
  <2> SUFFICES ASSUME NEW j \in Keys PROVE EntrySound(j)' /\ AckSound(j)' /\ Stands(j)'
    BY DEF EntriesSound
  <2> QED BY <1>1, EntryFrame
<1>6. PublicationsSound'
  BY PublicationsFrame DEF Quieted
<1>7. SnapshotAcked'
  <2>1. \A j \in worker.todo : Touched(j) => Touched(j)'
    BY <1>1, TouchedGrows
  <2> QED BY <1>1, <2>1 DEF SnapshotAcked
<1> QED BY <1>3, <1>4, <1>5, <1>6, <1>7 DEF NextFacts

(* The end of a re-read is quiet. *)
LEMMA EndsQuietly ==
  ASSUME NEW r \in Readers, Ends(r)
  PROVE  Quieted(readers[r], readers'[r]) /\ readers'[r].pc \in {"idle", "start"}
BY DEF Ends, Quieted, Done, Begun

(* Events and timers. *)
LEMMA EventKeeps ==
  ASSUME FactInv, TypeOK',
         OnEvent \/ \E k \in Keys, op \in {"upsert", "delete"} : TrackedRefresh(k, op)
  PROVE  NextFacts
<1>1. TypeOK /\ RowsFit
  BY DEF FactInv, OrderInv, OwnedInv, TypeInv
<1>2. \A j \in Keys : removedAt[j] \in Nat
  BY <1>1, Numbers
<1>3. CASE OnEvent
  <2>1. PICK ev : ev = Head(wire)
    OBVIOUS
  <2>2. PICK k \in Keys, r \in Readers : k = ev.key /\ r = <<k, "refresh">>
    BY <1>1, <1>3, <2>1, EventFacts
  <2>3. /\ \A j \in Keys : j # k => /\ fences'[j] = fences[j] /\ removedAt'[j] = removedAt[j]
        /\ \A q \in Readers : q # r => readers'[q] = readers[q]
        /\ UNCHANGED <<db, gone, entries, worker, writers, basis, acked, late>>
    BY <1>1, <1>3, <2>1, <2>2, EventFacts
  <2>4. /\ fences'[k].publications = fences[k].publications
        /\ \/ removedAt'[k] = IF ev.at > removedAt[k] THEN ev.at ELSE removedAt[k]
           \/ removedAt'[k] = removedAt[k]
        /\ windows' = windows \/ Record(k, TRUE)
        /\ ev.at \in Nat
    BY <1>1, <1>3, <2>1, <2>2, EventFacts
  <2>5. readers'[r] = readers[r] \/ Begun(readers'[r], ev.op = "delete")
    BY <1>1, <1>3, <2>1, <2>2, EventFacts
  <2>6. \A q \in Readers : Quieted(readers[q], readers'[q])
                           /\ (readers'[q].pc = "grading" => Present(readers'[q].row))
    BY <1>1, <2>3, <2>5 DEF Quieted, Begun, RowsFit
  <2>7. \A j \in Keys : removedAt'[j] >= removedAt[j]
                        /\ fences'[j].publications = fences[j].publications
    BY <1>2, <2>3, <2>4
  <2> QED BY <2>3, <2>4, <2>6, <2>7, QuietKeeps
<1>4. ASSUME NEW k \in Keys, NEW op \in {"upsert", "delete"}, TrackedRefresh(k, op)
      PROVE  NextFacts
  <2>1. PICK r \in Readers : r = <<k, "refresh">>
    BY DEF Readers, Kinds
  <2>2. /\ \A q \in Readers : q # r => readers'[q] = readers[q]
        /\ readers'[r] = readers[r] \/ Begun(readers'[r], op = "delete")
        /\ UNCHANGED <<db, gone, entries, fences, windows, worker, writers, basis, acked,
                       removedAt, late>>
    BY <1>1, <1>4, <2>1, TimerFacts
  <2>3. \A q \in Readers : Quieted(readers[q], readers'[q])
                           /\ (readers'[q].pc = "grading" => Present(readers'[q].row))
    BY <1>1, <2>2 DEF Quieted, Begun, RowsFit
  <2> QED BY <1>2, <2>2, <2>3, QuietKeeps
<1> QED BY <1>3, <1>4

(* Re-reads under way, and those ending with nothing to publish. *)
LEMMA ReadingKeeps ==
  ASSUME FactInv, TypeOK', NEW r \in Readers,
         \/ ArmRead(r) \/ GetRow(r) \/ GetFails(r) \/ IngestBegin(r)
         \/ NoRowForUpsert(r) \/ RetryRefresh(r)
  PROVE  NextFacts
<1>1. TypeOK /\ RowsFit /\ OrderInv /\ RowsBehind /\ PublicationsSound
  BY DEF FactInv, OrderInv, OwnedInv, TypeInv
<1>2. \A j \in Keys : removedAt[j] \in Nat /\ fences[j].publications \in Nat /\ db[j].at \in Nat
  BY <1>1, Numbers, MoreNumbers
<1>3. CASE GetFails(r) \/ IngestBegin(r)
  <2>1. /\ \A q \in Readers : q # r => readers'[q] = readers[q]
        /\ UNCHANGED <<db, gone, entries, fences, worker, writers, basis, acked,
                       removedAt, late>>
        /\ Key(r) \in Keys /\ Record(Key(r), FALSE)
    BY <1>1, <1>3, ReadingFacts DEF GetFails, IngestBegin
  <2>2. /\ readers'[r].row = readers[r].row
        /\ \/ readers'[r].pc = "repair"
           \/ readers'[r].pc = "grading" /\ Present(readers[r].row)
    <3>1. readers[r].pc = "reading" \/ (readers[r].pc = "got" /\ Present(readers[r].row))
      BY <1>3 DEF GetFails, IngestBegin
    <3>2. readers'[r].pc \in {"repair", "grading"}
      <4>1. readers \in [Readers -> Reader] /\ readers[r] \in Reader
        BY <1>1 DEF TypeOK
      <4>2. \/ readers' = [readers EXCEPT ![r] = [@ EXCEPT !.pc = "repair", !.fence = NoFence]]
            \/ readers' = [readers EXCEPT ![r].pc = "grading"]
        BY <1>3 DEF GetFails, IngestBegin
      <4> QED BY <4>1, <4>2 DEF Reader
    <3> QED BY <1>1, <1>3, <3>1, <3>2, ReadingFacts
  <2>3. \A q \in Readers : Quieted(readers[q], readers'[q])
                           /\ (readers'[q].pc = "grading" => Present(readers'[q].row))
    BY <1>1, <2>1, <2>2 DEF Quieted, RowsFit
  <2>4. \A j \in Keys : /\ fences'[j].publications = fences[j].publications
                        /\ removedAt'[j] >= removedAt[j]
                        /\ late[j] = "write" => late'[j] = "write"
    BY <1>2, <2>1
  <2>5. windows' = windows \/ Record(Key(r), TRUE) \/ Record(Key(r), FALSE)
    BY <2>1
  <2> QED BY <2>1, <2>3, <2>4, <2>5, QuietKeeps
<1>4. CASE ArmRead(r) \/ GetRow(r)
  <2>1. /\ \A q \in Readers : q # r => readers'[q] = readers[q]
        /\ UNCHANGED <<db, gone, entries, fences, windows, worker, writers, basis, acked,
                       removedAt, late>>
        /\ Key(r) \in Keys
    BY <1>1, <1>4, ReadingFacts DEF ArmRead, GetRow
  <2>2. \/ /\ readers'[r].pc = "reading" /\ readers'[r].fence = fences[Key(r)]
           /\ readers'[r].row = readers[r].row
        \/ /\ readers[r].pc = "reading" /\ readers'[r].pc = "got"
           /\ readers'[r].fence = readers[r].fence /\ readers'[r].row = db[Key(r)]
    <3>1. readers'[r].pc \in {"reading", "got"}
      <4>1. readers \in [Readers -> Reader] /\ readers[r] \in Reader
        BY <1>1 DEF TypeOK
      <4>2. CASE ArmRead(r)
        BY <4>1, <4>2 DEF ArmRead, Reader
      <4>3. CASE GetRow(r)
        BY <4>1, <4>3 DEF GetRow, Reader
      <4> QED BY <1>4, <4>2, <4>3
    <3> QED BY <1>1, <1>4, <3>1, ReadingFacts
  <2>3. RowsSound'
    BY <2>1, <2>2, RowsSoundFrame
  <2>4. RowsFit'
    BY <1>1, <2>1, <2>2 DEF RowsFit
  <2>5. EntriesSound'
    BY <2>1 DEF FactInv, EntriesSound, EntrySound, AckSound, Stands
  <2>6. PublicationsSound'
    <3> SUFFICES ASSUME NEW q \in Readers, readers'[q].pc \in {"reading", "got"}
                 PROVE  /\ readers'[q].fence.publications <= fences'[Key(q)].publications
                        /\ readers'[q].pc = "got"
                             /\ readers'[q].fence.publications = fences'[Key(q)].publications =>
                               basis'[Key(q)] <= readers'[q].row.at
      BY DEF PublicationsSound
    <3>1. CASE q # r
      BY <1>1, <2>1, <3>1 DEF PublicationsSound
    <3>2. CASE q = r
      BY <1>1, <1>2, <2>1, <2>2, <3>2 DEF PublicationsSound, RowsBehind
    <3> QED BY <3>1, <3>2
  <2>7. SnapshotAcked'
    BY <2>1 DEF FactInv, SnapshotAcked, Touched
  <2> QED BY <2>3, <2>4, <2>5, <2>6, <2>7 DEF NextFacts
<1>5. CASE NoRowForUpsert(r) \/ RetryRefresh(r)
  <2>1. PICK k \in Keys, slot \in Readers :
          k = Key(r) /\ slot = RetryOf(k, readers[r].deleted)
    BY <1>1, <1>5, QuietEndFacts
  <2>2. /\ Ends(r)
        /\ UNCHANGED <<db, gone, entries, fences, windows, worker, writers, basis, acked,
                       removedAt>>
        /\ \A q \in Readers : q # r /\ q # slot => readers'[q] = readers[q]
        /\ slot = r \/ readers'[slot] = readers[slot] \/ Begun(readers'[slot], readers[r].deleted)
    BY <1>1, <1>5, <2>1, QuietEndFacts
  <2>3. late' = late \/ RecordUnconfirmed(k, readers[r].origin) \/ late' = Tagged(k, "repair")
    BY <1>1, <1>5, <2>1, QuietEndFacts
  <2>4. late' = late \/ late' = Tagged(k, "repair")
    BY <2>3 DEF RecordUnconfirmed
  <2>5. \A j \in Keys : late[j] = "write" => late'[j] = "write"
    BY <1>1, <2>4 DEF Tagged, TypeOK
  <2>6. \A q \in Readers : Quieted(readers[q], readers'[q])
                           /\ (readers'[q].pc = "grading" => Present(readers'[q].row))
    <3>1. Quieted(readers[r], readers'[r]) /\ readers'[r].pc # "grading"
      BY <2>2, EndsQuietly
    <3> QED BY <1>1, <2>2, <3>1 DEF Quieted, Begun, RowsFit
  <2> QED BY <1>2, <2>2, <2>5, <2>6, QuietKeeps
<1> QED BY <1>3, <1>4, <1>5

(* What a re-read that ends does to the name of its key. *)
LEMMA OvertakenFacts ==
  ASSUME TypeOK, NEW r \in Readers, NEW decided \in BOOLEAN, ReadOvertaken(r, decided)
  PROVE  LET k == Key(r) IN
         /\ \A j \in Keys : j # k => late'[j] = late[j]
         /\ readers[r].row.at = db[k].at => late'[k] = IF decided THEN "no" ELSE late[k]
         /\ readers[r].row.at # db[k].at =>
              late'[k] = IF late[k] # "no" THEN late[k]
                         ELSE IF Straddles(r) THEN "reread"
                         ELSE IF decided /\ k \in unconfirmed THEN "repair" ELSE "no"
BY DEF ReadOvertaken, TypeOK, Readers, Key

(* Re-reads ending with an answer. *)
LEMMA AnswerKeeps ==
  ASSUME FactInv, TypeOK', NEW r \in Readers, PublishAbsentDelete(r) \/ IngestEnd(r)
  PROVE  NextFacts
<1>0. PICK k \in Keys, x \in Reader : k = Key(r) /\ x = readers[r]
  BY DEF FactInv, OrderInv, OwnedInv, TypeInv, TypeOK, Readers, Key
<1>1. /\ TypeOK /\ RowsFit /\ OrderInv /\ RowsBehind /\ PublicationsSound /\ FencesSound
      /\ RowsSound /\ EntriesSound /\ SnapshotAcked
  BY DEF FactInv, OrderInv, OwnedInv, TypeInv
<1>2. /\ Ends(r)
      /\ \A q \in Readers : q # r => readers'[q] = readers[q]
      /\ UNCHANGED <<db, gone, worker, writers, acked, removedAt>>
  BY <1>1, AnswerFacts
<1>3. \A q \in Readers : Quieted(readers[q], readers'[q])
                         /\ (readers'[q].pc = "grading" => Present(readers'[q].row))
  <2>1. Quieted(readers[r], readers'[r]) /\ readers'[r].pc # "grading"
    BY <1>2, EndsQuietly
  <2> QED BY <1>1, <1>2, <2>1 DEF Quieted, RowsFit
<1>4. \A j \in Keys : removedAt[j] \in Nat
  BY <1>1, Numbers
<1>5. /\ x.row \in Row /\ x.row.rev \in Nat
      /\ Sound(x.row, db[k], gone[k]) /\ x.row.at <= db[k].at
  BY <1>0, <1>1, MoreNumbers DEF RowsSound, RowsBehind
<1>6. CASE /\ fences[k] # x.fence
           /\ UNCHANGED <<entries, fences, unconfirmed, basis, windows, late>>
  BY <1>2, <1>3, <1>4, <1>6, QuietKeeps
<1>7. CASE /\ UNCHANGED <<entries, fences, unconfirmed, basis>>
           /\ Record(k, FALSE) /\ ReadOvertaken(r, FALSE)
  <2>1. \A j \in Keys : late[j] = "write" => late'[j] = "write"
    BY <1>0, <1>1, <1>7, OvertakenFacts
  <2>2. \A j \in Keys : /\ fences'[j].publications = fences[j].publications
                        /\ removedAt'[j] >= removedAt[j]
    BY <1>2, <1>4, <1>7
  <2>3. windows' = windows \/ Record(k, TRUE) \/ Record(k, FALSE)
    BY <1>7
  <2> QED BY <1>2, <1>3, <1>7, <2>1, <2>2, <2>3, QuietKeeps
<1>8. ASSUME NEW rev \in Nat, NEW val, Publish(k, rev, val, FALSE, x.row.at, {}),
             Record(k, TRUE), ReadOvertaken(r, TRUE),
             removedAt[k] <= x.row.at,
             \/ Present(x.row) /\ rev = x.row.rev /\ val = x.row.val
             \/ ~Present(x.row) /\ rev = 0 /\ val = Default /\ basis[k] <= x.row.at
      PROVE  NextFacts
  <2>1. /\ \A j \in Keys : j # k => /\ entries'[j] = entries[j] /\ fences'[j] = fences[j]
                                    /\ basis'[j] = basis[j]
        /\ Took(k, rev, val, FALSE, x.row.at) \/ Kept(k, rev, val)
    BY <1>1, <1>8, PublishFacts
  <2>2. /\ \A j \in Keys : j # k => late'[j] = late[j]
        /\ late[k] = "write" => late'[k] = "write" \/ x.row.at = db[k].at
    BY <1>0, <1>1, <1>8, OvertakenFacts
  <2>3. \/ Present(x.row) /\ (Took(k, x.row.rev, x.row.val, FALSE, x.row.at)
                               \/ Kept(k, x.row.rev, x.row.val))
        \/ Took(k, 0, Default, FALSE, x.row.at) /\ ~Present(x.row) /\ basis[k] <= x.row.at
    BY <1>8, <2>1 DEF Kept
  <2>4. EntrySound(k)' /\ AckSound(k)' /\ Stands(k)'
    BY <1>2, <1>5, <1>8, <2>2, <2>3, PublishedSound
  <2>5. EntriesSound'
    <3> SUFFICES ASSUME NEW j \in Keys, j # k PROVE EntrySound(j)' /\ AckSound(j)' /\ Stands(j)'
      BY <2>4 DEF EntriesSound
    <3> QED BY <1>2, <1>4, <2>1, <2>2, EntryFrame
  <2>6. PublicationsSound'
    <3>1. \A j \in Keys : \/ fences'[j].publications = fences[j].publications
                             /\ basis'[j] = basis[j]
                          \/ fences'[j].publications = fences[j].publications + 1
      BY <2>1 DEF Took, Kept
    <3> QED BY <1>3, <3>1, PublicationsFrame DEF Quieted
  <2>7. RowsSound'
    <3>1. \A q \in Readers : readers'[q].row \in {readers[q].row, NoRow}
      BY <1>3 DEF Quieted
    <3> QED BY <1>2, <3>1, RowsSoundFrame
  <2>8. RowsFit'
    BY <1>1, <1>2, <1>3 DEF RowsFit
  <2>9. SnapshotAcked'
    <3>1. \A j \in worker.todo : Touched(j) => Touched(j)'
      BY <1>1, <1>2, <1>8, TouchedGrows
    <3> QED BY <1>1, <1>2, <3>1 DEF SnapshotAcked
  <2> QED BY <2>5, <2>6, <2>7, <2>8, <2>9 DEF NextFacts
<1>9. CASE /\ x.pc = "got" /\ ~Present(x.row) /\ x.deleted /\ fences[k] = x.fence
           /\ Publish(k, 0, Default, FALSE, x.row.at, {})
           /\ Record(k, TRUE) /\ ReadOvertaken(r, TRUE)
  <2>1. removedAt[k] <= x.row.at /\ basis[k] <= x.row.at
    BY <1>0, <1>1, <1>9 DEF FencesSound, PublicationsSound
  <2> QED BY <1>8, <1>9, <2>1
<1>10. CASE /\ x.pc = "grading" /\ Usable(x.row) /\ fences[k].deletes = x.fence.deletes
            /\ Publish(k, x.row.rev, x.row.val, FALSE, x.row.at, {})
            /\ Record(k, TRUE) /\ ReadOvertaken(r, TRUE)
  <2>1. removedAt[k] <= x.row.at /\ Present(x.row)
    BY <1>0, <1>1, <1>10 DEF FencesSound, RowsFit
  <2> QED BY <1>5, <1>8, <1>10, <2>1
<1>11. \/ /\ fences[k] # x.fence
          /\ UNCHANGED <<entries, fences, unconfirmed, basis, windows, late>>
       \/ /\ x.pc = "got" /\ ~Present(x.row) /\ x.deleted /\ fences[k] = x.fence
          /\ Publish(k, 0, Default, FALSE, x.row.at, {})
          /\ Record(k, TRUE) /\ ReadOvertaken(r, TRUE)
       \/ /\ x.pc = "grading" /\ Usable(x.row) /\ fences[k].deletes = x.fence.deletes
          /\ Publish(k, x.row.rev, x.row.val, FALSE, x.row.at, {})
          /\ Record(k, TRUE) /\ ReadOvertaken(r, TRUE)
       \/ /\ UNCHANGED <<entries, fences, unconfirmed, basis>>
          /\ Record(k, FALSE) /\ ReadOvertaken(r, FALSE)
  BY <1>0, <1>1, AnswerFacts
<1> QED BY <1>6, <1>7, <1>9, <1>10, <1>11

(* A snapshot row published before any later write was acknowledged leaves *)
(* the key no older than the newest acknowledged one.                      *)
LEMMA TurnSound ==
  ASSUME FactInv, NEW k \in Keys, UNCHANGED <<db, gone, acked>>,
         NEW row \in Row, Sound(row, db[k], gone[k]),
         acked[k] <= row.at,
         \/ Present(row) /\ (Took(k, row.rev, row.val, FALSE, row.at) \/ Kept(k, row.rev, row.val))
         \/ /\ Took(k, 0, Default, FALSE, row.at)
            /\ ~Present(row) \/ entries[k] = Nothing
  PROVE  EntrySound(k)' /\ basis'[k] >= acked[k]
<1>1. TypeOK /\ EntrySound(k) /\ AckSound(k)
  BY DEF FactInv, OrderInv, OwnedInv, TypeInv, EntriesSound
<1>2. /\ row.at \in Nat /\ row.rev \in Nat /\ row.val \in Values \cup {Nothing}
      /\ basis[k] \in Nat /\ acked[k] \in Nat /\ gone[k] \in Nat
      /\ entries[k] # Nothing => entries[k].rev \in Nat
  BY <1>1, Numbers, MoreNumbers DEF Row
<1>3. Default \in Values /\ \A v \in Values : [rev |-> row.rev, val |-> v] # Nothing
                                              /\ [rev |-> 0, val |-> v] # Nothing
  BY <1>2, ValuesAssumption, EntryAssumption DEF Entry
<1>4. CASE Present(row) /\ Took(k, row.rev, row.val, FALSE, row.at)
  <2>1. row.rev = row.at /\ row.rev # 0 /\ row.val \in Values
    BY <1>2, <1>4 DEF Sound, Named, Present
  <2>2. entries'[k] = [rev |-> row.rev, val |-> row.val] /\ basis'[k] = row.at
    BY <1>4 DEF Took
  <2>3. entries'[k] # Nothing /\ entries'[k].rev = row.at
    BY <1>3, <2>1, <2>2
  <2> QED BY <1>2, <2>1, <2>2, <2>3 DEF EntrySound
<1>5. CASE Present(row) /\ Kept(k, row.rev, row.val)
  <2>1. /\ entries'[k] = entries[k] /\ basis'[k] = basis[k]
        /\ entries[k] # Nothing /\ row.rev # 0
        /\ entries[k].rev > row.rev \/ entries[k].rev = row.rev
    BY <1>5 DEF Kept
  <2>2. EntrySound(k)'
    BY <1>1, <2>1 DEF EntrySound
  <2>3. entries[k].rev = basis[k] /\ row.rev = row.at
    BY <1>1, <1>2, <1>5, <2>1 DEF EntrySound, Sound, Named
  <2> QED BY <1>2, <2>1, <2>2, <2>3
<1>6. CASE Took(k, 0, Default, FALSE, row.at) /\ (~Present(row) \/ entries[k] = Nothing)
  <2>1. entries'[k] = [rev |-> 0, val |-> Default] /\ basis'[k] = row.at
    BY <1>6 DEF Took
  <2>2. entries'[k] # Nothing /\ entries'[k].rev = 0
    BY <1>3, <2>1
  <2>3. acked[k] = 0 \/ row.at <= gone[k]
    BY <1>1, <1>6 DEF EntrySound, Sound
  <2> QED BY <1>2, <2>1, <2>2, <2>3 DEF EntrySound
<1> QED BY <1>4, <1>5, <1>6

(* The worker between its turns: a new snapshot is the store's rows, and   *)
(* the rest leave none.                                                    *)
LEMMA WorkerFacts ==
  ASSUME TypeOK, ArmingsNamed,
         \/ WorkerWakes \/ TakeReconcile \/ List \/ ListFails \/ Abandon \/ FinishReconcile
  PROVE  /\ UNCHANGED <<db, commits, gone, wire, link, async, entries, fences, unconfirmed,
                        reconcileGen, disconnectGen, again, timers, readers, writers, basis,
                        acked, removedAt, late>>
         /\ \/ /\ worker'.pc = "applying" /\ worker'.todo = Keys /\ worker'.snap = db
               /\ worker'.arm = worker.arm
               /\ UNCHANGED <<stale, windows, resyncPending, resyncSignal>>
            \/ /\ worker'.pc # "applying" /\ worker'.todo = {}
               /\ worker'.snap = worker.snap \/ worker'.snap = [k \in Keys |-> NoRow]
               /\ \A g \in DOMAIN windows' : g \in DOMAIN windows /\ windows'[g] = windows[g]
               /\ \/ stale' = stale
                  \/ /\ worker.pc = "applying" /\ worker.todo = {} /\ ~Superseded(worker.arm)
                     /\ stale' = FALSE
<1>1. worker \in Worker
  BY DEF TypeOK
<1>2. UNCHANGED <<db, commits, gone, wire, link, async, entries, fences, unconfirmed,
                  reconcileGen, disconnectGen, again, timers, readers, writers, basis,
                  acked, removedAt, late>>
  BY DEF WorkerWakes, TakeReconcile, List, ListFails, Abandon, FinishReconcile, storeVars,
         feedVars, cacheVars, armVars, historyVars
<1>3. CASE List
  <2>1. UNCHANGED <<stale, windows, resyncPending, resyncSignal>>
    BY <1>3 DEF List, armVars
  <2>2. /\ worker'.pc = "applying" /\ worker'.todo = Keys /\ worker'.snap = db
        /\ worker'.arm = worker.arm
    BY <1>1, <1>3 DEF List, Worker
  <2> QED BY <1>2, <2>1, <2>2
<1>4. CASE WorkerWakes \/ TakeReconcile
  <2>1. UNCHANGED <<stale, windows>>
    BY <1>4 DEF WorkerWakes, TakeReconcile
  <2>2. worker.todo = {}
    BY <1>4 DEF WorkerWakes, TakeReconcile, ArmingsNamed
  <2>3. \/ worker' = IdleWorker
        \/ worker' = [worker EXCEPT !.pc = "woken"]
        \/ worker' = [worker EXCEPT !.pc = "taken", !.arm = resyncPending]
    BY <1>4 DEF WorkerWakes, TakeReconcile
  <2>4. /\ worker'.pc # "applying" /\ worker'.todo = {}
        /\ worker'.snap = worker.snap \/ worker'.snap = [k \in Keys |-> NoRow]
    <3>1. CASE worker' = IdleWorker
      BY <3>1 DEF IdleWorker
    <3>2. CASE \/ worker' = [worker EXCEPT !.pc = "woken"]
               \/ worker' = [worker EXCEPT !.pc = "taken", !.arm = resyncPending]
      BY <1>1, <2>2, <3>2 DEF Worker
    <3> QED BY <2>3, <3>1, <3>2
  <2> QED BY <1>2, <2>1, <2>4
<1>5. CASE ListFails \/ Abandon \/ FinishReconcile
  <2>1. worker' = IdleWorker
    BY <1>5 DEF ListFails, Abandon, FinishReconcile
  <2>2. worker'.pc # "applying" /\ worker'.todo = {} /\ worker'.snap = [k \in Keys |-> NoRow]
    BY <2>1 DEF IdleWorker
  <2>3. windows' = CloseWindow(windows, worker.arm.reconcile)
    BY <1>5 DEF ListFails, Abandon, FinishReconcile
  <2>4. \A g \in DOMAIN windows' : g \in DOMAIN windows /\ windows'[g] = windows[g]
    BY <2>3 DEF CloseWindow
  <2>5. \/ stale' = stale
        \/ /\ worker.pc = "applying" /\ worker.todo = {} /\ ~Superseded(worker.arm)
           /\ stale' = FALSE
    BY <1>5 DEF ListFails, Abandon, FinishReconcile, MayClearStale
  <2> QED BY <1>2, <2>2, <2>4, <2>5
<1> QED BY <1>3, <1>4, <1>5

(* The worker's name for a key it decides. *)
LEMMA DecidedFacts ==
  ASSUME TypeOK, NEW k \in Keys, NEW confirms \in BOOLEAN, Decided(k, confirms)
  PROVE  /\ \A j \in Keys : j # k => late'[j] = late[j]
         /\ worker.snap[k].at = db[k].at => late'[k] = "no"
         /\ worker.snap[k].at # db[k].at =>
              late'[k] = IF confirms /\ Unusable(k) THEN "repair" ELSE late[k]
BY DEF Decided, TypeOK

(* The worker's turn for a key. *)
LEMMA TurnKeeps ==
  ASSUME FactInv, TypeOK', NEW k \in Keys, ApplySnapshotRow(k) \/ ApplyAbsentKey(k)
  PROVE  NextFacts
<1>0. PICK row \in Row : row = worker.snap[k]
  BY MoreNumbers DEF FactInv, OrderInv, OwnedInv, TypeInv
<1>1. /\ TypeOK /\ RowsFit /\ OrderInv /\ RowsBehind /\ PublicationsSound /\ SnapshotCurrent
      /\ RowsSound /\ EntriesSound /\ SnapshotAcked
  BY DEF FactInv, OrderInv, OwnedInv, TypeInv
<1>2. /\ k \in worker.todo
      /\ worker'.todo = worker.todo \ {k} /\ worker'.snap = worker.snap
      /\ worker'.arm = worker.arm
      /\ UNCHANGED <<db, gone, windows, readers, writers, acked, removedAt>>
  BY <1>1, TurnFacts
<1>3. RowsSound'
  BY <1>2, RowsSoundFrame
<1>4. RowsFit'
  BY <1>1, <1>2 DEF RowsFit
<1>5. SnapshotAcked'
  BY <1>1, <1>2 DEF SnapshotAcked, Touched
<1>6. /\ row.rev \in Nat /\ Sound(row, db[k], gone[k]) /\ row.at <= db[k].at
      /\ ~Touched(k) => acked[k] <= row.at /\ basis[k] <= row.at
  BY <1>0, <1>1, <1>2, MoreNumbers DEF RowsSound, RowsBehind, SnapshotAcked, SnapshotCurrent
<1>7. \A j \in Keys : removedAt[j] \in Nat
  BY <1>1, Numbers
<1>8. CASE UNCHANGED <<entries, fences, basis, late>>
  <2>1. EntriesSound'
    BY <1>1, <1>2, <1>8 DEF EntriesSound, EntrySound, AckSound, Stands
  <2>2. PublicationsSound'
    BY <1>1, <1>2, <1>8 DEF PublicationsSound
  <2> QED BY <1>3, <1>4, <1>5, <2>1, <2>2 DEF NextFacts
<1>9. ASSUME NEW rev \in Nat, NEW val, NEW marked,
             Publish(k, rev, val, FALSE, row.at, marked), ~Touched(k),
             Decided(k, TRUE) \/ Decided(k, FALSE),
             \/ Present(row) /\ rev = row.rev /\ val = row.val
             \/ rev = 0 /\ val = Default /\ (~Present(row) \/ entries[k] = Nothing)
      PROVE  NextFacts
  <2>1. /\ \A j \in Keys : j # k => /\ entries'[j] = entries[j] /\ fences'[j] = fences[j]
                                    /\ basis'[j] = basis[j]
        /\ Took(k, rev, val, FALSE, row.at) \/ Kept(k, rev, val)
    BY <1>1, <1>9, PublishFacts
  <2>2. \A j \in Keys : j # k => late'[j] = late[j]
    BY <1>1, <1>9, DecidedFacts
  <2>3. \/ Present(row) /\ (Took(k, row.rev, row.val, FALSE, row.at) \/ Kept(k, row.rev, row.val))
        \/ /\ Took(k, 0, Default, FALSE, row.at) /\ (~Present(row) \/ entries[k] = Nothing)
           /\ basis[k] <= row.at
    BY <1>6, <1>9, <2>1 DEF Kept
  <2>4. EntrySound(k)' /\ AckSound(k)' /\ Stands(k)'
    <3>1. AckSound(k)'
      BY <1>1, <1>2 DEF EntriesSound, AckSound
    <3>2. EntrySound(k)' /\ (basis'[k] >= acked[k])
      BY <1>0, <1>1, <1>2, <1>6, <1>9, <2>3, TurnSound
    <3> QED BY <1>2, <3>1, <3>2 DEF Stands
  <2>5. EntriesSound'
    <3> SUFFICES ASSUME NEW j \in Keys, j # k PROVE EntrySound(j)' /\ AckSound(j)' /\ Stands(j)'
      BY <2>4 DEF EntriesSound
    <3> QED BY <1>2, <1>7, <2>1, <2>2, EntryFrame
  <2>6. PublicationsSound'
    <3>1. \A j \in Keys : \/ fences'[j].publications = fences[j].publications
                             /\ basis'[j] = basis[j]
                          \/ fences'[j].publications = fences[j].publications + 1
      BY <2>1 DEF Took, Kept
    <3> QED BY <1>2, <3>1, PublicationsFrame
  <2> QED BY <1>3, <1>4, <1>5, <2>5, <2>6 DEF NextFacts
<1>10. CASE /\ ~Touched(k) /\ Usable(row)
            /\ Publish(k, row.rev, row.val, FALSE, row.at, Reopened(k))
            /\ Decided(k, FALSE)
  <2>1. Present(row)
    BY <1>10, NothingAssumption DEF Present, Usable
  <2> QED BY <1>6, <1>9, <1>10, <2>1
<1>11. CASE /\ ~Touched(k) /\ (Present(row) => entries[k] = Nothing)
            /\ Publish(k, 0, Default, FALSE, row.at, {})
            /\ Decided(k, TRUE)
  BY <1>9, <1>11
<1>12. \/ UNCHANGED <<entries, fences, basis, late>>
       \/ /\ ~Touched(k) /\ Usable(row)
          /\ Publish(k, row.rev, row.val, FALSE, row.at, Reopened(k))
          /\ Decided(k, FALSE)
       \/ /\ ~Touched(k) /\ (Present(row) => entries[k] = Nothing)
          /\ Publish(k, 0, Default, FALSE, row.at, {})
          /\ Decided(k, TRUE)
  BY <1>0, <1>1, TurnFacts
<1> QED BY <1>8, <1>10, <1>11, <1>12

(* The worker's steps. *)
LEMMA WorkerKeeps ==
  ASSUME FactInv, TypeOK', WorkerStep
  PROVE  NextFacts
<1>1. /\ TypeOK /\ RowsFit /\ ArmingsNamed /\ RowsBehind /\ PublicationsSound /\ SnapshotCurrent
      /\ RowsSound /\ EntriesSound /\ SnapshotAcked
  BY DEF FactInv, OrderInv, OwnedInv, TypeInv
<1>2. CASE \/ WorkerWakes \/ TakeReconcile \/ List \/ ListFails \/ Abandon \/ FinishReconcile
  <2>1. /\ UNCHANGED <<db, gone, entries, fences, readers, writers, basis, acked, removedAt, late>>
        /\ \/ worker'.todo = Keys /\ worker'.snap = db
           \/ /\ worker'.todo = {}
              /\ worker'.snap = worker.snap \/ worker'.snap = [k \in Keys |-> NoRow]
    BY <1>1, <1>2, WorkerFacts
  <2>2. RowsSound'
    BY <2>1, RowsSoundFrame
  <2>3. RowsFit' /\ PublicationsSound'
    BY <1>1, <2>1 DEF RowsFit, PublicationsSound
  <2>4. EntriesSound'
    BY <1>1, <2>1 DEF EntriesSound, EntrySound, AckSound, Stands
  <2>5. SnapshotAcked'
    BY <1>1, <2>1 DEF SnapshotAcked, EntriesSound, AckSound
  <2> QED BY <2>2, <2>3, <2>4, <2>5 DEF NextFacts
<1>3. ASSUME NEW k \in Keys, ApplySnapshotRow(k) \/ ApplyAbsentKey(k)
      PROVE  NextFacts
  BY <1>3, TurnKeeps
<1> QED BY <1>2, <1>3 DEF WorkerStep

-----------------------------------------------------------------------------
(* The step and the theorem. *)

(* At the start the rows are the store's, and nothing is cached. *)
LEMMA FactInit == Init => FactInv
<1> SUFFICES ASSUME Init PROVE FactInv
  OBVIOUS
<1>1. OrderInv
  BY OrderInit
<1>2. ASSUME NEW k \in Keys
      PROVE  /\ Sound(NoRow, db[k], gone[k]) /\ Sound(db[k], db[k], gone[k])
             /\ gone[k] = 0 /\ gone[k] <= db[k].at /\ acked[k] <= db[k].at
  <2>1. gone[k] = 0 /\ acked[k] = 0
    BY DEF Init
  <2>2. CASE db[k] = NoRow
    BY <2>1, <2>2 DEF Sound, Named, NoRow, Present
  <2>3. CASE db[k] \in [rev : {1}, val : Values, at : {1}]
    BY <2>1, <2>3, NothingAssumption DEF Sound, Named, NoRow, Present
  <2>4. db[k] \in {NoRow} \cup [rev : {1}, val : Values, at : {1}]
    BY DEF Init
  <2> QED BY <2>2, <2>3, <2>4
<1>3. RowsSound
  <2>1. \A k \in Keys : worker.snap[k] = NoRow
    BY DEF Init, IdleWorker
  <2>2. \A r \in Readers : readers[r].row = NoRow /\ Key(r) \in Keys
    BY DEF Init, IdleReader, Readers, Key
  <2>3. \A w \in Writers : writers[w].pc = "idle"
    BY DEF Init, IdleWriter
  <2> QED BY <1>2, <2>1, <2>2, <2>3 DEF RowsSound
<1>4. RowsFit /\ PublicationsSound /\ SnapshotAcked
  <2>1. (\A r \in Readers : readers[r].pc = "idle") /\ \A w \in Writers : writers[w].pc = "idle"
    BY DEF Init, IdleReader, IdleWriter
  <2>2. worker.todo = {}
    BY DEF Init, IdleWorker
  <2> QED BY <2>1, <2>2 DEF RowsFit, PublicationsSound, SnapshotAcked
<1>5. EntriesSound
  <2>1. \A k \in Keys : /\ entries[k] = Nothing /\ basis[k] = 0 /\ acked[k] = 0
                        /\ removedAt[k] = 0
    BY DEF Init
  <2> QED BY <1>2, <2>1 DEF EntriesSound, EntrySound, AckSound, Stands
<1> QED BY <1>1, <1>3, <1>4, <1>5 DEF FactInv

(* One step of the scope keeps the facts, action by action. *)
LEMMA FactStep == FactInv /\ [Next]_vars => FactInv'
<1> SUFFICES ASSUME FactInv, [Next]_vars PROVE FactInv'
  OBVIOUS
<1>1. OrderInv'
  BY OrderStep DEF FactInv
<1>2. TypeOK'
  BY <1>1 DEF OrderInv, OwnedInv, TypeInv
<1> SUFFICES NextFacts
  BY <1>1 DEF FactInv, NextFacts
<1>3. CASE UNCHANGED vars \/ AtRest
  <2>1. UNCHANGED <<db, gone, basis, acked, removedAt, late, worker, writers, readers, windows,
                    fences, entries>>
    BY <1>3 DEF vars, AtRest
  <2>2. RowsSound' /\ RowsFit' /\ PublicationsSound'
    BY <2>1 DEF FactInv, RowsSound, RowsFit, PublicationsSound
  <2>3. EntriesSound' /\ SnapshotAcked'
    BY <2>1 DEF FactInv, EntriesSound, EntrySound, AckSound, Stands, SnapshotAcked, Touched
  <2> QED BY <2>2, <2>3 DEF NextFacts
<1>4. CASE RemoteWrite \/ \E w \in Writers : ClientSet(w) \/ ClientDelete(w)
  BY <1>2, <1>4, CommitFacts
<1>5. ASSUME NEW w \in Writers, PublishBegin(w) \/ PublishEnd(w) \/ PublishDelete(w)
      PROVE  NextFacts
  BY <1>2, <1>5, WriterKeeps
<1>6. CASE LoseConnection \/ OnDisconnect \/ Reconnect \/ OnResync
  BY <1>6, LinkKeeps
<1>7. CASE OnEvent \/ \E k \in Keys, op \in {"upsert", "delete"} : TrackedRefresh(k, op)
  BY <1>2, <1>7, EventKeeps
<1>8. ASSUME NEW r \in Readers,
             \/ ArmRead(r) \/ GetRow(r) \/ GetFails(r) \/ IngestBegin(r)
             \/ NoRowForUpsert(r) \/ RetryRefresh(r)
      PROVE  NextFacts
  BY <1>2, <1>8, ReadingKeeps
<1>9. ASSUME NEW r \in Readers, PublishAbsentDelete(r) \/ IngestEnd(r)
      PROVE  NextFacts
  BY <1>2, <1>9, AnswerKeeps
<1>10. CASE WorkerStep
  BY <1>2, <1>10, WorkerKeeps
<1> QED BY <1>3, <1>4, <1>5, <1>6, <1>7, <1>8, <1>9, <1>10 DEF Next, WorkerStep

(* What is known of rows, entries and fences holds throughout. *)
THEOREM FactsHold == Spec => []FactInv
BY FactInit, FactStep, PTL DEF Spec

(* No re-read, repair or reconcile takes back a write its caller was told  *)
(* is visible, unless its row was removed since or the write was itself    *)
(* applied late: publish's revision fence, the two counters of the key     *)
(* fence and the reconcile's window together see to it, and each alone     *)
(* would not.                                                              *)
THEOREM AckedWritesRemain == Spec => []AckedWritesStand
<1>1. FactInv => AckedWritesStand
  BY DEF FactInv, EntriesSound, Stands, AckedWritesStand
<1> QED BY <1>1, FactsHold, PTL

-----------------------------------------------------------------------------
(* What accounts for a key that does not agree with the store.             *)

(* An event that tells of the row its key holds now. *)
Tells(ev, k) == ev.key = k /\ ev.at = db[k].at /\ ev.op = Op(db[k])
Eventful(k) == \E i \in 1 .. Len(wire) : Tells(wire[i], k)

(* An event on the wire is followed by one that tells of its key as it is; *)
(* a trailing re-read is owed to one under way; a re-read belongs to a     *)
(* window already opened.                                                  *)
WireCurrent ==
  /\ \A i \in 1 .. Len(wire) : \E j \in i .. Len(wire) : Tells(wire[j], wire[i].key)
  /\ link \in {"lost", "down"} => wire = << >>
AgainOwed == \A k \in Keys : again[k] # "no" => readers[<<k, "refresh">>].pc # "idle"
GensPast == \A r \in Readers : readers[r].gen <= reconcileGen
Upkeep == WireCurrent /\ AgainOwed /\ GensPast

(* A re-read for op answers for the row as it is: an empty read under an   *)
(* upsert says nothing.                                                    *)
Suits(k, op) == op = "delete" \/ (op = "upsert" /\ Present(db[k]))

(* The fence a re-read took lets its answer through. *)
Counted(k, x) ==
  IF Present(db[k]) THEN x.fence.deletes = fences[k].deletes ELSE x.fence = fences[k]

(* The re-read r will decide its key rightly, leave it unconfirmed, or be  *)
(* named as overtaken.                                                     *)
Settles(k, r) ==
  LET x == readers[r]
      empty == Retried(r) /\ ~x.deleted
      asked == x.deleted \/ Present(db[k])
      current == x.row.at = db[k].at IN
  \/ x.pc = "start" /\ (Retried(r) \/ asked)
  \/ x.pc = "reading" /\ ((asked /\ Counted(k, x)) \/ (empty /\ ~Present(db[k])))
  \/ x.pc = "got" /\ ((current /\ asked /\ Counted(k, x)) \/ (empty /\ ~Present(x.row)))
  \/ x.pc = "grading" /\ IF current THEN Counted(k, x) ELSE Straddles(r)
  \/ x.pc = "repair"

InFlight(k) == \E w \in Writers : writers[w].pc # "idle" /\ writers[w].key = k
Reading(k) == readers[<<k, "refresh">>].pc # "repair" /\ Settles(k, <<k, "refresh">>)

(* Decided rightly or named as overtaken; to be decided by what is under   *)
(* way; to be reported unconfirmed.                                        *)
Direct(k) == late[k] # "no" \/ Agrees(k)
Queued(k) ==
  \/ Eventful(k)
  \/ InFlight(k)
  \/ \E op \in timers[k] : Suits(k, op)
  \/ Suits(k, again[k])
  \/ Reading(k)
Marked(k) == k \in unconfirmed \/ \E r \in Readers : Key(r) = k /\ Settles(k, r)
Answered(k) == Direct(k) \/ Queued(k)
Accounted(k) == Answered(k) \/ Marked(k)

(* The reconcile of the window open now is being applied. *)
Applying == worker.pc = "applying" /\ worker.arm.reconcile = reconcileGen
Opened == reconcileGen \in DOMAIN windows

(* A re-read of the window open now holds a row the store has moved past.  *)
Outrun(r) ==
  readers[r].pc \in {"got", "grading"} /\ ~Straddles(r) /\ readers[r].row.at # db[Key(r)].at
Raced(k) == \E r \in Readers : Key(r) = k /\ Outrun(r)

(* When a key has to be accounted for, and when without being marked.      *)
Claimed(k) ==
  \/ ~stale
  \/ Applying /\ ~(k \in worker.todo /\ worker.snap[k].at = db[k].at)
  \/ Opened /\ k \in windows[reconcileGen].touched
  \/ Opened /\ k \in windows[reconcileGen].unusable /\ ~Present(db[k])
  \/ Raced(k)
Pressed(k) ==
  Applying /\ k \in worker.todo /\ ~Touched(k) /\ worker.snap[k].at # db[k].at

KeyInv(k) ==
  /\ Claimed(k) => Accounted(k)
  /\ Pressed(k) /\ ~Unusable(k) => Answered(k)
  /\ Pressed(k) => Eventful(k) \/ Present(db[k])
  /\ Raced(k) => Eventful(k) \/ Present(db[k]) \/ removedAt[k] = db[k].at
KeysInv == link = "up" => \A k \in Keys : KeyInv(k)

ConvInv == FactInv /\ Upkeep /\ KeysInv

-----------------------------------------------------------------------------
(* The same, one key and one re-read at a time.                            *)

(* What a re-read compares its fence with still lets it through. *)
CountersKept(k) ==
  fences'[k] = fences[k] \/ (Present(db[k]) /\ fences'[k].deletes = fences[k].deletes)

(* A re-read left alone still settles its key. *)
LEMMA SettlesKept ==
  ASSUME NEW k \in Keys, NEW r \in Readers, db'[k] = db[k], reconcileGen' = reconcileGen,
         CountersKept(k), readers'[r] = readers[r], Settles(k, r)
  PROVE  Settles(k, r)'
<1>1. Counted(k, readers[r]) => Counted(k, readers[r])'
  <2>1. CASE Present(db[k])
    BY <2>1 DEF Counted, CountersKept
  <2>2. CASE ~Present(db[k])
    BY <2>2 DEF Counted, CountersKept
  <2> QED BY <2>1, <2>2
<1>2. Straddles(r)' = Straddles(r)
  BY DEF Straddles
<1> QED BY <1>1, <1>2 DEF Settles

(* A re-read that has just begun for op settles a key that op suits, and   *)
(* one repeated settles any.                                               *)
LEMMA BegunSettles ==
  ASSUME NEW k \in Keys, NEW r \in Readers, NEW deleted \in BOOLEAN, db'[k] = db[k],
         Begun(readers'[r], deleted), Retried(r) \/ deleted \/ Present(db[k])
  PROVE  Settles(k, r)' /\ readers'[r].pc = "start"
BY DEF Settles, Begun

(* What is under way for a key stays under way, if each part of it does or *)
(* is replaced by another.                                                 *)
LEMMA QueuedKept ==
  ASSUME NEW k \in Keys, db'[k] = db[k], reconcileGen' = reconcileGen, CountersKept(k),
         Eventful(k) => Eventful(k)', InFlight(k) => InFlight(k)',
         \A op \in timers[k] : Suits(k, op) => Queued(k)',
         Suits(k, again[k]) => Queued(k)',
         \/ readers'[<<k, "refresh">>] = readers[<<k, "refresh">>]
         \/ ~Reading(k)
         \/ Queued(k)',
         Queued(k)
  PROVE  Queued(k)'
<1>1. <<k, "refresh">> \in Readers
  BY DEF Readers, Kinds
<1>2. CASE Eventful(k) \/ InFlight(k)
  BY <1>2 DEF Queued
<1>3. CASE Reading(k) /\ readers'[<<k, "refresh">>] = readers[<<k, "refresh">>]
  <2>1. Settles(k, <<k, "refresh">>)'
    BY <1>1, <1>3, SettlesKept DEF Reading
  <2>2. Reading(k)'
    BY <1>3, <2>1 DEF Reading
  <2> QED BY <2>2 DEF Queued
<1>4. CASE Reading(k) /\ Queued(k)'
  BY <1>4
<1> QED BY <1>2, <1>3, <1>4 DEF Queued

(* A key stays marked, if each of its re-reads is left alone, still        *)
(* settles it or did not.                                                  *)
LEMMA MarkedKept ==
  ASSUME NEW k \in Keys, db'[k] = db[k], reconcileGen' = reconcileGen, CountersKept(k),
         k \in unconfirmed => k \in unconfirmed',
         \A r \in Readers : Key(r) = k =>
            readers'[r] = readers[r] \/ ~Settles(k, r) \/ Settles(k, r)',
         Marked(k)
  PROVE  Marked(k)'
<1>1. CASE k \in unconfirmed
  BY <1>1 DEF Marked
<1>2. CASE \E r \in Readers : Key(r) = k /\ Settles(k, r)
  <2>1. PICK r \in Readers : Key(r) = k /\ Settles(k, r)
    BY <1>2
  <2>2. Settles(k, r)'
    BY <2>1, SettlesKept
  <2> QED BY <2>1, <2>2 DEF Marked
<1> QED BY <1>1, <1>2 DEF Marked

(* At the end of a re-read the trailing one is still owed or begins.       *)
LEMMA EndQueued ==
  ASSUME TypeOK, NEW r \in Readers, NEW k \in Keys, k = Key(r), Ends(r), db'[k] = db[k],
         Suits(k, again[k])
  PROVE  Queued(k)'
<1>1. again[k] # "no" /\ again[k] \in {"upsert", "delete"}
  BY DEF Suits
<1>2. CASE Retried(r)
  <2>1. again'[k] = again[k]
    BY <1>2 DEF Ends
  <2> QED BY <2>1 DEF Queued, Suits
<1>3. CASE ~Retried(r)
  <2>1. r = <<k, "refresh">>
    BY <1>3 DEF Readers, Key, Retried
  <2>2. Begun(readers'[r], again[k] = "delete")
    BY <1>1, <1>3 DEF Ends
  <2>3. again[k] = "delete" \/ Present(db[k])
    BY DEF Suits
  <2>4. Settles(k, r)' /\ readers'[r].pc = "start"
    <3> DEFINE deleted == again[k] = "delete"
    <3>1. deleted \in BOOLEAN
      OBVIOUS
    <3>2. deleted \/ Present(db[k])
      BY <2>3
    <3>3. Begun(readers'[r], deleted)
      BY <2>2
    <3> HIDE DEF deleted
    <3> QED BY <3>1, <3>2, <3>3, BegunSettles
  <2> QED BY <2>1, <2>4 DEF Queued, Reading
<1> QED BY <1>2, <1>3

-----------------------------------------------------------------------------
(* When a key has to be accounted for.                                     *)

(* The reconcile being applied has its window. *)
LEMMA ApplyingOpen ==
  ASSUME OrderInv, Applying
  PROVE  Opened /\ worker.arm.reconcile = reconcileGen
<1>1. worker.arm.reconcile # 0
  BY DEF OrderInv, ArmingsNamed, Holding, Applying
<1> QED BY <1>1 DEF OrderInv, OwnedInv, WindowsOwned, Opened, Applying

(* What a record does to the windows, key by key. *)
WindowsAs(k) ==
  \A g \in DOMAIN windows : /\ k \in windows'[g].touched <=> k \in windows[g].touched
                            /\ k \in windows'[g].unusable <=> k \in windows[g].unusable
LEMMA RecordAs ==
  ASSUME TypeOK, NEW k \in Keys, NEW usable \in BOOLEAN, Record(k, usable)
  PROVE  /\ DOMAIN windows' = DOMAIN windows
         /\ \A j \in Keys : j # k => WindowsAs(j)
         /\ \A g \in DOMAIN windows :
              IF usable THEN k \in windows'[g].touched /\ k \notin windows'[g].unusable
              ELSE /\ k \in windows'[g].unusable
                   /\ k \in windows'[g].touched <=> k \in windows[g].touched
<1>1. DOMAIN windows' = DOMAIN windows
  BY DEF Record
<1>2. ASSUME NEW g \in DOMAIN windows
      PROVE  /\ windows'[g].touched = IF usable THEN windows[g].touched \cup {k}
                                      ELSE windows[g].touched
             /\ windows'[g].unusable = IF usable THEN windows[g].unusable \ {k}
                                       ELSE windows[g].unusable \cup {k}
  <2>1. windows'[g] = IF usable
                      THEN [touched |-> windows[g].touched \cup {k},
                            unusable |-> windows[g].unusable \ {k}]
                      ELSE [windows[g] EXCEPT !.unusable = @ \cup {k}]
    BY DEF Record
  <2>2. windows[g] \in Window
    BY DEF TypeOK
  <2> QED BY <2>1, <2>2 DEF Window
<1>3. CASE usable
  BY <1>1, <1>2, <1>3 DEF WindowsAs
<1>4. CASE ~usable
  BY <1>1, <1>2, <1>4 DEF WindowsAs
<1> QED BY <1>3, <1>4

(* A re-read that ends, is left alone or answers with the row as it is,    *)
(* does not fall behind.                                                   *)
LEMMA RacedKept ==
  ASSUME NEW k \in Keys, db'[k] = db[k], reconcileGen' = reconcileGen,
         \A r \in Readers : Key(r) = k =>
            \/ readers'[r] = readers[r]
            \/ readers'[r].pc \notin {"got", "grading"}
            \/ readers'[r].row.at = db[k].at
            \/ /\ readers[r].pc = "got" /\ readers'[r].row = readers[r].row
               /\ readers'[r].gen = readers[r].gen,
         Raced(k)'
  PROVE  Raced(k)
<1>1. PICK r \in Readers : Key(r) = k /\ Outrun(r)'
  BY DEF Raced
<1>2. Outrun(r)
  BY <1>1 DEF Outrun, Straddles
<1> QED BY <1>1, <1>2 DEF Raced

(* A key of which nothing is recorded has to be accounted for as before;   *)
(* a key touched is never pressed; a key found unusable is one if it was,  *)
(* and has to be accounted for if it is absent.                            *)
LEMMA ClaimsKept ==
  ASSUME NEW k \in Keys, db'[k] = db[k], UNCHANGED <<stale, reconcileGen>>,
         worker'.pc = worker.pc, worker'.arm = worker.arm, worker'.snap[k] = worker.snap[k],
         k \in worker'.todo <=> k \in worker.todo,
         OrderInv, Raced(k)' => Raced(k), DOMAIN windows' = DOMAIN windows
  PROVE  /\ WindowsAs(k) => /\ Claimed(k)' => Claimed(k)
                            /\ Pressed(k)' => Pressed(k) /\ (Unusable(k)' <=> Unusable(k))
         /\ Record(k, TRUE) => ~Pressed(k)'
         /\ Record(k, FALSE) => /\ Claimed(k)' => Claimed(k) \/ ~Present(db[k])
                                /\ Pressed(k)' => Pressed(k) /\ Unusable(k)'
<1>1. /\ Applying' = Applying /\ Opened' = Opened
      /\ Applying => worker.arm.reconcile \in DOMAIN windows
  BY ApplyingOpen DEF Applying, Opened
<1>2. TypeOK
  BY DEF OrderInv, OwnedInv, TypeInv
<1>3. ASSUME WindowsAs(k)
      PROVE  /\ Claimed(k)' => Claimed(k)
             /\ Pressed(k)' => Pressed(k) /\ (Unusable(k)' <=> Unusable(k))
  <2>1. Applying => (Touched(k)' <=> Touched(k)) /\ (Unusable(k)' <=> Unusable(k))
    BY <1>1, <1>3 DEF Touched, Unusable, WindowsAs
  <2>2. Opened =>
          /\ k \in windows'[reconcileGen].touched <=> k \in windows[reconcileGen].touched
          /\ k \in windows'[reconcileGen].unusable <=> k \in windows[reconcileGen].unusable
    BY <1>3 DEF Opened, WindowsAs
  <2>3. Claimed(k)' => Claimed(k)
    BY <1>1, <2>2 DEF Claimed
  <2>4. Pressed(k)' => Pressed(k) /\ (Unusable(k)' <=> Unusable(k))
    BY <1>1, <2>1 DEF Pressed
  <2> QED BY <2>3, <2>4
<1>4. Record(k, TRUE) => ~Pressed(k)'
  <2> SUFFICES ASSUME Record(k, TRUE), Pressed(k)' PROVE FALSE
    OBVIOUS
  <2>1. Applying /\ ~Touched(k)'
    BY <1>1 DEF Pressed
  <2>2. k \in windows'[worker.arm.reconcile].touched
    BY <1>1, <1>2, <2>1, RecordAs
  <2> QED BY <2>1, <2>2 DEF Touched
<1>5. ASSUME Record(k, FALSE)
      PROVE  /\ Claimed(k)' => Claimed(k) \/ ~Present(db[k])
             /\ Pressed(k)' => Pressed(k) /\ Unusable(k)'
  <2>1. \A g \in DOMAIN windows : /\ k \in windows'[g].unusable
                                  /\ k \in windows'[g].touched <=> k \in windows[g].touched
    BY <1>2, <1>5, RecordAs
  <2>2. Applying => (Touched(k)' <=> Touched(k)) /\ Unusable(k)'
    BY <1>1, <2>1 DEF Touched, Unusable
  <2>3. Opened => (k \in windows'[reconcileGen].touched <=> k \in windows[reconcileGen].touched)
    BY <2>1 DEF Opened
  <2>4. Claimed(k)' => Claimed(k) \/ ~Present(db[k])
    BY <1>1, <2>3 DEF Claimed
  <2>5. Pressed(k)' => Pressed(k) /\ Unusable(k)'
    BY <1>1, <2>2 DEF Pressed
  <2> QED BY <2>4, <2>5
<1> QED BY <1>3, <1>4, <1>5

(* What a step has to show of a key whose row it leaves alone. *)
LEMMA KeyKept ==
  ASSUME NEW k \in Keys, KeyInv(k), db'[k] = db[k], Eventful(k) => Eventful(k)',
         removedAt[k] = db[k].at => removedAt'[k] = db[k].at,
         Raced(k)' => Raced(k), Pressed(k)' => Pressed(k),
         Claimed(k)' => Accounted(k)', Pressed(k)' => Unusable(k)' \/ Answered(k)'
  PROVE  KeyInv(k)'
BY DEF KeyInv

(* A step passes a key by. *)
Still(k) ==
  /\ db'[k] = db[k] /\ entries'[k] = entries[k] /\ fences'[k] = fences[k]
  /\ late'[k] = late[k] /\ timers'[k] = timers[k] /\ again'[k] = again[k]
  /\ removedAt'[k] = removedAt[k]
  /\ k \in unconfirmed' <=> k \in unconfirmed
  /\ \A r \in Readers : Key(r) = k => readers'[r] = readers[r]
  /\ Eventful(k) => Eventful(k)'
  /\ InFlight(k) => InFlight(k)'
  /\ WindowsAs(k)
  /\ worker'.snap[k] = worker.snap[k]
  /\ k \in worker'.todo <=> k \in worker.todo

(* The step is not one of the connection, and begins or ends no reconcile. *)
Steady ==
  /\ UNCHANGED <<link, stale, reconcileGen>>
  /\ worker'.pc = worker.pc /\ worker'.arm = worker.arm
  /\ DOMAIN windows' = DOMAIN windows

(* A key passed by is accounted for as before. *)
LEMMA StillKept ==
  ASSUME OrderInv, NEW k \in Keys, KeyInv(k), Still(k), Steady
  PROVE  KeyInv(k)'
<1>1. CountersKept(k)
  BY DEF Still, CountersKept
<1>2. Direct(k)' <=> Direct(k)
  BY DEF Still, Direct, Agrees
<1>3. Queued(k) => Queued(k)'
  <2>1. <<k, "refresh">> \in Readers /\ Key(<<k, "refresh">>) = k
    BY DEF Readers, Kinds, Key
  <2>2. readers'[<<k, "refresh">>] = readers[<<k, "refresh">>]
    BY <2>1 DEF Still
  <2>3. \A op \in timers[k] : Suits(k, op) => Queued(k)'
    BY DEF Still, Queued, Suits
  <2>4. Suits(k, again[k]) => Queued(k)'
    BY DEF Still, Queued, Suits
  <2> QED BY <1>1, <2>2, <2>3, <2>4, QueuedKept DEF Still, Steady
<1>4. Marked(k) => Marked(k)'
  BY <1>1, MarkedKept DEF Still, Steady
<1>5. Raced(k)' => Raced(k)
  BY RacedKept DEF Still, Steady
<1>6. /\ Claimed(k)' => Claimed(k)
      /\ Pressed(k)' => Pressed(k) /\ (Unusable(k)' <=> Unusable(k))
  <2>1. /\ db'[k] = db[k] /\ UNCHANGED <<stale, reconcileGen>> /\ worker'.pc = worker.pc
        /\ worker'.arm = worker.arm /\ worker'.snap[k] = worker.snap[k]
        /\ k \in worker'.todo <=> k \in worker.todo
        /\ DOMAIN windows' = DOMAIN windows /\ WindowsAs(k)
    BY DEF Still, Steady
  <2> QED BY <1>5, <2>1, ClaimsKept
<1>7. Claimed(k)' => Accounted(k)'
  BY <1>2, <1>3, <1>4, <1>6 DEF KeyInv, Accounted, Answered
<1>8. Pressed(k)' => Unusable(k)' \/ Answered(k)'
  BY <1>2, <1>3, <1>6 DEF KeyInv, Answered
<1>9. /\ db'[k] = db[k] /\ (Eventful(k) => Eventful(k)')
      /\ removedAt[k] = db[k].at => removedAt'[k] = db[k].at
  BY DEF Still
<1> QED BY <1>5, <1>6, <1>7, <1>8, <1>9, KeyKept

-----------------------------------------------------------------------------
(* The feed.                                                               *)

(* An event added to the wire leaves the others where they are. *)
LEMMA AppendTells ==
  ASSUME TypeOK, NEW ev \in FeedEvent, wire' = Append(wire, ev)
  PROVE  /\ Len(wire') = Len(wire) + 1 /\ Len(wire) \in Nat
         /\ wire'[Len(wire) + 1] = ev
         /\ \A i \in 1 .. Len(wire) : wire'[i] = wire[i] /\ wire[i] \in FeedEvent
<1>1. wire \in Seq(FeedEvent)
  BY DEF TypeOK
<1> QED BY <1>1

(* The events of a key whose row stays go on telling of it. *)
LEMMA EventfulKept ==
  ASSUME TypeOK, NEW k \in Keys, db'[k] = db[k],
         wire' = wire \/ \E ev \in FeedEvent : wire' = Append(wire, ev), Eventful(k)
  PROVE  Eventful(k)'
<1>1. PICK i \in 1 .. Len(wire) : Tells(wire[i], k)
  BY DEF Eventful
<1>2. i \in 1 .. Len(wire') /\ wire'[i] = wire[i]
  <2>1. CASE wire' = wire
    BY <2>1
  <2>2. ASSUME NEW ev \in FeedEvent, wire' = Append(wire, ev)
        PROVE  i \in 1 .. Len(wire') /\ wire'[i] = wire[i]
    BY <2>2, AppendTells
  <2> QED BY <2>1, <2>2
<1> QED BY <1>1, <1>2 DEF Eventful, Tells

(* A commit leaves every other key alone, and announces its own if its row *)
(* changes.                                                                *)
LEMMA CommitKeys ==
  ASSUME FactInv, Upkeep, KeysInv,
         RemoteWrite \/ \E w \in Writers : ClientSet(w) \/ ClientDelete(w)
  PROVE  Upkeep' /\ KeysInv'
<1>1. TypeOK /\ OrderInv /\ db \in [Keys -> Row] /\ commits \in Nat
  BY DEF FactInv, OrderInv, OwnedInv, TypeInv, TypeOK
<1>2. UNCHANGED <<link, async, entries, fences, unconfirmed, stale, disconnectGen,
                  reconcileGen, windows, resyncPending, resyncSignal, again, worker,
                  timers, readers, basis, acked, removedAt, late>>
  BY <1>1, CommitEffect
<1>3. PICK k \in Keys :
        /\ \A j \in Keys : j # k => db'[j] = db[j] /\ gone'[j] = gone[j]
        /\ \/ db'[k] = db[k] /\ gone'[k] = gone[k]
           \/ /\ db'[k].at = commits + 1 /\ Named(db'[k])
              /\ gone'[k] = IF Present(db'[k]) THEN gone[k] ELSE commits + 1
              /\ link \in {"joined", "up"} =>
                   wire' = Append(wire, Event(Op(db'[k]), k, db'[k].at))
        /\ \/ wire' = wire
           \/ /\ wire' = Append(wire, Event(Op(db'[k]), k, db'[k].at))
              /\ link \in {"joined", "up"}
        /\ \A w \in Writers :
             \/ writers'[w] = writers[w]
             \/ /\ writers[w].pc = "idle"
                /\ writers'[w].pc \in {"written", "deleted"}
                /\ writers'[w].key = k /\ writers'[w].row = db'[k]
                /\ Present(db'[k]) <=> writers'[w].pc # "deleted"
  BY <1>1, CommitEffect
<1>4. PICK ev \in FeedEvent : /\ ev = Event(Op(db'[k]), k, db'[k].at)
                              /\ ev.key = k /\ ev.at = db'[k].at /\ ev.op = Op(db'[k])
  <2>1. db'[k].at \in Nat
    BY <1>1, <1>3, Numbers
  <2>2. Op(db'[k]) \in {"upsert", "delete"}
    BY DEF Op
  <2> DEFINE e == Event(Op(db'[k]), k, db'[k].at)
  <2>3. e \in FeedEvent /\ e.key = k /\ e.at = db'[k].at /\ e.op = Op(db'[k])
    BY <2>1, <2>2 DEF Event, FeedEvent
  <2>4. e = Event(Op(db'[k]), k, db'[k].at)
    OBVIOUS
  <2> HIDE DEF e
  <2> QED BY <2>3, <2>4
<1>5. wire' = wire \/ (wire' = Append(wire, ev) /\ link \in {"joined", "up"})
  BY <1>3, <1>4
<1>6. db'[k] = db[k] \/ (link \in {"joined", "up"} => wire' = Append(wire, ev))
  BY <1>3, <1>4
<1>7. Tells(ev, k)'
  BY <1>4 DEF Tells
<1>8. wire' = Append(wire, ev) => Eventful(k)'
  BY <1>1, <1>4, <1>7, AppendTells DEF Eventful
<1>9. \A j \in Keys : db'[j] = db[j] /\ Eventful(j) => Eventful(j)'
  BY <1>1, <1>4, <1>5, EventfulKept
<1>10. \A j \in Keys : InFlight(j) => InFlight(j)'
  BY <1>3 DEF InFlight
<1>11. WireCurrent'
  <2>1. link' \in {"lost", "down"} => wire' = << >>
    BY <1>2, <1>5 DEF Upkeep, WireCurrent
  <2>2. CASE wire' = wire
    <3>1. \A j \in Keys : j # k => db'[j] = db[j]
      BY <1>3
    <3>2. CASE db'[k] = db[k]
      <4>1. \A j \in Keys : db'[j] = db[j]
        BY <3>1, <3>2
      <4>2. ASSUME NEW i \in 1 .. Len(wire) PROVE wire[i].key \in Keys
        <5>1. wire[i] \in FeedEvent
          BY <1>1 DEF TypeOK
        <5> QED BY <5>1 DEF FeedEvent
      <4> QED BY <2>1, <2>2, <4>1, <4>2 DEF Upkeep, WireCurrent, Tells
    <3>3. CASE wire' = Append(wire, ev)
      <4>1. wire \in Seq(FeedEvent)
        BY <1>1 DEF TypeOK
      <4> QED BY <2>2, <3>3, <4>1, <1>1, <1>4, AppendTells
    <3>4. CASE link \notin {"joined", "up"}
      <4>1. wire = << >>
        BY <1>1, <3>4 DEF Upkeep, WireCurrent, TypeOK
      <4> QED BY <2>1, <2>2, <4>1 DEF WireCurrent
    <3> QED BY <1>6, <3>2, <3>3, <3>4
  <2>3. CASE wire' = Append(wire, ev)
    <3>1. /\ Len(wire') = Len(wire) + 1 /\ Len(wire) \in Nat
          /\ wire'[Len(wire) + 1] = ev
          /\ \A i \in 1 .. Len(wire) : wire'[i] = wire[i] /\ wire[i] \in FeedEvent
      BY <1>1, <1>4, <2>3, AppendTells
    <3>2. ASSUME NEW i \in 1 .. Len(wire')
          PROVE  \E j \in i .. Len(wire') : Tells(wire[j], wire[i].key)'
      <4>1. CASE wire'[i].key = k
        <5>1. Len(wire) + 1 \in i .. Len(wire')
          BY <3>1
        <5> QED BY <1>7, <3>1, <4>1, <5>1
      <4>2. CASE wire'[i].key # k
        <5>1. i \in 1 .. Len(wire)
          BY <1>4, <3>1, <4>2
        <5>2. PICK j \in i .. Len(wire) : Tells(wire[j], wire[i].key)
          BY <5>1 DEF Upkeep, WireCurrent
        <5>3. j \in i .. Len(wire') /\ j \in 1 .. Len(wire)
          BY <3>1, <5>1
        <5>4. wire[i].key \in Keys
          BY <3>1, <5>1 DEF FeedEvent
        <5>5. db'[wire[i].key] = db[wire[i].key]
          BY <1>3, <3>1, <4>2, <5>1, <5>4
        <5>6. Tells(wire[j], wire[i].key)'
          BY <3>1, <5>1, <5>2, <5>3, <5>5 DEF Tells
        <5> QED BY <5>3, <5>6
      <4> QED BY <4>1, <4>2
    <3> QED BY <2>1, <3>2 DEF WireCurrent
  <2> QED BY <1>5, <2>2, <2>3
<1>12. AgainOwed' /\ GensPast'
  BY <1>2 DEF Upkeep, AgainOwed, GensPast
<1>13. ASSUME link = "up", NEW j \in Keys
       PROVE  KeyInv(j)'
  <2>1. KeyInv(j)
    BY <1>13 DEF KeysInv
  <2>2. CASE db'[j] = db[j]
    <3>1. Still(j)
      BY <1>2, <1>9, <1>10, <2>2 DEF Still, WindowsAs
    <3>2. Steady
      BY <1>2 DEF Steady
    <3> QED BY <1>1, <2>1, <3>1, <3>2, StillKept
  <2>3. CASE db'[j] # db[j]
    <3>1. j = k /\ Eventful(j)'
      BY <1>3, <1>6, <1>8, <1>13, <2>3
    <3> QED BY <3>1 DEF KeyInv, Accounted, Answered, Queued
  <2> QED BY <2>2, <2>3
<1> QED BY <1>2, <1>11, <1>12, <1>13 DEF Upkeep, KeysInv

(* The event handed over. *)
LEMMA TailTells ==
  ASSUME TypeOK, wire # << >>, wire' = Tail(wire)
  PROVE  /\ Len(wire) \in Nat \ {0} /\ Len(wire') = Len(wire) - 1
         /\ Head(wire) = wire[1]
         /\ \A i \in 1 .. Len(wire') : wire'[i] = wire[i + 1] /\ i + 1 \in 1 .. Len(wire)
         /\ \A i \in 1 .. Len(wire) : wire[i] \in FeedEvent
<1>1. wire \in Seq(FeedEvent)
  BY DEF TypeOK
<1>2. Len(wire) \in Nat \ {0}
  BY <1>1
<1>3. \A i \in 1 .. Len(wire) : wire[i] \in FeedEvent
  BY <1>1
<1> QED BY <1>1, <1>2, <1>3

(* An event that arrives: its re-read is under way, or a later event tells *)
(* of its key as it is.                                                    *)
LEMMA EventKeys ==
  ASSUME FactInv, Upkeep, KeysInv, OnEvent
  PROVE  Upkeep' /\ KeysInv'
<1>1. TypeOK /\ OrderInv /\ RowsBehind
  BY DEF FactInv, OrderInv, OwnedInv, TypeInv
<1>2. link = "up" /\ wire # << >> /\ wire' = Tail(wire)
  BY <1>1, EventFacts
<1>3. /\ Len(wire) \in Nat \ {0} /\ Len(wire') = Len(wire) - 1
      /\ Head(wire) = wire[1]
      /\ \A i \in 1 .. Len(wire') : wire'[i] = wire[i + 1] /\ i + 1 \in 1 .. Len(wire)
      /\ \A i \in 1 .. Len(wire) : wire[i] \in FeedEvent
  BY <1>1, <1>2, TailTells
<1>4. PICK ev \in FeedEvent : ev = wire[1]
  BY <1>3
<1>5. PICK k \in Keys, r \in Readers : k = ev.key /\ r = <<k, "refresh">>
  BY <1>4 DEF FeedEvent, Readers, Kinds
<1>6. ev.op \in {"upsert", "delete"} /\ ev.at \in Nat /\ ev = Head(wire) /\ Key(r) = k
  BY <1>3, <1>4, <1>5 DEF FeedEvent, Key
<1>7. /\ \A j \in Keys : j # k => /\ timers'[j] = timers[j] /\ fences'[j] = fences[j]
                                  /\ removedAt'[j] = removedAt[j]
      /\ \A q \in Readers : q # r => readers'[q] = readers[q]
      /\ \/ /\ ev.op = "delete" /\ Record(k, TRUE)
            /\ fences'[k].deletes = fences[k].deletes + 1
            /\ fences'[k].publications = fences[k].publications
            /\ removedAt'[k] = IF ev.at > removedAt[k] THEN ev.at ELSE removedAt[k]
         \/ /\ ev.op = "upsert" /\ windows' = windows /\ fences'[k] = fences[k]
            /\ removedAt'[k] = removedAt[k]
      /\ \/ /\ readers'[r] = readers[r] /\ ev.op \in timers'[k]
            /\ timers'[k] = {ev.op} \/ timers'[k] = timers[k] \cup {ev.op}
         \/ /\ readers[r].pc = "idle" /\ timers'[k] = timers[k]
            /\ Begun(readers'[r], ev.op = "delete")
  BY <1>1, <1>5, <1>6, EventFacts
<1>8. UNCHANGED <<db, commits, gone, link, async, entries, unconfirmed, stale,
                  disconnectGen, reconcileGen, resyncPending, resyncSignal, again,
                  worker, writers, basis, acked, late>>
  BY <1>1, EventFacts
<1>9. WireCurrent'
  <2>1. ASSUME NEW i \in 1 .. Len(wire')
        PROVE  \E j \in i .. Len(wire') : Tells(wire[j], wire[i].key)'
    <3>1. i + 1 \in 1 .. Len(wire)
      BY <1>3
    <3>2. PICK j \in i + 1 .. Len(wire) : Tells(wire[j], wire[i + 1].key)
      BY <3>1 DEF Upkeep, WireCurrent
    <3>3. j - 1 \in i .. Len(wire') /\ j - 1 \in 1 .. Len(wire') /\ (j - 1) + 1 = j
      BY <1>3, <3>1
    <3>4. wire'[i] = wire[i + 1] /\ wire'[j - 1] = wire[j]
      BY <1>3, <3>3
    <3>5. Tells(wire[j - 1], wire[i].key)'
      BY <1>8, <3>2, <3>4 DEF Tells
    <3> QED BY <3>3, <3>5
  <2> QED BY <1>2, <1>8, <2>1 DEF WireCurrent
<1>10. AgainOwed'
  BY <1>5, <1>7, <1>8 DEF Upkeep, AgainOwed, Begun, Readers, Kinds
<1>11. GensPast'
  <2>1. reconcileGen \in Nat
    BY <1>1 DEF TypeOK
  <2> QED BY <1>7, <1>8, <2>1 DEF Upkeep, GensPast, Begun
<1>12. \A j \in Keys : KeyInv(j)
  BY <1>2 DEF KeysInv
<1>13. DOMAIN windows' = DOMAIN windows /\ \A j \in Keys : j # k => WindowsAs(j)
  <2>1. CASE Record(k, TRUE)
    BY <1>1, <2>1, RecordAs
  <2>2. CASE windows' = windows
    BY <2>2 DEF WindowsAs
  <2> QED BY <1>7, <2>1, <2>2
<1>14. Steady
  BY <1>8, <1>13 DEF Steady
<1>15. ASSUME NEW j \in Keys, j # k
       PROVE  KeyInv(j)'
  <2>1. Eventful(j) => Eventful(j)'
    <3> SUFFICES ASSUME Eventful(j) PROVE Eventful(j)'
      OBVIOUS
    <3>1. PICK i \in 1 .. Len(wire) : Tells(wire[i], j)
      BY DEF Eventful
    <3>2. i # 1
      BY <1>4, <1>5, <1>15, <3>1 DEF Tells
    <3>3. i - 1 \in 1 .. Len(wire') /\ (i - 1) + 1 = i
      BY <1>3, <3>2
    <3>4. wire'[i - 1] = wire[i]
      BY <1>3, <3>3
    <3>5. Tells(wire[i - 1], j)'
      BY <1>8, <3>1, <3>4 DEF Tells
    <3> QED BY <3>3, <3>5 DEF Eventful
  <2>2. \A q \in Readers : Key(q) = j => readers'[q] = readers[q]
    BY <1>6, <1>7, <1>15
  <2>3. InFlight(j) => InFlight(j)'
    BY <1>8 DEF InFlight
  <2>4. Still(j)
    BY <1>7, <1>8, <1>13, <1>15, <2>1, <2>2, <2>3 DEF Still
  <2> QED BY <1>1, <1>12, <1>14, <2>4, StillKept
<1>16. KeyInv(k)'
  <2>1. PICK i \in 1 .. Len(wire) : Tells(wire[i], k)
    <3>1. 1 \in 1 .. Len(wire) /\ wire[1].key = k
      BY <1>3, <1>4, <1>5
    <3>2. PICK i \in 1 .. Len(wire) : Tells(wire[i], wire[1].key)
      BY <3>1 DEF Upkeep, WireCurrent
    <3> QED BY <3>1, <3>2
  <2>2. CASE i # 1
    <3>1. i - 1 \in 1 .. Len(wire') /\ (i - 1) + 1 = i
      BY <1>3, <2>2
    <3>2. wire'[i - 1] = wire[i]
      BY <1>3, <3>1
    <3>3. Tells(wire[i - 1], k)'
      BY <1>8, <2>1, <3>2 DEF Tells
    <3>4. Eventful(k)'
      BY <3>1, <3>3 DEF Eventful
    <3> QED BY <3>4 DEF KeyInv, Accounted, Answered, Queued
  <2>3. CASE i = 1
    <3>1. ev.at = db[k].at /\ ev.op = Op(db[k])
      BY <1>4, <2>1, <2>3 DEF Tells
    <3>2. Suits(k, ev.op)'
      BY <1>8, <3>1 DEF Suits, Op
    <3>3. Queued(k)'
      <4>1. CASE ev.op \in timers'[k]
        BY <3>2, <4>1 DEF Queued
      <4>2. CASE Begun(readers'[r], ev.op = "delete")
        <5>1. PICK deleted \in BOOLEAN : deleted = (ev.op = "delete")
          OBVIOUS
        <5>2. deleted \/ Present(db[k])
          BY <1>8, <3>2, <5>1 DEF Suits
        <5>3. Begun(readers'[r], deleted)
          BY <4>2, <5>1
        <5>4. Settles(k, r)' /\ readers'[r].pc = "start"
          BY <1>8, <5>2, <5>3, BegunSettles
        <5> QED BY <1>5, <5>4 DEF Queued, Reading
      <4> QED BY <1>7, <4>1, <4>2
    <3>4. Answered(k)' /\ Accounted(k)'
      BY <3>3 DEF Answered, Accounted
    <3>5. CASE Present(db[k])
      BY <1>8, <3>4, <3>5 DEF KeyInv
    <3>6. CASE ~Present(db[k])
      <4>1. ev.op = "delete"
        BY <3>1, <3>6 DEF Op
      <4>2. removedAt'[k] = db'[k].at
        BY <1>1, <1>7, <1>8, <3>1, <4>1, Numbers DEF RowsBehind
      <4>3. ~Pressed(k)'
        <5>1. Record(k, TRUE)
          BY <1>7, <4>1
        <5>2. Raced(k)' => Raced(k)
          <6>1. \A q \in Readers : Key(q) = k =>
                  readers'[q] = readers[q] \/ readers'[q].pc \notin {"got", "grading"}
            BY <1>7 DEF Begun
          <6> QED BY <1>8, <6>1, RacedKept
        <5> QED BY <1>1, <1>8, <1>13, <5>1, <5>2, ClaimsKept
      <4> QED BY <3>4, <4>2, <4>3 DEF KeyInv
    <3> QED BY <3>5, <3>6
  <2> QED BY <2>2, <2>3
<1>17. KeysInv'
  BY <1>15, <1>16 DEF KeysInv
<1> QED BY <1>9, <1>10, <1>11, <1>17 DEF Upkeep

(* The tracked re-read of a key. *)
LEMMA RefreshReader ==
  ASSUME NEW k \in Keys
  PROVE  /\ <<k, "refresh">> \in Readers /\ Key(<<k, "refresh">>) = k
         /\ ~Retried(<<k, "refresh">>)
BY DEF Readers, Kinds, Key, Retried

(* What a step has to show of a key of which nothing is recorded. *)
LEMMA KeyMoves ==
  ASSUME OrderInv, NEW k \in Keys, KeyInv(k), db'[k] = db[k], Steady, WindowsAs(k),
         worker'.snap[k] = worker.snap[k], k \in worker'.todo <=> k \in worker.todo,
         Eventful(k) => Eventful(k)', removedAt'[k] = removedAt[k],
         Raced(k)' => Raced(k), Accounted(k) => Accounted(k)', Answered(k) => Answered(k)'
  PROVE  KeyInv(k)'
<1>1. UNCHANGED <<stale, reconcileGen>> /\ worker'.pc = worker.pc /\ worker'.arm = worker.arm
      /\ DOMAIN windows' = DOMAIN windows
  BY DEF Steady
<1>2. /\ Claimed(k)' => Claimed(k)
      /\ Pressed(k)' => Pressed(k) /\ (Unusable(k)' <=> Unusable(k))
  BY <1>1, ClaimsKept
<1>3. Claimed(k)' => Accounted(k)'
  BY <1>2 DEF KeyInv
<1>4. Pressed(k)' => Unusable(k)' \/ Answered(k)'
  BY <1>2 DEF KeyInv
<1> QED BY <1>2, <1>3, <1>4, KeyKept

-----------------------------------------------------------------------------
(* The timers and the connection.                                          *)

(* A timer that fires begins its re-read, or leaves it owed to the one     *)
(* under way.                                                              *)
LEMMA TimerKeys ==
  ASSUME FactInv, Upkeep, KeysInv, NEW k \in Keys, NEW op \in {"upsert", "delete"},
         TrackedRefresh(k, op)
  PROVE  Upkeep' /\ KeysInv'
<1>1. TypeOK /\ OrderInv
  BY DEF FactInv, OrderInv, OwnedInv, TypeInv
<1>2. PICK r \in Readers : r = <<k, "refresh">> /\ Key(r) = k /\ ~Retried(r)
  BY RefreshReader
<1>3. /\ op \in timers[k] /\ timers'[k] = timers[k] \ {op}
      /\ \A j \in Keys : j # k => timers'[j] = timers[j] /\ again'[j] = again[j]
      /\ \A q \in Readers : q # r => readers'[q] = readers[q]
      /\ \/ /\ readers[r].pc # "idle" /\ readers'[r] = readers[r]
            /\ again'[k] = IF op = "delete" \/ again[k] = "delete" THEN "delete" ELSE "upsert"
         \/ /\ readers[r].pc = "idle" /\ Begun(readers'[r], op = "delete")
            /\ again'[k] = again[k]
  BY <1>1, <1>2, TimerFacts
<1>4. UNCHANGED <<db, commits, gone, wire, link, async, entries, fences, unconfirmed, stale,
                  disconnectGen, reconcileGen, windows, resyncPending, resyncSignal,
                  worker, writers, basis, acked, removedAt, late>>
  BY <1>1, TimerFacts
<1>5. Steady /\ \A j \in Keys : WindowsAs(j)
  BY <1>4 DEF Steady, WindowsAs
<1>6. \A j \in Keys : (Eventful(j) => Eventful(j)') /\ (InFlight(j) => InFlight(j)')
  BY <1>4 DEF Eventful, Tells, InFlight
<1>7. Upkeep'
  <2>1. WireCurrent'
    BY <1>4 DEF Upkeep, WireCurrent, Tells
  <2>2. AgainOwed'
    BY <1>2, <1>3 DEF Upkeep, AgainOwed, Begun, Readers, Kinds
  <2>3. GensPast'
    <3>1. reconcileGen \in Nat
      BY <1>1 DEF TypeOK
    <3> QED BY <1>3, <1>4, <3>1 DEF Upkeep, GensPast, Begun
  <2> QED BY <2>1, <2>2, <2>3 DEF Upkeep
<1> SUFFICES ASSUME link = "up", NEW j \in Keys PROVE KeyInv(j)'
  BY <1>4, <1>7 DEF KeysInv
<1>8. KeyInv(j)
  BY DEF KeysInv
<1>9. CASE j # k
  <2>1. \A q \in Readers : Key(q) = j => readers'[q] = readers[q]
    BY <1>2, <1>3, <1>9
  <2>2. Still(j)
    BY <1>3, <1>4, <1>5, <1>6, <1>9, <2>1 DEF Still
  <2> QED BY <1>1, <1>5, <1>8, <2>2, StillKept
<1>10. CASE j = k
  <2>1. CountersKept(k)
    BY <1>4 DEF CountersKept
  <2>2. Suits(k, op) => Queued(k)'
    <3> SUFFICES ASSUME Suits(k, op) PROVE Queued(k)'
      OBVIOUS
    <3>1. CASE again'[k] = IF op = "delete" \/ again[k] = "delete" THEN "delete" ELSE "upsert"
      <4>1. Suits(k, again[k])'
        BY <1>4, <3>1 DEF Suits
      <4> QED BY <4>1 DEF Queued
    <3>2. CASE Begun(readers'[r], op = "delete")
      <4>1. PICK deleted \in BOOLEAN : deleted = (op = "delete")
        OBVIOUS
      <4>2. deleted \/ Present(db[k])
        BY <4>1 DEF Suits
      <4>3. Begun(readers'[r], deleted)
        BY <3>2, <4>1
      <4>4. Settles(k, r)' /\ readers'[r].pc = "start"
        BY <1>4, <4>2, <4>3, BegunSettles
      <4> QED BY <1>2, <4>4 DEF Queued, Reading
    <3> QED BY <1>3, <3>1, <3>2
  <2>3. \A o \in timers[k] : Suits(k, o) => Queued(k)'
    <3> SUFFICES ASSUME NEW o \in timers[k], Suits(k, o), o # op PROVE Queued(k)'
      BY <2>2
    <3>1. o \in timers'[k] /\ Suits(k, o)'
      BY <1>3, <1>4 DEF Suits
    <3> QED BY <3>1 DEF Queued
  <2>4. Suits(k, again[k]) => Queued(k)'
    <3> SUFFICES ASSUME Suits(k, again[k]) PROVE Queued(k)'
      OBVIOUS
    <3>1. readers[r].pc # "idle"
      BY <1>2 DEF Upkeep, AgainOwed, Suits
    <3>2. again'[k] = IF op = "delete" \/ again[k] = "delete" THEN "delete" ELSE "upsert"
      BY <1>3, <3>1
    <3>3. Suits(k, again[k])'
      BY <1>4, <3>2 DEF Suits
    <3> QED BY <3>3 DEF Queued
  <2>5. readers'[r] = readers[r] \/ ~Settles(k, r)
    BY <1>3 DEF Settles
  <2>6. Queued(k) => Queued(k)'
    <3>1. readers'[<<k, "refresh">>] = readers[<<k, "refresh">>] \/ ~Reading(k)
      BY <1>2, <2>5 DEF Reading
    <3> QED BY <1>4, <1>6, <2>1, <2>3, <2>4, <3>1, QueuedKept
  <2>7. Marked(k) => Marked(k)'
    <3>1. \A q \in Readers : Key(q) = k => readers'[q] = readers[q] \/ ~Settles(k, q)
      BY <1>3, <2>5
    <3> QED BY <1>4, <2>1, <3>1, MarkedKept
  <2>8. Direct(k) => Direct(k)'
    BY <1>4 DEF Direct, Agrees
  <2>9. Raced(k)' => Raced(k)
    <3>1. \A q \in Readers : Key(q) = k =>
            readers'[q] = readers[q] \/ readers'[q].pc \notin {"got", "grading"}
      BY <1>3 DEF Begun
    <3> QED BY <1>4, <3>1, RacedKept
  <2>10. (Accounted(k) => Accounted(k)') /\ (Answered(k) => Answered(k)')
    BY <2>6, <2>7, <2>8 DEF Accounted, Answered
  <2>11. KeyInv(k)'
    BY <1>1, <1>4, <1>5, <1>6, <1>8, <1>10, <2>9, <2>10, KeyMoves
  <2> QED BY <1>10, <2>11
<1> QED BY <1>9, <1>10

(* A resync starts over: its window is empty, every re-read under way      *)
(* straddles it and the scope is stale.                                    *)
LEMMA LinkKeys ==
  ASSUME FactInv, Upkeep, KeysInv, LoseConnection \/ OnDisconnect \/ Reconnect \/ OnResync
  PROVE  Upkeep' /\ KeysInv'
<1>1. TypeOK /\ OrderInv /\ reconcileGen \in Nat
  BY DEF FactInv, OrderInv, OwnedInv, TypeInv, TypeOK
<1>2. UNCHANGED <<db, commits, gone, async, entries, fences, unconfirmed, again, worker,
                  timers, readers, writers, basis, acked, removedAt, late>>
  BY <1>1, LinkFacts
<1>3. \/ wire' = << >> /\ link' = "lost"
      \/ wire' = wire /\ link' \in {"joined", "up"}
      \/ wire' = wire /\ link = "lost" /\ link' = "down"
  BY DEF LoseConnection, OnDisconnect, Reconnect, OnResync, storeVars
<1>4. WireCurrent'
  <2>1. CASE wire' = << >>
    BY <2>1 DEF WireCurrent
  <2>2. CASE wire' = wire
    <3>1. link' \in {"lost", "down"} => wire' = << >>
      BY <1>3, <2>2 DEF Upkeep, WireCurrent
    <3> QED BY <1>2, <2>2, <3>1 DEF Upkeep, WireCurrent, Tells
  <2> QED BY <1>3, <2>1, <2>2
<1>5. AgainOwed'
  BY <1>2 DEF Upkeep, AgainOwed
<1>6. reconcileGen' = reconcileGen \/ (OnResync /\ reconcileGen' = reconcileGen + 1)
  BY DEF LoseConnection, OnDisconnect, Reconnect, OnResync, ArmReconcile, armVars
<1>7. GensPast'
  BY <1>1, <1>2, <1>6, MoreNumbers DEF Upkeep, GensPast
<1>8. CASE LoseConnection \/ OnDisconnect \/ Reconnect
  BY <1>4, <1>5, <1>7, <1>8 DEF Upkeep, KeysInv, LoseConnection, OnDisconnect, Reconnect
<1>9. CASE OnResync
  <2>1. stale' = TRUE /\ reconcileGen' = reconcileGen + 1
    BY <1>9 DEF OnResync, ArmReconcile
  <2>2. windows'[reconcileGen'] = [touched |-> {}, unusable |-> {}]
    BY <1>9 DEF OnResync, ArmReconcile
  <2>3. worker.arm.reconcile <= reconcileGen /\ worker.arm.reconcile \in Nat
    <3>1. worker \in Worker
      BY <1>1 DEF TypeOK
    <3> QED BY <1>1, <3>1 DEF OrderInv, OwnedInv, ArmingsDistinct, Worker, Arming
  <2>4. ~Applying'
    BY <1>1, <1>2, <2>1, <2>3 DEF Applying
  <2>5. \A r \in Readers : ~Outrun(r)'
    <3>1. \A r \in Readers : readers'[r].gen # reconcileGen'
      BY <1>1, <1>2, <2>1, MoreNumbers DEF Upkeep, GensPast
    <3> QED BY <3>1 DEF Outrun, Straddles
  <2>6. \A k \in Keys : ~Claimed(k)' /\ ~Pressed(k)' /\ ~Raced(k)'
    BY <2>1, <2>2, <2>4, <2>5 DEF Claimed, Pressed, Raced
  <2>7. KeysInv'
    BY <2>6 DEF KeysInv, KeyInv
  <2> QED BY <1>4, <1>5, <1>7, <2>7 DEF Upkeep
<1> QED BY <1>8, <1>9

-----------------------------------------------------------------------------
(* The worker between its turns.                                           *)

(* A snapshot just taken is the store; one applied in full leaves no key   *)
(* to its turn.                                                            *)
LEMMA WorkerKeys ==
  ASSUME FactInv, Upkeep, KeysInv,
         WorkerWakes \/ TakeReconcile \/ List \/ ListFails \/ Abandon \/ FinishReconcile
  PROVE  Upkeep' /\ KeysInv'
<1>1. TypeOK /\ OrderInv /\ ArmingsNamed
  BY DEF FactInv, OrderInv, OwnedInv, TypeInv
<1>2. UNCHANGED <<db, commits, gone, wire, link, async, entries, fences, unconfirmed,
                  reconcileGen, disconnectGen, again, timers, readers, writers, basis,
                  acked, removedAt, late>>
  BY <1>1, WorkerFacts
<1>3. \/ /\ worker'.pc = "applying" /\ worker'.todo = Keys /\ worker'.snap = db
         /\ worker'.arm = worker.arm
         /\ UNCHANGED <<stale, windows, resyncPending, resyncSignal>>
      \/ /\ worker'.pc # "applying" /\ worker'.todo = {}
         /\ worker'.snap = worker.snap \/ worker'.snap = [k \in Keys |-> NoRow]
         /\ \A g \in DOMAIN windows' : g \in DOMAIN windows /\ windows'[g] = windows[g]
         /\ \/ stale' = stale
            \/ /\ worker.pc = "applying" /\ worker.todo = {} /\ ~Superseded(worker.arm)
               /\ stale' = FALSE
  BY <1>1, WorkerFacts
<1>4. Upkeep'
  BY <1>2 DEF Upkeep, WireCurrent, Tells, AgainOwed, GensPast
<1> SUFFICES ASSUME link = "up", NEW k \in Keys PROVE KeyInv(k)'
  BY <1>2, <1>4 DEF KeysInv
<1>5. KeyInv(k)
  BY DEF KeysInv
<1>6. Answered(k)' <=> Answered(k)
  BY <1>2 DEF Answered, Direct, Agrees, Queued, Eventful, Tells, InFlight, Suits, Reading,
              Settles, Counted, Straddles
<1>7. Marked(k)' <=> Marked(k)
  BY <1>2 DEF Marked, Settles, Counted, Straddles
<1>8. Raced(k)' => Raced(k)
  BY <1>2, RacedKept
<1>9. Eventful(k)' <=> Eventful(k)
  BY <1>2 DEF Eventful, Tells
<1>10. ~Pressed(k)'
  BY <1>2, <1>3 DEF Pressed, Applying
<1>11. Claimed(k)' => Claimed(k)
  <2>1. CASE worker'.todo = Keys /\ worker'.snap = db /\ UNCHANGED <<stale, windows>>
    BY <1>2, <1>8, <2>1 DEF Claimed, Opened
  <2>2. CASE /\ worker'.pc # "applying"
             /\ \A g \in DOMAIN windows' : g \in DOMAIN windows /\ windows'[g] = windows[g]
             /\ stale' = stale \/ (Applying /\ worker.todo = {})
    <3>1. ~stale' => Claimed(k)
      BY <2>2 DEF Claimed
    <3>2. ~Applying'
      BY <2>2 DEF Applying
    <3>3. Opened' => Opened /\ windows'[reconcileGen] = windows[reconcileGen]
      BY <1>2, <2>2 DEF Opened
    <3> QED BY <1>2, <1>8, <3>1, <3>2, <3>3 DEF Claimed
  <2> QED BY <1>3, <2>1, <2>2 DEF Applying, Superseded
<1>12. Claimed(k)' => Accounted(k)'
  BY <1>5, <1>6, <1>7, <1>11 DEF KeyInv, Accounted
<1> QED BY <1>2, <1>5, <1>8, <1>9, <1>10, <1>12, KeyKept

-----------------------------------------------------------------------------
(* The local writes.                                                       *)

(* Rows of the commit a key is at are its row, and no entry is ahead of it.*)
LEMMA EntryBehind ==
  ASSUME FactInv, NEW k \in Keys, entries[k] # Nothing
  PROVE  entries[k].rev \in Nat /\ entries[k].rev <= db[k].at
<1>1. /\ EntrySound(k) /\ basis[k] <= db[k].at /\ basis[k] \in Nat /\ db[k].at \in Nat
      /\ entries[k].rev \in Nat
  BY Numbers, MoreNumbers
     DEF FactInv, EntriesSound, OrderInv, OwnedInv, TypeInv, RowsBehind
<1> QED BY <1>1 DEF EntrySound

(* Publishing the row a key holds makes the cache agree with it. *)
LEMMA PublishAgrees ==
  ASSUME FactInv, NEW k \in Keys, NEW row \in Row, row = db[k], db'[k] = db[k],
         Named(row), Present(row), NEW deleted \in BOOLEAN, NEW at,
         Took(k, row.rev, row.val, deleted, at) \/ Kept(k, row.rev, row.val)
  PROVE  Agrees(k)'
<1>1. row.rev = row.at
  BY DEF Named
<1>2. entries'[k] = [rev |-> row.rev, val |-> row.val]
  <2>1. CASE Took(k, row.rev, row.val, deleted, at)
    BY <2>1 DEF Took
  <2>2. CASE Kept(k, row.rev, row.val)
    <3>1. row.rev \in Nat
      BY DEF Row
    <3> QED BY <1>1, <2>2, <3>1, EntryBehind DEF Kept
  <2> QED BY <2>1, <2>2
<1> QED BY <1>2 DEF Agrees

(* A local write that ends has made the cache agree, or is named late.     *)
LEMMA WriterKeys ==
  ASSUME FactInv, Upkeep, KeysInv, NEW w \in Writers,
         PublishBegin(w) \/ PublishEnd(w) \/ PublishDelete(w)
  PROVE  Upkeep' /\ KeysInv'
<1>1. /\ TypeInv /\ TypeOK /\ OrderInv /\ RowsBehind /\ RowsSound /\ RowsFit
      /\ writers \in [Writers -> Writer]
  BY DEF FactInv, OrderInv, OwnedInv, TypeInv, TypeOK
<1>2. PICK k \in Keys, row \in Row : k = writers[w].key /\ row = writers[w].row
  BY <1>1, WriterFacts, MoreNumbers
<1>3. /\ writers[w].pc # "idle"
      /\ \A u \in Writers : u # w => writers'[u] = writers[u]
  BY <1>1, WriterFacts
<1>4. \/ /\ writers[w].pc = "written" /\ writers'[w].pc = "grading"
         /\ writers'[w].key = k /\ writers'[w].row = row
         /\ Record(k, FALSE)
         /\ UNCHANGED <<entries, fences, unconfirmed, basis, acked, removedAt, late>>
      \/ /\ writers[w].pc = "grading" /\ writers'[w].pc = "idle"
         /\ Publish(k, row.rev, row.val, FALSE, row.at, {})
         /\ Record(k, TRUE)
         /\ removedAt' = removedAt
         /\ WriteOvertaken(k, row)
      \/ /\ writers[w].pc = "deleted" /\ writers'[w].pc = "idle"
         /\ Publish(k, 0, Default, TRUE, row.at, {})
         /\ Record(k, TRUE)
         /\ removedAt'[k] = IF row.at > removedAt[k] THEN row.at ELSE removedAt[k]
         /\ \A j \in Keys : j # k => removedAt'[j] = removedAt[j]
         /\ WriteOvertaken(k, row)
  BY <1>1, <1>2, WriterFacts, ZenonT(40)
<1>5. UNCHANGED <<db, commits, gone, wire, link, async,
                  stale, disconnectGen, reconcileGen, resyncPending, resyncSignal,
                  again, timers, worker, readers>>
  BY <1>1, WriterFacts
<1>6. Upkeep'
  BY <1>5 DEF Upkeep, WireCurrent, Tells, AgainOwed, GensPast
<1>7. DOMAIN windows' = DOMAIN windows /\ \A j \in Keys : j # k => WindowsAs(j)
  BY <1>1, <1>4, RecordAs
<1>8. Steady
  BY <1>5, <1>7 DEF Steady
<1>9. \A j \in Keys : Eventful(j) => Eventful(j)'
  BY <1>5 DEF Eventful, Tells
<1>10. \A j \in Keys : j # k => /\ entries'[j] = entries[j] /\ fences'[j] = fences[j]
                                /\ j \in unconfirmed' <=> j \in unconfirmed
                                /\ late'[j] = late[j] /\ removedAt'[j] = removedAt[j]
  <2>1. CASE UNCHANGED <<entries, fences, unconfirmed, basis, acked, removedAt, late>>
    BY <2>1
  <2>2. ASSUME NEW rev \in Nat, NEW val, NEW deleted \in BOOLEAN,
               Publish(k, rev, val, deleted, row.at, {}), WriteOvertaken(k, row),
               \A j \in Keys : j # k => removedAt'[j] = removedAt[j]
        PROVE  \A j \in Keys : j # k => /\ entries'[j] = entries[j] /\ fences'[j] = fences[j]
                                        /\ j \in unconfirmed' <=> j \in unconfirmed
                                        /\ late'[j] = late[j] /\ removedAt'[j] = removedAt[j]
    <3>1. /\ \A j \in Keys : j # k => entries'[j] = entries[j] /\ fences'[j] = fences[j]
          /\ unconfirmed' = (unconfirmed \ {k}) \cup {}
      BY <1>1, <2>2, PublishFacts
    <3>2. \A j \in Keys : j # k => late'[j] = late[j]
      BY <1>1, <2>2 DEF WriteOvertaken, TypeOK
    <3> QED BY <2>2, <3>1, <3>2
  <2>3. row.rev \in Nat
    BY DEF Row
  <2> QED BY <1>4, <2>1, <2>2, <2>3
<1> SUFFICES ASSUME link = "up", NEW j \in Keys PROVE KeyInv(j)'
  BY <1>5, <1>6 DEF KeysInv
<1>11. KeyInv(j)
  BY DEF KeysInv
<1>12. CASE j # k
  <2>1. InFlight(j) => InFlight(j)'
    BY <1>2, <1>3, <1>12 DEF InFlight
  <2>2. Still(j)
    BY <1>5, <1>7, <1>9, <1>10, <1>12, <2>1 DEF Still
  <2> QED BY <1>1, <1>8, <1>11, <2>2, StillKept
<1>13. CASE j = k
  <2>1. Raced(k)' => Raced(k)
    BY <1>5, RacedKept
  <2>2. Pressed(k)' => Pressed(k)
    BY <1>1, <1>4, <1>5, <1>7, <2>1, ClaimsKept
  <2>3. removedAt[k] = db[k].at => removedAt'[k] = db[k].at
    <3>1. row.at <= db[k].at /\ row.at \in Nat /\ removedAt[k] \in Nat /\ db[k].at \in Nat
      BY <1>1, <1>2, <1>3, Numbers DEF RowsBehind
    <3>2. CASE removedAt' = removedAt
      BY <3>2
    <3>3. CASE removedAt'[k] = IF row.at > removedAt[k] THEN row.at ELSE removedAt[k]
      BY <3>1, <3>3
    <3> QED BY <1>4, <3>2, <3>3
  <2>4. Answered(k)'
    <3>1. CASE writers'[w].pc = "grading" /\ writers'[w].key = k
      BY <3>1 DEF Answered, Queued, InFlight
    <3>2. Sound(row, db[k], gone[k])
      BY <1>1, <1>2, <1>3 DEF RowsSound
    <3>3. CASE WriteOvertaken(k, row) /\ row.at # db[k].at
      BY <1>1, <3>3 DEF WriteOvertaken, TypeOK, Answered, Direct
    <3>4. CASE row.at = db[k].at
      <4>1. row = db[k] /\ Named(row)
        BY <3>2, <3>4 DEF Sound
      <4>2. CASE writers[w].pc = "grading" /\ Publish(k, row.rev, row.val, FALSE, row.at, {})
        <5>1. Present(row)
          BY <1>1, <1>2, <4>2 DEF RowsFit
        <5>2. row.rev \in Nat
          BY DEF Row
        <5>3. Took(k, row.rev, row.val, FALSE, row.at) \/ Kept(k, row.rev, row.val)
          BY <1>1, <4>2, <5>2, PublishFacts
        <5>4. Agrees(k)'
          BY <1>5, <4>1, <5>1, <5>3, PublishAgrees
        <5> QED BY <5>4 DEF Answered, Direct
      <4>3. CASE writers[w].pc = "deleted" /\ Publish(k, 0, Default, TRUE, row.at, {})
        <5>1. ~Present(row)
          BY <1>1, <1>2, <4>3 DEF RowsFit
        <5>2. Took(k, 0, Default, TRUE, row.at)
          BY <1>1, <4>3, PublishFacts DEF Kept
        <5>3. Agrees(k)'
          BY <1>5, <4>1, <5>1, <5>2 DEF Agrees, Took
        <5> QED BY <5>3 DEF Answered, Direct
      <4> QED BY <1>4, <3>1, <4>2, <4>3
    <3> QED BY <1>4, <3>1, <3>3, <3>4
  <2>5. Accounted(k)'
    BY <2>4 DEF Accounted
  <2> QED BY <1>5, <1>9, <1>11, <1>13, <2>1, <2>2, <2>3, <2>4, <2>5, KeyKept
<1> QED BY <1>12, <1>13

-----------------------------------------------------------------------------
(* The re-reads.                                                           *)

(* A re-read on its way: it still settles its key if it did, a failing one *)
(* settles it by its repair, and one that begins to grade a row the store  *)
(* has moved past was outrun already or straddles two windows.             *)
LEMMA ReadingKeys ==
  ASSUME FactInv, Upkeep, KeysInv, NEW r \in Readers,
         ArmRead(r) \/ GetRow(r) \/ GetFails(r) \/ IngestBegin(r)
  PROVE  Upkeep' /\ KeysInv'
<1>1. TypeOK /\ OrderInv /\ RowsSound /\ reconcileGen \in Nat
  BY DEF FactInv, OrderInv, OwnedInv, TypeInv, TypeOK
<1>2. PICK k \in Keys : k = Key(r)
  BY <1>1, ReadingFacts
<1>3. /\ \A q \in Readers : q # r => readers'[q] = readers[q]
      /\ readers'[r].deleted = readers[r].deleted
  BY <1>1, ReadingFacts
<1>4. \/ /\ readers[r].pc = "start" /\ readers'[r].pc = "reading"
         /\ readers'[r].fence = fences[k] /\ readers'[r].row = readers[r].row
         /\ readers'[r].gen = reconcileGen
         /\ windows' = windows
      \/ /\ readers[r].pc = "reading" /\ readers'[r].pc = "got"
         /\ readers'[r].fence = readers[r].fence /\ readers'[r].row = db[k]
         /\ readers'[r].gen = readers[r].gen
         /\ windows' = windows
      \/ /\ readers[r].pc = "reading" /\ readers'[r].pc = "repair"
         /\ readers'[r].row = readers[r].row /\ readers'[r].gen = readers[r].gen
         /\ Record(k, FALSE)
      \/ /\ readers[r].pc = "got" /\ readers'[r].pc = "grading"
         /\ readers'[r].fence = readers[r].fence /\ readers'[r].row = readers[r].row
         /\ readers'[r].gen = readers[r].gen /\ Present(readers[r].row)
         /\ Record(k, FALSE)
  BY <1>1, <1>2, ReadingFacts
<1>5. UNCHANGED <<db, commits, gone, wire, link, async, entries, fences, unconfirmed,
                  stale, disconnectGen, reconcileGen, resyncPending, resyncSignal,
                  again, timers, worker, writers, basis, acked, removedAt, late>>
  BY <1>1, ReadingFacts
<1>6. Upkeep'
  <2>1. WireCurrent'
    BY <1>5 DEF Upkeep, WireCurrent, Tells
  <2>2. \A q \in Readers : readers[q].pc # "idle" => readers'[q].pc # "idle"
    BY <1>3, <1>4
  <2>3. AgainOwed'
    BY <1>5, <2>2, RefreshReader DEF Upkeep, AgainOwed
  <2>4. readers'[r].gen = readers[r].gen \/ readers'[r].gen = reconcileGen
    BY <1>4
  <2>5. GensPast'
    BY <1>1, <1>3, <1>5, <2>4 DEF Upkeep, GensPast
  <2> QED BY <2>1, <2>3, <2>5 DEF Upkeep
<1>7. DOMAIN windows' = DOMAIN windows /\ \A j \in Keys : j # k => WindowsAs(j)
  <2>1. CASE Record(k, FALSE)
    BY <1>1, <2>1, RecordAs
  <2>2. CASE windows' = windows
    BY <2>2 DEF WindowsAs
  <2> QED BY <1>4, <2>1, <2>2
<1>8. Steady
  BY <1>5, <1>7 DEF Steady
<1>9. \A j \in Keys : /\ Eventful(j) => Eventful(j)'
                      /\ InFlight(j) => InFlight(j)'
  BY <1>5 DEF Eventful, Tells, InFlight
<1> SUFFICES ASSUME link = "up", NEW j \in Keys PROVE KeyInv(j)'
  BY <1>5, <1>6 DEF KeysInv
<1>10. KeyInv(j)
  BY DEF KeysInv
<1>11. CASE j # k
  <2>1. \A q \in Readers : Key(q) = j => readers'[q] = readers[q]
    BY <1>2, <1>3, <1>11
  <2>2. Still(j)
    BY <1>5, <1>7, <1>9, <1>11, <2>1 DEF Still
  <2> QED BY <1>1, <1>8, <1>10, <2>2, StillKept
<1>12. CASE j = k
  <2>1. CountersKept(k) /\ (Direct(k) => Direct(k)')
    BY <1>5 DEF CountersKept, Direct, Agrees
  <2>2. Settles(k, r) => Settles(k, r)'
    <3>1. CASE readers[r].pc = "start"
      <4>1. Counted(k, readers[r])'
        BY <1>4, <1>5, <3>1 DEF Counted
      <4> QED BY <1>3, <1>4, <1>5, <3>1, <4>1 DEF Settles
    <3>2. CASE readers[r].pc = "reading"
      <4>1. CASE readers'[r].pc = "repair"
        BY <4>1 DEF Settles
      <4>2. CASE readers'[r].fence = readers[r].fence /\ readers'[r].row = db[k]
                 /\ readers'[r].pc = "got"
        <5>1. Counted(k, readers[r]) => Counted(k, readers[r])'
          BY <1>5, <4>2 DEF Counted
        <5> QED BY <1>3, <1>5, <3>2, <4>2, <5>1 DEF Settles
      <4> QED BY <1>4, <3>2, <4>1, <4>2
    <3>3. CASE readers[r].pc = "got"
      <4>1. /\ readers'[r].pc = "grading" /\ readers'[r].fence = readers[r].fence
            /\ readers'[r].row = readers[r].row /\ Present(readers[r].row)
        BY <1>4, <3>3
      <4>2. Counted(k, readers[r]) => Counted(k, readers[r])'
        BY <1>5, <4>1 DEF Counted
      <4> QED BY <1>3, <1>5, <3>3, <4>1, <4>2 DEF Settles
    <3> QED BY <1>4, <3>1, <3>2, <3>3
  <2>3. Marked(k) => Marked(k)'
    <3>1. \A q \in Readers : Key(q) = k =>
             readers'[q] = readers[q] \/ ~Settles(k, q) \/ Settles(k, q)'
      BY <1>3, <2>2
    <3> QED BY <1>5, <2>1, <3>1, MarkedKept
  <2>5. CASE readers'[r].pc = "repair"
    <3>1. Accounted(k)'
      BY <1>2, <2>5 DEF Settles, Marked, Accounted
    <3>2. Record(k, FALSE)
      BY <1>4, <2>5
    <3>3. Raced(k)' => Raced(k)
      <4>1. \A q \in Readers : Key(q) = k =>
               readers'[q] = readers[q] \/ readers'[q].pc \notin {"got", "grading"}
        BY <1>3, <2>5
      <4> QED BY <1>5, <4>1, RacedKept
    <3>4. Pressed(k)' => Pressed(k) /\ Unusable(k)'
      BY <1>1, <1>5, <1>7, <3>2, <3>3, ClaimsKept
    <3> QED BY <1>5, <1>9, <1>10, <1>12, <3>1, <3>3, <3>4, KeyKept
  <2>6. CASE readers'[r].pc # "repair"
    <3>1. Queued(k) => Queued(k)'
      <4>1. \A op \in timers[k] : Suits(k, op) => Queued(k)'
        BY <1>5 DEF Queued, Suits
      <4>2. Suits(k, again[k]) => Queued(k)'
        BY <1>5 DEF Queued, Suits
      <4>3. \/ readers'[<<k, "refresh">>] = readers[<<k, "refresh">>]
            \/ ~Reading(k)
            \/ Queued(k)'
        <5>1. CASE <<k, "refresh">> # r
          BY <1>3, <5>1, RefreshReader
        <5>2. CASE <<k, "refresh">> = r
          BY <2>2, <2>6, <5>2 DEF Reading, Queued
        <5> QED BY <5>1, <5>2
      <4> QED BY <1>5, <1>9, <2>1, <4>1, <4>2, <4>3, QueuedKept
    <3>2. (Accounted(k) => Accounted(k)') /\ (Answered(k) => Answered(k)')
      BY <2>1, <2>3, <3>1 DEF Accounted, Answered
    <3>3. Raced(k)' => Raced(k)
      <4>1. \A q \in Readers : Key(q) = k =>
              \/ readers'[q] = readers[q]
              \/ readers'[q].pc \notin {"got", "grading"}
              \/ readers'[q].row.at = db[k].at
              \/ /\ readers[q].pc = "got" /\ readers'[q].row = readers[q].row
                 /\ readers'[q].gen = readers[q].gen
        BY <1>3, <1>4
      <4> QED BY <1>5, <4>1, RacedKept
    <3>4. CASE windows' = windows
      <4>1. WindowsAs(k)
        BY <3>4 DEF WindowsAs
      <4>2. KeyInv(k)'
        BY <1>1, <1>5, <1>8, <1>9, <1>10, <1>12, <3>2, <3>3, <4>1, KeyMoves
      <4> QED BY <1>12, <4>2
    <3>5. CASE /\ readers[r].pc = "got" /\ readers'[r].pc = "grading"
               /\ readers'[r].row = readers[r].row /\ readers'[r].gen = readers[r].gen
               /\ Present(readers[r].row) /\ Record(k, FALSE)
      <4>1. /\ Claimed(k)' => Claimed(k) \/ ~Present(db[k])
            /\ Pressed(k)' => Pressed(k) /\ Unusable(k)'
        BY <1>1, <1>5, <1>7, <3>3, <3>5, ClaimsKept
      <4>2. ASSUME ~Present(db[k]) PROVE Accounted(k)'
        <5>1. readers[r].row.at # db[k].at
          BY <1>1, <1>2, <3>5, <4>2 DEF RowsSound, Sound
        <5>2. CASE Straddles(r)
          <6>1. Settles(k, r)'
            BY <1>5, <3>5, <5>1, <5>2 DEF Settles, Straddles
          <6> QED BY <1>2, <6>1 DEF Marked, Accounted
        <5>3. CASE ~Straddles(r)
          <6>1. Claimed(k)
            BY <1>2, <3>5, <5>1, <5>3 DEF Outrun, Raced, Claimed
          <6> QED BY <1>10, <1>12, <3>2, <6>1 DEF KeyInv
        <5> QED BY <5>2, <5>3
      <4>3. Claimed(k)' => Accounted(k)'
        BY <1>10, <1>12, <3>2, <4>1, <4>2 DEF KeyInv
      <4> QED BY <1>5, <1>9, <1>10, <1>12, <3>3, <4>1, <4>3, KeyKept
    <3> QED BY <1>4, <2>6, <3>4, <3>5
  <2> QED BY <2>5, <2>6
<1> QED BY <1>11, <1>12

(* The upkeep at the end of a re-read, which may begin another. *)
LEMMA EndUpkeep ==
  ASSUME TypeOK, Upkeep, NEW r \in Readers, Ends(r), UNCHANGED <<db, wire, link, reconcileGen>>,
         \A q \in Readers : q # r =>
            \/ readers'[q] = readers[q]
            \/ Retried(q) /\ readers'[q].pc = "start" /\ readers'[q].gen = 0
  PROVE  Upkeep'
<1>1. WireCurrent'
  BY DEF Upkeep, WireCurrent, Tells
<1>2. AgainOwed'
  <2> SUFFICES ASSUME NEW k \in Keys, again'[k] # "no"
               PROVE  readers'[<<k, "refresh">>].pc # "idle"
    BY DEF AgainOwed
  <2>1. again'[k] = again[k]
    BY DEF Ends
  <2>2. <<k, "refresh">> # r \/ Begun(readers'[r], again[k] = "delete")
    BY <2>1, RefreshReader DEF Ends
  <2>3. readers[<<k, "refresh">>].pc # "idle"
    BY <2>1 DEF Upkeep, AgainOwed
  <2> QED BY <2>2, <2>3, RefreshReader DEF Begun
<1>3. GensPast'
  <2>1. readers'[r].gen = 0
    BY DEF Ends, Done, Begun
  <2>2. reconcileGen \in Nat
    BY DEF TypeOK
  <2> QED BY <2>1, <2>2 DEF Upkeep, GensPast
<1> QED BY <1>1, <1>2, <1>3 DEF Upkeep

(* A re-read that ends without being what its key waits for leaves under   *)
(* way what was.                                                           *)
LEMMA EndKeeps ==
  ASSUME TypeOK, NEW r \in Readers, NEW k \in Keys, k = Key(r), Ends(r), db'[k] = db[k],
         UNCHANGED <<timers, reconcileGen>>, CountersKept(k),
         Eventful(k) => Eventful(k)', InFlight(k) => InFlight(k)',
         \A q \in Readers : q # r /\ ~Retried(q) => readers'[q] = readers[q],
         Retried(r) \/ readers[r].pc = "repair" \/ ~Settles(k, r)
  PROVE  Queued(k) => Queued(k)'
<1>1. \A op \in timers[k] : Suits(k, op) => Queued(k)'
  BY DEF Queued, Suits
<1>2. Suits(k, again[k]) => Queued(k)'
  BY EndQueued
<1>3. readers'[<<k, "refresh">>] = readers[<<k, "refresh">>] \/ ~Reading(k)
  <2>1. CASE <<k, "refresh">> # r
    BY <2>1, RefreshReader
  <2>2. CASE <<k, "refresh">> = r
    BY <2>2, RefreshReader DEF Reading
  <2> QED BY <2>1, <2>2
<1> QED BY <1>1, <1>2, <1>3, QueuedKept

(* A re-read that ends is not outrun any more. *)
LEMMA EndRaced ==
  ASSUME NEW r \in Readers, NEW k \in Keys, Ends(r), db'[k] = db[k],
         reconcileGen' = reconcileGen,
         \A q \in Readers : q # r => readers'[q] = readers[q] \/ readers'[q].pc = "start",
         Raced(k)'
  PROVE  Raced(k)
<1>1. readers'[r].pc \in {"idle", "start"}
  BY DEF Ends, Done, Begun
<1>2. \A q \in Readers : Key(q) = k =>
         readers'[q] = readers[q] \/ readers'[q].pc \notin {"got", "grading"}
  BY <1>1
<1> QED BY <1>2, RacedKept

(* A re-read that ends without an answer leaves its key to its repair, to  *)
(* the list of unconfirmed keys or named as overtaken.                     *)
LEMMA QuietEndKeys ==
  ASSUME FactInv, Upkeep, KeysInv, NEW r \in Readers, NoRowForUpsert(r) \/ RetryRefresh(r)
  PROVE  Upkeep' /\ KeysInv'
<1>1. TypeOK /\ OrderInv /\ RowsSound
  BY DEF FactInv, OrderInv, OwnedInv, TypeInv
<1>2. PICK k \in Keys, slot \in Readers, deleted \in BOOLEAN :
        /\ k = Key(r) /\ slot = RetryOf(k, readers[r].deleted) /\ deleted = readers[r].deleted
        /\ Retried(slot) /\ Key(slot) = k
  <2>1. readers[r] \in Reader
    BY <1>1 DEF TypeOK
  <2>2. readers[r].deleted \in BOOLEAN
    BY <2>1 DEF Reader
  <2> QED BY <1>1, <2>2, QuietEndFacts
<1>3. Ends(r)
  BY <1>1, QuietEndFacts
<1>4. \/ /\ readers[r].pc = "got" /\ ~Present(readers[r].row) /\ ~deleted
         /\ ~Retried(r) /\ UNCHANGED <<unconfirmed, late>>
         /\ \A q \in Readers : q # r => readers'[q] = readers[q]
      \/ /\ \/ readers[r].pc = "repair"
            \/ readers[r].pc = "got" /\ ~Present(readers[r].row) /\ ~deleted
         /\ Retried(r) /\ RecordUnconfirmed(k, readers[r].origin)
         /\ \A q \in Readers : q # r => readers'[q] = readers[q]
      \/ /\ readers[r].pc = "repair" /\ ~Retried(r) /\ UNCHANGED <<unconfirmed, late>>
         /\ readers[slot].pc = "idle" /\ Begun(readers'[slot], deleted)
         /\ \A q \in Readers : q # r /\ q # slot => readers'[q] = readers[q]
      \/ /\ readers[r].pc = "repair" /\ ~Retried(r) /\ UNCHANGED unconfirmed
         /\ late' = Tagged(k, "repair")
         /\ \A q \in Readers : q # r => readers'[q] = readers[q]
  BY <1>1, <1>2, QuietEndFacts
<1>5. UNCHANGED <<db, commits, gone, wire, link, async, entries, fences, windows,
                  stale, disconnectGen, reconcileGen, resyncPending, resyncSignal,
                  timers, worker, writers, basis, acked, removedAt>>
  BY <1>1, QuietEndFacts
<1>6. \A q \in Readers : q # r =>
         \/ readers'[q] = readers[q]
         \/ q = slot /\ Retried(q) /\ readers'[q].pc = "start" /\ readers'[q].gen = 0
  BY <1>2, <1>4 DEF Begun
<1>7. Upkeep'
  BY <1>1, <1>3, <1>5, <1>6, EndUpkeep
<1>8. \A j \in Keys : /\ Eventful(j) => Eventful(j)'
                      /\ InFlight(j) => InFlight(j)'
                      /\ WindowsAs(j) /\ CountersKept(j)
                      /\ Agrees(j)' <=> Agrees(j)
                      /\ removedAt'[j] = removedAt[j]
  BY <1>5 DEF Eventful, Tells, InFlight, WindowsAs, CountersKept, Agrees
<1>9. Steady
  BY <1>5 DEF Steady
<1>10. /\ \A j \in Keys : j # k => /\ late'[j] = late[j]
                                   /\ j \in unconfirmed' <=> j \in unconfirmed
       /\ late[k] # "no" => late'[k] # "no"
       /\ k \in unconfirmed => k \in unconfirmed'
  <2>1. late \in [Keys -> {"no", "write", "reread", "repair"}]
    BY <1>1 DEF TypeOK
  <2>2. CASE UNCHANGED unconfirmed /\ (late' = late \/ late' = Tagged(k, "repair"))
    BY <2>1, <2>2 DEF Tagged
  <2>3. CASE RecordUnconfirmed(k, readers[r].origin)
    BY <2>1, <2>3 DEF RecordUnconfirmed, Tagged
  <2> QED BY <1>4, <2>2, <2>3
<1> SUFFICES ASSUME link = "up", NEW j \in Keys PROVE KeyInv(j)'
  BY <1>5, <1>7 DEF KeysInv
<1>11. KeyInv(j)
  BY DEF KeysInv
<1>12. CASE j # k
  <2>1. \A q \in Readers : Key(q) = j => readers'[q] = readers[q]
    BY <1>2, <1>6, <1>12
  <2>2. again'[j] = again[j]
    BY <1>2, <1>3, <1>12 DEF Ends
  <2>3. late'[j] = late[j] /\ (j \in unconfirmed' <=> j \in unconfirmed)
    BY <1>10, <1>12
  <2>4. Still(j)
    BY <1>5, <1>8, <2>1, <2>2, <2>3 DEF Still
  <2> QED BY <1>1, <1>9, <1>11, <2>4, StillKept
<1>13. CASE j = k
  <2>1. Raced(k)' => Raced(k)
    BY <1>3, <1>5, <1>6, EndRaced
  <2>2. Direct(k) => Direct(k)'
    BY <1>8, <1>10 DEF Direct
  <2>3. Retried(r) \/ readers[r].pc = "repair" \/ ~Settles(k, r)
    <3> SUFFICES ASSUME readers[r].pc = "got", ~Present(readers[r].row), ~deleted,
                        ~Retried(r), Settles(k, r)
                 PROVE  FALSE
      BY <1>4
    <3>1. readers[r].row.at = db[k].at /\ Present(db[k])
      BY <1>2 DEF Settles
    <3> QED BY <1>1, <1>2, <3>1 DEF RowsSound, Sound
  <2>4. Queued(k) => Queued(k)'
    BY <1>1, <1>2, <1>3, <1>5, <1>6, <1>8, <2>3, EndKeeps
  <2>5. Answered(k) => Answered(k)'
    BY <2>2, <2>4 DEF Answered
  <2>6. Accounted(k) => Accounted(k)'
    <3>1. CASE /\ readers[r].pc = "got" /\ ~Retried(r)
               /\ \A q \in Readers : q # r => readers'[q] = readers[q]
      <4>1. ~Settles(k, r)
        BY <2>3, <3>1
      <4>2. Marked(k) => Marked(k)'
        BY <1>5, <1>8, <1>10, <3>1, <4>1, MarkedKept
      <4> QED BY <2>5, <4>2 DEF Accounted
    <3>2. CASE RecordUnconfirmed(k, readers[r].origin)
      <4>1. late \in [Keys -> {"no", "write", "reread", "repair"}]
        BY <1>1 DEF TypeOK
      <4>2. k \in unconfirmed' \/ late'[k] # "no" \/ Agrees(k)
        BY <3>2, <4>1 DEF RecordUnconfirmed, Tagged
      <4> QED BY <1>8, <4>2 DEF Accounted, Answered, Direct, Marked
    <3>3. CASE Begun(readers'[slot], deleted)
      <4>1. Settles(k, slot)'
        BY <1>2, <1>5, <3>3, BegunSettles
      <4> QED BY <1>2, <4>1 DEF Accounted, Marked
    <3>4. CASE late' = Tagged(k, "repair")
      <4>1. late'[k] # "no"
        BY <1>1, <3>4 DEF Tagged, TypeOK
      <4> QED BY <4>1 DEF Accounted, Answered, Direct
    <3> QED BY <1>4, <3>1, <3>2, <3>3, <3>4
  <2>7. KeyInv(k)'
    BY <1>1, <1>5, <1>8, <1>9, <1>11, <1>13, <2>1, <2>5, <2>6, KeyMoves
  <2> QED BY <1>13, <2>7
<1> QED BY <1>12, <1>13

(* A re-read that ends with an answer has made the cache agree with the    *)
(* store, or is named as overtaken; one outrun in its own window found its *)
(* key accounted for, and takes nothing of that back.                      *)
LEMMA AnswerKeys ==
  ASSUME FactInv, Upkeep, KeysInv, NEW r \in Readers, PublishAbsentDelete(r) \/ IngestEnd(r)
  PROVE  Upkeep' /\ KeysInv'
<1>1. /\ TypeOK /\ OrderInv /\ RowsBehind /\ RowsSound /\ RowsFit /\ FencesSound
      /\ EntriesSound /\ PublicationsSound
  BY DEF FactInv, OrderInv, OwnedInv, TypeInv
<1>2. PICK k \in Keys, x \in Reader : k = Key(r) /\ x = readers[r]
  BY <1>1, AnswerFacts DEF TypeOK
<1>3. Ends(r) /\ \A q \in Readers : q # r => readers'[q] = readers[q]
  BY <1>1, AnswerFacts
<1>4. \/ /\ x.pc = "got" /\ ~Present(x.row) /\ x.deleted /\ fences[k] # x.fence
         /\ UNCHANGED <<entries, fences, unconfirmed, basis, windows, late>>
      \/ /\ x.pc = "got" /\ ~Present(x.row) /\ x.deleted /\ fences[k] = x.fence
         /\ Publish(k, 0, Default, FALSE, x.row.at, {})
         /\ Record(k, TRUE) /\ ReadOvertaken(r, TRUE)
      \/ /\ x.pc = "grading" /\ Usable(x.row) /\ fences[k].deletes = x.fence.deletes
         /\ Publish(k, x.row.rev, x.row.val, FALSE, x.row.at, {})
         /\ Record(k, TRUE) /\ ReadOvertaken(r, TRUE)
      \/ /\ x.pc = "grading" /\ ~(Usable(x.row) /\ fences[k].deletes = x.fence.deletes)
         /\ UNCHANGED <<entries, fences, unconfirmed, basis>>
         /\ Record(k, FALSE) /\ ReadOvertaken(r, FALSE)
  BY <1>1, <1>2, AnswerFacts, ZenonT(40)
<1>5. UNCHANGED <<db, commits, gone, wire, link, async,
                  stale, disconnectGen, reconcileGen, resyncPending, resyncSignal,
                  timers, worker, writers, acked, removedAt>>
  BY <1>1, AnswerFacts
<1>6. Upkeep'
  BY <1>1, <1>3, <1>5, EndUpkeep
<1>7. DOMAIN windows' = DOMAIN windows /\ \A j \in Keys : j # k => WindowsAs(j)
  <2>1. CASE Record(k, TRUE) \/ Record(k, FALSE)
    BY <1>1, <2>1, RecordAs
  <2>2. CASE windows' = windows
    BY <2>2 DEF WindowsAs
  <2> QED BY <1>4, <2>1, <2>2
<1>8. Steady
  BY <1>5, <1>7 DEF Steady
<1>9. \A j \in Keys : /\ Eventful(j) => Eventful(j)'
                      /\ InFlight(j) => InFlight(j)'
                      /\ removedAt'[j] = removedAt[j]
  BY <1>5 DEF Eventful, Tells, InFlight
<1>10. x.row \in Row /\ x.row.rev \in Nat /\ x.row.at \in Nat
  BY <1>1, <1>2, MoreNumbers
<1>11. \A j \in Keys : j # k => /\ entries'[j] = entries[j] /\ fences'[j] = fences[j]
                                /\ j \in unconfirmed' <=> j \in unconfirmed
                                /\ late'[j] = late[j]
  <2>1. CASE UNCHANGED <<entries, fences, unconfirmed, basis, late>>
    BY <2>1
  <2>2. ASSUME NEW decided \in BOOLEAN, ReadOvertaken(r, decided)
        PROVE  \A j \in Keys : j # k => late'[j] = late[j]
    BY <1>1, <1>2, <2>2, OvertakenFacts
  <2>3. CASE UNCHANGED <<entries, fences, unconfirmed, basis>> /\ ReadOvertaken(r, FALSE)
    BY <2>2, <2>3
  <2>4. ASSUME NEW rev \in Nat, NEW val, Publish(k, rev, val, FALSE, x.row.at, {}),
               ReadOvertaken(r, TRUE)
        PROVE  \A j \in Keys : j # k => /\ entries'[j] = entries[j] /\ fences'[j] = fences[j]
                                        /\ j \in unconfirmed' <=> j \in unconfirmed
                                        /\ late'[j] = late[j]
    <3>1. /\ \A j \in Keys : j # k => entries'[j] = entries[j] /\ fences'[j] = fences[j]
          /\ unconfirmed' = (unconfirmed \ {k}) \cup {}
      BY <1>1, <2>4, PublishFacts
    <3> QED BY <2>2, <2>4, <3>1
  <2> QED BY <1>4, <1>10, <2>1, <2>3, <2>4
<1> SUFFICES ASSUME link = "up", NEW j \in Keys PROVE KeyInv(j)'
  BY <1>5, <1>6 DEF KeysInv
<1>12. KeyInv(j)
  BY DEF KeysInv
<1>13. CASE j # k
  <2>1. \A q \in Readers : Key(q) = j => readers'[q] = readers[q]
    BY <1>2, <1>3, <1>13
  <2>2. again'[j] = again[j]
    BY <1>2, <1>3, <1>13 DEF Ends
  <2>3. Still(j)
    BY <1>5, <1>7, <1>9, <1>11, <1>13, <2>1, <2>2 DEF Still
  <2> QED BY <1>1, <1>8, <1>12, <2>3, StillKept
<1>14. CASE j = k
  <2>1. Raced(k)' => Raced(k)
    BY <1>3, <1>5, EndRaced
  <2>2. /\ x.row.at <= db[k].at /\ db[k].at \in Nat /\ removedAt[k] \in Nat /\ db[k] \in Row
        /\ Sound(x.row, db[k], gone[k]) /\ Sound(db[k], db[k], gone[k])
    BY <1>1, <1>2, Numbers, MoreNumbers DEF RowsBehind, RowsSound
  <2>3. ASSUME CountersKept(k), ~Settles(k, r)
        PROVE  /\ Queued(k) => Queued(k)'
               /\ (k \in unconfirmed => k \in unconfirmed') => (Marked(k) => Marked(k)')
    <3>1. Queued(k) => Queued(k)'
      BY <1>1, <1>2, <1>3, <1>5, <1>9, <2>3, EndKeeps
    <3>2. (k \in unconfirmed => k \in unconfirmed') => (Marked(k) => Marked(k)')
      BY <1>3, <1>5, <2>3, MarkedKept
    <3> QED BY <3>1, <3>2
  <2>4. ASSUME x.row.at # db[k].at, ~Straddles(r), x.pc \in {"got", "grading"},
               x.pc = "got" => x.deleted
        PROVE  Raced(k) /\ Accounted(k) /\ ~Settles(k, r)
    <3>1. Raced(k)
      BY <1>2, <2>4 DEF Outrun, Raced
    <3>2. Accounted(k)
      BY <1>12, <1>14, <3>1 DEF Claimed, KeyInv
    <3>3. ~Settles(k, r)
      BY <1>2, <2>4 DEF Settles
    <3> QED BY <3>1, <3>2, <3>3
  <2>5. ASSUME NEW rev \in Nat, NEW val, Publish(k, rev, val, FALSE, x.row.at, {}),
               Record(k, TRUE), ReadOvertaken(r, TRUE), fences[k].deletes = x.fence.deletes,
               x.pc \in {"got", "grading"}, x.pc = "got" => x.deleted,
               x.row.at = db[k].at => Agrees(k)',
               x.row.at # db[k].at /\ Present(db[k]) /\ Agrees(k) => Agrees(k)'
        PROVE  KeyInv(k)'
    <3>1. ~Pressed(k)'
      BY <1>1, <1>5, <1>7, <2>1, <2>5, ClaimsKept
    <3>2. /\ x.row.at = db[k].at => late'[k] = "no"
          /\ x.row.at # db[k].at => late'[k] = IF late[k] # "no" THEN late[k]
                                               ELSE IF Straddles(r) THEN "reread"
                                               ELSE IF k \in unconfirmed THEN "repair" ELSE "no"
      BY <1>1, <1>2, <2>5, OvertakenFacts
    <3>3. Accounted(k)'
      <4>1. CASE x.row.at = db[k].at
        BY <2>5, <4>1 DEF Accounted, Answered, Direct
      <4>2. CASE late'[k] # "no"
        BY <4>2 DEF Accounted, Answered, Direct
      <4>3. CASE /\ x.row.at # db[k].at /\ late[k] = "no" /\ ~Straddles(r)
                 /\ k \notin unconfirmed
        <5>1. Raced(k) /\ Accounted(k) /\ ~Settles(k, r)
          BY <2>4, <2>5, <4>3
        <5>2. CASE Eventful(k)
          BY <1>9, <5>2 DEF Accounted, Answered, Queued
        <5>3. CASE Present(db[k])
          <6>1. fences[k].deletes \in Nat
            BY <1>1, Numbers
          <6>2. Took(k, rev, val, FALSE, x.row.at) \/ Kept(k, rev, val)
            BY <1>1, <2>5, PublishFacts
          <6>3. fences'[k].deletes = fences[k].deletes
            BY <6>1, <6>2 DEF Took, Kept
          <6>4. CountersKept(k)
            BY <5>3, <6>3 DEF CountersKept
          <6>5. Direct(k) => Direct(k)'
            BY <2>5, <4>3, <5>3 DEF Direct
          <6> QED BY <2>3, <4>3, <5>1, <6>4, <6>5 DEF Accounted, Answered
        <5>4. removedAt[k] <= x.row.at
          BY <1>1, <1>2, <2>5 DEF FencesSound
        <5>5. removedAt[k] # db[k].at
          BY <1>10, <2>2, <4>3, <5>4
        <5> QED BY <1>12, <1>14, <5>1, <5>2, <5>3, <5>5 DEF KeyInv
      <4> QED BY <3>2, <4>1, <4>2, <4>3
    <3> QED BY <1>5, <1>9, <1>12, <1>14, <2>1, <3>1, <3>3, KeyKept
  <2>6. CASE /\ x.pc = "got" /\ ~Present(x.row) /\ x.deleted /\ fences[k] # x.fence
             /\ UNCHANGED <<entries, fences, unconfirmed, basis, windows, late>>
    <3>1. ~Settles(k, r)
      BY <1>2, <2>2, <2>6 DEF Settles, Counted, Sound
    <3>2. CountersKept(k) /\ WindowsAs(k) /\ (Direct(k) => Direct(k)')
      BY <1>5, <2>6 DEF CountersKept, WindowsAs, Direct, Agrees
    <3>3. (Accounted(k) => Accounted(k)') /\ (Answered(k) => Answered(k)')
      BY <2>3, <2>6, <3>1, <3>2 DEF Accounted, Answered
    <3> QED BY <1>1, <1>5, <1>8, <1>9, <1>12, <1>14, <2>1, <3>2, <3>3, KeyMoves
  <2>7. CASE /\ x.pc = "got" /\ ~Present(x.row) /\ x.deleted /\ fences[k] = x.fence
             /\ Publish(k, 0, Default, FALSE, x.row.at, {})
             /\ Record(k, TRUE) /\ ReadOvertaken(r, TRUE)
    <3>1. Took(k, 0, Default, FALSE, x.row.at)
      BY <1>1, <2>7, PublishFacts DEF Kept
    <3>2. ASSUME x.row.at = db[k].at PROVE Agrees(k)'
      <4>1. ~Present(db[k])
        BY <2>2, <2>7, <3>2 DEF Sound
      <4> QED BY <1>5, <3>1, <4>1 DEF Agrees, Took
    <3>3. ASSUME x.row.at # db[k].at, Present(db[k]), Agrees(k) PROVE Agrees(k)'
      <4>1. CASE ~Usable(db[k])
        BY <1>5, <3>3, <4>1 DEF Agrees
      <4>2. CASE Usable(db[k])
        <5>1. /\ entries[k] = [rev |-> db[k].rev, val |-> db[k].val] /\ db[k].rev \in Nat
              /\ db[k].rev = db[k].at /\ db[k].rev # 0 /\ db[k].val \in Values
          BY <2>2, <3>3, <4>2 DEF Agrees, Sound, Named, Row, Usable
        <5>2. entries[k] # Nothing /\ entries[k].rev = db[k].at
          BY <5>1, EntryAssumption DEF Entry
        <5>3. basis[k] = db[k].at
          BY <1>1, <5>1, <5>2 DEF EntriesSound, EntrySound
        <5>4. basis[k] <= x.row.at
          BY <1>1, <1>2, <2>7 DEF PublicationsSound
        <5> QED BY <1>10, <2>2, <3>3, <5>3, <5>4
      <4> QED BY <4>1, <4>2
    <3> QED BY <1>14, <2>5, <2>7, <3>2, <3>3
  <2>8. CASE /\ x.pc = "grading" /\ Usable(x.row) /\ fences[k].deletes = x.fence.deletes
             /\ Publish(k, x.row.rev, x.row.val, FALSE, x.row.at, {})
             /\ Record(k, TRUE) /\ ReadOvertaken(r, TRUE)
    <3>1. /\ Took(k, x.row.rev, x.row.val, FALSE, x.row.at) \/ Kept(k, x.row.rev, x.row.val)
          /\ Present(x.row) /\ Named(x.row)
      BY <1>1, <1>2, <1>10, <2>2, <2>8, PublishFacts DEF RowsFit, Sound
    <3>2. ASSUME x.row.at = db[k].at PROVE Agrees(k)'
      <4>1. x.row = db[k]
        BY <2>2, <3>2 DEF Sound
      <4> QED BY <1>5, <1>10, <3>1, <4>1, PublishAgrees
    <3>3. ASSUME x.row.at # db[k].at, Present(db[k]), Agrees(k) PROVE Agrees(k)'
      <4>1. CASE ~Usable(db[k])
        BY <1>5, <3>3, <4>1 DEF Agrees
      <4>2. CASE Usable(db[k])
        <5>1. /\ entries[k] = [rev |-> db[k].rev, val |-> db[k].val] /\ db[k].rev \in Nat
              /\ db[k].rev = db[k].at /\ db[k].val \in Values
          BY <2>2, <3>3, <4>2 DEF Agrees, Sound, Named, Row, Usable
        <5>2. entries[k] # Nothing /\ entries[k].rev = db[k].at
          BY <5>1, EntryAssumption DEF Entry
        <5>3. x.row.rev = x.row.at /\ x.row.rev # 0
          BY <3>1 DEF Named
        <5>4. ~(x.row.rev >= entries[k].rev)
          BY <1>10, <2>2, <3>3, <5>2, <5>3
        <5>5. entries'[k] = entries[k]
          BY <3>1, <5>2, <5>3, <5>4 DEF Took, Kept
        <5> QED BY <1>5, <3>3, <5>5 DEF Agrees
      <4> QED BY <4>1, <4>2
    <3> QED BY <1>10, <1>14, <2>5, <2>8, <3>2, <3>3
  <2>9. CASE /\ x.pc = "grading" /\ ~(Usable(x.row) /\ fences[k].deletes = x.fence.deletes)
             /\ UNCHANGED <<entries, fences, unconfirmed, basis>>
             /\ Record(k, FALSE) /\ ReadOvertaken(r, FALSE)
    <3>1. /\ Claimed(k)' => Claimed(k) \/ ~Present(db[k])
          /\ Pressed(k)' => Pressed(k) /\ Unusable(k)'
      BY <1>1, <1>5, <1>7, <2>1, <2>9, ClaimsKept
    <3>2. /\ x.row.at = db[k].at => late'[k] = late[k]
          /\ x.row.at # db[k].at =>
               late'[k] = IF late[k] # "no" THEN late[k]
                          ELSE IF Straddles(r) THEN "reread" ELSE "no"
      BY <1>1, <1>2, <2>9, OvertakenFacts
    <3>3. CountersKept(k) /\ (Agrees(k)' <=> Agrees(k)) /\ unconfirmed' = unconfirmed
      BY <1>5, <2>9 DEF CountersKept, Agrees
    <3>4. ~Settles(k, r) => (Accounted(k) => Accounted(k)') \/ late'[k] # late[k]
      BY <2>3, <3>3 DEF Accounted, Answered, Direct
    <3>5. Claimed(k)' => Accounted(k)'
      <4>1. CASE x.row.at = db[k].at
        <5>1. x.row = db[k] /\ Present(db[k])
          BY <1>1, <1>2, <2>2, <2>9, <4>1 DEF Sound, RowsFit
        <5>2. CASE ~Usable(db[k])
          BY <1>5, <5>1, <5>2 DEF Accounted, Answered, Direct, Agrees
        <5>3. CASE Usable(db[k])
          <6>1. ~Settles(k, r)
            BY <1>2, <2>9, <4>1, <5>1, <5>3 DEF Settles, Counted
          <6> QED BY <1>12, <1>14, <3>1, <3>2, <3>4, <4>1, <5>1, <6>1 DEF KeyInv
        <5> QED BY <5>2, <5>3
      <4>2. CASE late'[k] # "no"
        BY <4>2 DEF Accounted, Answered, Direct
      <4>3. CASE x.row.at # db[k].at /\ late[k] = "no" /\ ~Straddles(r)
        <5>1. Accounted(k) /\ ~Settles(k, r)
          BY <2>4, <2>9, <4>3
        <5> QED BY <3>2, <3>4, <4>3, <5>1
      <4> QED BY <3>2, <4>1, <4>2, <4>3
    <3> QED BY <1>5, <1>9, <1>12, <1>14, <2>1, <3>1, <3>5, KeyKept
  <2> QED BY <1>4, <2>6, <2>7, <2>8, <2>9
<1> QED BY <1>13, <1>14

-----------------------------------------------------------------------------
(* The worker's turns.                                                     *)

(* A key the snapshot decides: the snapshot is the row the key holds, or   *)
(* what accounts for the key was there before its turn and outlasts it, or *)
(* the key is left unconfirmed or named as overtaken.                      *)
LEMMA TurnKeys ==
  ASSUME FactInv, Upkeep, KeysInv, NEW k \in Keys, ApplySnapshotRow(k) \/ ApplyAbsentKey(k)
  PROVE  Upkeep' /\ KeysInv'
<1>1. /\ TypeOK /\ OrderInv /\ RowsBehind /\ RowsSound /\ ArmingsNamed /\ SnapshotCurrent
      /\ EntriesSound
  BY DEF FactInv, OrderInv, OwnedInv, TypeInv
<1>2. PICK row \in Row : row = worker.snap[k]
  BY <1>1, MoreNumbers
<1>3. /\ k \in worker.todo /\ worker.arm.reconcile = reconcileGen
      /\ worker'.todo = worker.todo \ {k} /\ worker'.snap = worker.snap
      /\ worker'.arm = worker.arm /\ worker'.pc = worker.pc
  BY <1>1, TurnFacts
<1>4. \/ /\ UNCHANGED <<entries, fences, basis, late>>
         /\ unconfirmed' = unconfirmed
            \/ /\ ~Present(row) /\ ~Touched(k) /\ ~Unusable(k) /\ Agreed(k)
               /\ unconfirmed' = unconfirmed \ {k}
         /\ \/ Touched(k)
            \/ Present(row) /\ ~Usable(row) /\ entries[k] # Nothing
            \/ ~Present(row) /\ Agreed(k)
            \/ ~Present(row) /\ Unusable(k) /\ unconfirmed' = unconfirmed
      \/ /\ ~Touched(k) /\ Usable(row)
         /\ Publish(k, row.rev, row.val, FALSE, row.at, Reopened(k))
         /\ Decided(k, FALSE)
      \/ /\ ~Touched(k) /\ ~Usable(row)
         /\ Publish(k, 0, Default, FALSE, row.at, {})
         /\ Decided(k, TRUE)
  BY <1>1, <1>2, TurnFacts
<1>5. UNCHANGED <<db, commits, gone, wire, link, async,
                  stale, disconnectGen, reconcileGen, resyncPending, resyncSignal,
                  again, timers, windows, readers, writers, acked, removedAt>>
  BY <1>1, TurnFacts
<1>6. Upkeep'
  BY <1>5 DEF Upkeep, WireCurrent, Tells, AgainOwed, GensPast
<1>7. \A j \in Keys : /\ Eventful(j) => Eventful(j)'
                      /\ InFlight(j) => InFlight(j)'
                      /\ removedAt'[j] = removedAt[j]
                      /\ WindowsAs(j)
  BY <1>5 DEF Eventful, Tells, InFlight, WindowsAs
<1>8. Steady
  BY <1>3, <1>5 DEF Steady
<1>9. row.rev \in Nat /\ row.at \in Nat
  BY <1>1, MoreNumbers
<1>10. \A j \in Keys : j # k => /\ entries'[j] = entries[j] /\ fences'[j] = fences[j]
                                /\ j \in unconfirmed' <=> j \in unconfirmed
                                /\ late'[j] = late[j]
  <2>1. CASE UNCHANGED <<entries, fences, basis, late>>
             /\ (unconfirmed' = unconfirmed \/ unconfirmed' = unconfirmed \ {k})
    BY <2>1
  <2>2. ASSUME NEW rev \in Nat, NEW val, NEW marked, marked = {} \/ marked = {k},
               Publish(k, rev, val, FALSE, row.at, marked),
               Decided(k, TRUE) \/ Decided(k, FALSE)
        PROVE  \A j \in Keys : j # k => /\ entries'[j] = entries[j] /\ fences'[j] = fences[j]
                                        /\ j \in unconfirmed' <=> j \in unconfirmed
                                        /\ late'[j] = late[j]
    <3>1. /\ \A j \in Keys : j # k => entries'[j] = entries[j] /\ fences'[j] = fences[j]
          /\ unconfirmed' = (unconfirmed \ {k}) \cup marked
      BY <1>1, <2>2, PublishFacts
    <3>2. \A j \in Keys : j # k => late'[j] = late[j]
      BY <1>1, <2>2, DecidedFacts
    <3> QED BY <2>2, <3>1, <3>2
  <2>3. Reopened(k) = {} \/ Reopened(k) = {k}
    BY DEF Reopened
  <2>4. CASE Publish(k, row.rev, row.val, FALSE, row.at, Reopened(k)) /\ Decided(k, FALSE)
    BY <1>9, <2>2, <2>3, <2>4
  <2>5. CASE Publish(k, 0, Default, FALSE, row.at, {}) /\ Decided(k, TRUE)
    BY <2>2, <2>5
  <2> QED BY <1>4, <2>1, <2>4, <2>5
<1> SUFFICES ASSUME link = "up", NEW j \in Keys PROVE KeyInv(j)'
  BY <1>5, <1>6 DEF KeysInv
<1>11. KeyInv(j)
  BY DEF KeysInv
<1>12. CASE j # k
  <2>1. Still(j)
    BY <1>3, <1>5, <1>7, <1>10, <1>12 DEF Still
  <2> QED BY <1>1, <1>8, <1>11, <2>1, StillKept
<1>13. CASE j = k
  <2>1. Applying /\ Opened
    BY <1>1, <1>3, ApplyingOpen DEF Applying, ArmingsNamed
  <2>2. Touched(k) => Claimed(k)
    BY <1>3, <2>1 DEF Touched, Claimed
  <2>3. Unusable(k) /\ ~Present(db[k]) => Claimed(k)
    BY <1>3, <2>1 DEF Unusable, Claimed
  <2>4. row.at # db[k].at => Claimed(k) /\ (~Touched(k) => Pressed(k))
    BY <1>2, <1>3, <2>1 DEF Claimed, Pressed
  <2>5. /\ row.at <= db[k].at /\ db[k].at \in Nat /\ db[k] \in Row
        /\ Sound(row, db[k], gone[k]) /\ Sound(db[k], db[k], gone[k])
    BY <1>1, <1>2, Numbers, MoreNumbers DEF RowsBehind, RowsSound
  <2>6. ASSUME UNCHANGED <<entries, fences, basis, late, unconfirmed>>,
               \/ Touched(k)
               \/ Present(row) /\ ~Usable(row)
               \/ ~Present(row) /\ Agreed(k)
               \/ ~Present(row) /\ Unusable(k)
        PROVE  Accounted(k)'
    <3>1. Accounted(k)' <=> Accounted(k)
      BY <1>5, <2>6 DEF Accounted, Marked, Answered, Direct, Agrees, Queued, Eventful, Tells,
                        InFlight, Suits, Reading, Settles, Counted, Straddles
    <3>2. row.at = db[k].at => row = db[k]
      BY <2>5 DEF Sound
    <3>3. Claimed(k) \/ Agrees(k)
      BY <2>2, <2>3, <2>4, <2>6, <3>2 DEF Agrees, Agreed
    <3> QED BY <1>11, <1>13, <3>1, <3>3 DEF KeyInv, Accounted, Answered, Direct
  <2>7. ASSUME UNCHANGED <<entries, fences, basis, late>>,
               ~Present(row), ~Touched(k), ~Unusable(k), Agreed(k)
        PROVE  Accounted(k)'
    <3>1. Answered(k)' <=> Answered(k)
      BY <1>5, <2>7 DEF Answered, Direct, Agrees, Queued, Eventful, Tells,
                        InFlight, Suits, Reading, Settles, Counted, Straddles
    <3>2. row.at = db[k].at => Agrees(k)
      BY <2>5, <2>7 DEF Sound, Agrees, Agreed
    <3>3. row.at # db[k].at => Answered(k)
      BY <1>11, <1>13, <2>4, <2>7 DEF KeyInv
    <3>4. Answered(k)
      BY <3>2, <3>3 DEF Answered, Direct
    <3> QED BY <3>1, <3>4 DEF Accounted
  <2>8. ASSUME NEW rev \in Nat, NEW val, NEW marked,
               Publish(k, rev, val, FALSE, row.at, marked),
               ~Touched(k), ~Unusable(k), row.at # db[k].at, late'[k] = late[k]
        PROVE  Accounted(k)'
    <3>1. Answered(k) /\ (Eventful(k) \/ Present(db[k]))
      BY <1>11, <1>13, <2>4, <2>8 DEF KeyInv
    <3>2. CASE Eventful(k)
      BY <1>7, <3>2 DEF Accounted, Answered, Queued
    <3>3. CASE Present(db[k])
      <4>1. fences[k].deletes \in Nat
        BY <1>1, Numbers
      <4>2. Took(k, rev, val, FALSE, row.at) \/ Kept(k, rev, val)
        BY <1>1, <2>8, PublishFacts
      <4>3. fences'[k].deletes = fences[k].deletes
        BY <4>1, <4>2 DEF Took, Kept
      <4>4. CountersKept(k)
        BY <3>3, <4>3 DEF CountersKept
      <4>5. ~(Usable(db[k]) /\ Agrees(k))
        <5> SUFFICES ASSUME Usable(db[k]), Agrees(k) PROVE FALSE
          OBVIOUS
        <5>1. /\ entries[k] = [rev |-> db[k].rev, val |-> db[k].val] /\ db[k].rev \in Nat
              /\ db[k].rev = db[k].at /\ db[k].rev # 0 /\ db[k].val \in Values
          BY <2>5, <3>3 DEF Agrees, Sound, Named, Row, Usable
        <5>2. entries[k] # Nothing /\ entries[k].rev = db[k].at
          BY <5>1, EntryAssumption DEF Entry
        <5>3. basis[k] = db[k].at
          BY <1>1, <5>1, <5>2 DEF EntriesSound, EntrySound
        <5>4. basis[k] <= row.at
          BY <1>1, <1>2, <1>3, <2>8 DEF SnapshotCurrent
        <5> QED BY <1>9, <2>5, <2>8, <5>3, <5>4
      <4>6. Direct(k) => Direct(k)'
        BY <1>5, <2>8, <3>3, <4>5 DEF Direct, Agrees
      <4>7. Queued(k) => Queued(k)'
        <5>1. \A op \in timers[k] : Suits(k, op) => Queued(k)'
          BY <1>5 DEF Queued, Suits
        <5>2. Suits(k, again[k]) => Queued(k)'
          BY <1>5 DEF Queued, Suits
        <5> QED BY <1>5, <1>7, <4>4, <5>1, <5>2, QueuedKept
      <4> QED BY <3>1, <4>6, <4>7 DEF Accounted, Answered
    <3> QED BY <3>1, <3>2, <3>3
  <2>9. ASSUME ~Touched(k), Usable(row), Decided(k, FALSE),
               Publish(k, row.rev, row.val, FALSE, row.at, Reopened(k))
        PROVE  Accounted(k)'
    <3>1. CASE row.at = db[k].at
      <4>1. row = db[k] /\ Named(row) /\ Present(row)
        BY <2>5, <2>9, <3>1, NothingAssumption DEF Sound, Present, Usable
      <4>2. Took(k, row.rev, row.val, FALSE, row.at) \/ Kept(k, row.rev, row.val)
        BY <1>1, <1>9, <2>9, PublishFacts
      <4>3. Agrees(k)'
        BY <1>5, <4>1, <4>2, PublishAgrees
      <4> QED BY <4>3 DEF Accounted, Answered, Direct
    <3>2. CASE Unusable(k)
      <4>1. k \in unconfirmed'
        BY <2>9, <3>2 DEF Publish, Reopened
      <4> QED BY <4>1 DEF Accounted, Marked
    <3>3. CASE row.at # db[k].at /\ ~Unusable(k)
      <4>1. late'[k] = late[k]
        BY <1>1, <1>2, <2>9, <3>3, DecidedFacts
      <4> QED BY <1>9, <2>8, <2>9, <3>3, <4>1
    <3> QED BY <3>1, <3>2, <3>3
  <2>10. ASSUME ~Touched(k), ~Usable(row), Decided(k, TRUE),
                Publish(k, 0, Default, FALSE, row.at, {})
         PROVE  Accounted(k)'
    <3>1. CASE row.at = db[k].at
      <4>1. row = db[k]
        BY <2>5, <3>1 DEF Sound
      <4>2. Took(k, 0, Default, FALSE, row.at)
        BY <1>1, <2>10, PublishFacts DEF Kept
      <4>3. Agrees(k)'
        BY <1>5, <2>10, <4>1, <4>2 DEF Agrees, Took
      <4> QED BY <4>3 DEF Accounted, Answered, Direct
    <3>2. CASE row.at # db[k].at /\ Unusable(k)
      <4>1. late'[k] = "repair"
        BY <1>1, <1>2, <2>10, <3>2, DecidedFacts
      <4> QED BY <4>1 DEF Accounted, Answered, Direct
    <3>3. CASE row.at # db[k].at /\ ~Unusable(k)
      <4>1. late'[k] = late[k]
        BY <1>1, <1>2, <2>10, <3>3, DecidedFacts
      <4> QED BY <2>8, <2>10, <3>3, <4>1
    <3> QED BY <3>1, <3>2, <3>3
  <2>11. Accounted(k)'
    BY <1>4, <2>6, <2>7, <2>9, <2>10
  <2>12. Raced(k)' => Raced(k)
    BY <1>5, RacedKept
  <2>13. ~Pressed(k)'
    BY <1>3 DEF Pressed
  <2> QED BY <1>5, <1>7, <1>11, <1>13, <2>11, <2>12, <2>13, KeyKept
<1> QED BY <1>12, <1>13

-----------------------------------------------------------------------------
(* The step and the theorem.                                               *)

(* Nothing is under way at the start, and nothing is claimed until the     *)
(* first resync.                                                           *)
LEMMA ConvInit == Init => ConvInv
<1> SUFFICES ASSUME Init PROVE ConvInv
  OBVIOUS
<1>1. FactInv
  BY FactInit
<1>2. WireCurrent /\ KeysInv
  BY DEF Init, WireCurrent, KeysInv
<1>3. AgainOwed
  BY DEF Init, AgainOwed
<1>4. GensPast
  <2>1. \A r \in Readers : readers[r].gen = 0
    BY DEF Init, IdleReader
  <2>2. reconcileGen = 0
    BY DEF Init
  <2> QED BY <2>1, <2>2 DEF GensPast
<1> QED BY <1>1, <1>2, <1>3, <1>4 DEF ConvInv, Upkeep

(* One step of the scope keeps every key accounted for, action by action.  *)
LEMMA ConvStep == ConvInv /\ [Next]_vars => ConvInv'
<1> SUFFICES ASSUME ConvInv, [Next]_vars PROVE ConvInv'
  OBVIOUS
<1>1. FactInv /\ Upkeep /\ KeysInv
  BY DEF ConvInv
<1>2. FactInv'
  BY <1>1, FactStep
<1> SUFFICES Upkeep' /\ KeysInv'
  BY <1>2 DEF ConvInv
<1>3. CASE UNCHANGED vars \/ AtRest
  <2>1. UNCHANGED <<db, wire, link, entries, fences, unconfirmed, stale, reconcileGen, again,
                    timers, windows, worker, readers, writers, removedAt, late>>
    BY <1>3 DEF vars, AtRest
  <2>2. Upkeep'
    BY <1>1, <2>1 DEF Upkeep, WireCurrent, Tells, AgainOwed, GensPast
  <2>3. ASSUME link = "up", NEW k \in Keys PROVE KeyInv(k)'
    <3>1. OrderInv /\ KeyInv(k)
      BY <1>1, <2>3 DEF FactInv, KeysInv
    <3>2. (Eventful(k) => Eventful(k)') /\ (InFlight(k) => InFlight(k)') /\ WindowsAs(k)
      BY <2>1 DEF Eventful, Tells, InFlight, WindowsAs
    <3>3. Still(k) /\ Steady
      BY <2>1, <3>2 DEF Still, Steady
    <3> QED BY <3>1, <3>3, StillKept
  <2> QED BY <2>1, <2>2, <2>3 DEF KeysInv
<1>4. CASE RemoteWrite \/ \E w \in Writers : ClientSet(w) \/ ClientDelete(w)
  BY <1>1, <1>4, CommitKeys
<1>5. ASSUME NEW w \in Writers, PublishBegin(w) \/ PublishEnd(w) \/ PublishDelete(w)
      PROVE  Upkeep' /\ KeysInv'
  BY <1>1, <1>5, WriterKeys
<1>6. CASE LoseConnection \/ OnDisconnect \/ Reconnect \/ OnResync
  BY <1>1, <1>6, LinkKeys
<1>7. CASE OnEvent
  BY <1>1, <1>7, EventKeys
<1>8. ASSUME NEW k \in Keys, NEW op \in {"upsert", "delete"}, TrackedRefresh(k, op)
      PROVE  Upkeep' /\ KeysInv'
  BY <1>1, <1>8, TimerKeys
<1>9. ASSUME NEW r \in Readers, ArmRead(r) \/ GetRow(r) \/ GetFails(r) \/ IngestBegin(r)
      PROVE  Upkeep' /\ KeysInv'
  BY <1>1, <1>9, ReadingKeys
<1>10. ASSUME NEW r \in Readers, NoRowForUpsert(r) \/ RetryRefresh(r)
       PROVE  Upkeep' /\ KeysInv'
  BY <1>1, <1>10, QuietEndKeys
<1>11. ASSUME NEW r \in Readers, PublishAbsentDelete(r) \/ IngestEnd(r)
       PROVE  Upkeep' /\ KeysInv'
  BY <1>1, <1>11, AnswerKeys
<1>12. CASE WorkerWakes \/ TakeReconcile \/ List \/ ListFails \/ Abandon \/ FinishReconcile
  BY <1>1, <1>12, WorkerKeys
<1>13. ASSUME NEW k \in Keys, ApplySnapshotRow(k) \/ ApplyAbsentKey(k)
       PROVE  Upkeep' /\ KeysInv'
  BY <1>1, <1>13, TurnKeys
<1> QED BY <1>3, <1>4, <1>5, <1>6, <1>7, <1>8, <1>9, <1>10, <1>11, <1>12, <1>13 DEF Next

(* With nothing in flight, only the cache, the list of unconfirmed keys    *)
(* and the name of an overtaken decision are left to account for a key.    *)
LEMMA IdleAgrees ==
  ASSUME FactInv, Upkeep, KeysInv, Idle, NEW k \in Keys, Fresh(k)
  PROVE  late[k] # "no" \/ Agrees(k)
<1>1. Accounted(k)
  BY DEF Idle, Fresh, KeysInv, KeyInv, Claimed
<1>2. \A r \in Readers : ~Settles(k, r)
  BY DEF Idle, Settles
<1>3. ~Marked(k)
  BY <1>2 DEF Marked, Fresh
<1>4. ~Eventful(k)
  BY DEF Eventful, Idle
<1>5. ~InFlight(k) /\ ~Reading(k)
  BY <1>2, RefreshReader DEF InFlight, Reading, Idle
<1>6. again[k] = "no"
  BY RefreshReader DEF Idle, Upkeep, AgainOwed
<1>7. ~Queued(k)
  BY <1>4, <1>5, <1>6 DEF Queued, Suits, Idle
<1> QED BY <1>1, <1>3, <1>7 DEF Accounted, Answered, Direct

(* Every key that should be is accounted for throughout. *)
THEOREM KeysAccounted == Spec => []ConvInv
BY ConvInit, ConvStep, PTL DEF Spec

(* Once nothing is in flight, a key the engine reports fresh holds what    *)
(* the store holds, for any number of keys, writers, losses and failing    *)
(* reads: the feed's re-reads, their repairs and the reconcile miss no     *)
(* change between them, but for the overtaken decisions late names.        *)
THEOREM FreshKeysConverge == Spec => []Converged
<1>1. ConvInv => Converged
  <2> SUFFICES ASSUME ConvInv, Idle, NEW k \in Keys, Fresh(k),
                      late[k] \notin {"write", "reread", "repair"}
               PROVE  Agrees(k)
    BY DEF Converged, ConvergedExcept
  <2>1. FactInv /\ Upkeep /\ KeysInv
    BY DEF ConvInv
  <2>2. late[k] = "no"
    BY <2>1 DEF FactInv, OrderInv, OwnedInv, TypeInv, TypeOK
  <2> QED BY <2>1, <2>2, IdleAgrees
<1> QED BY <1>1, KeysAccounted, PTL
=============================================================================
