---------------------------- MODULE Client_proofs ----------------------------
(***************************************************************************)
(* What holds of the Client for any keys, writers and bounds.              *)
(***************************************************************************)
EXTENDS Client, TLAPS

Reconciling == reconcile.pc # "idle"
Listed == reconcile.pc \in {"listed", "rows"}

(* A tenant-managed Client's Start is over with the store's; the engine is *)
(* brought up between StoreStarts and StartReturns, in a scope of its own. *)
Starting ==
  /\ multiTenant => starter.pc \in {"idle", "store"}
  /\ starter.pc = "store" => ~started
  /\ starter.pc \in {"scope", "subscribe", "wait"} => started
  /\ starter.pc \in {"subscribe", "wait"} => scope.tracked
  /\ ~multiTenant => /\ scope.id <= starts
                     /\ starter.pc \in {"store", "scope"} => scope.id < starts

(* An outcome a Start may still report is its own. *)
Verdict ==
  /\ earlier <= faults
  /\ starter.pc \in {"subscribe", "wait"} /\ scope.first = "failed" => faults > earlier

(* The registry does not grow under a scope that may come up. *)
Frozen ==
  ~multiTenant /\ scope.tracked /\ scope.first # "failed" => started \/ registryFrozen
Up ==
  ~multiTenant /\ started /\ starter.pc = "idle" => scope.tracked /\ scope.first = "ok"

(* What is cached, written or acknowledged is registered; a touched key    *)
(* was published.                                                          *)
Registered ==
  /\ \A k \in Keys \ registry : scope.cache[k] = Unpublished /\ acked[k] = 0
  /\ \A w \in Writers : writers[w].pc # "idle" => writers[w].key \in registry
Touched ==
  /\ Reconciling => scope.tracked
  /\ \A k \in reconcile.touched : scope.cache[k] # Unpublished

(* A single-tenant scope that came up, or is one step from it, holds every *)
(* registered key, but those the last step fills in.                       *)
Filled ==
  ~multiTenant /\ scope.tracked =>
    /\ scope.first = "ok" => \A k \in registry : scope.cache[k] # Unpublished
    /\ scope.first # "failed" /\ reconcile.pc = "rows" =>
         \A k \in registry : reconcile.snap[k] > 0 => scope.cache[k] # Unpublished

Boot == TypeOK /\ Starting /\ Verdict /\ Frozen /\ Up /\ Registered /\ Touched /\ Filled

(* Revisions come from the store. *)
Revised ==
  /\ \A k \in Keys : /\ rows[k] <= commits /\ acked[k] <= rows[k]
                     /\ reconcile.snap[k] <= rows[k]
  /\ \A w \in Writers : writers[w].pc \in {"written", "resolved"} =>
       writers[w].rev <= rows[writers[w].key] /\ writers[w].rev > 0

(* A scope that is being reconciled is stale, and so is one without a      *)
(* connection; a reconcile knows that its connection is lost.              *)
Staleness ==
  /\ scope.tracked /\ ~engineClosed /\ link # "up" => scope.stale
  /\ Reconciling => scope.stale /\ (link # "up" => reconcile.lost)

(* A Set that will be acknowledged without reaching the scope. *)
Elsewhere(w) == writers[w].pc = "resolved" /\ writers[w].id # scope.id

(* The photograph carries what was acknowledged before it; what was since  *)
(* is in the cache and in the window.                                      *)
Photograph ==
  Listed =>
    /\ \A k \in Keys : \/ acked[k] <= reconcile.snap[k]
                       \/ k \in reconcile.touched /\ acked[k] <= scope.cache[k]
    /\ \A w \in Writers : Elsewhere(w) => writers[w].rev <= reconcile.snap[writers[w].key]

(* Its rows are applied, or known to be passed over, but for keys that     *)
(* were registered since, and whose writes are newer.                      *)
Applied ==
  reconcile.pc = "rows" =>
    \A k \in Keys :
      IF scope.cache[k] # Unpublished
      THEN reconcile.snap[k] <= scope.cache[k] \/ reconcile.snap[k] <= skipped[k]
      ELSE reconcile.snap[k] > 0 =>
             /\ acked[k] = 0
             /\ \A w \in Writers :
                  writers[w].key = k /\ writers[w].pc \in {"written", "resolved"} =>
                    writers[w].rev > reconcile.snap[k]

(* A scope that is not stale serves what was and what will be              *)
(* acknowledged, or passed it over.                                        *)
Covered(k, n) ==
  \/ n = 0
  \/ scope.cache[k] # Unpublished /\ (n <= scope.cache[k] \/ n <= skipped[k])
Confirmed ==
  scope.tracked /\ ~scope.stale =>
    /\ \A k \in Keys : Covered(k, acked[k])
    /\ \A w \in Writers : Elsewhere(w) => Covered(writers[w].key, writers[w].rev)

Reads == Revised /\ Staleness /\ Photograph /\ Applied /\ Confirmed

-----------------------------------------------------------------------------
(* Types, and how far a Start has come.                                    *)

Flags ==
  /\ multiTenant \in BOOLEAN /\ registry \subseteq Keys
  /\ started \in BOOLEAN /\ registryFrozen \in BOOLEAN
  /\ closed \in BOOLEAN /\ engineClosed \in BOOLEAN
  /\ starter \in Starter
  /\ closer \in {"idle", "asked", "closing", "engine", "done"}
  /\ link \in {"none", "joined", "up", "down"}

Stored ==
  /\ rows \in [Keys -> Revisions] /\ acked \in [Keys -> Revisions]
  /\ skipped \in [Keys -> Revisions] /\ earlier \in 0 .. MaxFaults /\ commits \in Revisions
  /\ starts \in 0 .. MaxStarts /\ losses \in 0 .. MaxLosses /\ faults \in 0 .. MaxFaults

Held == scope \in Scope /\ reconcile \in Reconcile /\ writers \in [Writers -> Writer]

(* TypeOK in three parts. *)
LEMMA Parts == TypeOK <=> Flags /\ Stored /\ Held
<1>1. {started, registryFrozen, closed, engineClosed} \subseteq BOOLEAN
       <=> started \in BOOLEAN /\ registryFrozen \in BOOLEAN
           /\ closed \in BOOLEAN /\ engineClosed \in BOOLEAN
  OBVIOUS
<1> QED
  BY <1>1, Zenon DEF TypeOK, Flags, Stored, Held

(* The bounds are numbers. *)
LEMMA Numbers ==
  /\ MaxCommits \in Nat /\ MaxStarts \in Nat /\ MaxLosses \in Nat /\ MaxFaults \in Nat
  /\ Unpublished \notin Nat
  /\ Revisions \subseteq Nat
BY BoundsAssumption DEF Unpublished, Revisions

(* The records the actions install are well typed. *)
LEMMA Records ==
  /\ IdleStarter \in Starter
  /\ NoReconcile \in Reconcile
  /\ NoWrite \in Writer
  /\ \A i \in 0 .. MaxStarts + MaxLosses + MaxFaults + 1 : NewScope(i) \in Scope
<1>1. IdleStarter \in Starter
  BY DEF IdleStarter, Starter
<1>2. 0 \in Revisions /\ [k \in Keys |-> 0] \in [Keys -> Revisions]
  BY Numbers DEF Revisions
<1>3. NoReconcile \in Reconcile
  BY <1>2 DEF NoReconcile, Reconcile
<1>4. NoWrite \in Writer
  BY <1>2, KeysAssumption, Numbers DEF NoWrite, Writer
<1>5. ASSUME NEW i \in 0 .. MaxStarts + MaxLosses + MaxFaults + 1
      PROVE NewScope(i) \in Scope
  BY DEF NewScope, Scope
<1> QED
  BY <1>1, <1>3, <1>4, <1>5

(* The writers after one of them moved. *)
Turned(w, x) == \A v \in Writers : writers'[v] = IF v = w THEN x ELSE writers[v]

(* Move replaces one call and leaves the others. *)
LEMMA Moved ==
  ASSUME NEW w \in Writers, NEW x \in Writer, Held, Move(w, x)
  PROVE  Turned(w, x)
<1> SUFFICES ASSUME NEW v \in Writers PROVE writers'[v] = IF v = w THEN x ELSE writers[v]
  BY DEF Turned
<1>1. writers \in [Writers -> Writer] /\ writers' = [writers EXCEPT ![w] = x]
  BY DEF Move, Held
<1> QED
  BY <1>1

(* A Set that ends leaves its place idle. *)
LEMMA Idled ==
  ASSUME NEW w \in Writers, Held, Move(w, NoWrite)
  PROVE  \E x \in Writer : Turned(w, x) /\ x.pc = "idle"
BY Moved, Records DEF NoWrite

(* What the steps of a Set make of the call. *)
LEMMA AfterSetWrites ==
  ASSUME NEW w \in Writers, Held, Stored, SetWrites(w)
  PROVE  \E x \in Writer :
           /\ Turned(w, x)
           /\ \/ x.pc = "idle" /\ UNCHANGED stored
              \/ /\ x.pc = "written" /\ x.key = writers[w].key /\ x.rev = commits + 1
                 /\ Commit(x.key)
<1>1. CASE Move(w, NoWrite) /\ UNCHANGED stored
  BY <1>1, Idled
<1>2. CASE Commit(writers[w].key)
           /\ Move(w, [writers[w] EXCEPT !.pc = "written", !.rev = commits + 1])
  <2> DEFINE x == [writers[w] EXCEPT !.pc = "written", !.rev = commits + 1]
  <2>1. commits + 1 \in Revisions
    BY <1>2, Numbers DEF Commit, Revisions, Stored
  <2>2. writers[w] \in Writer
    BY DEF Held
  <2>3. /\ x \in Writer /\ x.pc = "written" /\ x.key = writers[w].key /\ x.rev = commits + 1
    BY <2>1, <2>2 DEF Writer
  <2> HIDE DEF x
  <2>4. Move(w, x)
    BY <1>2 DEF x
  <2>5. Turned(w, x)
    BY <2>3, <2>4, Moved
  <2> QED
    BY <1>2, <2>3, <2>5
<1> QED
  BY <1>1, <1>2 DEF SetWrites

(* SetResolves: the Set is over, or bound to the scope it found. *)
LEMMA AfterSetResolves ==
  ASSUME NEW w \in Writers, Held, SetResolves(w)
  PROVE  \E x \in Writer :
           /\ Turned(w, x)
           /\ \/ x.pc = "idle"
              \/ /\ x.pc = "resolved" /\ x.key = writers[w].key /\ x.rev = writers[w].rev
                 /\ x.id = scope.id /\ acked' = acked
<1>1. CASE Move(w, NoWrite)
  BY <1>1, Idled
<1>2. CASE Move(w, [writers[w] EXCEPT !.pc = "resolved", !.id = scope.id]) /\ acked' = acked
  <2> DEFINE x == [writers[w] EXCEPT !.pc = "resolved", !.id = scope.id]
  <2>1. writers[w] \in Writer /\ scope.id \in 0 .. MaxStarts + MaxLosses + MaxFaults + 1
    BY DEF Held, Scope
  <2>2. /\ x \in Writer /\ x.pc = "resolved" /\ x.key = writers[w].key
        /\ x.rev = writers[w].rev /\ x.id = scope.id
    BY <2>1 DEF Writer
  <2> HIDE DEF x
  <2>3. Move(w, x)
    BY <1>2 DEF x
  <2>4. Turned(w, x)
    BY <2>2, <2>3, Moved
  <2> QED
    BY <1>2, <2>2, <2>4
<1> QED
  BY <1>1, <1>2 DEF SetResolves

(* Every step keeps the types of the flags. *)
LEMMA FlagsStep == ASSUME Flags, Next PROVE Flags'
<1> USE Records DEF Flags, lifecycle, bounds, stored, history
<1>1. ASSUME NEW k \in Keys, Register(k) PROVE Flags'
  BY <1>1 DEF Register, Starter
<1>2. ASSUME NEW k \in Keys, Refresh(k) PROVE Flags'
  BY <1>2 DEF Refresh, Record, Starter
<1>3. ASSUME NEW k \in Keys, RemoteWrite(k) PROVE Flags'
  BY <1>3 DEF RemoteWrite, Commit, Starter
<1>4. ASSUME Activate PROVE Flags'
  BY <1>4 DEF Activate, TrackNewScope, Starter
<1>5. ASSUME DropTenant PROVE Flags'
  BY <1>5 DEF DropTenant, DropScope, Starter
<1>6. ASSUME StartBegins PROVE Flags'
  BY <1>6 DEF StartBegins, Starter
<1>7. ASSUME ContextEnds PROVE Flags'
  BY <1>7 DEF ContextEnds, Starter
<1>8. ASSUME StoreStarts PROVE Flags'
  BY <1>8 DEF StoreStarts, Starter
<1>9. ASSUME StartBringsUp PROVE Flags'
  BY <1>9 DEF StartBringsUp, TrackNewScope, FailedScope, Starter
<1>10. ASSUME StartReturns PROVE Flags'
  BY <1>10 DEF StartReturns, RollBack, Starter
<1>11. ASSUME Subscribe PROVE Flags'
  BY <1>11 DEF Subscribe, Starter
<1>12. ASSUME SubscribeFails PROVE Flags'
  BY <1>12 DEF SubscribeFails, DropScope, RollBack, Starter
<1>13. ASSUME Resync PROVE Flags'
  BY <1>13 DEF Resync, Starter
<1>14. ASSUME Disconnect PROVE Flags'
  BY <1>14 DEF Disconnect, Starter
<1>15. ASSUME ListFails PROVE Flags'
  BY <1>15 DEF ListFails, Finish, Starter
<1>16. ASSUME List PROVE Flags'
  BY <1>16 DEF List, Starter
<1>17. ASSUME ApplySnapshotRows PROVE Flags'
  BY <1>17 DEF ApplySnapshotRows, Larger, Starter
<1>18. ASSUME ApplyAbsentKeys PROVE Flags'
  BY <1>18 DEF ApplyAbsentKeys, Finish, Starter
<1>19. ASSUME NEW w \in Writers, NEW k \in Keys, SetBegins(w, k) PROVE Flags'
  BY <1>19 DEF SetBegins, Move, Starter
<1>20. ASSUME NEW w \in Writers, SetWrites(w) PROVE Flags'
  BY <1>20 DEF SetWrites, Move, Commit, Starter
<1>21. ASSUME NEW w \in Writers, SetResolves(w) PROVE Flags'
  BY <1>21 DEF SetResolves, Move, Ack, Larger, Starter
<1>22. ASSUME NEW w \in Writers, SetPublishes(w) PROVE Flags'
  BY <1>22 DEF SetPublishes, Move, Ack, Larger, Record, Starter
<1>23. ASSUME CloseAsks PROVE Flags'
  BY <1>23 DEF CloseAsks, Starter
<1>24. ASSUME CloseTakesLock PROVE Flags'
  BY <1>24 DEF CloseTakesLock, Starter
<1>25. ASSUME EngineCloses PROVE Flags'
  BY <1>25 DEF EngineCloses, Starter
<1>26. ASSUME StoreCloses PROVE Flags'
  BY <1>26 DEF StoreCloses, Starter
<1>27. ASSUME AtRest PROVE Flags'
  BY <1>27 DEF AtRest, Starter, vars
<1> QED
  BY <1>1, <1>2, <1>3, <1>4, <1>5, <1>6, <1>7, <1>8, <1>9, <1>10, <1>11, <1>12, <1>13,
     <1>14, <1>15, <1>16, <1>17, <1>18, <1>19, <1>20, <1>21, <1>22, <1>23, <1>24, <1>25,
     <1>26, <1>27
  DEF Next, StartSteps, WorkerSteps, CloseSteps

(* Every step keeps the types of the store, the history and the bounds. *)
LEMMA StoredStep == ASSUME Flags, Stored, Held, Next PROVE Stored'
<1> USE Numbers DEF Flags, Stored, Held, Revisions, lifecycle, bounds, stored, history
<1>1. ASSUME NEW k \in Keys, Register(k) PROVE Stored'
  BY <1>1 DEF Register, Writer, Reconcile
<1>2. ASSUME NEW k \in Keys, Refresh(k) PROVE Stored'
  BY <1>2 DEF Refresh, Record, Writer, Reconcile
<1>3. ASSUME NEW k \in Keys, RemoteWrite(k) PROVE Stored'
  BY <1>3 DEF RemoteWrite, Commit, Writer, Reconcile
<1>4. ASSUME Activate PROVE Stored'
  BY <1>4 DEF Activate, TrackNewScope, Writer, Reconcile
<1>5. ASSUME DropTenant PROVE Stored'
  BY <1>5 DEF DropTenant, DropScope, Writer, Reconcile
<1>6. ASSUME StartBegins PROVE Stored'
  BY <1>6 DEF StartBegins, Writer, Reconcile
<1>7. ASSUME ContextEnds PROVE Stored'
  BY <1>7 DEF ContextEnds, Writer, Reconcile
<1>8. ASSUME StoreStarts PROVE Stored'
  BY <1>8 DEF StoreStarts, Writer, Reconcile
<1>9. ASSUME StartBringsUp PROVE Stored'
  BY <1>9 DEF StartBringsUp, TrackNewScope, FailedScope, Writer, Reconcile
<1>10. ASSUME StartReturns PROVE Stored'
  BY <1>10 DEF StartReturns, RollBack, Writer, Reconcile
<1>11. ASSUME Subscribe PROVE Stored'
  BY <1>11 DEF Subscribe, Writer, Reconcile
<1>12. ASSUME SubscribeFails PROVE Stored'
  BY <1>12 DEF SubscribeFails, DropScope, RollBack, Writer, Reconcile
<1>13. ASSUME Resync PROVE Stored'
  BY <1>13 DEF Resync, Writer, Reconcile
<1>14. ASSUME Disconnect PROVE Stored'
  BY <1>14 DEF Disconnect, Writer, Reconcile
<1>15. ASSUME ListFails PROVE Stored'
  BY <1>15 DEF ListFails, Finish, Writer, Reconcile
<1>16. ASSUME List PROVE Stored'
  BY <1>16 DEF List, Writer, Reconcile
<1>17. ASSUME ApplySnapshotRows PROVE Stored'
  BY <1>17 DEF ApplySnapshotRows, Larger, Writer, Reconcile
<1>18. ASSUME ApplyAbsentKeys PROVE Stored'
  BY <1>18 DEF ApplyAbsentKeys, Finish, Writer, Reconcile
<1>19. ASSUME NEW w \in Writers, NEW k \in Keys, SetBegins(w, k) PROVE Stored'
  BY <1>19 DEF SetBegins, Move, Writer, Reconcile
<1>20. ASSUME NEW w \in Writers, SetWrites(w) PROVE Stored'
  BY <1>20 DEF SetWrites, Move, Commit, Writer, Reconcile
<1>21. ASSUME NEW w \in Writers, SetResolves(w) PROVE Stored'
  BY <1>21 DEF SetResolves, Move, Ack, Larger, Writer, Reconcile
<1>22. ASSUME NEW w \in Writers, SetPublishes(w) PROVE Stored'
  BY <1>22 DEF SetPublishes, Move, Ack, Larger, Record, Writer, Reconcile
<1>23. ASSUME CloseAsks PROVE Stored'
  BY <1>23 DEF CloseAsks, Writer, Reconcile
<1>24. ASSUME CloseTakesLock PROVE Stored'
  BY <1>24 DEF CloseTakesLock, Writer, Reconcile
<1>25. ASSUME EngineCloses PROVE Stored'
  BY <1>25 DEF EngineCloses, Writer, Reconcile
<1>26. ASSUME StoreCloses PROVE Stored'
  BY <1>26 DEF StoreCloses, Writer, Reconcile
<1>27. ASSUME AtRest PROVE Stored'
  BY <1>27 DEF AtRest, Writer, Reconcile, vars
<1> QED
  BY <1>1, <1>2, <1>3, <1>4, <1>5, <1>6, <1>7, <1>8, <1>9, <1>10, <1>11, <1>12, <1>13,
     <1>14, <1>15, <1>16, <1>17, <1>18, <1>19, <1>20, <1>21, <1>22, <1>23, <1>24, <1>25,
     <1>26, <1>27
  DEF Next, StartSteps, WorkerSteps, CloseSteps

(* Every step keeps the types of the scope, the reconcile and the calls. *)
LEMMA HeldStep == ASSUME Flags, Stored, Held, Starting, Next PROVE Held'
<1> USE Numbers, Records DEF Flags, Stored, Held, Revisions, lifecycle, bounds, stored,
        history
<1>1. ASSUME NEW k \in Keys, Register(k) PROVE Held'
  BY <1>1 DEF Register, Writer, Reconcile, Scope, Starting, Starter
<1>2. ASSUME NEW k \in Keys, Refresh(k) PROVE Held'
  BY <1>2 DEF Refresh, Record, Writer, Reconcile, Scope, Starting, Starter
<1>3. ASSUME NEW k \in Keys, RemoteWrite(k) PROVE Held'
  BY <1>3 DEF RemoteWrite, Commit, Writer, Reconcile, Scope, Starting, Starter
<1>4. ASSUME Activate PROVE Held'
  BY <1>4 DEF Activate, TrackNewScope, Writer, Reconcile, Scope, Starting, Starter
<1>5. ASSUME DropTenant PROVE Held'
  BY <1>5 DEF DropTenant, DropScope, Writer, Reconcile, Scope, Starting, Starter
<1>6. ASSUME StartBegins PROVE Held'
  BY <1>6 DEF StartBegins, Writer, Reconcile, Scope, Starting, Starter
<1>7. ASSUME ContextEnds PROVE Held'
  BY <1>7 DEF ContextEnds, Writer, Reconcile, Scope, Starting, Starter
<1>8. ASSUME StoreStarts PROVE Held'
  BY <1>8 DEF StoreStarts, Writer, Reconcile, Scope, Starting, Starter
<1>9. ASSUME StartBringsUp PROVE Held'
  <2>1. writers' = writers
    BY <1>9 DEF StartBringsUp
  <2>2. CASE TrackNewScope
    <3>1. scope.id \in Nat /\ scope.id < starts
      BY <1>9 DEF StartBringsUp, Starting, Scope
    <3>2. scope.id + 1 \in 0 .. MaxStarts + MaxLosses + MaxFaults + 1
      BY <3>1
    <3> QED
      BY <2>1, <2>2, <3>2 DEF TrackNewScope
  <2>3. CASE UNCHANGED <<scope, link, reconcile>>
    BY <2>1, <2>3
  <2> QED
    BY <1>9, <2>2, <2>3 DEF StartBringsUp
<1>10. ASSUME StartReturns PROVE Held'
  BY <1>10 DEF StartReturns, RollBack, Writer, Reconcile, Scope, Starting, Starter
<1>11. ASSUME Subscribe PROVE Held'
  BY <1>11 DEF Subscribe, Writer, Reconcile, Scope, Starting, Starter
<1>12. ASSUME SubscribeFails PROVE Held'
  BY <1>12
  DEF SubscribeFails, DropScope, RollBack, Writer, Reconcile, Scope, Starting, Starter
<1>13. ASSUME Resync PROVE Held'
  BY <1>13 DEF Resync, Writer, Reconcile, Scope, Starting, Starter
<1>14. ASSUME Disconnect PROVE Held'
  BY <1>14 DEF Disconnect, Writer, Reconcile, Scope, Starting, Starter
<1>15. ASSUME ListFails PROVE Held'
  BY <1>15 DEF ListFails, Finish, Writer, Reconcile, Scope, Starting, Starter
<1>16. ASSUME List PROVE Held'
  BY <1>16 DEF List, Writer, Reconcile, Scope, Starting, Starter
<1>17. ASSUME ApplySnapshotRows PROVE Held'
  BY <1>17 DEF ApplySnapshotRows, Larger, Writer, Reconcile, Scope, Starting, Starter
<1>18. ASSUME ApplyAbsentKeys PROVE Held'
  BY <1>18 DEF ApplyAbsentKeys, Finish, Writer, Reconcile, Scope, Starting, Starter
<1>19. ASSUME NEW w \in Writers, NEW k \in Keys, SetBegins(w, k) PROVE Held'
  BY <1>19 DEF SetBegins, Move, Writer, Reconcile, Scope, Starting, Starter
<1>20. ASSUME NEW w \in Writers, SetWrites(w) PROVE Held'
  <2>1. UNCHANGED <<scope, reconcile>>
    BY <1>20 DEF SetWrites
  <2>2. PICK write \in Writer : writers' = [writers EXCEPT ![w] = write]
    <3>1. CASE Move(w, NoWrite)
      BY <3>1 DEF Move
    <3>2. CASE Commit(writers[w].key)
               /\ Move(w, [writers[w] EXCEPT !.pc = "written", !.rev = commits + 1])
      <4> DEFINE write == [writers[w] EXCEPT !.pc = "written", !.rev = commits + 1]
      <4>1. commits + 1 \in Revisions
        BY <3>2 DEF Commit
      <4>2. write \in Writer
        BY <4>1 DEF Writer
      <4> QED
        BY <3>2, <4>2 DEF Move
    <3> QED
      BY <1>20, <3>1, <3>2 DEF SetWrites
  <2> QED
    BY <2>1, <2>2
<1>21. ASSUME NEW w \in Writers, SetResolves(w) PROVE Held'
  <2>1. UNCHANGED <<scope, reconcile>>
    BY <1>21 DEF SetResolves
  <2>2. PICK write \in Writer : writers' = [writers EXCEPT ![w] = write]
    <3>1. CASE Move(w, NoWrite)
      BY <3>1 DEF Move
    <3>2. CASE Move(w, [writers[w] EXCEPT !.pc = "resolved", !.id = scope.id])
      <4> DEFINE write == [writers[w] EXCEPT !.pc = "resolved", !.id = scope.id]
      <4>1. write \in Writer
        BY ZenonT(40) DEF Writer, Scope
      <4> QED
        BY <3>2, <4>1 DEF Move
    <3> QED
      BY <1>21, <3>1, <3>2 DEF SetResolves
  <2> QED
    BY <2>1, <2>2
<1>22. ASSUME NEW w \in Writers, SetPublishes(w) PROVE Held'
  BY <1>22, SMTT(20)
  DEF SetPublishes, Move, Ack, Larger, Record, Writer, Reconcile, Scope, Starting, Starter
<1>23. ASSUME CloseAsks PROVE Held'
  BY <1>23 DEF CloseAsks, Writer, Reconcile, Scope, Starting, Starter
<1>24. ASSUME CloseTakesLock PROVE Held'
  BY <1>24 DEF CloseTakesLock, Writer, Reconcile, Scope, Starting, Starter
<1>25. ASSUME EngineCloses PROVE Held'
  BY <1>25 DEF EngineCloses, Writer, Reconcile, Scope, Starting, Starter
<1>26. ASSUME StoreCloses PROVE Held'
  BY <1>26 DEF StoreCloses, Writer, Reconcile, Scope, Starting, Starter
<1>27. ASSUME AtRest PROVE Held'
  BY <1>27 DEF AtRest, Writer, Reconcile, Scope, Starting, Starter, vars
<1> QED
  BY <1>1, <1>2, <1>3, <1>4, <1>5, <1>6, <1>7, <1>8, <1>9, <1>10, <1>11, <1>12, <1>13,
     <1>14, <1>15, <1>16, <1>17, <1>18, <1>19, <1>20, <1>21, <1>22, <1>23, <1>24, <1>25,
     <1>26, <1>27
  DEF Next, StartSteps, WorkerSteps, CloseSteps

(* Every step keeps the stages of a Start in order. *)
LEMMA StartingStep == ASSUME Flags, Stored, Held, Starting, Next PROVE Starting'
<1> USE Numbers DEF Flags, Stored, Held, Starting, Scope, Starter, lifecycle, bounds,
        stored, history
<1>1. ASSUME NEW k \in Keys, Register(k) PROVE Starting'
  BY <1>1 DEF Register, IdleStarter, NewScope
<1>2. ASSUME NEW k \in Keys, Refresh(k) PROVE Starting'
  BY <1>2 DEF Refresh, Record, IdleStarter, NewScope
<1>3. ASSUME NEW k \in Keys, RemoteWrite(k) PROVE Starting'
  BY <1>3 DEF RemoteWrite, Commit, IdleStarter, NewScope
<1>4. ASSUME Activate PROVE Starting'
  BY <1>4 DEF Activate, TrackNewScope, IdleStarter, NewScope
<1>5. ASSUME DropTenant PROVE Starting'
  BY <1>5 DEF DropTenant, DropScope, IdleStarter, NewScope
<1>6. ASSUME StartBegins PROVE Starting'
  BY <1>6 DEF StartBegins, IdleStarter, NewScope
<1>7. ASSUME ContextEnds PROVE Starting'
  BY <1>7 DEF ContextEnds, IdleStarter, NewScope
<1>8. ASSUME StoreStarts PROVE Starting'
  BY <1>8 DEF StoreStarts, IdleStarter, NewScope
<1>9. ASSUME StartBringsUp PROVE Starting'
  BY <1>9 DEF StartBringsUp, TrackNewScope, FailedScope, IdleStarter, NewScope
<1>10. ASSUME StartReturns PROVE Starting'
  <2>1. starter' = IdleStarter
    BY <1>10 DEF StartReturns, RollBack
  <2>2. UNCHANGED <<multiTenant, scope, starts>>
    BY <1>10 DEF StartReturns
  <2> QED
    BY <2>1, <2>2 DEF IdleStarter
<1>11. ASSUME Subscribe PROVE Starting'
  BY <1>11 DEF Subscribe, IdleStarter, NewScope
<1>12. ASSUME SubscribeFails PROVE Starting'
  BY <1>12 DEF SubscribeFails, DropScope, RollBack, IdleStarter, NewScope
<1>13. ASSUME Resync PROVE Starting'
  BY <1>13 DEF Resync, IdleStarter, NewScope
<1>14. ASSUME Disconnect PROVE Starting'
  BY <1>14 DEF Disconnect, IdleStarter, NewScope
<1>15. ASSUME ListFails PROVE Starting'
  BY <1>15 DEF ListFails, Finish, IdleStarter, NewScope
<1>16. ASSUME List PROVE Starting'
  BY <1>16 DEF List, IdleStarter, NewScope
<1>17. ASSUME ApplySnapshotRows PROVE Starting'
  BY <1>17 DEF ApplySnapshotRows, Larger, IdleStarter, NewScope
<1>18. ASSUME ApplyAbsentKeys PROVE Starting'
  BY <1>18 DEF ApplyAbsentKeys, Finish, IdleStarter, NewScope
<1>19. ASSUME NEW w \in Writers, NEW k \in Keys, SetBegins(w, k) PROVE Starting'
  BY <1>19 DEF SetBegins, Move, IdleStarter, NewScope
<1>20. ASSUME NEW w \in Writers, SetWrites(w) PROVE Starting'
  BY <1>20 DEF SetWrites, Move, Commit, IdleStarter, NewScope
<1>21. ASSUME NEW w \in Writers, SetResolves(w) PROVE Starting'
  BY <1>21 DEF SetResolves, Move, Ack, Larger, IdleStarter, NewScope
<1>22. ASSUME NEW w \in Writers, SetPublishes(w) PROVE Starting'
  BY <1>22 DEF SetPublishes, Move, Ack, Larger, Record, IdleStarter, NewScope
<1>23. ASSUME CloseAsks PROVE Starting'
  BY <1>23 DEF CloseAsks, IdleStarter, NewScope
<1>24. ASSUME CloseTakesLock PROVE Starting'
  BY <1>24 DEF CloseTakesLock, IdleStarter, NewScope
<1>25. ASSUME EngineCloses PROVE Starting'
  BY <1>25 DEF EngineCloses, IdleStarter, NewScope
<1>26. ASSUME StoreCloses PROVE Starting'
  BY <1>26 DEF StoreCloses, IdleStarter, NewScope
<1>27. ASSUME AtRest PROVE Starting'
  BY <1>27 DEF AtRest, IdleStarter, NewScope, vars
<1> QED
  BY <1>1, <1>2, <1>3, <1>4, <1>5, <1>6, <1>7, <1>8, <1>9, <1>10, <1>11, <1>12, <1>13,
     <1>14, <1>15, <1>16, <1>17, <1>18, <1>19, <1>20, <1>21, <1>22, <1>23, <1>24, <1>25,
     <1>26, <1>27
  DEF Next, StartSteps, WorkerSteps, CloseSteps

-----------------------------------------------------------------------------
(* What a Start finds and leaves.                                          *)

(* A failure is newer than the Start that will report it. *)
LEMMA VerdictStep == ASSUME Flags, Stored, Held, Starting, Verdict, Next PROVE Verdict'
<1> USE Numbers DEF Flags, Stored, Held, Starting, Verdict, Scope, Starter, lifecycle,
        bounds, stored, history
<1>1. ASSUME NEW k \in Keys, Register(k) PROVE Verdict'
  BY <1>1 DEF Register, IdleStarter, NewScope
<1>2. ASSUME NEW k \in Keys, Refresh(k) PROVE Verdict'
  BY <1>2 DEF Refresh, Record, IdleStarter, NewScope
<1>3. ASSUME NEW k \in Keys, RemoteWrite(k) PROVE Verdict'
  BY <1>3 DEF RemoteWrite, Commit, IdleStarter, NewScope
<1>4. ASSUME Activate PROVE Verdict'
  BY <1>4 DEF Activate, TrackNewScope, IdleStarter, NewScope
<1>5. ASSUME DropTenant PROVE Verdict'
  BY <1>5 DEF DropTenant, DropScope, IdleStarter, NewScope
<1>6. ASSUME StartBegins PROVE Verdict'
  BY <1>6 DEF StartBegins, IdleStarter, NewScope
<1>7. ASSUME ContextEnds PROVE Verdict'
  BY <1>7 DEF ContextEnds, IdleStarter, NewScope
<1>8. ASSUME StoreStarts PROVE Verdict'
  BY <1>8 DEF StoreStarts, IdleStarter, NewScope
<1>9. ASSUME StartBringsUp PROVE Verdict'
  BY <1>9 DEF StartBringsUp, TrackNewScope, FailedScope, IdleStarter, NewScope
<1>10. ASSUME StartReturns PROVE Verdict'
  BY <1>10 DEF StartReturns, RollBack, IdleStarter, NewScope
<1>11. ASSUME Subscribe PROVE Verdict'
  BY <1>11 DEF Subscribe, IdleStarter, NewScope
<1>12. ASSUME SubscribeFails PROVE Verdict'
  BY <1>12 DEF SubscribeFails, DropScope, RollBack, IdleStarter, NewScope
<1>13. ASSUME Resync PROVE Verdict'
  BY <1>13 DEF Resync, IdleStarter, NewScope
<1>14. ASSUME Disconnect PROVE Verdict'
  BY <1>14 DEF Disconnect, IdleStarter, NewScope
<1>15. ASSUME ListFails PROVE Verdict'
  BY <1>15 DEF ListFails, Finish, IdleStarter, NewScope
<1>16. ASSUME List PROVE Verdict'
  BY <1>16 DEF List, IdleStarter, NewScope
<1>17. ASSUME ApplySnapshotRows PROVE Verdict'
  BY <1>17 DEF ApplySnapshotRows, Larger, Untouched, IdleStarter, NewScope
<1>18. ASSUME ApplyAbsentKeys PROVE Verdict'
  BY <1>18 DEF ApplyAbsentKeys, Finish, Untouched, IdleStarter, NewScope
<1>19. ASSUME NEW w \in Writers, NEW k \in Keys, SetBegins(w, k) PROVE Verdict'
  BY <1>19 DEF SetBegins, Move, IdleStarter, NewScope
<1>20. ASSUME NEW w \in Writers, SetWrites(w) PROVE Verdict'
  BY <1>20 DEF SetWrites, Move, Commit, IdleStarter, NewScope
<1>21. ASSUME NEW w \in Writers, SetResolves(w) PROVE Verdict'
  BY <1>21 DEF SetResolves, Move, Ack, Larger, IdleStarter, NewScope
<1>22. ASSUME NEW w \in Writers, SetPublishes(w) PROVE Verdict'
  BY <1>22 DEF SetPublishes, Move, Ack, Larger, Record, IdleStarter, NewScope
<1>23. ASSUME CloseAsks PROVE Verdict'
  BY <1>23 DEF CloseAsks, IdleStarter, NewScope
<1>24. ASSUME CloseTakesLock PROVE Verdict'
  BY <1>24 DEF CloseTakesLock, IdleStarter, NewScope
<1>25. ASSUME EngineCloses PROVE Verdict'
  BY <1>25 DEF EngineCloses, IdleStarter, NewScope
<1>26. ASSUME StoreCloses PROVE Verdict'
  BY <1>26 DEF StoreCloses, IdleStarter, NewScope
<1>27. ASSUME AtRest PROVE Verdict'
  BY <1>27 DEF AtRest, vars, IdleStarter, NewScope
<1> QED
  BY <1>1, <1>2, <1>3, <1>4, <1>5, <1>6, <1>7, <1>8, <1>9, <1>10, <1>11, <1>12, <1>13,
     <1>14,
     <1>15, <1>16, <1>17, <1>18, <1>19, <1>20, <1>21, <1>22, <1>23, <1>24, <1>25, <1>26, <1>27
  DEF Next, StartSteps, WorkerSteps, CloseSteps

(* Register finds the registry frozen under a scope that may come up. *)
LEMMA FrozenStep == ASSUME Flags, Stored, Held, Starting, Frozen, Next PROVE Frozen'
<1> USE DEF Flags, Held, Starting, Frozen, Scope, Starter, lifecycle, bounds, stored,
        history
<1>1. ASSUME NEW k \in Keys, Register(k) PROVE Frozen'
  BY <1>1 DEF Register, IdleStarter, NewScope
<1>2. ASSUME NEW k \in Keys, Refresh(k) PROVE Frozen'
  BY <1>2 DEF Refresh, Record, IdleStarter, NewScope
<1>3. ASSUME NEW k \in Keys, RemoteWrite(k) PROVE Frozen'
  BY <1>3 DEF RemoteWrite, Commit, IdleStarter, NewScope
<1>4. ASSUME Activate PROVE Frozen'
  BY <1>4 DEF Activate, TrackNewScope, IdleStarter, NewScope
<1>5. ASSUME DropTenant PROVE Frozen'
  BY <1>5 DEF DropTenant, DropScope, IdleStarter, NewScope
<1>6. ASSUME StartBegins PROVE Frozen'
  BY <1>6 DEF StartBegins, IdleStarter, NewScope
<1>7. ASSUME ContextEnds PROVE Frozen'
  BY <1>7 DEF ContextEnds, IdleStarter, NewScope
<1>8. ASSUME StoreStarts PROVE Frozen'
  BY <1>8 DEF StoreStarts, IdleStarter, NewScope
<1>9. ASSUME StartBringsUp PROVE Frozen'
  BY <1>9 DEF StartBringsUp, TrackNewScope, FailedScope, IdleStarter, NewScope
<1>10. ASSUME StartReturns PROVE Frozen'
  BY <1>10 DEF StartReturns, RollBack, IdleStarter, NewScope
<1>11. ASSUME Subscribe PROVE Frozen'
  BY <1>11 DEF Subscribe, IdleStarter, NewScope
<1>12. ASSUME SubscribeFails PROVE Frozen'
  BY <1>12 DEF SubscribeFails, DropScope, RollBack, IdleStarter, NewScope
<1>13. ASSUME Resync PROVE Frozen'
  BY <1>13 DEF Resync, IdleStarter, NewScope
<1>14. ASSUME Disconnect PROVE Frozen'
  BY <1>14 DEF Disconnect, IdleStarter, NewScope
<1>15. ASSUME ListFails PROVE Frozen'
  BY <1>15 DEF ListFails, Finish, IdleStarter, NewScope
<1>16. ASSUME List PROVE Frozen'
  BY <1>16 DEF List, IdleStarter, NewScope
<1>17. ASSUME ApplySnapshotRows PROVE Frozen'
  BY <1>17 DEF ApplySnapshotRows, Larger, Untouched, IdleStarter, NewScope
<1>18. ASSUME ApplyAbsentKeys PROVE Frozen'
  BY <1>18 DEF ApplyAbsentKeys, Finish, Untouched, IdleStarter, NewScope
<1>19. ASSUME NEW w \in Writers, NEW k \in Keys, SetBegins(w, k) PROVE Frozen'
  BY <1>19 DEF SetBegins, Move, IdleStarter, NewScope
<1>20. ASSUME NEW w \in Writers, SetWrites(w) PROVE Frozen'
  BY <1>20 DEF SetWrites, Move, Commit, IdleStarter, NewScope
<1>21. ASSUME NEW w \in Writers, SetResolves(w) PROVE Frozen'
  BY <1>21 DEF SetResolves, Move, Ack, Larger, IdleStarter, NewScope
<1>22. ASSUME NEW w \in Writers, SetPublishes(w) PROVE Frozen'
  BY <1>22 DEF SetPublishes, Move, Ack, Larger, Record, IdleStarter, NewScope
<1>23. ASSUME CloseAsks PROVE Frozen'
  BY <1>23 DEF CloseAsks, IdleStarter, NewScope
<1>24. ASSUME CloseTakesLock PROVE Frozen'
  BY <1>24 DEF CloseTakesLock, IdleStarter, NewScope
<1>25. ASSUME EngineCloses PROVE Frozen'
  BY <1>25 DEF EngineCloses, IdleStarter, NewScope
<1>26. ASSUME StoreCloses PROVE Frozen'
  BY <1>26 DEF StoreCloses, IdleStarter, NewScope
<1>27. ASSUME AtRest PROVE Frozen'
  BY <1>27 DEF AtRest, vars, IdleStarter, NewScope
<1> QED
  BY <1>1, <1>2, <1>3, <1>4, <1>5, <1>6, <1>7, <1>8, <1>9, <1>10, <1>11, <1>12, <1>13,
     <1>14,
     <1>15, <1>16, <1>17, <1>18, <1>19, <1>20, <1>21, <1>22, <1>23, <1>24, <1>25, <1>26, <1>27
  DEF Next, StartSteps, WorkerSteps, CloseSteps

(* A single-tenant Client that is started has come up. *)
LEMMA UpStep == ASSUME Flags, Stored, Held, Starting, Up, Next PROVE Up'
<1> USE DEF Flags, Held, Starting, Up, Scope, Starter, lifecycle, bounds, stored, history
<1>1. ASSUME NEW k \in Keys, Register(k) PROVE Up'
  BY <1>1 DEF Register, IdleStarter, NewScope
<1>2. ASSUME NEW k \in Keys, Refresh(k) PROVE Up'
  BY <1>2 DEF Refresh, Record, IdleStarter, NewScope
<1>3. ASSUME NEW k \in Keys, RemoteWrite(k) PROVE Up'
  BY <1>3 DEF RemoteWrite, Commit, IdleStarter, NewScope
<1>4. ASSUME Activate PROVE Up'
  BY <1>4 DEF Activate, TrackNewScope, IdleStarter, NewScope
<1>5. ASSUME DropTenant PROVE Up'
  BY <1>5 DEF DropTenant, DropScope, IdleStarter, NewScope
<1>6. ASSUME StartBegins PROVE Up'
  BY <1>6 DEF StartBegins, IdleStarter, NewScope
<1>7. ASSUME ContextEnds PROVE Up'
  BY <1>7 DEF ContextEnds, IdleStarter, NewScope
<1>8. ASSUME StoreStarts PROVE Up'
  BY <1>8 DEF StoreStarts, IdleStarter, NewScope
<1>9. ASSUME StartBringsUp PROVE Up'
  BY <1>9 DEF StartBringsUp, TrackNewScope, FailedScope, IdleStarter, NewScope
<1>10. ASSUME StartReturns PROVE Up'
  BY <1>10 DEF StartReturns, RollBack, IdleStarter, NewScope
<1>11. ASSUME Subscribe PROVE Up'
  BY <1>11 DEF Subscribe, IdleStarter, NewScope
<1>12. ASSUME SubscribeFails PROVE Up'
  BY <1>12 DEF SubscribeFails, DropScope, RollBack, IdleStarter, NewScope
<1>13. ASSUME Resync PROVE Up'
  BY <1>13 DEF Resync, IdleStarter, NewScope
<1>14. ASSUME Disconnect PROVE Up'
  BY <1>14 DEF Disconnect, IdleStarter, NewScope
<1>15. ASSUME ListFails PROVE Up'
  BY <1>15 DEF ListFails, Finish, IdleStarter, NewScope
<1>16. ASSUME List PROVE Up'
  BY <1>16 DEF List, IdleStarter, NewScope
<1>17. ASSUME ApplySnapshotRows PROVE Up'
  BY <1>17 DEF ApplySnapshotRows, Larger, Untouched, IdleStarter, NewScope
<1>18. ASSUME ApplyAbsentKeys PROVE Up'
  BY <1>18 DEF ApplyAbsentKeys, Finish, Untouched, IdleStarter, NewScope
<1>19. ASSUME NEW w \in Writers, NEW k \in Keys, SetBegins(w, k) PROVE Up'
  BY <1>19 DEF SetBegins, Move, IdleStarter, NewScope
<1>20. ASSUME NEW w \in Writers, SetWrites(w) PROVE Up'
  BY <1>20 DEF SetWrites, Move, Commit, IdleStarter, NewScope
<1>21. ASSUME NEW w \in Writers, SetResolves(w) PROVE Up'
  BY <1>21 DEF SetResolves, Move, Ack, Larger, IdleStarter, NewScope
<1>22. ASSUME NEW w \in Writers, SetPublishes(w) PROVE Up'
  BY <1>22 DEF SetPublishes, Move, Ack, Larger, Record, IdleStarter, NewScope
<1>23. ASSUME CloseAsks PROVE Up'
  BY <1>23 DEF CloseAsks, IdleStarter, NewScope
<1>24. ASSUME CloseTakesLock PROVE Up'
  BY <1>24 DEF CloseTakesLock, IdleStarter, NewScope
<1>25. ASSUME EngineCloses PROVE Up'
  BY <1>25 DEF EngineCloses, IdleStarter, NewScope
<1>26. ASSUME StoreCloses PROVE Up'
  BY <1>26 DEF StoreCloses, IdleStarter, NewScope
<1>27. ASSUME AtRest PROVE Up'
  BY <1>27 DEF AtRest, vars, IdleStarter, NewScope
<1> QED
  BY <1>1, <1>2, <1>3, <1>4, <1>5, <1>6, <1>7, <1>8, <1>9, <1>10, <1>11, <1>12, <1>13,
     <1>14,
     <1>15, <1>16, <1>17, <1>18, <1>19, <1>20, <1>21, <1>22, <1>23, <1>24, <1>25, <1>26, <1>27
  DEF Next, StartSteps, WorkerSteps, CloseSteps

(* Only what is registered is cached, written or acknowledged. *)
LEMMA RegisteredStep == ASSUME Flags, Stored, Held, Starting, Registered, Next
                        PROVE Registered'
<1> USE Numbers, Records DEF Flags, Held, Stored, Registered, Scope, Writer, lifecycle,
        bounds, stored, history
<1>1. ASSUME NEW k \in Keys, Register(k) PROVE Registered'
  BY <1>1 DEF Register, NewScope, NoWrite
<1>2. ASSUME NEW k \in Keys, Refresh(k) PROVE Registered'
  BY <1>2 DEF Refresh, Record, NewScope, NoWrite
<1>3. ASSUME NEW k \in Keys, RemoteWrite(k) PROVE Registered'
  BY <1>3 DEF RemoteWrite, Commit, NewScope, NoWrite
<1>4. ASSUME Activate PROVE Registered'
  BY <1>4 DEF Activate, TrackNewScope, NewScope, NoWrite
<1>5. ASSUME DropTenant PROVE Registered'
  BY <1>5 DEF DropTenant, DropScope, NewScope, NoWrite
<1>6. ASSUME StartBegins PROVE Registered'
  BY <1>6 DEF StartBegins, NewScope, NoWrite
<1>7. ASSUME ContextEnds PROVE Registered'
  BY <1>7 DEF ContextEnds, NewScope, NoWrite
<1>8. ASSUME StoreStarts PROVE Registered'
  BY <1>8 DEF StoreStarts, NewScope, NoWrite
<1>9. ASSUME StartBringsUp PROVE Registered'
  BY <1>9 DEF StartBringsUp, TrackNewScope, FailedScope, NewScope, NoWrite
<1>10. ASSUME StartReturns PROVE Registered'
  BY <1>10 DEF StartReturns, RollBack, NewScope, NoWrite
<1>11. ASSUME Subscribe PROVE Registered'
  BY <1>11 DEF Subscribe, NewScope, NoWrite
<1>12. ASSUME SubscribeFails PROVE Registered'
  BY <1>12 DEF SubscribeFails, DropScope, RollBack, NewScope, NoWrite
<1>13. ASSUME Resync PROVE Registered'
  BY <1>13 DEF Resync, NewScope, NoWrite
<1>14. ASSUME Disconnect PROVE Registered'
  BY <1>14 DEF Disconnect, NewScope, NoWrite
<1>15. ASSUME ListFails PROVE Registered'
  BY <1>15 DEF ListFails, Finish, NewScope, NoWrite
<1>16. ASSUME List PROVE Registered'
  BY <1>16 DEF List, NewScope, NoWrite
<1>17. ASSUME ApplySnapshotRows PROVE Registered'
  BY <1>17 DEF ApplySnapshotRows, Larger, Untouched, NewScope, NoWrite
<1>18. ASSUME ApplyAbsentKeys PROVE Registered'
  BY <1>18 DEF ApplyAbsentKeys, Finish, Untouched, NewScope, NoWrite
<1>19. ASSUME NEW w \in Writers, NEW k \in Keys, SetBegins(w, k) PROVE Registered'
  BY <1>19 DEF SetBegins, Move, NewScope, NoWrite
<1>20. ASSUME NEW w \in Writers, SetWrites(w) PROVE Registered'
  <2>1. UNCHANGED <<registry, scope, acked>>
    BY <1>20 DEF SetWrites
  <2>2. writers[w].key \in registry
    BY <1>20 DEF SetWrites
  <2>3. PICK x \in Writer :
          /\ Turned(w, x)
          /\ \/ x.pc = "idle" /\ UNCHANGED stored
             \/ /\ x.pc = "written" /\ x.key = writers[w].key /\ x.rev = commits + 1
                /\ Commit(x.key)
    BY <1>20, AfterSetWrites
  <2>4. \A v \in Writers : writers'[v].pc # "idle" => writers'[v].key \in registry
    BY <2>2, <2>3, Zenon DEF Turned, Registered
  <2> QED
    BY <2>1, <2>4
<1>21. ASSUME NEW w \in Writers, SetResolves(w) PROVE Registered'
  <2>1. UNCHANGED <<registry, scope>>
    BY <1>21 DEF SetResolves
  <2>2. writers[w].key \in registry
    BY <1>21 DEF SetResolves
  <2>3. \A k \in Keys \ registry : scope'.cache[k] = Unpublished /\ acked'[k] = 0
    BY <1>21, <2>1, <2>2 DEF SetResolves, Ack
  <2>4. PICK x \in Writer :
          /\ Turned(w, x)
          /\ \/ x.pc = "idle"
             \/ /\ x.pc = "resolved" /\ x.key = writers[w].key /\ x.rev = writers[w].rev
                /\ x.id = scope.id /\ acked' = acked
    BY <1>21, AfterSetResolves
  <2>5. \A v \in Writers : writers'[v].pc # "idle" => writers'[v].key \in registry
    BY <2>2, <2>4, Zenon DEF Turned, Registered
  <2> QED
    BY <2>1, <2>3, <2>5
<1>22. ASSUME NEW w \in Writers, SetPublishes(w) PROVE Registered'
  BY <1>22 DEF SetPublishes, Move, Ack, Larger, Record, NewScope, NoWrite
<1>23. ASSUME CloseAsks PROVE Registered'
  BY <1>23 DEF CloseAsks, NewScope, NoWrite
<1>24. ASSUME CloseTakesLock PROVE Registered'
  BY <1>24 DEF CloseTakesLock, NewScope, NoWrite
<1>25. ASSUME EngineCloses PROVE Registered'
  BY <1>25 DEF EngineCloses, NewScope, NoWrite
<1>26. ASSUME StoreCloses PROVE Registered'
  BY <1>26 DEF StoreCloses, NewScope, NoWrite
<1>27. ASSUME AtRest PROVE Registered'
  BY <1>27 DEF AtRest, vars, NewScope, NoWrite
<1> QED
  BY <1>1, <1>2, <1>3, <1>4, <1>5, <1>6, <1>7, <1>8, <1>9, <1>10, <1>11, <1>12, <1>13,
     <1>14,
     <1>15, <1>16, <1>17, <1>18, <1>19, <1>20, <1>21, <1>22, <1>23, <1>24, <1>25, <1>26, <1>27
  DEF Next, StartSteps, WorkerSteps, CloseSteps

(* What the window holds was published. *)
LEMMA TouchedStep == ASSUME Flags, Stored, Held, Starting, Touched, Next PROVE Touched'
<1> USE Numbers DEF Flags, Held, Stored, Touched, Reconciling, Scope, Reconcile, Writer,
        Revisions, lifecycle, bounds, stored, history
<1>1. ASSUME NEW k \in Keys, Register(k) PROVE Touched'
  BY <1>1 DEF Register, NewScope, NoReconcile
<1>2. ASSUME NEW k \in Keys, Refresh(k) PROVE Touched'
  BY <1>2 DEF Refresh, Record, NewScope, NoReconcile
<1>3. ASSUME NEW k \in Keys, RemoteWrite(k) PROVE Touched'
  BY <1>3 DEF RemoteWrite, Commit, NewScope, NoReconcile
<1>4. ASSUME Activate PROVE Touched'
  BY <1>4 DEF Activate, TrackNewScope, NewScope, NoReconcile
<1>5. ASSUME DropTenant PROVE Touched'
  BY <1>5 DEF DropTenant, DropScope, NewScope, NoReconcile
<1>6. ASSUME StartBegins PROVE Touched'
  BY <1>6 DEF StartBegins, NewScope, NoReconcile
<1>7. ASSUME ContextEnds PROVE Touched'
  BY <1>7 DEF ContextEnds, NewScope, NoReconcile
<1>8. ASSUME StoreStarts PROVE Touched'
  BY <1>8 DEF StoreStarts, NewScope, NoReconcile
<1>9. ASSUME StartBringsUp PROVE Touched'
  BY <1>9 DEF StartBringsUp, TrackNewScope, FailedScope, NewScope, NoReconcile
<1>10. ASSUME StartReturns PROVE Touched'
  BY <1>10 DEF StartReturns, RollBack, NewScope, NoReconcile
<1>11. ASSUME Subscribe PROVE Touched'
  BY <1>11 DEF Subscribe, NewScope, NoReconcile
<1>12. ASSUME SubscribeFails PROVE Touched'
  BY <1>12 DEF SubscribeFails, DropScope, RollBack, NewScope, NoReconcile
<1>13. ASSUME Resync PROVE Touched'
  BY <1>13 DEF Resync, NewScope, NoReconcile
<1>14. ASSUME Disconnect PROVE Touched'
  BY <1>14 DEF Disconnect, NewScope, NoReconcile
<1>15. ASSUME ListFails PROVE Touched'
  BY <1>15 DEF ListFails, Finish, NewScope, NoReconcile
<1>16. ASSUME List PROVE Touched'
  BY <1>16 DEF List, NewScope, NoReconcile
<1>17. ASSUME ApplySnapshotRows PROVE Touched'
  BY <1>17 DEF ApplySnapshotRows, Larger, Untouched, NewScope, NoReconcile
<1>18. ASSUME ApplyAbsentKeys PROVE Touched'
  BY <1>18 DEF ApplyAbsentKeys, Finish, Untouched, NewScope, NoReconcile
<1>19. ASSUME NEW w \in Writers, NEW k \in Keys, SetBegins(w, k) PROVE Touched'
  BY <1>19 DEF SetBegins, Move, NewScope, NoReconcile
<1>20. ASSUME NEW w \in Writers, SetWrites(w) PROVE Touched'
  BY <1>20 DEF SetWrites, Move, Commit, NewScope, NoReconcile
<1>21. ASSUME NEW w \in Writers, SetResolves(w) PROVE Touched'
  BY <1>21 DEF SetResolves, Move, Ack, Larger, NewScope, NoReconcile
<1>22. ASSUME NEW w \in Writers, SetPublishes(w) PROVE Touched'
  <2>1. CASE UNCHANGED <<scope, reconcile>>
    BY <2>1
  <2>2. CASE /\ scope.tracked
             /\ scope' = [scope EXCEPT !.cache[writers[w].key] = Larger(@, writers[w].rev)]
             /\ Record(writers[w].key)
    <3>1. writers[w].rev \in Nat /\ scope.cache[writers[w].key] \in Int
      BY DEF Unpublished
    <3>2. Larger(scope.cache[writers[w].key], writers[w].rev) # Unpublished
      BY <3>1 DEF Larger, Unpublished
    <3> QED
      BY <2>2, <3>2 DEF Record
  <2> QED
    BY <1>22, <2>1, <2>2 DEF SetPublishes
<1>23. ASSUME CloseAsks PROVE Touched'
  BY <1>23 DEF CloseAsks, NewScope, NoReconcile
<1>24. ASSUME CloseTakesLock PROVE Touched'
  BY <1>24 DEF CloseTakesLock, NewScope, NoReconcile
<1>25. ASSUME EngineCloses PROVE Touched'
  BY <1>25 DEF EngineCloses, NewScope, NoReconcile
<1>26. ASSUME StoreCloses PROVE Touched'
  BY <1>26 DEF StoreCloses, NewScope, NoReconcile
<1>27. ASSUME AtRest PROVE Touched'
  BY <1>27 DEF AtRest, vars, NewScope, NoReconcile
<1> QED
  BY <1>1, <1>2, <1>3, <1>4, <1>5, <1>6, <1>7, <1>8, <1>9, <1>10, <1>11, <1>12, <1>13,
     <1>14,
     <1>15, <1>16, <1>17, <1>18, <1>19, <1>20, <1>21, <1>22, <1>23, <1>24, <1>25, <1>26, <1>27
  DEF Next, StartSteps, WorkerSteps, CloseSteps

(* The last step of a reconcile leaves no registered key out. *)
LEMMA FilledStep == ASSUME Flags, Stored, Held, Starting, Frozen, Touched, Filled, Next
                    PROVE Filled'
<1> USE Numbers DEF Flags, Held, Stored, Frozen, Filled, Scope, Reconcile, Revisions,
        lifecycle, bounds, stored, history
<1>1. ASSUME NEW k \in Keys, Register(k) PROVE Filled'
  BY <1>1 DEF Register, NewScope, NoReconcile
<1>2. ASSUME NEW k \in Keys, Refresh(k) PROVE Filled'
  BY <1>2 DEF Refresh, Record, NewScope, NoReconcile
<1>3. ASSUME NEW k \in Keys, RemoteWrite(k) PROVE Filled'
  BY <1>3 DEF RemoteWrite, Commit, NewScope, NoReconcile
<1>4. ASSUME Activate PROVE Filled'
  BY <1>4 DEF Activate, TrackNewScope, NewScope, NoReconcile
<1>5. ASSUME DropTenant PROVE Filled'
  BY <1>5 DEF DropTenant, DropScope, NewScope, NoReconcile
<1>6. ASSUME StartBegins PROVE Filled'
  BY <1>6 DEF StartBegins, NewScope, NoReconcile
<1>7. ASSUME ContextEnds PROVE Filled'
  BY <1>7 DEF ContextEnds, NewScope, NoReconcile
<1>8. ASSUME StoreStarts PROVE Filled'
  BY <1>8 DEF StoreStarts, NewScope, NoReconcile
<1>9. ASSUME StartBringsUp PROVE Filled'
  BY <1>9 DEF StartBringsUp, TrackNewScope, FailedScope, NewScope, NoReconcile
<1>10. ASSUME StartReturns PROVE Filled'
  BY <1>10 DEF StartReturns, RollBack, NewScope, NoReconcile
<1>11. ASSUME Subscribe PROVE Filled'
  BY <1>11 DEF Subscribe, NewScope, NoReconcile
<1>12. ASSUME SubscribeFails PROVE Filled'
  BY <1>12 DEF SubscribeFails, DropScope, RollBack, NewScope, NoReconcile
<1>13. ASSUME Resync PROVE Filled'
  BY <1>13 DEF Resync, NewScope, NoReconcile
<1>14. ASSUME Disconnect PROVE Filled'
  BY <1>14 DEF Disconnect, NewScope, NoReconcile
<1>15. ASSUME ListFails PROVE Filled'
  BY <1>15 DEF ListFails, Finish, NewScope, NoReconcile
<1>16. ASSUME List PROVE Filled'
  BY <1>16 DEF List, NewScope, NoReconcile
<1>17. ASSUME ApplySnapshotRows PROVE Filled'
  <2> DEFINE c == scope'.cache
  <2>1. UNCHANGED <<multiTenant, registry>>
        /\ scope'.tracked = scope.tracked /\ scope'.first = scope.first
        /\ reconcile'.pc = "rows" /\ reconcile'.snap = reconcile.snap
    BY <1>17 DEF ApplySnapshotRows
  <2>2. \A k \in Keys : c[k] = IF k \in registry /\ reconcile.snap[k] > 0 /\ Untouched(k)
                               THEN Larger(scope.cache[k], reconcile.snap[k])
                               ELSE scope.cache[k]
    BY <1>17 DEF ApplySnapshotRows
  <2>3. \A k \in Keys : scope.cache[k] # Unpublished => c[k] # Unpublished
    BY <2>2 DEF Larger, Unpublished
  <2>4. \A k \in registry : reconcile.snap[k] > 0 => c[k] # Unpublished
    <3> SUFFICES ASSUME NEW k \in registry, reconcile.snap[k] > 0 PROVE c[k] # Unpublished
      OBVIOUS
    <3>1. CASE Untouched(k)
      <4>1. c[k] = Larger(scope.cache[k], reconcile.snap[k])
        BY <2>2, <3>1
      <4>2. scope.cache[k] \in Int /\ reconcile.snap[k] \in Nat
        BY DEF Unpublished
      <4> QED
        BY <4>1, <4>2 DEF Larger, Unpublished
    <3>2. CASE ~Untouched(k)
      BY <2>3, <3>2 DEF Untouched, Touched
    <3> QED
      BY <3>1, <3>2
  <2> HIDE DEF c
  <2> QED
    BY <2>1, <2>3, <2>4 DEF c
<1>18. ASSUME ApplyAbsentKeys PROVE Filled'
  BY <1>18 DEF ApplyAbsentKeys, Finish, Untouched, NoReconcile, Touched
<1>19. ASSUME NEW w \in Writers, NEW k \in Keys, SetBegins(w, k) PROVE Filled'
  BY <1>19 DEF SetBegins, Move, NewScope, NoReconcile
<1>20. ASSUME NEW w \in Writers, SetWrites(w) PROVE Filled'
  BY <1>20 DEF SetWrites, Move, Commit, NewScope, NoReconcile
<1>21. ASSUME NEW w \in Writers, SetResolves(w) PROVE Filled'
  BY <1>21 DEF SetResolves, Move, Ack, Larger, NewScope, NoReconcile
<1>22. ASSUME NEW w \in Writers, SetPublishes(w) PROVE Filled'
  BY <1>22 DEF SetPublishes, Move, Ack, Larger, Record, Writer
<1>23. ASSUME CloseAsks PROVE Filled'
  BY <1>23 DEF CloseAsks, NewScope, NoReconcile
<1>24. ASSUME CloseTakesLock PROVE Filled'
  BY <1>24 DEF CloseTakesLock, NewScope, NoReconcile
<1>25. ASSUME EngineCloses PROVE Filled'
  BY <1>25 DEF EngineCloses, NewScope, NoReconcile
<1>26. ASSUME StoreCloses PROVE Filled'
  BY <1>26 DEF StoreCloses, NewScope, NoReconcile
<1>27. ASSUME AtRest PROVE Filled'
  BY <1>27 DEF AtRest, vars, NewScope, NoReconcile
<1> QED
  BY <1>1, <1>2, <1>3, <1>4, <1>5, <1>6, <1>7, <1>8, <1>9, <1>10, <1>11, <1>12, <1>13,
     <1>14,
     <1>15, <1>16, <1>17, <1>18, <1>19, <1>20, <1>21, <1>22, <1>23, <1>24, <1>25, <1>26, <1>27
  DEF Next, StartSteps, WorkerSteps, CloseSteps

-----------------------------------------------------------------------------
(* A new Client: nothing is registered, started, cached or written. *)
LEMMA InitBoot == Init => Boot
<1> SUFFICES ASSUME Init PROVE Boot
  OBVIOUS
<1>1. /\ scope.id = 0 /\ ~scope.tracked /\ scope.first = "pending"
      /\ \A k \in Keys : scope.cache[k] = Unpublished
      /\ scope \in Scope
  <2>1. NewScope(0) \in Scope
    BY Records, Numbers
  <2>2. scope = [NewScope(0) EXCEPT !.tracked = FALSE]
    BY DEF Init
  <2> QED
    BY <2>1, <2>2 DEF NewScope, Scope
<1>2. Flags
  BY Records DEF Init, Flags
<1>3. Stored
  BY Numbers DEF Init, Stored, Revisions
<1>4. Held
  BY <1>1, Records DEF Init, Held
<1>5. Starting /\ Verdict /\ Frozen /\ Up
  BY <1>1 DEF Init, Starting, Verdict, Frozen, Up, IdleStarter
<1>6. Registered
  BY <1>1 DEF Init, Registered, NoWrite
<1>7. Touched /\ Filled
  BY <1>1 DEF Init, Touched, Filled, Reconciling, NoReconcile
<1> QED
  BY <1>2, <1>3, <1>4, <1>5, <1>6, <1>7, Parts DEF Boot

(* Every step of Next, or none, keeps the Client's own books. *)
LEMMA BootStep == Boot /\ [Next]_vars => Boot'
<1> SUFFICES ASSUME Boot, [Next]_vars PROVE Boot'
  OBVIOUS
<1> USE Parts DEF Boot
<1>1. CASE Next
  <2>1. Flags' /\ Stored' /\ Held' /\ Starting'
    BY <1>1, FlagsStep, StoredStep, HeldStep, StartingStep
  <2>2. TypeOK'
    <3>1. {started', registryFrozen', closed', engineClosed'} \subseteq BOOLEAN
      BY <2>1 DEF Flags
    <3> QED
      BY <2>1, <3>1, Zenon DEF TypeOK, Flags, Stored, Held
  <2>3. Verdict' /\ Frozen' /\ Up'
    BY <1>1, VerdictStep, FrozenStep, UpStep
  <2>4. Registered' /\ Touched' /\ Filled'
    BY <1>1, RegisteredStep, TouchedStep, FilledStep
  <2> QED
    BY <2>1, <2>2, <2>3, <2>4
<1>2. CASE UNCHANGED vars
  BY <1>2 DEF vars, TypeOK, Starting, Verdict, Frozen, Up, Registered, Touched,
              Filled, Reconciling
<1> QED
  BY <1>1, <1>2

(* Start, Register, the scope and its reconcile keep each other's          *)
(* assumptions, whoever times out, fails or retries.                       *)
THEOREM BootHolds == Spec => []Boot
BY InitBoot, BootStep, PTL DEF Spec

(* Every variable of the Client keeps its type: the scopes numbered by the *)
(* Starts, losses and faults, the revisions bounded by the commits.        *)
THEOREM TypeCorrect == Spec => []TypeOK
<1>1. Boot => TypeOK
  BY DEF Boot
<1> QED
  BY <1>1, BootHolds, PTL

(* A Start never reports a failure older than itself: retryFailedScope     *)
(* replaces the scope that recorded one before the Start waits on it.      *)
THEOREM VerdictIsOwn == Spec => []FreshVerdict
<1>1. Boot => FreshVerdict
  BY DEF Boot, Verdict, FreshVerdict
<1> QED
  BY <1>1, BootHolds, PTL

(* Once Start has returned nil on a single-tenant Client every registered  *)
(* key is cached, whatever Starts failed or timed out before it and        *)
(* whatever was registered between them.                                   *)
THEOREM StartedNeverMisses == Spec => []NeverAMiss
<1>1. Boot => NeverAMiss
  BY DEF Boot, Up, Filled, NeverAMiss, Hit
<1> QED
  BY <1>1, BootHolds, PTL

-----------------------------------------------------------------------------
(* Reads.                                                                  *)

(* The types in the form the arithmetic below needs. *)
LEMMA Typed ==
  ASSUME Boot
  PROVE  /\ Unpublished = -1 /\ commits \in Nat
         /\ \A k \in Keys : /\ rows[k] \in Nat /\ acked[k] \in Nat /\ skipped[k] \in Nat
                            /\ reconcile.snap[k] \in Nat /\ scope.cache[k] \in Int
                            /\ scope.cache[k] # Unpublished => scope.cache[k] \in Nat
         /\ \A w \in Writers : writers[w].key \in Keys /\ writers[w].rev \in Nat
<1> USE Parts, Numbers DEF Boot
<1>1. /\ Unpublished = -1 /\ commits \in Nat
      /\ \A k \in Keys : rows[k] \in Nat /\ acked[k] \in Nat /\ skipped[k] \in Nat
  BY DEF Unpublished, Stored
<1>2. \A k \in Keys : /\ reconcile.snap[k] \in Nat /\ scope.cache[k] \in Int
                      /\ scope.cache[k] # Unpublished => scope.cache[k] \in Nat
  <2> SUFFICES ASSUME NEW k \in Keys
               PROVE /\ reconcile.snap[k] \in Nat /\ scope.cache[k] \in Int
                     /\ scope.cache[k] # Unpublished => scope.cache[k] \in Nat
    OBVIOUS
  <2>1. reconcile.snap[k] \in Revisions /\ scope.cache[k] \in Revisions \cup {Unpublished}
    BY DEF Held, Reconcile, Scope
  <2>2. ASSUME NEW n \in Revisions \cup {Unpublished}
        PROVE n \in Int /\ (n # Unpublished => n \in Nat)
    BY DEF Unpublished
  <2> QED
    BY <2>1, <2>2
<1>3. \A w \in Writers : writers[w].key \in Keys /\ writers[w].rev \in Nat
  BY DEF Held, Writer
<1> QED
  BY <1>1, <1>2, <1>3

(* Larger is one of its arguments and above both. *)
LEMMA LargerOf ==
  ASSUME NEW a \in Int, NEW b \in Int
  PROVE  Larger(a, b) \in {a, b} /\ Larger(a, b) >= a /\ Larger(a, b) >= b
BY DEF Larger

(* A nil return, and the publication into the scope the Set resolved. *)
Acknowledged(w) ==
  \A k \in Keys : acked'[k] = IF k = writers[w].key THEN Larger(acked[k], writers[w].rev)
                                                    ELSE acked[k]
Published(w) ==
  /\ \A k \in Keys : scope'.cache[k] = IF k = writers[w].key
                                       THEN Larger(scope.cache[k], writers[w].rev)
                                       ELSE scope.cache[k]
  /\ reconcile.pc # "idle" => reconcile'.touched = reconcile.touched \cup {writers[w].key}

(* Ack, key by key. *)
LEMMA AckEffect == ASSUME NEW w \in Writers, Boot, Ack(w) PROVE Acknowledged(w)
<1>1. acked \in [Keys -> Revisions]
  BY Parts DEF Boot, Stored
<1> QED
  BY <1>1 DEF Ack, Acknowledged

(* SetPublishes: into the scope, nowhere, or into one that is gone. *)
LEMMA AfterSetPublishes ==
  ASSUME NEW w \in Writers, Boot, SetPublishes(w)
  PROVE  /\ writers[w].pc = "resolved"
         /\ \E x \in Writer : Turned(w, x) /\ x.pc = "idle"
         /\ UNCHANGED <<rows, commits, skipped>>
         /\ scope'.id = scope.id /\ scope'.tracked = scope.tracked
         /\ scope'.stale = scope.stale
         /\ reconcile'.pc = reconcile.pc /\ reconcile'.snap = reconcile.snap
         /\ \/ Acknowledged(w) /\ Published(w)
            \/ acked' = acked /\ UNCHANGED <<scope, reconcile>>
            \/ Acknowledged(w) /\ UNCHANGED <<scope, reconcile>>
               /\ (scope.tracked => Elsewhere(w))
<1>1. Held
  BY Parts DEF Boot
<1>2. /\ writers[w].pc = "resolved" /\ UNCHANGED <<rows, commits, skipped>>
      /\ Move(w, NoWrite)
  BY DEF SetPublishes, stored
<1>3. \E x \in Writer : Turned(w, x) /\ x.pc = "idle"
  BY <1>1, <1>2, Idled
<1>4. CASE /\ Ack(w) /\ Record(writers[w].key)
           /\ scope' = [scope EXCEPT !.cache[writers[w].key] = Larger(@, writers[w].rev)]
  <2>1. /\ scope'.id = scope.id /\ scope'.tracked = scope.tracked
        /\ scope'.stale = scope.stale
        /\ reconcile'.pc = reconcile.pc /\ reconcile'.snap = reconcile.snap
    BY <1>1, <1>4 DEF Held, Scope, Reconcile, Record
  <2>2. Published(w)
    <3>1. writers[w].key \in Keys
      BY Typed
    <3> QED
      BY <1>1, <1>4, <3>1 DEF Held, Scope, Reconcile, Record, Published
  <2> QED
    BY <1>2, <1>3, <1>4, <2>1, <2>2, AckEffect
<1>5. CASE /\ UNCHANGED <<scope, reconcile>>
           /\ ~(~engineClosed /\ scope.tracked /\ scope.id = writers[w].id)
           /\ \/ ~engineClosed /\ Ack(w)
              \/ acked' = acked
  BY <1>2, <1>3, <1>5, AckEffect DEF Elsewhere
<1> QED
  BY <1>4, <1>5 DEF SetPublishes

(* SetResolves acknowledges only when there is no scope. *)
LEMMA ResolvedInto ==
  ASSUME NEW w \in Writers, Boot, SetResolves(w)
  PROVE  /\ writers[w].pc = "written"
         /\ UNCHANGED <<scope, reconcile, rows, commits, skipped>>
         /\ acked' = acked \/ (Acknowledged(w) /\ ~scope.tracked)
<1>1. /\ writers[w].pc = "written" /\ UNCHANGED <<scope, reconcile, rows, commits, skipped>>
  BY DEF SetResolves, stored
<1>2. acked' = acked \/ (Ack(w) /\ ~scope.tracked)
  BY DEF SetResolves
<1> QED
  BY <1>1, <1>2, AckEffect

(* SetWrites: the new revision is above everything the store held. *)
LEMMA WritesReads ==
  ASSUME NEW w \in Writers, Boot, Reads, SetWrites(w)
  PROVE  Revised' /\ Photograph' /\ Applied' /\ Confirmed'
<1> USE DEF Reads
<1>1. UNCHANGED <<scope, reconcile, acked, skipped>> /\ writers[w].pc = "admitted"
  BY DEF SetWrites, history
<1>2. PICK x \in Writer :
        /\ Turned(w, x)
        /\ \/ x.pc = "idle" /\ UNCHANGED stored
           \/ /\ x.pc = "written" /\ x.key = writers[w].key /\ x.rev = commits + 1
              /\ Commit(x.key)
  BY AfterSetWrites, Parts DEF Boot
<1>3. \/ /\ x.pc = "idle" /\ rows' = rows /\ commits' = commits
      \/ /\ x.pc = "written" /\ x.key \in Keys /\ x.rev = commits + 1
         /\ commits' = commits + 1
         /\ \A k \in Keys : rows'[k] = IF k = x.key THEN commits + 1 ELSE rows[k]
  <2>1. rows \in [Keys -> Revisions]
    BY Parts DEF Boot, Stored
  <2> QED
    BY <1>2, <2>1, Typed DEF Commit, stored
<1>4. \A v \in Writers : writers'[v] = IF v = w THEN x ELSE writers[v]
  BY <1>2 DEF Turned
<1>5. Revised'
  <2>1. \A k \in Keys : rows[k] <= rows'[k] /\ rows'[k] <= commits'
    BY <1>3, Typed DEF Revised
  <2>2. \A k \in Keys : acked[k] <= rows'[k] /\ reconcile.snap[k] <= rows'[k]
    BY <1>3, Typed DEF Revised
  <2>3. ASSUME NEW v \in Writers, writers'[v].pc \in {"written", "resolved"}
        PROVE writers'[v].rev <= rows'[writers'[v].key] /\ writers'[v].rev > 0
    <3>1. CASE v = w
      BY <1>3, <1>4, <2>3, <3>1, Typed
    <3>2. CASE v # w
      <4>1. writers'[v] = writers[v]
        BY <1>4, <3>2
      <4>2. writers[v].rev <= rows[writers[v].key] /\ writers[v].rev > 0
        BY <2>3, <4>1 DEF Revised
      <4> QED
        BY <1>3, <4>1, <4>2, Typed DEF Revised
    <3> QED
      BY <3>1, <3>2
  <2> QED
    BY <1>1, <2>1, <2>2, <2>3 DEF Revised
<1>6. \A v \in Writers : Elsewhere(v)' => Elsewhere(v) /\ writers'[v] = writers[v]
  BY <1>1, <1>3, <1>4 DEF Elsewhere
<1>7. Photograph'
  BY <1>1, <1>6 DEF Photograph, Listed
<1>8. Applied'
  <2>1. \A k \in Keys : reconcile.snap[k] < commits + 1
    BY Typed DEF Revised
  <2>2. ASSUME NEW v \in Writers, writers'[v].pc \in {"written", "resolved"}
        PROVE \/ writers'[v] = writers[v]
              \/ writers'[v].rev > reconcile.snap[writers'[v].key]
    <3>1. CASE v = w
      BY <1>3, <1>4, <2>1, <2>2, <3>1, Typed
    <3>2. CASE v # w
      BY <1>4, <3>2
    <3> QED
      BY <3>1, <3>2
  <2> QED
    BY <1>1, <2>2 DEF Applied
<1>9. Confirmed'
  BY <1>1, <1>6 DEF Confirmed, Covered
<1> QED
  BY <1>5, <1>7, <1>8, <1>9

(* SetResolves: a Set acknowledged here found no scope at all. *)
LEMMA ResolvesReads ==
  ASSUME NEW w \in Writers, Boot, Reads, SetResolves(w)
  PROVE  Revised' /\ Photograph' /\ Applied' /\ Confirmed'
<1> USE DEF Reads
<1>1. /\ writers[w].pc = "written"
      /\ UNCHANGED <<scope, reconcile, rows, commits, skipped>>
      /\ acked' = acked \/ (Acknowledged(w) /\ ~scope.tracked)
  BY ResolvedInto
<1>2. PICK x \in Writer :
        /\ Turned(w, x)
        /\ \/ x.pc = "idle"
           \/ /\ x.pc = "resolved" /\ x.key = writers[w].key /\ x.rev = writers[w].rev
              /\ x.id = scope.id /\ acked' = acked
  BY AfterSetResolves, Parts DEF Boot
<1>3. \A v \in Writers : writers'[v] = IF v = w THEN x ELSE writers[v]
  BY <1>2 DEF Turned
<1>4. \A v \in Writers : writers'[v].pc \in {"written", "resolved"} =>
        /\ writers[v].pc \in {"written", "resolved"}
        /\ writers'[v].key = writers[v].key /\ writers'[v].rev = writers[v].rev
  BY <1>1, <1>2, <1>3, Zenon
<1>5. \A v \in Writers : Elsewhere(v)' => Elsewhere(v) /\ writers'[v] = writers[v]
  BY <1>1, <1>2, <1>3 DEF Elsewhere
<1>6. Revised'
  <2>1. \A k \in Keys : acked'[k] <= rows[k]
    <3> SUFFICES ASSUME NEW k \in Keys PROVE acked'[k] <= rows[k]
      OBVIOUS
    <3>1. acked[k] <= rows[k] /\ writers[w].rev <= rows[writers[w].key]
      BY <1>1 DEF Revised
    <3> QED
      BY <1>1, <3>1, Typed, LargerOf DEF Acknowledged
  <2>2. \A k \in Keys : rows[k] <= commits /\ reconcile.snap[k] <= rows[k]
    BY DEF Revised
  <2>3. \A v \in Writers : writers'[v].pc \in {"written", "resolved"} =>
          writers'[v].rev <= rows[writers'[v].key] /\ writers'[v].rev > 0
    BY <1>4 DEF Revised
  <2> QED
    BY <1>1, <2>1, <2>2, <2>3 DEF Revised
<1>7. CASE acked' = acked
  <2>1. Photograph'
    BY <1>1, <1>5, <1>7 DEF Photograph, Listed
  <2>2. Applied'
    BY <1>1, <1>4, <1>7 DEF Applied
  <2>3. Confirmed'
    BY <1>1, <1>5, <1>7 DEF Confirmed, Covered
  <2> QED
    BY <1>6, <2>1, <2>2, <2>3
<1>8. CASE ~scope.tracked
  <2>1. reconcile.pc = "idle"
    BY <1>8 DEF Boot, Touched, Reconciling
  <2> QED
    BY <1>1, <1>6, <1>8, <2>1 DEF Photograph, Listed, Applied, Confirmed
<1> QED
  BY <1>1, <1>7, <1>8

(* SetPublishes: published into the scope that serves the reads, or covered *)
(* by the reconcile of the one that replaced it.                            *)
LEMMA PublishesReads ==
  ASSUME NEW w \in Writers, Boot, Reads, SetPublishes(w)
  PROVE  Photograph' /\ Applied' /\ Confirmed'
<1> USE DEF Reads
<1> DEFINE key == writers[w].key
           rev == writers[w].rev
<1>1. /\ writers[w].pc = "resolved" /\ UNCHANGED <<rows, commits, skipped>>
      /\ scope'.id = scope.id /\ scope'.tracked = scope.tracked
      /\ scope'.stale = scope.stale
      /\ reconcile'.pc = reconcile.pc /\ reconcile'.snap = reconcile.snap
      /\ \/ Acknowledged(w) /\ Published(w)
         \/ acked' = acked /\ UNCHANGED <<scope, reconcile>>
         \/ Acknowledged(w) /\ UNCHANGED <<scope, reconcile>>
            /\ (scope.tracked => Elsewhere(w))
  BY AfterSetPublishes
<1>2. PICK x \in Writer : Turned(w, x) /\ x.pc = "idle"
  BY AfterSetPublishes
<1>3. \A v \in Writers : writers'[v].pc # "idle" => v # w /\ writers'[v] = writers[v]
  BY <1>2, Zenon DEF Turned
<1>4. \A v \in Writers : Elsewhere(v)' => Elsewhere(v) /\ writers'[v] = writers[v]
  BY <1>1, <1>3 DEF Elsewhere
<1>5. key \in Keys /\ rev \in Nat /\ rev > 0
  BY <1>1, Typed DEF Revised
<1>6. CASE Acknowledged(w) /\ Published(w)
  <2>1. \A k \in Keys : /\ scope'.cache[k] \in Int /\ scope.cache[k] <= scope'.cache[k]
                        /\ k # key => scope'.cache[k] = scope.cache[k] /\ acked'[k] = acked[k]
    BY <1>5, <1>6, Typed, LargerOf DEF Acknowledged, Published
  <2>2. /\ rev <= scope'.cache[key] /\ scope'.cache[key] # Unpublished
        /\ acked'[key] \in {acked[key], rev}
    BY <1>5, <1>6, Typed, LargerOf DEF Acknowledged, Published
  <2>3. \A k \in Keys : scope.cache[k] # Unpublished => scope'.cache[k] # Unpublished
    BY <2>1, <2>2
  <2>4. Photograph'
    <3> SUFFICES ASSUME Listed'
                 PROVE /\ \A k \in Keys :
                            \/ acked'[k] <= reconcile.snap[k]
                            \/ k \in reconcile'.touched /\ acked'[k] <= scope'.cache[k]
                       /\ \A v \in Writers : Elsewhere(v)' =>
                            writers'[v].rev <= reconcile.snap[writers'[v].key]
      BY <1>1 DEF Photograph, Listed
    <3>1. Listed /\ reconcile'.touched = reconcile.touched \cup {key}
      BY <1>1, <1>6 DEF Listed, Published
    <3>2. \A v \in Writers : Elsewhere(v)' =>
            writers'[v].rev <= reconcile.snap[writers'[v].key]
      BY <1>4, <3>1 DEF Photograph
    <3>3. ASSUME NEW k \in Keys
          PROVE \/ acked'[k] <= reconcile.snap[k]
                \/ k \in reconcile'.touched /\ acked'[k] <= scope'.cache[k]
      <4>1. \/ acked[k] <= reconcile.snap[k]
            \/ k \in reconcile.touched /\ acked[k] <= scope.cache[k]
        BY <3>1 DEF Photograph
      <4>2. CASE k = key
        BY <2>1, <2>2, <3>1, <4>1, <4>2, <1>5, Typed
      <4>3. CASE k # key
        BY <2>1, <3>1, <4>1, <4>3
      <4> QED
        BY <4>2, <4>3
    <3> QED
      BY <3>2, <3>3
  <2>5. Applied'
    <3> SUFFICES ASSUME reconcile.pc = "rows", NEW k \in Keys
                 PROVE IF scope'.cache[k] # Unpublished
                       THEN \/ reconcile.snap[k] <= scope'.cache[k]
                            \/ reconcile.snap[k] <= skipped[k]
                       ELSE reconcile.snap[k] > 0 =>
                              /\ acked'[k] = 0
                              /\ \A v \in Writers :
                                   writers'[v].key = k
                                   /\ writers'[v].pc \in {"written", "resolved"} =>
                                     writers'[v].rev > reconcile.snap[k]
      BY <1>1 DEF Applied
    <3>1. CASE scope.cache[k] # Unpublished
      <4>1. reconcile.snap[k] <= scope.cache[k] \/ reconcile.snap[k] <= skipped[k]
        BY <3>1 DEF Applied
      <4> QED
        BY <2>1, <2>3, <3>1, <4>1, Typed
    <3>2. CASE scope.cache[k] = Unpublished /\ k = key
      <4>1. reconcile.snap[k] > 0 => rev > reconcile.snap[k]
        BY <1>1, <3>2 DEF Applied
      <4> QED
        BY <1>5, <2>1, <2>2, <3>2, <4>1, Typed
    <3>3. CASE scope.cache[k] = Unpublished /\ k # key
      <4>1. scope'.cache[k] = Unpublished /\ acked'[k] = acked[k]
        BY <2>1, <3>3
      <4>2. reconcile.snap[k] > 0 =>
              /\ acked[k] = 0
              /\ \A v \in Writers :
                   writers[v].key = k /\ writers[v].pc \in {"written", "resolved"} =>
                     writers[v].rev > reconcile.snap[k]
        BY <3>3 DEF Applied
      <4> QED
        BY <1>3, <4>1, <4>2
    <3> QED
      BY <3>1, <3>2, <3>3
  <2>6. Confirmed'
    <3> SUFFICES ASSUME scope.tracked, ~scope.stale
                 PROVE /\ \A k \in Keys : Covered(k, acked[k])'
                       /\ \A v \in Writers : Elsewhere(v)' =>
                            Covered(writers[v].key, writers[v].rev)'
      BY <1>1 DEF Confirmed
    <3>1. ASSUME NEW k \in Keys, NEW n \in Nat,
                 \/ n = 0
                 \/ scope.cache[k] # Unpublished /\ (n <= scope.cache[k] \/ n <= skipped[k])
          PROVE \/ n = 0
                \/ scope'.cache[k] # Unpublished /\ (n <= scope'.cache[k] \/ n <= skipped'[k])
      BY <1>1, <2>1, <2>3, <3>1, Typed
    <3>2. ASSUME NEW k \in Keys
          PROVE Covered(k, acked[k])'
      <4>1. Covered(k, acked[k])
        BY DEF Confirmed
      <4>2. CASE acked'[k] = acked[k]
        BY <3>1, <4>1, <4>2, Typed DEF Covered
      <4>3. CASE k = key /\ acked'[k] = rev
        BY <2>2, <4>3 DEF Covered
      <4> QED
        BY <2>1, <2>2, <4>2, <4>3
    <3>3. ASSUME NEW v \in Writers, Elsewhere(v)'
          PROVE Covered(writers[v].key, writers[v].rev)'
      <4>1. Elsewhere(v) /\ writers'[v] = writers[v]
        BY <1>4, <3>3
      <4>2. Covered(writers[v].key, writers[v].rev)
        BY <4>1 DEF Confirmed
      <4> QED
        BY <3>1, <4>1, <4>2, Typed DEF Covered
    <3> QED
      BY <3>2, <3>3
  <2> QED
    BY <2>4, <2>5, <2>6
<1>7. CASE acked' = acked /\ UNCHANGED <<scope, reconcile>>
  <2>1. Photograph'
    BY <1>4, <1>7 DEF Photograph, Listed
  <2>2. Applied'
    BY <1>1, <1>3, <1>7 DEF Applied
  <2>3. Confirmed'
    BY <1>1, <1>4, <1>7 DEF Confirmed, Covered
  <2> QED
    BY <2>1, <2>2, <2>3
<1>8. CASE Acknowledged(w) /\ UNCHANGED <<scope, reconcile>> /\ (scope.tracked => Elsewhere(w))
  <2>1. \A k \in Keys : k # key => acked'[k] = acked[k]
    BY <1>8 DEF Acknowledged
  <2>2. acked'[key] \in {acked[key], rev}
    BY <1>5, <1>8, Typed, LargerOf DEF Acknowledged
  <2>3. reconcile.pc # "idle" => scope.tracked
    BY DEF Boot, Touched, Reconciling
  <2>4. Photograph'
    <3> SUFFICES ASSUME Listed
                 PROVE /\ \A k \in Keys :
                            \/ acked'[k] <= reconcile.snap[k]
                            \/ k \in reconcile.touched /\ acked'[k] <= scope.cache[k]
                       /\ \A v \in Writers : Elsewhere(v)' =>
                            writers'[v].rev <= reconcile.snap[writers'[v].key]
      BY <1>8 DEF Photograph, Listed
    <3>1. rev <= reconcile.snap[key]
      BY <1>8, <2>3 DEF Photograph, Listed
    <3>2. \A v \in Writers : Elsewhere(v)' =>
            writers'[v].rev <= reconcile.snap[writers'[v].key]
      BY <1>4 DEF Photograph
    <3> QED
      BY <2>1, <2>2, <3>1, <3>2 DEF Photograph
  <2>5. Applied'
    <3> SUFFICES ASSUME reconcile.pc = "rows", NEW k \in Keys
                 PROVE IF scope.cache[k] # Unpublished
                       THEN \/ reconcile.snap[k] <= scope.cache[k]
                            \/ reconcile.snap[k] <= skipped[k]
                       ELSE reconcile.snap[k] > 0 =>
                              /\ acked'[k] = 0
                              /\ \A v \in Writers :
                                   writers'[v].key = k
                                   /\ writers'[v].pc \in {"written", "resolved"} =>
                                     writers'[v].rev > reconcile.snap[k]
      BY <1>1, <1>8 DEF Applied
    <3>1. CASE scope.cache[k] # Unpublished
      BY <3>1 DEF Applied
    <3>2. CASE scope.cache[k] = Unpublished /\ reconcile.snap[k] > 0
      <4>1. /\ acked[k] = 0
            /\ \A v \in Writers :
                 writers[v].key = k /\ writers[v].pc \in {"written", "resolved"} =>
                   writers[v].rev > reconcile.snap[k]
        BY <3>2 DEF Applied
      <4>2. k # key
        <5>1. rev <= reconcile.snap[key]
          BY <1>8, <2>3 DEF Photograph, Listed
        <5> QED
          BY <1>1, <1>5, <4>1, <5>1, Typed
      <4> QED
        BY <1>3, <2>1, <3>2, <4>1, <4>2
    <3> QED
      BY <3>1, <3>2
  <2>6. Confirmed'
    <3> SUFFICES ASSUME scope.tracked, ~scope.stale
                 PROVE /\ \A k \in Keys : Covered(k, acked[k])'
                       /\ \A v \in Writers : Elsewhere(v)' =>
                            Covered(writers[v].key, writers[v].rev)'
      BY <1>1 DEF Confirmed
    <3>1. ASSUME NEW k \in Keys PROVE Covered(k, acked[k])'
      <4>1. Covered(k, acked[k]) /\ (k = key => Covered(k, rev))
        BY <1>8 DEF Confirmed
      <4>2. acked'[k] = acked[k] \/ (k = key /\ acked'[k] = rev)
        BY <2>1, <2>2
      <4> QED
        BY <1>1, <1>8, <4>1, <4>2 DEF Covered
    <3>2. ASSUME NEW v \in Writers, Elsewhere(v)'
          PROVE Covered(writers[v].key, writers[v].rev)'
      <4>1. Elsewhere(v) /\ writers'[v] = writers[v]
        BY <1>4, <3>2
      <4>2. Covered(writers[v].key, writers[v].rev)
        BY <4>1 DEF Confirmed
      <4> QED
        BY <1>1, <1>8, <4>1, <4>2 DEF Covered
    <3> QED
      BY <3>1, <3>2
  <2> QED
    BY <2>4, <2>5, <2>6
<1> QED
  BY <1>1, <1>6, <1>7, <1>8

(* Refresh publishes the row as it is, which no photograph is ahead of. *)
LEMMA RefreshApplied ==
  ASSUME NEW j \in Keys, Boot, Reads, Refresh(j)
  PROVE  Applied'
<1>1. /\ UNCHANGED <<writers, acked, skipped>>
      /\ rows[j] > scope.cache[j]
      /\ scope' = [scope EXCEPT !.cache[j] = rows[j]]
      /\ reconcile'.pc = reconcile.pc /\ reconcile'.snap = reconcile.snap
  BY Parts DEF Refresh, Record, history, Boot, Held, Reconcile
<1>2. \A k \in Keys : scope'.cache[k] = IF k = j THEN rows[j] ELSE scope.cache[k]
  BY <1>1, Parts DEF Boot, Held, Scope
<1>3. reconcile.snap[j] <= rows[j] /\ rows[j] # Unpublished
  BY Typed DEF Reads, Revised
<1> QED
  BY <1>1, <1>2, <1>3 DEF Reads, Applied

(* ApplySnapshotRows applies a row, passes it over, or leaves it with a key *)
(* nobody registered yet.                                                   *)
LEMMA RowsApplied ==
  ASSUME Boot, Reads, ApplySnapshotRows
  PROVE  Applied'
<1>1. /\ UNCHANGED <<registry, writers, acked>>
      /\ reconcile'.snap = reconcile.snap
  BY Parts DEF ApplySnapshotRows, Boot, Held, Reconcile
<1>2. \A k \in Keys : scope'.cache[k] = IF k \in registry /\ reconcile.snap[k] > 0 /\ Untouched(k)
                                        THEN Larger(scope.cache[k], reconcile.snap[k])
                                        ELSE scope.cache[k]
  BY Parts DEF ApplySnapshotRows, Boot, Held, Scope
<1>3. \A k \in Keys : skipped'[k] = IF k \in registry /\ ~Untouched(k)
                                       /\ reconcile.snap[k] > scope.cache[k]
                                    THEN reconcile.snap[k] ELSE 0
  BY DEF ApplySnapshotRows
<1> SUFFICES ASSUME NEW k \in Keys
             PROVE IF scope'.cache[k] # Unpublished
                   THEN \/ reconcile.snap[k] <= scope'.cache[k]
                        \/ reconcile.snap[k] <= skipped'[k]
                   ELSE reconcile.snap[k] > 0 =>
                          /\ acked[k] = 0
                          /\ \A w \in Writers :
                               writers[w].key = k
                               /\ writers[w].pc \in {"written", "resolved"} =>
                                 writers[w].rev > reconcile.snap[k]
  BY <1>1 DEF Applied
<1>4. CASE k \in registry /\ reconcile.snap[k] > 0 /\ Untouched(k)
  BY <1>2, <1>4, Typed, LargerOf
<1>5. CASE k \in registry /\ ~Untouched(k)
  <2>1. scope.cache[k] # Unpublished /\ scope'.cache[k] = scope.cache[k]
    BY <1>2, <1>5 DEF Boot, Touched, Untouched
  <2> QED
    BY <1>3, <1>5, <2>1, Typed
<1>6. CASE k \in registry /\ reconcile.snap[k] = 0 /\ Untouched(k)
  <2>1. scope'.cache[k] = scope.cache[k]
    BY <1>2, <1>6
  <2> QED
    BY <1>6, <2>1, Typed
<1>7. CASE k \notin registry
  <2>1. scope'.cache[k] = Unpublished /\ acked[k] = 0
    BY <1>2, <1>7 DEF Boot, Registered
  <2>2. \A w \in Writers : writers[w].pc \in {"written", "resolved"} => writers[w].key # k
    BY <1>7 DEF Boot, Registered
  <2> QED
    BY <2>1, <2>2
<1> QED
  BY <1>4, <1>5, <1>6, <1>7, Typed

(* ApplyAbsentKeys makes the scope fresh: the window and the photograph    *)
(* together hold every acknowledgement.                                    *)
LEMMA AbsentConfirmed ==
  ASSUME Boot, Reads, ApplyAbsentKeys
  PROVE  Confirmed'
<1> USE DEF Reads
<1>1. /\ UNCHANGED <<registry, writers, acked, skipped>>
      /\ scope'.id = scope.id /\ reconcile.pc = "rows"
  BY Parts DEF ApplyAbsentKeys, history, Boot, Held, Scope
<1>2. \A k \in Keys : scope'.cache[k] = IF k \in registry /\ reconcile.snap[k] = 0 /\ Untouched(k)
                                        THEN 0 ELSE scope.cache[k]
  BY Parts DEF ApplyAbsentKeys, Boot, Held, Scope
<1>3. ASSUME NEW k \in Keys PROVE Covered(k, acked[k])'
  <2>1. \/ acked[k] <= reconcile.snap[k]
        \/ k \in reconcile.touched /\ acked[k] <= scope.cache[k]
    BY <1>1 DEF Photograph, Listed
  <2>2. CASE acked[k] = 0
    BY <1>1, <2>2 DEF Covered
  <2>3. CASE acked[k] > 0 /\ acked[k] <= reconcile.snap[k]
    <3>1. reconcile.snap[k] > 0 /\ scope'.cache[k] = scope.cache[k]
      BY <1>2, <2>3, Typed
    <3>2. scope.cache[k] # Unpublished
          /\ (reconcile.snap[k] <= scope.cache[k] \/ reconcile.snap[k] <= skipped[k])
      BY <1>1, <2>3, <3>1, Typed DEF Applied
    <3>3. acked[k] <= scope.cache[k] \/ acked[k] <= skipped[k]
      BY <2>3, <3>2, Typed
    <3> QED
      BY <1>1, <3>1, <3>2, <3>3 DEF Covered
  <2>4. CASE acked[k] > 0 /\ k \in reconcile.touched /\ acked[k] <= scope.cache[k]
    <3>1. scope'.cache[k] = scope.cache[k] /\ scope.cache[k] # Unpublished
      BY <1>2, <2>4, Typed DEF Untouched
    <3> QED
      BY <1>1, <2>4, <3>1 DEF Covered
  <2> QED
    BY <2>1, <2>2, <2>3, <2>4, Typed
<1>4. ASSUME NEW w \in Writers, Elsewhere(w)
      PROVE Covered(writers[w].key, writers[w].rev)'
  <2>1. writers[w].rev <= reconcile.snap[writers[w].key]
    BY <1>1, <1>4 DEF Photograph, Listed
  <2>2. writers[w].rev > 0 /\ writers[w].pc = "resolved"
    BY <1>4 DEF Revised, Elsewhere
  <2>3. /\ reconcile.snap[writers[w].key] > 0
        /\ scope'.cache[writers[w].key] = scope.cache[writers[w].key]
    BY <1>2, <2>1, <2>2, Typed
  <2>4. scope.cache[writers[w].key] # Unpublished
    BY <1>1, <2>1, <2>2, <2>3, Typed DEF Applied
  <2>5. \/ reconcile.snap[writers[w].key] <= scope.cache[writers[w].key]
        \/ reconcile.snap[writers[w].key] <= skipped[writers[w].key]
    BY <1>1, <2>4, Typed DEF Applied
  <2>6. \/ writers[w].rev <= scope.cache[writers[w].key]
        \/ writers[w].rev <= skipped[writers[w].key]
    BY <2>1, <2>5, Typed
  <2> QED
    BY <1>1, <2>3, <2>4, <2>6 DEF Covered
<1> QED
  BY <1>1, <1>3, <1>4 DEF Confirmed, Elsewhere

(* No step is ahead of the store. *)
LEMMA RevisedStep == ASSUME Boot, Reads, Next PROVE Revised'
<1> USE Numbers, Parts DEF Boot, Flags, Held, Stored, Scope, Reconcile, Writer,
        Revisions, lifecycle, bounds, stored, history, Reads, Revised
<1>1. ASSUME NEW k \in Keys, Register(k) PROVE Revised'
  BY <1>1 DEF Register, NoReconcile, NoWrite
<1>2. ASSUME NEW k \in Keys, Refresh(k) PROVE Revised'
  BY <1>2 DEF Refresh, Record, NoReconcile, NoWrite
<1>3. ASSUME NEW k \in Keys, RemoteWrite(k) PROVE Revised'
  BY <1>3 DEF RemoteWrite, Commit, NoReconcile, NoWrite
<1>4. ASSUME Activate PROVE Revised'
  BY <1>4 DEF Activate, TrackNewScope, NoReconcile, NoWrite
<1>5. ASSUME DropTenant PROVE Revised'
  BY <1>5 DEF DropTenant, DropScope, NoReconcile, NoWrite
<1>6. ASSUME StartBegins PROVE Revised'
  BY <1>6 DEF StartBegins, NoReconcile, NoWrite
<1>7. ASSUME ContextEnds PROVE Revised'
  BY <1>7 DEF ContextEnds, NoReconcile, NoWrite
<1>8. ASSUME StoreStarts PROVE Revised'
  BY <1>8 DEF StoreStarts, NoReconcile, NoWrite
<1>9. ASSUME StartBringsUp PROVE Revised'
  BY <1>9 DEF StartBringsUp, TrackNewScope, FailedScope, NoReconcile, NoWrite
<1>10. ASSUME StartReturns PROVE Revised'
  BY <1>10 DEF StartReturns, RollBack, NoReconcile, NoWrite
<1>11. ASSUME Subscribe PROVE Revised'
  BY <1>11 DEF Subscribe, NoReconcile, NoWrite
<1>12. ASSUME SubscribeFails PROVE Revised'
  BY <1>12 DEF SubscribeFails, DropScope, RollBack, NoReconcile, NoWrite
<1>13. ASSUME Resync PROVE Revised'
  BY <1>13 DEF Resync, NoReconcile, NoWrite
<1>14. ASSUME Disconnect PROVE Revised'
  BY <1>14 DEF Disconnect, NoReconcile, NoWrite
<1>15. ASSUME ListFails PROVE Revised'
  BY <1>15 DEF ListFails, Finish, NoReconcile, NoWrite
<1>16. ASSUME List PROVE Revised'
  BY <1>16 DEF List, NoReconcile, NoWrite
<1>17. ASSUME ApplySnapshotRows PROVE Revised'
  BY <1>17 DEF ApplySnapshotRows, Larger, Untouched, NoReconcile, NoWrite
<1>18. ASSUME ApplyAbsentKeys PROVE Revised'
  BY <1>18 DEF ApplyAbsentKeys, Finish, Untouched, NoReconcile, NoWrite
<1>19. ASSUME NEW w \in Writers, NEW k \in Keys, SetBegins(w, k) PROVE Revised'
  BY <1>19 DEF SetBegins, Move, NoReconcile, NoWrite
<1>20. ASSUME NEW w \in Writers, SetWrites(w) PROVE Revised'
  BY <1>20, WritesReads
<1>21. ASSUME NEW w \in Writers, SetResolves(w) PROVE Revised'
  BY <1>21, ResolvesReads
<1>22. ASSUME NEW w \in Writers, SetPublishes(w) PROVE Revised'
  BY <1>22 DEF SetPublishes, Move, Ack, Larger, Record, NoReconcile, NoWrite
<1>23. ASSUME CloseAsks PROVE Revised'
  BY <1>23 DEF CloseAsks, NoReconcile, NoWrite
<1>24. ASSUME CloseTakesLock PROVE Revised'
  BY <1>24 DEF CloseTakesLock, NoReconcile, NoWrite
<1>25. ASSUME EngineCloses PROVE Revised'
  BY <1>25 DEF EngineCloses, NoReconcile, NoWrite
<1>26. ASSUME StoreCloses PROVE Revised'
  BY <1>26 DEF StoreCloses, NoReconcile, NoWrite
<1>27. ASSUME AtRest PROVE Revised'
  BY <1>27 DEF AtRest, vars, NoReconcile, NoWrite
<1> QED
  BY <1>1, <1>2, <1>3, <1>4, <1>5, <1>6, <1>7, <1>8, <1>9, <1>10, <1>11, <1>12, <1>13,
     <1>14,
     <1>15, <1>16, <1>17, <1>18, <1>19, <1>20, <1>21, <1>22, <1>23, <1>24, <1>25, <1>26, <1>27
  DEF Next, StartSteps, WorkerSteps, CloseSteps

(* A connection lost or not yet resynced shows in the scope. *)
LEMMA StalenessStep == ASSUME Boot, Reads, Next PROVE Staleness'
<1> USE Numbers, Parts DEF Boot, Flags, Held, Stored, Scope, Reconcile, Writer,
        Revisions, lifecycle, bounds, stored, history, Reads, Touched, Staleness,
        Reconciling
<1>1. ASSUME NEW k \in Keys, Register(k) PROVE Staleness'
  BY <1>1 DEF Register, NoReconcile, NewScope
<1>2. ASSUME NEW k \in Keys, Refresh(k) PROVE Staleness'
  BY <1>2 DEF Refresh, Record, NoReconcile, NewScope
<1>3. ASSUME NEW k \in Keys, RemoteWrite(k) PROVE Staleness'
  BY <1>3 DEF RemoteWrite, Commit, NoReconcile, NewScope
<1>4. ASSUME Activate PROVE Staleness'
  BY <1>4 DEF Activate, TrackNewScope, NoReconcile, NewScope
<1>5. ASSUME DropTenant PROVE Staleness'
  BY <1>5 DEF DropTenant, DropScope, NoReconcile, NewScope
<1>6. ASSUME StartBegins PROVE Staleness'
  BY <1>6 DEF StartBegins, NoReconcile, NewScope
<1>7. ASSUME ContextEnds PROVE Staleness'
  BY <1>7 DEF ContextEnds, NoReconcile, NewScope
<1>8. ASSUME StoreStarts PROVE Staleness'
  BY <1>8 DEF StoreStarts, NoReconcile, NewScope
<1>9. ASSUME StartBringsUp PROVE Staleness'
  BY <1>9 DEF StartBringsUp, TrackNewScope, FailedScope, NoReconcile, NewScope
<1>10. ASSUME StartReturns PROVE Staleness'
  BY <1>10 DEF StartReturns, RollBack, NoReconcile, NewScope
<1>11. ASSUME Subscribe PROVE Staleness'
  BY <1>11 DEF Subscribe, NoReconcile, NewScope
<1>12. ASSUME SubscribeFails PROVE Staleness'
  BY <1>12 DEF SubscribeFails, DropScope, RollBack, NoReconcile, NewScope
<1>13. ASSUME Resync PROVE Staleness'
  BY <1>13 DEF Resync, NoReconcile, NewScope
<1>14. ASSUME Disconnect PROVE Staleness'
  BY <1>14 DEF Disconnect, NoReconcile, NewScope
<1>15. ASSUME ListFails PROVE Staleness'
  BY <1>15 DEF ListFails, Finish, NoReconcile, NewScope
<1>16. ASSUME List PROVE Staleness'
  BY <1>16 DEF List, NoReconcile, NewScope
<1>17. ASSUME ApplySnapshotRows PROVE Staleness'
  BY <1>17 DEF ApplySnapshotRows, Larger, Untouched, NoReconcile, NewScope
<1>18. ASSUME ApplyAbsentKeys PROVE Staleness'
  BY <1>18 DEF ApplyAbsentKeys, Finish, Untouched, NoReconcile, NewScope
<1>19. ASSUME NEW w \in Writers, NEW k \in Keys, SetBegins(w, k) PROVE Staleness'
  BY <1>19 DEF SetBegins, Move, NoReconcile, NewScope
<1>20. ASSUME NEW w \in Writers, SetWrites(w) PROVE Staleness'
  BY <1>20 DEF SetWrites, Move, Commit, NoReconcile, NewScope
<1>21. ASSUME NEW w \in Writers, SetResolves(w) PROVE Staleness'
  BY <1>21 DEF SetResolves, Move, Ack, Larger, NoReconcile, NewScope
<1>22. ASSUME NEW w \in Writers, SetPublishes(w) PROVE Staleness'
  BY <1>22 DEF SetPublishes, Move, Ack, Larger, Record, NoReconcile, NewScope
<1>23. ASSUME CloseAsks PROVE Staleness'
  BY <1>23 DEF CloseAsks, NoReconcile, NewScope
<1>24. ASSUME CloseTakesLock PROVE Staleness'
  BY <1>24 DEF CloseTakesLock, NoReconcile, NewScope
<1>25. ASSUME EngineCloses PROVE Staleness'
  BY <1>25 DEF EngineCloses, NoReconcile, NewScope
<1>26. ASSUME StoreCloses PROVE Staleness'
  BY <1>26 DEF StoreCloses, NoReconcile, NewScope
<1>27. ASSUME AtRest PROVE Staleness'
  BY <1>27 DEF AtRest, vars, NoReconcile, NewScope
<1> QED
  BY <1>1, <1>2, <1>3, <1>4, <1>5, <1>6, <1>7, <1>8, <1>9, <1>10, <1>11, <1>12, <1>13,
     <1>14,
     <1>15, <1>16, <1>17, <1>18, <1>19, <1>20, <1>21, <1>22, <1>23, <1>24, <1>25, <1>26, <1>27
  DEF Next, StartSteps, WorkerSteps, CloseSteps

(* What the photograph lacks is in the window. *)
LEMMA PhotographStep == ASSUME Boot, Reads, Next PROVE Photograph'
<1> USE Numbers, Parts DEF Boot, Flags, Held, Stored, Scope, Reconcile, Writer,
        Revisions, lifecycle, bounds, stored, history, Reads, Touched, Reconciling,
        Listed, Elsewhere, Photograph
<1>1. ASSUME NEW k \in Keys, Register(k) PROVE Photograph'
  BY <1>1 DEF Register, NoReconcile, NewScope, NoWrite
<1>2. ASSUME NEW k \in Keys, Refresh(k) PROVE Photograph'
  BY <1>2 DEF Refresh, Record, NoReconcile, NewScope, NoWrite
<1>3. ASSUME NEW k \in Keys, RemoteWrite(k) PROVE Photograph'
  BY <1>3 DEF RemoteWrite, Commit, NoReconcile, NewScope, NoWrite
<1>4. ASSUME Activate PROVE Photograph'
  BY <1>4 DEF Activate, TrackNewScope, NoReconcile, NewScope, NoWrite
<1>5. ASSUME DropTenant PROVE Photograph'
  BY <1>5 DEF DropTenant, DropScope, NoReconcile, NewScope, NoWrite
<1>6. ASSUME StartBegins PROVE Photograph'
  BY <1>6 DEF StartBegins, NoReconcile, NewScope, NoWrite
<1>7. ASSUME ContextEnds PROVE Photograph'
  BY <1>7 DEF ContextEnds, NoReconcile, NewScope, NoWrite
<1>8. ASSUME StoreStarts PROVE Photograph'
  BY <1>8 DEF StoreStarts, NoReconcile, NewScope, NoWrite
<1>9. ASSUME StartBringsUp PROVE Photograph'
  BY <1>9 DEF StartBringsUp, TrackNewScope, FailedScope, NoReconcile, NewScope, NoWrite
<1>10. ASSUME StartReturns PROVE Photograph'
  BY <1>10 DEF StartReturns, RollBack, NoReconcile, NewScope, NoWrite
<1>11. ASSUME Subscribe PROVE Photograph'
  BY <1>11 DEF Subscribe, NoReconcile, NewScope, NoWrite
<1>12. ASSUME SubscribeFails PROVE Photograph'
  BY <1>12 DEF SubscribeFails, DropScope, RollBack, NoReconcile, NewScope, NoWrite
<1>13. ASSUME Resync PROVE Photograph'
  BY <1>13 DEF Resync, NoReconcile, NewScope, NoWrite
<1>14. ASSUME Disconnect PROVE Photograph'
  BY <1>14 DEF Disconnect, NoReconcile, NewScope, NoWrite
<1>15. ASSUME ListFails PROVE Photograph'
  BY <1>15 DEF ListFails, Finish, NoReconcile, NewScope, NoWrite
<1>16. ASSUME List PROVE Photograph'
  BY <1>16 DEF List, Revised
<1>17. ASSUME ApplySnapshotRows PROVE Photograph'
  BY <1>17 DEF ApplySnapshotRows, Larger, Untouched, NoReconcile, NewScope, NoWrite
<1>18. ASSUME ApplyAbsentKeys PROVE Photograph'
  BY <1>18 DEF ApplyAbsentKeys, Finish, Untouched, NoReconcile, NewScope, NoWrite
<1>19. ASSUME NEW w \in Writers, NEW k \in Keys, SetBegins(w, k) PROVE Photograph'
  BY <1>19 DEF SetBegins, Move, NoReconcile, NewScope, NoWrite
<1>20. ASSUME NEW w \in Writers, SetWrites(w) PROVE Photograph'
  BY <1>20, WritesReads
<1>21. ASSUME NEW w \in Writers, SetResolves(w) PROVE Photograph'
  BY <1>21, ResolvesReads
<1>22. ASSUME NEW w \in Writers, SetPublishes(w) PROVE Photograph'
  BY <1>22, PublishesReads
<1>23. ASSUME CloseAsks PROVE Photograph'
  BY <1>23 DEF CloseAsks, NoReconcile, NewScope, NoWrite
<1>24. ASSUME CloseTakesLock PROVE Photograph'
  BY <1>24 DEF CloseTakesLock, NoReconcile, NewScope, NoWrite
<1>25. ASSUME EngineCloses PROVE Photograph'
  BY <1>25 DEF EngineCloses, NoReconcile, NewScope, NoWrite
<1>26. ASSUME StoreCloses PROVE Photograph'
  BY <1>26 DEF StoreCloses, NoReconcile, NewScope, NoWrite
<1>27. ASSUME AtRest PROVE Photograph'
  BY <1>27 DEF AtRest, vars, NoReconcile, NewScope, NoWrite
<1> QED
  BY <1>1, <1>2, <1>3, <1>4, <1>5, <1>6, <1>7, <1>8, <1>9, <1>10, <1>11, <1>12, <1>13,
     <1>14,
     <1>15, <1>16, <1>17, <1>18, <1>19, <1>20, <1>21, <1>22, <1>23, <1>24, <1>25, <1>26, <1>27
  DEF Next, StartSteps, WorkerSteps, CloseSteps

(* A row of the photograph that was not applied was passed over. *)
LEMMA AppliedStep == ASSUME Boot, Reads, Next PROVE Applied'
<1> USE Numbers, Parts DEF Boot, Flags, Held, Stored, Scope, Reconcile, Writer,
        Revisions, lifecycle, bounds, stored, history, Reads, Applied
<1>1. ASSUME NEW k \in Keys, Register(k) PROVE Applied'
  BY <1>1 DEF Register, NoReconcile, NewScope, NoWrite
<1>2. ASSUME NEW k \in Keys, Refresh(k) PROVE Applied'
  BY <1>2, RefreshApplied
<1>3. ASSUME NEW k \in Keys, RemoteWrite(k) PROVE Applied'
  BY <1>3 DEF RemoteWrite, Commit, NoReconcile, NewScope, NoWrite
<1>4. ASSUME Activate PROVE Applied'
  BY <1>4 DEF Activate, TrackNewScope, NoReconcile, NewScope, NoWrite
<1>5. ASSUME DropTenant PROVE Applied'
  BY <1>5 DEF DropTenant, DropScope, NoReconcile, NewScope, NoWrite
<1>6. ASSUME StartBegins PROVE Applied'
  BY <1>6 DEF StartBegins, NoReconcile, NewScope, NoWrite
<1>7. ASSUME ContextEnds PROVE Applied'
  BY <1>7 DEF ContextEnds, NoReconcile, NewScope, NoWrite
<1>8. ASSUME StoreStarts PROVE Applied'
  BY <1>8 DEF StoreStarts, NoReconcile, NewScope, NoWrite
<1>9. ASSUME StartBringsUp PROVE Applied'
  BY <1>9 DEF StartBringsUp, TrackNewScope, FailedScope, NoReconcile, NewScope, NoWrite
<1>10. ASSUME StartReturns PROVE Applied'
  BY <1>10 DEF StartReturns, RollBack, NoReconcile, NewScope, NoWrite
<1>11. ASSUME Subscribe PROVE Applied'
  BY <1>11 DEF Subscribe, NoReconcile, NewScope, NoWrite
<1>12. ASSUME SubscribeFails PROVE Applied'
  BY <1>12 DEF SubscribeFails, DropScope, RollBack, NoReconcile, NewScope, NoWrite
<1>13. ASSUME Resync PROVE Applied'
  BY <1>13 DEF Resync, NoReconcile, NewScope, NoWrite
<1>14. ASSUME Disconnect PROVE Applied'
  BY <1>14 DEF Disconnect, NoReconcile, NewScope, NoWrite
<1>15. ASSUME ListFails PROVE Applied'
  BY <1>15 DEF ListFails, Finish, NoReconcile, NewScope, NoWrite
<1>16. ASSUME List PROVE Applied'
  BY <1>16 DEF List, NoReconcile, NewScope, NoWrite
<1>17. ASSUME ApplySnapshotRows PROVE Applied'
  BY <1>17, RowsApplied
<1>18. ASSUME ApplyAbsentKeys PROVE Applied'
  BY <1>18 DEF ApplyAbsentKeys, Finish, Untouched, NoReconcile, NewScope, NoWrite
<1>19. ASSUME NEW w \in Writers, NEW k \in Keys, SetBegins(w, k) PROVE Applied'
  BY <1>19 DEF SetBegins, Move, NoReconcile, NewScope, NoWrite
<1>20. ASSUME NEW w \in Writers, SetWrites(w) PROVE Applied'
  BY <1>20, WritesReads
<1>21. ASSUME NEW w \in Writers, SetResolves(w) PROVE Applied'
  BY <1>21, ResolvesReads
<1>22. ASSUME NEW w \in Writers, SetPublishes(w) PROVE Applied'
  BY <1>22, PublishesReads
<1>23. ASSUME CloseAsks PROVE Applied'
  BY <1>23 DEF CloseAsks, NoReconcile, NewScope, NoWrite
<1>24. ASSUME CloseTakesLock PROVE Applied'
  BY <1>24 DEF CloseTakesLock, NoReconcile, NewScope, NoWrite
<1>25. ASSUME EngineCloses PROVE Applied'
  BY <1>25 DEF EngineCloses, NoReconcile, NewScope, NoWrite
<1>26. ASSUME StoreCloses PROVE Applied'
  BY <1>26 DEF StoreCloses, NoReconcile, NewScope, NoWrite
<1>27. ASSUME AtRest PROVE Applied'
  BY <1>27 DEF AtRest, vars, NoReconcile, NewScope, NoWrite
<1> QED
  BY <1>1, <1>2, <1>3, <1>4, <1>5, <1>6, <1>7, <1>8, <1>9, <1>10, <1>11, <1>12, <1>13,
     <1>14,
     <1>15, <1>16, <1>17, <1>18, <1>19, <1>20, <1>21, <1>22, <1>23, <1>24, <1>25, <1>26, <1>27
  DEF Next, StartSteps, WorkerSteps, CloseSteps

(* A fresh scope covers every acknowledgement. *)
LEMMA ConfirmedStep == ASSUME Boot, Reads, Next PROVE Confirmed'
<1> USE Numbers, Parts DEF Boot, Flags, Held, Stored, Scope, Reconcile, Writer,
        Revisions, lifecycle, bounds, stored, history, Reads, Staleness, Reconciling,
        Covered, Elsewhere, Confirmed
<1>1. ASSUME NEW k \in Keys, Register(k) PROVE Confirmed'
  BY <1>1 DEF Register, NewScope, NoWrite
<1>2. ASSUME NEW k \in Keys, Refresh(k) PROVE Confirmed'
  BY <1>2 DEF Refresh, Record, NewScope, NoWrite
<1>3. ASSUME NEW k \in Keys, RemoteWrite(k) PROVE Confirmed'
  BY <1>3 DEF RemoteWrite, Commit, NewScope, NoWrite
<1>4. ASSUME Activate PROVE Confirmed'
  BY <1>4 DEF Activate, TrackNewScope, NewScope, NoWrite
<1>5. ASSUME DropTenant PROVE Confirmed'
  BY <1>5 DEF DropTenant, DropScope, NewScope, NoWrite
<1>6. ASSUME StartBegins PROVE Confirmed'
  BY <1>6 DEF StartBegins, NewScope, NoWrite
<1>7. ASSUME ContextEnds PROVE Confirmed'
  BY <1>7 DEF ContextEnds, NewScope, NoWrite
<1>8. ASSUME StoreStarts PROVE Confirmed'
  BY <1>8 DEF StoreStarts, NewScope, NoWrite
<1>9. ASSUME StartBringsUp PROVE Confirmed'
  BY <1>9 DEF StartBringsUp, TrackNewScope, FailedScope, NewScope, NoWrite
<1>10. ASSUME StartReturns PROVE Confirmed'
  BY <1>10 DEF StartReturns, RollBack, NewScope, NoWrite
<1>11. ASSUME Subscribe PROVE Confirmed'
  BY <1>11 DEF Subscribe, NewScope, NoWrite
<1>12. ASSUME SubscribeFails PROVE Confirmed'
  BY <1>12 DEF SubscribeFails, DropScope, RollBack, NewScope, NoWrite
<1>13. ASSUME Resync PROVE Confirmed'
  BY <1>13 DEF Resync, NewScope, NoWrite
<1>14. ASSUME Disconnect PROVE Confirmed'
  BY <1>14 DEF Disconnect, NewScope, NoWrite
<1>15. ASSUME ListFails PROVE Confirmed'
  BY <1>15 DEF ListFails, Finish, NewScope, NoWrite
<1>16. ASSUME List PROVE Confirmed'
  BY <1>16 DEF List, NewScope, NoWrite
<1>17. ASSUME ApplySnapshotRows PROVE Confirmed'
  BY <1>17 DEF ApplySnapshotRows, Larger, Untouched, NewScope, NoWrite
<1>18. ASSUME ApplyAbsentKeys PROVE Confirmed'
  BY <1>18, AbsentConfirmed
<1>19. ASSUME NEW w \in Writers, NEW k \in Keys, SetBegins(w, k) PROVE Confirmed'
  BY <1>19 DEF SetBegins, Move, NewScope, NoWrite
<1>20. ASSUME NEW w \in Writers, SetWrites(w) PROVE Confirmed'
  BY <1>20, WritesReads
<1>21. ASSUME NEW w \in Writers, SetResolves(w) PROVE Confirmed'
  BY <1>21, ResolvesReads
<1>22. ASSUME NEW w \in Writers, SetPublishes(w) PROVE Confirmed'
  BY <1>22, PublishesReads
<1>23. ASSUME CloseAsks PROVE Confirmed'
  BY <1>23 DEF CloseAsks, NewScope, NoWrite
<1>24. ASSUME CloseTakesLock PROVE Confirmed'
  BY <1>24 DEF CloseTakesLock, NewScope, NoWrite
<1>25. ASSUME EngineCloses PROVE Confirmed'
  BY <1>25 DEF EngineCloses, NewScope, NoWrite
<1>26. ASSUME StoreCloses PROVE Confirmed'
  BY <1>26 DEF StoreCloses, NewScope, NoWrite
<1>27. ASSUME AtRest PROVE Confirmed'
  BY <1>27 DEF AtRest, vars, NewScope, NoWrite
<1> QED
  BY <1>1, <1>2, <1>3, <1>4, <1>5, <1>6, <1>7, <1>8, <1>9, <1>10, <1>11, <1>12, <1>13,
     <1>14,
     <1>15, <1>16, <1>17, <1>18, <1>19, <1>20, <1>21, <1>22, <1>23, <1>24, <1>25, <1>26, <1>27
  DEF Next, StartSteps, WorkerSteps, CloseSteps

(* A new Client has nothing to confirm. *)
LEMMA InitReads == Init => Reads
<1> SUFFICES ASSUME Init PROVE Reads
  OBVIOUS
<1>1. ~scope.tracked /\ scope.stale
  BY DEF Init, NewScope
<1>2. Revised
  BY DEF Init, Revised, NoReconcile, NoWrite
<1>3. reconcile.pc = "idle"
  BY DEF Init, NoReconcile
<1> QED
  BY <1>1, <1>2, <1>3
  DEF Reads, Staleness, Reconciling, Photograph, Listed, Applied, Confirmed

(* Every step of Next, or none, keeps the account of the reads. *)
LEMMA ReadsStep == Boot /\ Reads /\ [Next]_vars => Reads'
<1> SUFFICES ASSUME Boot, Reads, [Next]_vars PROVE Reads'
  OBVIOUS
<1>1. CASE Next
  BY <1>1, RevisedStep, StalenessStep, PhotographStep, AppliedStep, ConfirmedStep DEF Reads
<1>2. CASE UNCHANGED vars
  BY <1>2 DEF vars, Reads, Revised, Staleness, Reconciling, Photograph, Listed,
              Elsewhere, Applied, Confirmed, Covered
<1> QED
  BY <1>1, <1>2

(* The photograph, the window and the rows passed over account for every   *)
(* acknowledged write between a resync and the scope turning fresh.        *)
THEOREM ReadsHold == Spec => []Reads
BY InitReads, ReadsStep, BootHolds, PTL DEF Spec

(* A read that is not marked stale is never older than a Set that returned *)
(* nil before it, in this process, unless the last reconcile passed over a *)
(* newer row for an older write published in its window.                   *)
THEOREM ReadsAreConfirmed == Spec => []ConfirmedReads
<1>1. ASSUME Boot, Reads, NEW k \in registry, FreshAndOlder(k)
      PROVE Hit(k) /\ scope.cache[k] < skipped[k]
  <2>1. k \in Keys /\ multiTenant \in BOOLEAN
    BY <1>1, Parts DEF Boot, Flags
  <2>2. Hit(k)
    <3> SUFFICES ASSUME ~Hit(k) PROVE FALSE
      OBVIOUS
    <3>1. CASE multiTenant
      <4>1. Served(k) = [rev |-> rows[k], stale |-> FALSE]
        BY <3>1 DEF Served
      <4>2. rows[k] < acked[k]
        BY <1>1, <4>1 DEF FreshAndOlder
      <4> QED
        BY <1>1, <2>1, <4>2, Typed DEF Reads, Revised
    <3>2. CASE ~multiTenant
      <4>1. Served(k) = [rev |-> 0, stale |-> TRUE]
        BY <3>2 DEF Served
      <4> QED
        BY <1>1, <4>1 DEF FreshAndOlder
    <3> QED
      BY <3>1, <3>2
  <2>3. Served(k) = [rev |-> scope.cache[k], stale |-> scope.stale]
    BY <2>2 DEF Served
  <2>4. ~scope.stale /\ scope.cache[k] < acked[k]
    BY <1>1, <2>3 DEF FreshAndOlder
  <2>5. Covered(k, acked[k]) /\ scope.cache[k] # Unpublished
    BY <1>1, <2>1, <2>2, <2>4 DEF Reads, Confirmed, Hit
  <2> QED
    BY <1>1, <2>1, <2>2, <2>4, <2>5, Typed DEF Covered
<1>2. Boot /\ Reads => ConfirmedReads
  BY <1>1 DEF ConfirmedReads
<1> QED
  BY <1>2, BootHolds, ReadsHold, PTL
=============================================================================
