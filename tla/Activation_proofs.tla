-------------------------- MODULE Activation_proofs --------------------------
(***************************************************************************)
(* What holds of Activation for any number of builds, events and faults.   *)
(***************************************************************************)
EXTENDS Activation, TLAPS, FiniteSetTheorems

(* Close has taken down the feed of the scope in the map. *)
Unsubscribed == closing \in {"unsubscribed", "waiting", "drained", "timeout"}

(* The scope states to be found in the map. *)
Mapped == {tracked} \ {0}

(* Where the scope, its handle and its feed are, by where the holder is.   *)
(* Only the holder creates and drops: a feed is either the one it has just *)
(* opened, or owned by the handle of the scope in the map, or by the       *)
(* handle of the scope the holder has taken out of the map.                *)
Building ==
  /\ holder.pc \in {"resolve", "decide"} => tracked = 0 /\ handle = {} /\ feeds = {}
  /\ holder.pc \in {"subscribe", "store", "await"} => tracked = holder.sc /\ tracked # 0
  /\ holder.pc \in {"subscribe", "store"} => handle = {}
  /\ holder.pc = "subscribe" => feeds = {}
  /\ holder.pc = "store" => feeds = {tracked}

Standing ==
  /\ holder.pc \in {"none", "release", "await"} => handle = Mapped
  /\ holder.pc = "unmap" => handle \subseteq Mapped
  /\ holder.pc \in {"none", "release", "await", "unmap"} =>
       feeds = IF Unsubscribed THEN {} ELSE handle

Dropping ==
  /\ holder.pc = "unsubscribe" => tracked = 0 /\ handle \subseteq {holder.sc} /\ feeds \subseteq handle
  /\ holder.pc \in {"unmap", "unsubscribe"} => holder.then \in {"release", "decide"}

(* A holder nobody has superseded builds for a tenant that is not blocked, *)
(* with the credentials in force.                                          *)
Current ==
  ~Closed /\ slot # "superseded" =>
    /\ holder.pc \in {"resolve", "subscribe"} => ~blocked
    /\ holder.pc \in {"none", "release", "store", "await"} /\ tracked # 0 =>
         ~blocked /\ openedWith[tracked] = creds

(* Once Close has waited for the workers there is no holder any more. *)
Drained == closing = "drained" => holder.pc = "none"

Inv == TypeOK /\ Building /\ Standing /\ Dropping /\ Current /\ Drained

(* The record the holder is. *)
HolderType == [pc : {"none", "resolve", "subscribe", "store", "await", "release",
                     "unmap", "unsubscribe", "decide"},
               sc : States \cup {0}, up : BOOLEAN, then : {"none", "release", "decide"}]

(* Init. *)
LEMMA InitInv == Init => Inv
<1> SUFFICES ASSUME Init PROVE Inv
  OBVIOUS
<1>1. NoHolder \in HolderType
  BY DEF NoHolder, HolderType
<1>2. TypeOK
  <2>1. holder \in HolderType /\ (slot = "free" <=> holder.pc = "none")
    BY <1>1 DEF Init, NoHolder
  <2>2. builds \in 0 .. MaxBuilds
    BY BoundsAssumption DEF Init
  <2> QED BY <2>1, <2>2 DEF Init, TypeOK, HolderType
<1>3. Building /\ Standing /\ Dropping /\ Current /\ Drained
  BY DEF Init, Building, Standing, Dropping, Current, Drained, Mapped, NoHolder
<1> QED BY <1>2, <1>3 DEF Inv

(* Reads and lifecycle events: what they do to the slot and the holder. *)
LEMMA VerbInv ==
  ASSUME Inv, Activate \/ Block \/ Unblock \/ Reactivate \/ CoolDown
  PROVE  Inv'
<1>1. TypeOK /\ holder \in HolderType
  BY DEF Inv, TypeOK, HolderType
<1>2. UNCHANGED <<scopeVars, closing, builds, faults, openedWith>>
  BY DEF Activate, Block, Unblock, Reactivate, CoolDown, countVars, historyVars
<1>3. /\ blocked' \in BOOLEAN /\ cooling' \in BOOLEAN
      /\ events' \in Nat /\ creds' \in Nat
  <2>1. blocked \in BOOLEAN /\ cooling \in BOOLEAN /\ events \in Nat /\ creds \in Nat
    BY <1>1 DEF TypeOK
  <2>2. /\ blocked' \in {blocked, TRUE, FALSE} /\ cooling' \in {cooling, FALSE}
        /\ events' \in {events, events + 1} /\ creds' \in {creds, creds + 1}
    BY DEF Activate, Block, Unblock, Reactivate, CoolDown, countVars, historyVars, verbVars
  <2>3. blocked' \in BOOLEAN /\ cooling' \in BOOLEAN
    BY <2>1, <2>2, Zenon
  <2>4. events' \in Nat /\ creds' \in Nat
    BY <2>1, <2>2
  <2> QED BY <2>3, <2>4
<1>4. \/ UNCHANGED <<slot, holder>>
      \/ slot # "free" /\ slot' = "superseded" /\ UNCHANGED holder
      \/ /\ slot = "free" /\ slot' = "superseded" /\ tracked # 0 /\ ~WorkersClosed
         /\ holder' = [NoHolder EXCEPT !.pc = "release"]
      \/ /\ slot = "free" /\ slot' = "held" /\ ~blocked /\ tracked = 0 /\ blocked' = blocked
         /\ ~Closed /\ ~WorkersClosed /\ holder' = [NoHolder EXCEPT !.pc = "resolve"]
  BY DEF Activate, Block, Unblock, Reactivate, CoolDown, MayActivate, Supersede,
         LaunchActivation, verbVars
<1>5. /\ holder' \in HolderType
      /\ slot' \in {"free", "held", "superseded"}
      /\ slot' = "free" <=> holder'.pc = "none"
  BY <1>1, <1>4 DEF TypeOK, HolderType, NoHolder
<1>6. TypeOK'
  BY <1>1, <1>2, <1>3, <1>5 DEF TypeOK, HolderType, scopeVars
<1>7. Building' /\ Standing' /\ Dropping' /\ Drained'
  BY <1>1, <1>2, <1>4 DEF Inv, TypeOK, Building, Standing, Dropping, Drained, Mapped,
       Unsubscribed, WorkersClosed, scopeVars, NoHolder
<1>8. Current'
  <2> SUFFICES ASSUME ~Closed, slot' # "superseded" PROVE Current'
    BY <1>2 DEF Current, Closed
  <2>1. WorkersClosed = FALSE
    BY DEF WorkersClosed, Closed
  <2>2. CASE Activate
    BY <1>2, <2>2, <2>1 DEF Inv, Current, Activate, MayActivate, LaunchActivation, Closed,
         verbVars, historyVars, scopeVars, NoHolder
  <2>3. CASE Block
    BY <1>1, <1>2, <2>1, <2>3 DEF Inv, TypeOK, Current, Block, Supersede, LaunchActivation, Closed,
         historyVars, scopeVars, NoHolder
  <2>4. CASE Unblock \/ CoolDown
    BY <1>2, <2>4 DEF Inv, Current, Unblock, CoolDown, Closed, historyVars, scopeVars
  <2>5. CASE Reactivate
    BY <1>1, <1>2, <2>1, <2>5 DEF Inv, TypeOK, Current, Reactivate, Supersede, LaunchActivation,
         Closed, scopeVars, NoHolder
  <2> QED BY <2>2, <2>3, <2>4, <2>5
<1> QED BY <1>6, <1>7, <1>8 DEF Inv

(* The holder building a scope. *)
LEMMA BuildInv ==
  ASSUME Inv, Resolve \/ Subscribe \/ SubscribeFails \/ StoreHandle \/ AwaitFirstReconcile
  PROVE  Inv'
<1>1. TypeOK /\ holder \in HolderType
  BY DEF Inv, TypeOK, HolderType
<1>2. CASE Resolve
  <2>1. builds' \in 0 .. MaxBuilds /\ tracked' \in States \cup {0} /\ holder' \in HolderType
        /\ holder'.pc # "none" /\ holder.pc # "none"
    <3>1. CASE Closed
      <4>1. holder' = Drop("release", FALSE) /\ holder.pc = "resolve" /\ UNCHANGED <<tracked, builds>>
        BY <1>2, <3>1 DEF Resolve
      <4>2. holder' \in HolderType /\ holder'.pc # "none" /\ holder.pc # "none"
        BY <1>1, <4>1 DEF HolderType, Drop
      <4> QED BY <1>1, <4>1, <4>2 DEF TypeOK
    <3>2. CASE ~Closed
      <4>1. builds \in Nat /\ builds < MaxBuilds /\ MaxBuilds \in Nat
        BY <1>1, <1>2, <3>2, BoundsAssumption DEF Resolve, TypeOK
      <4>2. builds + 1 \in States /\ builds + 1 \in 0 .. MaxBuilds
        BY <4>1 DEF States
      <4> QED BY <1>1, <1>2, <3>2, <4>2 DEF Resolve, HolderType
    <3> QED BY <3>1, <3>2
  <2>2. TypeOK'
    BY <1>1, <1>2, <2>1 DEF Resolve, TypeOK, HolderType, verbVars, historyVars
  <2>3. Building' /\ Standing' /\ Dropping'
    <3>1. holder.pc = "resolve" /\ tracked = 0 /\ handle = {} /\ feeds = {}
          /\ UNCHANGED <<handle, feeds, closing>>
      BY <1>2 DEF Resolve, Inv, Building
    <3>2. CASE Closed
      BY <1>1, <1>2, <3>1, <3>2 DEF Resolve, HolderType, Building, Standing, Dropping, Mapped, Drop
    <3>3. CASE ~Closed
      <4>1. tracked' = builds + 1 /\ holder' = [holder EXCEPT !.pc = "subscribe", !.sc = builds + 1]
            /\ builds + 1 # 0
        BY <1>1, <1>2, <3>3 DEF Resolve, TypeOK
      <4> QED BY <1>1, <3>1, <4>1 DEF HolderType, Building, Standing, Dropping
    <3> QED BY <3>2, <3>3
  <2>4. Current' /\ Drained'
    BY <1>1, <1>2 DEF Resolve, Inv, HolderType, Current, Drained, Closed, Drop, verbVars, historyVars
  <2> QED BY <2>2, <2>3, <2>4 DEF Inv
<1>3. CASE Subscribe
  <2>1. holder.sc = tracked /\ tracked \in States /\ feeds = {} /\ handle = {}
    BY <1>1, <1>3 DEF Subscribe, Inv, Building, TypeOK
  <2>2. holder' \in HolderType /\ holder' = [holder EXCEPT !.pc = "store"] /\ holder.pc = "subscribe"
    BY <1>1, <1>3 DEF Subscribe, HolderType
  <2>3. TypeOK'
    BY <1>1, <1>3, <2>1, <2>2 DEF Subscribe, TypeOK, HolderType, verbVars, countVars
  <2>4. Building' /\ Standing' /\ Dropping'
    BY <1>1, <1>3, <2>1, <2>2 DEF Subscribe, Inv, HolderType, Building, Standing, Dropping
  <2>5. Current' /\ Drained'
    BY <1>1, <1>3, <2>1, <2>2 DEF Subscribe, Inv, TypeOK, HolderType, Current, Drained, Closed, verbVars
  <2> QED BY <2>3, <2>4, <2>5 DEF Inv
<1>4. CASE SubscribeFails
  <2>1. holder' \in HolderType /\ holder' = Drop("release", FALSE) /\ holder.pc = "subscribe"
    BY <1>1, <1>4 DEF SubscribeFails, HolderType, Drop
  <2>2. TypeOK'
    BY <1>1, <1>4, <2>1 DEF SubscribeFails, TypeOK, HolderType, Drop, verbVars, scopeVars, historyVars
  <2>3. Building' /\ Standing' /\ Dropping' /\ Current' /\ Drained'
    BY <1>1, <1>4, <2>1 DEF SubscribeFails, Inv, HolderType, Building, Standing, Dropping, Current, Drained,
         Mapped, Unsubscribed, Closed, Drop, verbVars, scopeVars, historyVars
  <2> QED BY <2>2, <2>3 DEF Inv
<1>5. CASE StoreHandle
  <2>1. holder.sc = tracked /\ tracked \in States /\ feeds = {tracked} /\ handle = {} /\ holder.pc = "store"
    BY <1>1, <1>5 DEF StoreHandle, Inv, Building, TypeOK
  <2>2. holder' \in HolderType /\ holder'.pc # "none"
    BY <1>1, <1>5 DEF StoreHandle, HolderType, Drop
  <2>3. TypeOK'
    BY <1>1, <1>5, <2>1, <2>2 DEF StoreHandle, TypeOK, HolderType, verbVars, countVars, historyVars
  <2>4. Building' /\ Standing' /\ Dropping'
    <3>1. CASE Closed
      BY <1>1, <1>5, <2>1, <3>1 DEF StoreHandle, HolderType, Building, Standing, Dropping, Drop
    <3>2. CASE ~Closed
      <4>1. 0 \notin States
        BY DEF States
      <4>2. handle' = {tracked} /\ feeds' = {tracked} /\ UNCHANGED <<tracked, closing>>
            /\ holder' = [holder EXCEPT !.pc = "await"] /\ ~Unsubscribed
        BY <1>5, <2>1, <3>2 DEF StoreHandle, Unsubscribed, Closed
      <4> QED BY <1>1, <2>1, <4>1, <4>2 DEF HolderType, Building, Standing, Dropping, Mapped,
                   Unsubscribed
    <3> QED BY <3>1, <3>2
  <2>5. Current' /\ Drained'
    BY <1>1, <1>5, <2>1 DEF StoreHandle, Inv, HolderType, Current, Drained, Closed, Drop, verbVars, historyVars
  <2> QED BY <2>3, <2>4, <2>5 DEF Inv
<1>6. CASE AwaitFirstReconcile
  <2>1. /\ holder.pc = "await"
        /\ \/ holder' = Drop("release", FALSE)
           \/ \E up \in BOOLEAN : holder' = [holder EXCEPT !.pc = "release", !.up = up]
    BY <1>6 DEF AwaitFirstReconcile
  <2>2. holder' \in HolderType /\ holder'.pc # "none"
    BY <1>1, <2>1 DEF HolderType, Drop
  <2>3. TypeOK'
    BY <1>1, <1>6, <2>1, <2>2 DEF AwaitFirstReconcile, TypeOK, HolderType, verbVars, scopeVars,
         countVars, historyVars
  <2>4. Building' /\ Standing' /\ Dropping' /\ Current' /\ Drained'
    BY <1>1, <1>6, <2>1 DEF AwaitFirstReconcile, Inv, HolderType, Building, Standing, Dropping,
         Current, Drained, Mapped, Unsubscribed, Closed, Drop, verbVars, scopeVars, historyVars
  <2> QED BY <2>3, <2>4 DEF Inv
<1> QED BY <1>2, <1>3, <1>4, <1>5, <1>6

(* The holder dropping a scope, letting go and building again. *)
LEMMA DropInv ==
  ASSUME Inv, Unmap \/ Unsubscribe \/ ReleaseActivation \/ Decide
  PROVE  Inv'
<1>1. TypeOK /\ holder \in HolderType
  BY DEF Inv, TypeOK, HolderType
<1>2. CASE Unmap
  <2>1. holder.pc = "unmap" /\ holder.then \in {"release", "decide"}
    BY <1>2 DEF Unmap, Inv, Dropping
  <2>2. holder' \in HolderType /\ holder'.pc # "none"
    BY <1>1, <1>2, <2>1 DEF Unmap, HolderType, TypeOK
  <2>3. TypeOK'
    BY <1>1, <1>2, <2>1, <2>2 DEF Unmap, TypeOK, HolderType, verbVars, countVars, historyVars
  <2>4. handle \subseteq Mapped /\ feeds \subseteq handle
    BY <2>1 DEF Inv, Standing
  <2>5. Building' /\ Standing' /\ Dropping' /\ Current' /\ Drained'
    BY <1>1, <1>2, <2>1, <2>4 DEF Inv, Unmap, HolderType, Building, Standing, Dropping, Current, Drained,
         Mapped, Unsubscribed
  <2> QED BY <2>3, <2>5 DEF Inv
<1>3. CASE Unsubscribe
  <2>1. /\ holder.pc = "unsubscribe" /\ holder.then \in {"release", "decide"}
        /\ tracked = 0 /\ handle \subseteq {holder.sc} /\ feeds \subseteq handle
    BY <1>3 DEF Unsubscribe, Inv, Dropping
  <2>2. holder' = [holder EXCEPT !.pc = holder.then] /\ holder' \in HolderType /\ holder'.pc # "none"
    BY <1>1, <1>3, <2>1 DEF Unsubscribe, HolderType
  <2>3. handle' = {} /\ feeds' = {} /\ UNCHANGED <<tracked, closing>>
    BY <1>3, <2>1 DEF Unsubscribe
  <2>4. TypeOK'
    BY <1>1, <1>3, <2>1, <2>2, <2>3 DEF Unsubscribe, TypeOK, HolderType, verbVars, countVars, historyVars
  <2>5. Building' /\ Standing' /\ Dropping' /\ Current' /\ Drained'
    BY <1>1, <2>1, <2>2, <2>3 DEF Inv, HolderType, Building, Standing, Dropping, Current, Drained, Mapped
  <2> QED BY <2>4, <2>5 DEF Inv
<1>4. CASE ReleaseActivation
  <2>1. holder.pc = "release" /\ holder.up \in BOOLEAN
    BY <1>1, <1>4 DEF ReleaseActivation, HolderType
  <2>2. UNCHANGED <<blocked, scopeVars, closing, countVars, historyVars>>
    BY <1>4 DEF ReleaseActivation
  <2>3. CASE slot = "superseded"
    <3>1. slot' = "held" /\ UNCHANGED cooling
      BY <1>4, <2>3 DEF ReleaseActivation
    <3>2. holder' = [holder EXCEPT !.pc = "unmap", !.then = "decide"]
      <4>1. holder' = [holder EXCEPT !.pc = "unmap", !.then = "decide", !.up = holder.up]
        BY <1>4, <2>3 DEF ReleaseActivation, Drop
      <4> QED BY <1>1, <4>1 DEF HolderType
    <3>3. holder' \in HolderType
      BY <1>1, <3>2 DEF HolderType
    <3>4. TypeOK'
      BY <1>1, <2>1, <2>2, <3>1, <3>2, <3>3 DEF TypeOK, HolderType, scopeVars, countVars, historyVars
    <3>5. Building' /\ Standing' /\ Dropping' /\ Current' /\ Drained'
      BY <1>1, <2>1, <2>2, <3>2 DEF Inv, HolderType, Building, Standing, Dropping, Current, Drained,
           Mapped, Unsubscribed, Closed, scopeVars
    <3> QED BY <3>4, <3>5 DEF Inv
  <2>4. CASE slot # "superseded"
    <3>1. slot' = "free" /\ cooling' \in BOOLEAN /\ holder' = NoHolder
      BY <1>4, <2>4 DEF ReleaseActivation
    <3>2. NoHolder \in HolderType
      BY DEF NoHolder, HolderType
    <3>3. TypeOK'
      BY <1>1, <2>2, <3>1, <3>2 DEF TypeOK, HolderType, NoHolder, scopeVars, countVars, historyVars
    <3>4. Building' /\ Standing' /\ Dropping' /\ Current' /\ Drained'
      BY <1>1, <2>1, <2>2, <2>4, <3>1 DEF Inv, NoHolder, Building, Standing, Dropping, Current, Drained,
           Drained, Mapped, Unsubscribed, Closed, scopeVars, historyVars
    <3> QED BY <3>3, <3>4 DEF Inv
  <2> QED BY <2>3, <2>4
<1>5. CASE Decide
  <2>1. holder' \in HolderType /\ holder.pc = "decide" /\ holder'.pc # "none"
    BY <1>1, <1>5 DEF Decide, HolderType
  <2>2. TypeOK'
    BY <1>1, <1>5, <2>1 DEF Decide, TypeOK, HolderType, verbVars, scopeVars, countVars, historyVars
  <2>3. Building' /\ Standing' /\ Dropping' /\ Current' /\ Drained'
    BY <1>1, <1>5, <2>1 DEF Decide, MayRebuild, Inv, HolderType, Building, Standing, Dropping,
         Current, Drained, Mapped, Unsubscribed, Closed, verbVars, scopeVars, historyVars
  <2> QED BY <2>2, <2>3 DEF Inv
<1> QED BY <1>2, <1>3, <1>4, <1>5

(* The first reconcile, and Close. *)
LEMMA CloseInv ==
  ASSUME Inv,
         \/ \E s \in States, outcome \in {"ok", "failed"} : FirstReconcile(s, outcome)
         \/ MarkClosed \/ Cancel \/ UnsubscribeTracked \/ CloseWorkers \/ WaitForWorkers
  PROVE  Inv'
<1>1. TypeOK
  BY DEF Inv
<1>2. ASSUME NEW s \in States, NEW outcome \in {"ok", "failed"}, FirstReconcile(s, outcome)
      PROVE  Inv'
  BY <1>1, <1>2 DEF FirstReconcile, Inv, TypeOK, Building, Standing, Dropping, Current, Drained, Mapped,
       Unsubscribed, Closed, verbVars, historyVars
<1>3. CASE MarkClosed \/ Cancel \/ CloseWorkers \/ WaitForWorkers
  BY <1>1, <1>3 DEF MarkClosed, Cancel, CloseWorkers, WaitForWorkers, CloseStep, Inv, TypeOK,
       Building, Standing, Dropping, Current, Drained, Mapped, Unsubscribed, Closed, verbVars, scopeVars,
       countVars, historyVars
<1>4. CASE UnsubscribeTracked
  <2>1. TypeOK'
    BY <1>1, <1>4 DEF UnsubscribeTracked, CloseStep, TypeOK, verbVars, countVars, historyVars
  <2>2. Building' /\ Standing' /\ Dropping' /\ Current' /\ Drained'
    BY <1>1, <1>4 DEF UnsubscribeTracked, CloseStep, Inv, TypeOK, Building, Standing, Dropping,
         Current, Drained, Mapped, Unsubscribed, Closed
  <2> QED BY <2>1, <2>2 DEF Inv
<1> QED BY <1>2, <1>3, <1>4

-----------------------------------------------------------------------------
(* The inductive invariant holds of every behaviour. *)
THEOREM Invariant == Spec => []Inv
<1>1. Inv /\ UNCHANGED vars => Inv'
  BY DEF vars, Inv, TypeOK, Building, Standing, Dropping, Current, Drained, Mapped, Unsubscribed, Closed
<1>2. Inv /\ [Next]_vars => Inv'
  BY <1>1, VerbInv, BuildInv, DropInv, CloseInv DEF Next, HolderStep, AtRest
<1> QED BY <1>2, InitInv, PTL DEF Spec

(* The slot is never left taken with nobody in it, and the rest of the     *)
(* scope keeps its types.                                                  *)
THEOREM TypeCorrect == Spec => []TypeOK
<1>1. Inv => TypeOK
  BY DEF Inv
<1> QED BY <1>1, Invariant, PTL

(* Never two changefeeds of a tenant: bringUpScope opens one only after    *)
(* dropScope has closed the one before, both in the slot.                  *)
THEOREM NeverTwoFeeds == Spec => []OneFeed
<1>1. Inv => OneFeed
  <2> SUFFICES ASSUME Inv PROVE Cardinality(feeds) <= 1
    BY DEF OneFeed
  <2>1. \E s : feeds \subseteq {s}
    BY DEF Inv, TypeOK, Building, Standing, Dropping, Mapped
  <2>2. PICK s : feeds \subseteq {s}
    BY <2>1
  <2>3. feeds = {} \/ feeds = {s}
    BY <2>2
  <2>4. Cardinality({}) = 0 /\ Cardinality({s}) = 1
    BY FS_EmptySet, FS_Singleton
  <2> QED BY <2>3, <2>4
<1> QED BY <1>1, Invariant, PTL

(* With the slot free, the scope in the map and the open feed go together. *)
THEOREM CacheAndFeedTogether == Spec => []TrackedIffFed
<1>1. Inv => TrackedIffFed
  BY DEF Inv, TypeOK, Standing, Mapped, Unsubscribed, Closed, TrackedIffFed
<1> QED BY <1>1, Invariant, PTL

(* Block takes the scope down wherever it catches the activation. *)
THEOREM BlockTakesDown == Spec => []BlockedMeansDown
<1>1. Inv => BlockedMeansDown
  BY DEF Inv, TypeOK, Standing, Current, Mapped, Unsubscribed, Closed, BlockedMeansDown
<1> QED BY <1>1, Invariant, PTL

(* Reactivate reaches every activation: one in flight is superseded and    *)
(* built again with the new credentials.                                   *)
THEOREM RotationTakesHold == Spec => []RotationReaches
<1>1. Inv => RotationReaches
  BY DEF Inv, TypeOK, Current, RotationReaches
<1> QED BY <1>1, Invariant, PTL

(* Close that waited for the workers leaves no feed open: either it        *)
(* unsubscribes the scope in the map, or the bring-up that stores its      *)
(* handle later sees the engine closed and gives the feed back.            *)
THEOREM CloseTakesFeedsDown == Spec => []NoFeedOutlivesClose
<1>1. Inv => NoFeedOutlivesClose
  BY DEF Inv, Standing, Drained, Unsubscribed, NoFeedOutlivesClose
<1> QED BY <1>1, Invariant, PTL
=============================================================================
