------------------------- MODULE Coordinator_proofs --------------------------
(***************************************************************************)
(* What holds of Coordinator for any appliers, publishers, documents and   *)
(* number of versions.                                                     *)
(***************************************************************************)
EXTENDS Coordinator, TLAPS

(* An applier is being called only where one is named. *)
TypeInv ==
  TypeOK /\ \A t \in Threads : threads[t].pc = "calling" => threads[t].calling \in Appliers

(* The thread runs a fan-out: the flag is its. *)
InBatch(t) == threads[t].pc \in {"batch", "calling"}

(* Whom the fan-out is for, less those who have left. *)
Batch(t) ==
  threads[t].todo \cup threads[t].accepts \cup threads[t].rejects
    \cup (IF threads[t].pc = "calling" THEN {threads[t].calling} ELSE {})

(* The flag is up exactly while one goroutine runs a fan-out. *)
Serial ==
  /\ delivering <=> \E t \in Threads : InBatch(t)
  /\ \A t, u \in Threads : InBatch(t) /\ InBatch(u) => t = u

(* What was never registered was never told anything. *)
Fresh ==
  /\ registered \cap removed = {}
  /\ \A a \in Appliers \ (registered \cup removed) :
       threads[a].pc = "idle" /\ deliveredSeq[a] = 0 /\ acceptedSeq[a] = 0
  /\ ~observed => current.seq = 0

(* A fan-out in flight: those it is for are marked, none is called twice,  *)
(* and what it has not recorded yet is what its calls returned.            *)
FanOutOK(t) ==
  /\ threads[t].previous = acceptedSeq
  /\ \A a \in Appliers :
       inForce[a] = IF a \in threads[t].accepts THEN threads[t].obs.seq ELSE acceptedSeq[a]
  /\ \A a \in Batch(t) : deliveredSeq[a] = threads[t].obs.seq
  /\ threads[t].todo \cap threads[t].accepts = {}
  /\ threads[t].pc = "calling" => threads[t].calling \notin threads[t].todo \cup threads[t].accepts

FanOut ==
  /\ Serial
  /\ Fresh
  /\ NothingDropped
  /\ \A t \in Threads : InBatch(t) => FanOutOK(t)
  /\ ~delivering => inForce = acceptedSeq

(* How far each is: an applier behind the fan-out, the fan-out behind the  *)
(* current observation, that behind the newest, an arrival ahead of it.    *)
Numbered ==
  /\ \A a \in Appliers : acceptedSeq[a] <= deliveredSeq[a] /\ deliveredSeq[a] <= current.seq
  /\ current.seq <= latestSeq /\ latestSeq <= seq
  /\ observed <=> latestSeq > 0
  /\ \A p \in Publishers : threads[p].pc = "stamped" =>
       threads[p].seq \in 1 .. seq /\ threads[p].seq # latestSeq
  /\ \A p, q \in Publishers :
       p # q /\ threads[p].pc = "stamped" /\ threads[q].pc = "stamped" =>
         threads[p].seq # threads[q].seq
  /\ \A t \in Threads : InBatch(t) =>
       /\ threads[t].obs.seq > 0 /\ threads[t].obs.seq <= current.seq
       /\ threads[t].obs.seq = current.seq => threads[t].obs = current

(* The revisions that go with those numbers. *)
Revisions ==
  /\ latestSeq = current.seq => desired = current.rev
  /\ \A a \in Appliers : acceptedSeq[a] = current.seq => appliedRev[a] = current.rev

(* An error stands for an applier that is behind, and an applier that is   *)
(* behind for an error or for a fan-out to come.                           *)
Errors ==
  /\ lastErr => latestSeq > 0
  /\ lastErr /\ registered # {} => \E a \in registered : acceptedSeq[a] < latestSeq
  /\ ~lastErr =>
       /\ latestSeq = current.seq
       /\ \A a \in registered : acceptedSeq[a] < latestSeq =>
            a \in Pending \/ \E t \in Threads : InBatch(t) /\ a \in Batch(t)

Status == Numbered /\ Revisions /\ Errors

(* A publisher that will bring something newer than what is committed. *)
ToCome ==
  \E p \in Publishers :
    \/ taken[p] < Len(versions)
    \/ threads[p].pc = "taken"
    \/ threads[p].pc = "stamped" /\ threads[p].seq > latestSeq

(* What publishers hold is what they took, an armed seed is current, and   *)
(* with nothing to come the document in force has been committed.          *)
Upstream ==
  /\ \A p \in Publishers :
       /\ taken[p] <= Len(versions)
       /\ threads[p].pc \in {"taken", "stamped"} =>
            taken[p] \in 1 .. Len(versions) /\ threads[p].pub = versions[taken[p]]
  /\ seed.armed => observed /\ latestSeq = current.seq /\ current.doc = seed.doc
  /\ observed /\ ~ToCome /\ InForce.doc \notin Undecodable =>
       latestSeq = current.seq /\ current.doc = InForce.doc

(* Who is marked with the current observation, and not about to be called, *)
(* was called with it last.                                                *)
Offered ==
  \A a \in registered :
    deliveredSeq[a] = current.seq /\ current.seq > 0
      /\ (\A t \in Threads : InBatch(t) => a \notin threads[t].todo) =>
        lastOffered[a] = [rev |-> current.rev, doc |-> current.doc]

-----------------------------------------------------------------------------
(* Types. *)

(* The constant records are of their types. *)
LEMMA Constants ==
  /\ AnyDoc \in Docs
  /\ NoPublication \in Publication
  /\ NoObservation \in Observation
  /\ IdleThread \in Thread
<1>1. AnyDoc \in Docs
  BY DocsAssumption DEF AnyDoc
<1>2. NoPublication \in Publication /\ NoObservation \in Observation
  BY <1>1 DEF NoPublication, Publication, NoObservation, Observation
<1> QED BY <1>1, <1>2 DEF IdleThread, Thread

(* What Observe leaves. *)
LEMMA ObserveType ==
  ASSUME TypeOK, NEW pub \in Publication, NEW s \in Nat, Observe(pub, s)
  PROVE  /\ desired' \in Nat /\ latestSeq' \in Nat /\ observed' \in BOOLEAN
         /\ current' \in Observation /\ lastErr' \in BOOLEAN
<1>1. pub.rev \in Nat /\ pub.doc \in Docs
  BY DEF Publication
<1>2. [seq |-> s, rev |-> pub.rev, doc |-> pub.doc] \in Observation
  BY <1>1 DEF Observation
<1>3. current' \in Observation
  BY <1>2 DEF Observe, TypeOK
<1>4. lastErr' \in BOOLEAN /\ observed' \in BOOLEAN
  BY DEF Observe, TypeOK
<1> QED BY <1>1, <1>3, <1>4 DEF Observe

(* What the next turn of drain's loop leaves. *)
LEMMA NextBatchType ==
  ASSUME TypeOK, NEW t \in Threads, NEW accepted \in [Appliers -> Nat],
         NextBatch(t, accepted)
  PROVE  /\ delivering' \in BOOLEAN
         /\ deliveredSeq' \in [Appliers -> Nat]
         /\ threads' \in [Threads -> Thread]
         /\ threads'[t].pc # "calling"
<1>1. current \in Observation /\ Pending \subseteq Appliers /\ current.seq \in Nat
  BY DEF TypeOK, Pending, Observation
<1>2. [IdleThread EXCEPT !.pc = "batch", !.obs = current, !.todo = Pending,
                         !.previous = accepted] \in Thread
  BY <1>1, Constants DEF Thread
<1>3. threads \in [Threads -> Thread] /\ deliveredSeq \in [Appliers -> Nat]
  BY DEF TypeOK
<1>4. threads' \in [Threads -> Thread]
  BY <1>2, <1>3, Constants DEF NextBatch
<1>5. threads'[t].pc # "calling"
  BY <1>3 DEF NextBatch, IdleThread
<1>6. deliveredSeq' \in [Appliers -> Nat]
  BY <1>1, <1>3 DEF NextBatch
<1>7. delivering' \in BOOLEAN
  BY DEF NextBatch
<1> QED BY <1>4, <1>5, <1>6, <1>7

(* Init. *)
LEMMA InitType == Init => TypeInv
<1> SUFFICES ASSUME Init PROVE TypeInv
  OBVIOUS
<1>1. threads \in [Threads -> Thread] /\ \A t \in Threads : threads[t].pc = "idle"
  BY Constants DEF Init, IdleThread
<1>2. current \in Observation /\ lastOffered \in [Appliers -> Publication]
  BY Constants DEF Init
<1>3. seed \in [armed : BOOLEAN, rev : Nat, doc : Docs]
  BY Constants DEF Init
<1>4. versions \in Seq(Publication)
  BY DEF Init
<1>5. taken \in [Publishers -> Nat] /\ offered \in [Appliers -> SUBSET Publication]
  BY DEF Init
<1>6. /\ deliveredSeq \in [Appliers -> Nat] /\ acceptedSeq \in [Appliers -> Nat]
      /\ appliedRev \in [Appliers -> Nat] /\ inForce \in [Appliers -> Nat]
  BY DEF Init
<1>7. TypeOK
  BY <1>1, <1>2, <1>3, <1>4, <1>5, <1>6 DEF Init, TypeOK
<1> QED BY <1>1, <1>7 DEF TypeInv

(* The Client, and an arrival up to its commit. *)
LEMMA PublishType ==
  ASSUME TypeInv,
         \/ ClientPublishes
         \/ \E p \in Publishers : TakeChange(p) \/ Stamp(p) \/ Commit(p)
  PROVE  TypeInv'
<1>1. TypeOK /\ threads \in [Threads -> Thread] /\ Publishers \subseteq Threads
  BY DEF TypeInv, TypeOK, Threads
<1>2. CASE ClientPublishes
  <2>1. versions' \in Seq(Publication)
    <3>1. PICK rev \in 0 .. MaxVersions, d \in Docs :
            versions' = Append(versions, [rev |-> rev, doc |-> d])
      BY <1>2 DEF ClientPublishes
    <3>2. [rev |-> rev, doc |-> d] \in Publication
      BY VersionsAssumption DEF Publication
    <3>3. versions \in Seq(Publication)
      BY <1>1 DEF TypeOK
    <3> QED BY <3>1, <3>2, <3>3
  <2> QED BY <1>2, <2>1 DEF TypeInv, TypeOK, ClientPublishes, scopeVars, applierVars,
               historyVars
<1>3. ASSUME NEW p \in Publishers, TakeChange(p) PROVE TypeInv'
  <2>1. taken[p] \in Nat /\ Len(versions) \in Nat /\ taken[p] < Len(versions)
    <3>1. versions \in Seq(Publication) /\ taken[p] \in Nat
      BY <1>1 DEF TypeOK
    <3>2. Len(versions) \in Nat
      BY <3>1
    <3>3. taken[p] < Len(versions)
      BY <1>3 DEF TakeChange
    <3> QED BY <3>1, <3>2, <3>3
  <2>2. InForce \in Publication
    BY <1>1, <2>1 DEF InForce, TypeOK
  <2> DEFINE g == [threads[p] EXCEPT !.pc = "taken", !.pub = InForce]
  <2>3. g \in Thread /\ g.pc = "taken"
    BY <1>1, <2>2 DEF Thread
  <2>4. threads' = [threads EXCEPT ![p] = g]
    BY <1>3 DEF TakeChange
  <2> HIDE DEF g
  <2>5. threads' \in [Threads -> Thread] /\ taken' \in [Publishers -> Nat]
        /\ \A t \in Threads : threads'[t].pc = "calling" => threads'[t].calling \in Appliers
    BY <1>1, <1>3, <2>1, <2>3, <2>4 DEF TypeInv, TypeOK, TakeChange
  <2> QED BY <1>3, <2>5 DEF TypeInv, TypeOK, TakeChange, scopeVars, applierVars, historyVars
<1>4. ASSUME NEW p \in Publishers, Stamp(p) PROVE TypeInv'
  <2>1. NextSeq \in Nat
    BY <1>1 DEF NextSeq, TypeOK
  <2> DEFINE g == [threads[p] EXCEPT !.pc = "stamped", !.seq = NextSeq]
  <2>3. g \in Thread /\ g.pc = "stamped"
    BY <1>1, <2>1 DEF Thread
  <2>4. threads' = [threads EXCEPT ![p] = g]
    BY <1>4 DEF Stamp
  <2> HIDE DEF g
  <2>5. threads' \in [Threads -> Thread]
        /\ \A t \in Threads : threads'[t].pc = "calling" => threads'[t].calling \in Appliers
    BY <1>1, <2>3, <2>4 DEF TypeInv
  <2>6. seq' \in Nat
    BY <1>4, <2>1 DEF Stamp
  <2> QED BY <1>4, <2>5, <2>6 DEF TypeInv, TypeOK, Stamp, upstreamVars, scopeVars,
               applierVars, historyVars
<1>5. ASSUME NEW p \in Publishers, Commit(p) PROVE TypeInv'
  <2>1. threads[p].pub \in Publication /\ threads[p].seq \in Nat
    BY <1>1 DEF Thread
  <2>2. PICK g \in {IdleThread, [IdleThread EXCEPT !.pc = "drain"]} :
          threads' = [threads EXCEPT ![p] = g]
    BY <1>5 DEF Commit
  <2>3. g \in Thread /\ g.pc # "calling"
    BY <2>2, Constants DEF Thread, IdleThread
  <2>4. threads' \in [Threads -> Thread]
        /\ \A t \in Threads : threads'[t].pc = "calling" => threads'[t].calling \in Appliers
    BY <1>1, <2>2, <2>3 DEF TypeInv
  <2>5. /\ desired' \in Nat /\ latestSeq' \in Nat /\ observed' \in BOOLEAN
        /\ current' \in Observation /\ lastErr' \in BOOLEAN
    <3>1. \/ UNCHANGED <<current, observed, desired, latestSeq, lastErr>>
          \/ Observe(threads[p].pub, threads[p].seq)
      BY <1>5 DEF Commit
    <3> QED BY <1>1, <2>1, <3>1, ObserveType DEF TypeOK
  <2>6. seed' \in [armed : BOOLEAN, rev : Nat, doc : Docs]
    BY <1>1, <1>5 DEF Commit, TypeOK
  <2> QED BY <1>5, <2>4, <2>5, <2>6 DEF TypeInv, TypeOK, Commit, upstreamVars, applierVars,
               historyVars
<1> QED BY <1>2, <1>3, <1>4, <1>5

(* Registering and leaving. *)
LEMMA RegisterType ==
  ASSUME TypeInv, NEW a \in Appliers, Register(a) \/ Unsubscribe(a)
  PROVE  TypeInv'
<1>1. TypeOK /\ threads \in [Threads -> Thread] /\ a \in Threads
  BY DEF TypeInv, TypeOK, Threads
<1>2. CASE Register(a)
  <2>1. PICK pc \in {"idle", "drain"} : threads' = [threads EXCEPT ![a].pc = pc]
    BY <1>2 DEF Register
  <2>2. threads' \in [Threads -> Thread]
        /\ \A t \in Threads : threads'[t].pc = "calling" => threads'[t].calling \in Appliers
    BY <1>1, <2>1, ZenonT(40) DEF TypeInv, Thread
  <2>3. /\ desired' \in Nat /\ latestSeq' \in Nat /\ observed' \in BOOLEAN
        /\ current' \in Observation /\ lastErr' \in BOOLEAN
        /\ seq' \in Nat /\ seedTaken' \in BOOLEAN
        /\ seed' \in [armed : BOOLEAN, rev : Nat, doc : Docs]
    <3>1. CASE Seed
      <4>1. InForce \in Publication /\ NextSeq \in Nat
        BY <1>1, <3>1 DEF Seed, InForce, NextSeq, TypeOK
      <4>2. seed' \in [armed : BOOLEAN, rev : Nat, doc : Docs]
        BY <1>1, <3>1, <4>1 DEF Seed, TypeOK, Publication
      <4>3. Observe(InForce, NextSeq) /\ seq' = NextSeq /\ seedTaken' = TRUE
        BY <3>1 DEF Seed
      <4> QED BY <1>1, <4>1, <4>2, <4>3, ObserveType
    <3>2. CASE UNCHANGED <<scopeVars, seq, lastErr>>
      BY <1>1, <3>2 DEF TypeOK, scopeVars
    <3> QED BY <1>2, <3>1, <3>2 DEF Register
  <2>4. registered' \in SUBSET Appliers
    BY <1>1, <1>2 DEF Register, TypeOK
  <2> QED BY <1>2, <2>2, <2>3, <2>4 DEF TypeInv, TypeOK, Register, upstreamVars, historyVars
<1>3. CASE Unsubscribe(a)
  <2>1. lastErr' \in BOOLEAN
    BY <1>1, <1>3 DEF Unsubscribe, ErrAfter, TypeOK
  <2>2. registered' \in SUBSET Appliers /\ removed' \in SUBSET Appliers
    BY <1>1, <1>3 DEF Unsubscribe, TypeOK
  <2> QED BY <1>3, <2>1, <2>2 DEF TypeInv, TypeOK, Unsubscribe, upstreamVars, scopeVars, historyVars
<1> QED BY <1>2, <1>3

(* A fan-out. *)
LEMMA DrainType ==
  ASSUME TypeInv, NEW t \in Threads,
         Drain(t) \/ Skip(t) \/ Call(t) \/ Return(t) \/ Record(t)
  PROVE  TypeInv'
<1>1. TypeOK /\ threads \in [Threads -> Thread] /\ threads[t] \in Thread
  BY DEF TypeInv, TypeOK
<1>2. CASE Drain(t)
  <2>1. /\ delivering' \in BOOLEAN /\ deliveredSeq' \in [Appliers -> Nat]
        /\ threads' \in [Threads -> Thread] /\ threads'[t].pc # "calling"
    <3>1. CASE FanOutRunning
      <4>1. threads' = [threads EXCEPT ![t] = IdleThread] /\ UNCHANGED <<delivering, deliveredSeq>>
        BY <1>2, <3>1 DEF Drain
      <4>2. IdleThread.pc = "idle"
        BY DEF IdleThread
      <4>3. threads' \in [Threads -> Thread] /\ threads'[t].pc # "calling"
        BY <1>1, <4>1, <4>2, Constants
      <4> QED BY <1>1, <4>1, <4>3 DEF TypeOK
    <3>2. CASE ~FanOutRunning
      <4>1. NextBatch(t, acceptedSeq) /\ acceptedSeq \in [Appliers -> Nat]
        BY <1>1, <1>2, <3>2 DEF Drain, TypeOK
      <4> QED BY <1>1, <4>1, NextBatchType
    <3> QED BY <3>1, <3>2
  <2>2. \A u \in Threads \ {t} : threads'[u] = threads[u]
    BY <1>1, <1>2 DEF Drain, NextBatch
  <2> QED BY <1>2, <2>1, <2>2 DEF TypeInv, TypeOK, Drain, upstreamVars, scopeVars, applierVars,
               historyVars
<1>3. CASE Skip(t)
  <2>1. PICK a : threads' = [threads EXCEPT ![t].todo = @ \ {a}]
    BY <1>3 DEF Skip
  <2>2. threads' \in [Threads -> Thread]
        /\ \A u \in Threads : threads'[u].pc = "calling" => threads'[u].calling \in Appliers
    BY <1>1, <2>1 DEF TypeInv, Thread
  <2> QED BY <1>3, <2>2 DEF TypeInv, TypeOK, Skip, upstreamVars, scopeVars, applierVars,
               historyVars
<1>4. CASE Call(t)
  <2> DEFINE obs == threads[t].obs
             shown == [rev |-> obs.rev, doc |-> obs.doc]
  <2>1. shown \in Publication
    BY <1>1 DEF Thread, Observation, Publication
  <2>2. PICK a \in threads[t].todo \ removed :
          /\ threads' = [threads EXCEPT
               ![t] = [threads[t] EXCEPT !.pc = "calling", !.calling = a, !.todo = @ \ {a}]]
          /\ lastOffered' = [lastOffered EXCEPT ![a] = shown]
          /\ offered' = [offered EXCEPT ![a] = IF obs.rev = 0 THEN @ ELSE @ \cup {shown}]
          /\ repeated' = (repeated \/ shown \in offered[a])
    BY <1>4 DEF Call
  <2>3. a \in Appliers
    BY <1>1, <2>2 DEF Thread
  <2>4. [threads[t] EXCEPT !.pc = "calling", !.calling = a, !.todo = @ \ {a}] \in Thread
    BY <1>1, <2>3 DEF Thread
  <2>5. threads' \in [Threads -> Thread]
        /\ \A u \in Threads : threads'[u].pc = "calling" => threads'[u].calling \in Appliers
    BY <1>1, <2>2, <2>3, <2>4 DEF TypeInv, Thread
  <2> HIDE DEF shown, obs
  <2>6. lastOffered' \in [Appliers -> Publication] /\ offered' \in [Appliers -> SUBSET Publication]
    <3>1. lastOffered \in [Appliers -> Publication] /\ offered \in [Appliers -> SUBSET Publication]
      BY <1>1 DEF TypeOK
    <3> QED BY <2>1, <2>2, <2>3, <3>1
  <2>7. repeated' \in BOOLEAN
    BY <2>2
  <2> QED BY <1>4, <2>5, <2>6, <2>7 DEF TypeInv, TypeOK, Call, upstreamVars, scopeVars, applierVars
<1>5. CASE Return(t)
  <2> DEFINE a == threads[t].calling
  <2>1. a \in Appliers /\ threads[t].obs.seq \in Nat
    BY <1>1, <1>5 DEF TypeInv, Return, Thread, Observation
  <2>2. PICK g \in {[threads[t] EXCEPT !.pc = "batch", !.calling = NoApplier, !.accepts = @ \cup {a}],
                    [threads[t] EXCEPT !.pc = "batch", !.calling = NoApplier, !.rejects = @ \cup {a}]} :
          threads' = [threads EXCEPT ![t] = g]
    BY <1>5 DEF Return
  <2>3. g \in Thread /\ g.pc = "batch"
    <3>1. /\ threads[t].accepts \cup {a} \in SUBSET Appliers
          /\ threads[t].rejects \cup {a} \in SUBSET Appliers
      BY <1>1, <2>1 DEF Thread
    <3> HIDE DEF a
    <3>2. CASE g = [threads[t] EXCEPT !.pc = "batch", !.calling = NoApplier,
                                      !.accepts = @ \cup {a}]
      BY <1>1, <3>1, <3>2 DEF Thread
    <3>3. CASE g = [threads[t] EXCEPT !.pc = "batch", !.calling = NoApplier,
                                      !.rejects = @ \cup {a}]
      BY <1>1, <3>1, <3>3 DEF Thread
    <3> QED BY <2>2, <3>2, <3>3
  <2>4. threads' \in [Threads -> Thread]
        /\ \A u \in Threads : threads'[u].pc = "calling" => threads'[u].calling \in Appliers
    BY <1>1, <2>2, <2>3 DEF TypeInv
  <2>5. inForce' \in [Appliers -> Nat]
    <3>1. inForce' = inForce \/ inForce' = [inForce EXCEPT ![a] = threads[t].obs.seq]
      BY <1>5 DEF Return
    <3>2. inForce \in [Appliers -> Nat]
      BY <1>1 DEF TypeOK
    <3> QED BY <2>1, <3>1, <3>2
  <2> QED BY <1>5, <2>4, <2>5 DEF TypeInv, TypeOK, Return, upstreamVars, scopeVars, applierVars
<1>6. CASE Record(t)
  <2> DEFINE th == threads[t]
             accepted == [a \in Appliers |->
                            IF a \in th.accepts THEN deliveredSeq[a] ELSE acceptedSeq[a]]
  <2>1. accepted \in [Appliers -> Nat] /\ acceptedSeq' = accepted /\ NextBatch(t, accepted)
    BY <1>1, <1>6 DEF Record, TypeOK
  <2>2. appliedRev' \in [Appliers -> Nat]
    <3>1. th.obs.rev \in Nat
      BY <1>1 DEF Thread, Observation
    <3> QED BY <1>1, <1>6, <3>1 DEF Record, TypeOK
  <2>3. lastErr' \in BOOLEAN
    BY <1>6 DEF Record, ErrAfter
  <2> HIDE DEF accepted
  <2>4. /\ delivering' \in BOOLEAN /\ deliveredSeq' \in [Appliers -> Nat]
        /\ threads' \in [Threads -> Thread] /\ threads'[t].pc # "calling"
    BY <1>1, <2>1, NextBatchType
  <2>5. \A u \in Threads \ {t} : threads'[u] = threads[u]
    BY <1>1, <2>1 DEF NextBatch
  <2> QED BY <1>6, <2>1, <2>2, <2>3, <2>4, <2>5 DEF TypeInv, TypeOK, Record, upstreamVars,
               scopeVars, applierVars, historyVars
<1> QED BY <1>2, <1>3, <1>4, <1>5, <1>6

(* A step keeps the types. *)
LEMMA StepType == TypeInv /\ [Next]_vars => TypeInv'
<1>1. TypeInv /\ UNCHANGED vars => TypeInv'
  BY DEF TypeInv, TypeOK, vars
<1> QED BY <1>1, PublishType, RegisterType, DrainType DEF Next, AtRest

(* The scope, its appliers and its goroutines keep their types. *)
THEOREM TypeCorrect == Spec => []TypeInv
BY InitType, StepType, PTL DEF Spec

-----------------------------------------------------------------------------
(* Fan-outs. *)

(* A goroutine that runs no fan-out, before and after, disturbs none. *)
LEMMA OffStage ==
  ASSUME TypeInv, FanOut, NEW t \in Threads, NEW g,
         threads' = [threads EXCEPT ![t] = g],
         ~InBatch(t), g.pc \notin {"batch", "calling"},
         UNCHANGED <<delivering, acceptedSeq, deliveredSeq, inForce>>
  PROVE  /\ Serial'
         /\ (\A u \in Threads : InBatch(u) => FanOutOK(u))'
         /\ (~delivering => inForce = acceptedSeq)'
<1>1. \A u \in Threads : threads'[u] = IF u = t THEN g ELSE threads[u]
  BY DEF TypeInv, TypeOK
<1>2. \A u \in Threads : InBatch(u)' <=> InBatch(u)
  BY <1>1 DEF InBatch
<1>3. Serial'
  BY <1>2 DEF FanOut, Serial
<1>4. ASSUME NEW u \in Threads, InBatch(u)' PROVE FanOutOK(u)'
  <2>1. InBatch(u) /\ u # t /\ threads'[u] = threads[u]
    BY <1>1, <1>2, <1>4
  <2> QED BY <2>1 DEF FanOut, FanOutOK, Batch
<1> QED BY <1>3, <1>4 DEF FanOut

(* The next turn of drain's loop, by the only goroutine that fans out. *)
LEMMA NextBatchFanOut ==
  ASSUME TypeInv, FanOut, NEW t \in Threads, NEW accepted \in [Appliers -> Nat],
         threads[t].pc \in Busy, \A u \in Threads \ {t} : ~InBatch(u),
         NextBatch(t, accepted), acceptedSeq' = accepted, inForce' = accepted,
         \A a \in Appliers \ (registered \cup removed) : accepted[a] = 0,
         UNCHANGED <<registered, removed, current, observed>>
  PROVE  FanOut'
<1> DEFINE g == IF Pending = {} THEN IdleThread
                ELSE [IdleThread EXCEPT !.pc = "batch", !.obs = current, !.todo = Pending,
                                        !.previous = accepted]
<1>1. \A u \in Threads : threads'[u] = IF u = t THEN g ELSE threads[u]
  BY DEF TypeInv, TypeOK, NextBatch
<1>2. /\ g.pc = (IF Pending = {} THEN "idle" ELSE "batch") /\ g.accepts = {} /\ g.rejects = {}
      /\ Pending # {} => g.obs = current /\ g.todo = Pending /\ g.previous = accepted
  BY DEF IdleThread
<1> HIDE DEF g
<1>3. Pending \subseteq registered /\ registered \subseteq Appliers /\ current.seq \in Nat
      /\ deliveredSeq \in [Appliers -> Nat]
  BY DEF Pending, TypeInv, TypeOK, Observation
<1>4. \A a \in Appliers : deliveredSeq'[a] = IF a \in Pending THEN current.seq ELSE deliveredSeq[a]
  BY DEF NextBatch
<1>5. \A u \in Threads : InBatch(u)' <=> (u = t /\ Pending # {})
  BY <1>1, <1>2 DEF InBatch
<1>6. Serial'
  BY <1>5 DEF Serial, NextBatch
<1>7. Fresh'
  <2>1. ASSUME NEW a \in Appliers \ (registered \cup removed)
        PROVE  threads'[a].pc = "idle" /\ deliveredSeq'[a] = 0 /\ acceptedSeq'[a] = 0
    <3>1. threads[a].pc = "idle" /\ deliveredSeq[a] = 0 /\ a \in Threads
      BY DEF FanOut, Fresh, Threads
    <3>2. a # t /\ a \notin Pending
      BY <1>3, <3>1 DEF Busy
    <3> QED BY <1>1, <1>4, <3>1, <3>2
  <2> QED BY <2>1 DEF Fresh, FanOut
<1>8. NothingDropped'
  <2>1. Pending' = {}
    <3> SUFFICES ASSUME NEW a \in registered PROVE ~(deliveredSeq'[a] < current.seq)
      BY DEF Pending
    <3>1. a \in Pending <=> deliveredSeq[a] < current.seq
      BY DEF Pending
    <3> QED BY <1>3, <1>4, <3>1
  <2> QED BY <2>1 DEF NothingDropped
<1>9. (\A u \in Threads : InBatch(u) => FanOutOK(u))'
  <2> SUFFICES ASSUME Pending # {} PROVE FanOutOK(t)'
    BY <1>5
  <2>1. Batch(t)' = Pending
    BY <1>1, <1>2 DEF Batch
  <2> QED BY <1>1, <1>2, <1>3, <1>4, <2>1 DEF FanOutOK
<1> QED BY <1>6, <1>7, <1>8, <1>9 DEF FanOut

(* Init. *)
LEMMA InitFanOut == Init => FanOut
BY DEF Init, FanOut, Serial, Fresh, NothingDropped, Pending, InBatch, IdleThread, NoObservation,
       Threads

(* The Client, and an arrival up to its commit. *)
LEMMA PublishFanOut ==
  ASSUME TypeInv, FanOut,
         \/ ClientPublishes
         \/ \E p \in Publishers : TakeChange(p) \/ Stamp(p) \/ Commit(p)
  PROVE  FanOut'
<1>1. threads \in [Threads -> Thread] /\ Publishers \subseteq Threads /\ Appliers \subseteq Threads
      /\ Appliers \cap Publishers = {}
  BY ActorsAssumption DEF TypeInv, TypeOK, Threads
<1>2. CASE ClientPublishes
  BY <1>2 DEF ClientPublishes, FanOut, Serial, Fresh, NothingDropped, Pending, InBatch, FanOutOK,
       Batch, scopeVars, applierVars, historyVars
<1>3. ASSUME NEW p \in Publishers, NEW g,
             threads' = [threads EXCEPT ![p] = g], threads[p].pc \notin Busy,
             UNCHANGED <<delivering, acceptedSeq, deliveredSeq, inForce, registered, removed>>,
             \/ g.pc \notin {"batch", "calling"} /\ UNCHANGED <<current, observed>>
             \/ g.pc = "drain" /\ observed'
             \/ g.pc = "idle" /\ UNCHANGED current /\ observed'
      PROVE  FanOut'
  <2>1. \A u \in Threads : threads'[u] = IF u = p THEN g ELSE threads[u]
    BY <1>1, <1>3
  <2>2. ~InBatch(p) /\ g.pc \notin {"batch", "calling"}
    BY <1>3 DEF InBatch, Busy
  <2>3. Serial' /\ (\A u \in Threads : InBatch(u) => FanOutOK(u))'
        /\ (~delivering => inForce = acceptedSeq)'
    BY <1>1, <1>3, <2>2, OffStage
  <2>4. Fresh'
    BY <1>1, <1>3, <2>1 DEF FanOut, Fresh
  <2>5. NothingDropped'
    <3>1. CASE UNCHANGED current
      <4>1. Pending' = Pending
        BY <1>3, <3>1 DEF Pending
      <4> QED BY <1>1, <1>3, <2>1, <4>1 DEF FanOut, NothingDropped
    <3>2. CASE g.pc = "drain"
      <4>1. p \in Threads /\ threads'[p].pc \in Busy
        BY <1>1, <2>1, <3>2 DEF Busy
      <4> QED BY <4>1 DEF NothingDropped
    <3> QED BY <1>3, <3>1, <3>2
  <2> QED BY <2>3, <2>4, <2>5 DEF FanOut
<1>4. ASSUME NEW p \in Publishers, TakeChange(p) PROVE FanOut'
  <2> DEFINE g == [threads[p] EXCEPT !.pc = "taken", !.pub = InForce]
  <2>1. g.pc = "taken"
    BY <1>1 DEF Thread
  <2>2. threads' = [threads EXCEPT ![p] = g] /\ threads[p].pc \notin Busy
    BY <1>4 DEF TakeChange, Busy
  <2>3. UNCHANGED <<delivering, acceptedSeq, deliveredSeq, inForce, registered, removed,
                    current, observed>>
    BY <1>4 DEF TakeChange, scopeVars, applierVars, historyVars
  <2> HIDE DEF g
  <2> QED BY <1>3, <2>1, <2>2, <2>3
<1>5. ASSUME NEW p \in Publishers, Stamp(p) PROVE FanOut'
  <2> DEFINE g == [threads[p] EXCEPT !.pc = "stamped", !.seq = NextSeq]
  <2>1. g.pc = "stamped"
    BY <1>1 DEF Thread
  <2>2. threads' = [threads EXCEPT ![p] = g] /\ threads[p].pc \notin Busy
    BY <1>5 DEF Stamp, Busy
  <2>3. UNCHANGED <<delivering, acceptedSeq, deliveredSeq, inForce, registered, removed,
                    current, observed>>
    BY <1>5 DEF Stamp, scopeVars, applierVars, historyVars
  <2> HIDE DEF g
  <2> QED BY <1>3, <2>1, <2>2, <2>3
<1>6. ASSUME NEW p \in Publishers, Commit(p) PROVE FanOut'
  <2>1. IdleThread.pc = "idle" /\ [IdleThread EXCEPT !.pc = "drain"].pc = "drain"
    BY DEF IdleThread
  <2>2. threads[p].pc \notin Busy
    BY <1>6 DEF Commit, Busy
  <2>3. UNCHANGED <<delivering, acceptedSeq, deliveredSeq, inForce, registered, removed>>
    BY <1>6 DEF Commit, applierVars, historyVars
  <2>4. \/ threads' = [threads EXCEPT ![p] = IdleThread] /\ UNCHANGED <<current, observed>>
        \/ /\ threads' = [threads EXCEPT ![p] = IdleThread]
           /\ UNCHANGED current /\ observed'
        \/ threads' = [threads EXCEPT ![p] = [IdleThread EXCEPT !.pc = "drain"]] /\ observed'
    BY <1>6 DEF Commit, Observe
  <2> QED BY <1>3, <2>1, <2>2, <2>3, <2>4
<1> QED BY <1>2, <1>4, <1>5, <1>6

(* Registering and leaving. *)
LEMMA RegisterFanOut ==
  ASSUME TypeInv, FanOut, NEW a \in Appliers, Register(a) \/ Unsubscribe(a)
  PROVE  FanOut'
<1>1. threads \in [Threads -> Thread] /\ a \in Threads /\ Appliers \subseteq Threads
  BY DEF TypeInv, TypeOK, Threads
<1>2. CASE Register(a)
  <2> DEFINE pc == IF observed' THEN "drain" ELSE "idle"
             g == [threads[a] EXCEPT !.pc = pc]
  <2>1. /\ threads' = [threads EXCEPT ![a] = g] /\ registered' = registered \cup {a}
        /\ a \notin registered \cup removed
        /\ UNCHANGED <<delivering, acceptedSeq, deliveredSeq, inForce, removed>>
    BY <1>1, <1>2 DEF Register, historyVars
  <2>2. threads[a].pc = "idle" /\ deliveredSeq[a] = 0 /\ g.pc = pc
    BY <1>1, <2>1 DEF FanOut, Fresh, Thread
  <2>3. observed' \/ UNCHANGED <<current, observed>>
    BY <1>2 DEF Register, Seed, Observe, scopeVars
  <2>4. \A u \in Threads : threads'[u] = IF u = a THEN g ELSE threads[u]
    BY <1>1, <2>1
  <2>5. Serial' /\ (\A u \in Threads : InBatch(u) => FanOutOK(u))'
        /\ (~delivering => inForce = acceptedSeq)'
    <3>1. ~InBatch(a) /\ g.pc \notin {"batch", "calling"}
      BY <2>2 DEF InBatch
    <3> HIDE DEF g, pc
    <3> QED BY <1>1, <2>1, <3>1, OffStage
  <2>6. Fresh'
    BY <2>1, <2>3, <2>4 DEF FanOut, Fresh
  <2>7. NothingDropped'
    <3>1. CASE observed'
      <4>1. threads'[a].pc \in Busy
        BY <1>1, <2>2, <2>4, <3>1 DEF Busy
      <4> QED BY <1>1, <4>1 DEF NothingDropped
    <3>2. CASE ~observed'
      <4>1. current'.seq = 0
        BY <2>3, <2>6, <3>2 DEF Fresh
      <4>2. deliveredSeq' \in [Appliers -> Nat] /\ registered' \subseteq Appliers
        BY <2>1 DEF TypeInv, TypeOK
      <4> QED BY <4>1, <4>2 DEF NothingDropped, Pending
    <3> QED BY <3>1, <3>2
  <2> QED BY <2>5, <2>6, <2>7 DEF FanOut
<1>3. CASE Unsubscribe(a)
  <2>1. /\ registered' = registered \ {a} /\ removed' = removed \cup {a} /\ a \in registered
        /\ UNCHANGED <<delivering, acceptedSeq, deliveredSeq, inForce, threads, current, observed>>
    BY <1>3 DEF Unsubscribe, scopeVars, historyVars
  <2>2. Serial' /\ (\A u \in Threads : InBatch(u) => FanOutOK(u))'
        /\ (~delivering => inForce = acceptedSeq)'
    BY <2>1 DEF FanOut, Serial, InBatch, FanOutOK, Batch
  <2>3. Fresh' /\ NothingDropped'
    BY <2>1 DEF FanOut, Fresh, NothingDropped, Pending
  <2> QED BY <2>2, <2>3 DEF FanOut
<1> QED BY <1>2, <1>3

(* A fan-out starts, calls and records. *)
LEMMA DrainFanOut ==
  ASSUME TypeInv, FanOut, NEW t \in Threads,
         Drain(t) \/ Skip(t) \/ Call(t) \/ Return(t) \/ Record(t)
  PROVE  FanOut'
<1>1. TypeOK /\ threads \in [Threads -> Thread] /\ threads[t] \in Thread
      /\ Appliers \subseteq Threads
  BY DEF TypeInv, TypeOK, Threads
<1>2. ASSUME NEW g, threads' = [threads EXCEPT ![t] = g], InBatch(t), g.pc \in {"batch", "calling"},
             UNCHANGED <<delivering, registered, removed, deliveredSeq, acceptedSeq, current,
                         observed>>,
             FanOutOK(t)'
      PROVE  FanOut'
  <2>1. \A u \in Threads : threads'[u] = IF u = t THEN g ELSE threads[u]
    BY <1>1, <1>2
  <2>2. \A u \in Threads : InBatch(u)' <=> InBatch(u)
    BY <1>2, <2>1 DEF InBatch
  <2>3. \A u \in Threads : InBatch(u) => u = t
    BY <1>2 DEF FanOut, Serial
  <2>4. Serial' /\ (\A u \in Threads : InBatch(u) => FanOutOK(u))'
    BY <1>2, <2>2, <2>3 DEF FanOut, Serial
  <2>5. delivering
    BY <1>2 DEF FanOut, Serial
  <2>6. Fresh'
    <3>1. ASSUME NEW a \in Appliers \ (registered \cup removed) PROVE threads'[a].pc = "idle"
      <4>1. threads[a].pc = "idle" /\ a \in Threads
        BY <1>1 DEF FanOut, Fresh
      <4>2. a # t
        BY <1>2, <4>1 DEF InBatch
      <4> QED BY <2>1, <4>1, <4>2
    <3> QED BY <1>2, <3>1 DEF FanOut, Fresh
  <2>7. NothingDropped'
    <3>1. threads'[t].pc \in Busy
      BY <1>2, <2>1 DEF Busy
    <3> QED BY <3>1 DEF NothingDropped
  <2> QED BY <1>2, <2>4, <2>5, <2>6, <2>7 DEF FanOut
<1>3. CASE Drain(t)
  <2>1. UNCHANGED <<registered, removed, acceptedSeq, current, observed, inForce>>
        /\ threads[t].pc = "drain" /\ threads[t].pc \in Busy
    BY <1>3 DEF Drain, scopeVars, applierVars, historyVars, Busy
  <2>2. CASE FanOutRunning
    <3>1. threads' = [threads EXCEPT ![t] = IdleThread] /\ UNCHANGED <<delivering, deliveredSeq>>
      BY <1>3, <2>2 DEF Drain
    <3>2. ~InBatch(t) /\ IdleThread.pc = "idle"
      BY <2>1 DEF InBatch, IdleThread
    <3>3. Serial' /\ (\A u \in Threads : InBatch(u) => FanOutOK(u))'
          /\ (~delivering => inForce = acceptedSeq)'
      BY <2>1, <3>1, <3>2, OffStage
    <3>4. Fresh'
      BY <1>1, <2>1, <3>1, <3>2 DEF FanOut, Fresh
    <3>5. NothingDropped'
      <4>1. PICK u \in Threads : InBatch(u)
        BY <2>2 DEF FanOutRunning, FanOut, Serial
      <4>2. threads'[u].pc \in Busy
        BY <1>1, <3>1, <3>2, <4>1 DEF InBatch, Busy
      <4> QED BY <4>2 DEF NothingDropped
    <3> QED BY <3>3, <3>4, <3>5 DEF FanOut
  <2>3. CASE ~FanOutRunning
    <3>1. NextBatch(t, acceptedSeq) /\ acceptedSeq' = acceptedSeq /\ inForce' = acceptedSeq
          /\ acceptedSeq \in [Appliers -> Nat]
      BY <1>1, <1>3, <2>1, <2>3 DEF Drain, FanOutRunning, FanOut, TypeOK
    <3>2. \A u \in Threads \ {t} : ~InBatch(u)
      BY <2>3 DEF FanOutRunning, FanOut, Serial
    <3>3. \A a \in Appliers \ (registered \cup removed) : acceptedSeq[a] = 0
      BY DEF FanOut, Fresh
    <3> QED BY <2>1, <3>1, <3>2, <3>3, NextBatchFanOut
  <2> QED BY <2>2, <2>3
<1>4. CASE Skip(t)
  <2>1. PICK a : threads' = [threads EXCEPT ![t].todo = @ \ {a}]
    BY <1>4 DEF Skip
  <2> DEFINE g == [threads[t] EXCEPT !.todo = @ \ {a}]
  <2>2. threads' = [threads EXCEPT ![t] = g] /\ g.pc = "batch" /\ threads[t].pc = "batch"
        /\ threads'[t] = g
    BY <1>1, <1>4, <2>1 DEF Skip, Thread
  <2>3. UNCHANGED <<delivering, registered, removed, deliveredSeq, acceptedSeq, current, observed,
                    inForce>>
    BY <1>4 DEF Skip, scopeVars, applierVars, historyVars
  <2>4. g.todo \subseteq threads[t].todo /\ g.accepts = threads[t].accepts
        /\ g.rejects = threads[t].rejects /\ g.obs = threads[t].obs
        /\ g.previous = threads[t].previous
    BY <1>1 DEF Thread
  <2>5. InBatch(t) /\ FanOutOK(t)
    BY <2>2 DEF InBatch, FanOut
  <2>6. Batch(t)' \subseteq Batch(t)
    BY <2>2, <2>4 DEF Batch
  <2> HIDE DEF g
  <2>7. FanOutOK(t)'
    BY <2>2, <2>3, <2>4, <2>5, <2>6 DEF FanOutOK
  <2> QED BY <1>2, <2>2, <2>3, <2>5, <2>7
<1>5. CASE Call(t)
  <2>1. PICK a \in threads[t].todo \ removed :
          threads' = [threads EXCEPT
            ![t] = [threads[t] EXCEPT !.pc = "calling", !.calling = a, !.todo = @ \ {a}]]
    BY <1>5 DEF Call
  <2> DEFINE g == [threads[t] EXCEPT !.pc = "calling", !.calling = a, !.todo = @ \ {a}]
  <2>2. threads' = [threads EXCEPT ![t] = g] /\ g.pc = "calling" /\ threads[t].pc = "batch"
        /\ threads'[t] = g
    BY <1>1, <1>5, <2>1 DEF Call, Thread
  <2>3. UNCHANGED <<delivering, registered, removed, deliveredSeq, acceptedSeq, current, observed,
                    inForce>>
    BY <1>5 DEF Call, scopeVars, applierVars
  <2>4. g.todo = threads[t].todo \ {a} /\ g.accepts = threads[t].accepts
        /\ g.rejects = threads[t].rejects /\ g.obs = threads[t].obs /\ g.calling = a
        /\ g.previous = threads[t].previous
    BY <1>1 DEF Thread
  <2>5. InBatch(t) /\ FanOutOK(t)
    BY <2>2 DEF InBatch, FanOut
  <2>6. Batch(t)' \subseteq Batch(t)
    BY <2>1, <2>2, <2>4 DEF Batch
  <2> HIDE DEF g
  <2>7. FanOutOK(t)'
    BY <2>1, <2>2, <2>3, <2>4, <2>5, <2>6 DEF FanOutOK
  <2> QED BY <1>2, <2>2, <2>3, <2>5, <2>7
<1>6. CASE Return(t)
  <2> DEFINE a == threads[t].calling
  <2>1. threads[t].pc = "calling" /\ a \in Appliers
    BY <1>6 DEF Return, TypeInv
  <2>2. InBatch(t) /\ FanOutOK(t)
    BY <2>1 DEF InBatch, FanOut
  <2>3. UNCHANGED <<delivering, registered, removed, deliveredSeq, acceptedSeq, current, observed>>
    BY <1>6 DEF Return, scopeVars, applierVars
  <2>4. inForce \in [Appliers -> Nat]
    BY <1>1 DEF TypeOK
  <2>5. CASE /\ threads' = [threads EXCEPT ![t] = [threads[t] EXCEPT
                              !.pc = "batch", !.calling = NoApplier, !.accepts = @ \cup {a}]]
             /\ inForce' = [inForce EXCEPT ![a] = threads[t].obs.seq]
    <3> DEFINE g == [threads[t] EXCEPT !.pc = "batch", !.calling = NoApplier,
                                       !.accepts = @ \cup {a}]
    <3>1. /\ g.pc = "batch" /\ g.todo = threads[t].todo /\ g.accepts = threads[t].accepts \cup {a}
          /\ g.rejects = threads[t].rejects /\ g.obs = threads[t].obs
          /\ g.previous = threads[t].previous
      BY <1>1 DEF Thread
    <3>2. threads' = [threads EXCEPT ![t] = g] /\ threads'[t] = g
      BY <1>1, <2>5
    <3> HIDE DEF g
    <3>3. Batch(t)' = Batch(t)
      BY <2>1, <3>1, <3>2 DEF Batch
    <3>4. FanOutOK(t)'
      BY <2>1, <2>2, <2>3, <2>4, <2>5, <3>1, <3>2, <3>3 DEF FanOutOK
    <3> QED BY <1>2, <2>2, <2>3, <3>1, <3>2, <3>4
  <2>6. CASE /\ threads' = [threads EXCEPT ![t] = [threads[t] EXCEPT
                              !.pc = "batch", !.calling = NoApplier, !.rejects = @ \cup {a}]]
             /\ UNCHANGED inForce
    <3> DEFINE g == [threads[t] EXCEPT !.pc = "batch", !.calling = NoApplier,
                                       !.rejects = @ \cup {a}]
    <3>1. /\ g.pc = "batch" /\ g.todo = threads[t].todo /\ g.accepts = threads[t].accepts
          /\ g.rejects = threads[t].rejects \cup {a} /\ g.obs = threads[t].obs
          /\ g.previous = threads[t].previous
      BY <1>1 DEF Thread
    <3>2. threads' = [threads EXCEPT ![t] = g] /\ threads'[t] = g
      BY <1>1, <2>6
    <3> HIDE DEF g
    <3>3. Batch(t)' = Batch(t)
      BY <2>1, <3>1, <3>2 DEF Batch
    <3>4. FanOutOK(t)'
      BY <2>1, <2>2, <2>3, <2>6, <3>1, <3>2, <3>3 DEF FanOutOK
    <3> QED BY <1>2, <2>2, <2>3, <3>1, <3>2, <3>4
  <2> QED BY <1>6, <2>5, <2>6 DEF Return
<1>7. CASE Record(t)
  <2> DEFINE accepted == [a \in Appliers |-> IF a \in threads[t].accepts
                                            THEN deliveredSeq[a] ELSE acceptedSeq[a]]
  <2>1. threads[t].pc = "batch" /\ threads[t].pc \in Busy /\ InBatch(t) /\ FanOutOK(t)
    BY <1>7 DEF Record, InBatch, FanOut, Busy
  <2>2. /\ accepted \in [Appliers -> Nat] /\ acceptedSeq' = accepted
        /\ NextBatch(t, accepted)
        /\ UNCHANGED <<registered, removed, current, observed, inForce>>
    BY <1>1, <1>7 DEF Record, TypeOK, scopeVars, applierVars, historyVars
  <2>3. inForce' = accepted
    <3>1. \A a \in Appliers : inForce[a] = accepted[a]
      BY <2>1 DEF FanOutOK, Batch
    <3>2. inForce \in [Appliers -> Nat]
      BY <1>1 DEF TypeOK
    <3> HIDE DEF accepted
    <3> QED BY <2>2, <3>1, <3>2
  <2>4. \A u \in Threads \ {t} : ~InBatch(u)
    BY <2>1 DEF FanOut, Serial
  <2>5. \A a \in Appliers \ (registered \cup removed) : accepted[a] = 0
    BY DEF FanOut, Fresh
  <2> HIDE DEF accepted
  <2> QED BY <2>1, <2>2, <2>3, <2>4, <2>5, NextBatchFanOut
<1> QED BY <1>3, <1>4, <1>5, <1>6, <1>7

(* A step keeps the fan-outs in order. *)
LEMMA StepFanOut == TypeInv /\ FanOut /\ [Next]_vars => FanOut'
<1>1. FanOut /\ UNCHANGED vars => FanOut'
  BY DEF FanOut, Serial, Fresh, NothingDropped, Pending, InBatch, FanOutOK, Batch, vars
<1> QED BY <1>1, PublishFanOut, RegisterFanOut, DrainFanOut DEF Next, AtRest

(* The inductive invariant of drain: one fan-out at a time, with its       *)
(* bookkeeping.                                                            *)
THEOREM FanOutsInOrder == Spec => []FanOut
BY InitFanOut, StepFanOut, TypeCorrect, PTL DEF Spec

(* A burst never drops its last item. *)
THEOREM BurstsKeepTheLast == Spec => []NothingDropped
<1>1. FanOut => NothingDropped
  BY DEF FanOut
<1> QED BY <1>1, FanOutsInOrder, PTL

(* Deliveries are serial, and the Previous handed to an applier is what it *)
(* last accepted.                                                          *)
THEOREM PreviousIsAccepted == Spec => []PreviousInForce
<1>1. TypeInv /\ FanOut => PreviousInForce
  <2> SUFFICES ASSUME TypeInv, FanOut, NEW t \in Threads, threads[t].pc = "calling"
               PROVE  /\ threads[t].previous[threads[t].calling] = inForce[threads[t].calling]
                      /\ \A u \in Threads \ {t} : threads[u].pc \notin {"batch", "calling"}
    BY DEF PreviousInForce
  <2>1. InBatch(t) /\ FanOutOK(t) /\ threads[t].calling \in Appliers
    BY DEF InBatch, FanOut, TypeInv
  <2>2. \A u \in Threads \ {t} : ~InBatch(u)
    BY <2>1 DEF FanOut, Serial
  <2> QED BY <2>1, <2>2 DEF FanOutOK, InBatch
<1> QED BY <1>1, TypeCorrect, FanOutsInOrder, PTL

-----------------------------------------------------------------------------
(* What Status reads. *)

(* A goroutine that has neither a stamp nor a fan-out after the step. *)
LEMMA OffStageStatus ==
  ASSUME TypeInv, Status, NEW t \in Threads, NEW g,
         threads' = [threads EXCEPT ![t] = g],
         ~InBatch(t), g.pc \notin {"batch", "calling", "stamped"},
         UNCHANGED <<seq, current, latestSeq, observed, desired, lastErr, registered,
                     acceptedSeq, deliveredSeq, appliedRev>>
  PROVE  Status'
<1>1. \A u \in Threads : threads'[u] = IF u = t THEN g ELSE threads[u]
  BY DEF TypeInv, TypeOK
<1>2. \A u \in Threads : InBatch(u)' <=> InBatch(u)
  BY <1>1 DEF InBatch
<1>3. \A u \in Threads : InBatch(u) => threads'[u] = threads[u] /\ Batch(u)' = Batch(u)
  BY <1>1 DEF Batch
<1>4. \A p \in Publishers : threads'[p].pc = "stamped" => threads'[p] = threads[p]
  BY <1>1 DEF Threads
<1>5. Numbered'
  BY <1>2, <1>3, <1>4 DEF Status, Numbered
<1>6. Pending' = Pending
  BY DEF Pending
<1>7. Errors'
  BY <1>2, <1>3, <1>6 DEF Status, Errors
<1> QED BY <1>5, <1>7 DEF Status, Revisions

(* The next turn of drain's loop, by the only goroutine that fans out. *)
LEMMA NextBatchStatus ==
  ASSUME TypeInv, Numbered, NEW t \in Threads, NEW accepted \in [Appliers -> Nat],
         \A u \in Threads \ {t} : ~InBatch(u),
         NextBatch(t, accepted), acceptedSeq' = accepted,
         UNCHANGED <<seq, current, latestSeq, observed, desired, registered>>,
         latestSeq = current.seq => desired = current.rev,
         \A a \in Appliers : accepted[a] <= deliveredSeq[a],
         \A a \in Appliers : accepted[a] = current.seq => appliedRev'[a] = current.rev,
         lastErr' => latestSeq > 0,
         lastErr' /\ registered # {} => \E a \in registered : accepted[a] < latestSeq,
         ~lastErr' => latestSeq = current.seq
           /\ \A a \in registered : accepted[a] < latestSeq => a \in Pending
  PROVE  Status'
<1> DEFINE g == IF Pending = {} THEN IdleThread
                ELSE [IdleThread EXCEPT !.pc = "batch", !.obs = current, !.todo = Pending,
                                        !.previous = accepted]
<1>1. \A u \in Threads : threads'[u] = IF u = t THEN g ELSE threads[u]
  BY DEF TypeInv, TypeOK, NextBatch
<1>2. /\ g.pc = (IF Pending = {} THEN "idle" ELSE "batch") /\ g.accepts = {} /\ g.rejects = {}
      /\ Pending # {} => g.obs = current /\ g.todo = Pending
  BY DEF IdleThread
<1> HIDE DEF g
<1>3. Pending \subseteq Appliers /\ current.seq \in Nat /\ deliveredSeq \in [Appliers -> Nat]
  BY DEF Pending, TypeInv, TypeOK, Observation
<1>4. \A a \in Appliers : deliveredSeq'[a] = IF a \in Pending THEN current.seq ELSE deliveredSeq[a]
  BY DEF NextBatch
<1>5. \A u \in Threads : InBatch(u)' <=> (u = t /\ Pending # {})
  BY <1>1, <1>2 DEF InBatch
<1>6. \A a \in Appliers : accepted[a] <= deliveredSeq'[a] /\ deliveredSeq'[a] <= current.seq
  <2> TAKE a \in Appliers
  <2>1. a \in Pending => deliveredSeq[a] < current.seq
    BY DEF Pending
  <2>2. accepted[a] <= deliveredSeq[a] /\ deliveredSeq[a] <= current.seq
    BY DEF Numbered
  <2>3. accepted[a] \in Nat /\ deliveredSeq[a] \in Nat
    BY <1>3
  <2> QED BY <1>3, <1>4, <2>1, <2>2, <2>3
<1>7. \A p \in Publishers : threads'[p].pc = "stamped" =>
        threads'[p] = threads[p] /\ threads[p].pc = "stamped"
  BY <1>1, <1>2 DEF Threads
<1>8. Pending # {} => current.seq > 0
  BY <1>3 DEF Pending
<1>9. Numbered'
  <2>1. \A u \in Threads : InBatch(u)' => threads'[u].obs = current /\ current.seq > 0
    BY <1>1, <1>2, <1>5, <1>8
  <2> QED BY <1>3, <1>6, <1>7, <2>1 DEF Numbered
<1>10. Pending # {} => Batch(t)' = Pending
  BY <1>1, <1>2 DEF Batch
<1>11. Errors'
  BY <1>5, <1>10 DEF Errors
<1>12. Revisions'
  BY DEF Revisions
<1> QED BY <1>9, <1>11, <1>12 DEF Status

(* Init. *)
LEMMA InitStatus == Init => Status
<1> SUFFICES ASSUME Init PROVE Status
  OBVIOUS
<1>1. /\ \A t \in Threads : threads[t].pc = "idle"
      /\ current.seq = 0 /\ current.rev = 0 /\ latestSeq = 0 /\ seq = 0 /\ desired = 0
      /\ observed = FALSE /\ lastErr = FALSE /\ registered = {}
      /\ \A a \in Appliers : acceptedSeq[a] = 0 /\ deliveredSeq[a] = 0 /\ appliedRev[a] = 0
  BY DEF Init, IdleThread, NoObservation
<1> QED BY <1>1 DEF Status, Numbered, Revisions, Errors, InBatch, Threads

(* An observation newer than every other, committed by a goroutine that    *)
(* runs no fan-out.                                                        *)
LEMMA ObserveStatus ==
  ASSUME TypeInv, Status, FanOut, NEW pub \in Publication, NEW s \in Nat, NEW t \in Threads, NEW g,
         threads' = [threads EXCEPT ![t] = g],
         ~InBatch(t), g.pc \notin {"batch", "calling", "stamped"},
         Observe(pub, s), s > latestSeq, s <= seq',
         \A p \in Publishers \ {t} : threads[p].pc = "stamped" => threads[p].seq # s,
         seq' \in Nat, seq <= seq', registered \subseteq registered', registered' \subseteq Appliers,
         UNCHANGED <<acceptedSeq, deliveredSeq, appliedRev>>
  PROVE  Status'
<1>1. \A u \in Threads : threads'[u] = IF u = t THEN g ELSE threads[u]
  BY DEF TypeInv, TypeOK
<1>2. \A u \in Threads : InBatch(u)' <=> InBatch(u)
  BY <1>1 DEF InBatch
<1>3. \A u \in Threads : InBatch(u) => threads'[u] = threads[u]
  BY <1>1
<1>4. \A p \in Publishers : threads'[p].pc = "stamped" =>
        threads'[p] = threads[p] /\ threads[p].pc = "stamped" /\ p # t
  BY <1>1 DEF Threads
<1>5. /\ latestSeq \in Nat /\ current.seq \in Nat /\ seq \in Nat
      /\ acceptedSeq \in [Appliers -> Nat] /\ deliveredSeq \in [Appliers -> Nat]
      /\ \A u \in Threads : threads[u].obs.seq \in Nat /\ threads[u].seq \in Nat
  BY DEF TypeInv, TypeOK, Observation, Thread
<1>6. \A a \in Appliers : acceptedSeq[a] < s /\ deliveredSeq[a] < s /\ acceptedSeq[a] <= deliveredSeq[a]
                          /\ deliveredSeq[a] <= current.seq
  BY <1>5 DEF Status, Numbered
<1>7. current.seq < s /\ \A u \in Threads : InBatch(u) => threads[u].obs.seq < s
  BY <1>5 DEF Status, Numbered
<1>8. latestSeq' = s /\ observed' = TRUE /\ desired' = pub.rev
  BY DEF Observe
<1>9. \A p \in Publishers : threads'[p].pc = "stamped" =>
        threads'[p].seq \in 1 .. seq' /\ threads'[p].seq # s
  <2> SUFFICES ASSUME NEW p \in Publishers, threads'[p].pc = "stamped"
               PROVE  threads'[p].seq \in 1 .. seq' /\ threads'[p].seq # s
    OBVIOUS
  <2>1. threads'[p] = threads[p] /\ threads[p].pc = "stamped" /\ p # t
    BY <1>4
  <2>2. threads[p].seq \in 1 .. seq /\ threads[p].seq # s
    BY <2>1 DEF Status, Numbered
  <2> QED BY <1>5, <2>1, <2>2
<1>10. \A p, q \in Publishers :
         p # q /\ threads'[p].pc = "stamped" /\ threads'[q].pc = "stamped" =>
           threads'[p].seq # threads'[q].seq
  BY <1>4 DEF Status, Numbered
<1>11. CASE pub.doc \in Undecodable
  <2>1. lastErr' = TRUE /\ UNCHANGED current
    BY <1>11 DEF Observe
  <2>2. Numbered'
    BY <1>2, <1>3, <1>5, <1>6, <1>7, <1>8, <1>9, <1>10, <2>1 DEF Status, Numbered
  <2>3. Revisions'
    BY <1>7, <1>8, <1>5, <2>1 DEF Status, Revisions
  <2>4. Errors'
    BY <1>6, <1>5, <1>8, <2>1 DEF Errors
  <2> QED BY <2>2, <2>3, <2>4 DEF Status
<1>12. CASE pub.doc \notin Undecodable
  <2>1. lastErr' = lastErr /\ current'.seq = s /\ current'.rev = pub.rev
    BY <1>12 DEF Observe
  <2>2. Numbered'
    BY <1>2, <1>3, <1>5, <1>6, <1>7, <1>8, <1>9, <1>10, <2>1 DEF Status, Numbered
  <2>3. Revisions'
    BY <1>6, <1>5, <1>8, <2>1 DEF Revisions
  <2>4. Errors'
    <3>1. lastErr' /\ registered' # {} => \E a \in registered' : acceptedSeq'[a] < latestSeq'
      BY <1>6, <1>8
    <3>2. \A a \in registered' : a \in Pending'
      BY <1>6, <2>1 DEF Pending
    <3> QED BY <1>5, <1>8, <2>1, <3>1, <3>2 DEF Errors
  <2> QED BY <2>2, <2>3, <2>4 DEF Status
<1> QED BY <1>11, <1>12

(* The Client, and an arrival up to its commit. *)
LEMMA PublishStatus ==
  ASSUME TypeInv, FanOut, Status,
         \/ ClientPublishes
         \/ \E p \in Publishers : TakeChange(p) \/ Stamp(p) \/ Commit(p)
  PROVE  Status'
<1>1. threads \in [Threads -> Thread] /\ Publishers \subseteq Threads
  BY DEF TypeInv, TypeOK, Threads
<1>2. CASE ClientPublishes
  BY <1>2 DEF ClientPublishes, Status, Numbered, Revisions, Errors, Pending, InBatch, Batch,
       scopeVars, applierVars
<1>3. ASSUME NEW p \in Publishers, TakeChange(p) PROVE Status'
  <2> DEFINE g == [threads[p] EXCEPT !.pc = "taken", !.pub = InForce]
  <2>1. g.pc = "taken"
    BY <1>1 DEF Thread
  <2>2. threads' = [threads EXCEPT ![p] = g] /\ ~InBatch(p)
    BY <1>3 DEF TakeChange, InBatch
  <2>3. UNCHANGED <<seq, current, latestSeq, observed, desired, lastErr, registered,
                    acceptedSeq, deliveredSeq, appliedRev>>
    BY <1>3 DEF TakeChange, scopeVars, applierVars
  <2> HIDE DEF g
  <2> QED BY <1>1, <2>1, <2>2, <2>3, OffStageStatus
<1>4. ASSUME NEW p \in Publishers, Stamp(p) PROVE Status'
  <2> DEFINE g == [threads[p] EXCEPT !.pc = "stamped", !.seq = NextSeq]
  <2>1. g.pc = "stamped" /\ g.seq = NextSeq
    BY <1>1 DEF Thread
  <2>2. threads' = [threads EXCEPT ![p] = g] /\ ~InBatch(p) /\ threads[p].pc = "taken"
    BY <1>4 DEF Stamp, InBatch
  <2>3. UNCHANGED <<current, latestSeq, observed, desired, lastErr, registered,
                    acceptedSeq, deliveredSeq, appliedRev>> /\ seq' = seq + 1
    BY <1>4 DEF Stamp, NextSeq, scopeVars, applierVars
  <2> HIDE DEF g
  <2>4. \A u \in Threads : threads'[u] = IF u = p THEN g ELSE threads[u]
    BY <1>1, <2>2
  <2>5. \A u \in Threads : InBatch(u)' <=> InBatch(u)
    BY <2>1, <2>2, <2>4 DEF InBatch
  <2>6. \A u \in Threads : InBatch(u) => threads'[u] = threads[u] /\ Batch(u)' = Batch(u)
    BY <2>2, <2>4 DEF Batch
  <2>7. seq \in Nat /\ latestSeq \in Nat /\ NextSeq = seq + 1
    BY DEF TypeInv, TypeOK, NextSeq
  <2>8. \A q \in Publishers : threads[q].pc = "stamped" =>
          threads[q].seq \in 1 .. seq /\ threads[q].seq # latestSeq
    BY DEF Status, Numbered
  <2>9. \A q \in Publishers : threads'[q].pc = "stamped" =>
          threads'[q].seq \in 1 .. seq' /\ threads'[q].seq # latestSeq
    <3> SUFFICES ASSUME NEW q \in Publishers, threads'[q].pc = "stamped"
                 PROVE  threads'[q].seq \in 1 .. seq' /\ threads'[q].seq # latestSeq
      OBVIOUS
    <3>1. CASE q = p
      <4>1. threads'[q].seq = seq + 1 /\ latestSeq <= seq
        BY <1>1, <2>1, <2>4, <2>7, <3>1 DEF Status, Numbered
      <4> QED BY <2>3, <2>7, <4>1
    <3>2. CASE q # p
      <4>1. threads'[q] = threads[q]
        BY <1>1, <2>4, <3>2
      <4> QED BY <2>3, <2>7, <2>8, <4>1
    <3> QED BY <3>1, <3>2
  <2>10. \A q, o \in Publishers :
           q # o /\ threads'[q].pc = "stamped" /\ threads'[o].pc = "stamped" =>
             threads'[q].seq # threads'[o].seq
    <3> SUFFICES ASSUME NEW q \in Publishers, NEW o \in Publishers, q # o,
                        threads'[q].pc = "stamped", threads'[o].pc = "stamped"
                 PROVE  threads'[q].seq # threads'[o].seq
      OBVIOUS
    <3>1. CASE q = p
      <4>1. threads'[o] = threads[o] /\ threads'[q].seq = seq + 1
        BY <1>1, <2>1, <2>4, <2>7, <3>1
      <4>2. threads[o].seq \in 1 .. seq
        BY <2>8, <4>1
      <4> QED BY <2>7, <4>1, <4>2
    <3>2. CASE o = p
      <4>1. threads'[q] = threads[q] /\ threads'[o].seq = seq + 1
        BY <1>1, <2>1, <2>4, <2>7, <3>2
      <4>2. threads[q].seq \in 1 .. seq
        BY <2>8, <4>1
      <4> QED BY <2>7, <4>1, <4>2
    <3>3. CASE q # p /\ o # p
      BY <1>1, <2>4, <3>3 DEF Status, Numbered
    <3> QED BY <3>1, <3>2, <3>3
  <2>11. latestSeq' <= seq'
    BY <2>3, <2>7 DEF Status, Numbered
  <2>12. Numbered'
    BY <2>3, <2>5, <2>6, <2>9, <2>10, <2>11 DEF Status, Numbered
  <2>13. Pending' = Pending
    BY <2>3 DEF Pending
  <2>14. Errors' /\ Revisions'
    BY <2>3, <2>5, <2>6, <2>13 DEF Status, Errors, Revisions
  <2> QED BY <2>12, <2>14 DEF Status
<1>5. ASSUME NEW p \in Publishers, Commit(p) PROVE Status'
  <2>1. threads[p].pc = "stamped" /\ ~InBatch(p) /\ threads[p].pub \in Publication
        /\ threads[p].seq \in Nat
    BY <1>1, <1>5 DEF Commit, InBatch, Thread
  <2>2. IdleThread.pc = "idle" /\ [IdleThread EXCEPT !.pc = "drain"].pc = "drain"
    BY DEF IdleThread
  <2>3. UNCHANGED <<seq, registered, acceptedSeq, deliveredSeq, appliedRev>>
    BY <1>5 DEF Commit, applierVars
  <2>4. CASE /\ threads' = [threads EXCEPT ![p] = IdleThread]
             /\ UNCHANGED <<current, observed, desired, latestSeq, lastErr>>
    BY <1>1, <2>1, <2>2, <2>3, <2>4, OffStageStatus
  <2>5. ASSUME ~CommittedLate(threads[p].seq), Observe(threads[p].pub, threads[p].seq),
               NEW g \in {IdleThread, [IdleThread EXCEPT !.pc = "drain"]},
               threads' = [threads EXCEPT ![p] = g]
        PROVE  Status'
    <3>1. /\ threads[p].seq \in 1 .. seq /\ threads[p].seq # latestSeq
          /\ \A q \in Publishers \ {p} : threads[q].pc = "stamped" => threads[q].seq # threads[p].seq
      BY <2>1 DEF Status, Numbered
    <3>2. latestSeq \in Nat /\ seq \in Nat /\ registered \subseteq Appliers
      BY DEF TypeInv, TypeOK
    <3>3. threads[p].seq > latestSeq /\ threads[p].seq <= seq' /\ seq <= seq' /\ seq' \in Nat
      BY <2>1, <2>3, <2>5, <3>1, <3>2 DEF CommittedLate
    <3>4. g.pc \notin {"batch", "calling", "stamped"}
      BY <2>2, <2>5
    <3> QED BY <1>1, <2>1, <2>3, <2>5, <3>1, <3>2, <3>3, <3>4, ObserveStatus
  <2> QED BY <1>5, <2>4, <2>5 DEF Commit
<1> QED BY <1>2, <1>3, <1>4, <1>5

(* An applier that has accepted the newest observation has accepted the    *)
(* current one, so the two are the same.                                   *)
LEMMA AcceptedNewest ==
  ASSUME TypeInv, Numbered, NEW a \in Appliers, NEW n \in Nat,
         ~(n < latestSeq), n <= deliveredSeq[a]
  PROVE  latestSeq = current.seq
<1>1. latestSeq \in Nat /\ current.seq \in Nat /\ deliveredSeq[a] \in Nat
  BY DEF TypeInv, TypeOK, Observation
<1>2. deliveredSeq[a] <= current.seq /\ current.seq <= latestSeq
  BY DEF Numbered
<1> QED BY <1>1, <1>2

(* Registering and leaving. *)
LEMMA RegisterStatus ==
  ASSUME TypeInv, TypeInv', FanOut, Status, NEW a \in Appliers, Register(a) \/ Unsubscribe(a)
  PROVE  Status'
<1>1. threads \in [Threads -> Thread] /\ a \in Threads
  BY DEF TypeInv, TypeOK, Threads
<1>2. /\ latestSeq \in Nat /\ current.seq \in Nat /\ seq \in Nat /\ registered \subseteq Appliers
      /\ acceptedSeq \in [Appliers -> Nat] /\ deliveredSeq \in [Appliers -> Nat]
  BY DEF TypeInv, TypeOK, Observation
<1>3. CASE Register(a)
  <2> DEFINE pc == IF observed' THEN "drain" ELSE "idle"
             g == [threads[a] EXCEPT !.pc = pc]
  <2>1. /\ threads' = [threads EXCEPT ![a] = g] /\ registered' = registered \cup {a}
        /\ a \notin registered \cup removed
        /\ UNCHANGED <<acceptedSeq, deliveredSeq, appliedRev>>
    BY <1>1, <1>3 DEF Register, historyVars
  <2>2. threads[a].pc = "idle" /\ deliveredSeq[a] = 0 /\ acceptedSeq[a] = 0 /\ g.pc = pc
    BY <1>1, <2>1 DEF FanOut, Fresh, Thread
  <2>3. ~InBatch(a) /\ g.pc \notin {"batch", "calling", "stamped"}
    BY <2>2 DEF InBatch
  <2> HIDE DEF pc, g
  <2>4. CASE Seed
    <3>1. InForce \in Publication /\ NextSeq \in Nat
      BY <2>4 DEF Seed, InForce, NextSeq, TypeInv, TypeOK
    <3>2. Observe(InForce, NextSeq) /\ seq' = NextSeq /\ NextSeq = seq + 1
      BY <2>4 DEF Seed, NextSeq
    <3>3. \A p \in Publishers \ {a} : threads[p].pc = "stamped" => threads[p].seq # NextSeq
      BY <1>2, <3>2 DEF Status, Numbered
    <3>4. NextSeq > latestSeq /\ NextSeq <= seq' /\ seq <= seq' /\ seq' \in Nat
      BY <1>2, <3>1, <3>2 DEF Status, Numbered
    <3>5. registered \subseteq registered' /\ registered' \subseteq Appliers
      BY <1>2, <2>1
    <3> QED BY <1>1, <2>1, <2>3, <3>1, <3>2, <3>3, <3>4, <3>5, ObserveStatus
  <2>5. CASE UNCHANGED <<scopeVars, seq, lastErr>>
    <3>1. UNCHANGED <<seq, current, latestSeq, observed, desired, lastErr>>
      BY <2>5 DEF scopeVars
    <3>2. \A u \in Threads : threads'[u] = IF u = a THEN g ELSE threads[u]
      BY <1>1, <2>1
    <3>3. \A u \in Threads : InBatch(u)' <=> InBatch(u)
      BY <2>3, <3>2 DEF InBatch
    <3>4. \A u \in Threads : InBatch(u) => threads'[u] = threads[u] /\ Batch(u)' = Batch(u)
      BY <2>3, <3>2 DEF Batch
    <3>5. \A p \in Publishers : threads'[p] = threads[p]
      BY <3>2, ActorsAssumption DEF Threads
    <3>6. Numbered' /\ Revisions'
      BY <2>1, <3>1, <3>3, <3>4, <3>5 DEF Status, Numbered, Revisions
    <3>7. Pending \subseteq Pending'
      BY <2>1, <3>1 DEF Pending
    <3>8. lastErr => acceptedSeq'[a] < latestSeq'
      BY <1>2, <2>1, <2>2, <3>1 DEF Status, Errors
    <3>9. ~lastErr /\ acceptedSeq'[a] < latestSeq' => a \in Pending'
      BY <1>2, <2>1, <2>2, <3>1 DEF Status, Errors, Pending
    <3>10. Errors'
      <4>1. lastErr' => latestSeq' > 0 /\ \E b \in registered' : acceptedSeq'[b] < latestSeq'
        BY <2>1, <3>1, <3>8 DEF Status, Errors
      <4>2. ASSUME ~lastErr' PROVE latestSeq' = current'.seq
        BY <3>1, <4>2 DEF Status, Errors
      <4>3. ASSUME ~lastErr', NEW b \in registered', acceptedSeq'[b] < latestSeq'
            PROVE  b \in Pending' \/ \E t \in Threads : InBatch(t)' /\ b \in Batch(t)'
        <5>1. CASE b = a
          BY <3>1, <3>9, <4>3, <5>1
        <5>2. CASE b # a
          BY <2>1, <3>1, <3>3, <3>4, <3>7, <4>3, <5>2 DEF Status, Errors
        <5> QED BY <5>1, <5>2
      <4> QED BY <4>1, <4>2, <4>3 DEF Errors
    <3> QED BY <3>6, <3>10 DEF Status
  <2> QED BY <1>3, <2>4, <2>5 DEF Register
<1>4. CASE Unsubscribe(a)
  <2>1. /\ registered' = registered \ {a}
        /\ lastErr' = ErrAfter(lastErr, registered \ {a}, acceptedSeq)
        /\ UNCHANGED <<seq, current, latestSeq, observed, desired, acceptedSeq, deliveredSeq,
                       appliedRev, threads>>
    BY <1>4 DEF Unsubscribe, scopeVars
  <2>2. Numbered' /\ Revisions'
    BY <2>1 DEF Status, Numbered, Revisions, InBatch
  <2>3. \A b \in registered' : b \in Pending => b \in Pending'
    BY <2>1 DEF Pending
  <2>4. Errors'
    <3>1. lastErr' => lastErr /\ (registered' = {} \/ \E b \in registered' : acceptedSeq[b] < latestSeq)
      BY <2>1 DEF ErrAfter
    <3>2. CASE lastErr'
      BY <2>1, <3>1, <3>2 DEF Status, Errors
    <3>3. CASE ~lastErr
      BY <2>1, <2>3, <3>1, <3>3 DEF Status, Errors, InBatch, Batch
    <3>4. CASE ~lastErr' /\ lastErr
      <4>1. registered' # {} /\ \A b \in registered' : ~(acceptedSeq[b] < latestSeq)
        BY <2>1, <3>4 DEF ErrAfter
      <4>2. PICK b \in registered' : ~(acceptedSeq[b] < latestSeq)
        BY <4>1
      <4>3. b \in Appliers /\ acceptedSeq[b] \in Nat /\ acceptedSeq[b] <= deliveredSeq[b]
        BY <1>2, <2>1, <4>2 DEF Status, Numbered
      <4>4. latestSeq = current.seq
        BY <4>2, <4>3, AcceptedNewest DEF Status
      <4> QED BY <2>1, <3>4, <4>1, <4>4 DEF Errors
    <3> QED BY <3>2, <3>3, <3>4
  <2> QED BY <2>2, <2>4 DEF Status
<1> QED BY <1>3, <1>4

(* A fan-out starts, calls and records. *)
LEMMA DrainStatus ==
  ASSUME TypeInv, TypeInv', FanOut, Status, NEW t \in Threads,
         Drain(t) \/ Skip(t) \/ Call(t) \/ Return(t) \/ Record(t)
  PROVE  Status'
<1>1. TypeOK /\ threads \in [Threads -> Thread] /\ threads[t] \in Thread
  BY DEF TypeInv, TypeOK
<1>2. /\ latestSeq \in Nat /\ current.seq \in Nat /\ registered \subseteq Appliers
      /\ acceptedSeq \in [Appliers -> Nat] /\ deliveredSeq \in [Appliers -> Nat]
  BY DEF TypeInv, TypeOK, Observation
<1>3. ASSUME NEW g, threads' = [threads EXCEPT ![t] = g], InBatch(t), g.pc \in {"batch", "calling"},
             g.obs = threads[t].obs, \A a \in registered : a \in Batch(t) => a \in Batch(t)',
             UNCHANGED <<seq, current, latestSeq, observed, desired, lastErr, registered,
                         acceptedSeq, deliveredSeq, appliedRev>>
      PROVE  Status'
  <2>1. \A u \in Threads : threads'[u] = IF u = t THEN g ELSE threads[u]
    BY <1>1, <1>3
  <2>2. \A u \in Threads : (InBatch(u)' <=> InBatch(u)) /\ threads'[u].obs = threads[u].obs
    BY <1>3, <2>1 DEF InBatch
  <2>3. \A p \in Publishers : threads'[p].pc = "stamped" =>
          threads'[p] = threads[p] /\ threads[p].pc = "stamped"
    BY <1>3, <2>1 DEF Threads
  <2>4. Numbered'
    BY <1>3, <2>2, <2>3 DEF Status, Numbered
  <2>5. \A u \in Threads, a \in registered : a \in Batch(u) => a \in Batch(u)'
    BY <1>3, <2>1 DEF Batch
  <2>6. Pending' = Pending
    BY <1>3 DEF Pending
  <2>7. Errors' /\ Revisions'
    BY <1>3, <2>2, <2>5, <2>6 DEF Status, Errors, Revisions
  <2> QED BY <2>4, <2>7 DEF Status
<1>4. CASE Drain(t)
  <2>1. UNCHANGED <<seq, current, latestSeq, observed, desired, lastErr, registered,
                    acceptedSeq, appliedRev>> /\ threads[t].pc = "drain"
    BY <1>4 DEF Drain, scopeVars, applierVars
  <2>2. CASE FanOutRunning
    <3>1. threads' = [threads EXCEPT ![t] = IdleThread] /\ UNCHANGED deliveredSeq
      BY <1>4, <2>2 DEF Drain
    <3>2. ~InBatch(t) /\ IdleThread.pc = "idle"
      BY <2>1 DEF InBatch, IdleThread
    <3> QED BY <2>1, <3>1, <3>2, OffStageStatus
  <2>3. CASE ~FanOutRunning
    <3>1. NextBatch(t, acceptedSeq) /\ acceptedSeq' = acceptedSeq
      BY <1>4, <2>1, <2>3 DEF Drain
    <3>2. \A u \in Threads : ~InBatch(u)
      BY <2>3 DEF FanOutRunning, FanOut, Serial
    <3>3. /\ \A a \in Appliers : acceptedSeq[a] <= deliveredSeq[a]
          /\ \A a \in Appliers : acceptedSeq[a] = current.seq => appliedRev'[a] = current.rev
          /\ latestSeq = current.seq => desired = current.rev
      BY <2>1 DEF Status, Numbered, Revisions
    <3>4. /\ lastErr' => latestSeq > 0
          /\ lastErr' /\ registered # {} => \E a \in registered : acceptedSeq[a] < latestSeq
          /\ ~lastErr' => latestSeq = current.seq
               /\ \A a \in registered : acceptedSeq[a] < latestSeq => a \in Pending
      BY <2>1, <3>2 DEF Status, Errors
    <3> QED BY <1>2, <2>1, <3>1, <3>2, <3>3, <3>4, NextBatchStatus DEF Status
  <2> QED BY <2>2, <2>3
<1>5. CASE Skip(t)
  <2>1. PICK a \in threads[t].todo \cap removed : threads' = [threads EXCEPT ![t].todo = @ \ {a}]
    BY <1>5 DEF Skip
  <2> DEFINE g == [threads[t] EXCEPT !.todo = @ \ {a}]
  <2>2. threads' = [threads EXCEPT ![t] = g] /\ threads'[t] = g /\ threads[t].pc = "batch" /\ InBatch(t)
    BY <1>1, <1>5, <2>1 DEF Skip, InBatch
  <2>3. g.pc = "batch" /\ g.obs = threads[t].obs /\ g.todo = threads[t].todo \ {a}
        /\ g.accepts = threads[t].accepts /\ g.rejects = threads[t].rejects
    BY <1>1, <2>2 DEF Thread
  <2> HIDE DEF g
  <2>4. UNCHANGED <<seq, current, latestSeq, observed, desired, lastErr, registered,
                    acceptedSeq, deliveredSeq, appliedRev>>
    BY <1>5 DEF Skip, scopeVars, applierVars
  <2>5. a \notin registered
    BY <2>1 DEF FanOut, Fresh
  <2>6. \A b \in registered : b \in Batch(t) => b \in Batch(t)'
    BY <2>2, <2>3, <2>5 DEF Batch
  <2> QED BY <1>3, <2>2, <2>3, <2>4, <2>6
<1>6. CASE Call(t)
  <2>1. PICK a \in threads[t].todo \ removed :
          threads' = [threads EXCEPT
            ![t] = [threads[t] EXCEPT !.pc = "calling", !.calling = a, !.todo = @ \ {a}]]
    BY <1>6 DEF Call
  <2> DEFINE g == [threads[t] EXCEPT !.pc = "calling", !.calling = a, !.todo = @ \ {a}]
  <2>2. threads' = [threads EXCEPT ![t] = g] /\ threads'[t] = g /\ threads[t].pc = "batch" /\ InBatch(t)
    BY <1>1, <1>6, <2>1 DEF Call, InBatch
  <2>3. g.pc = "calling" /\ g.obs = threads[t].obs /\ g.todo = threads[t].todo \ {a}
        /\ g.accepts = threads[t].accepts /\ g.rejects = threads[t].rejects /\ g.calling = a
    BY <1>1, <2>2 DEF Thread
  <2> HIDE DEF g
  <2>4. UNCHANGED <<seq, current, latestSeq, observed, desired, lastErr, registered,
                    acceptedSeq, deliveredSeq, appliedRev>>
    BY <1>6 DEF Call, scopeVars, applierVars
  <2>5. \A b \in registered : b \in Batch(t) => b \in Batch(t)'
    BY <2>2, <2>3 DEF Batch
  <2> QED BY <1>3, <2>2, <2>3, <2>4, <2>5
<1>7. CASE Return(t)
  <2> DEFINE a == threads[t].calling
  <2>1. PICK g \in {[threads[t] EXCEPT !.pc = "batch", !.calling = NoApplier, !.accepts = @ \cup {a}],
                    [threads[t] EXCEPT !.pc = "batch", !.calling = NoApplier, !.rejects = @ \cup {a}]} :
          threads' = [threads EXCEPT ![t] = g]
    BY <1>7 DEF Return
  <2>2. g.pc = "batch" /\ g.obs = threads[t].obs /\ g.todo = threads[t].todo
        /\ g.accepts \cup g.rejects = threads[t].accepts \cup threads[t].rejects \cup {a}
    BY <1>1, <2>1 DEF Thread
  <2>3. threads'[t] = g /\ threads[t].pc = "calling" /\ InBatch(t)
    BY <1>1, <1>7, <2>1 DEF Return, InBatch
  <2>4. UNCHANGED <<seq, current, latestSeq, observed, desired, lastErr, registered,
                    acceptedSeq, deliveredSeq, appliedRev>>
    BY <1>7 DEF Return, scopeVars, applierVars
  <2>5. \A b \in registered : b \in Batch(t) => b \in Batch(t)'
    BY <2>2, <2>3 DEF Batch
  <2> QED BY <1>3, <2>1, <2>2, <2>3, <2>4, <2>5
<1>8. CASE Record(t)
  <2> DEFINE th == threads[t]
             accepted == [a \in Appliers |-> IF a \in th.accepts
                                            THEN deliveredSeq[a] ELSE acceptedSeq[a]]
  <2>1. th.pc = "batch" /\ th.todo = {} /\ InBatch(t) /\ FanOutOK(t)
    BY <1>8 DEF Record, InBatch, FanOut
  <2>2. /\ accepted \in [Appliers -> Nat] /\ acceptedSeq' = accepted
        /\ NextBatch(t, accepted)
        /\ UNCHANGED <<seq, current, latestSeq, observed, desired, registered>>
    BY <1>2, <1>8 DEF Record, scopeVars, applierVars
  <2>3. \A u \in Threads \ {t} : ~InBatch(u)
    BY <2>1 DEF FanOut, Serial
  <2>4. \A a \in Appliers : accepted[a] <= deliveredSeq[a]
    BY <1>2 DEF Status, Numbered
  <2>5. lastErr' = ErrAfter(lastErr \/ th.rejects # {}, registered, accepted)
    BY <1>8 DEF Record
  <2>6. \A a \in Appliers : a \in th.accepts => accepted[a] = th.obs.seq /\ deliveredSeq[a] = accepted[a]
    BY <2>1 DEF FanOutOK, Batch
  <2>7. \A a \in Appliers : a \notin th.accepts => accepted[a] = acceptedSeq[a]
    OBVIOUS
  <2>8. \A a \in Appliers : appliedRev'[a] = IF a \in th.accepts THEN th.obs.rev ELSE appliedRev[a]
    BY <1>8 DEF Record
  <2> HIDE DEF accepted
  <2>9. \A a \in Appliers : accepted[a] = current.seq => appliedRev'[a] = current.rev
    BY <2>1, <2>6, <2>7, <2>8 DEF Status, Numbered, Revisions
  <2>10. latestSeq > 0
    <3>1. th.obs.seq \in Nat /\ th.obs.seq > 0 /\ th.obs.seq <= current.seq /\ current.seq <= latestSeq
      BY <1>1, <2>1 DEF Status, Numbered, Thread, Observation
    <3> QED BY <1>2, <3>1
  <2>11. lastErr' /\ registered # {} => \E a \in registered : accepted[a] < latestSeq
    BY <2>5 DEF ErrAfter
  <2>12. ASSUME ~lastErr'
         PROVE  latestSeq = current.seq
                /\ \A a \in registered : accepted[a] < latestSeq => a \in Pending
    <3>1. CASE ~(lastErr \/ th.rejects # {})
      <4>1. latestSeq = current.seq
        BY <3>1 DEF Status, Errors
      <4>2. ASSUME NEW a \in registered, accepted[a] < latestSeq PROVE a \in Pending
        <5>1. CASE a \in th.accepts
          BY <1>2, <2>6, <4>1, <4>2, <5>1 DEF Pending
        <5>2. CASE a \notin th.accepts
          <6>1. a \notin Batch(t)
            BY <2>1, <3>1, <5>2 DEF Batch
          <6>2. acceptedSeq[a] < latestSeq
            BY <1>2, <2>7, <4>2, <5>2
          <6> QED BY <2>3, <3>1, <6>1, <6>2 DEF Status, Errors
        <5> QED BY <5>1, <5>2
      <4> QED BY <4>1, <4>2
    <3>2. CASE registered # {} /\ \A a \in registered : ~(accepted[a] < latestSeq)
      <4>1. PICK a \in registered : ~(accepted[a] < latestSeq)
        BY <3>2
      <4>2. a \in Appliers /\ accepted[a] \in Nat /\ accepted[a] <= deliveredSeq[a]
        BY <1>2, <2>2, <2>4, <4>1
      <4>3. latestSeq = current.seq
        BY <4>1, <4>2, AcceptedNewest DEF Status
      <4> QED BY <3>2, <4>3
    <3> QED BY <2>5, <2>12, <3>1, <3>2 DEF ErrAfter
  <2>13. latestSeq = current.seq => desired = current.rev
    BY DEF Status, Revisions
  <2> QED BY <2>2, <2>3, <2>4, <2>9, <2>10, <2>11, <2>12, <2>13, NextBatchStatus DEF Status
<1> QED BY <1>4, <1>5, <1>6, <1>7, <1>8

(* A step keeps what Status reads. *)
LEMMA StepStatus == TypeInv /\ TypeInv' /\ FanOut /\ Status /\ [Next]_vars => Status'
<1>1. Status /\ UNCHANGED vars => Status'
  BY DEF Status, Numbered, Revisions, Errors, Pending, InBatch, Batch, vars
<1> QED BY <1>1, PublishStatus, RegisterStatus, DrainStatus DEF Next, AtRest

(* The inductive invariant of the sequence numbers, revisions and error    *)
(* the coordinator keeps.                                                  *)
THEOREM StatusInvariant == Spec => []Status
<1>1. Spec => []TypeInv /\ []FanOut
  BY TypeCorrect, FanOutsInOrder, PTL
<1> QED BY <1>1, InitStatus, StepStatus, PTL DEF Spec

(* The scope never moves backwards: no applier has in force a document     *)
(* that arrived after the one the scope holds, because commit drops an     *)
(* arrival that a later one overtook while it was being decoded.           *)
THEOREM NeverMovesBack == Spec => []NoneAhead
<1>1. TypeInv /\ FanOut /\ Status => NoneAhead
  <2> SUFFICES ASSUME TypeInv, FanOut, Status, NEW a \in Appliers
               PROVE  inForce[a] <= current.seq
    BY DEF NoneAhead
  <2>1. acceptedSeq[a] \in Nat /\ deliveredSeq[a] \in Nat /\ current.seq \in Nat
    BY DEF TypeInv, TypeOK, Observation
  <2>2. acceptedSeq[a] <= current.seq
    BY <2>1 DEF Status, Numbered
  <2>3. CASE ~delivering
    BY <2>2, <2>3 DEF FanOut
  <2>4. CASE delivering
    <3>1. PICK t \in Threads : InBatch(t)
      BY <2>4 DEF FanOut, Serial
    <3>2. inForce[a] = IF a \in threads[t].accepts THEN threads[t].obs.seq ELSE acceptedSeq[a]
      BY <3>1 DEF FanOut, FanOutOK
    <3>3. threads[t].obs.seq <= current.seq
      BY <3>1 DEF Status, Numbered
    <3> QED BY <2>2, <3>2, <3>3
  <2> QED BY <2>3, <2>4
<1> QED BY <1>1, TypeCorrect, FanOutsInOrder, StatusInvariant, PTL

(* Status tells the truth at rest: an error is reported exactly when some  *)
(* applier is behind, and without one Applied is the desired revision.     *)
THEOREM StatusTellsTruth == Spec => []StatusTruthful
<1>1. TypeInv /\ FanOut /\ Status => StatusTruthful
  <2> SUFFICES ASSUME TypeInv, FanOut, Status, Quiet, registered # {}
               PROVE  /\ lastErr <=> \E a \in registered : inForce[a] # latestSeq
                      /\ ~lastErr => Applied = desired
    BY DEF StatusTruthful
  <2>1. \A t \in Threads : ~InBatch(t) /\ threads[t].pc \notin Busy
    BY DEF Quiet, InBatch, Busy
  <2>2. inForce = acceptedSeq /\ Pending = {}
    BY <2>1 DEF FanOut, Serial, NothingDropped
  <2>3. /\ latestSeq \in Nat /\ current.seq \in Nat /\ registered \subseteq Appliers
        /\ acceptedSeq \in [Appliers -> Nat] /\ deliveredSeq \in [Appliers -> Nat]
    BY DEF TypeInv, TypeOK, Observation
  <2>4. ~lastErr => \A a \in registered : acceptedSeq[a] = latestSeq
    <3>1. \A a \in registered : acceptedSeq[a] <= deliveredSeq[a] /\ deliveredSeq[a] <= current.seq
                                /\ current.seq <= latestSeq
      BY <2>3 DEF Status, Numbered
    <3>2. ~lastErr => \A a \in registered : ~(acceptedSeq[a] < latestSeq)
      BY <2>1, <2>2 DEF Status, Errors
    <3> QED BY <2>3, <3>1, <3>2
  <2>5. lastErr => \E a \in registered : acceptedSeq[a] # latestSeq
    BY <2>3 DEF Status, Errors
  <2>6. ASSUME ~lastErr PROVE Applied = desired
    <3> DEFINE behind == CHOOSE a \in registered :
                           \A b \in registered : acceptedSeq[a] <= acceptedSeq[b]
    <3>1. \A a, b \in registered : acceptedSeq[a] <= acceptedSeq[b]
      BY <2>3, <2>4, <2>6
    <3>2. behind \in registered
      BY <3>1
    <3>3. appliedRev[behind] = current.rev /\ desired = current.rev
      BY <2>3, <2>4, <2>6, <3>2 DEF Status, Errors, Revisions
    <3> QED BY <3>3 DEF Applied
  <2> QED BY <2>2, <2>4, <2>5, <2>6
<1> QED BY <1>1, TypeCorrect, FanOutsInOrder, StatusInvariant, PTL

-----------------------------------------------------------------------------
(* The newest document. *)

(* What a publisher is about to bring, as seen by Upstream. *)
Arriving(p) == threads[p].pc \in {"taken", "stamped"}

(* A step that leaves the arrivals and what is committed alone. *)
LEMMA UpstreamKept ==
  ASSUME Upstream,
         \A p \in Publishers : Arriving(p)' \/ Arriving(p) => threads'[p] = threads[p],
         UNCHANGED <<versions, taken, seed, latestSeq, current, observed>>
  PROVE  Upstream'
<1>1. ToCome' <=> ToCome
  <2>1. \A p \in Publishers :
          /\ threads'[p].pc = "taken" <=> threads[p].pc = "taken"
          /\ (threads'[p].pc = "stamped" /\ threads'[p].seq > latestSeq)
               <=> (threads[p].pc = "stamped" /\ threads[p].seq > latestSeq)
    BY DEF Arriving
  <2> QED BY <2>1 DEF ToCome
<1>2. InForce' = InForce
  BY DEF InForce
<1> QED BY <1>1, <1>2 DEF Upstream, Arriving

(* Init. *)
LEMMA InitNewest == Init => Upstream /\ Offered
<1> SUFFICES ASSUME Init PROVE Upstream /\ Offered
  OBVIOUS
<1>1. /\ \A t \in Threads : threads[t].pc = "idle"
      /\ Len(versions) = 0 /\ \A p \in Publishers : taken[p] = 0
      /\ observed = FALSE /\ seed.armed = FALSE /\ registered = {}
  BY DEF Init, IdleThread
<1> QED BY <1>1 DEF Upstream, Offered, Threads

(* The Client, and an arrival up to its commit. *)
LEMMA PublishUpstream ==
  ASSUME TypeInv, Status, Upstream,
         \/ ClientPublishes
         \/ \E p \in Publishers : TakeChange(p) \/ Stamp(p) \/ Commit(p)
  PROVE  Upstream'
<1>1. threads \in [Threads -> Thread] /\ Publishers \subseteq Threads
      /\ versions \in Seq(Publication) /\ taken \in [Publishers -> Nat]
      /\ latestSeq \in Nat /\ seq \in Nat
  BY DEF TypeInv, TypeOK, Threads
<1>2. Len(versions) \in Nat
  BY <1>1
<1>3. CASE ClientPublishes
  <2>1. PICK v : versions' = Append(versions, v) /\ v \in Publication
    <3>1. PICK rev \in 0 .. MaxVersions, d \in Docs :
            versions' = Append(versions, [rev |-> rev, doc |-> d])
      BY <1>3 DEF ClientPublishes
    <3>2. [rev |-> rev, doc |-> d] \in Publication
      BY VersionsAssumption DEF Publication
    <3> QED BY <3>1, <3>2
  <2>2. Len(versions') = Len(versions) + 1
        /\ \A i \in 1 .. Len(versions) : versions'[i] = versions[i]
    BY <1>1, <2>1
  <2>3. UNCHANGED <<taken, threads, seed, latestSeq, current, observed>>
    BY <1>3 DEF ClientPublishes, scopeVars
  <2>4. PICK p \in Publishers : TRUE
    BY ActorsAssumption
  <2>5. taken[p] <= Len(versions) /\ taken[p] \in Nat
    BY <1>1 DEF Upstream
  <2>6. ToCome'
    BY <1>2, <2>2, <2>3, <2>5 DEF ToCome
  <2>7. \A q \in Publishers :
          /\ taken[q] <= Len(versions')
          /\ threads[q].pc \in {"taken", "stamped"} =>
               taken[q] \in 1 .. Len(versions') /\ threads[q].pub = versions'[taken[q]]
    <3> TAKE q \in Publishers
    <3>1. taken[q] \in Nat /\ taken[q] <= Len(versions)
      BY <1>1 DEF Upstream
    <3>2. threads[q].pc \in {"taken", "stamped"} =>
            taken[q] \in 1 .. Len(versions) /\ threads[q].pub = versions[taken[q]]
      BY DEF Upstream
    <3> QED BY <1>2, <2>2, <3>1, <3>2
  <2> QED BY <2>3, <2>6, <2>7 DEF Upstream
<1>4. ASSUME NEW p \in Publishers, TakeChange(p) PROVE Upstream'
  <2> DEFINE g == [threads[p] EXCEPT !.pc = "taken", !.pub = InForce]
  <2>1. g.pc = "taken" /\ g.pub = InForce
    BY <1>1 DEF Thread
  <2>2. threads' = [threads EXCEPT ![p] = g] /\ taken' = [taken EXCEPT ![p] = Len(versions)]
        /\ taken[p] < Len(versions)
    BY <1>4 DEF TakeChange
  <2>3. UNCHANGED <<versions, seed, latestSeq, current, observed>>
    BY <1>4 DEF TakeChange, scopeVars
  <2> HIDE DEF g
  <2>4. \A q \in Publishers : threads'[q] = IF q = p THEN g ELSE threads[q]
    BY <1>1, <2>2
  <2>5. ToCome'
    BY <2>1, <2>4 DEF ToCome
  <2>6. \A q \in Publishers : taken'[q] = IF q = p THEN Len(versions) ELSE taken[q]
    BY <1>1, <2>2
  <2>7. Len(versions) \in 1 .. Len(versions) /\ InForce = versions[Len(versions)]
    BY <1>1, <1>2, <2>2 DEF InForce
  <2>8. \A q \in Publishers :
          /\ taken'[q] <= Len(versions)
          /\ threads'[q].pc \in {"taken", "stamped"} =>
               taken'[q] \in 1 .. Len(versions) /\ threads'[q].pub = versions[taken'[q]]
    <3> TAKE q \in Publishers
    <3>1. CASE q = p
      BY <1>2, <2>1, <2>4, <2>6, <2>7, <3>1
    <3>2. CASE q # p
      BY <2>4, <2>6, <3>2 DEF Upstream
    <3> QED BY <3>1, <3>2
  <2> QED BY <2>3, <2>5, <2>8 DEF Upstream
<1>5. ASSUME NEW p \in Publishers, Stamp(p) PROVE Upstream'
  <2> DEFINE g == [threads[p] EXCEPT !.pc = "stamped", !.seq = NextSeq]
  <2>1. g.pc = "stamped" /\ g.seq = NextSeq /\ g.pub = threads[p].pub
    BY <1>1 DEF Thread
  <2>2. threads' = [threads EXCEPT ![p] = g] /\ threads[p].pc = "taken"
    BY <1>5 DEF Stamp
  <2>3. UNCHANGED <<versions, taken, seed, latestSeq, current, observed>>
    BY <1>5 DEF Stamp, scopeVars, upstreamVars
  <2> HIDE DEF g
  <2>4. \A q \in Publishers : threads'[q] = IF q = p THEN g ELSE threads[q]
    BY <1>1, <2>2
  <2>5. NextSeq > latestSeq
    BY <1>1 DEF NextSeq, Status, Numbered
  <2>6. ToCome'
    BY <2>1, <2>3, <2>4, <2>5 DEF ToCome
  <2>7. \A q \in Publishers : threads'[q].pc \in {"taken", "stamped"} =>
          taken[q] \in 1 .. Len(versions) /\ threads'[q].pub = versions[taken[q]]
    BY <2>1, <2>2, <2>4 DEF Upstream
  <2> QED BY <2>3, <2>6, <2>7 DEF Upstream
<1>6. ASSUME NEW p \in Publishers, Commit(p) PROVE Upstream'
  <2> DEFINE pub == threads[p].pub
             s == threads[p].seq
  <2>1. /\ threads[p].pc = "stamped" /\ UNCHANGED <<versions, taken>>
        /\ pub = versions[taken[p]] /\ taken[p] \in Nat /\ taken[p] <= Len(versions) /\ s \in Nat
    BY <1>1, <1>6 DEF Commit, Upstream, upstreamVars, Thread
  <2>2. PICK g \in {IdleThread, [IdleThread EXCEPT !.pc = "drain"]} :
          threads' = [threads EXCEPT ![p] = g]
    BY <1>6 DEF Commit
  <2>3. g.pc \in {"idle", "drain"}
    BY <2>2 DEF IdleThread
  <2>4. \A q \in Publishers : threads'[q] = IF q = p THEN g ELSE threads[q]
    BY <1>1, <2>2
  <2>5. \A q \in Publishers :
          /\ taken'[q] <= Len(versions')
          /\ threads'[q].pc \in {"taken", "stamped"} =>
               taken'[q] \in 1 .. Len(versions') /\ threads'[q].pub = versions'[taken'[q]]
    BY <2>1, <2>3, <2>4 DEF Upstream
  <2>6. ~ToCome' => pub = InForce'
    BY <1>2, <2>1 DEF ToCome, InForce
  <2>7. CASE CommittedLate(s)
    <3>1. UNCHANGED <<current, observed, latestSeq, seed>>
      BY <1>6, <2>7 DEF Commit
    <3>2. ~(s > latestSeq)
      BY <1>1, <2>1, <2>7 DEF CommittedLate
    <3>3. ToCome => ToCome'
      BY <2>1, <2>3, <2>4, <3>1, <3>2 DEF ToCome
    <3>4. InForce' = InForce
      BY <2>1 DEF InForce
    <3> QED BY <2>5, <3>1, <3>3, <3>4 DEF Upstream
  <2>8. CASE ~CommittedLate(s) /\ DropsAfterSeed(pub)
    <3>1. UNCHANGED <<current, observed, latestSeq>> /\ seed' = [seed EXCEPT !.armed = FALSE]
      BY <1>6, <2>8 DEF Commit
    <3>2. seed'.armed = FALSE
      BY <3>1 DEF TypeInv, TypeOK
    <3>3. latestSeq = current.seq /\ current.doc = pub.doc
      BY <2>8 DEF DropsAfterSeed, Upstream
    <3> QED BY <2>5, <2>6, <3>1, <3>2, <3>3 DEF Upstream
  <2>9. CASE ~CommittedLate(s) /\ ~DropsAfterSeed(pub)
    <3>1. Observe(pub, s) /\ seed' = [seed EXCEPT !.armed = FALSE]
      BY <1>6, <2>9 DEF Commit
    <3>2. seed'.armed = FALSE
      BY <3>1 DEF TypeInv, TypeOK
    <3>3. pub.doc \notin Undecodable => latestSeq' = current'.seq /\ current'.doc = pub.doc
      BY <3>1 DEF Observe
    <3> QED BY <2>5, <2>6, <3>2, <3>3 DEF Upstream
  <2> QED BY <2>7, <2>8, <2>9
<1> QED BY <1>3, <1>4, <1>5, <1>6

(* Registering, leaving and fan-outs. *)
LEMMA OthersUpstream ==
  ASSUME TypeInv, FanOut, Status, Upstream,
         \/ \E a \in Appliers : Register(a) \/ Unsubscribe(a)
         \/ \E t \in Threads : Drain(t) \/ Skip(t) \/ Call(t) \/ Return(t) \/ Record(t)
  PROVE  Upstream'
<1>1. threads \in [Threads -> Thread] /\ Publishers \subseteq Threads
      /\ Appliers \cap Publishers = {} /\ Appliers \subseteq Threads
  BY ActorsAssumption DEF TypeInv, TypeOK, Threads
<1>2. ASSUME NEW a \in Appliers, Register(a) PROVE Upstream'
  <2>1. PICK pc \in {"idle", "drain"} : threads' = [threads EXCEPT ![a].pc = pc]
    BY <1>2 DEF Register
  <2>2. \A p \in Publishers : threads'[p] = threads[p]
    BY <1>1, <2>1
  <2>3. UNCHANGED <<versions, taken>>
    BY <1>2 DEF Register, upstreamVars
  <2>4. CASE Seed
    <3>1. ~observed /\ observed' /\ Observe(InForce, NextSeq) /\ ~seed.armed /\ InForce' = InForce
      BY <2>3, <2>4 DEF Seed, Observe, Upstream, InForce
    <3>2. InForce.doc \notin Undecodable => latestSeq' = current'.seq /\ current'.doc = InForce.doc
      BY <3>1 DEF Observe
    <3>3. seed'.armed => InForce.doc \notin Undecodable /\ seed'.doc = InForce.doc
      BY <2>4, <3>1 DEF Seed
    <3> QED BY <2>2, <2>3, <3>1, <3>2, <3>3 DEF Upstream
  <2>5. CASE UNCHANGED <<scopeVars, seq, lastErr>>
    BY <2>2, <2>3, <2>5, UpstreamKept DEF scopeVars
  <2> QED BY <1>2, <2>4, <2>5 DEF Register
<1>3. ASSUME NEW a \in Appliers, Unsubscribe(a) PROVE Upstream'
  BY <1>3, UpstreamKept DEF Unsubscribe, scopeVars, upstreamVars
<1>4. ASSUME NEW t \in Threads, Drain(t) \/ Skip(t) \/ Call(t) \/ Return(t) \/ Record(t)
      PROVE  Upstream'
  <2>1. UNCHANGED <<versions, taken, seed, latestSeq, current, observed>>
    BY <1>4 DEF Drain, Skip, Call, Return, Record, scopeVars, upstreamVars
  <2>2. threads[t].pc \in {"drain", "batch", "calling"} /\ threads[t] \in Thread
    BY <1>1, <1>4 DEF Drain, Skip, Call, Return, Record
  <2>3. PICK g : threads' = [threads EXCEPT ![t] = g] /\ g.pc \in {"idle", "batch", "calling"}
    <3>1. ASSUME threads' = [threads EXCEPT ![t] = IdleThread] PROVE  \E g : /\ threads' = [threads EXCEPT ![t] = g]
                       /\ g.pc \in {"idle", "batch", "calling"}
      <4>1. IdleThread.pc = "idle"
        BY DEF IdleThread
      <4> QED BY <3>1, <4>1
    <3>2. ASSUME NEW acc, NextBatch(t, acc) PROVE  \E g : /\ threads' = [threads EXCEPT ![t] = g]
                       /\ g.pc \in {"idle", "batch", "calling"}
      <4> DEFINE more == [IdleThread EXCEPT !.pc = "batch", !.obs = current, !.todo = Pending,
                                            !.previous = acc]
      <4>1. more.pc = "batch"
        BY DEF IdleThread
      <4>2. threads' = [threads EXCEPT ![t] = IF Pending = {} THEN IdleThread ELSE more]
        BY <3>2 DEF NextBatch
      <4> HIDE DEF more
      <4> QED BY <3>1, <4>1, <4>2
    <3>3. CASE Drain(t)
      BY <3>1, <3>2, <3>3 DEF Drain
    <3>4. CASE Skip(t)
      <4>1. PICK a : threads' = [threads EXCEPT ![t].todo = @ \ {a}]
        BY <3>4 DEF Skip
      <4> DEFINE g == [threads[t] EXCEPT !.todo = @ \ {a}]
      <4>2. threads' = [threads EXCEPT ![t] = g]
        BY <4>1
      <4>3. g.pc = "batch"
        BY <2>2, <3>4 DEF Skip, Thread
      <4> QED BY <4>2, <4>3
    <3>5. CASE Call(t)
      <4>1. PICK a : threads' = [threads EXCEPT ![t] =
                       [threads[t] EXCEPT !.pc = "calling", !.calling = a, !.todo = @ \ {a}]]
        BY <3>5 DEF Call
      <4> DEFINE g == [threads[t] EXCEPT !.pc = "calling", !.calling = a, !.todo = @ \ {a}]
      <4>2. g.pc = "calling"
        BY <2>2 DEF Thread
      <4> QED BY <4>1, <4>2
    <3>6. CASE Return(t)
      <4> DEFINE a == threads[t].calling
                 yes == [threads[t] EXCEPT !.pc = "batch", !.calling = NoApplier,
                                           !.accepts = @ \cup {a}]
                 no == [threads[t] EXCEPT !.pc = "batch", !.calling = NoApplier,
                                          !.rejects = @ \cup {a}]
      <4>1. yes.pc = "batch" /\ no.pc = "batch"
        BY <2>2 DEF Thread
      <4>2. threads' = [threads EXCEPT ![t] = yes] \/ threads' = [threads EXCEPT ![t] = no]
        BY <3>6 DEF Return
      <4> HIDE DEF yes, no
      <4> QED BY <4>1, <4>2
    <3>7. CASE Record(t)
      BY <3>2, <3>7 DEF Record
    <3> QED BY <1>4, <3>3, <3>4, <3>5, <3>6, <3>7
  <2>4. /\ \A u \in Threads \ {t} : threads'[u] = threads[u]
        /\ threads'[t].pc \in {"idle", "batch", "calling"}
    BY <1>1, <2>3
  <2>5. \A p \in Publishers : Arriving(p)' \/ Arriving(p) => threads'[p] = threads[p]
    BY <1>1, <2>2, <2>4 DEF Arriving
  <2> QED BY <2>1, <2>5, UpstreamKept
<1> QED BY <1>2, <1>3, <1>4

(* A step that calls nobody, and marks nobody, with the fan-outs in flight *)
(* as they were and no other current observation, or one nobody is marked  *)
(* with.                                                                   *)
LEMMA OfferedKept ==
  ASSUME TypeInv, TypeInv', FanOut, Status, Offered,
         \A u \in Threads : InBatch(u) => InBatch(u)' /\ threads'[u].todo = threads[u].todo,
         UNCHANGED <<deliveredSeq, lastOffered>>,
         UNCHANGED current \/ current'.seq > latestSeq,
         \A a \in registered' : a \in registered \/ deliveredSeq[a] = 0
  PROVE  Offered'
<1>1. deliveredSeq \in [Appliers -> Nat] /\ current.seq \in Nat /\ current'.seq \in Nat
      /\ latestSeq \in Nat /\ registered' \subseteq Appliers
  BY DEF TypeInv, TypeOK, Observation
<1> SUFFICES ASSUME NEW a \in registered', deliveredSeq[a] = current'.seq, current'.seq > 0,
                    \A t \in Threads : InBatch(t)' => a \notin threads'[t].todo
             PROVE  lastOffered[a] = [rev |-> current'.rev, doc |-> current'.doc]
  BY DEF Offered
<1>2. deliveredSeq[a] <= latestSeq
  BY <1>1 DEF Status, Numbered
<1>3. UNCHANGED current
  BY <1>1, <1>2
<1>4. a \in registered
  BY <1>1
<1> QED BY <1>3, <1>4 DEF Offered

(* Publishing, registering and leaving. *)
LEMMA PublishOffered ==
  ASSUME TypeInv, TypeInv', FanOut, Status, Offered,
         \/ ClientPublishes
         \/ \E p \in Publishers : TakeChange(p) \/ Stamp(p) \/ Commit(p)
         \/ \E a \in Appliers : Register(a) \/ Unsubscribe(a)
  PROVE  Offered'
<1>1. threads \in [Threads -> Thread] /\ Publishers \subseteq Threads /\ Appliers \subseteq Threads
      /\ latestSeq \in Nat /\ seq \in Nat
  BY DEF TypeInv, TypeOK, Threads
<1>2. CASE ClientPublishes
  BY <1>2, OfferedKept DEF ClientPublishes, scopeVars, applierVars, historyVars, InBatch
<1>3. ASSUME NEW p \in Publishers, TakeChange(p) \/ Stamp(p) \/ Commit(p) PROVE Offered'
  <2>1. UNCHANGED <<registered, deliveredSeq, lastOffered>> /\ ~InBatch(p)
    BY <1>3 DEF TakeChange, Stamp, Commit, applierVars, historyVars, InBatch
  <2>2. \A u \in Threads \ {p} : threads'[u] = threads[u]
    BY <1>1, <1>3 DEF TakeChange, Stamp, Commit
  <2>3. UNCHANGED current \/ current'.seq > latestSeq
    <3>1. CASE TakeChange(p) \/ Stamp(p)
      BY <3>1 DEF TakeChange, Stamp, scopeVars
    <3>2. CASE Commit(p)
      <4>1. threads[p].seq \in Nat /\ threads[p].seq # latestSeq
        BY <1>1, <3>2 DEF Commit, Thread, Status, Numbered
      <4>2. UNCHANGED current \/ (~CommittedLate(threads[p].seq) /\ current'.seq = threads[p].seq)
        BY <3>2 DEF Commit, Observe
      <4> QED BY <1>1, <4>1, <4>2 DEF CommittedLate
    <3> QED BY <1>3, <3>1, <3>2
  <2>4. \A u \in Threads : InBatch(u) => InBatch(u)' /\ threads'[u].todo = threads[u].todo
    BY <2>1, <2>2 DEF InBatch
  <2> QED BY <2>1, <2>3, <2>4, OfferedKept
<1>4. ASSUME NEW a \in Appliers, Register(a) PROVE Offered'
  <2>1. /\ registered' = registered \cup {a} /\ a \notin registered \cup removed
        /\ UNCHANGED <<deliveredSeq, lastOffered>>
    BY <1>4 DEF Register, historyVars
  <2>2. threads[a].pc = "idle" /\ deliveredSeq[a] = 0
    BY <2>1 DEF FanOut, Fresh
  <2>3. \A u \in Threads \ {a} : threads'[u] = threads[u]
    BY <1>1, <1>4 DEF Register
  <2>4. \A u \in Threads : InBatch(u) => InBatch(u)' /\ threads'[u].todo = threads[u].todo
    BY <2>2, <2>3 DEF InBatch
  <2>5. UNCHANGED current \/ current'.seq > latestSeq
    <3>1. UNCHANGED current \/ current'.seq = seq + 1
      BY <1>4 DEF Register, Seed, Observe, NextSeq, scopeVars
    <3>2. latestSeq <= seq
      BY DEF Status, Numbered
    <3> QED BY <1>1, <3>1, <3>2
  <2> QED BY <2>1, <2>2, <2>4, <2>5, OfferedKept
<1>5. ASSUME NEW a \in Appliers, Unsubscribe(a) PROVE Offered'
  BY <1>5, OfferedKept DEF Unsubscribe, scopeVars, historyVars, InBatch
<1> QED BY <1>2, <1>3, <1>4, <1>5

(* The next turn of drain's loop marks those it is about to call. *)
LEMMA NextBatchOffered ==
  ASSUME TypeInv, Status, Offered, NEW t \in Threads, NEW accepted, NextBatch(t, accepted),
         \A u \in Threads : InBatch(u) => threads[u].todo = {},
         UNCHANGED <<registered, current, lastOffered>>
  PROVE  Offered'
<1>1. deliveredSeq \in [Appliers -> Nat] /\ registered \subseteq Appliers
      /\ threads \in [Threads -> Thread]
  BY DEF TypeInv, TypeOK
<1> SUFFICES ASSUME NEW a \in registered, deliveredSeq'[a] = current.seq, current.seq > 0,
                    \A u \in Threads : InBatch(u)' => a \notin threads'[u].todo
             PROVE  lastOffered[a] = [rev |-> current.rev, doc |-> current.doc]
  BY DEF Offered
<1>2. Pending # {} => threads'[t].pc = "batch" /\ threads'[t].todo = Pending
  BY <1>1 DEF NextBatch, IdleThread
<1>3. a \notin Pending
  BY <1>2 DEF InBatch
<1>4. deliveredSeq[a] = current.seq
  BY <1>1, <1>3 DEF NextBatch
<1> QED BY <1>4 DEF Offered

(* A fan-out starts, calls and records. *)
LEMMA DrainOffered ==
  ASSUME TypeInv, TypeInv', FanOut, Status, Offered, NEW t \in Threads,
         Drain(t) \/ Skip(t) \/ Call(t) \/ Return(t) \/ Record(t)
  PROVE  Offered'
<1>1. threads \in [Threads -> Thread] /\ threads[t] \in Thread /\ registered \subseteq Appliers
      /\ lastOffered \in [Appliers -> Publication]
  BY DEF TypeInv, TypeOK
<1>2. UNCHANGED <<registered, current>>
  BY DEF Drain, Skip, Call, Return, Record, scopeVars, applierVars
<1>3. CASE Drain(t)
  <2>1. UNCHANGED lastOffered /\ threads[t].pc = "drain"
    BY <1>3 DEF Drain, historyVars
  <2>2. CASE FanOutRunning
    <3>1. threads' = [threads EXCEPT ![t] = IdleThread] /\ UNCHANGED deliveredSeq
      BY <1>3, <2>2 DEF Drain
    <3>2. \A u \in Threads : InBatch(u) => InBatch(u)' /\ threads'[u].todo = threads[u].todo
      BY <1>1, <2>1, <3>1 DEF InBatch
    <3> QED BY <1>2, <2>1, <3>1, <3>2, OfferedKept
  <2>3. CASE ~FanOutRunning
    <3>1. \A u \in Threads : ~InBatch(u)
      BY <2>3 DEF FanOutRunning, FanOut, Serial
    <3>2. NextBatch(t, acceptedSeq)
      BY <1>3, <2>3 DEF Drain
    <3> QED BY <1>2, <2>1, <3>1, <3>2, NextBatchOffered
  <2> QED BY <2>2, <2>3
<1>4. CASE Skip(t)
  <2>1. PICK b \in threads[t].todo \cap removed : threads' = [threads EXCEPT ![t].todo = @ \ {b}]
    BY <1>4 DEF Skip
  <2>2. UNCHANGED <<deliveredSeq, lastOffered>> /\ threads[t].pc = "batch"
    BY <1>4 DEF Skip, historyVars
  <2>3. b \notin registered
    BY <2>1 DEF FanOut, Fresh
  <2>4. \A u \in Threads : InBatch(u) =>
          InBatch(u)' /\ \A a \in registered : a \in threads[u].todo => a \in threads'[u].todo
    BY <1>1, <2>1, <2>2, <2>3 DEF InBatch, Thread
  <2> QED BY <1>2, <2>2, <2>4 DEF Offered
<1>5. CASE Call(t)
  <2> DEFINE obs == threads[t].obs
             shown == [rev |-> obs.rev, doc |-> obs.doc]
  <2>1. PICK b \in threads[t].todo \ removed :
          /\ threads' = [threads EXCEPT
               ![t] = [threads[t] EXCEPT !.pc = "calling", !.calling = b, !.todo = @ \ {b}]]
          /\ lastOffered' = [lastOffered EXCEPT ![b] = shown]
    BY <1>5 DEF Call
  <2>2. UNCHANGED deliveredSeq /\ threads[t].pc = "batch" /\ InBatch(t) /\ FanOutOK(t)
    BY <1>5 DEF Call, InBatch, FanOut
  <2>3. deliveredSeq[b] = obs.seq /\ b \in Appliers
    BY <1>1, <2>1, <2>2 DEF FanOutOK, Batch, Thread
  <2>4. obs.seq = current.seq => obs = current
    BY <2>2 DEF Status, Numbered
  <2>5. \A u \in Threads : InBatch(u) =>
          InBatch(u)' /\ \A a \in registered \ {b} : a \in threads[u].todo => a \in threads'[u].todo
    BY <1>1, <2>1, <2>2 DEF InBatch, Thread
  <2> SUFFICES ASSUME NEW a \in registered, deliveredSeq[a] = current.seq, current.seq > 0,
                      \A u \in Threads : InBatch(u)' => a \notin threads'[u].todo
               PROVE  lastOffered'[a] = [rev |-> current.rev, doc |-> current.doc]
    BY <1>2, <2>2 DEF Offered
  <2>6. CASE a = b
    BY <1>1, <2>1, <2>3, <2>4, <2>6
  <2>7. CASE a # b
    <3>1. lastOffered'[a] = lastOffered[a]
      BY <1>1, <2>1, <2>7
    <3> QED BY <2>5, <2>7, <3>1 DEF Offered
  <2> QED BY <2>6, <2>7
<1>6. CASE Return(t)
  <2> DEFINE a == threads[t].calling
  <2>1. PICK g \in {[threads[t] EXCEPT !.pc = "batch", !.calling = NoApplier, !.accepts = @ \cup {a}],
                    [threads[t] EXCEPT !.pc = "batch", !.calling = NoApplier, !.rejects = @ \cup {a}]} :
          threads' = [threads EXCEPT ![t] = g]
    BY <1>6 DEF Return
  <2>2. g.pc = "batch" /\ g.todo = threads[t].todo
    BY <1>1, <2>1 DEF Thread
  <2>3. \A u \in Threads : InBatch(u) => InBatch(u)' /\ threads'[u].todo = threads[u].todo
    BY <1>1, <2>1, <2>2 DEF InBatch
  <2>4. UNCHANGED <<deliveredSeq, lastOffered>>
    BY <1>6 DEF Return
  <2> QED BY <1>2, <2>3, <2>4, OfferedKept
<1>7. CASE Record(t)
  <2>1. PICK accepted : NextBatch(t, accepted)
    BY <1>7 DEF Record
  <2>2. UNCHANGED lastOffered /\ threads[t].todo = {} /\ InBatch(t)
    BY <1>7 DEF Record, historyVars, InBatch
  <2>3. \A u \in Threads : InBatch(u) => threads[u].todo = {}
    BY <2>2 DEF FanOut, Serial
  <2> QED BY <1>2, <2>1, <2>2, <2>3, NextBatchOffered
<1> QED BY <1>3, <1>4, <1>5, <1>6, <1>7

(* A step keeps both. *)
LEMMA StepNewest ==
  TypeInv /\ TypeInv' /\ FanOut /\ Status /\ Upstream /\ Offered /\ [Next]_vars
    => Upstream' /\ Offered'
<1>1. Upstream /\ Offered /\ UNCHANGED vars => Upstream' /\ Offered'
  BY DEF Upstream, ToCome, InForce, Offered, InBatch, vars
<1> QED BY <1>1, PublishUpstream, OthersUpstream, PublishOffered, DrainOffered DEF Next, AtRest

(* The inductive invariant between the Client's cache and the appliers:    *)
(* with nothing on its way the document in force is committed, and who is  *)
(* marked with it was called with it.                                      *)
THEOREM NewestCommitted == Spec => [](Upstream /\ Offered)
<1>1. Spec => []TypeInv /\ []FanOut /\ []Status
  BY TypeCorrect, FanOutsInOrder, StatusInvariant, PTL
<1> QED BY <1>1, InitNewest, StepNewest, PTL DEF Spec

(* With nothing in flight every registered applier was last called with    *)
(* the document in force, whatever publishers overtook each other on the   *)
(* way and whether the seed or a publication brought it.                   *)
THEOREM NewestIsOffered == Spec => []NewestOffered
<1>1. TypeInv /\ FanOut /\ Status /\ Upstream /\ Offered => NewestOffered
  <2> SUFFICES ASSUME TypeInv, FanOut, Status, Upstream, Offered, Quiet, observed,
                      InForce.doc \notin Undecodable, NEW a \in registered
               PROVE  deliveredSeq[a] > 0 /\ lastOffered[a].doc = InForce.doc
    BY DEF NewestOffered
  <2>1. \A t \in Threads : ~InBatch(t) /\ threads[t].pc \notin Busy
    BY DEF Quiet, InBatch, Busy
  <2>2. /\ latestSeq \in Nat /\ current.seq \in Nat /\ a \in Appliers /\ deliveredSeq[a] \in Nat
        /\ Len(versions) \in Nat
    BY DEF TypeInv, TypeOK, Observation
  <2>3. ~ToCome
    <3>1. \A p \in Publishers : threads[p].pc = "idle" /\ taken[p] = Len(versions)
      BY DEF Quiet, Threads
    <3> QED BY <2>2, <3>1 DEF ToCome
  <2>4. latestSeq = current.seq /\ current.doc = InForce.doc /\ latestSeq > 0
    BY <2>3 DEF Upstream, Status, Numbered
  <2>5. a \notin Pending
    BY <2>1 DEF FanOut, NothingDropped
  <2>6. deliveredSeq[a] = current.seq
    BY <2>2, <2>5 DEF Pending, Status, Numbered
  <2>7. lastOffered[a] = [rev |-> current.rev, doc |-> current.doc]
    BY <2>1, <2>2, <2>4, <2>6 DEF Offered
  <2> QED BY <2>4, <2>6, <2>7
<1> QED BY <1>1, TypeCorrect, FanOutsInOrder, StatusInvariant, NewestCommitted, PTL
=============================================================================
