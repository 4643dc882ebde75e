----------------------------- MODULE Coordinator -----------------------------
(***************************************************************************)
(* One scope of a typed group (internal/group/coordinator.go): the         *)
(* documents the Client publishes, fanned out to the registered appliers.  *)
(*                                                                         *)
(* The coordinator spawns no goroutine.  A fan-out runs on the goroutine   *)
(* that published (the engine's dispatch worker for the key) or on the one *)
(* that registered, with no lock held while an applier runs, and whoever   *)
(* finds one running leaves its work to it.  A registration that precedes  *)
(* every publication reads the document in force itself (the seed) and     *)
(* arms a watermark against the publication it anticipates.                *)
(***************************************************************************)
EXTENDS Integers, Sequences

CONSTANTS
  Appliers,      \* the functions given to OnApply, each registered at most once
  Publishers,    \* the dispatch workers that call Publish
  Docs,          \* what a document may say
  Undecodable,   \* documents that are not a T
  NoApplier,     \* nobody is being called
  MaxVersions    \* bound: documents the Client publishes

ASSUME ActorsAssumption ==
  Appliers \cap Publishers = {} /\ Publishers # {} /\ NoApplier \notin Appliers
ASSUME DocsAssumption == Undecodable \subseteq Docs /\ Docs # {}
ASSUME VersionsAssumption == MaxVersions \in Nat

VARIABLES
  versions,     \* the Client's cache entry over time; the last is in force (external)
  taken,        \* the version each publisher last took from its dispatch slot (external)
  seq,          \* the coordinator-wide arrival sequence
  seedTaken,
  \* scope
  current, observed, delivering, desired,
  lastErr,      \* whether an error is recorded
  latestSeq,
  seed,         \* the watermark: seedArmed, seedRev, seedBytes
  \* appliers
  registered,   \* the appliers slice
  removed,      \* the removed flags
  deliveredSeq, acceptedSeq, appliedRev,
  \* goroutines
  threads,
  \* history, read by no action
  inForce,      \* the observation each applier itself last accepted
  lastOffered,  \* the document each applier was last called with
  offered,      \* every versioned document each applier was called with
  repeated      \* some applier was called twice with the same one

upstreamVars == <<versions, taken>>
scopeVars == <<current, observed, desired, latestSeq, seed, seedTaken>>
applierVars == <<registered, removed>>
historyVars == <<inForce, lastOffered, offered, repeated>>
vars == <<versions, taken, seq, seedTaken, current, observed, delivering, desired,
          lastErr, latestSeq, seed, registered, removed, deliveredSeq, acceptedSeq,
          appliedRev, threads, inForce, lastOffered, offered, repeated>>

-----------------------------------------------------------------------------
Threads == Publishers \cup Appliers

Publication == [rev : Nat, doc : Docs]
Observation == [seq : Nat, rev : Nat, doc : Docs]

(* A goroutine: an arrival on its way to commit, then its fan-out. *)
Thread == [pc : {"idle", "taken", "stamped", "drain", "batch", "calling"},
           pub : Publication, seq : Nat,
           obs : Observation, todo : SUBSET Appliers,
           accepts : SUBSET Appliers, rejects : SUBSET Appliers,
           calling : Appliers \cup {NoApplier}, previous : [Appliers -> Nat]]

AnyDoc == CHOOSE d \in Docs : TRUE
NoPublication == [rev |-> 0, doc |-> AnyDoc]
NoObservation == [seq |-> 0, rev |-> 0, doc |-> AnyDoc]
IdleThread == [pc |-> "idle", pub |-> NoPublication, seq |-> 0, obs |-> NoObservation,
               todo |-> {}, accepts |-> {}, rejects |-> {}, calling |-> NoApplier,
               previous |-> [a \in Appliers |-> 0]]

Init ==
  /\ versions = << >>
  /\ taken = [p \in Publishers |-> 0]
  /\ seq = 0
  /\ seedTaken = FALSE
  /\ current = NoObservation
  /\ observed = FALSE
  /\ delivering = FALSE
  /\ desired = 0
  /\ lastErr = FALSE
  /\ latestSeq = 0
  /\ seed = [armed |-> FALSE, rev |-> 0, doc |-> AnyDoc]
  /\ registered = {}
  /\ removed = {}
  /\ deliveredSeq = [a \in Appliers |-> 0]
  /\ acceptedSeq = [a \in Appliers |-> 0]
  /\ appliedRev = [a \in Appliers |-> 0]
  /\ threads = [t \in Threads |-> IdleThread]
  /\ inForce = [a \in Appliers |-> 0]
  /\ lastOffered = [a \in Appliers |-> NoPublication]
  /\ offered = [a \in Appliers |-> {}]
  /\ repeated = FALSE

-----------------------------------------------------------------------------
(* The Client: what its cache holds, and its dispatch slot for this key.   *)

InForce == versions[Len(versions)]

(* What the engine accepts: a newer revision, none at all (a delete, the   *)
(* default, a row without one), or the same one under another document.    *)
Newer(rev, d) ==
  \/ rev \in {0, Len(versions) + 1}
  \/ versions # << >> /\ rev = InForce.rev /\ d # InForce.doc

ClientPublishes ==
  /\ Len(versions) < MaxVersions
  /\ \E rev \in 0 .. MaxVersions, d \in Docs :
       Newer(rev, d) /\ versions' = Append(versions, [rev |-> rev, doc |-> d])
  /\ UNCHANGED <<taken, seq, scopeVars, delivering, lastErr, applierVars,
                 deliveredSeq, acceptedSeq, appliedRev, threads, historyVars>>

(* A dispatch worker empties its slot, which keeps only the newest. *)
TakeChange(p) ==
  /\ threads[p].pc = "idle"
  /\ taken[p] < Len(versions)
  /\ taken' = [taken EXCEPT ![p] = Len(versions)]
  /\ threads' = [threads EXCEPT ![p] = [@ EXCEPT !.pc = "taken", !.pub = InForce]]
  /\ UNCHANGED <<versions, seq, scopeVars, delivering, lastErr, applierVars,
                 deliveredSeq, acceptedSeq, appliedRev, historyVars>>

-----------------------------------------------------------------------------
(* Publish: stamp, decode with no lock held, commit, drain.                *)

(* nextSeqLocked *)
NextSeq == seq + 1

Stamp(p) ==
  /\ threads[p].pc = "taken"
  /\ seq' = NextSeq
  /\ threads' = [threads EXCEPT ![p] = [@ EXCEPT !.pc = "stamped", !.seq = NextSeq]]
  /\ UNCHANGED <<upstreamVars, scopeVars, delivering, lastErr, applierVars,
                 deliveredSeq, acceptedSeq, appliedRev, historyVars>>

(* observeLocked, or the record of a document that cannot be decoded: it   *)
(* counts as the newest observation and never becomes current.             *)
Observe(pub, s) ==
  /\ desired' = pub.rev
  /\ latestSeq' = s
  /\ observed' = TRUE
  /\ IF pub.doc \in Undecodable
     THEN lastErr' = TRUE /\ UNCHANGED current
     ELSE current' = [seq |-> s, rev |-> pub.rev, doc |-> pub.doc] /\ UNCHANGED lastErr

(* Mutant: revisions alone decide that the publication is the seed's. *)
DropsAfterSeed_ByRevision(pub) == seed.armed /\ pub.rev <= seed.rev

(* dropsAfterSeedLocked: spent on the first publication after the seed,    *)
(* dropped when it is proven to be the same document.                      *)
DropsAfterSeed(pub) == seed.armed /\ pub.rev <= seed.rev /\ pub.doc = seed.doc

(* Mutant: whatever was decoded last is the newest. *)
CommittedLate_Never(s) == FALSE

(* An arrival stamped before one that has committed is dropped. *)
CommittedLate(s) == s < latestSeq

Commit(p) ==
  LET pub == threads[p].pub  s == threads[p].seq IN
  /\ threads[p].pc = "stamped"
  /\ \/ /\ CommittedLate(s)
        /\ threads' = [threads EXCEPT ![p] = IdleThread]
        /\ UNCHANGED <<current, observed, desired, latestSeq, seed, lastErr>>
     \/ /\ ~CommittedLate(s)
        /\ DropsAfterSeed(pub)
        /\ seed' = [seed EXCEPT !.armed = FALSE]
        /\ threads' = [threads EXCEPT ![p] = IdleThread]
        /\ UNCHANGED <<current, observed, desired, latestSeq, lastErr>>
     \/ /\ ~CommittedLate(s)
        /\ ~DropsAfterSeed(pub)
        /\ seed' = [seed EXCEPT !.armed = FALSE]
        /\ Observe(pub, s)
        /\ threads' = [threads EXCEPT
             ![p] = IF pub.doc \in Undecodable THEN IdleThread
                    ELSE [IdleThread EXCEPT !.pc = "drain"]]
  /\ UNCHANGED <<upstreamVars, seq, seedTaken, delivering, applierVars,
                 deliveredSeq, acceptedSeq, appliedRev, historyVars>>

-----------------------------------------------------------------------------
(* Register and the unsubscribe it returns.                                *)

(* seedLocked, when nothing was ever observed.  The read may find nothing, *)
(* a stale entry, or fail: then no seed is taken and none is recorded.     *)
Seed ==
  /\ ~seedTaken /\ ~observed
  /\ versions # << >>
  /\ seedTaken' = TRUE
  /\ seq' = NextSeq
  /\ Observe(InForce, NextSeq)
  /\ seed' = IF InForce.doc \in Undecodable THEN seed
             ELSE [armed |-> TRUE, rev |-> InForce.rev, doc |-> InForce.doc]

(* add, then drain the scope if it was ever observed. *)
Register(a) ==
  /\ a \notin registered \cup removed
  /\ Seed \/ UNCHANGED <<scopeVars, seq, lastErr>>
  /\ registered' = registered \cup {a}
  /\ threads' = [threads EXCEPT ![a].pc = IF observed' THEN "drain" ELSE "idle"]
  /\ UNCHANGED <<upstreamVars, delivering, removed, deliveredSeq, acceptedSeq,
                 appliedRev, historyVars>>

(* Mutant: the error outlives the applier that held the scope back. *)
ErrAfter_Kept(err, regs, accepted) == err

(* clearErrIfConvergedLocked: the error is kept while nobody is registered *)
(* or somebody has not accepted the newest observation.                    *)
ErrAfter(err, regs, accepted) ==
  err /\ (regs = {} \/ \E a \in regs : accepted[a] < latestSeq)

(* remove, called by anyone, an applier from inside its own call included. *)
Unsubscribe(a) ==
  /\ a \in registered
  /\ registered' = registered \ {a}
  /\ removed' = removed \cup {a}
  /\ lastErr' = ErrAfter(lastErr, registered \ {a}, acceptedSeq)
  /\ UNCHANGED <<upstreamVars, seq, scopeVars, delivering, deliveredSeq,
                 acceptedSeq, appliedRev, threads, historyVars>>

-----------------------------------------------------------------------------
(* drain: one fan-out at a time.                                           *)

(* pendingLocked: who has not been offered the current observation; all    *)
(* are marked as offered before any is called.                             *)
Pending == {a \in registered : deliveredSeq[a] < current.seq}

(* Mutant: the flag outlives the fan-out. *)
NextBatch_Keeps(t, accepted) ==
  /\ delivering' = TRUE
  /\ deliveredSeq' = [a \in Appliers |->
       IF a \in Pending THEN current.seq ELSE deliveredSeq[a]]
  /\ threads' = [threads EXCEPT ![t] =
       IF Pending = {} THEN IdleThread
       ELSE [IdleThread EXCEPT !.pc = "batch", !.obs = current, !.todo = Pending,
                               !.previous = accepted]]

(* The loop's next turn, in the critical section the last one ended in:    *)
(* another batch, or the flag is cleared.                                  *)
NextBatch(t, accepted) ==
  /\ delivering' = (Pending # {})
  /\ deliveredSeq' = [a \in Appliers |->
       IF a \in Pending THEN current.seq ELSE deliveredSeq[a]]
  /\ threads' = [threads EXCEPT ![t] =
       IF Pending = {} THEN IdleThread
       ELSE [IdleThread EXCEPT !.pc = "batch", !.obs = current, !.todo = Pending,
                               !.previous = accepted]]

(* Mutant: the fan-out in flight is not looked at. *)
FanOutRunning_Never == FALSE

FanOutRunning == delivering

Drain(t) ==
  /\ threads[t].pc = "drain"
  /\ IF FanOutRunning
     THEN /\ threads' = [threads EXCEPT ![t] = IdleThread]
          /\ UNCHANGED <<delivering, deliveredSeq>>
     ELSE NextBatch(t, acceptedSeq)
  /\ UNCHANGED <<upstreamVars, seq, scopeVars, lastErr, applierVars, acceptedSeq,
                 appliedRev, historyVars>>

(* deliver: an applier that has left since the batch was made is skipped.  *)
Skip(t) ==
  /\ threads[t].pc = "batch"
  /\ \E a \in threads[t].todo \cap removed :
       threads' = [threads EXCEPT ![t].todo = @ \ {a}]
  /\ UNCHANGED <<upstreamVars, seq, scopeVars, delivering, lastErr, applierVars,
                 deliveredSeq, acceptedSeq, appliedRev, historyVars>>

Call(t) ==
  LET obs == threads[t].obs  shown == [rev |-> obs.rev, doc |-> obs.doc] IN
  /\ threads[t].pc = "batch"
  /\ \E a \in threads[t].todo \ removed :
       /\ threads' = [threads EXCEPT
            ![t] = [threads[t] EXCEPT !.pc = "calling", !.calling = a, !.todo = @ \ {a}]]
       /\ lastOffered' = [lastOffered EXCEPT ![a] = shown]
       /\ offered' = [offered EXCEPT ![a] = IF obs.rev = 0 THEN @ ELSE @ \cup {shown}]
       /\ repeated' = (repeated \/ shown \in offered[a])
  /\ UNCHANGED <<upstreamVars, seq, scopeVars, delivering, lastErr, applierVars,
                 deliveredSeq, acceptedSeq, appliedRev, inForce>>

(* invoke returns: nil, or an error or a panic. *)
Return(t) ==
  LET a == threads[t].calling IN
  /\ threads[t].pc = "calling"
  /\ \/ /\ threads' = [threads EXCEPT ![t] =
             [threads[t] EXCEPT !.pc = "batch", !.calling = NoApplier, !.accepts = @ \cup {a}]]
        /\ inForce' = [inForce EXCEPT ![a] = threads[t].obs.seq]
     \/ /\ threads' = [threads EXCEPT ![t] =
             [threads[t] EXCEPT !.pc = "batch", !.calling = NoApplier, !.rejects = @ \cup {a}]]
        /\ UNCHANGED inForce
  /\ UNCHANGED <<upstreamVars, seq, scopeVars, delivering, lastErr, applierVars,
                 deliveredSeq, acceptedSeq, appliedRev, lastOffered, offered, repeated>>

(* recordLocked, and the next turn of drain's loop. *)
Record(t) ==
  LET th == threads[t]
      accepted == [a \in Appliers |->
                     IF a \in th.accepts THEN deliveredSeq[a] ELSE acceptedSeq[a]] IN
  /\ th.pc = "batch"
  /\ th.todo = {}
  /\ acceptedSeq' = accepted
  /\ appliedRev' = [a \in Appliers |-> IF a \in th.accepts THEN th.obs.rev ELSE appliedRev[a]]
  /\ lastErr' = ErrAfter(lastErr \/ th.rejects # {}, registered, accepted)
  /\ NextBatch(t, accepted)
  /\ UNCHANGED <<upstreamVars, seq, scopeVars, applierVars, historyVars>>

-----------------------------------------------------------------------------
(* appliedLocked: the revision of the applier furthest behind.             *)
Applied ==
  IF registered = {} THEN desired
  ELSE appliedRev[CHOOSE a \in registered :
                    \A b \in registered : acceptedSeq[a] <= acceptedSeq[b]]

Busy == {"drain", "batch", "calling"}
Quiet ==
  /\ \A t \in Threads : threads[t].pc = "idle"
  /\ \A p \in Publishers : taken[p] = Len(versions)

AtRest == Quiet /\ UNCHANGED vars

Next ==
  \/ ClientPublishes
  \/ \E p \in Publishers : TakeChange(p) \/ Stamp(p) \/ Commit(p)
  \/ \E a \in Appliers : Register(a) \/ Unsubscribe(a)
  \/ \E t \in Threads : Drain(t) \/ Skip(t) \/ Call(t) \/ Return(t) \/ Record(t)
  \/ AtRest

Spec == Init /\ [][Next]_vars

-----------------------------------------------------------------------------
(* Type invariant of the scope, its appliers and its goroutines. *)
TypeOK ==
  /\ versions \in Seq(Publication)
  /\ taken \in [Publishers -> Nat]
  /\ seq \in Nat /\ latestSeq \in Nat /\ desired \in Nat
  /\ seedTaken \in BOOLEAN /\ observed \in BOOLEAN /\ delivering \in BOOLEAN
  /\ lastErr \in BOOLEAN
  /\ current \in Observation
  /\ seed \in [armed : BOOLEAN, rev : Nat, doc : Docs]
  /\ registered \in SUBSET Appliers /\ removed \in SUBSET Appliers
  /\ deliveredSeq \in [Appliers -> Nat]
  /\ acceptedSeq \in [Appliers -> Nat]
  /\ appliedRev \in [Appliers -> Nat]
  /\ threads \in [Threads -> Thread]
  /\ inForce \in [Appliers -> Nat]
  /\ lastOffered \in [Appliers -> Publication]
  /\ offered \in [Appliers -> SUBSET Publication]
  /\ repeated \in BOOLEAN

(* A burst never drops its last item: while a registered applier has not   *)
(* been offered the current observation, some goroutine still has the loop *)
(* of drain ahead of it.                                                   *)
NothingDropped == Pending # {} => \E t \in Threads : threads[t].pc \in Busy

(* Deliveries are serial, and the Previous an applier is handed is what it *)
(* last accepted, though the bookkeeping behind it lags the calls.         *)
PreviousInForce ==
  \A t \in Threads : threads[t].pc = "calling" =>
    /\ threads[t].previous[threads[t].calling] = inForce[threads[t].calling]
    /\ \A u \in Threads \ {t} : threads[u].pc \notin {"batch", "calling"}

(* With nothing in flight every registered applier was last called with    *)
(* the document in force, if it can be decoded, and was called at all.     *)
NewestOffered ==
  Quiet /\ observed /\ InForce.doc \notin Undecodable =>
    \A a \in registered : deliveredSeq[a] > 0 /\ lastOffered[a].doc = InForce.doc

(* The scope never moves backwards: an arrival whose decoding another one  *)
(* overtook is dropped by commit, so that no applier has in force a        *)
(* document newer than the one the scope holds and replays to whoever      *)
(* registers next.                                                         *)
NoneAhead == \A a \in Appliers : inForce[a] <= current.seq

(* Status tells the truth at rest: no error is reported exactly when every *)
(* applier has the newest document in force, and Applied then says so.     *)
StatusTruthful ==
  Quiet /\ registered # {} =>
    /\ lastErr <=> \E a \in registered : inForce[a] # latestSeq
    /\ ~lastErr => Applied = desired

(* OnApply: the same non-zero revision with the same value bytes is never  *)
(* delivered twice while its scope stays up.                               *)
NeverTwice == ~repeated
=============================================================================
