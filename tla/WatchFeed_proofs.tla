-------------------------- MODULE WatchFeed_proofs ---------------------------
(***************************************************************************)
(* What holds of WatchFeed for any tenants, collections and bounds.        *)
(***************************************************************************)
EXTENDS WatchFeed, TLAPS

(* What a feed holds at each point of its opening.  The identity a reader  *)
(* claims is the one its target gave; past its claim an identified feed is *)
(* on the collection it claims; a tenant's creator claims nothing earlier. *)
Sound(sc, f) ==
  /\ f.phase \in {"probe", "claim"} => f.target # NoID
  /\ f.phase = "claim" => f.id \in {f.target, IF f.role = "reader" THEN f.target ELSE NoID}
  /\ f.phase \in {"streaming", "backoff"} => f.role = "reader"
  /\ f.phase = "none" => f.role = "creator"
  /\ f.role = "reader" \/ f.phase = "open" => f.claim \in {NoID, f.coll}
  /\ sc # Zero /\ f.role = "creator" /\ f.phase # "open" => f.claim = NoID

(* The zero scope's collection never moves, so the claim an attempt that   *)
(* failed left behind is the claim of the next one.                        *)
ZeroSound(f) ==
  /\ f.claim \in {NoID, home[Zero]}
  /\ f.phase \in {"probe", "claim"} => f.target = home[Zero] /\ f.role = "creator"
  /\ f.phase # "resolve"

(* No two scopes claim one collection, at whatever point they are. *)
Exclusive ==
  \A a, b \in Scopes : a # b /\ Identified(a) => feeds[a].claim # feeds[b].claim

Inv ==
  /\ TypeOK
  /\ \A sc \in Scopes : Sound(sc, feeds[sc])
  /\ ZeroSound(feeds[Zero])
  /\ Exclusive

(* One feed replaced by a sound one keeps the invariant, when it claims no *)
(* more than the one before or what nobody else claims.                    *)
LEMMA Replaced ==
  ASSUME Inv, NEW sc \in Scopes, NEW g \in Feed,
         feeds' = [feeds EXCEPT ![sc] = g],
         Sound(sc, g), sc = Zero => ZeroSound(g),
         g.claim \in {NoID, feeds[sc].claim}
           \/ \A other \in Scopes \ {sc} : feeds[other].claim # g.claim,
         UNCHANGED <<home, closed, moves>>, faults' \in 0 .. MaxFaults
  PROVE  Inv'
<1>1. Zero \in Scopes
  BY DEF Scopes
<1>2. TypeOK'
  BY DEF Inv, TypeOK
<1>3. \A s \in Scopes : feeds'[s] = IF s = sc THEN g ELSE feeds[s]
  BY DEF Inv, TypeOK
<1>4. \A s \in Scopes : Sound(s, feeds'[s])
  BY <1>3 DEF Inv
<1>5. ZeroSound(feeds'[Zero])
  BY <1>1, <1>3 DEF Inv
<1>6. Exclusive'
  <2> SUFFICES ASSUME NEW a \in Scopes, NEW b \in Scopes, a # b, feeds'[a].claim # NoID
               PROVE  feeds'[a].claim # feeds'[b].claim
    BY DEF Exclusive, Identified
  <2>1. \A x, y \in Scopes : x # y /\ feeds[x].claim # NoID => feeds[x].claim # feeds[y].claim
    BY DEF Inv, Exclusive, Identified
  <2>2. CASE a = sc
    BY <1>3, <2>1, <2>2
  <2>3. CASE b = sc
    BY <1>3, <2>1, <2>3
  <2>4. CASE a # sc /\ b # sc
    BY <1>3, <2>1, <2>4
  <2> QED BY <2>2, <2>3, <2>4
<1>7. ZeroSound(feeds[Zero])'
  BY <1>5 DEF ZeroSound
<1>8. (\A s \in Scopes : Sound(s, feeds[s]))'
  BY <1>4 DEF Sound
<1> QED BY <1>2, <1>6, <1>7, <1>8 DEF Inv

(* What a failed attempt leaves is sound and claims nothing new. *)
LEMMA FailedSound ==
  ASSUME Inv, NEW sc \in Scopes
  PROVE  /\ Failed(sc) \in Feed
         /\ Sound(sc, Failed(sc))
         /\ sc = Zero => ZeroSound(Failed(sc))
         /\ Failed(sc).claim \in {NoID, feeds[sc].claim}
<1>1. feeds[sc] \in Feed /\ Sound(sc, feeds[sc])
  BY DEF Inv, TypeOK
<1>2. sc = Zero => ZeroSound(feeds[sc])
  BY DEF Inv
<1>3. NoFeed \in Feed
  BY BoundsAssumption DEF NoFeed, Feed
<1>4. CASE feeds[sc].role = "reader"
  BY <1>1, <1>2, <1>4 DEF Failed, Feed, Sound, ZeroSound
<1>5. CASE feeds[sc].role # "reader" /\ sc = Zero
  BY <1>1, <1>2, <1>3, <1>5, ZenonT(40) DEF Failed, Feed, Sound, ZeroSound, NoFeed
<1>6. CASE feeds[sc].role # "reader" /\ sc # Zero
  BY <1>3, <1>6 DEF Failed, Sound, NoFeed
<1> QED BY <1>4, <1>5, <1>6

(* Init. *)
LEMMA InitInv == Init => Inv
<1> SUFFICES ASSUME Init PROVE Inv
  OBVIOUS
<1>1. NoFeed \in Feed
  BY BoundsAssumption DEF NoFeed, Feed
<1>2. TypeOK
  <2>1. moves = 0 /\ faults = 0 /\ closed = FALSE /\ home \in [Scopes -> Colls]
    BY DEF Init
  <2>2. feeds \in [Scopes -> Feed]
    BY <1>1 DEF Init
  <2>3. moves \in 0 .. MaxMoves /\ faults \in 0 .. MaxFaults
    BY <2>1, BoundsAssumption
  <2> QED BY <2>1, <2>2, <2>3 DEF TypeOK
<1>3. \A sc \in Scopes : feeds[sc] = NoFeed
  BY DEF Init
<1>4. Zero \in Scopes
  BY DEF Scopes
<1> QED BY <1>2, <1>3, <1>4 DEF Inv, Sound, ZeroSound, Exclusive, Identified, NoFeed

(* Another failure stays within its bound. *)
LEMMA FaultBound == TypeOK /\ Fault => faults' \in 0 .. MaxFaults
BY BoundsAssumption DEF TypeOK, Fault

(* Moves, evictions, subscribers that come and go, Start and Close. *)
LEMMA AroundInv ==
  ASSUME Inv,
         \/ \E sc \in Tenants : \/ Subscribe(sc) \/ Leave(sc) \/ Evict(sc)
                                \/ \E c \in Colls : Move(sc, c)
         \/ Start \/ Close
  PROVE  Inv'
<1>1. Zero \in Scopes /\ Tenants \subseteq Scopes /\ Zero \notin Tenants
  BY ZeroAssumption DEF Scopes
<1>2. TypeOK
  BY DEF Inv
<1>3. NoFeed \in Feed
  BY BoundsAssumption DEF NoFeed, Feed
<1>4. ASSUME NEW sc \in Tenants, NEW c \in Colls, Move(sc, c) PROVE Inv'
  <2>1. TypeOK'
    BY <1>1, <1>2, <1>4, BoundsAssumption DEF Move, TypeOK
  <2>2. home'[Zero] = home[Zero] /\ feeds' = feeds
    BY <1>1, <1>2, <1>4 DEF Move, TypeOK
  <2> QED BY <2>1, <2>2 DEF Inv, Sound, ZeroSound, Exclusive, Identified
<1>5. ASSUME NEW sc \in Tenants, Subscribe(sc) PROVE Inv'
  <2>1. feeds[sc] \in Feed /\ Sound(sc, feeds[sc]) /\ sc # Zero /\ sc \in Scopes
    BY <1>1 DEF Inv, TypeOK
  <2> DEFINE g == IF feeds[sc].phase = "none" THEN [NoFeed EXCEPT !.phase = "resolve", !.refs = 1]
                  ELSE [feeds[sc] EXCEPT !.refs = @ + 1]
  <2>2. feeds' = [feeds EXCEPT ![sc] = g]
    BY <1>2, <1>5 DEF Subscribe, TypeOK
  <2>3. feeds[sc].refs < MaxRefs /\ UNCHANGED <<home, closed, moves, faults>>
    BY <1>5 DEF Subscribe
  <2>4. g \in Feed
    <3>1. feeds[sc].refs \in 0 .. MaxRefs
      BY <2>1 DEF Feed
    <3>2. feeds[sc].refs + 1 \in 0 .. MaxRefs /\ 1 \in 0 .. MaxRefs
      BY <3>1, <2>3, BoundsAssumption
    <3> QED BY <1>3, <2>1, <3>2 DEF Feed
  <2>5. Sound(sc, g) /\ g.claim \in {NoID, feeds[sc].claim}
    BY <2>1 DEF Sound, NoFeed, Feed
  <2>6. faults' \in 0 .. MaxFaults
    BY <1>2, <2>3 DEF TypeOK
  <2> HIDE DEF g
  <2> QED BY <2>1, <2>2, <2>3, <2>4, <2>5, <2>6, Replaced
<1>6. ASSUME NEW sc \in Tenants, Leave(sc) PROVE Inv'
  <2>1. feeds[sc] \in Feed /\ Sound(sc, feeds[sc]) /\ sc # Zero /\ sc \in Scopes
    BY <1>1 DEF Inv, TypeOK
  <2> DEFINE g == IF feeds[sc].refs = 1 THEN NoFeed ELSE [feeds[sc] EXCEPT !.refs = @ - 1]
  <2>2. feeds' = [feeds EXCEPT ![sc] = g]
    BY <1>2, <1>6 DEF Leave, TypeOK
  <2>3. feeds[sc].refs > 0 /\ UNCHANGED <<home, closed, moves, faults>>
    BY <1>6, <2>1 DEF Leave, Feed
  <2>4. g \in Feed
    BY <1>3, <2>1, <2>3, BoundsAssumption DEF Feed
  <2>5. Sound(sc, g) /\ g.claim \in {NoID, feeds[sc].claim}
    BY <2>1 DEF Sound, NoFeed, Feed
  <2>6. faults' \in 0 .. MaxFaults
    BY <1>2, <2>3 DEF TypeOK
  <2> HIDE DEF g
  <2> QED BY <2>1, <2>2, <2>3, <2>4, <2>5, <2>6, Replaced
<1>7. ASSUME NEW sc \in Tenants, Evict(sc) PROVE Inv'
  <2>1. feeds[sc] \in Feed /\ Sound(sc, feeds[sc]) /\ sc # Zero /\ sc \in Scopes
    BY <1>1 DEF Inv, TypeOK
  <2> DEFINE g == [feeds[sc] EXCEPT !.dead = TRUE,
                                    !.phase = IF @ = "streaming" THEN "backoff" ELSE @]
  <2>2. feeds' = [feeds EXCEPT ![sc] = g]
    BY <1>2, <1>7 DEF Evict, TypeOK
  <2>3. feeds[sc].role = "reader" /\ Fault /\ UNCHANGED <<home, closed, moves>>
    BY <1>7 DEF Evict
  <2>4. g \in Feed
    BY <2>1 DEF Feed
  <2>5. Sound(sc, g) /\ g.claim \in {NoID, feeds[sc].claim}
    BY <2>1, <2>3 DEF Sound, Feed
  <2>6. faults' \in 0 .. MaxFaults
    BY <1>2, <2>3, FaultBound
  <2> HIDE DEF g
  <2> QED BY <2>1, <2>2, <2>3, <2>4, <2>5, <2>6, Replaced
<1>8. CASE Start
  <2> DEFINE g == [feeds[Zero] EXCEPT !.phase = "probe", !.target = home[Zero]]
  <2>1. /\ feeds[Zero] \in Feed /\ Sound(Zero, feeds[Zero]) /\ ZeroSound(feeds[Zero])
        /\ home[Zero] \in Colls
    BY <1>1 DEF Inv, TypeOK
  <2>2. feeds' = [feeds EXCEPT ![Zero] = g]
    BY <1>1, <1>2, <1>8 DEF Start, TypeOK
  <2>3. feeds[Zero].phase = "none" /\ UNCHANGED <<home, closed, moves, faults>>
    BY <1>8 DEF Start
  <2>4. g \in Feed
    BY <2>1 DEF Feed
  <2>5. Sound(Zero, g) /\ ZeroSound(g) /\ g.claim \in {NoID, feeds[Zero].claim}
    BY <2>1, <2>3, NoIDAssumption DEF Sound, ZeroSound, Feed
  <2>6. faults' \in 0 .. MaxFaults
    BY <1>2, <2>3 DEF TypeOK
  <2> HIDE DEF g
  <2> QED BY <1>1, <2>1, <2>2, <2>3, <2>4, <2>5, <2>6, Replaced
<1>9. CASE Close
  <2>1. TypeOK' /\ \A sc \in Scopes : feeds'[sc] = NoFeed
    BY <1>2, <1>3, <1>9 DEF Close, TypeOK
  <2> QED BY <1>1, <2>1 DEF Inv, Sound, ZeroSound, Exclusive, Identified, NoFeed
<1> QED BY <1>4, <1>5, <1>6, <1>7, <1>8, <1>9

(* A feed opening for the first time or again. *)
LEMMA OpeningInv ==
  ASSUME Inv, NEW sc \in Scopes,
         \/ Step(sc) \/ ResolveFails(sc) \/ ProbeUnanswered(sc) \/ OpenFails(sc)
         \/ StreamLost(sc)
  PROVE  Inv'
<1> DEFINE f == feeds[sc]
<1>1. TypeOK /\ Zero \in Scopes
  BY DEF Inv, Scopes
<1>2. f \in Feed /\ Sound(sc, f) /\ home[sc] \in Colls /\ (sc = Zero => ZeroSound(f))
  BY DEF Inv, TypeOK
<1>3. faults \in 0 .. MaxFaults
  BY <1>1 DEF TypeOK
<1>4. ASSUME feeds' = [feeds EXCEPT ![sc] = Failed(sc)], UNCHANGED <<home, closed, moves>>,
             Fault \/ UNCHANGED faults
      PROVE  Inv'
  BY <1>1, <1>3, <1>4, FailedSound, FaultBound, Replaced
<1>5. CASE ResolveFails(sc) \/ OpenFails(sc)
  BY <1>4, <1>5 DEF ResolveFails, OpenFails, Fails
<1>6. CASE Resolve(sc)
  <2> DEFINE g == [f EXCEPT !.phase = "probe", !.target = home[sc]]
  <2>1. /\ f.phase = "resolve" /\ feeds' = [feeds EXCEPT ![sc] = g]
        /\ UNCHANGED <<home, closed, moves, faults>>
    BY <1>1, <1>6 DEF Resolve, TypeOK
  <2>2. g \in Feed /\ Sound(sc, g) /\ (sc = Zero => ZeroSound(g))
        /\ g.claim \in {NoID, f.claim}
    BY <1>2, <2>1, NoIDAssumption DEF Feed, Sound, ZeroSound
  <2> HIDE DEF g
  <2> QED BY <1>3, <2>1, <2>2, Replaced
<1>7. CASE Probe(sc)
  <2> DEFINE g == [f EXCEPT !.phase = "claim", !.id = f.target]
  <2>1. /\ f.phase = "probe" /\ feeds' = [feeds EXCEPT ![sc] = g]
        /\ UNCHANGED <<home, closed, moves, faults>>
    BY <1>1, <1>7 DEF Probe, TypeOK
  <2>2. g \in Feed /\ Sound(sc, g) /\ (sc = Zero => ZeroSound(g))
        /\ g.claim \in {NoID, f.claim}
    BY <1>2, <2>1 DEF Feed, Sound, ZeroSound
  <2> HIDE DEF g
  <2> QED BY <1>3, <2>1, <2>2, Replaced
<1>8. CASE ProbeUnanswered(sc)
  <2>1. CASE f.role = "reader"
    BY <1>4, <1>8, <2>1 DEF ProbeUnanswered
  <2>2. CASE f.role # "reader"
    <3> DEFINE g == [f EXCEPT !.phase = "claim", !.id = NoID]
    <3>1. /\ f.phase = "probe" /\ feeds' = [feeds EXCEPT ![sc] = g]
          /\ UNCHANGED <<home, closed, moves>> /\ Fault
      BY <1>1, <1>8, <2>2 DEF ProbeUnanswered, TypeOK
    <3>2. g \in Feed /\ Sound(sc, g) /\ (sc = Zero => ZeroSound(g))
          /\ g.claim \in {NoID, f.claim}
      BY <1>2, <2>2, <3>1 DEF Feed, Sound, ZeroSound
    <3>3. faults' \in 0 .. MaxFaults
      BY <1>1, <3>1, FaultBound
    <3> HIDE DEF g
    <3> QED BY <3>1, <3>2, <3>3, Replaced
  <2> QED BY <2>1, <2>2
<1>9. CASE Claim(sc)
  <2>1. f.phase = "claim" /\ UNCHANGED <<home, closed, moves, faults>>
    BY <1>9 DEF Claim
  <2> DEFINE adopted == [f EXCEPT !.phase = "open", !.coll = f.target, !.dead = FALSE]
  <2>2. CASE f.id = NoID
    <3>1. feeds' = [feeds EXCEPT ![sc] = adopted]
      BY <1>9, <2>2 DEF Claim
    <3>2. f.role = "creator" /\ f.target # NoID
      BY <1>2, <2>1, <2>2 DEF Sound, Feed
    <3>3. f.claim \in {NoID, f.target}
      BY <1>2, <2>1, <3>2 DEF Sound, ZeroSound
    <3>4. adopted \in Feed /\ Sound(sc, adopted) /\ (sc = Zero => ZeroSound(adopted))
          /\ adopted.claim \in {NoID, f.claim}
      BY <1>2, <2>1, <3>2, <3>3 DEF Feed, Sound, ZeroSound
    <3> HIDE DEF adopted
    <3> QED BY <1>3, <2>1, <3>1, <3>4, Replaced
  <2>3. CASE f.id # NoID /\ Contested(sc)
    BY <1>4, <1>9, <2>1, <2>3 DEF Claim
  <2>4. CASE f.id # NoID /\ ~Contested(sc)
    <3> DEFINE g == [adopted EXCEPT !.claim = f.id]
    <3>1. feeds' = [feeds EXCEPT ![sc] = g]
      BY <1>9, <2>4 DEF Claim
    <3>2. f.id = f.target
      BY <1>2, <2>1, <2>4 DEF Sound
    <3>3. g \in Feed /\ Sound(sc, g) /\ (sc = Zero => ZeroSound(g)) /\ g.claim = f.id
      BY <1>2, <2>1, <3>2 DEF Feed, Sound, ZeroSound
    <3>4. \A other \in Scopes \ {sc} : feeds[other].claim # g.claim
      BY <2>4, <3>3 DEF Contested
    <3> HIDE DEF g
    <3> QED BY <1>3, <2>1, <3>1, <3>3, <3>4, Replaced
  <2> QED BY <2>2, <2>3, <2>4
<1>10. CASE Open(sc)
  <2> DEFINE g == [f EXCEPT !.phase = "streaming", !.role = "reader", !.target = NoID,
                            !.id = NoID]
  <2>1. /\ f.phase = "open" /\ feeds' = [feeds EXCEPT ![sc] = g]
        /\ UNCHANGED <<home, closed, moves, faults>>
    BY <1>1, <1>10 DEF Open, TypeOK
  <2>2. g \in Feed /\ Sound(sc, g) /\ (sc = Zero => ZeroSound(g))
        /\ g.claim \in {NoID, f.claim}
    BY <1>2, <2>1 DEF Feed, Sound, ZeroSound
  <2> HIDE DEF g
  <2> QED BY <1>3, <2>1, <2>2, Replaced
<1>11. CASE StreamLost(sc)
  <2> DEFINE g == [f EXCEPT !.phase = "backoff"]
  <2>1. /\ f.phase = "streaming" /\ feeds' = [feeds EXCEPT ![sc] = g]
        /\ UNCHANGED <<home, closed, moves>> /\ Fault
    BY <1>1, <1>11 DEF StreamLost, TypeOK
  <2>2. g \in Feed /\ Sound(sc, g) /\ (sc = Zero => ZeroSound(g))
        /\ g.claim \in {NoID, f.claim}
    BY <1>2, <2>1 DEF Feed, Sound, ZeroSound
  <2>3. faults' \in 0 .. MaxFaults
    BY <1>1, <2>1, FaultBound
  <2> HIDE DEF g
  <2> QED BY <2>1, <2>2, <2>3, Replaced
<1>12. CASE Reopen(sc)
  <2> DEFINE g == [f EXCEPT !.phase = IF sc = Zero THEN "open" ELSE "resolve"]
  <2>1. /\ f.phase = "backoff" /\ feeds' = [feeds EXCEPT ![sc] = g]
        /\ UNCHANGED <<home, closed, moves, faults>>
    BY <1>1, <1>12 DEF Reopen, TypeOK
  <2>2. g \in Feed /\ Sound(sc, g) /\ (sc = Zero => ZeroSound(g))
        /\ g.claim \in {NoID, f.claim}
    BY <1>2, <2>1 DEF Feed, Sound, ZeroSound
  <2> HIDE DEF g
  <2> QED BY <1>3, <2>1, <2>2, Replaced
<1> QED BY <1>5, <1>6, <1>7, <1>8, <1>9, <1>10, <1>11, <1>12 DEF Step

-----------------------------------------------------------------------------
(* The inductive invariant holds of every behaviour. *)
THEOREM Invariant == Spec => []Inv
<1>1. Inv /\ UNCHANGED vars => Inv'
  BY DEF vars, Inv, TypeOK, Sound, ZeroSound, Exclusive, Identified
<1>2. Inv /\ [Next]_vars => Inv'
  BY <1>1, AroundInv, OpeningInv DEF Next
<1> QED BY <1>2, InitInv, PTL DEF Spec

(* A feed keeps its types: openWatch, claimFeedIdentity and releaseFeed    *)
(* never leave a feed half way between two of its phases.                  *)
THEOREM TypeCorrect == Spec => []TypeOK
<1>1. Inv => TypeOK
  BY DEF Inv
<1> QED BY <1>1, Invariant, PTL

(* claimFeedIdentity keeps collections to one scope each: two streams of   *)
(* identified feeds are never on the same collection.                      *)
THEOREM OneStreamPerCollection == Spec => []OneScopePerCollection
<1>1. Inv => OneScopePerCollection
  <2> SUFFICES ASSUME Inv, NEW a \in Scopes, NEW b \in Scopes,
                      a # b, Streams(a), Streams(b), Identified(a), Identified(b)
               PROVE  feeds[a].coll # feeds[b].coll
    BY DEF OneScopePerCollection
  <2>1. feeds[a].claim = feeds[a].coll /\ feeds[b].claim = feeds[b].coll
    BY DEF Inv, Sound, Streams, Identified
  <2> QED BY <2>1 DEF Inv, Exclusive
<1> QED BY <1>1, Invariant, PTL

(* A feed that reconnects keeps its claim and nobody else has it, so the   *)
(* place of a feed that is still where it was is never taken.              *)
THEOREM ClaimsStandFirm == Spec => []ClaimsStand
<1>1. Inv => ClaimsStand
  BY DEF Inv, Sound, Exclusive, Identified, ClaimsStand
<1> QED BY <1>1, Invariant, PTL
=============================================================================
