------------------------------ MODULE WatchFeed -----------------------------
(***************************************************************************)
(* The MongoDB changefeeds (internal/mongodb/mongodb_changestream.go) and  *)
(* the rule that no two scopes of a store watch one collection: a feed     *)
(* asks the server of its collection who it is, claims that identity under *)
(* the lock of the feeds map, and only then opens its stream.  A tenant's  *)
(* feed resolves, asks and claims again on every reopen, because the       *)
(* tenant manager may have moved the tenant or dropped the client.         *)
(* Attaching and telling subscribers is as in ListenFeed; here a feed has  *)
(* a count of them.                                                        *)
(***************************************************************************)
EXTENDS Naturals, FiniteSets

CONSTANTS
  Tenants,
  Zero,           \* the single-tenant scope
  Colls,          \* collections, each of one database of one server
  NoID,           \* the zero identity: the server did not say who it is
  MaxRefs,        \* bound: subscribers of a tenant
  MaxMoves,       \* bound: tenants moved to another database
  MaxFaults       \* bound: resolutions, probes, opens and streams that fail

ASSUME ZeroAssumption == Zero \notin Tenants
ASSUME NoIDAssumption == NoID \notin Colls
ASSUME BoundsAssumption == MaxRefs \in Nat /\ MaxMoves \in Nat /\ MaxFaults \in Nat

VARIABLES
  home,       \* external: the collection the connector resolves each scope to
  feeds,      \* the feed of each scope
  closed,     \* Store.Close has begun
  moves, faults

vars == <<home, feeds, closed, moves, faults>>

Scopes == Tenants \cup {Zero}

(* target and id: the handle just resolved and what its server answered;   *)
(* coll and claim: f.coll and f.collID; dead: the client behind the handle *)
(* is disconnected.                                                        *)
Feed == [phase : {"none", "resolve", "probe", "claim", "open", "streaming", "backoff"},
         role : {"creator", "reader"}, refs : 0 .. MaxRefs, dead : BOOLEAN,
         target : Colls \cup {NoID}, id : Colls \cup {NoID},
         coll : Colls \cup {NoID}, claim : Colls \cup {NoID}]
NoFeed == [phase |-> "none", role |-> "creator", refs |-> 0, dead |-> FALSE,
           target |-> NoID, id |-> NoID, coll |-> NoID, claim |-> NoID]

Init ==
  /\ home \in [Scopes -> Colls]
  /\ feeds = [sc \in Scopes |-> NoFeed]
  /\ closed = FALSE
  /\ moves = 0 /\ faults = 0

Fault == faults < MaxFaults /\ faults' = faults + 1

-----------------------------------------------------------------------------
(* The tenant manager: external.                                           *)

(* A tenant's database is another one; handles given out stay as they are. *)
Move(sc, c) ==
  /\ moves < MaxMoves
  /\ home[sc] # c
  /\ home' = [home EXCEPT ![sc] = c]
  /\ moves' = moves + 1
  /\ UNCHANGED <<feeds, closed, faults>>

(* The client behind a feed's handle is disconnected, its stream with it. *)
Evict(sc) ==
  /\ feeds[sc].role = "reader"
  /\ ~feeds[sc].dead
  /\ Fault
  /\ feeds' = [feeds EXCEPT ![sc] =
       [feeds[sc] EXCEPT !.dead = TRUE, !.phase = IF @ = "streaming" THEN "backoff" ELSE @]]
  /\ UNCHANGED <<home, closed, moves>>

-----------------------------------------------------------------------------
(* Acquiring and releasing.                                                *)

(* acquireFeed: the first caller of a tenant reserves the slot and creates *)
(* the feed, the others take a reference and wait.                         *)
Subscribe(sc) ==
  /\ ~closed
  /\ feeds[sc].refs < MaxRefs
  /\ feeds' = [feeds EXCEPT ![sc] =
       IF @.phase = "none" THEN [NoFeed EXCEPT !.phase = "resolve", !.refs = 1]
       ELSE [feeds[sc] EXCEPT !.refs = @ + 1]]
  /\ UNCHANGED <<home, closed, moves, faults>>

(* releaseFeed, of a subscriber or of a waiter whose context has ended;    *)
(* the creator cannot leave.  The last one takes the feed from the map,    *)
(* and its claim with it.                                                  *)
Leave(sc) ==
  /\ feeds[sc].refs > IF feeds[sc].role = "creator" THEN 1 ELSE 0
  /\ feeds' = [feeds EXCEPT ![sc] =
       IF @.refs = 1 THEN NoFeed ELSE [feeds[sc] EXCEPT !.refs = @ - 1]]
  /\ UNCHANGED <<home, closed, moves, faults>>

(* startListener, one at a time: the zero scope's feed, unless it runs.    *)
(* What an earlier attempt claimed it still holds.                         *)
Start ==
  /\ ~closed
  /\ feeds[Zero].phase = "none"
  /\ feeds' = [feeds EXCEPT ![Zero] = [@ EXCEPT !.phase = "probe", !.target = home[Zero]]]
  /\ UNCHANGED <<home, closed, moves, faults>>

(* stopFeeds: the map is emptied in one hold; who is creating a feed finds *)
(* the store closing when it publishes.                                    *)
Close ==
  /\ ~closed
  /\ closed' = TRUE
  /\ feeds' = [sc \in Scopes |-> NoFeed]
  /\ UNCHANGED <<home, moves, faults>>

-----------------------------------------------------------------------------
(* Opening a feed: createFeed and startListener for the first time, then   *)
(* refreshFeedColl and openWatch by its reader.                            *)

(* retractFeed takes a tenant's slot from the map and keeps the zero       *)
(* scope's; a reader tries again after the backoff, with what it holds.    *)
Failed(sc) ==
  LET f == feeds[sc] IN
  IF f.role = "reader" THEN [f EXCEPT !.phase = "backoff", !.target = NoID, !.id = NoID]
  ELSE IF sc = Zero THEN [NoFeed EXCEPT !.claim = f.claim]
  ELSE NoFeed

Fails(sc, phase) ==
  /\ feeds[sc].phase = phase
  /\ feeds' = [feeds EXCEPT ![sc] = Failed(sc)]

(* ResolveDatabase gives a live handle. *)
Resolve(sc) ==
  /\ feeds[sc].phase = "resolve"
  /\ feeds' = [feeds EXCEPT ![sc] = [@ EXCEPT !.phase = "probe", !.target = home[sc]]]
  /\ UNCHANGED <<home, closed, moves, faults>>

ResolveFails(sc) == Fails(sc, "resolve") /\ Fault /\ UNCHANGED <<home, closed, moves>>

(* collIdentityOf: the server answers hello. *)
Probe(sc) ==
  /\ feeds[sc].phase = "probe"
  /\ feeds' = [feeds EXCEPT ![sc] = [@ EXCEPT !.phase = "claim", !.id = feeds[sc].target]]
  /\ UNCHANGED <<home, closed, moves, faults>>

(* Or not: a creator goes on without an identity, a reader does not.       *)
ProbeUnanswered(sc) ==
  /\ feeds[sc].phase = "probe"
  /\ feeds' = [feeds EXCEPT ![sc] =
       IF @.role = "reader" THEN Failed(sc) ELSE [@ EXCEPT !.phase = "claim", !.id = NoID]]
  /\ Fault
  /\ UNCHANGED <<home, closed, moves>>

(* Mutant: only a feed that streams has its collection. *)
Contested_Streaming(sc) ==
  \E other \in Scopes \ {sc} :
    feeds[other].phase = "streaming" /\ feeds[other].claim = feeds[sc].id

(* Another feed of the map, open or not, claims the collection. *)
Contested(sc) == \E other \in Scopes \ {sc} : feeds[other].claim = feeds[sc].id

(* claimFeedIdentity: without an identity nothing is refused and nothing   *)
(* changes.                                                                *)
Claim(sc) ==
  LET f == feeds[sc]
      adopted == [f EXCEPT !.phase = "open", !.coll = f.target, !.dead = FALSE] IN
  /\ f.phase = "claim"
  /\ feeds' = [feeds EXCEPT ![sc] =
       IF f.id = NoID THEN adopted
       ELSE IF Contested(sc) THEN Failed(sc)
       ELSE [adopted EXCEPT !.claim = f.id]]
  /\ UNCHANGED <<home, closed, moves, faults>>

(* ensureSchema, openWatch and publishFeed. *)
Open(sc) ==
  /\ feeds[sc].phase = "open"
  /\ ~feeds[sc].dead
  /\ feeds' = [feeds EXCEPT ![sc] =
       [@ EXCEPT !.phase = "streaming", !.role = "reader", !.target = NoID, !.id = NoID]]
  /\ UNCHANGED <<home, closed, moves, faults>>

(* The stream does not open, surely not over a disconnected client. *)
OpenFails(sc) ==
  /\ Fails(sc, "open")
  /\ IF feeds[sc].dead THEN UNCHANGED faults ELSE Fault
  /\ UNCHANGED <<home, closed, moves>>

(* consumeUntilFailure returns. *)
StreamLost(sc) ==
  /\ feeds[sc].phase = "streaming"
  /\ feeds' = [feeds EXCEPT ![sc].phase = "backoff"]
  /\ Fault
  /\ UNCHANGED <<home, closed, moves>>

(* Mutant: the handle the feed was built with is kept. *)
Reopen_Pinned(sc) ==
  /\ feeds[sc].phase = "backoff"
  /\ feeds' = [feeds EXCEPT ![sc].phase = "open"]
  /\ UNCHANGED <<home, closed, moves, faults>>

(* reopenWatch, after its delay; refreshFeedColl is for tenants. *)
Reopen(sc) ==
  /\ feeds[sc].phase = "backoff"
  /\ feeds' = [feeds EXCEPT ![sc].phase = IF sc = Zero THEN "open" ELSE "resolve"]
  /\ UNCHANGED <<home, closed, moves, faults>>

-----------------------------------------------------------------------------
Step(sc) ==
  \/ Resolve(sc) \/ Probe(sc) \/ Claim(sc) \/ Open(sc) \/ Reopen(sc)
  \/ feeds[sc].dead /\ OpenFails(sc)

Next ==
  \/ \E sc \in Scopes :
       \/ Step(sc) \/ ResolveFails(sc) \/ ProbeUnanswered(sc) \/ OpenFails(sc) \/ StreamLost(sc)
  \/ \E sc \in Tenants :
       \/ Subscribe(sc) \/ Leave(sc) \/ Evict(sc)
       \/ \E c \in Colls : Move(sc, c)
  \/ Start \/ Close
  \/ closed /\ UNCHANGED vars

Spec == Init /\ [][Next]_vars

(* Creators and readers are goroutines whose calls have deadlines. *)
FairSpec == Spec /\ \A sc \in Scopes : WF_vars(Step(sc))

-----------------------------------------------------------------------------
TypeOK ==
  /\ home \in [Scopes -> Colls]
  /\ feeds \in [Scopes -> Feed]
  /\ closed \in BOOLEAN
  /\ moves \in 0 .. MaxMoves
  /\ faults \in 0 .. MaxFaults

Streams(sc) == feeds[sc].phase = "streaming"
Identified(sc) == feeds[sc].claim # NoID

(* No event of a collection reaches two scopes: two streams of identified  *)
(* feeds are on different collections, through every move of a tenant,     *)
(* eviction, failed probe and reopen.                                      *)
OneScopePerCollection ==
  \A a, b \in Scopes :
    a # b /\ Streams(a) /\ Streams(b) /\ Identified(a) /\ Identified(b) =>
      feeds[a].coll # feeds[b].coll

(* A stream is on the collection its feed claims, and the claim is not     *)
(* given up while the feed reconnects: nobody takes the place of a feed    *)
(* that is still where it was.                                             *)
ClaimsStand ==
  \A sc \in Scopes : feeds[sc].role = "reader" /\ Identified(sc) =>
    /\ feeds[sc].coll = feeds[sc].claim
    /\ \A other \in Scopes \ {sc} : feeds[other].claim # feeds[sc].claim

(* A tenant's feed that lost its stream has one again, or is released, or  *)
(* the database the tenant is in stays with another scope.                 *)
StreamsAgain ==
  \A sc \in Tenants :
    feeds[sc].phase = "backoff" ~>
      \/ feeds[sc].phase \in {"none", "streaming"}
      \/ \E other \in Scopes \ {sc} : feeds[other].claim = home[sc]

(* What collIdentityOf says: no unidentified feed is ever admitted into    *)
(* service.                                                                *)
OnlyIdentified == \A sc \in Scopes : Streams(sc) => Identified(sc)
=============================================================================
