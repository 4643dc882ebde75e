-------------------------- MODULE ListenFeed_proofs --------------------------
(***************************************************************************)
(* What holds of ListenFeed for any scopes, subscribers and feeds.         *)
(***************************************************************************)
EXTENDS ListenFeed, TLAPS, FiniteSetTheorems

(* The calls that hold a reference to f. *)
Holding == {"waiting", "creating", "held", "joining", "active", "release"}
Holders(f) == {s \in Subscribers : subs[s].pc \in Holding /\ subs[s].feed = f}

Tenant(f) == feeds[f].scope # Zero
InMap(f) == slots[feeds[f].scope] = f

(* Where the numbers of feeds point. *)
Shape ==
  /\ feeds \in [1 .. created -> Feed]
  /\ \A sc \in Scopes : slots[sc] # 0 =>
       slots[sc] \in DOMAIN feeds /\ feeds[slots[sc]].scope = sc /\ ~feeds[slots[sc]].closing
  /\ \A s \in Subscribers :
       /\ subs[s].pc \in Holding \cup {"signal", "stopping"} => subs[s].feed \in DOMAIN feeds
       /\ subs[s].pc \in {"signal", "stopping"} => ~InMap(subs[s].feed)
  /\ starting # 0 => /\ starting \in DOMAIN feeds /\ ~Tenant(starting)
                     /\ feeds[starting].state = "reserved"
  /\ toSignal \subseteq DOMAIN feeds /\ (closing = "open" => toSignal = {})
  /\ \A f \in Feeds : f \notin DOMAIN feeds => readers[f].pc = "none"
  /\ \A f \in DOMAIN feeds : readers[f].pc # "none" <=> feeds[f].state = "live"
  /\ closing # "open" => \A sc \in Scopes : slots[sc] = 0

(* A reference is counted: none is lost while a tenant's feed may serve. *)
Count(H, h) ==
  /\ IsFiniteSet(H) /\ Cardinality(H) <= h.refs
  /\ h.scope # Zero /\ h.state # "failed" => Cardinality(H) = h.refs
Counted == \A f \in DOMAIN feeds : Count(Holders(f), feeds[f])

(* A feed has one creator at most, who has not published it yet and whose  *)
(* slot nobody else takes.                                                 *)
Creators ==
  \A s \in Subscribers : subs[s].pc = "creating" =>
    /\ Tenant(subs[s].feed) /\ feeds[subs[s].feed].state # "live"
    /\ closing = "open" => InMap(subs[s].feed)
    /\ \A c \in Subscribers : subs[c].pc = "creating" /\ subs[c].feed = subs[s].feed => c = s

(* Who waits on what: a tenant's reserved feed is in the map and has its   *)
(* creator at work, whoever was let in has a feed that is live and, until  *)
(* Close, in the map.                                                      *)
Creating ==
  /\ \A f \in DOMAIN feeds : Tenant(f) /\ feeds[f].state = "reserved" =>
       closing = "open" /\ \E c \in Subscribers : subs[c].pc = "creating" /\ subs[c].feed = f
  /\ starting # 0 /\ closing = "open" => InMap(starting)

Admitted ==
  \A s \in Subscribers :
    /\ subs[s].pc \in {"held", "joining", "active"} =>
         /\ Tenant(subs[s].feed) => feeds[subs[s].feed].state = "live"
         /\ closing = "open" => InMap(subs[s].feed)
    /\ subs[s].pc = "waiting" =>
         /\ Tenant(subs[s].feed)
         /\ closing = "open" /\ feeds[subs[s].feed].state = "live" => InMap(subs[s].feed)

(* The reader is in a callback, or has one ahead, in a fan-out only. *)
Reading ==
  \A f \in Feeds :
    /\ readers[f].pc # "delivering" => readers[f].todo = {} /\ readers[f].in = Nobody
    /\ readers[f].pc = "delivering" =>
         \/ readers[f].event \in {"resync", "key"} /\ readers[f].then = "consume"
         \/ readers[f].event = "disconnect" /\ readers[f].then = "reconnect"

(* What a feed has announced, if it was not told to stop. *)
Says(h) ==
  IF h.connected THEN "resync" ELSE IF h.disconnected THEN "disconnect" ELSE "none"

AnnouncedAt(h, r) ==
  ~h.closing =>
    /\ r.pc = "none" => Says(h) = "none"
    /\ r.pc = "resync" => Says(h) # "resync"
    /\ r.pc \in {"consume", "lost"} => Says(h) = "resync"
    /\ r.pc \in {"reconnect", "dialing", "exited"} => Says(h) = "disconnect"
    /\ r.pc = "delivering" => Says(h) = IF r.event = "disconnect" THEN "disconnect" ELSE "resync"
    /\ ~(h.connected /\ h.disconnected)

(* What a subscriber was told, or is being told by the call that joined. *)
Known ==
  [s \in Subscribers |->
     IF subs[s].pc = "joining" /\ subs[s].joining # "none" THEN subs[s].joining ELSE heard.op[s]]

(* Whoever a marker has yet to reach does not know it, whoever a key event *)
(* has yet to reach knows of the resync, all others know what was last     *)
(* announced.                                                              *)
KnownAt(h, r, K) ==
  ~h.closing =>
    /\ \A s \in r.todo : IF r.event = "key" THEN K[s] = "resync" ELSE K[s] # r.event
    /\ \A s \in h.subs : \/ r.pc = "delivering" /\ r.event # "key" /\ s \in r.todo
                         \/ K[s] = Says(h)

Tells(h, r, K) == AnnouncedAt(h, r) /\ KnownAt(h, r, K)
Telling == \A f \in DOMAIN feeds : Tells(feeds[f], readers[f], Known)

(* One feed at most, now or in a fan-out under way, knows a subscriber,    *)
(* who hears of nothing before.                                            *)
Before == {"idle", "waiting", "creating", "held"}
Here == {"joining", "active"}
OneFeed ==
  /\ \A f \in DOMAIN feeds : \A s \in feeds[f].subs : subs[s].feed = f /\ subs[s].pc \in Here
  /\ \A f \in DOMAIN feeds : \A s \in readers[f].todo :
       /\ subs[s].pc \notin Before /\ (subs[s].pc \in Here => subs[s].feed = f)
       /\ \A g \in DOMAIN feeds : s \in readers[g].todo => g = f
  /\ \A s \in Subscribers : subs[s].pc \in Before \cup {"joining"} => heard.op[s] = "none"

(* A teardown made inside a callback keeps the reader there. *)
Inside ==
  \A s \in Subscribers :
    subs[s].inside => subs[s].pc \in {"release", "signal"} /\ readers[subs[s].feed].in = s

Core == TypeOK /\ Shape /\ Reading
Types == Core /\ Creators /\ Counted
Ownership == Creating /\ Admitted /\ FeedsOwned
Telltale == OneFeed /\ Telling /\ Inside

-----------------------------------------------------------------------------
(* What each step does, field by field.                                    *)

(* All fields but the number of references and the subscribers. *)
AsBefore(h, k) ==
  /\ h.scope = k.scope /\ h.state = k.state /\ h.closing = k.closing
  /\ h.connected = k.connected /\ h.disconnected = k.disconnected

FeedIs(f, h) == feeds' = [feeds EXCEPT ![f] = h]
SubIs(s, g) == subs' = [subs EXCEPT ![s] = g]
ReaderIs(f, r) == readers' = [readers EXCEPT ![f] = r]

(* The variables' types, as functions. *)
LEMMA Typing ==
  ASSUME TypeOK, Shape
  PROVE  /\ feeds \in [1 .. created -> Feed] /\ DOMAIN feeds = 1 .. created
         /\ created \in Nat /\ created <= MaxFeeds /\ MaxFeeds \in Nat /\ DOMAIN feeds \subseteq Feeds
         /\ subs \in [Subscribers -> Sub] /\ readers \in [Feeds -> Reader]
         /\ slots \in [Scopes -> Feeds \cup {0}]
<1>1. created \in Nat /\ created <= MaxFeeds /\ MaxFeeds \in Nat
  BY BoundsAssumption DEF TypeOK
<1> QED BY <1>1 DEF TypeOK, Shape, Feeds

(* Goto. *)
LEMMA GotoEffect ==
  ASSUME subs \in [Subscribers -> Sub], NEW s \in Subscribers,
         NEW pc \in {"gone", "refused", "held", "signal", "stopping"}, Goto(s, pc)
  PROVE  \E g \in Sub :
           /\ SubIs(s, g) /\ g.pc = pc
           /\ pc \in {"gone", "refused"} => g.feed = 0 /\ g.inside = FALSE
           /\ pc \notin {"gone", "refused"} =>
                g.feed = subs[s].feed /\ g.inside = subs[s].inside /\ g.then = subs[s].then
<1>1. CASE pc \in {"gone", "refused"}
  <2> DEFINE g == [IdleSub EXCEPT !.pc = pc]
  <2>1. g \in Sub /\ g.pc = pc /\ g.feed = 0 /\ g.inside = FALSE
    BY <1>1 DEF IdleSub, Sub
  <2>2. SubIs(s, g)
    BY <1>1 DEF Goto, SubIs
  <2> HIDE DEF g
  <2> QED BY <1>1, <2>1, <2>2
<1>2. CASE pc \notin {"gone", "refused"}
  <2> DEFINE g == [subs[s] EXCEPT !.pc = pc]
  <2>1. /\ g \in Sub /\ g.pc = pc /\ g.feed = subs[s].feed /\ g.inside = subs[s].inside
        /\ g.then = subs[s].then
    BY <1>2 DEF Sub
  <2>2. SubIs(s, g)
    BY <1>2 DEF Goto, SubIs
  <2> HIDE DEF g
  <2> QED BY <1>2, <2>1, <2>2
<1> QED BY <1>1, <1>2

(* One more or one fewer reference. *)
LEMMA RefsEffect ==
  ASSUME NEW h \in Feed, NEW n \in Nat
  PROVE  LET k == [h EXCEPT !.refs = n] IN
         k \in Feed /\ AsBefore(k, h) /\ k.refs = n /\ k.subs = h.subs
BY DEF Feed, AsBefore

(* Another set of subscribers. *)
LEMMA SubsEffect ==
  ASSUME NEW h \in Feed, NEW S \in SUBSET Subscribers
  PROVE  LET k == [h EXCEPT !.subs = S] IN
         k \in Feed /\ AsBefore(k, h) /\ k.refs = h.refs /\ k.subs = S
BY DEF Feed, AsBefore

(* Another state. *)
LEMMA StateEffect ==
  ASSUME NEW h \in Feed, NEW st \in {"reserved", "live", "failed"}
  PROVE  LET k == [h EXCEPT !.state = st] IN
         /\ k \in Feed /\ k.state = st /\ k.scope = h.scope /\ k.closing = h.closing
         /\ k.connected = h.connected /\ k.disconnected = h.disconnected
         /\ k.refs = h.refs /\ k.subs = h.subs
BY DEF Feed

(* Told to stop. *)
LEMMA ClosingEffect ==
  ASSUME NEW h \in Feed
  PROVE  LET k == [h EXCEPT !.closing = TRUE] IN
         /\ k \in Feed /\ k.closing = TRUE /\ k.scope = h.scope /\ k.state = h.state
         /\ k.connected = h.connected /\ k.disconnected = h.disconnected
         /\ k.refs = h.refs /\ k.subs = h.subs
BY DEF Feed

(* A new feed in the slot of its scope. *)
Reserved(sc, n) ==
  LET new == created + 1 IN
  /\ created' = new /\ new \in Feeds /\ new \notin DOMAIN feeds
  /\ slots' = [slots EXCEPT ![sc] = new]
  /\ feeds' \in [1 .. new -> Feed]
  /\ DOMAIN feeds' = DOMAIN feeds \cup {new}
  /\ \A f \in DOMAIN feeds : feeds'[f] = feeds[f]
  /\ feeds'[new] = NewFeed(sc, n)

(* Its fields. *)
LEMMA NewFeedFields ==
  ASSUME NEW sc, NEW n
  PROVE  LET k == NewFeed(sc, n) IN
         /\ k.scope = sc /\ k.state = "reserved" /\ k.refs = n /\ k.subs = {}
         /\ k.connected = FALSE /\ k.disconnected = FALSE /\ k.closing = FALSE
BY DEF NewFeed

(* Reserve. *)
LEMMA ReserveEffect ==
  ASSUME TypeOK, Shape, NEW sc \in Scopes, NEW n \in Nat, Reserve(sc, n)
  PROVE  Reserved(sc, n)
<1>1. /\ created \in Nat /\ created < MaxFeeds /\ created' = created + 1
      /\ slots' = [slots EXCEPT ![sc] = created + 1]
      /\ DOMAIN feeds = 1 .. created /\ feeds \in [1 .. created -> Feed] /\ MaxFeeds \in Nat
  BY Typing DEF Reserve
<1>2. created + 1 \in Feeds /\ created + 1 \notin DOMAIN feeds
      /\ 1 .. created + 1 = DOMAIN feeds \cup {created + 1}
  BY <1>1 DEF Feeds
<1>3. NewFeed(sc, n) \in Feed
  BY DEF NewFeed, Feed
<1>4. feeds' = [f \in 1 .. created + 1 |-> IF f = created + 1 THEN NewFeed(sc, n) ELSE feeds[f]]
  BY <1>2 DEF Reserve
<1>5. DOMAIN feeds' = DOMAIN feeds \cup {created + 1}
  BY <1>2, <1>4
<1>6. feeds'[created + 1] = NewFeed(sc, n) /\ \A f \in DOMAIN feeds : feeds'[f] = feeds[f]
  BY <1>2, <1>4
<1>7. feeds' \in [1 .. created + 1 -> Feed]
  <2>1. ASSUME NEW f \in 1 .. created + 1 PROVE feeds'[f] \in Feed
    BY <1>1, <1>2, <1>3, <1>6
  <2> QED BY <1>4, <2>1
<1> QED BY <1>1, <1>2, <1>5, <1>6, <1>7 DEF Reserved

(* Subscribe: refused, sharing a feed, or the creator of one. *)
LEMMA SubscribeEffect ==
  ASSUME TypeOK, Shape, NEW s \in Subscribers, NEW sc \in Scopes, Subscribe(s, sc)
  PROVE  /\ subs[s].pc = "idle" /\ UNCHANGED <<readers, starting, closing, toSignal, heard>>
         /\ \E g \in Sub :
              /\ SubIs(s, g) /\ (g.inside => subs[s].inside)
              /\ \/ g.pc = "refused" /\ UNCHANGED <<feeds, slots, created>>
                 \/ /\ closing = "open" /\ slots[sc] # 0 /\ UNCHANGED <<slots, created>>
                    /\ g.feed = slots[sc] /\ g.pc = IF sc = Zero THEN "held" ELSE "waiting"
                    /\ \E h \in Feed :
                         /\ FeedIs(slots[sc], h) /\ AsBefore(h, feeds[slots[sc]])
                         /\ h.refs = feeds[slots[sc]].refs + 1 /\ h.subs = feeds[slots[sc]].subs
                 \/ /\ closing = "open" /\ slots[sc] = 0 /\ Reserved(sc, 1)
                    /\ g.feed = created + 1 /\ g.pc = IF sc = Zero THEN "held" ELSE "creating"
<1>1. /\ subs[s].pc = "idle" /\ UNCHANGED <<readers, starting, closing, toSignal, heard>>
      /\ subs[s] \in Sub
  BY Typing DEF Subscribe, storeVars
<1>2. ~StoreClosing => closing = "open"
  BY DEF StoreClosing, TypeOK
<1> DEFINE Let(pc, f) == [subs[s] EXCEPT !.pc = pc, !.feed = f]
<1>3. ASSUME NEW f \in Feeds, NEW pc \in {"held", "waiting", "creating"}
      PROVE  /\ Let(pc, f) \in Sub /\ Let(pc, f).pc = pc /\ Let(pc, f).feed = f
             /\ Let(pc, f).inside = subs[s].inside
  BY <1>1 DEF Sub
<1> HIDE DEF Let
<1>4. CASE Goto(s, "refused") /\ UNCHANGED <<feeds, slots, created>>
  BY <1>1, <1>4, GotoEffect, Typing
<1>5. CASE /\ ~StoreClosing /\ slots[sc] # 0 /\ UNCHANGED <<slots, created>>
           /\ feeds' = [feeds EXCEPT ![slots[sc]].refs = @ + 1]
           /\ SubIs(s, Let(IF sc = Zero THEN "held" ELSE "waiting", slots[sc]))
  <2> DEFINE f == slots[sc]  g == Let(IF sc = Zero THEN "held" ELSE "waiting", f)
             h == [feeds[f] EXCEPT !.refs = feeds[f].refs + 1]
  <2>1. f \in DOMAIN feeds /\ f \in Feeds /\ feeds[f] \in Feed
    BY <1>5, Typing DEF Shape
  <2>2. feeds[f].refs + 1 \in Nat
    BY <2>1 DEF Feed
  <2>3. h \in Feed /\ AsBefore(h, feeds[f]) /\ h.refs = feeds[f].refs + 1 /\ h.subs = feeds[f].subs
    BY <2>1, <2>2, RefsEffect
  <2>4. FeedIs(f, h)
    BY <1>5 DEF FeedIs
  <2>5. /\ g \in Sub /\ g.pc = (IF sc = Zero THEN "held" ELSE "waiting") /\ g.feed = f
        /\ g.inside = subs[s].inside
    <3>1. CASE sc = Zero
      BY <1>3, <2>1, <3>1
    <3>2. CASE sc # Zero
      BY <1>3, <2>1, <3>2
    <3> QED BY <3>1, <3>2
  <2> HIDE DEF h, g
  <2> QED BY <1>1, <1>2, <1>5, <2>3, <2>4, <2>5 DEF g
<1>6. CASE /\ ~StoreClosing /\ slots[sc] = 0 /\ Reserve(sc, 1)
           /\ SubIs(s, Let(IF sc = Zero THEN "held" ELSE "creating", created + 1))
  <2> DEFINE g == Let(IF sc = Zero THEN "held" ELSE "creating", created + 1)
  <2>1. Reserved(sc, 1)
    BY <1>6, ReserveEffect
  <2>2. /\ g \in Sub /\ g.pc = (IF sc = Zero THEN "held" ELSE "creating") /\ g.feed = created + 1
        /\ g.inside = subs[s].inside
    <3>1. created + 1 \in Feeds
      BY <2>1 DEF Reserved
    <3>2. CASE sc = Zero
      BY <1>3, <3>1, <3>2
    <3>3. CASE sc # Zero
      BY <1>3, <3>1, <3>3
    <3> QED BY <3>2, <3>3
  <2> HIDE DEF g
  <2> QED BY <1>1, <1>2, <1>6, <2>1, <2>2 DEF g
<1> QED BY <1>4, <1>5, <1>6 DEF Subscribe, SubIs, Let

(* FailLocked. *)
LEMMA FailEffect ==
  ASSUME TypeOK, Shape, NEW f \in DOMAIN feeds, FailLocked(f)
  PROVE  /\ slots' \in [Scopes -> Feeds \cup {0}]
         /\ \A sc \in Scopes :
              slots'[sc] = IF sc = feeds[f].scope /\ sc # Zero /\ slots[sc] = f THEN 0 ELSE slots[sc]
         /\ \E h \in Feed :
              /\ FeedIs(f, h) /\ h.state = "failed" /\ h.scope = feeds[f].scope
              /\ h.closing = feeds[f].closing /\ h.connected = feeds[f].connected
              /\ h.disconnected = feeds[f].disconnected /\ h.refs = feeds[f].refs
              /\ h.subs = feeds[f].subs
<1>1. feeds[f] \in Feed /\ f # 0 /\ slots \in [Scopes -> Feeds \cup {0}]
  BY Typing
<1>2. \A sc \in Scopes : slots[sc] = f => sc = feeds[f].scope
  BY <1>1 DEF Shape
<1>3. \A sc \in Scopes : slots'[sc] = IF slots[sc] = f /\ sc # Zero THEN 0 ELSE slots[sc]
  BY DEF FailLocked
<1>4. slots' \in [Scopes -> Feeds \cup {0}]
  BY <1>1 DEF FailLocked
<1> DEFINE h == [feeds[f] EXCEPT !.state = "failed"]
<1>5. FeedIs(f, h)
  BY DEF FailLocked, FeedIs
<1>6. /\ h \in Feed /\ h.state = "failed" /\ h.scope = feeds[f].scope /\ h.closing = feeds[f].closing
      /\ h.connected = feeds[f].connected /\ h.disconnected = feeds[f].disconnected
      /\ h.refs = feeds[f].refs /\ h.subs = feeds[f].subs
  BY <1>1, StateEffect
<1> HIDE DEF h
<1> QED BY <1>2, <1>3, <1>4, <1>5, <1>6

(* PublishFeed of a feed that can be published. *)
LEMMA PublishEffect ==
  ASSUME TypeOK, Shape, NEW f \in DOMAIN feeds, PublishFeed(f), Publishable(f)
  PROVE  /\ closing = "open" /\ UNCHANGED slots
         /\ \E h \in Feed :
              /\ FeedIs(f, h) /\ h.state = "live" /\ h.scope = feeds[f].scope
              /\ h.closing = feeds[f].closing /\ h.connected = feeds[f].connected
              /\ h.disconnected = feeds[f].disconnected /\ h.refs = feeds[f].refs
              /\ h.subs = feeds[f].subs
         /\ \E r \in Reader : /\ ReaderIs(f, r) /\ r.pc = "resync" /\ r.todo = readers[f].todo
                              /\ r.in = readers[f].in
<1>1. feeds[f] \in Feed /\ f \in Feeds /\ readers[f] \in Reader
  BY Typing
<1>2. closing = "open"
  BY DEF Publishable, StoreClosing, TypeOK
<1> DEFINE h == [feeds[f] EXCEPT !.state = "live"]  r == [readers[f] EXCEPT !.pc = "resync"]
<1>3. FeedIs(f, h) /\ ReaderIs(f, r) /\ UNCHANGED slots
  BY DEF PublishFeed, FeedIs, ReaderIs
<1>4. /\ h \in Feed /\ h.state = "live" /\ h.scope = feeds[f].scope /\ h.closing = feeds[f].closing
      /\ h.connected = feeds[f].connected /\ h.disconnected = feeds[f].disconnected
      /\ h.refs = feeds[f].refs /\ h.subs = feeds[f].subs
  BY <1>1, StateEffect
<1>5. r \in Reader /\ r.pc = "resync" /\ r.todo = readers[f].todo /\ r.in = readers[f].in
  BY <1>1 DEF Reader
<1> HIDE DEF h, r
<1> QED BY <1>2, <1>3, <1>4, <1>5

(* The creator's connect has ended. *)
LEMMA CreateEffect ==
  ASSUME TypeOK, Shape, NEW s \in Subscribers, Create(s) \/ CreateFails(s)
  PROVE  LET f == subs[s].feed IN
         /\ subs[s].pc = "creating" /\ f \in DOMAIN feeds
         /\ UNCHANGED <<starting, closing, toSignal, created, heard>>
         /\ \/ /\ FailLocked(f) /\ UNCHANGED readers
               /\ \E g \in Sub : SubIs(s, g) /\ g.pc = "refused" /\ g.inside = FALSE
            \/ /\ PublishFeed(f) /\ Publishable(f)
               /\ \E g \in Sub : /\ SubIs(s, g) /\ g.pc = "held" /\ g.feed = f
                                 /\ g.inside = subs[s].inside
<1> DEFINE f == subs[s].feed
<1>1. /\ subs[s].pc = "creating" /\ UNCHANGED <<starting, closing, toSignal, created, heard>>
      /\ subs \in [Subscribers -> Sub]
  BY Typing DEF Create, CreateFails, storeVars
<1>2. f \in DOMAIN feeds
  BY <1>1 DEF Shape, Holding
<1>3. ASSUME Goto(s, "refused")
      PROVE  \E g \in Sub : SubIs(s, g) /\ g.pc = "refused" /\ g.inside = FALSE
  BY <1>1, <1>3, GotoEffect
<1>4. ASSUME Goto(s, "held")
      PROVE  \E g \in Sub : SubIs(s, g) /\ g.pc = "held" /\ g.feed = f /\ g.inside = subs[s].inside
  BY <1>1, <1>4, GotoEffect
<1>5. CASE CreateFails(s)
  BY <1>1, <1>2, <1>3, <1>5 DEF CreateFails
<1>6. CASE Create(s) /\ Publishable(f)
  BY <1>1, <1>2, <1>4, <1>6 DEF Create
<1>7. CASE Create(s) /\ ~Publishable(f)
  BY <1>1, <1>2, <1>3, <1>7 DEF Create, PublishFeed
<1> QED BY <1>5, <1>6, <1>7

(* The wait for the creator is over. *)
LEMMA AwaitEffect ==
  ASSUME TypeOK, Shape, NEW s \in Subscribers, AwaitFeed(s) \/ GiveUp(s)
  PROVE  /\ subs[s].pc = "waiting"
         /\ UNCHANGED <<feeds, slots, readers, starting, closing, toSignal, created, heard>>
         /\ \E g \in Sub : /\ SubIs(s, g) /\ g.feed = subs[s].feed /\ g.inside = subs[s].inside
                           /\ \/ g.pc = "release"
                              \/ g.pc = "held" /\ feeds[subs[s].feed].state = "live"
<1>1. /\ subs[s].pc = "waiting" /\ subs[s] \in Sub
      /\ UNCHANGED <<feeds, slots, readers, starting, closing, toSignal, created, heard>>
  BY Typing DEF AwaitFeed, GiveUp, storeVars
<1> DEFINE in == [subs[s] EXCEPT !.pc = "held"]
           out == [subs[s] EXCEPT !.pc = "release", !.then = "refused"]
<1>2. in \in Sub /\ in.pc = "held" /\ in.feed = subs[s].feed /\ in.inside = subs[s].inside
  BY <1>1 DEF Sub
<1>3. out \in Sub /\ out.pc = "release" /\ out.feed = subs[s].feed /\ out.inside = subs[s].inside
  BY <1>1 DEF Sub
<1>4. SubIs(s, out) \/ (SubIs(s, in) /\ feeds[subs[s].feed].state = "live")
  BY DEF AwaitFeed, GiveUp, SubIs
<1> HIDE DEF in, out
<1> QED BY <1>1, <1>2, <1>3, <1>4

(* Join. *)
LEMMA JoinEffect ==
  ASSUME TypeOK, Shape, NEW s \in Subscribers, Join(s)
  PROVE  LET f == subs[s].feed IN
         /\ subs[s].pc = "held" /\ f \in DOMAIN feeds
         /\ UNCHANGED <<slots, readers, starting, closing, toSignal, created, heard>>
         /\ \E g \in Sub : /\ SubIs(s, g) /\ g.feed = f /\ g.inside = subs[s].inside
                           /\ g.pc = "joining" /\ g.joining = JoiningOp(f)
         /\ \E h \in Feed : /\ FeedIs(f, h) /\ AsBefore(h, feeds[f]) /\ h.refs = feeds[f].refs
                            /\ h.subs = feeds[f].subs \cup {s}
<1> DEFINE f == subs[s].feed
           g == [subs[s] EXCEPT !.pc = "joining", !.joining = JoiningOp(f)]
           h == [feeds[f] EXCEPT !.subs = feeds[f].subs \cup {s}]
<1>1. /\ subs[s].pc = "held" /\ subs[s] \in Sub
      /\ UNCHANGED <<slots, readers, starting, closing, toSignal, created, heard>>
  BY Typing DEF Join, storeVars
<1>2. f \in DOMAIN feeds /\ feeds[f] \in Feed
  BY <1>1, Typing DEF Shape, Holding
<1>3. JoiningOp(f) \in {"none", "resync", "disconnect"}
  BY DEF JoiningOp
<1>4. /\ g \in Sub /\ g.feed = f /\ g.inside = subs[s].inside /\ g.pc = "joining"
      /\ g.joining = JoiningOp(f)
  BY <1>1, <1>3 DEF Sub
<1>5. feeds[f].subs \cup {s} \in SUBSET Subscribers
  BY <1>2 DEF Feed
<1>6. /\ h \in Feed /\ AsBefore(h, feeds[f]) /\ h.refs = feeds[f].refs
      /\ h.subs = feeds[f].subs \cup {s}
  BY <1>2, <1>5, SubsEffect
<1>7. SubIs(s, g) /\ FeedIs(f, h)
  BY DEF Join, SubIs, FeedIs
<1> HIDE DEF g, h
<1> QED BY <1>1, <1>2, <1>4, <1>6, <1>7

(* The joining call has told its subscriber. *)
LEMMA DeliverEffect ==
  ASSUME TypeOK, Shape, NEW s \in Subscribers, DeliverJoining(s)
  PROVE  /\ subs[s].pc = "joining" /\ subs[s].feed \in DOMAIN feeds
         /\ subs[s].joining \in {"none", "resync", "disconnect"}
         /\ UNCHANGED <<feeds, slots, readers, starting, closing, toSignal, created>>
         /\ \E g \in Sub : /\ SubIs(s, g) /\ g.feed = subs[s].feed /\ g.inside = subs[s].inside
                           /\ g.pc = "active"
<1> DEFINE g == [subs[s] EXCEPT !.pc = "active", !.joining = "none"]
<1>1. /\ subs[s].pc = "joining" /\ subs[s] \in Sub
      /\ UNCHANGED <<feeds, slots, readers, starting, closing, toSignal, created>>
  BY Typing DEF DeliverJoining, storeVars
<1>2. subs[s].feed \in DOMAIN feeds
  BY <1>1 DEF Shape, Holding
<1>3. g \in Sub /\ g.feed = subs[s].feed /\ g.inside = subs[s].inside /\ g.pc = "active"
  BY <1>1 DEF Sub
<1>4. SubIs(s, g)
  BY DEF DeliverJoining, SubIs
<1>5. subs[s].joining \in {"none", "resync", "disconnect"}
  BY <1>1 DEF Sub
<1> HIDE DEF g
<1> QED BY <1>1, <1>2, <1>3, <1>4, <1>5

(* Teardown. *)
LEMMA TeardownEffect ==
  ASSUME TypeOK, Shape, NEW s \in Subscribers, NEW inside \in BOOLEAN, Teardown(s, inside)
  PROVE  LET f == subs[s].feed IN
         /\ subs[s].pc = "active" /\ f \in DOMAIN feeds /\ (inside => readers[f].in = s)
         /\ UNCHANGED <<slots, readers, starting, closing, toSignal, created, heard>>
         /\ \E g \in Sub : SubIs(s, g) /\ g.feed = f /\ g.inside = inside /\ g.pc = "release"
         /\ \E h \in Feed : /\ FeedIs(f, h) /\ AsBefore(h, feeds[f]) /\ h.refs = feeds[f].refs
                            /\ h.subs = feeds[f].subs \ {s}
<1> DEFINE f == subs[s].feed
           g == [subs[s] EXCEPT !.pc = "release", !.inside = inside]
           h == [feeds[f] EXCEPT !.subs = feeds[f].subs \ {s}]
<1>1. /\ subs[s].pc = "active" /\ subs[s] \in Sub /\ (inside => readers[f].in = s)
      /\ UNCHANGED <<slots, readers, starting, closing, toSignal, created, heard>>
  BY Typing DEF Teardown, storeVars
<1>2. f \in DOMAIN feeds /\ feeds[f] \in Feed
  BY <1>1, Typing DEF Shape, Holding
<1>3. g \in Sub /\ g.feed = f /\ g.inside = inside /\ g.pc = "release"
  BY <1>1 DEF Sub
<1>4. feeds[f].subs \ {s} \in SUBSET Subscribers
  BY <1>2 DEF Feed
<1>5. /\ h \in Feed /\ AsBefore(h, feeds[f]) /\ h.refs = feeds[f].refs
      /\ h.subs = feeds[f].subs \ {s}
  BY <1>2, <1>4, SubsEffect
<1>6. SubIs(s, g) /\ FeedIs(f, h)
  BY DEF Teardown, SubIs, FeedIs
<1> HIDE DEF g, h
<1> QED BY <1>1, <1>2, <1>3, <1>5, <1>6

(* ReleaseFeed: the reference is dropped, the last one takes the slot. *)
LEMMA ReleaseEffect ==
  ASSUME TypeOK, Shape, Counted, NEW s \in Subscribers, ReleaseFeed(s)
  PROVE  LET f == subs[s].feed IN
         /\ subs[s].pc = "release" /\ f \in DOMAIN feeds /\ s \in Holders(f)
         /\ UNCHANGED <<readers, starting, closing, toSignal, created, heard>>
         /\ \E h \in Feed : /\ FeedIs(f, h) /\ AsBefore(h, feeds[f]) /\ h.subs = feeds[f].subs
                            /\ h.refs = feeds[f].refs - 1 /\ feeds[f].refs >= 1
         /\ \/ /\ LastToLeave(f) /\ slots' = [slots EXCEPT ![feeds[f].scope] = 0]
               /\ \E g \in Sub : /\ SubIs(s, g) /\ g.pc = "signal" /\ g.feed = f
                                 /\ g.inside = subs[s].inside
            \/ /\ ~LastToLeave(f) /\ UNCHANGED slots
               /\ \E g \in Sub : SubIs(s, g) /\ g.pc \in {"gone", "refused"} /\ g.inside = FALSE
<1> DEFINE f == subs[s].feed
           h == [feeds[f] EXCEPT !.refs = feeds[f].refs - 1]
<1>1. /\ subs[s].pc = "release" /\ subs[s] \in Sub /\ subs \in [Subscribers -> Sub]
      /\ UNCHANGED <<readers, starting, closing, toSignal, created, heard>>
  BY Typing DEF ReleaseFeed, storeVars
<1>2. f \in DOMAIN feeds /\ feeds[f] \in Feed /\ s \in Holders(f)
  BY <1>1, Typing DEF Shape, Holding, Holders
<1>3. Cardinality(Holders(f)) >= 1 /\ Cardinality(Holders(f)) \in Nat
  <2>1. IsFiniteSet(Holders(f)) /\ Holders(f) # {}
    BY <1>2 DEF Counted, Count
  <2>2. Cardinality(Holders(f)) \in Nat /\ Cardinality(Holders(f)) # 0
    BY <2>1, FS_CardinalityType, FS_EmptySet
  <2> QED BY <2>2
<1>4. feeds[f].refs \in Nat /\ feeds[f].refs >= 1
  <2>1. feeds[f].refs \in Nat
    BY <1>2 DEF Feed
  <2>2. Cardinality(Holders(f)) <= feeds[f].refs
    BY <1>2 DEF Counted, Count
  <2> QED BY <1>3, <2>1, <2>2
<1>5. feeds[f].refs - 1 \in Nat
  BY <1>4
<1>6. h \in Feed /\ AsBefore(h, feeds[f]) /\ h.subs = feeds[f].subs /\ h.refs = feeds[f].refs - 1
  BY <1>2, <1>5, RefsEffect
<1>7. FeedIs(f, h)
  BY DEF ReleaseFeed, FeedIs
<1>8. subs[s].then \in {"gone", "refused"}
  BY <1>1 DEF Sub
<1>9. ASSUME Goto(s, subs[s].then)
      PROVE  \E g \in Sub : SubIs(s, g) /\ g.pc \in {"gone", "refused"} /\ g.inside = FALSE
  BY <1>1, <1>8, <1>9, GotoEffect
<1>10. ASSUME Goto(s, "signal")
       PROVE  \E g \in Sub : /\ SubIs(s, g) /\ g.pc = "signal" /\ g.feed = f
                             /\ g.inside = subs[s].inside
  BY <1>1, <1>10, GotoEffect
<1>11. \/ LastToLeave(f) /\ slots' = [slots EXCEPT ![feeds[f].scope] = 0] /\ Goto(s, "signal")
       \/ ~LastToLeave(f) /\ UNCHANGED slots /\ Goto(s, subs[s].then)
  BY DEF ReleaseFeed
<1> HIDE DEF h
<1> QED BY <1>1, <1>2, <1>4, <1>6, <1>7, <1>9, <1>10, <1>11

(* StopFeed, and its return. *)
LEMMA StopEffect ==
  ASSUME TypeOK, Shape, NEW s \in Subscribers, StopFeed(s) \/ StopFeedReturns(s)
  PROVE  LET f == subs[s].feed IN
         /\ subs[s].pc \in {"signal", "stopping"} /\ f \in DOMAIN feeds
         /\ UNCHANGED <<slots, readers, starting, closing, toSignal, created, heard>>
         /\ \/ UNCHANGED feeds /\ subs[s].pc = "stopping"
            \/ \E h \in Feed : /\ FeedIs(f, h) /\ h.closing = TRUE /\ h.scope = feeds[f].scope
                               /\ h.state = feeds[f].state /\ h.connected = feeds[f].connected
                               /\ h.disconnected = feeds[f].disconnected
                               /\ h.refs = feeds[f].refs /\ h.subs = feeds[f].subs
                               /\ subs[s].pc = "signal"
         /\ \E g \in Sub : /\ SubIs(s, g)
                           /\ \/ g.pc \in {"gone", "refused"} /\ g.inside = FALSE
                              \/ /\ g.pc = "stopping" /\ g.feed = f /\ g.inside = subs[s].inside
                                 /\ ~Dispatching(f)
<1> DEFINE f == subs[s].feed
           h == [feeds[f] EXCEPT !.closing = TRUE]
<1>1. /\ subs[s].pc \in {"signal", "stopping"} /\ subs[s] \in Sub /\ subs \in [Subscribers -> Sub]
      /\ UNCHANGED <<slots, readers, starting, closing, toSignal, created, heard>>
  BY Typing DEF StopFeed, StopFeedReturns, storeVars
<1>2. f \in DOMAIN feeds /\ feeds[f] \in Feed
  BY <1>1, Typing DEF Shape, Holding
<1>3. subs[s].then \in {"gone", "refused"}
  BY <1>1 DEF Sub
<1>4. ASSUME Goto(s, subs[s].then)
      PROVE  \E g \in Sub : SubIs(s, g) /\ g.pc \in {"gone", "refused"} /\ g.inside = FALSE
  BY <1>1, <1>3, <1>4, GotoEffect
<1>5. ASSUME Goto(s, "stopping")
      PROVE  \E g \in Sub : /\ SubIs(s, g) /\ g.pc = "stopping" /\ g.feed = f
                            /\ g.inside = subs[s].inside
  BY <1>1, <1>5, GotoEffect
<1>6. /\ h \in Feed /\ h.closing = TRUE /\ h.scope = feeds[f].scope /\ h.state = feeds[f].state
      /\ h.connected = feeds[f].connected /\ h.disconnected = feeds[f].disconnected
      /\ h.refs = feeds[f].refs /\ h.subs = feeds[f].subs
  BY <1>2, ClosingEffect
<1>7. CASE StopFeedReturns(s)
  <2>1. UNCHANGED feeds /\ subs[s].pc = "stopping" /\ Goto(s, subs[s].then)
    BY <1>7 DEF StopFeedReturns
  <2> HIDE DEF h
  <2> QED BY <1>1, <1>2, <1>4, <2>1
<1>8. CASE StopFeed(s)
  <2>1. FeedIs(f, h) /\ subs[s].pc = "signal"
    BY <1>8 DEF StopFeed, FeedIs
  <2>2. Goto(s, subs[s].then) \/ (Goto(s, "stopping") /\ ~Dispatching(f))
    BY <1>8 DEF StopFeed
  <2> HIDE DEF h
  <2> QED BY <1>1, <1>2, <1>4, <1>5, <1>6, <2>1, <2>2
<1> QED BY <1>7, <1>8

(* Start, StartFails and StartPublishes. *)
LEMMA StartEffect ==
  ASSUME TypeOK, Shape, Start \/ StartFails \/ StartPublishes
  PROVE  /\ UNCHANGED <<subs, closing, toSignal, heard>>
         /\ \/ /\ Zero \in Scopes /\ closing = "open" /\ starting = 0 /\ slots[Zero] = 0
               /\ Reserved(Zero, 0) /\ starting' = created + 1 /\ UNCHANGED readers
            \/ /\ Zero \in Scopes /\ closing = "open" /\ starting = 0 /\ slots[Zero] # 0
               /\ feeds[slots[Zero]].state # "live" /\ starting' = slots[Zero]
               /\ UNCHANGED <<slots, created, readers>>
               /\ \E h \in Feed :
                    LET k == feeds[slots[Zero]] IN
                    /\ FeedIs(slots[Zero], h) /\ h.state = "reserved" /\ h.scope = k.scope
                    /\ h.closing = k.closing /\ h.connected = k.connected
                    /\ h.disconnected = k.disconnected /\ h.refs = k.refs /\ h.subs = k.subs
            \/ /\ starting # 0 /\ starting' = 0 /\ FailLocked(starting)
               /\ UNCHANGED <<readers, created>>
            \/ /\ starting # 0 /\ starting' = 0 /\ PublishFeed(starting) /\ Publishable(starting)
               /\ UNCHANGED created
<1>1. UNCHANGED <<subs, closing, toSignal, heard>>
  BY DEF Start, StartFails, StartPublishes
<1>2. CASE Start
  <2> DEFINE f == slots[Zero]  h == [feeds[f] EXCEPT !.state = "reserved"]
  <2>1. Zero \in Scopes /\ closing = "open" /\ starting = 0 /\ UNCHANGED readers
    BY <1>2 DEF Start, StoreClosing, TypeOK
  <2>2. CASE f = 0 /\ Reserve(Zero, 0) /\ starting' = created + 1
    BY <1>1, <2>1, <2>2, ReserveEffect
  <2>3. CASE /\ f # 0 /\ feeds[f].state # "live" /\ starting' = f /\ UNCHANGED <<slots, created>>
             /\ feeds' = [feeds EXCEPT ![f].state = "reserved"]
    <3>1. feeds[f] \in Feed
      BY <2>1, <2>3, Typing DEF Shape
    <3>2. /\ h \in Feed /\ h.state = "reserved" /\ h.scope = feeds[f].scope
          /\ h.closing = feeds[f].closing /\ h.connected = feeds[f].connected
          /\ h.disconnected = feeds[f].disconnected /\ h.refs = feeds[f].refs
          /\ h.subs = feeds[f].subs
      BY <3>1, StateEffect
    <3>3. FeedIs(f, h)
      BY <2>3 DEF FeedIs
    <3> HIDE DEF h
    <3> QED BY <1>1, <2>1, <2>3, <3>2, <3>3
  <2> QED BY <1>2, <2>2, <2>3 DEF Start
<1>3. CASE StartFails
  BY <1>1, <1>3 DEF StartFails
<1>4. CASE StartPublishes
  BY <1>1, <1>4 DEF StartPublishes, PublishFeed
<1> QED BY <1>2, <1>3, <1>4

(* The store is told to close, or a feed to stop. *)
LEMMA CloseEffect ==
  ASSUME TypeOK, Shape, StopFeeds \/ (\E f \in toSignal : SignalFeed(f)) \/ CloseReturns
  PROVE  /\ UNCHANGED <<readers, subs, starting, created, heard>>
         /\ feeds' \in [1 .. created -> Feed]
         /\ closing' # "open" /\ closing' \in {"open", "signalling", "done"}
         /\ toSignal' \in SUBSET DOMAIN feeds
         /\ \A f \in DOMAIN feeds :
              /\ feeds'[f].scope = feeds[f].scope /\ feeds'[f].refs = feeds[f].refs
              /\ feeds'[f].subs = feeds[f].subs /\ feeds'[f].connected = feeds[f].connected
              /\ feeds'[f].disconnected = feeds[f].disconnected
              /\ feeds[f].closing => feeds'[f].closing
         /\ \/ /\ closing = "open" /\ slots' = [sc \in Scopes |-> 0]
               /\ \A f \in DOMAIN feeds :
                    LET connecting == InMap(f) /\ feeds[f].scope \in Scopes /\ Tenant(f)
                                        /\ feeds[f].state = "reserved" IN
                    /\ feeds'[f].state = (IF connecting THEN "failed" ELSE feeds[f].state)
                    /\ feeds'[f].closing = feeds[f].closing
                    /\ InMap(f) /\ feeds[f].state = "live" => f \in toSignal'
            \/ /\ closing # "open" /\ UNCHANGED slots
               /\ \A f \in DOMAIN feeds :
                    /\ feeds'[f].state = feeds[f].state
                    /\ f \in toSignal /\ f \notin toSignal' => feeds'[f].closing
<1>1. /\ feeds \in [1 .. created -> Feed] /\ DOMAIN feeds = 1 .. created
      /\ slots \in [Scopes -> Feeds \cup {0}] /\ DOMAIN feeds \subseteq Feeds
      /\ \A f \in DOMAIN feeds : feeds[f] \in Feed /\ feeds[f].scope \in Scopes
  BY Typing DEF Feed
<1>2. CASE StopFeeds
  <2> DEFINE mapped == {slots[sc] : sc \in Scopes} \ {0}
             connecting == {f \in mapped : feeds[f].scope # Zero /\ feeds[f].state = "reserved"}
  <2>1. /\ closing = "open" /\ closing' = "signalling" /\ toSignal' = mapped \ connecting
        /\ slots' = [sc \in Scopes |-> 0] /\ UNCHANGED <<readers, subs, starting, created, heard>>
        /\ feeds' = [f \in DOMAIN feeds |-> IF f \in connecting
                                            THEN [feeds[f] EXCEPT !.state = "failed"] ELSE feeds[f]]
    BY <1>2 DEF StopFeeds
  <2>2. mapped \subseteq DOMAIN feeds
    BY DEF Shape
  <2>3. \A f \in DOMAIN feeds : f \in mapped <=> InMap(f)
    <3> SUFFICES ASSUME NEW f \in DOMAIN feeds PROVE f \in mapped <=> InMap(f)
      OBVIOUS
    <3>1. f # 0 /\ feeds[f].scope \in Scopes
      BY <1>1
    <3>2. \A sc \in Scopes : slots[sc] = f => sc = feeds[f].scope
      BY <3>1 DEF Shape
    <3> QED BY <3>1, <3>2 DEF InMap
  <2>4. \A f \in DOMAIN feeds :
          f \in connecting <=> InMap(f) /\ Tenant(f) /\ feeds[f].state = "reserved"
    BY <2>3 DEF Tenant
  <2>5. \A f \in DOMAIN feeds : feeds'[f] = IF f \in connecting
                                 THEN [feeds[f] EXCEPT !.state = "failed"] ELSE feeds[f]
    <3> HIDE DEF connecting
    <3> QED BY <2>1
  <2> HIDE DEF mapped, connecting
  <2>6. ASSUME NEW f \in DOMAIN feeds
        PROVE  /\ feeds'[f] \in Feed
               /\ feeds'[f].scope = feeds[f].scope /\ feeds'[f].refs = feeds[f].refs
               /\ feeds'[f].subs = feeds[f].subs /\ feeds'[f].connected = feeds[f].connected
               /\ feeds'[f].disconnected = feeds[f].disconnected
               /\ feeds'[f].closing = feeds[f].closing
               /\ feeds'[f].state = IF f \in connecting THEN "failed" ELSE feeds[f].state
    <3> DEFINE k == [feeds[f] EXCEPT !.state = "failed"]
    <3>1. /\ k \in Feed /\ k.state = "failed" /\ k.scope = feeds[f].scope
          /\ k.closing = feeds[f].closing /\ k.connected = feeds[f].connected
          /\ k.disconnected = feeds[f].disconnected /\ k.refs = feeds[f].refs
          /\ k.subs = feeds[f].subs
      BY <1>1, StateEffect
    <3>2. feeds'[f] = IF f \in connecting THEN k ELSE feeds[f]
      BY <2>5
    <3> HIDE DEF k
    <3> QED BY <1>1, <3>1, <3>2
  <2>7. feeds' \in [1 .. created -> Feed]
    BY <1>1, <2>1, <2>6
  <2>8. ASSUME NEW f \in DOMAIN feeds, InMap(f), feeds[f].state = "live" PROVE f \in toSignal'
    BY <2>1, <2>3, <2>4, <2>8
  <2>9. toSignal' \in SUBSET DOMAIN feeds
    BY <2>1, <2>2
  <2> QED BY <1>1, <2>1, <2>4, <2>6, <2>7, <2>8, <2>9
<1>3. CASE \E f \in toSignal : SignalFeed(f)
  <2>1. PICK f \in toSignal : SignalFeed(f)
    BY <1>3
  <2> DEFINE h == [feeds[f] EXCEPT !.closing = TRUE]
  <2>2. f \in DOMAIN feeds /\ feeds[f] \in Feed
    BY <1>1, <2>1 DEF Shape
  <2>3. /\ h \in Feed /\ h.closing = TRUE /\ h.scope = feeds[f].scope /\ h.state = feeds[f].state
        /\ h.connected = feeds[f].connected /\ h.disconnected = feeds[f].disconnected
        /\ h.refs = feeds[f].refs /\ h.subs = feeds[f].subs
    BY <2>2, ClosingEffect
  <2>4. /\ feeds' = [feeds EXCEPT ![f] = h] /\ toSignal' = toSignal \ {f}
        /\ UNCHANGED <<slots, readers, subs, starting, closing, created, heard>>
    BY <2>1 DEF SignalFeed
  <2>5. closing # "open" /\ closing \in {"open", "signalling", "done"}
    BY <2>1 DEF Shape, TypeOK
  <2> HIDE DEF h
  <2>6. feeds'[f] = h /\ \A x \in DOMAIN feeds \ {f} : feeds'[x] = feeds[x]
    BY <1>1, <2>2, <2>4
  <2>7. feeds' \in [1 .. created -> Feed]
    BY <1>1, <2>2, <2>3, <2>4
  <2>8. toSignal' \in SUBSET DOMAIN feeds
    BY <2>4 DEF Shape
  <2> QED BY <2>3, <2>4, <2>5, <2>6, <2>7, <2>8
<1>4. CASE CloseReturns
  BY <1>1, <1>4 DEF CloseReturns, Shape
<1> QED BY <1>2, <1>3, <1>4

(* A step of the reader of f. *)
ReaderStep(f) ==
  \/ BeginResync(f) \/ HandleNotification(f) \/ EndCallback(f) \/ EndDispatch(f)
  \/ ConsumeFails(f) \/ BeginDisconnect(f) \/ Attempt(f) \/ Reconnected(f) \/ ReconnectFails(f)
  \/ \E s \in Subscribers : StartCallback(f, s)

(* A reader between fan-outs, and one in a fan-out. *)
Elsewhere(r) == r.pc \notin {"none", "delivering"} /\ r.todo = {} /\ r.in = Nobody
FanningOut(r) ==
  /\ r.pc = "delivering"
  /\ \/ r.event \in {"resync", "key"} /\ r.then = "consume"
     \/ r.event = "disconnect" /\ r.then = "reconnect"

(* Move. *)
LEMMA MoveEffect ==
  ASSUME NEW f, NEW pc \in {"resync", "consume", "lost", "reconnect", "dialing", "exited"},
         Move(f, pc)
  PROVE  \E r \in Reader : ReaderIs(f, r) /\ Elsewhere(r) /\ r.pc = pc
<1> DEFINE r == [NoReader EXCEPT !.pc = pc]
<1>1. r \in Reader /\ Elsewhere(r) /\ r.pc = pc
  BY DEF NoReader, Reader, Elsewhere
<1>2. ReaderIs(f, r)
  BY DEF Move, ReaderIs
<1> HIDE DEF r
<1> QED BY <1>1, <1>2

(* Broadcast. *)
LEMMA BroadcastEffect ==
  ASSUME NEW f, feeds[f] \in Feed, NEW event, NEW then, Broadcast(f, event, then),
         <<event, then>> \in {<<"resync", "consume">>, <<"key", "consume">>,
                              <<"disconnect", "reconnect">>}
  PROVE  \E r \in Reader : /\ ReaderIs(f, r) /\ FanningOut(r) /\ r.event = event
                           /\ r.todo = feeds[f].subs /\ r.in = Nobody
<1> DEFINE r == [pc |-> "delivering", event |-> event, todo |-> feeds[f].subs, in |-> Nobody,
                 then |-> then]
<1>1. feeds[f].subs \in SUBSET Subscribers
  BY DEF Feed
<1>2. /\ event \in {"none", "resync", "disconnect", "key"} /\ then \in {"none", "consume", "reconnect"}
      /\ (event \in {"resync", "key"} /\ then = "consume")
           \/ (event = "disconnect" /\ then = "reconnect")
  OBVIOUS
<1>3. r \in Reader
  BY <1>1, <1>2 DEF Reader
<1>4. r.pc = "delivering" /\ r.event = event /\ r.then = then /\ r.todo = feeds[f].subs /\ r.in = Nobody
  OBVIOUS
<1>5. ReaderIs(f, r)
  BY DEF Broadcast, ReaderIs
<1> HIDE DEF r
<1> QED BY <1>2, <1>3, <1>4, <1>5 DEF FanningOut

(* The callback of s starts. *)
LEMMA CallbackEffect ==
  ASSUME NEW f, readers[f] \in Reader, NEW s \in Subscribers,
         readers' = [readers EXCEPT ![f] = [readers[f] EXCEPT !.in = s, !.todo = @ \ {s}]]
  PROVE  \E r \in Reader : /\ ReaderIs(f, r) /\ r.pc = readers[f].pc /\ r.event = readers[f].event
                           /\ r.then = readers[f].then /\ r.in = s /\ r.todo = readers[f].todo \ {s}
<1> DEFINE r == [readers[f] EXCEPT !.in = s, !.todo = @ \ {s}]
<1>1. /\ r \in Reader /\ r.pc = readers[f].pc /\ r.event = readers[f].event
      /\ r.then = readers[f].then /\ r.in = s /\ r.todo = readers[f].todo \ {s}
  BY DEF Reader
<1>2. ReaderIs(f, r)
  BY DEF ReaderIs
<1> HIDE DEF r
<1> QED BY <1>1, <1>2

(* It ends. *)
LEMMA CallbackEnds ==
  ASSUME NEW f, readers[f] \in Reader, readers' = [readers EXCEPT ![f].in = Nobody]
  PROVE  \E r \in Reader : /\ ReaderIs(f, r) /\ r.pc = readers[f].pc /\ r.event = readers[f].event
                           /\ r.then = readers[f].then /\ r.in = Nobody /\ r.todo = readers[f].todo
<1> DEFINE r == [readers[f] EXCEPT !.in = Nobody]
<1>1. /\ r \in Reader /\ r.pc = readers[f].pc /\ r.event = readers[f].event
      /\ r.then = readers[f].then /\ r.in = Nobody /\ r.todo = readers[f].todo
  BY DEF Reader
<1>2. ReaderIs(f, r)
  BY DEF ReaderIs
<1> HIDE DEF r
<1> QED BY <1>1, <1>2

(* The announcement is made. *)
LEMMA FlagsEffect ==
  ASSUME NEW f, feeds[f] \in Feed, NEW up \in BOOLEAN,
         feeds' = [feeds EXCEPT ![f] = [@ EXCEPT !.connected = up, !.disconnected = ~up]]
  PROVE  \E h \in Feed : /\ FeedIs(f, h) /\ h.connected = up /\ h.disconnected = ~up
                         /\ h.scope = feeds[f].scope /\ h.state = feeds[f].state
                         /\ h.closing = feeds[f].closing /\ h.refs = feeds[f].refs
                         /\ h.subs = feeds[f].subs
<1> DEFINE h == [feeds[f] EXCEPT !.connected = up, !.disconnected = ~up]
<1>1. /\ h \in Feed /\ h.connected = up /\ h.disconnected = ~up
      /\ h.scope = feeds[f].scope /\ h.state = feeds[f].state
      /\ h.closing = feeds[f].closing /\ h.refs = feeds[f].refs /\ h.subs = feeds[f].subs
  BY DEF Feed
<1>2. FeedIs(f, h)
  BY DEF FeedIs
<1> HIDE DEF h
<1> QED BY <1>1, <1>2

HeardType == [op : [Subscribers -> {"none", "resync", "disconnect"}],
              mark : [Subscribers -> BOOLEAN], key : [Subscribers -> BOOLEAN]]

(* What is heard. *)
LEMMA ToldEffect ==
  ASSUME heard \in HeardType, NEW f, NEW s \in Subscribers,
         NEW op \in {"none", "resync", "disconnect", "key"}, Told(f, s, op)
  PROVE  /\ heard' \in HeardType
         /\ \A u \in Subscribers \ {s} : heard'.op[u] = heard.op[u]
         /\ heard'.op[s] = IF feeds[f].closing \/ op \in {"none", "key"} THEN heard.op[s] ELSE op
<1>1. /\ heard.op \in [Subscribers -> {"none", "resync", "disconnect"}]
      /\ heard.mark \in [Subscribers -> BOOLEAN] /\ heard.key \in [Subscribers -> BOOLEAN]
  BY DEF HeardType
<1>2. CASE feeds[f].closing \/ op = "none"
  BY <1>1, <1>2 DEF Told
<1>3. CASE ~feeds[f].closing /\ op = "key"
  <2>1. heard' = [heard EXCEPT !.key = [heard.key EXCEPT ![s] = ~heard.key[s]]]
    BY <1>1, <1>3 DEF Told, HeardType
  <2>2. [heard.key EXCEPT ![s] = ~heard.key[s]] \in [Subscribers -> BOOLEAN]
    BY <1>1
  <2> QED BY <1>1, <1>3, <2>1, <2>2 DEF HeardType
<1>4. CASE ~feeds[f].closing /\ op \in {"resync", "disconnect"}
  <2>1. heard' = [heard EXCEPT !.op = [heard.op EXCEPT ![s] = op],
                               !.mark = [heard.mark EXCEPT ![s] = ~heard.mark[s]]]
    BY <1>1, <1>4 DEF Told, HeardType
  <2>2. heard'.op = [heard.op EXCEPT ![s] = op]
    BY <2>1 DEF HeardType
  <2>3. heard' \in HeardType
    <3>1. [heard.op EXCEPT ![s] = op] \in [Subscribers -> {"none", "resync", "disconnect"}]
      BY <1>1, <1>4
    <3>2. [heard.mark EXCEPT ![s] = ~heard.mark[s]] \in [Subscribers -> BOOLEAN]
      BY <1>1
    <3> QED BY <1>1, <2>1, <3>1, <3>2 DEF HeardType
  <2> QED BY <1>1, <1>4, <2>2, <2>3
<1> QED BY <1>2, <1>3, <1>4

(* The reader ends up between fan-outs or in one. *)
Settles(f) == \E r \in Reader : ReaderIs(f, r) /\ (Elsewhere(r) \/ FanningOut(r))

(* The feeds keep all but what they announced. *)
FeedsKept ==
  /\ feeds' \in [1 .. created -> Feed]
  /\ \A x \in DOMAIN feeds :
       /\ feeds'[x].scope = feeds[x].scope /\ feeds'[x].state = feeds[x].state
       /\ feeds'[x].closing = feeds[x].closing /\ feeds'[x].refs = feeds[x].refs
       /\ feeds'[x].subs = feeds[x].subs

(* What a reader's step leaves alone, and what it is at afterwards. *)
LEMMA ReaderFrame ==
  ASSUME TypeOK, Shape, Reading, NEW f \in DOMAIN feeds, ReaderStep(f)
  PROVE  /\ UNCHANGED <<slots, subs, starting, closing, toSignal, created>>
         /\ readers[f].pc # "none" /\ heard' \in HeardType
         /\ Settles(f) /\ FeedsKept
<1>1. /\ feeds \in [1 .. created -> Feed] /\ DOMAIN feeds = 1 .. created /\ feeds[f] \in Feed
      /\ readers[f] \in Reader /\ heard \in HeardType /\ f \in Feeds
  BY Typing DEF TypeOK, HeardType
<1>2. UNCHANGED <<slots, subs, starting, closing, toSignal, created>>
  BY DEF ReaderStep, BeginResync, HandleNotification, EndCallback, EndDispatch, ConsumeFails,
         BeginDisconnect, Attempt, Reconnected, ReconnectFails, StartCallback, storeVars
<1>3. readers[f].pc # "none"
  <2>1. CASE EndCallback(f)
    BY <1>1, <2>1 DEF EndCallback, Reading
  <2>2. CASE ~EndCallback(f)
    BY <2>2 DEF ReaderStep, BeginResync, HandleNotification, EndDispatch, ConsumeFails,
           BeginDisconnect, Attempt, Reconnected, ReconnectFails, StartCallback
  <2> QED BY <2>1, <2>2
<1>4. heard' \in HeardType
  <2>1. CASE \E s \in Subscribers : StartCallback(f, s)
    <3>1. PICK s \in Subscribers : Told(f, s, readers[f].event)
      BY <2>1 DEF StartCallback
    <3>2. readers[f].event \in {"none", "resync", "disconnect", "key"}
      BY <1>1 DEF Reader
    <3> QED BY <1>1, <3>1, <3>2, ToldEffect
  <2>2. CASE ~\E s \in Subscribers : StartCallback(f, s)
    BY <1>1, <2>2 DEF ReaderStep, BeginResync, HandleNotification, EndCallback, EndDispatch,
         ConsumeFails, BeginDisconnect, Attempt, Reconnected, ReconnectFails
  <2> QED BY <2>1, <2>2
<1>5. Settles(f)
  <2>1. ASSUME NEW pc \in {"resync", "consume", "lost", "reconnect", "dialing", "exited"},
               Move(f, pc)
        PROVE  Settles(f)
    BY <2>1, MoveEffect DEF Settles
  <2>2. ASSUME NEW event, NEW then, Broadcast(f, event, then),
               <<event, then>> \in {<<"resync", "consume">>, <<"key", "consume">>,
                                    <<"disconnect", "reconnect">>}
        PROVE  Settles(f)
    BY <1>1, <2>2, BroadcastEffect DEF Settles
  <2>3. readers[f].pc = "delivering" => FanningOut(readers[f])
    BY <1>1 DEF Reading, FanningOut
  <2>4. CASE BeginResync(f)
    <3>1. Move(f, "consume") \/ Broadcast(f, "resync", "consume")
      BY <2>4 DEF BeginResync
    <3> QED BY <2>1, <2>2, <3>1
  <2>5. CASE HandleNotification(f)
    <3>1. Broadcast(f, "key", "consume")
      BY <2>5 DEF HandleNotification
    <3> QED BY <2>2, <3>1
  <2>6. CASE BeginDisconnect(f)
    <3>1. Move(f, "reconnect") \/ Broadcast(f, "disconnect", "reconnect")
      BY <2>6 DEF BeginDisconnect
    <3> QED BY <2>1, <2>2, <3>1
  <2>7. CASE ConsumeFails(f) \/ Reconnected(f) \/ ReconnectFails(f)
    <3>1. Move(f, "lost") \/ Move(f, "resync") \/ Move(f, "reconnect")
      BY <2>7 DEF ConsumeFails, Reconnected, ReconnectFails
    <3> QED BY <2>1, <3>1
  <2>8. CASE Attempt(f)
    <3>1. Move(f, "exited") \/ Move(f, "dialing")
      BY <2>8 DEF Attempt
    <3> QED BY <2>1, <3>1
  <2>9. CASE EndDispatch(f)
    <3>1. readers[f].then \in {"consume", "reconnect"} /\ Move(f, readers[f].then)
      BY <2>3, <2>9 DEF EndDispatch, FanningOut
    <3> QED BY <2>1, <3>1
  <2>10. CASE EndCallback(f)
    <3>1. PICK r \in Reader : /\ ReaderIs(f, r) /\ r.pc = readers[f].pc
                              /\ r.event = readers[f].event /\ r.then = readers[f].then
      BY <1>1, <2>10, CallbackEnds DEF EndCallback
    <3>2. readers[f].pc = "delivering"
      BY <1>1, <2>10 DEF EndCallback, Reading
    <3> QED BY <2>3, <3>1, <3>2 DEF FanningOut, Settles
  <2>11. CASE \E s \in Subscribers : StartCallback(f, s)
    <3>1. PICK s \in Subscribers : StartCallback(f, s)
      BY <2>11
    <3>2. readers' = [readers EXCEPT ![f] = [readers[f] EXCEPT !.in = s, !.todo = @ \ {s}]]
          /\ readers[f].pc = "delivering"
      BY <3>1 DEF StartCallback
    <3>3. PICK r \in Reader : /\ ReaderIs(f, r) /\ r.pc = readers[f].pc
                              /\ r.event = readers[f].event /\ r.then = readers[f].then
      BY <1>1, <3>2, CallbackEffect
    <3> QED BY <2>3, <3>2, <3>3 DEF FanningOut, Settles
  <2> QED BY <2>4, <2>5, <2>6, <2>7, <2>8, <2>9, <2>10, <2>11 DEF ReaderStep
<1>6. FeedsKept
  <2>1. ASSUME NEW up \in BOOLEAN,
               feeds' = [feeds EXCEPT ![f] = [@ EXCEPT !.connected = up, !.disconnected = ~up]]
        PROVE  FeedsKept
    <3>1. PICK h \in Feed : /\ FeedIs(f, h) /\ h.scope = feeds[f].scope /\ h.state = feeds[f].state
                            /\ h.closing = feeds[f].closing /\ h.refs = feeds[f].refs
                            /\ h.subs = feeds[f].subs
      BY <1>1, <2>1, FlagsEffect
    <3> QED BY <1>1, <3>1 DEF FeedIs, FeedsKept
  <2>2. CASE UNCHANGED feeds
    BY <1>1, <2>2 DEF FeedsKept
  <2>3. CASE BeginResync(f) /\ ~UNCHANGED feeds
    <3>1. feeds' = [feeds EXCEPT ![f] = [@ EXCEPT !.connected = TRUE, !.disconnected = ~TRUE]]
      BY <2>3 DEF BeginResync
    <3> QED BY <2>1, <3>1
  <2>4. CASE BeginDisconnect(f) /\ ~UNCHANGED feeds
    <3>1. feeds' = [feeds EXCEPT ![f] = [@ EXCEPT !.connected = FALSE, !.disconnected = ~FALSE]]
      BY <2>4 DEF BeginDisconnect
    <3> QED BY <2>1, <3>1
  <2> QED BY <2>2, <2>3, <2>4 DEF ReaderStep, HandleNotification, EndCallback, EndDispatch,
         ConsumeFails, Attempt, Reconnected, ReconnectFails, StartCallback
<1> QED BY <1>2, <1>3, <1>4, <1>5, <1>6

-----------------------------------------------------------------------------
(* The types, and where the numbers of feeds point.                        *)

(* The steps, by actor. *)
LEMMA NextCases ==
  ASSUME [Next]_vars
  PROVE  \/ \E s \in Subscribers, sc \in Scopes : Subscribe(s, sc)
         \/ \E s \in Subscribers, inside \in BOOLEAN : Teardown(s, inside)
         \/ \E s \in Subscribers :
              \/ Create(s) \/ CreateFails(s) \/ AwaitFeed(s) \/ GiveUp(s) \/ Join(s)
              \/ DeliverJoining(s) \/ ReleaseFeed(s) \/ StopFeed(s) \/ StopFeedReturns(s)
         \/ \E f \in DOMAIN feeds : ReaderStep(f)
         \/ Start \/ StartFails \/ StartPublishes
         \/ StopFeeds \/ (\E f \in toSignal : SignalFeed(f)) \/ CloseReturns
         \/ UNCHANGED vars
BY DEF Next, AtRest, ReaderStep

(* The feeds stay the same ones, and slots are at most emptied. *)
SameFeeds ==
  /\ created' = created /\ feeds' \in [1 .. created -> Feed]
  /\ slots' \in [Scopes -> Feeds \cup {0}]
  /\ \A sc \in Scopes : slots'[sc] = slots[sc] \/ slots'[sc] = 0
  /\ \A f \in DOMAIN feeds : feeds'[f].scope = feeds[f].scope

(* A step that reserves no feed keeps the types when it does this much. *)
LEMMA CoreFrame ==
  ASSUME Core, SameFeeds, readers' \in [Feeds -> Reader], subs' \in [Subscribers -> Sub],
         closing' \in {"open", "signalling", "done"}, heard' \in HeardType,
         closing' # "open" => \A sc \in Scopes : slots'[sc] = 0,
         starting' # 0 => /\ starting' \in DOMAIN feeds /\ ~Tenant(starting')
                          /\ feeds'[starting'].state = "reserved",
         toSignal' \in SUBSET DOMAIN feeds, closing' = "open" => toSignal' = {},
         \A f \in DOMAIN feeds : slots'[feeds[f].scope] = f =>
           /\ feeds'[f].closing = feeds[f].closing
           /\ Tenant(f) /\ feeds'[f].state = "failed" => feeds[f].state = "failed",
         \A u \in Subscribers :
           /\ subs'[u].pc \in Holding \cup {"signal", "stopping"} => subs'[u].feed \in DOMAIN feeds
           /\ subs'[u].pc \in {"signal", "stopping"} =>
                \/ subs[u].pc \in {"signal", "stopping"} /\ subs'[u].feed = subs[u].feed
                \/ slots'[feeds[subs'[u].feed].scope] # subs'[u].feed,
         \A f \in Feeds : f \notin DOMAIN feeds => readers'[f].pc = "none",
         \A f \in DOMAIN feeds : readers'[f].pc # "none" <=> feeds'[f].state = "live",
         \A f \in Feeds : \/ readers'[f] = readers[f]
                          \/ Elsewhere(readers'[f]) \/ FanningOut(readers'[f])
  PROVE  Core'
<1>1. /\ DOMAIN feeds = 1 .. created /\ DOMAIN feeds' = DOMAIN feeds /\ 0 \notin DOMAIN feeds
      /\ DOMAIN feeds \subseteq Feeds /\ feeds' \in [1 .. created' -> Feed]
      /\ created' \in 0 .. MaxFeeds /\ feeds \in [1 .. created -> Feed]
      /\ \A f \in DOMAIN feeds : feeds[f].scope \in Scopes
      /\ slots' \in [Scopes -> Feeds \cup {0}]
  BY Typing DEF Core, SameFeeds, TypeOK, Feed
<1>2. ASSUME NEW sc \in Scopes, slots'[sc] # 0
      PROVE  /\ slots'[sc] \in DOMAIN feeds' /\ feeds'[slots'[sc]].scope = sc
             /\ ~feeds'[slots'[sc]].closing
             /\ sc # Zero => feeds'[slots'[sc]].state # "failed"
  <2>1. slots'[sc] = slots[sc] /\ slots[sc] # 0
    BY <1>2 DEF SameFeeds
  <2>2. /\ slots[sc] \in DOMAIN feeds /\ feeds[slots[sc]].scope = sc /\ ~feeds[slots[sc]].closing
        /\ sc # Zero => feeds[slots[sc]].state # "failed"
    BY <2>1 DEF Core, Shape, TypeOK
  <2>3. slots'[feeds[slots[sc]].scope] = slots[sc]
    BY <2>1, <2>2
  <2>4. feeds'[slots[sc]].scope = sc
    BY <2>2 DEF SameFeeds
  <2> QED BY <1>1, <2>1, <2>2, <2>3, <2>4 DEF Tenant
<1>3. TypeOK'
  <2>1. \A f \in DOMAIN feeds' : feeds'[f] \in Feed
    BY <1>1
  <2>2. starting' \in Feeds \cup {0} /\ toSignal' \in SUBSET Feeds
    BY <1>1
  <2>3. DOMAIN feeds' = 1 .. created'
    BY <1>1
  <2> QED BY <1>1, <1>2, <2>1, <2>2, <2>3 DEF TypeOK, HeardType
<1>4. ASSUME NEW u \in Subscribers, subs'[u].pc \in {"signal", "stopping"}
      PROVE  ~InMap(subs[u].feed)'
  <2> DEFINE f == subs'[u].feed
  <2>1. f \in DOMAIN feeds /\ feeds'[f].scope = feeds[f].scope /\ f # 0 /\ feeds[f].scope \in Scopes
    BY <1>1, <1>4 DEF SameFeeds
  <2>2. slots'[feeds[f].scope] # f
    <3>1. CASE subs[u].pc \in {"signal", "stopping"} /\ f = subs[u].feed
      <4>1. slots[feeds[f].scope] # f
        BY <3>1 DEF Core, Shape, InMap
      <4> QED BY <2>1, <4>1 DEF SameFeeds
    <3> QED BY <1>4, <3>1
  <2> QED BY <2>1, <2>2 DEF InMap
<1>5. (starting # 0 => ~Tenant(starting))'
  BY DEF SameFeeds, Tenant
<1>6. Shape'
  BY <1>1, <1>2, <1>4, <1>5 DEF Shape
<1>7. Reading'
  BY <1>1 DEF Core, Reading, Elsewhere, FanningOut
<1> QED BY <1>3, <1>6, <1>7 DEF Core

(* A step that reserves one. *)
LEMMA CoreReserve ==
  ASSUME Core, NEW sc \in Scopes, NEW n \in Nat, Reserved(sc, n), closing = "open",
         UNCHANGED <<readers, closing, toSignal, heard>>, subs' \in [Subscribers -> Sub],
         starting' = starting \/ (starting' = created + 1 /\ sc = Zero),
         \A u \in Subscribers : \/ subs'[u] = subs[u]
                                \/ /\ subs'[u].feed = created + 1
                                   /\ subs'[u].pc \in {"held", "creating"}
  PROVE  Core'
<1> DEFINE new == created + 1
<1>1. /\ DOMAIN feeds = 1 .. created /\ DOMAIN feeds \subseteq Feeds /\ created' = new
      /\ slots \in [Scopes -> Feeds \cup {0}] /\ new \in Feeds /\ new \notin DOMAIN feeds
      /\ slots' = [slots EXCEPT ![sc] = new] /\ feeds' \in [1 .. new -> Feed]
      /\ DOMAIN feeds' = DOMAIN feeds \cup {new} /\ \A f \in DOMAIN feeds : feeds'[f] = feeds[f]
  BY Typing DEF Core, Reserved
<1>2. /\ feeds'[new].scope = sc /\ feeds'[new].state = "reserved" /\ feeds'[new].closing = FALSE
  <2>1. feeds'[new] = NewFeed(sc, n)
    BY DEF Reserved
  <2> QED BY <2>1 DEF NewFeed
<1>3. new \in 0 .. MaxFeeds
  BY <1>1 DEF Feeds
<1> HIDE DEF new
<1>4. slots'[sc] = new /\ \A x \in Scopes \ {sc} : slots'[x] = slots[x]
  BY <1>1
<1>5. slots' \in [Scopes -> Feeds \cup {0}]
  BY <1>1
<1>6. ASSUME NEW x \in Scopes, slots'[x] # 0
      PROVE  /\ slots'[x] \in DOMAIN feeds' /\ feeds'[slots'[x]].scope = x
             /\ ~feeds'[slots'[x]].closing
             /\ x # Zero => feeds'[slots'[x]].state # "failed"
  <2>1. CASE x = sc
    BY <1>1, <1>2, <1>4, <2>1
  <2>2. CASE x # sc
    BY <1>1, <1>4, <1>6, <2>2 DEF Core, Shape, TypeOK
  <2> QED BY <2>1, <2>2
<1>7. starting' \in Feeds \cup {0} /\ toSignal' \in SUBSET Feeds /\ heard' = heard
      /\ readers' \in [Feeds -> Reader]
  BY <1>1 DEF Core, TypeOK, new
<1>8. TypeOK'
  <2>1. \A f \in DOMAIN feeds' : feeds'[f] \in Feed
    BY <1>1
  <2>2. DOMAIN feeds' = 1 .. created'
    BY <1>1
  <2>3. closing' = closing /\ closing \in {"open", "signalling", "done"}
    BY DEF Core, TypeOK
  <2> QED BY <1>1, <1>3, <1>5, <1>6, <1>7, <2>1, <2>2, <2>3 DEF Core, TypeOK
<1>9. ASSUME NEW u \in Subscribers
      PROVE  /\ subs'[u].pc \in Holding \cup {"signal", "stopping"} => subs'[u].feed \in DOMAIN feeds'
             /\ (subs[u].pc \in {"signal", "stopping"} => ~InMap(subs[u].feed))'
  <2>1. CASE subs'[u] = subs[u]
    <3>1. subs[u].pc \in Holding \cup {"signal", "stopping"} => subs[u].feed \in DOMAIN feeds
      BY DEF Core, Shape
    <3>2. ASSUME subs[u].pc \in {"signal", "stopping"}
          PROVE  slots'[feeds'[subs[u].feed].scope] # subs[u].feed
      <4> DEFINE f == subs[u].feed
      <4>1. f \in DOMAIN feeds /\ slots[feeds[f].scope] # f /\ f # new /\ feeds'[f] = feeds[f]
        BY <1>1, <3>1, <3>2 DEF Core, Shape, InMap
      <4>2. feeds[f].scope \in Scopes
        BY <4>1, Typing DEF Core, Feed
      <4> QED BY <1>4, <4>1, <4>2
    <3> QED BY <1>1, <2>1, <3>1, <3>2 DEF InMap
  <2>2. CASE subs'[u].feed = new /\ subs'[u].pc \in {"held", "creating"}
    BY <1>1, <2>2
  <2> QED BY <2>1, <2>2 DEF new
<1>10. (starting # 0 => starting \in DOMAIN feeds /\ ~Tenant(starting) /\ feeds[starting].state = "reserved")'
  BY <1>1, <1>2 DEF Core, Shape, Tenant, new
<1>11. (\A f \in Feeds : f \notin DOMAIN feeds => readers[f].pc = "none")'
  BY <1>1 DEF Core, Shape
<1>12. (\A f \in DOMAIN feeds : readers[f].pc # "none" <=> feeds[f].state = "live")'
  <2>1. readers[new].pc = "none"
    BY <1>1 DEF Core, Shape
  <2> QED BY <1>1, <1>2, <2>1 DEF Core, Shape
<1>13. (toSignal \subseteq DOMAIN feeds /\ (closing = "open" => toSignal = {}))'
  BY <1>1 DEF Core, Shape
<1>14. Shape'
  BY <1>1, <1>6, <1>9, <1>10, <1>11, <1>12, <1>13 DEF Shape
<1>15. Reading'
  <2>1. readers[new].pc = "none" /\ new \in Feeds
    BY <1>1 DEF Core, Shape
  <2> QED BY <1>1, <2>1 DEF Core, Reading
<1> QED BY <1>8, <1>14, <1>15 DEF Core

(* One call moves. *)
LEMMA OneSub ==
  ASSUME subs \in [Subscribers -> Sub], NEW s \in Subscribers, NEW g \in Sub, SubIs(s, g)
  PROVE  /\ subs' \in [Subscribers -> Sub] /\ subs'[s] = g
         /\ \A u \in Subscribers \ {s} : subs'[u] = subs[u]
BY DEF SubIs

(* One feed changes. *)
LEMMA OneChanges ==
  ASSUME TypeOK, Shape, NEW f \in DOMAIN feeds, NEW h \in Feed, FeedIs(f, h)
  PROVE  /\ feeds' \in [1 .. created -> Feed] /\ DOMAIN feeds' = DOMAIN feeds /\ feeds'[f] = h
         /\ \A x \in DOMAIN feeds \ {f} : feeds'[x] = feeds[x]
BY Typing DEF FeedIs

(* One reader moves. *)
LEMMA OneReads ==
  ASSUME readers \in [Feeds -> Reader], NEW f \in Feeds, NEW r \in Reader, ReaderIs(f, r)
  PROVE  /\ readers' \in [Feeds -> Reader] /\ readers'[f] = r
         /\ \A x \in Feeds \ {f} : readers'[x] = readers[x]
BY DEF ReaderIs

(* A call moves, and its feed keeps its scope and state. *)
LEMMA CoreSubMoves ==
  ASSUME Core, SameFeeds, UNCHANGED <<readers, starting, closing, toSignal>>, heard' \in HeardType,
         NEW s \in Subscribers, NEW g \in Sub, SubIs(s, g),
         g.pc \in Holding \cup {"signal", "stopping"} => g.feed \in DOMAIN feeds,
         g.pc \in {"signal", "stopping"} => slots'[feeds[g.feed].scope] # g.feed,
         \A f \in DOMAIN feeds : feeds'[f].state = feeds[f].state
           /\ (slots'[feeds[f].scope] = f => feeds'[f].closing = feeds[f].closing)
  PROVE  Core'
<1>1. /\ subs' \in [Subscribers -> Sub] /\ subs'[s] = g
      /\ \A u \in Subscribers \ {s} : subs'[u] = subs[u]
  BY OneSub, Typing DEF Core
<1>2. \A u \in Subscribers :
        /\ subs'[u].pc \in Holding \cup {"signal", "stopping"} => subs'[u].feed \in DOMAIN feeds
        /\ subs'[u].pc \in {"signal", "stopping"} =>
             \/ subs[u].pc \in {"signal", "stopping"} /\ subs'[u].feed = subs[u].feed
             \/ slots'[feeds[subs'[u].feed].scope] # subs'[u].feed
  BY <1>1 DEF Core, Shape
<1>3. closing' # "open" => \A sc \in Scopes : slots'[sc] = 0
  BY DEF Core, Shape, SameFeeds
<1>4. starting' # 0 => /\ starting' \in DOMAIN feeds /\ ~Tenant(starting')
                       /\ feeds'[starting'].state = "reserved"
  BY DEF Core, Shape
<1>5. toSignal' \in SUBSET DOMAIN feeds /\ (closing' = "open" => toSignal' = {})
      /\ closing' \in {"open", "signalling", "done"} /\ readers' \in [Feeds -> Reader]
  BY DEF Core, Shape, TypeOK
<1>6. \A f \in Feeds : f \notin DOMAIN feeds => readers'[f].pc = "none"
  BY DEF Core, Shape
<1>7. \A f \in DOMAIN feeds : readers'[f].pc # "none" <=> feeds'[f].state = "live"
  BY DEF Core, Shape
<1> QED BY <1>1, <1>2, <1>3, <1>4, <1>5, <1>6, <1>7, CoreFrame

(* FailLocked, and the call of its creator or of Start ends. *)
LEMMA CoreFails ==
  ASSUME Core, NEW f \in DOMAIN feeds, FailLocked(f), feeds[f].state # "live",
         UNCHANGED <<readers, closing, toSignal, created, heard>>,
         starting' = 0 \/ (starting' = starting /\ Tenant(f)),
         \/ UNCHANGED subs
         \/ \E s \in Subscribers : \E g \in Sub : SubIs(s, g) /\ g.pc = "refused"
  PROVE  Core'
<1>1. PICK h \in Feed : FeedIs(f, h) /\ h.state = "failed" /\ h.scope = feeds[f].scope
                        /\ h.closing = feeds[f].closing
  BY FailEffect DEF Core
<1>2. /\ slots' \in [Scopes -> Feeds \cup {0}]
      /\ \A sc \in Scopes : slots'[sc] =
           IF sc = feeds[f].scope /\ sc # Zero /\ slots[sc] = f THEN 0 ELSE slots[sc]
  BY FailEffect DEF Core
<1>3. /\ feeds' \in [1 .. created -> Feed] /\ DOMAIN feeds' = DOMAIN feeds /\ feeds'[f] = h
      /\ \A x \in DOMAIN feeds \ {f} : feeds'[x] = feeds[x]
  BY <1>1, OneChanges DEF Core
<1>4. SameFeeds
  BY <1>1, <1>2, <1>3 DEF SameFeeds
<1>5. /\ subs' \in [Subscribers -> Sub]
      /\ \A u \in Subscribers : subs'[u] = subs[u] \/ subs'[u].pc = "refused"
  <2>1. CASE UNCHANGED subs
    BY <2>1, Typing DEF Core
  <2>2. CASE \E s \in Subscribers : \E g \in Sub : SubIs(s, g) /\ g.pc = "refused"
    <3>1. PICK s \in Subscribers, g \in Sub : SubIs(s, g) /\ g.pc = "refused"
      BY <2>2
    <3> QED BY <3>1, OneSub, Typing DEF Core
  <2> QED BY <2>1, <2>2
<1>6. \A u \in Subscribers :
        /\ subs'[u].pc \in Holding \cup {"signal", "stopping"} => subs'[u].feed \in DOMAIN feeds
        /\ subs'[u].pc \in {"signal", "stopping"} =>
             subs[u].pc \in {"signal", "stopping"} /\ subs'[u].feed = subs[u].feed
  BY <1>5 DEF Core, Shape, Holding
<1>7. \A x \in DOMAIN feeds : slots'[feeds[x].scope] = x =>
        /\ feeds'[x].closing = feeds[x].closing
        /\ Tenant(x) /\ feeds'[x].state = "failed" => feeds[x].state = "failed"
  <2>1. Tenant(f) => slots'[feeds[f].scope] # f
    <3>1. feeds[f].scope \in Scopes /\ f # 0
      BY Typing DEF Core, Feed
    <3> QED BY <1>2, <3>1 DEF Tenant
  <2> QED BY <1>1, <1>3, <2>1
<1>8. starting' # 0 => /\ starting' \in DOMAIN feeds /\ ~Tenant(starting')
                       /\ feeds'[starting'].state = "reserved"
  BY <1>3 DEF Core, Shape
<1>9. /\ toSignal' \in SUBSET DOMAIN feeds /\ (closing' = "open" => toSignal' = {})
      /\ closing' \in {"open", "signalling", "done"} /\ readers' \in [Feeds -> Reader]
      /\ heard' \in HeardType
  BY DEF Core, Shape, TypeOK, HeardType
<1>10. \A x \in Feeds : x \notin DOMAIN feeds => readers'[x].pc = "none"
  BY DEF Core, Shape
<1>11. \A x \in DOMAIN feeds : readers'[x].pc # "none" <=> feeds'[x].state = "live"
  BY <1>1, <1>3 DEF Core, Shape
<1>12. closing' # "open" => \A sc \in Scopes : slots'[sc] = 0
  BY <1>2 DEF Core, Shape
<1> QED BY <1>4, <1>5, <1>6, <1>7, <1>8, <1>9, <1>10, <1>11, <1>12, CoreFrame

(* PublishFeed starts the reader, and the call of its creator or of Start  *)
(* goes on.                                                                *)
LEMMA CorePublishes ==
  ASSUME Core, NEW f \in DOMAIN feeds, PublishFeed(f), Publishable(f), feeds[f].state # "live",
         UNCHANGED <<closing, toSignal, created, heard>>,
         starting' = 0 \/ (starting' = starting /\ Tenant(f)),
         \/ UNCHANGED subs
         \/ \E s \in Subscribers : \E g \in Sub : SubIs(s, g) /\ g.pc = "held" /\ g.feed = f
  PROVE  Core'
<1>1. PICK h \in Feed : FeedIs(f, h) /\ h.state = "live" /\ h.scope = feeds[f].scope
                        /\ h.closing = feeds[f].closing
  BY PublishEffect DEF Core
<1>2. closing = "open" /\ UNCHANGED slots
  BY PublishEffect DEF Core
<1>3. PICK r \in Reader : ReaderIs(f, r) /\ r.pc = "resync" /\ r.todo = readers[f].todo
                          /\ r.in = readers[f].in
  BY PublishEffect DEF Core
<1>4. /\ feeds' \in [1 .. created -> Feed] /\ DOMAIN feeds' = DOMAIN feeds /\ feeds'[f] = h
      /\ \A x \in DOMAIN feeds \ {f} : feeds'[x] = feeds[x]
  BY <1>1, OneChanges DEF Core
<1>5. f \in Feeds /\ readers \in [Feeds -> Reader] /\ DOMAIN feeds \subseteq Feeds
      /\ slots \in [Scopes -> Feeds \cup {0}] /\ subs \in [Subscribers -> Sub]
  BY Typing DEF Core
<1>6. /\ readers' \in [Feeds -> Reader] /\ readers'[f] = r
      /\ \A x \in Feeds \ {f} : readers'[x] = readers[x]
  BY <1>3, <1>5, OneReads
<1>7. SameFeeds
  BY <1>1, <1>2, <1>4, <1>5 DEF SameFeeds
<1>8. /\ subs' \in [Subscribers -> Sub]
      /\ \A u \in Subscribers : subs'[u] = subs[u] \/ (subs'[u].pc = "held" /\ subs'[u].feed = f)
  <2>1. CASE UNCHANGED subs
    BY <1>5, <2>1
  <2>2. CASE \E s \in Subscribers : \E g \in Sub : SubIs(s, g) /\ g.pc = "held" /\ g.feed = f
    <3>1. PICK s \in Subscribers, g \in Sub : SubIs(s, g) /\ g.pc = "held" /\ g.feed = f
      BY <2>2
    <3> QED BY <1>5, <3>1, OneSub
  <2> QED BY <2>1, <2>2
<1>9. \A u \in Subscribers :
        /\ subs'[u].pc \in Holding \cup {"signal", "stopping"} => subs'[u].feed \in DOMAIN feeds
        /\ subs'[u].pc \in {"signal", "stopping"} =>
             subs[u].pc \in {"signal", "stopping"} /\ subs'[u].feed = subs[u].feed
  BY <1>8 DEF Core, Shape
<1>10. \A x \in DOMAIN feeds : slots'[feeds[x].scope] = x =>
         /\ feeds'[x].closing = feeds[x].closing
         /\ Tenant(x) /\ feeds'[x].state = "failed" => feeds[x].state = "failed"
  BY <1>1, <1>4
<1>11. starting' # 0 => /\ starting' \in DOMAIN feeds /\ ~Tenant(starting')
                        /\ feeds'[starting'].state = "reserved"
  BY <1>4 DEF Core, Shape
<1>12. /\ toSignal' \in SUBSET DOMAIN feeds /\ (closing' = "open" => toSignal' = {})
       /\ closing' \in {"open", "signalling", "done"} /\ heard' \in HeardType
       /\ (closing' # "open" => \A sc \in Scopes : slots'[sc] = 0)
  BY <1>2 DEF Core, Shape, TypeOK, HeardType
<1>13. \A x \in Feeds : x \notin DOMAIN feeds => readers'[x].pc = "none"
  BY <1>6 DEF Core, Shape
<1>14. \A x \in DOMAIN feeds : readers'[x].pc # "none" <=> feeds'[x].state = "live"
  BY <1>1, <1>3, <1>4, <1>5, <1>6 DEF Core, Shape
<1>15. \A x \in Feeds : readers'[x] = readers[x] \/ Elsewhere(readers'[x])
  <2>1. readers[f].pc = "none"
    BY DEF Core, Shape
  <2>2. Elsewhere(r)
    BY <1>3, <1>5, <2>1 DEF Core, Reading, Elsewhere
  <2> QED BY <1>6, <2>2
<1> QED BY <1>6, <1>7, <1>8, <1>9, <1>10, <1>11, <1>12, <1>13, <1>14, <1>15, CoreFrame

(* The feeds and their slots are untouched. *)
LEMMA Untouched ==
  ASSUME Core, UNCHANGED <<feeds, slots, created>>
  PROVE  SameFeeds
BY Typing DEF Core, SameFeeds

(* One feed changes and keeps its scope. *)
LEMMA Touched ==
  ASSUME Core, UNCHANGED <<slots, created>>, NEW f \in DOMAIN feeds, NEW h \in Feed, FeedIs(f, h),
         h.scope = feeds[f].scope
  PROVE  SameFeeds
<1>1. /\ feeds' \in [1 .. created -> Feed] /\ feeds'[f] = h
      /\ \A x \in DOMAIN feeds \ {f} : feeds'[x] = feeds[x]
  BY OneChanges DEF Core
<1>2. slots \in [Scopes -> Feeds \cup {0}]
  BY Typing DEF Core
<1> QED BY <1>1, <1>2 DEF SameFeeds

(* A call moves, all feeds keeping what Core says of them. *)
LEMMA CoreSubAt ==
  ASSUME Core, UNCHANGED <<slots, readers, starting, closing, toSignal, created>>,
         heard' \in HeardType,
         NEW s \in Subscribers, NEW g \in Sub, SubIs(s, g),
         g.pc \notin {"signal", "stopping"}, g.pc \in Holding => g.feed \in DOMAIN feeds,
         \/ UNCHANGED feeds
         \/ \E f \in DOMAIN feeds : \E h \in Feed : FeedIs(f, h) /\ AsBefore(h, feeds[f])
  PROVE  Core'
<1>1. CASE UNCHANGED feeds
  BY <1>1, Untouched, CoreSubMoves
<1>2. CASE \E f \in DOMAIN feeds : \E h \in Feed : FeedIs(f, h) /\ AsBefore(h, feeds[f])
  <2>1. PICK f \in DOMAIN feeds, h \in Feed : FeedIs(f, h) /\ AsBefore(h, feeds[f])
    BY <1>2
  <2>2. feeds'[f] = h /\ \A x \in DOMAIN feeds \ {f} : feeds'[x] = feeds[x]
    BY <2>1, OneChanges DEF Core
  <2>3. SameFeeds
    BY <2>1, Touched DEF AsBefore
  <2>4. \A x \in DOMAIN feeds : feeds'[x].state = feeds[x].state /\ feeds'[x].closing = feeds[x].closing
    BY <2>1, <2>2 DEF AsBefore
  <2> QED BY <2>3, <2>4, CoreSubMoves
<1> QED BY <1>1, <1>2

(* Every step keeps the types. *)
LEMMA CoreKept ==
  ASSUME Types, [Next]_vars
  PROVE  Core'
<1>1. /\ Core /\ TypeOK /\ Shape /\ Reading /\ Counted /\ heard \in HeardType
      /\ subs \in [Subscribers -> Sub] /\ readers \in [Feeds -> Reader]
      /\ slots \in [Scopes -> Feeds \cup {0}] /\ feeds \in [1 .. created -> Feed]
      /\ DOMAIN feeds = 1 .. created /\ DOMAIN feeds \subseteq Feeds /\ 0 \notin DOMAIN feeds
  BY Typing DEF Types, Core, TypeOK, HeardType
<1>2. ASSUME NEW s \in Subscribers, NEW sc \in Scopes, Subscribe(s, sc)
      PROVE  Core'
  <2>1. PICK g \in Sub :
          /\ SubIs(s, g)
          /\ \/ g.pc = "refused" /\ UNCHANGED <<feeds, slots, created>>
             \/ /\ slots[sc] # 0 /\ UNCHANGED <<slots, created>> /\ g.feed = slots[sc]
                /\ g.pc \in {"held", "waiting"}
                /\ \E h \in Feed : FeedIs(slots[sc], h) /\ AsBefore(h, feeds[slots[sc]])
             \/ /\ closing = "open" /\ Reserved(sc, 1) /\ g.feed = created + 1
                /\ g.pc \in {"held", "creating"}
    BY <1>1, <1>2, SubscribeEffect
  <2>2. UNCHANGED <<readers, starting, closing, toSignal, heard>>
    BY <1>1, <1>2, SubscribeEffect
  <2>3. CASE g.pc = "refused" /\ UNCHANGED <<feeds, slots, created>>
    BY <1>1, <2>1, <2>2, <2>3, CoreSubAt DEF Holding
  <2>4. CASE /\ slots[sc] # 0 /\ UNCHANGED <<slots, created>> /\ g.feed = slots[sc]
             /\ g.pc \in {"held", "waiting"}
             /\ \E h \in Feed : FeedIs(slots[sc], h) /\ AsBefore(h, feeds[slots[sc]])
    <3>1. slots[sc] \in DOMAIN feeds
      BY <1>1, <2>4 DEF Shape
    <3> QED BY <1>1, <2>1, <2>2, <2>4, <3>1, CoreSubAt
  <2>5. CASE /\ closing = "open" /\ Reserved(sc, 1) /\ g.feed = created + 1
             /\ g.pc \in {"held", "creating"}
    <3>1. /\ subs' \in [Subscribers -> Sub] /\ subs'[s] = g
          /\ \A u \in Subscribers \ {s} : subs'[u] = subs[u]
      BY <1>1, <2>1, OneSub
    <3> QED BY <1>1, <2>2, <2>5, <3>1, CoreReserve
  <2> QED BY <2>1, <2>3, <2>4, <2>5
<1>3. ASSUME NEW s \in Subscribers, NEW inside \in BOOLEAN, Teardown(s, inside)
      PROVE  Core'
  <2> DEFINE f == subs[s].feed
  <2>1. f \in DOMAIN feeds /\ UNCHANGED <<slots, readers, starting, closing, toSignal, created, heard>>
    BY <1>1, <1>3, TeardownEffect
  <2>2. PICK g \in Sub : SubIs(s, g) /\ g.feed = f /\ g.pc = "release"
    BY <1>1, <1>3, TeardownEffect
  <2>3. \E h \in Feed : FeedIs(f, h) /\ AsBefore(h, feeds[f])
    BY <1>1, <1>3, TeardownEffect
  <2> QED BY <1>1, <2>1, <2>2, <2>3, CoreSubAt
<1>4. ASSUME NEW s \in Subscribers, Create(s) \/ CreateFails(s)
      PROVE  Core'
  <2> DEFINE f == subs[s].feed
  <2>1. subs[s].pc = "creating" /\ f \in DOMAIN feeds
        /\ UNCHANGED <<starting, closing, toSignal, created, heard>>
    BY <1>1, <1>4, CreateEffect
  <2>2. Tenant(f) /\ feeds[f].state # "live"
    BY <2>1 DEF Types, Creators
  <2>3. \/ /\ FailLocked(f) /\ UNCHANGED readers
           /\ \E g \in Sub : SubIs(s, g) /\ g.pc = "refused"
        \/ /\ PublishFeed(f) /\ Publishable(f)
           /\ \E g \in Sub : SubIs(s, g) /\ g.pc = "held" /\ g.feed = f
    BY <1>1, <1>4, CreateEffect
  <2> QED BY <1>1, <2>1, <2>2, <2>3, CoreFails, CorePublishes
<1>5. ASSUME NEW s \in Subscribers, AwaitFeed(s) \/ GiveUp(s)
      PROVE  Core'
  <2>1. subs[s].pc = "waiting"
        /\ UNCHANGED <<feeds, slots, readers, starting, closing, toSignal, created, heard>>
    BY <1>1, <1>5, AwaitEffect
  <2>2. PICK g \in Sub : SubIs(s, g) /\ g.feed = subs[s].feed /\ g.pc \in {"release", "held"}
    BY <1>1, <1>5, AwaitEffect
  <2>3. subs[s].feed \in DOMAIN feeds
    BY <1>1, <2>1 DEF Shape, Holding
  <2> QED BY <1>1, <2>1, <2>2, <2>3, CoreSubAt
<1>6. ASSUME NEW s \in Subscribers, Join(s)
      PROVE  Core'
  <2> DEFINE f == subs[s].feed
  <2>1. f \in DOMAIN feeds /\ UNCHANGED <<slots, readers, starting, closing, toSignal, created, heard>>
    BY <1>1, <1>6, JoinEffect
  <2>2. PICK g \in Sub : SubIs(s, g) /\ g.feed = f /\ g.pc = "joining"
    BY <1>1, <1>6, JoinEffect
  <2>3. \E h \in Feed : FeedIs(f, h) /\ AsBefore(h, feeds[f])
    BY <1>1, <1>6, JoinEffect
  <2> QED BY <1>1, <2>1, <2>2, <2>3, CoreSubAt
<1>7. ASSUME NEW s \in Subscribers, DeliverJoining(s)
      PROVE  Core'
  <2>1. /\ subs[s].feed \in DOMAIN feeds /\ subs[s].joining \in {"none", "resync", "disconnect"}
        /\ UNCHANGED <<feeds, slots, readers, starting, closing, toSignal, created>>
    BY <1>1, <1>7, DeliverEffect
  <2>2. PICK g \in Sub : SubIs(s, g) /\ g.feed = subs[s].feed /\ g.pc = "active"
    BY <1>1, <1>7, DeliverEffect
  <2>3. Told(subs[s].feed, s, subs[s].joining)
    BY <1>7 DEF DeliverJoining
  <2>4. heard' \in HeardType
    BY <1>1, <2>1, <2>3, ToldEffect
  <2> QED BY <1>1, <2>1, <2>2, <2>4, CoreSubAt
<1>8. ASSUME NEW s \in Subscribers, ReleaseFeed(s)
      PROVE  Core'
  <2> DEFINE f == subs[s].feed
  <2>1. f \in DOMAIN feeds /\ UNCHANGED <<readers, starting, closing, toSignal, created, heard>>
    BY <1>1, <1>8, ReleaseEffect
  <2>2. PICK h \in Feed : FeedIs(f, h) /\ AsBefore(h, feeds[f])
    BY <1>1, <1>8, ReleaseEffect
  <2>3. \/ /\ LastToLeave(f) /\ slots' = [slots EXCEPT ![feeds[f].scope] = 0]
           /\ \E g \in Sub : SubIs(s, g) /\ g.pc = "signal" /\ g.feed = f
        \/ UNCHANGED slots /\ \E g \in Sub : SubIs(s, g) /\ g.pc \in {"gone", "refused"}
    BY <1>1, <1>8, ReleaseEffect
  <2>4. CASE UNCHANGED slots /\ \E g \in Sub : SubIs(s, g) /\ g.pc \in {"gone", "refused"}
    BY <1>1, <2>1, <2>2, <2>4, CoreSubAt DEF Holding
  <2>5. CASE /\ LastToLeave(f) /\ slots' = [slots EXCEPT ![feeds[f].scope] = 0]
             /\ \E g \in Sub : SubIs(s, g) /\ g.pc = "signal" /\ g.feed = f
    <3>1. PICK g \in Sub : SubIs(s, g) /\ g.pc = "signal" /\ g.feed = f
      BY <2>5
    <3>2. feeds[f].scope \in Scopes /\ f # 0
      BY <1>1, <2>1 DEF Feed
    <3>3. slots'[feeds[f].scope] = 0 /\ \A sc \in Scopes \ {feeds[f].scope} : slots'[sc] = slots[sc]
      BY <1>1, <2>5, <3>2
    <3>4. slots' \in [Scopes -> Feeds \cup {0}]
      BY <1>1, <2>5
    <3>5. /\ feeds' \in [1 .. created -> Feed] /\ feeds'[f] = h
          /\ \A x \in DOMAIN feeds \ {f} : feeds'[x] = feeds[x]
      BY <1>1, <2>1, <2>2, OneChanges
    <3>6. \A x \in DOMAIN feeds : /\ feeds'[x].scope = feeds[x].scope
                                  /\ feeds'[x].state = feeds[x].state
                                  /\ feeds'[x].closing = feeds[x].closing
      BY <2>2, <3>5 DEF AsBefore
    <3>7. SameFeeds
      BY <2>1, <3>3, <3>4, <3>5, <3>6 DEF SameFeeds
    <3> QED BY <1>1, <2>1, <3>1, <3>2, <3>3, <3>6, <3>7, CoreSubMoves
  <2> QED BY <2>3, <2>4, <2>5
<1>9. ASSUME NEW s \in Subscribers, StopFeed(s) \/ StopFeedReturns(s)
      PROVE  Core'
  <2> DEFINE f == subs[s].feed
  <2>1. /\ f \in DOMAIN feeds /\ UNCHANGED <<slots, readers, starting, closing, toSignal, created, heard>>
        /\ subs[s].pc \in {"signal", "stopping"}
    BY <1>1, <1>9, StopEffect
  <2>2. \/ UNCHANGED feeds
        \/ \E h \in Feed : FeedIs(f, h) /\ h.scope = feeds[f].scope /\ h.state = feeds[f].state
    BY <1>1, <1>9, StopEffect, ZenonT(40)
  <2>3. PICK g \in Sub : SubIs(s, g) /\ (\/ g.pc \in {"gone", "refused"}
                                         \/ g.pc = "stopping" /\ g.feed = f)
    BY <1>1, <1>9, StopEffect
  <2>4. slots[feeds[f].scope] # f
    BY <1>1, <2>1 DEF Shape, InMap
  <2>5. SameFeeds /\ \A x \in DOMAIN feeds : /\ feeds'[x].state = feeds[x].state
                                             /\ x # f => feeds'[x].closing = feeds[x].closing
    <3>1. CASE UNCHANGED feeds
      BY <1>1, <2>1, <3>1, Untouched
    <3>2. CASE \E h \in Feed : FeedIs(f, h) /\ h.scope = feeds[f].scope /\ h.state = feeds[f].state
      <4>1. PICK h \in Feed : FeedIs(f, h) /\ h.scope = feeds[f].scope /\ h.state = feeds[f].state
        BY <3>2
      <4>2. feeds'[f] = h /\ \A x \in DOMAIN feeds \ {f} : feeds'[x] = feeds[x]
        BY <1>1, <2>1, <4>1, OneChanges
      <4>3. SameFeeds
        BY <1>1, <2>1, <4>1, Touched
      <4> QED BY <4>1, <4>2, <4>3
    <3> QED BY <2>2, <3>1, <3>2
  <2>6. \A x \in DOMAIN feeds : feeds'[x].state = feeds[x].state
          /\ (slots'[feeds[x].scope] = x => feeds'[x].closing = feeds[x].closing)
    <3> SUFFICES ASSUME NEW x \in DOMAIN feeds
                 PROVE  feeds'[x].state = feeds[x].state
                        /\ (slots'[feeds[x].scope] = x => feeds'[x].closing = feeds[x].closing)
      OBVIOUS
    <3>1. CASE x = f
      BY <2>1, <2>4, <2>5, <3>1
    <3>2. CASE x # f
      BY <2>5, <3>2
    <3> QED BY <3>1, <3>2
  <2>7. /\ g.pc \in Holding \cup {"signal", "stopping"} => g.feed \in DOMAIN feeds
        /\ g.pc \in {"signal", "stopping"} => slots'[feeds[g.feed].scope] # g.feed
    BY <2>1, <2>3, <2>4 DEF Holding
  <2>8. UNCHANGED <<readers, starting, closing, toSignal>> /\ heard' \in HeardType /\ SameFeeds
    BY <1>1, <2>1, <2>5
  <2> QED BY <1>1, <2>3, <2>6, <2>7, <2>8, CoreSubMoves
<1>10. ASSUME NEW f \in DOMAIN feeds, ReaderStep(f)
       PROVE  Core'
  <2>1. /\ UNCHANGED <<slots, subs, starting, closing, toSignal, created>>
        /\ readers[f].pc # "none" /\ heard' \in HeardType /\ Settles(f) /\ FeedsKept
    BY <1>1, <1>10, ReaderFrame
  <2>2. PICK r \in Reader : ReaderIs(f, r) /\ (Elsewhere(r) \/ FanningOut(r))
    BY <2>1 DEF Settles
  <2>3. /\ readers' \in [Feeds -> Reader] /\ readers'[f] = r
        /\ \A x \in Feeds \ {f} : readers'[x] = readers[x]
    BY <1>1, <2>2, OneReads
  <2>4. SameFeeds
    BY <1>1, <2>1 DEF FeedsKept, SameFeeds
  <2>5. \A x \in DOMAIN feeds : readers'[x].pc # "none" <=> feeds'[x].state = "live"
    <3>1. r.pc # "none"
      BY <2>2 DEF Elsewhere, FanningOut
    <3> QED BY <1>1, <2>1, <2>3, <3>1 DEF Shape, FeedsKept
  <2>6. \A x \in Feeds : x \notin DOMAIN feeds => readers'[x].pc = "none"
    BY <1>1, <2>3 DEF Shape
  <2>7. \A x \in DOMAIN feeds : slots'[feeds[x].scope] = x =>
          /\ feeds'[x].closing = feeds[x].closing
          /\ Tenant(x) /\ feeds'[x].state = "failed" => feeds[x].state = "failed"
    BY <2>1 DEF FeedsKept
  <2>8. \A u \in Subscribers :
          /\ subs'[u].pc \in Holding \cup {"signal", "stopping"} => subs'[u].feed \in DOMAIN feeds
          /\ subs'[u].pc \in {"signal", "stopping"} =>
               subs[u].pc \in {"signal", "stopping"} /\ subs'[u].feed = subs[u].feed
    BY <1>1, <2>1 DEF Shape
  <2>9. /\ starting' # 0 => /\ starting' \in DOMAIN feeds /\ ~Tenant(starting')
                            /\ feeds'[starting'].state = "reserved"
        /\ toSignal' \in SUBSET DOMAIN feeds /\ (closing' = "open" => toSignal' = {})
        /\ closing' \in {"open", "signalling", "done"}
        /\ (closing' # "open" => \A sc \in Scopes : slots'[sc] = 0)
    BY <1>1, <2>1 DEF Shape, FeedsKept, TypeOK
  <2> QED BY <1>1, <2>1, <2>2, <2>3, <2>4, <2>5, <2>6, <2>7, <2>8, <2>9, CoreFrame
<1>11. ASSUME Start \/ StartFails \/ StartPublishes
       PROVE  Core'
  <2>1. UNCHANGED <<subs, closing, toSignal, heard>>
    BY <1>1, <1>11, StartEffect
  <2>2. CASE /\ Zero \in Scopes /\ closing = "open" /\ Reserved(Zero, 0)
             /\ starting' = created + 1 /\ UNCHANGED readers
    BY <1>1, <2>1, <2>2, CoreReserve
  <2>3. CASE /\ Zero \in Scopes /\ slots[Zero] # 0 /\ feeds[slots[Zero]].state # "live"
             /\ starting' = slots[Zero] /\ UNCHANGED <<slots, created, readers>>
             /\ \E h \in Feed : /\ FeedIs(slots[Zero], h) /\ h.state = "reserved"
                                /\ h.scope = feeds[slots[Zero]].scope
                                 /\ h.closing = feeds[slots[Zero]].closing
    <3> DEFINE f == slots[Zero]
    <3>1. PICK h \in Feed : /\ FeedIs(f, h) /\ h.state = "reserved" /\ h.scope = feeds[f].scope
                            /\ h.closing = feeds[f].closing
      BY <2>3
    <3>2. f \in DOMAIN feeds /\ ~Tenant(f)
      BY <1>1, <2>3 DEF Shape, Tenant
    <3>3. feeds'[f] = h /\ \A x \in DOMAIN feeds \ {f} : feeds'[x] = feeds[x]
      BY <1>1, <3>1, <3>2, OneChanges
    <3>4. SameFeeds
      BY <1>1, <2>3, <3>1, <3>2, Touched
    <3>5. \A x \in DOMAIN feeds : readers'[x].pc # "none" <=> feeds'[x].state = "live"
      BY <1>1, <2>3, <3>1, <3>3 DEF Shape
    <3>6. \A x \in Feeds : x \notin DOMAIN feeds => readers'[x].pc = "none"
      BY <1>1, <2>3 DEF Shape
    <3>7. \A x \in DOMAIN feeds : slots'[feeds[x].scope] = x =>
            /\ feeds'[x].closing = feeds[x].closing
            /\ Tenant(x) /\ feeds'[x].state = "failed" => feeds[x].state = "failed"
      BY <3>1, <3>3
    <3>8. \A u \in Subscribers :
            /\ subs'[u].pc \in Holding \cup {"signal", "stopping"} => subs'[u].feed \in DOMAIN feeds
            /\ subs'[u].pc \in {"signal", "stopping"} =>
                 subs[u].pc \in {"signal", "stopping"} /\ subs'[u].feed = subs[u].feed
      BY <1>1, <2>1 DEF Shape
    <3>9. /\ toSignal' \in SUBSET DOMAIN feeds /\ (closing' = "open" => toSignal' = {})
          /\ closing' \in {"open", "signalling", "done"}
          /\ (closing' # "open" => \A sc \in Scopes : slots'[sc] = 0)
      BY <1>1, <2>1, <2>3 DEF Shape, TypeOK
    <3>10. starting' # 0 => /\ starting' \in DOMAIN feeds /\ ~Tenant(starting')
                            /\ feeds'[starting'].state = "reserved"
      BY <2>3, <3>1, <3>2, <3>3
    <3> QED BY <1>1, <2>1, <2>3, <3>4, <3>5, <3>6, <3>7, <3>8, <3>9, <3>10, CoreFrame
  <2>4. ASSUME starting # 0
        PROVE  starting \in DOMAIN feeds /\ feeds[starting].state # "live"
    BY <1>1, <2>4 DEF Shape
  <2>5. CASE /\ starting # 0 /\ starting' = 0 /\ FailLocked(starting)
             /\ UNCHANGED <<readers, created>>
    BY <1>1, <2>1, <2>4, <2>5, CoreFails
  <2>6. CASE /\ starting # 0 /\ starting' = 0 /\ PublishFeed(starting) /\ Publishable(starting)
             /\ UNCHANGED created
    BY <1>1, <2>1, <2>4, <2>6, CorePublishes
  <2> QED BY <1>1, <1>11, <2>2, <2>3, <2>5, <2>6, StartEffect
<1>12. ASSUME StopFeeds \/ (\E f \in toSignal : SignalFeed(f)) \/ CloseReturns
       PROVE  Core'
  <2>1. /\ UNCHANGED <<readers, subs, starting, created, heard>>
        /\ feeds' \in [1 .. created -> Feed]
        /\ closing' # "open" /\ closing' \in {"open", "signalling", "done"}
        /\ toSignal' \in SUBSET DOMAIN feeds
        /\ \A f \in DOMAIN feeds : feeds'[f].scope = feeds[f].scope
    BY <1>1, <1>12, CloseEffect
  <2>2. /\ slots' \in [Scopes -> Feeds \cup {0}] /\ \A sc \in Scopes : slots'[sc] = 0
        /\ \A f \in DOMAIN feeds :
             feeds'[f].state = feeds[f].state
               \/ (feeds'[f].state = "failed" /\ feeds[f].state = "reserved" /\ Tenant(f))
    <3>1. CASE /\ closing = "open" /\ slots' = [sc \in Scopes |-> 0]
               /\ \A f \in DOMAIN feeds :
                    LET connecting == InMap(f) /\ feeds[f].scope \in Scopes /\ Tenant(f)
                                        /\ feeds[f].state = "reserved" IN
                    feeds'[f].state = (IF connecting THEN "failed" ELSE feeds[f].state)
      BY <3>1
    <3>2. CASE /\ closing # "open" /\ UNCHANGED slots
               /\ \A f \in DOMAIN feeds : feeds'[f].state = feeds[f].state
      BY <1>1, <3>2 DEF Shape
    <3> QED BY <1>1, <1>12, <3>1, <3>2, CloseEffect
  <2>3. SameFeeds
    BY <2>1, <2>2 DEF SameFeeds
  <2>4. \A x \in DOMAIN feeds : readers'[x].pc # "none" <=> feeds'[x].state = "live"
    BY <1>1, <2>1, <2>2 DEF Shape
  <2>5. \A x \in Feeds : x \notin DOMAIN feeds => readers'[x].pc = "none"
    BY <1>1, <2>1 DEF Shape
  <2>6. \A x \in DOMAIN feeds : slots'[feeds[x].scope] # x
    BY <1>1, <2>2 DEF Feed
  <2>7. \A u \in Subscribers :
          /\ subs'[u].pc \in Holding \cup {"signal", "stopping"} => subs'[u].feed \in DOMAIN feeds
          /\ subs'[u].pc \in {"signal", "stopping"} =>
               subs[u].pc \in {"signal", "stopping"} /\ subs'[u].feed = subs[u].feed
    BY <1>1, <2>1 DEF Shape
  <2>8. starting' # 0 => /\ starting' \in DOMAIN feeds /\ ~Tenant(starting')
                         /\ feeds'[starting'].state = "reserved"
    BY <1>1, <2>1, <2>2 DEF Shape
  <2> QED BY <1>1, <2>1, <2>2, <2>3, <2>4, <2>5, <2>6, <2>7, <2>8, CoreFrame
<1>13. CASE UNCHANGED vars
  BY <1>1, <1>13 DEF Core, TypeOK, Shape, Reading, vars, Tenant, InMap
<1> QED BY <1>2, <1>3, <1>4, <1>5, <1>6, <1>7, <1>8, <1>9, <1>10, <1>11, <1>12, <1>13, NextCases

-----------------------------------------------------------------------------
(* Creators and references.                                                *)

(* A step that makes nobody a creator. *)
LEMMA CreatorsFrame ==
  ASSUME Core, Creators, \A f \in DOMAIN feeds : feeds'[f].scope = feeds[f].scope,
         closing' = "open" => closing = "open",
         \A u \in Subscribers : subs'[u].pc = "creating" =>
           /\ subs[u].pc = "creating" /\ subs'[u].feed = subs[u].feed
           /\ feeds'[subs[u].feed].state = "live" => feeds[subs[u].feed].state = "live"
           /\ closing' = "open" /\ InMap(subs[u].feed) =>
                slots'[feeds[subs[u].feed].scope] = subs[u].feed
  PROVE  Creators'
<1> SUFFICES ASSUME NEW s \in Subscribers, subs'[s].pc = "creating"
             PROVE  /\ Tenant(subs[s].feed)' /\ feeds'[subs'[s].feed].state # "live"
                    /\ closing' = "open" => InMap(subs[s].feed)'
                    /\ \A c \in Subscribers :
                         subs'[c].pc = "creating" /\ subs'[c].feed = subs'[s].feed => c = s
  BY DEF Creators
<1>1. /\ Tenant(subs[s].feed) /\ feeds[subs[s].feed].state # "live"
      /\ closing = "open" => InMap(subs[s].feed)
      /\ \A c \in Subscribers : subs[c].pc = "creating" /\ subs[c].feed = subs[s].feed => c = s
  BY DEF Creators
<1>2. subs[s].feed \in DOMAIN feeds
  BY DEF Core, Shape, Holding
<1> QED BY <1>1, <1>2 DEF Tenant, InMap

(* The last to leave a feed is its only holder. *)
LEMMA LastAlone ==
  ASSUME Core, Counted, NEW s \in Subscribers, NEW f \in DOMAIN feeds, s \in Holders(f),
         LastToLeave(f), NEW u \in Holders(f)
  PROVE  u = s
<1>1. feeds[f].scope \in Scopes /\ feeds[f].scope # Zero /\ slots[feeds[f].scope] = f
      /\ feeds[f].refs = 1 /\ f # 0
  BY Typing DEF Core, Feed, LastToLeave
<1>2. feeds[f].state # "failed"
  BY <1>1 DEF Core, TypeOK
<1>3. IsFiniteSet(Holders(f)) /\ Cardinality(Holders(f)) = 1
  BY <1>1, <1>2 DEF Counted, Count
<1>4. IsFiniteSet(Holders(f) \ {s}) /\ Cardinality(Holders(f) \ {s}) = 0
  BY <1>3, FS_RemoveElement
<1>5. Holders(f) \ {s} = {}
  BY <1>4, FS_EmptySet
<1> QED BY <1>5

(* A call moves, no creator's slot is taken, and its feed is published by  *)
(* its creator only.                                                       *)
LEMMA CreatorsOne ==
  ASSUME Core, Creators, NEW s \in Subscribers, NEW g \in Sub, SubIs(s, g), g.pc # "creating",
         closing' = closing,
         \A u \in Subscribers \ {s} : subs[u].pc = "creating" /\ InMap(subs[u].feed) =>
           slots'[feeds[subs[u].feed].scope] = subs[u].feed,
         \/ UNCHANGED feeds
         \/ \E f \in DOMAIN feeds : \E h \in Feed :
              /\ FeedIs(f, h) /\ h.scope = feeds[f].scope
              /\ h.state = "live" => \/ feeds[f].state = "live"
                                     \/ subs[s].pc = "creating" /\ subs[s].feed = f
  PROVE  Creators'
<1>1. /\ subs'[s] = g /\ \A u \in Subscribers \ {s} : subs'[u] = subs[u]
  BY OneSub, Typing DEF Core
<1>2. ASSUME NEW u \in Subscribers, subs'[u].pc = "creating"
      PROVE  /\ u # s /\ subs'[u] = subs[u] /\ subs[u].pc = "creating"
             /\ subs[u].feed \in DOMAIN feeds
  BY <1>1, <1>2 DEF Core, Shape, Holding
<1>3. CASE UNCHANGED feeds
  BY <1>2, <1>3, CreatorsFrame
<1>4. CASE \E f \in DOMAIN feeds : \E h \in Feed :
             /\ FeedIs(f, h) /\ h.scope = feeds[f].scope
             /\ h.state = "live" => \/ feeds[f].state = "live"
                                    \/ subs[s].pc = "creating" /\ subs[s].feed = f
  <2>1. PICK f \in DOMAIN feeds, h \in Feed :
          /\ FeedIs(f, h) /\ h.scope = feeds[f].scope
          /\ h.state = "live" => \/ feeds[f].state = "live"
                                 \/ subs[s].pc = "creating" /\ subs[s].feed = f
    BY <1>4
  <2>2. feeds'[f] = h /\ \A x \in DOMAIN feeds \ {f} : feeds'[x] = feeds[x]
    BY <2>1, OneChanges DEF Core
  <2>3. ASSUME NEW u \in Subscribers, subs'[u].pc = "creating"
        PROVE  feeds'[subs[u].feed].state = "live" => feeds[subs[u].feed].state = "live"
    <3>1. subs[s].pc = "creating" /\ subs[s].feed = f => subs[u].feed # f
      BY <1>2, <2>3 DEF Creators
    <3> QED BY <1>2, <2>1, <2>2, <2>3, <3>1
  <2>4. \A x \in DOMAIN feeds : feeds'[x].scope = feeds[x].scope
    BY <2>1, <2>2
  <2> QED BY <1>2, <2>3, <2>4, CreatorsFrame
<1> QED BY <1>3, <1>4

(* Every step keeps the creators apart. *)
LEMMA CreatorsKept ==
  ASSUME Types, [Next]_vars
  PROVE  Creators'
<1>1. /\ Core /\ TypeOK /\ Shape /\ Reading /\ Counted /\ Creators
      /\ subs \in [Subscribers -> Sub] /\ DOMAIN feeds \subseteq Feeds
      /\ DOMAIN feeds = 1 .. created
      /\ \A f \in DOMAIN feeds : feeds[f].scope \in Scopes /\ f # 0
  BY Typing DEF Types, Core, Feed
<1>2. \A u \in Subscribers : subs[u].pc = "creating" => subs[u].feed \in DOMAIN feeds
  BY <1>1 DEF Shape, Holding
<1>3. ASSUME NEW sc \in Scopes, NEW n \in Nat, Reserved(sc, n), slots[sc] = 0, closing' = closing
      PROVE  /\ \A f \in DOMAIN feeds : feeds'[f] = feeds[f] /\ f # created + 1
             /\ feeds'[created + 1].scope = sc /\ feeds'[created + 1].state = "reserved"
             /\ slots'[sc] = created + 1
             /\ \A f \in DOMAIN feeds : InMap(f) => slots'[feeds[f].scope] = f
  <2>1. /\ created + 1 \notin DOMAIN feeds /\ \A f \in DOMAIN feeds : feeds'[f] = feeds[f]
        /\ feeds'[created + 1] = NewFeed(sc, n) /\ slots' = [slots EXCEPT ![sc] = created + 1]
    BY <1>3 DEF Reserved
  <2>2. feeds'[created + 1].scope = sc /\ feeds'[created + 1].state = "reserved"
    BY <2>1 DEF NewFeed
  <2>3. slots'[sc] = created + 1 /\ \A x \in Scopes \ {sc} : slots'[x] = slots[x]
    BY <1>1, <2>1, Typing
  <2> QED BY <1>1, <1>3, <2>1, <2>2, <2>3 DEF InMap
<1>4. ASSUME NEW s \in Subscribers, NEW sc \in Scopes, Subscribe(s, sc)
      PROVE  Creators'
  <2>1. PICK g \in Sub :
          /\ SubIs(s, g)
          /\ \/ g.pc = "refused" /\ UNCHANGED <<feeds, slots>>
             \/ /\ slots[sc] # 0 /\ g.pc \in {"held", "waiting"} /\ UNCHANGED slots
                /\ \E h \in Feed : FeedIs(slots[sc], h) /\ AsBefore(h, feeds[slots[sc]])
             \/ /\ Reserved(sc, 1) /\ slots[sc] = 0 /\ g.feed = created + 1
                /\ g.pc = "creating" => sc # Zero
    BY <1>1, <1>4, SubscribeEffect
  <2>2. closing' = closing
    BY <1>1, <1>4, SubscribeEffect
  <2>3. CASE g.pc = "refused" /\ UNCHANGED <<feeds, slots>>
    BY <1>1, <2>1, <2>2, <2>3, CreatorsOne DEF InMap
  <2>4. CASE /\ slots[sc] # 0 /\ g.pc \in {"held", "waiting"} /\ UNCHANGED slots
             /\ \E h \in Feed : FeedIs(slots[sc], h) /\ AsBefore(h, feeds[slots[sc]])
    <3>1. slots[sc] \in DOMAIN feeds
      BY <1>1, <2>4 DEF Shape
    <3> QED BY <1>1, <2>1, <2>2, <2>4, <3>1, CreatorsOne DEF AsBefore, InMap
  <2>5. CASE /\ Reserved(sc, 1) /\ slots[sc] = 0 /\ g.feed = created + 1
             /\ g.pc = "creating" => sc # Zero
    <3>1. /\ \A f \in DOMAIN feeds : feeds'[f] = feeds[f] /\ f # created + 1
          /\ feeds'[created + 1].scope = sc /\ feeds'[created + 1].state = "reserved"
          /\ slots'[sc] = created + 1
          /\ \A f \in DOMAIN feeds : InMap(f) => slots'[feeds[f].scope] = f
      BY <1>3, <2>2, <2>5
    <3>2. /\ subs'[s] = g /\ \A u \in Subscribers \ {s} : subs'[u] = subs[u]
      BY <1>1, <2>1, OneSub
    <3> SUFFICES ASSUME NEW u \in Subscribers, subs'[u].pc = "creating"
                 PROVE  /\ feeds'[subs'[u].feed].scope # Zero /\ feeds'[subs'[u].feed].state # "live"
                        /\ closing = "open" => slots'[feeds'[subs'[u].feed].scope] = subs'[u].feed
                        /\ \A c \in Subscribers :
                             subs'[c].pc = "creating" /\ subs'[c].feed = subs'[u].feed => c = u
      BY <2>2 DEF Creators, Tenant, InMap
    <3>3. CASE u = s
      <4>1. \A c \in Subscribers \ {s} : subs[c].pc = "creating" => subs[c].feed # created + 1
        BY <1>2, <3>1
      <4> QED BY <2>5, <3>1, <3>2, <3>3, <4>1
    <3>4. CASE u # s
      <4>1. subs'[u] = subs[u] /\ subs[u].pc = "creating" /\ subs[u].feed \in DOMAIN feeds
        BY <1>2, <3>2, <3>4
      <4>2. /\ feeds[subs[u].feed].scope # Zero /\ feeds[subs[u].feed].state # "live"
            /\ closing = "open" => InMap(subs[u].feed)
            /\ \A c \in Subscribers : subs[c].pc = "creating" /\ subs[c].feed = subs[u].feed => c = u
        BY <1>1, <4>1 DEF Creators, Tenant
      <4>3. subs[u].feed # created + 1
        BY <3>1, <4>1
      <4> QED BY <2>5, <3>1, <3>2, <3>4, <4>1, <4>2, <4>3
    <3> QED BY <3>3, <3>4
  <2> QED BY <2>1, <2>3, <2>4, <2>5
<1>5. ASSUME NEW s \in Subscribers, NEW inside \in BOOLEAN, Teardown(s, inside)
      PROVE  Creators'
  <2>1. /\ subs[s].feed \in DOMAIN feeds /\ UNCHANGED <<slots, closing>>
        /\ \E g \in Sub : SubIs(s, g) /\ g.pc = "release"
    BY <1>1, <1>5, TeardownEffect
  <2>2. \E h \in Feed : FeedIs(subs[s].feed, h) /\ AsBefore(h, feeds[subs[s].feed])
    BY <1>1, <1>5, TeardownEffect
  <2> QED BY <1>1, <2>1, <2>2, CreatorsOne DEF AsBefore, InMap
<1>6. ASSUME NEW s \in Subscribers, Create(s) \/ CreateFails(s)
      PROVE  Creators'
  <2> DEFINE f == subs[s].feed
  <2>1. subs[s].pc = "creating" /\ f \in DOMAIN feeds /\ closing' = closing
    BY <1>1, <1>6, CreateEffect
  <2>2. \/ FailLocked(f) /\ \E g \in Sub : SubIs(s, g) /\ g.pc = "refused"
        \/ /\ PublishFeed(f) /\ Publishable(f)
           /\ \E g \in Sub : SubIs(s, g) /\ g.pc = "held"
    BY <1>1, <1>6, CreateEffect
  <2>3. \E h \in Feed : FeedIs(f, h) /\ h.scope = feeds[f].scope
    BY <1>1, <2>1, <2>2, FailEffect, PublishEffect
  <2>4. \A sc \in Scopes : slots'[sc] = slots[sc] \/ slots[sc] = f
    BY <1>1, <2>1, <2>2, FailEffect, PublishEffect
  <2>5. \A u \in Subscribers \ {s} : subs[u].pc = "creating" /\ InMap(subs[u].feed) =>
          slots'[feeds[subs[u].feed].scope] = subs[u].feed
    <3> SUFFICES ASSUME NEW u \in Subscribers \ {s}, subs[u].pc = "creating", InMap(subs[u].feed)
                 PROVE  slots'[feeds[subs[u].feed].scope] = subs[u].feed
      OBVIOUS
    <3>1. subs[u].feed # f
      BY <1>1, <2>1 DEF Creators
    <3> QED BY <1>1, <1>2, <2>4, <3>1 DEF InMap
  <2> QED BY <1>1, <2>1, <2>2, <2>3, <2>5, CreatorsOne
<1>7. ASSUME NEW s \in Subscribers, AwaitFeed(s) \/ GiveUp(s)
      PROVE  Creators'
  <2>1. UNCHANGED <<feeds, slots, closing>>
        /\ \E g \in Sub : SubIs(s, g) /\ g.pc \in {"release", "held"}
    BY <1>1, <1>7, AwaitEffect
  <2> QED BY <1>1, <2>1, CreatorsOne DEF InMap
<1>8. ASSUME NEW s \in Subscribers, Join(s)
      PROVE  Creators'
  <2>1. /\ subs[s].feed \in DOMAIN feeds /\ UNCHANGED <<slots, closing>>
        /\ \E g \in Sub : SubIs(s, g) /\ g.pc = "joining"
    BY <1>1, <1>8, JoinEffect
  <2>2. \E h \in Feed : FeedIs(subs[s].feed, h) /\ AsBefore(h, feeds[subs[s].feed])
    BY <1>1, <1>8, JoinEffect
  <2> QED BY <1>1, <2>1, <2>2, CreatorsOne DEF AsBefore, InMap
<1>9. ASSUME NEW s \in Subscribers, DeliverJoining(s)
      PROVE  Creators'
  <2>1. UNCHANGED <<feeds, slots, closing>> /\ \E g \in Sub : SubIs(s, g) /\ g.pc = "active"
    BY <1>1, <1>9, DeliverEffect
  <2> QED BY <1>1, <2>1, CreatorsOne DEF InMap
<1>10. ASSUME NEW s \in Subscribers, ReleaseFeed(s)
       PROVE  Creators'
  <2>1. PICK f \in DOMAIN feeds : f = subs[s].feed
    BY <1>1, <1>10, ReleaseEffect
  <2>2. s \in Holders(f) /\ closing' = closing /\ subs[s].pc = "release"
    BY <1>1, <1>10, <2>1, ReleaseEffect
  <2>3. PICK g \in Sub : SubIs(s, g) /\ g.pc \in {"signal", "gone", "refused"}
    BY <1>1, <1>10, ReleaseEffect
  <2>4. \E h \in Feed : FeedIs(f, h) /\ AsBefore(h, feeds[f])
    BY <1>1, <1>10, <2>1, ReleaseEffect
  <2>5. \/ UNCHANGED slots
        \/ LastToLeave(f) /\ slots' = [slots EXCEPT ![feeds[f].scope] = 0]
    BY <1>1, <1>10, <2>1, ReleaseEffect
  <2>6. ASSUME NEW u \in Subscribers \ {s}, subs[u].pc = "creating", InMap(subs[u].feed)
        PROVE  slots'[feeds[subs[u].feed].scope] = subs[u].feed
    <3>1. CASE UNCHANGED slots
      BY <2>6, <3>1 DEF InMap
    <3>2. CASE LastToLeave(f) /\ slots' = [slots EXCEPT ![feeds[f].scope] = 0]
      <4>1. subs[u].feed # f
        <5>1. subs[u].feed = f => u \in Holders(f)
          BY <2>6 DEF Holders, Holding
        <5> QED BY <1>1, <2>2, <2>6, <3>2, <5>1, LastAlone
      <4>2. feeds[subs[u].feed].scope # feeds[f].scope
        BY <2>6, <3>2, <4>1 DEF InMap, LastToLeave
      <4> QED BY <1>1, <1>2, <2>6, <3>2, <4>2, Typing DEF InMap
    <3> QED BY <2>5, <3>1, <3>2
  <2> QED BY <1>1, <2>2, <2>3, <2>4, <2>6, CreatorsOne DEF AsBefore
<1>11. ASSUME NEW s \in Subscribers, StopFeed(s) \/ StopFeedReturns(s)
       PROVE  Creators'
  <2> DEFINE f == subs[s].feed
  <2>1. f \in DOMAIN feeds /\ UNCHANGED <<slots, closing>>
        /\ \E g \in Sub : SubIs(s, g) /\ g.pc \in {"stopping", "gone", "refused"}
    BY <1>1, <1>11, StopEffect
  <2>2. \/ UNCHANGED feeds
        \/ \E h \in Feed : FeedIs(f, h) /\ h.scope = feeds[f].scope /\ h.state = feeds[f].state
    BY <1>1, <1>11, StopEffect, ZenonT(40)
  <2> QED BY <1>1, <2>1, <2>2, CreatorsOne DEF InMap
<1>12. ASSUME NEW f \in DOMAIN feeds, ReaderStep(f)
       PROVE  Creators'
  <2>1. UNCHANGED <<subs, slots, closing>> /\ FeedsKept
    BY <1>1, <1>12, ReaderFrame
  <2> QED BY <1>1, <1>2, <2>1, CreatorsFrame DEF FeedsKept, InMap
<1>13. ASSUME Start \/ StartFails \/ StartPublishes
       PROVE  Creators'
  <2>1. UNCHANGED <<subs, closing>>
    BY <1>1, <1>13, StartEffect
  <2>2. ASSUME NEW f \in DOMAIN feeds, ~Tenant(f), NEW h \in Feed, FeedIs(f, h),
               h.scope = feeds[f].scope,
               \A sc \in Scopes : slots'[sc] = slots[sc] \/ slots[sc] = f
        PROVE  Creators'
    <3>1. feeds'[f] = h /\ \A x \in DOMAIN feeds \ {f} : feeds'[x] = feeds[x]
      BY <1>1, <2>2, OneChanges
    <3>2. \A u \in Subscribers : subs[u].pc = "creating" => subs[u].feed # f
      BY <1>1, <2>2 DEF Creators
    <3>3. \A u \in Subscribers : subs[u].pc = "creating" /\ InMap(subs[u].feed) =>
            slots'[feeds[subs[u].feed].scope] = subs[u].feed
      BY <1>1, <1>2, <2>2, <3>2 DEF InMap
    <3> QED BY <1>1, <1>2, <2>1, <2>2, <3>1, <3>2, <3>3, CreatorsFrame
  <2>3. starting # 0 => starting \in DOMAIN feeds /\ ~Tenant(starting)
    BY <1>1 DEF Shape
  <2>4. Zero \in Scopes /\ slots[Zero] # 0 => slots[Zero] \in DOMAIN feeds /\ ~Tenant(slots[Zero])
    BY <1>1 DEF Shape, Tenant
  <2>5. \/ Zero \in Scopes /\ slots[Zero] = 0 /\ Reserved(Zero, 0)
        \/ /\ Zero \in Scopes /\ slots[Zero] # 0 /\ UNCHANGED slots
           /\ \E h \in Feed : FeedIs(slots[Zero], h) /\ h.scope = feeds[slots[Zero]].scope
        \/ starting # 0 /\ FailLocked(starting)
        \/ starting # 0 /\ PublishFeed(starting) /\ Publishable(starting)
    BY <1>1, <1>13, StartEffect
  <2>6. \/ Zero \in Scopes /\ slots[Zero] = 0 /\ Reserved(Zero, 0)
        \/ \E f \in DOMAIN feeds : /\ ~Tenant(f)
                                   /\ \E h \in Feed : FeedIs(f, h) /\ h.scope = feeds[f].scope
                                   /\ \A sc \in Scopes : slots'[sc] = slots[sc] \/ slots[sc] = f
    BY <1>1, <2>3, <2>4, <2>5, FailEffect, PublishEffect
  <2>7. CASE Zero \in Scopes /\ slots[Zero] = 0 /\ Reserved(Zero, 0)
    <3>1. /\ \A f \in DOMAIN feeds : feeds'[f] = feeds[f]
          /\ \A f \in DOMAIN feeds : InMap(f) => slots'[feeds[f].scope] = f
      BY <1>3, <2>1, <2>7
    <3> QED BY <1>1, <1>2, <2>1, <3>1, CreatorsFrame
  <2> QED BY <2>2, <2>6, <2>7
<1>14. ASSUME StopFeeds \/ (\E f \in toSignal : SignalFeed(f)) \/ CloseReturns
       PROVE  Creators'
  <2>1. UNCHANGED subs /\ closing' # "open" /\ \A f \in DOMAIN feeds :
          feeds'[f].scope = feeds[f].scope /\ (feeds'[f].state = "live" => feeds[f].state = "live")
    BY <1>1, <1>14, CloseEffect
  <2> QED BY <1>1, <1>2, <2>1, CreatorsFrame
<1>15. CASE UNCHANGED vars
  BY <1>1, <1>15 DEF Creators, vars, Tenant, InMap
<1> QED BY <1>4, <1>5, <1>6, <1>7, <1>8, <1>9, <1>10, <1>11, <1>12, <1>13, <1>14, <1>15, NextCases

(* One more holder, and one more reference. *)
LEMMA CountAdd ==
  ASSUME NEW H, NEW h \in Feed, NEW k \in Feed, Count(H, h), NEW s, s \notin H,
         k.refs = h.refs + 1, k.scope = h.scope, k.state = h.state
  PROVE  Count(H \cup {s}, k)
<1>1. IsFiniteSet(H \cup {s}) /\ Cardinality(H \cup {s}) = Cardinality(H) + 1
      /\ Cardinality(H) \in Nat
  BY FS_AddElement, FS_CardinalityType DEF Count
<1>2. h.refs \in Nat /\ k.refs \in Nat
  BY DEF Feed
<1> QED BY <1>1, <1>2 DEF Count

(* One holder fewer, with its reference or with the feed that failed. *)
LEMMA CountDrop ==
  ASSUME NEW H, NEW h \in Feed, NEW k \in Feed, Count(H, h), NEW s \in H, k.scope = h.scope,
         \/ k.refs = h.refs - 1 /\ k.state = h.state
         \/ k.refs = h.refs /\ k.state = "failed"
  PROVE  Count(H \ {s}, k)
<1>1. IsFiniteSet(H \ {s}) /\ Cardinality(H \ {s}) = Cardinality(H) - 1
      /\ Cardinality(H) \in Nat
  BY FS_RemoveElement, FS_CardinalityType DEF Count
<1>2. h.refs \in Nat /\ k.refs \in Nat
  BY DEF Feed
<1> QED BY <1>1, <1>2 DEF Count

(* The same holders and references, and no failure undone. *)
LEMMA CountKept ==
  ASSUME NEW H, NEW h, NEW k, Count(H, h), k.refs = h.refs, k.scope = h.scope,
         h.scope = Zero \/ k.state = "failed" \/ h.state # "failed"
  PROVE  Count(H, k)
BY DEF Count

(* Who holds f when one call has moved. *)
LEMMA HoldersMove ==
  ASSUME subs \in [Subscribers -> Sub], NEW s \in Subscribers, NEW g \in Sub, SubIs(s, g), NEW f
  PROVE  Holders(f)' = IF g.pc \in Holding /\ g.feed = f THEN Holders(f) \cup {s}
                                                         ELSE Holders(f) \ {s}
<1>1. subs'[s] = g /\ \A u \in Subscribers \ {s} : subs'[u] = subs[u]
  BY OneSub
<1> QED BY <1>1 DEF Holders

(* A call that has moved holds what it held. *)
LEMMA HoldersStay ==
  ASSUME subs \in [Subscribers -> Sub], NEW s \in Subscribers, NEW g \in Sub, SubIs(s, g), NEW f,
         g.pc \in Holding <=> subs[s].pc \in Holding,
         g.pc \in Holding => g.feed = subs[s].feed
  PROVE  Holders(f)' = Holders(f)
<1>1. g.pc \in Holding /\ g.feed = f <=> s \in Holders(f)
  BY DEF Holders
<1>2. CASE s \in Holders(f)
  BY <1>1, <1>2, HoldersMove
<1>3. CASE s \notin Holders(f)
  BY <1>1, <1>3, HoldersMove
<1> QED BY <1>2, <1>3

(* A step that leaves the holders and the counts alone. *)
LEMMA CountedFrame ==
  ASSUME Core, Counted, DOMAIN feeds' = DOMAIN feeds,
         \A f \in DOMAIN feeds :
           /\ Holders(f)' = Holders(f) /\ feeds'[f].refs = feeds[f].refs
           /\ feeds'[f].scope = feeds[f].scope
           /\ ~Tenant(f) \/ feeds'[f].state = "failed" \/ feeds[f].state # "failed"
  PROVE  Counted'
BY CountKept DEF Counted, Tenant

(* A step that changes the holders and the count of one feed. *)
LEMMA CountedOne ==
  ASSUME Core, Counted, NEW f \in DOMAIN feeds, NEW h \in Feed, FeedIs(f, h),
         NEW s \in Subscribers, NEW g \in Sub, SubIs(s, g), Count(Holders(f)', h),
         \A x \in DOMAIN feeds \ {f} : /\ ~(g.pc \in Holding /\ g.feed = x)
                                       /\ ~(subs[s].pc \in Holding /\ subs[s].feed = x)
  PROVE  Counted'
<1>1. DOMAIN feeds' = DOMAIN feeds /\ feeds'[f] = h /\ \A x \in DOMAIN feeds \ {f} : feeds'[x] = feeds[x]
  BY OneChanges DEF Core
<1>2. ASSUME NEW x \in DOMAIN feeds \ {f} PROVE Holders(x)' = Holders(x)
  <2>1. Holders(x)' = Holders(x) \ {s}
    BY HoldersMove, Typing DEF Core
  <2>2. s \notin Holders(x)
    BY DEF Holders
  <2> QED BY <2>1, <2>2
<1> QED BY <1>1, <1>2 DEF Counted

(* A feed that a step reserves, with its first holder if it has one. *)
LEMMA CountedReserve ==
  ASSUME Core, Counted, NEW sc \in Scopes, NEW n \in Nat, Reserved(sc, n),
         \/ UNCHANGED subs /\ n = 0
         \/ \E s \in Subscribers : \E g \in Sub :
              /\ SubIs(s, g) /\ g.feed = created + 1 /\ g.pc \in Holding
              /\ subs[s].pc \notin Holding /\ n = 1
  PROVE  Counted'
<1>0. PICK new \in Feeds : new = created + 1
  BY DEF Reserved
<1>1. /\ new \notin DOMAIN feeds /\ DOMAIN feeds' = DOMAIN feeds \cup {new}
      /\ \A f \in DOMAIN feeds : feeds'[f] = feeds[f]
  BY <1>0 DEF Reserved
<1>2. feeds'[new].refs = n
  <2>1. feeds'[new] = NewFeed(sc, n)
    BY <1>0 DEF Reserved
  <2> QED BY <2>1 DEF NewFeed
<1>3. Holders(new) = {}
  BY <1>1 DEF Core, Shape, Holders
<1>4. CASE UNCHANGED subs /\ n = 0
  <2>1. ASSUME NEW f PROVE Holders(f)' = Holders(f)
    BY <1>4 DEF Holders
  <2>2. Count({}, feeds'[new])
    BY <1>2, <1>4, FS_EmptySet DEF Count
  <2>3. ASSUME NEW f \in DOMAIN feeds' PROVE Count(Holders(f)', feeds'[f])
    <3>1. CASE f = new
      BY <1>3, <2>1, <2>2, <3>1
    <3>2. CASE f # new
      BY <1>1, <2>1, <3>2 DEF Counted
    <3> QED BY <3>1, <3>2
  <2> QED BY <2>3 DEF Counted
<1>5. ASSUME NEW s \in Subscribers, NEW g \in Sub, SubIs(s, g), g.feed = new, g.pc \in Holding,
             subs[s].pc \notin Holding, n = 1
      PROVE  Counted'
  <2>1. Holders(new)' = {s}
    BY <1>3, <1>5, HoldersMove, Typing DEF Core
  <2>2. Count({s}, feeds'[new])
    <3>1. IsFiniteSet({s}) /\ Cardinality({s}) = 1
      BY FS_Singleton
    <3> QED BY <1>2, <1>5, <3>1 DEF Count
  <2>3. ASSUME NEW f \in DOMAIN feeds' PROVE Count(Holders(f)', feeds'[f])
    <3>1. CASE f = new
      BY <2>1, <2>2, <3>1
    <3>2. CASE f # new
      <4>1. Holders(f)' = Holders(f) \ {s}
        BY <1>5, <3>2, HoldersMove, Typing DEF Core
      <4>2. s \notin Holders(f)
        BY <1>5 DEF Holders
      <4>3. Holders(f)' = Holders(f)
        BY <4>1, <4>2
      <4> QED BY <1>1, <3>2, <4>3 DEF Counted
    <3> QED BY <3>1, <3>2
  <2> QED BY <2>3 DEF Counted
<1> QED BY <1>0, <1>4, <1>5

(* Every step keeps the count. *)
LEMMA CountedKept ==
  ASSUME Types, [Next]_vars
  PROVE  Counted'
<1>1. /\ Core /\ TypeOK /\ Shape /\ Reading /\ Counted /\ Creators
      /\ subs \in [Subscribers -> Sub] /\ DOMAIN feeds \subseteq Feeds
      /\ DOMAIN feeds = 1 .. created /\ feeds \in [1 .. created -> Feed]
  BY Typing DEF Types, Core
<1>2. ASSUME NEW s \in Subscribers, NEW g \in Sub, SubIs(s, g),
             g.pc \in Holding <=> subs[s].pc \in Holding,
             g.pc \in Holding => g.feed = subs[s].feed,
             \/ UNCHANGED feeds
             \/ \E f \in DOMAIN feeds : \E h \in Feed :
                  /\ FeedIs(f, h) /\ h.scope = feeds[f].scope /\ h.refs = feeds[f].refs
                  /\ ~Tenant(f) \/ h.state = "failed" \/ feeds[f].state # "failed"
      PROVE  Counted'
  <2>1. ASSUME NEW f PROVE Holders(f)' = Holders(f)
    BY <1>1, <1>2, HoldersStay
  <2>2. CASE UNCHANGED feeds
    BY <1>1, <2>1, <2>2, CountedFrame
  <2>3. CASE \E f \in DOMAIN feeds : \E h \in Feed :
               /\ FeedIs(f, h) /\ h.scope = feeds[f].scope /\ h.refs = feeds[f].refs
               /\ ~Tenant(f) \/ h.state = "failed" \/ feeds[f].state # "failed"
    <3>1. PICK f \in DOMAIN feeds, h \in Feed :
            /\ FeedIs(f, h) /\ h.scope = feeds[f].scope /\ h.refs = feeds[f].refs
            /\ ~Tenant(f) \/ h.state = "failed" \/ feeds[f].state # "failed"
      BY <2>3
    <3>2. DOMAIN feeds' = DOMAIN feeds /\ feeds'[f] = h
          /\ \A x \in DOMAIN feeds \ {f} : feeds'[x] = feeds[x]
      BY <1>1, <3>1, OneChanges
    <3> QED BY <1>1, <2>1, <3>1, <3>2, CountedFrame
  <2> QED BY <1>2, <2>2, <2>3
<1>3. ASSUME NEW s \in Subscribers, NEW sc \in Scopes, Subscribe(s, sc)
      PROVE  Counted'
  <2>1. subs[s].pc = "idle" /\ subs[s].pc \notin Holding
    BY <1>1, <1>3, SubscribeEffect DEF Holding
  <2>2. PICK g \in Sub :
          /\ SubIs(s, g)
          /\ \/ g.pc = "refused" /\ UNCHANGED feeds
             \/ /\ slots[sc] # 0 /\ g.feed = slots[sc] /\ g.pc \in {"held", "waiting"}
                /\ \E h \in Feed : /\ FeedIs(slots[sc], h) /\ AsBefore(h, feeds[slots[sc]])
                                   /\ h.refs = feeds[slots[sc]].refs + 1
             \/ Reserved(sc, 1) /\ g.feed = created + 1 /\ g.pc \in {"held", "creating"}
    BY <1>1, <1>3, SubscribeEffect
  <2>3. CASE g.pc = "refused" /\ UNCHANGED feeds
    BY <1>2, <2>1, <2>2, <2>3 DEF Holding
  <2>4. CASE /\ slots[sc] # 0 /\ g.feed = slots[sc] /\ g.pc \in {"held", "waiting"}
             /\ \E h \in Feed : /\ FeedIs(slots[sc], h) /\ AsBefore(h, feeds[slots[sc]])
                                 /\ h.refs = feeds[slots[sc]].refs + 1
    <3>1. PICK f \in DOMAIN feeds : f = slots[sc]
      BY <1>1, <2>4 DEF Shape
    <3>2. PICK h \in Feed : FeedIs(f, h) /\ AsBefore(h, feeds[f]) /\ h.refs = feeds[f].refs + 1
      BY <2>4, <3>1
    <3>3. g.pc \in Holding /\ g.feed = f /\ feeds[f] \in Feed
      BY <1>1, <2>4, <3>1 DEF Holding
    <3>4. s \notin Holders(f) /\ Count(Holders(f), feeds[f])
      BY <1>1, <2>1, <3>1 DEF Holders, Counted
    <3>5. Count(Holders(f) \cup {s}, h)
      BY <3>2, <3>3, <3>4, CountAdd DEF AsBefore
    <3>6. Holders(f)' = Holders(f) \cup {s}
      BY <1>1, <2>2, <3>3, HoldersMove
    <3> QED BY <1>1, <2>1, <2>2, <3>1, <3>2, <3>3, <3>5, <3>6, CountedOne
  <2>5. CASE Reserved(sc, 1) /\ g.feed = created + 1 /\ g.pc \in {"held", "creating"}
    BY <1>1, <2>1, <2>2, <2>5, CountedReserve DEF Holding
  <2> QED BY <2>2, <2>3, <2>4, <2>5
<1>4. ASSUME NEW s \in Subscribers, NEW inside \in BOOLEAN, Teardown(s, inside)
      PROVE  Counted'
  <2> DEFINE f == subs[s].feed
  <2>1. f \in DOMAIN feeds /\ subs[s].pc = "active"
    BY <1>1, <1>4, TeardownEffect
  <2>2. \E g \in Sub : SubIs(s, g) /\ g.pc = "release" /\ g.feed = f
    BY <1>1, <1>4, TeardownEffect
  <2>3. \E h \in Feed : FeedIs(f, h) /\ AsBefore(h, feeds[f]) /\ h.refs = feeds[f].refs
    BY <1>1, <1>4, TeardownEffect
  <2> QED BY <1>2, <2>1, <2>2, <2>3 DEF AsBefore, Holding
<1>5. ASSUME NEW s \in Subscribers, Create(s) \/ CreateFails(s)
      PROVE  Counted'
  <2>0. PICK f \in DOMAIN feeds : f = subs[s].feed
    BY <1>1, <1>5, CreateEffect
  <2>1. subs[s].pc = "creating" /\ feeds[f] \in Feed
    BY <1>1, <1>5, CreateEffect
  <2>2. CASE FailLocked(f) /\ \E g \in Sub : SubIs(s, g) /\ g.pc = "refused"
    <3>1. PICK g \in Sub : SubIs(s, g) /\ g.pc = "refused"
      BY <2>2
    <3>2. PICK h \in Feed : FeedIs(f, h) /\ h.state = "failed" /\ h.scope = feeds[f].scope
                            /\ h.refs = feeds[f].refs
      BY <1>1, <2>1, <2>2, FailEffect
    <3>3. s \in Holders(f) /\ Count(Holders(f), feeds[f])
      BY <1>1, <2>0, <2>1 DEF Holders, Holding, Counted
    <3>4. Count(Holders(f) \ {s}, h)
      BY <2>1, <3>2, <3>3, CountDrop
    <3>5. g.pc \notin Holding
      BY <3>1 DEF Holding
    <3>6. Holders(f)' = Holders(f) \ {s}
      BY <1>1, <3>1, <3>5, HoldersMove
    <3> QED BY <1>1, <2>0, <2>1, <3>1, <3>2, <3>4, <3>5, <3>6, CountedOne
  <2>3. CASE /\ PublishFeed(f) /\ Publishable(f)
             /\ \E g \in Sub : SubIs(s, g) /\ g.pc = "held" /\ g.feed = f
    <3>1. PICK h \in Feed : FeedIs(f, h) /\ h.state = "live" /\ h.scope = feeds[f].scope
                            /\ h.refs = feeds[f].refs
      BY <1>1, <2>1, <2>3, PublishEffect
    <3>2. closing = "open"
      BY <1>1, <2>1, <2>3, PublishEffect
    <3>3. feeds[f].state # "failed"
      <4>1. feeds[f].scope \in Scopes /\ feeds[f].scope # Zero /\ slots[feeds[f].scope] = f /\ f # 0
        BY <1>1, <2>0, <2>1, <3>2 DEF Creators, Tenant, InMap, Feed
      <4> QED BY <1>1, <4>1 DEF TypeOK
    <3> QED BY <1>2, <2>0, <2>1, <2>3, <3>1, <3>3 DEF Holding
  <2> QED BY <1>1, <1>5, <2>0, <2>2, <2>3, CreateEffect
<1>6. ASSUME NEW s \in Subscribers, AwaitFeed(s) \/ GiveUp(s)
      PROVE  Counted'
  <2>1. UNCHANGED feeds /\ subs[s].pc = "waiting"
        /\ \E g \in Sub : SubIs(s, g) /\ g.pc \in {"release", "held"} /\ g.feed = subs[s].feed
    BY <1>1, <1>6, AwaitEffect
  <2> QED BY <1>2, <2>1 DEF Holding
<1>7. ASSUME NEW s \in Subscribers, Join(s)
      PROVE  Counted'
  <2> DEFINE f == subs[s].feed
  <2>1. f \in DOMAIN feeds /\ subs[s].pc = "held"
    BY <1>1, <1>7, JoinEffect
  <2>2. \E g \in Sub : SubIs(s, g) /\ g.pc = "joining" /\ g.feed = f
    BY <1>1, <1>7, JoinEffect
  <2>3. \E h \in Feed : FeedIs(f, h) /\ AsBefore(h, feeds[f]) /\ h.refs = feeds[f].refs
    BY <1>1, <1>7, JoinEffect
  <2> QED BY <1>2, <2>1, <2>2, <2>3 DEF AsBefore, Holding
<1>8. ASSUME NEW s \in Subscribers, DeliverJoining(s)
      PROVE  Counted'
  <2>1. UNCHANGED feeds /\ subs[s].pc = "joining"
        /\ \E g \in Sub : SubIs(s, g) /\ g.pc = "active" /\ g.feed = subs[s].feed
    BY <1>1, <1>8, DeliverEffect
  <2> QED BY <1>2, <2>1 DEF Holding
<1>9. ASSUME NEW s \in Subscribers, ReleaseFeed(s)
      PROVE  Counted'
  <2>0. PICK f \in DOMAIN feeds : f = subs[s].feed
    BY <1>1, <1>9, ReleaseEffect
  <2>1. feeds[f] \in Feed /\ s \in Holders(f)
    BY <1>1, <1>9, <2>0, ReleaseEffect
  <2>2. PICK g \in Sub : SubIs(s, g) /\ g.pc \in {"signal", "gone", "refused"}
    BY <1>1, <1>9, ReleaseEffect
  <2>3. PICK h \in Feed : FeedIs(f, h) /\ AsBefore(h, feeds[f]) /\ h.refs = feeds[f].refs - 1
    BY <1>1, <1>9, <2>0, ReleaseEffect
  <2>4. Count(Holders(f), feeds[f])
    BY <1>1, <2>1 DEF Counted
  <2>5. Count(Holders(f) \ {s}, h)
    BY <2>1, <2>3, <2>4, CountDrop DEF AsBefore
  <2>6. g.pc \notin Holding
    BY <2>2 DEF Holding
  <2>7. Holders(f)' = Holders(f) \ {s}
    BY <1>1, <2>2, <2>6, HoldersMove
  <2> QED BY <1>1, <2>0, <2>1, <2>2, <2>3, <2>5, <2>6, <2>7, CountedOne
<1>10. ASSUME NEW s \in Subscribers, StopFeed(s) \/ StopFeedReturns(s)
       PROVE  Counted'
  <2> DEFINE f == subs[s].feed
  <2>1. f \in DOMAIN feeds /\ subs[s].pc \in {"signal", "stopping"}
        /\ \E g \in Sub : SubIs(s, g) /\ g.pc \in {"stopping", "gone", "refused"}
    BY <1>1, <1>10, StopEffect
  <2>2. \/ UNCHANGED feeds
        \/ \E h \in Feed : /\ FeedIs(f, h) /\ h.scope = feeds[f].scope /\ h.state = feeds[f].state
                           /\ h.refs = feeds[f].refs
    BY <1>1, <1>10, StopEffect, ZenonT(40)
  <2> QED BY <1>2, <2>1, <2>2 DEF Holding
<1>11. ASSUME UNCHANGED subs, DOMAIN feeds' = DOMAIN feeds,
              \A f \in DOMAIN feeds :
                /\ feeds'[f].scope = feeds[f].scope /\ feeds'[f].refs = feeds[f].refs
                /\ ~Tenant(f) \/ feeds'[f].state = "failed" \/ feeds[f].state # "failed"
       PROVE  Counted'
  <2>1. ASSUME NEW f PROVE Holders(f)' = Holders(f)
    BY <1>11 DEF Holders
  <2> QED BY <1>1, <1>11, <2>1, CountedFrame
<1>12. ASSUME NEW f \in DOMAIN feeds, ReaderStep(f)
       PROVE  Counted'
  <2>1. UNCHANGED subs /\ FeedsKept
    BY <1>1, <1>12, ReaderFrame
  <2> QED BY <1>1, <1>11, <2>1 DEF FeedsKept
<1>13. ASSUME Start \/ StartFails \/ StartPublishes
       PROVE  Counted'
  <2>1. UNCHANGED subs
    BY <1>1, <1>13, StartEffect
  <2>2. ASSUME NEW f \in DOMAIN feeds, ~Tenant(f), NEW h \in Feed, FeedIs(f, h),
               h.scope = feeds[f].scope, h.refs = feeds[f].refs
        PROVE  Counted'
    <3>1. DOMAIN feeds' = DOMAIN feeds /\ feeds'[f] = h
          /\ \A x \in DOMAIN feeds \ {f} : feeds'[x] = feeds[x]
      BY <1>1, <2>2, OneChanges
    <3>2. \A x \in DOMAIN feeds :
            /\ feeds'[x].scope = feeds[x].scope /\ feeds'[x].refs = feeds[x].refs
            /\ ~Tenant(x) \/ feeds'[x].state = "failed" \/ feeds[x].state # "failed"
      BY <2>2, <3>1
    <3> QED BY <1>11, <2>1, <3>1, <3>2
  <2>3. starting # 0 => starting \in DOMAIN feeds /\ ~Tenant(starting)
    BY <1>1 DEF Shape
  <2>4. Zero \in Scopes /\ slots[Zero] # 0 => slots[Zero] \in DOMAIN feeds /\ ~Tenant(slots[Zero])
    BY <1>1 DEF Shape, Tenant
  <2>5. \/ Zero \in Scopes /\ Reserved(Zero, 0)
        \/ /\ Zero \in Scopes /\ slots[Zero] # 0
           /\ \E h \in Feed : /\ FeedIs(slots[Zero], h) /\ h.scope = feeds[slots[Zero]].scope
                              /\ h.refs = feeds[slots[Zero]].refs
        \/ starting # 0 /\ FailLocked(starting)
        \/ starting # 0 /\ PublishFeed(starting) /\ Publishable(starting)
    BY <1>1, <1>13, StartEffect
  <2>6. \/ Zero \in Scopes /\ Reserved(Zero, 0)
        \/ \E f \in DOMAIN feeds : ~Tenant(f) /\ \E h \in Feed :
             FeedIs(f, h) /\ h.scope = feeds[f].scope /\ h.refs = feeds[f].refs
    BY <1>1, <2>3, <2>4, <2>5, FailEffect, PublishEffect
  <2>7. CASE Zero \in Scopes /\ Reserved(Zero, 0)
    BY <1>1, <2>1, <2>7, CountedReserve
  <2> QED BY <2>2, <2>6, <2>7
<1>14. ASSUME StopFeeds \/ (\E f \in toSignal : SignalFeed(f)) \/ CloseReturns
       PROVE  Counted'
  <2>1. UNCHANGED subs /\ DOMAIN feeds' = DOMAIN feeds /\ \A f \in DOMAIN feeds :
          /\ feeds'[f].scope = feeds[f].scope /\ feeds'[f].refs = feeds[f].refs
          /\ feeds'[f].state = "failed" \/ feeds'[f].state = feeds[f].state
    BY <1>1, <1>14, CloseEffect
  <2> QED BY <1>11, <2>1
<1>15. CASE UNCHANGED vars
  BY <1>1, <1>15 DEF Counted, vars, Holders
<1> QED BY <1>3, <1>4, <1>5, <1>6, <1>7, <1>8, <1>9, <1>10, <1>12, <1>13, <1>14, <1>15, NextCases

(* The initial state. *)
LEMMA InitTypes == Init => Types
<1> SUFFICES ASSUME Init PROVE Types
  OBVIOUS
<1>1. created = 0 /\ DOMAIN feeds = {} /\ 1 .. created = {} /\ feeds \in [1 .. created -> Feed]
  BY DEF Init
<1>2. NoReader \in Reader /\ NoReader.pc = "none" /\ NoReader.todo = {} /\ NoReader.in = Nobody
  BY DEF NoReader, Reader
<1>3. IdleSub \in Sub /\ IdleSub.pc = "idle"
  BY DEF IdleSub, Sub
<1>4. heard \in [op : [Subscribers -> {"none", "resync", "disconnect"}],
                 mark : [Subscribers -> BOOLEAN], key : [Subscribers -> BOOLEAN]]
  BY DEF Init, C!Init
<1>5. TypeOK
  BY <1>1, <1>2, <1>3, <1>4, BoundsAssumption DEF Init, TypeOK
<1>6. Shape
  BY <1>1, <1>2, <1>3 DEF Init, Shape, Holding
<1>7. Reading
  BY <1>2 DEF Init, Reading
<1>8. Creators /\ Counted
  BY <1>1, <1>3 DEF Init, Creators, Counted
<1> QED BY <1>5, <1>6, <1>7, <1>8 DEF Types, Core

(* The types, the creators and the counts hold throughout. *)
THEOREM TypesHold == Spec => []Types
<1>1. Types /\ [Next]_vars => Types'
  BY CoreKept, CreatorsKept, CountedKept DEF Types
<1> QED BY <1>1, InitTypes, PTL DEF Spec

(* Every variable of the feeds keeps its type, and a tenant's slot never   *)
(* names a feed that failed: failLocked takes it out of the map before it  *)
(* wakes the waiters.                                                      *)
THEOREM TypeCorrect == Spec => []TypeOK
<1>1. Types => TypeOK
  BY DEF Types, Core
<1> QED BY <1>1, TypesHold, PTL

-----------------------------------------------------------------------------
(* What any step does to one call, to one feed and to the map.             *)

(* A call is refused, or arrives at the feed of its scope. *)
Arrives(u) ==
  /\ closing = "open"
  /\ \E sc \in Scopes :
       /\ subs'[u].feed # 0 /\ slots'[sc] = subs'[u].feed
       /\ subs'[u].pc \in IF sc = Zero THEN {"held"} ELSE {"waiting", "creating"}

(* It goes on with the feed it has. *)
Advances(u) ==
  LET f == subs[u].feed IN
  /\ subs'[u].feed = f
  /\ \/ /\ subs[u].pc = "creating" /\ subs'[u].pc = "held"
        /\ feeds'[f].state = "live" /\ closing = "open" /\ UNCHANGED slots
     \/ subs[u].pc = "waiting" /\ subs'[u].pc = "release"
     \/ subs[u].pc = "waiting" /\ subs'[u].pc = "held" /\ feeds[f].state = "live"
     \/ subs[u].pc = "held" /\ subs'[u].pc = "joining"
     \/ subs[u].pc = "joining" /\ subs'[u].pc = "active"
     \/ subs[u].pc = "active" /\ subs'[u].pc = "release"
     \/ subs[u].pc = "release" /\ subs'[u].pc = "signal"
     \/ subs[u].pc = "signal" /\ subs'[u].pc = "stopping" /\ feeds'[f].closing

(* It is over. *)
Ends(u) ==
  LET f == subs[u].feed IN
  /\ subs'[u].pc \in {"gone", "refused"}
  /\ \/ subs[u].pc \in {"idle", "stopping"}
     \/ subs[u].pc = "creating" /\ feeds'[f].state = "failed"
     \/ subs[u].pc = "release" /\ ~LastToLeave(f)
     \/ subs[u].pc = "signal" /\ feeds'[f].closing

SubStep(u) ==
  subs'[u] = subs[u] \/ (subs[u].pc = "idle" /\ Arrives(u)) \/ Advances(u) \/ Ends(u)

(* A feed is published, fails or is tried again. *)
StateStep(f) ==
  \/ feeds'[f].state = feeds[f].state
  \/ /\ feeds'[f].state = "live" /\ closing = "open" /\ closing' = "open" /\ UNCHANGED slots
     /\ \/ f = starting
        \/ \E c \in Subscribers : /\ subs[c].pc = "creating" /\ subs[c].feed = f
                                  /\ subs'[c].pc = "held" /\ subs'[c].feed = f
  \/ feeds'[f].state \in {"failed", "reserved"} /\ ~Tenant(f) /\ feeds[f].state # "live"
  \/ feeds'[f].state = "failed" /\ feeds[f].state # "live"

(* It leaves the map with its creator, with its last holder or for Close. *)
MapStep(f) ==
  closing' = "open" /\ InMap(f) =>
    \/ slots'[feeds[f].scope] = f
    \/ /\ Tenant(f) /\ feeds'[f].state = "failed"
    \/ \E u \in Subscribers : /\ subs[u].pc = "release" /\ subs[u].feed = f /\ LastToLeave(f)
                              /\ subs'[u].pc = "signal" /\ subs'[u].feed = f

(* Close takes what is in the map. *)
ShutStep(f) ==
  /\ f \in toSignal /\ f \notin toSignal' => feeds'[f].closing
  /\ closing' = "open" => closing = "open"
  /\ closing = "open" /\ closing' # "open" /\ InMap(f) =>
       /\ feeds[f].state = "live" => f \in toSignal'
       /\ Tenant(f) => feeds'[f].state # "reserved"

FeedStep(f) ==
  /\ f \in DOMAIN feeds' /\ feeds'[f].scope = feeds[f].scope
  /\ feeds[f].closing => feeds'[f].closing
  /\ StateStep(f) /\ MapStep(f) /\ ShutStep(f)

(* A feed is new in its slot, a tenant's with its creator. *)
NewStep(f) ==
  /\ feeds'[f].state = "reserved" /\ closing' = "open" /\ slots'[feeds'[f].scope] = f
  /\ feeds'[f].scope # Zero =>
       \E c \in Subscribers : subs'[c].pc = "creating" /\ subs'[c].feed = f

(* The feed Start is at stays the one in the map. *)
StartingStep ==
  starting' # 0 => starting' = starting \/ (Zero \in Scopes /\ slots'[Zero] = starting')

OneMover ==
  \A u, v \in Subscribers : subs'[u] # subs[u] /\ subs'[v] # subs[v] => u = v

Steps ==
  /\ \A u \in Subscribers : SubStep(u)
  /\ \A f \in DOMAIN feeds : FeedStep(f)
  /\ \A f \in DOMAIN feeds' \ DOMAIN feeds : NewStep(f)
  /\ StartingStep /\ OneMover

(* A step of one call that keeps the map and the feeds' states. *)
LEMMA StepsOfCall ==
  ASSUME Types, UNCHANGED <<slots, starting, closing, toSignal>>, DOMAIN feeds' = DOMAIN feeds,
         \A f \in DOMAIN feeds : /\ feeds'[f].scope = feeds[f].scope
                                 /\ feeds'[f].state = feeds[f].state
                                 /\ feeds[f].closing => feeds'[f].closing,
         NEW s \in Subscribers, NEW g \in Sub, SubIs(s, g), SubStep(s)
  PROVE  Steps
<1>1. /\ subs'[s] = g /\ \A u \in Subscribers \ {s} : subs'[u] = subs[u]
  BY OneSub, Typing DEF Types, Core
<1>2. \A u \in Subscribers : SubStep(u)
  BY <1>1 DEF SubStep
<1>3. OneMover
  BY <1>1 DEF OneMover
<1>4. \A f \in DOMAIN feeds : FeedStep(f)
  BY DEF FeedStep, StateStep, MapStep, ShutStep, InMap
<1>5. StartingStep
  BY DEF StartingStep
<1> QED BY <1>2, <1>3, <1>4, <1>5 DEF Steps

(* A step that reserves a feed. *)
LEMMA StepsOfReserve ==
  ASSUME Types, NEW sc \in Scopes, NEW n \in Nat, Reserved(sc, n), slots[sc] = 0,
         closing = "open", UNCHANGED <<closing, toSignal>>,
         \/ UNCHANGED subs /\ sc = Zero /\ starting' = created + 1
         \/ /\ UNCHANGED starting
            /\ \E s \in Subscribers : \E g \in Sub :
                 /\ SubIs(s, g) /\ subs[s].pc = "idle" /\ g.feed = created + 1
                 /\ g.pc = IF sc = Zero THEN "held" ELSE "creating"
  PROVE  Steps
<1>1. /\ subs \in [Subscribers -> Sub] /\ slots \in [Scopes -> Feeds \cup {0}]
      /\ \A f \in DOMAIN feeds : feeds[f].scope \in Scopes /\ f # 0
  BY Typing DEF Types, Core, Feed
<1>2. PICK new \in Feeds : new = created + 1
  BY DEF Reserved
<1>3. /\ new # 0 /\ new \notin DOMAIN feeds /\ DOMAIN feeds' = DOMAIN feeds \cup {new}
      /\ feeds'[new] = NewFeed(sc, n) /\ slots' = [slots EXCEPT ![sc] = new]
      /\ \A f \in DOMAIN feeds : feeds'[f] = feeds[f]
  BY <1>2 DEF Reserved, Feeds
<1>4. slots'[sc] = new /\ \A x \in Scopes \ {sc} : slots'[x] = slots[x]
  BY <1>1, <1>3
<1>5. feeds'[new].scope = sc /\ feeds'[new].state = "reserved"
  BY <1>3 DEF NewFeed
<1>6. \A f \in DOMAIN feeds : FeedStep(f)
  <2> SUFFICES ASSUME NEW f \in DOMAIN feeds PROVE FeedStep(f)
    OBVIOUS
  <2>1. InMap(f) => slots'[feeds[f].scope] = f
    BY <1>1, <1>4 DEF InMap
  <2> QED BY <1>3, <2>1 DEF FeedStep, StateStep, MapStep, ShutStep
<1>7. CASE UNCHANGED subs /\ sc = Zero /\ starting' = created + 1
  <2>1. NewStep(new)
    BY <1>3, <1>4, <1>5, <1>7 DEF NewStep
  <2>2. StartingStep
    BY <1>2, <1>4, <1>7 DEF StartingStep
  <2> QED BY <1>3, <1>6, <1>7, <2>1, <2>2 DEF Steps, SubStep, OneMover
<1>8. ASSUME UNCHANGED starting, NEW s \in Subscribers, NEW g \in Sub, SubIs(s, g),
             subs[s].pc = "idle", g.feed = new, g.pc = IF sc = Zero THEN "held" ELSE "creating"
      PROVE  Steps
  <2>1. /\ subs'[s] = g /\ \A u \in Subscribers \ {s} : subs'[u] = subs[u]
    BY <1>1, <1>8, OneSub
  <2>2. SubStep(s)
    <3>1. g.pc \in IF sc = Zero THEN {"held"} ELSE {"waiting", "creating"}
      BY <1>8
    <3>2. Arrives(s)
      BY <1>3, <1>4, <1>8, <2>1, <3>1 DEF Arrives
    <3> QED BY <1>8, <3>2 DEF SubStep
  <2>3. NewStep(new)
    BY <1>4, <1>5, <1>8, <2>1 DEF NewStep
  <2>4. OneMover
    BY <2>1 DEF OneMover
  <2> QED BY <1>3, <1>6, <1>8, <2>1, <2>2, <2>3, <2>4 DEF Steps, SubStep, StartingStep
<1> QED BY <1>2, <1>7, <1>8

(* FailLocked or PublishFeed of a feed that is not live. *)
LEMMA StepsOfVerdict ==
  ASSUME Types, NEW f \in DOMAIN feeds, feeds[f].state # "live", UNCHANGED <<closing, toSignal>>,
         FailLocked(f) \/ (PublishFeed(f) /\ Publishable(f)),
         \/ UNCHANGED subs /\ f = starting /\ starting' = 0
         \/ /\ UNCHANGED starting
            /\ \E s \in Subscribers : \E g \in Sub :
                 /\ SubIs(s, g) /\ subs[s].pc = "creating" /\ subs[s].feed = f
                 /\ \/ FailLocked(f) /\ g.pc = "refused"
                    \/ PublishFeed(f) /\ Publishable(f) /\ g.pc = "held" /\ g.feed = f
  PROVE  Steps
<1>1. TypeOK /\ Shape /\ subs \in [Subscribers -> Sub]
  BY Typing DEF Types, Core
<1>2. FailLocked(f) => \E h \in Feed : /\ FeedIs(f, h) /\ h.state = "failed"
                                       /\ h.scope = feeds[f].scope /\ h.closing = feeds[f].closing
  BY <1>1, FailEffect
<1>3. PublishFeed(f) /\ Publishable(f) =>
        /\ closing = "open" /\ UNCHANGED slots
        /\ \E h \in Feed : /\ FeedIs(f, h) /\ h.state = "live"
                           /\ h.scope = feeds[f].scope /\ h.closing = feeds[f].closing
  BY <1>1, PublishEffect
<1>4. PICK h \in Feed : /\ FeedIs(f, h) /\ h.scope = feeds[f].scope /\ h.closing = feeds[f].closing
                        /\ \/ FailLocked(f) /\ h.state = "failed"
                           \/ /\ PublishFeed(f) /\ Publishable(f) /\ h.state = "live"
                              /\ closing = "open" /\ UNCHANGED slots
  BY <1>2, <1>3
<1>5. /\ DOMAIN feeds' = DOMAIN feeds /\ feeds'[f] = h
      /\ \A x \in DOMAIN feeds \ {f} : feeds'[x] = feeds[x]
  BY <1>1, <1>4, OneChanges
<1>6. FailLocked(f) => \A x \in DOMAIN feeds : InMap(x) =>
        slots'[feeds[x].scope] = x \/ (x = f /\ Tenant(f))
  <2> SUFFICES ASSUME FailLocked(f), NEW x \in DOMAIN feeds, InMap(x)
               PROVE  slots'[feeds[x].scope] = x \/ (x = f /\ Tenant(f))
    OBVIOUS
  <2>1. \A sc \in Scopes :
          slots'[sc] = IF sc = feeds[f].scope /\ sc # Zero /\ slots[sc] = f THEN 0 ELSE slots[sc]
    BY <1>1, FailEffect
  <2>2. feeds[x].scope \in Scopes
    BY <1>1, Typing DEF Feed
  <2> QED BY <2>1, <2>2 DEF InMap, Tenant
<1>7. \A x \in DOMAIN feeds \ {f} : FeedStep(x)
  <2> SUFFICES ASSUME NEW x \in DOMAIN feeds \ {f} PROVE FeedStep(x)
    OBVIOUS
  <2>1. InMap(x) => slots'[feeds[x].scope] = x
    BY <1>4, <1>6 DEF InMap
  <2> QED BY <1>5, <2>1 DEF FeedStep, StateStep, MapStep, ShutStep
<1>8. ASSUME h.state = "live" => \/ f = starting
                                 \/ \E c \in Subscribers :
                                      /\ subs[c].pc = "creating" /\ subs[c].feed = f
                                      /\ subs'[c].pc = "held" /\ subs'[c].feed = f
      PROVE  FeedStep(f)
  <2>1. StateStep(f)
    BY <1>4, <1>5, <1>8 DEF StateStep
  <2>2. MapStep(f)
    BY <1>4, <1>5, <1>6 DEF MapStep, InMap
  <2> QED BY <1>4, <1>5, <2>1, <2>2 DEF FeedStep, ShutStep
<1>9. CASE UNCHANGED subs /\ f = starting /\ starting' = 0
  <2>1. FeedStep(f)
    BY <1>8, <1>9
  <2> QED BY <1>5, <1>7, <1>9, <2>1 DEF Steps, SubStep, OneMover, StartingStep
<1>10. ASSUME UNCHANGED starting, NEW s \in Subscribers, NEW g \in Sub, SubIs(s, g),
              subs[s].pc = "creating", subs[s].feed = f,
              \/ FailLocked(f) /\ g.pc = "refused"
              \/ PublishFeed(f) /\ Publishable(f) /\ g.pc = "held" /\ g.feed = f
       PROVE  Steps
  <2>1. /\ subs'[s] = g /\ \A u \in Subscribers \ {s} : subs'[u] = subs[u]
    BY <1>1, <1>10, OneSub
  <2>2. CASE FailLocked(f) /\ g.pc = "refused"
    <3>1. feeds'[f].state = "failed"
      <4>1. PICK k \in Feed : FeedIs(f, k) /\ k.state = "failed"
        BY <1>2, <2>2
      <4> QED BY <1>1, <4>1, OneChanges
    <3>2. SubStep(s)
      BY <1>10, <2>1, <2>2, <3>1 DEF SubStep, Ends
    <3>3. FeedStep(f)
      BY <1>5, <1>8, <3>1
    <3>4. OneMover
      BY <2>1 DEF OneMover
    <3> QED BY <1>5, <1>7, <1>10, <2>1, <3>2, <3>3, <3>4 DEF Steps, SubStep, StartingStep
  <2>3. CASE PublishFeed(f) /\ Publishable(f) /\ g.pc = "held" /\ g.feed = f
    <3>1. feeds'[f].state = "live" /\ closing = "open" /\ UNCHANGED slots
      <4>1. PICK k \in Feed : FeedIs(f, k) /\ k.state = "live"
        BY <1>3, <2>3
      <4> QED BY <1>1, <1>3, <2>3, <4>1, OneChanges
    <3>2. SubStep(s)
      BY <1>10, <2>1, <2>3, <3>1 DEF SubStep, Advances
    <3>3. FeedStep(f)
      BY <1>8, <1>10, <2>1, <2>3
    <3>4. OneMover
      BY <2>1 DEF OneMover
    <3> QED BY <1>5, <1>7, <1>10, <2>1, <3>2, <3>3, <3>4 DEF Steps, SubStep, StartingStep
  <2> QED BY <1>10, <2>2, <2>3
<1> QED BY <1>9, <1>10

(* Every step is one of these. *)
LEMMA StepsTaken ==
  ASSUME Types, [Next]_vars
  PROVE  Steps
<1>1. /\ Core /\ TypeOK /\ Shape /\ Reading /\ Counted /\ Creators
      /\ subs \in [Subscribers -> Sub] /\ slots \in [Scopes -> Feeds \cup {0}]
      /\ DOMAIN feeds = 1 .. created /\ feeds \in [1 .. created -> Feed]
      /\ \A f \in DOMAIN feeds : feeds[f].scope \in Scopes /\ f # 0
  BY Typing DEF Types, Core, Feed
<1>2. ASSUME NEW f \in DOMAIN feeds, NEW h \in Feed, FeedIs(f, h), h.scope = feeds[f].scope,
             h.state = feeds[f].state, feeds[f].closing => h.closing
      PROVE  /\ DOMAIN feeds' = DOMAIN feeds
             /\ \A x \in DOMAIN feeds : /\ feeds'[x].scope = feeds[x].scope
                                        /\ feeds'[x].state = feeds[x].state
                                        /\ feeds[x].closing => feeds'[x].closing
  <2>1. /\ DOMAIN feeds' = DOMAIN feeds /\ feeds'[f] = h
        /\ \A x \in DOMAIN feeds \ {f} : feeds'[x] = feeds[x]
    BY <1>1, <1>2, OneChanges
  <2> QED BY <1>2, <2>1
<1>3. ASSUME NEW s \in Subscribers, NEW sc \in Scopes, Subscribe(s, sc)
      PROVE  Steps
  <2>1. subs[s].pc = "idle" /\ UNCHANGED <<starting, closing, toSignal>>
    BY <1>1, <1>3, SubscribeEffect
  <2>2. PICK g \in Sub :
          /\ SubIs(s, g)
          /\ \/ g.pc = "refused" /\ UNCHANGED <<feeds, slots>>
             \/ /\ closing = "open" /\ slots[sc] # 0 /\ UNCHANGED slots /\ g.feed = slots[sc]
                /\ g.pc = IF sc = Zero THEN "held" ELSE "waiting"
                /\ \E h \in Feed : FeedIs(slots[sc], h) /\ AsBefore(h, feeds[slots[sc]])
             \/ /\ closing = "open" /\ Reserved(sc, 1) /\ slots[sc] = 0 /\ g.feed = created + 1
                /\ g.pc = IF sc = Zero THEN "held" ELSE "creating"
    BY <1>1, <1>3, SubscribeEffect
  <2>3. subs'[s] = g
    BY <1>1, <2>2, OneSub
  <2>4. CASE g.pc = "refused" /\ UNCHANGED <<feeds, slots>>
    <3>1. SubStep(s)
      BY <2>1, <2>3, <2>4 DEF SubStep, Ends
    <3> QED BY <2>1, <2>2, <2>4, <3>1, StepsOfCall
  <2>5. CASE /\ closing = "open" /\ slots[sc] # 0 /\ UNCHANGED slots /\ g.feed = slots[sc]
             /\ g.pc = IF sc = Zero THEN "held" ELSE "waiting"
             /\ \E h \in Feed : FeedIs(slots[sc], h) /\ AsBefore(h, feeds[slots[sc]])
    <3>1. slots[sc] \in DOMAIN feeds
      BY <1>1, <2>5 DEF Shape
    <3>2. g.pc \in IF sc = Zero THEN {"held"} ELSE {"waiting", "creating"}
      BY <2>5
    <3>3. SubStep(s)
      BY <2>1, <2>3, <2>5, <3>2 DEF SubStep, Arrives
    <3>4. /\ DOMAIN feeds' = DOMAIN feeds
          /\ \A x \in DOMAIN feeds : /\ feeds'[x].scope = feeds[x].scope
                                     /\ feeds'[x].state = feeds[x].state
                                     /\ feeds[x].closing => feeds'[x].closing
      BY <1>2, <2>5, <3>1 DEF AsBefore
    <3> QED BY <2>1, <2>2, <2>5, <3>3, <3>4, StepsOfCall
  <2>6. CASE /\ closing = "open" /\ Reserved(sc, 1) /\ slots[sc] = 0 /\ g.feed = created + 1
             /\ g.pc = IF sc = Zero THEN "held" ELSE "creating"
    BY <2>1, <2>2, <2>6, StepsOfReserve
  <2> QED BY <2>2, <2>4, <2>5, <2>6
<1>4. ASSUME NEW s \in Subscribers, NEW inside \in BOOLEAN, Teardown(s, inside)
      PROVE  Steps
  <2> DEFINE f == subs[s].feed
  <2>1. /\ f \in DOMAIN feeds /\ UNCHANGED <<slots, starting, closing, toSignal>>
        /\ subs[s].pc = "active"
    BY <1>1, <1>4, TeardownEffect
  <2>2. PICK g \in Sub : SubIs(s, g) /\ g.pc = "release" /\ g.feed = f
    BY <1>1, <1>4, TeardownEffect
  <2>3. \E h \in Feed : FeedIs(f, h) /\ AsBefore(h, feeds[f])
    BY <1>1, <1>4, TeardownEffect
  <2>4. subs'[s] = g
    BY <1>1, <2>2, OneSub
  <2>5. SubStep(s)
    BY <2>1, <2>2, <2>4 DEF SubStep, Advances
  <2>6. /\ DOMAIN feeds' = DOMAIN feeds
        /\ \A x \in DOMAIN feeds : /\ feeds'[x].scope = feeds[x].scope
                                   /\ feeds'[x].state = feeds[x].state
                                   /\ feeds[x].closing => feeds'[x].closing
    BY <1>2, <2>1, <2>3 DEF AsBefore
  <2> QED BY <2>1, <2>2, <2>5, <2>6, StepsOfCall
<1>5. ASSUME NEW s \in Subscribers, Create(s) \/ CreateFails(s)
      PROVE  Steps
  <2>1. PICK f \in DOMAIN feeds : f = subs[s].feed
    BY <1>1, <1>5, CreateEffect
  <2>2. subs[s].pc = "creating" /\ UNCHANGED <<starting, closing, toSignal>>
    BY <1>1, <1>5, CreateEffect
  <2>3. \/ FailLocked(f) /\ \E g \in Sub : SubIs(s, g) /\ g.pc = "refused"
        \/ /\ PublishFeed(f) /\ Publishable(f)
           /\ \E g \in Sub : SubIs(s, g) /\ g.pc = "held" /\ g.feed = f
    BY <1>1, <1>5, <2>1, CreateEffect
  <2>4. feeds[f].state # "live"
    BY <1>1, <2>1, <2>2 DEF Creators
  <2> QED BY <2>1, <2>2, <2>3, <2>4, StepsOfVerdict
<1>6. ASSUME NEW s \in Subscribers, AwaitFeed(s) \/ GiveUp(s)
      PROVE  Steps
  <2>1. UNCHANGED <<feeds, slots, starting, closing, toSignal>> /\ subs[s].pc = "waiting"
    BY <1>1, <1>6, AwaitEffect
  <2>2. PICK g \in Sub : /\ SubIs(s, g) /\ g.feed = subs[s].feed
                         /\ \/ g.pc = "release"
                            \/ g.pc = "held" /\ feeds[subs[s].feed].state = "live"
    BY <1>1, <1>6, AwaitEffect
  <2>3. subs'[s] = g
    BY <1>1, <2>2, OneSub
  <2>4. SubStep(s)
    BY <2>1, <2>2, <2>3 DEF SubStep, Advances
  <2> QED BY <2>1, <2>2, <2>4, StepsOfCall
<1>7. ASSUME NEW s \in Subscribers, Join(s)
      PROVE  Steps
  <2> DEFINE f == subs[s].feed
  <2>1. /\ f \in DOMAIN feeds /\ UNCHANGED <<slots, starting, closing, toSignal>>
        /\ subs[s].pc = "held"
    BY <1>1, <1>7, JoinEffect
  <2>2. PICK g \in Sub : SubIs(s, g) /\ g.pc = "joining" /\ g.feed = f
    BY <1>1, <1>7, JoinEffect
  <2>3. \E h \in Feed : FeedIs(f, h) /\ AsBefore(h, feeds[f])
    BY <1>1, <1>7, JoinEffect
  <2>4. subs'[s] = g
    BY <1>1, <2>2, OneSub
  <2>5. SubStep(s)
    BY <2>1, <2>2, <2>4 DEF SubStep, Advances
  <2>6. /\ DOMAIN feeds' = DOMAIN feeds
        /\ \A x \in DOMAIN feeds : /\ feeds'[x].scope = feeds[x].scope
                                   /\ feeds'[x].state = feeds[x].state
                                   /\ feeds[x].closing => feeds'[x].closing
    BY <1>2, <2>1, <2>3 DEF AsBefore
  <2> QED BY <2>1, <2>2, <2>5, <2>6, StepsOfCall
<1>8. ASSUME NEW s \in Subscribers, DeliverJoining(s)
      PROVE  Steps
  <2>1. UNCHANGED <<feeds, slots, starting, closing, toSignal>> /\ subs[s].pc = "joining"
    BY <1>1, <1>8, DeliverEffect
  <2>2. PICK g \in Sub : SubIs(s, g) /\ g.feed = subs[s].feed /\ g.pc = "active"
    BY <1>1, <1>8, DeliverEffect
  <2>3. subs'[s] = g
    BY <1>1, <2>2, OneSub
  <2>4. SubStep(s)
    BY <2>1, <2>2, <2>3 DEF SubStep, Advances
  <2> QED BY <2>1, <2>2, <2>4, StepsOfCall
<1>9. ASSUME NEW s \in Subscribers, ReleaseFeed(s)
      PROVE  Steps
  <2>1. PICK f \in DOMAIN feeds : f = subs[s].feed
    BY <1>1, <1>9, ReleaseEffect
  <2>2. subs[s].pc = "release" /\ UNCHANGED <<starting, closing, toSignal>>
    BY <1>1, <1>9, ReleaseEffect
  <2>3. \E h \in Feed : FeedIs(f, h) /\ AsBefore(h, feeds[f])
    BY <1>1, <1>9, <2>1, ReleaseEffect
  <2>4. /\ DOMAIN feeds' = DOMAIN feeds
        /\ \A x \in DOMAIN feeds : /\ feeds'[x].scope = feeds[x].scope
                                   /\ feeds'[x].state = feeds[x].state
                                   /\ feeds[x].closing => feeds'[x].closing
    BY <1>2, <2>1, <2>3 DEF AsBefore
  <2>5. CASE /\ ~LastToLeave(f) /\ UNCHANGED slots
             /\ \E g \in Sub : SubIs(s, g) /\ g.pc \in {"gone", "refused"}
    <3>1. PICK g \in Sub : SubIs(s, g) /\ g.pc \in {"gone", "refused"}
      BY <2>5
    <3>2. subs'[s] = g
      BY <1>1, <3>1, OneSub
    <3>3. SubStep(s)
      BY <2>1, <2>2, <2>5, <3>1, <3>2 DEF SubStep, Ends
    <3> QED BY <2>2, <2>4, <2>5, <3>1, <3>3, StepsOfCall
  <2>6. CASE /\ LastToLeave(f) /\ slots' = [slots EXCEPT ![feeds[f].scope] = 0]
             /\ \E g \in Sub : SubIs(s, g) /\ g.pc = "signal" /\ g.feed = f
    <3>1. PICK g \in Sub : SubIs(s, g) /\ g.pc = "signal" /\ g.feed = f
      BY <2>6
    <3>2. /\ subs'[s] = g /\ \A u \in Subscribers \ {s} : subs'[u] = subs[u]
      BY <1>1, <3>1, OneSub
    <3>3. \A u \in Subscribers : SubStep(u)
      BY <2>1, <2>2, <3>1, <3>2 DEF SubStep, Advances
    <3>4. OneMover
      BY <3>2 DEF OneMover
    <3>5. ASSUME NEW x \in DOMAIN feeds PROVE FeedStep(x)
      <4>1. CASE x = f
        <5>1. MapStep(f)
          BY <2>1, <2>2, <2>6, <3>1, <3>2 DEF MapStep
        <5> QED BY <2>2, <2>4, <4>1, <5>1 DEF FeedStep, StateStep, ShutStep
      <4>2. CASE x # f
        <5>1. InMap(x) => slots'[feeds[x].scope] = x
          BY <1>1, <2>6, <4>2 DEF InMap, LastToLeave
        <5> QED BY <2>2, <2>4, <5>1 DEF FeedStep, StateStep, MapStep, ShutStep
      <4> QED BY <4>1, <4>2
    <3> QED BY <2>2, <2>4, <3>3, <3>4, <3>5 DEF Steps, StartingStep
  <2> QED BY <1>1, <1>9, <2>1, <2>5, <2>6, ReleaseEffect
<1>10. ASSUME NEW s \in Subscribers, StopFeed(s) \/ StopFeedReturns(s)
       PROVE  Steps
  <2> DEFINE f == subs[s].feed
  <2>1. /\ f \in DOMAIN feeds /\ UNCHANGED <<slots, starting, closing, toSignal>>
        /\ subs[s].pc \in {"signal", "stopping"}
    BY <1>1, <1>10, StopEffect
  <2>2. \/ UNCHANGED feeds /\ subs[s].pc = "stopping"
        \/ \E h \in Feed : /\ FeedIs(f, h) /\ h.scope = feeds[f].scope /\ h.state = feeds[f].state
                           /\ h.closing = TRUE /\ subs[s].pc = "signal"
    BY <1>1, <1>10, StopEffect
  <2>3. PICK g \in Sub : /\ SubIs(s, g)
                         /\ \/ g.pc \in {"gone", "refused"}
                            \/ g.pc = "stopping" /\ g.feed = f
    BY <1>1, <1>10, StopEffect
  <2>4. subs'[s] = g
    BY <1>1, <2>3, OneSub
  <2>5. /\ DOMAIN feeds' = DOMAIN feeds
        /\ \A x \in DOMAIN feeds : /\ feeds'[x].scope = feeds[x].scope
                                   /\ feeds'[x].state = feeds[x].state
                                   /\ feeds[x].closing => feeds'[x].closing
    BY <1>2, <2>1, <2>2
  <2>6. subs[s].pc = "signal" => feeds'[f].closing
    <3>1. ASSUME NEW h \in Feed, FeedIs(f, h), h.closing = TRUE PROVE feeds'[f].closing
      BY <1>1, <2>1, <3>1, OneChanges
    <3> QED BY <2>2, <3>1
  <2>7. SubStep(s)
    <3>1. CASE subs[s].pc = "signal"
      BY <2>3, <2>4, <2>6, <3>1 DEF SubStep, Advances, Ends
    <3>2. CASE subs[s].pc = "stopping"
      <4>1. Goto(s, subs[s].then) /\ subs[s].then \in {"gone", "refused"}
        BY <1>1, <1>10, <3>2 DEF StopFeed, StopFeedReturns, Sub
      <4>2. subs'[s].pc \in {"gone", "refused"}
        <5>1. PICK k \in Sub : SubIs(s, k) /\ k.pc \in {"gone", "refused"}
          BY <1>1, <4>1, GotoEffect
        <5>2. subs'[s] = k
          BY <1>1, <5>1, OneSub
        <5> QED BY <5>1, <5>2
      <4> QED BY <3>2, <4>2 DEF SubStep, Ends
    <3> QED BY <2>1, <3>1, <3>2
  <2> QED BY <2>1, <2>3, <2>5, <2>7, StepsOfCall
<1>11. ASSUME NEW f \in DOMAIN feeds, ReaderStep(f)
       PROVE  Steps
  <2>1. UNCHANGED <<slots, subs, starting, closing, toSignal, created>> /\ FeedsKept
    BY <1>1, <1>11, ReaderFrame
  <2>2. DOMAIN feeds' = DOMAIN feeds
    BY <1>1, <2>1 DEF FeedsKept
  <2>3. \A x \in DOMAIN feeds : FeedStep(x)
    BY <2>1, <2>2 DEF FeedsKept, FeedStep, StateStep, MapStep, ShutStep, InMap
  <2> QED BY <2>1, <2>2, <2>3 DEF Steps, SubStep, OneMover, StartingStep
<1>12. ASSUME Start \/ StartFails \/ StartPublishes
       PROVE  Steps
  <2>1. UNCHANGED <<subs, closing, toSignal>>
    BY <1>1, <1>12, StartEffect
  <2>2. starting # 0 => starting \in DOMAIN feeds /\ feeds[starting].state # "live"
    BY <1>1 DEF Shape
  <2>3. CASE /\ Zero \in Scopes /\ closing = "open" /\ slots[Zero] = 0 /\ Reserved(Zero, 0)
             /\ starting' = created + 1
    BY <2>1, <2>3, StepsOfReserve
  <2>4. CASE /\ starting # 0 /\ starting' = 0
             /\ FailLocked(starting) \/ (PublishFeed(starting) /\ Publishable(starting))
    <3>1. PICK f \in DOMAIN feeds : f = starting
      BY <2>2, <2>4
    <3>2. /\ f = starting /\ starting' = 0 /\ feeds[f].state # "live"
          /\ FailLocked(f) \/ (PublishFeed(f) /\ Publishable(f))
      BY <2>2, <2>4, <3>1
    <3> QED BY <2>1, <3>2, StepsOfVerdict
  <2>5. CASE /\ Zero \in Scopes /\ slots[Zero] # 0 /\ feeds[slots[Zero]].state # "live"
             /\ starting' = slots[Zero] /\ UNCHANGED slots
             /\ \E h \in Feed : /\ FeedIs(slots[Zero], h) /\ h.state = "reserved"
                                /\ h.scope = feeds[slots[Zero]].scope
                                /\ h.closing = feeds[slots[Zero]].closing
    <3>1. PICK f \in DOMAIN feeds : f = slots[Zero] /\ ~Tenant(f)
      BY <1>1, <2>5 DEF Shape, Tenant
    <3>2. PICK h \in Feed : /\ FeedIs(f, h) /\ h.state = "reserved" /\ h.scope = feeds[f].scope
                            /\ h.closing = feeds[f].closing
      BY <2>5, <3>1
    <3>3. /\ DOMAIN feeds' = DOMAIN feeds /\ feeds'[f] = h
          /\ \A x \in DOMAIN feeds \ {f} : feeds'[x] = feeds[x]
      BY <1>1, <3>2, OneChanges
    <3>4. \A x \in DOMAIN feeds : FeedStep(x)
      BY <2>1, <2>5, <3>1, <3>2, <3>3 DEF FeedStep, StateStep, MapStep, ShutStep, InMap
    <3>5. StartingStep
      BY <2>5 DEF StartingStep
    <3> QED BY <2>1, <3>3, <3>4, <3>5 DEF Steps, SubStep, OneMover
  <2> QED BY <1>1, <1>12, <2>3, <2>4, <2>5, StartEffect
<1>13. ASSUME StopFeeds \/ (\E f \in toSignal : SignalFeed(f)) \/ CloseReturns
       PROVE  Steps
  <2>1. /\ UNCHANGED <<subs, starting, created>> /\ feeds' \in [1 .. created -> Feed]
        /\ closing' # "open"
        /\ \A f \in DOMAIN feeds : /\ feeds'[f].scope = feeds[f].scope
                                   /\ feeds[f].closing => feeds'[f].closing
    BY <1>1, <1>13, CloseEffect
  <2>2. DOMAIN feeds' = DOMAIN feeds
    BY <1>1, <2>1
  <2>3. ASSUME NEW f \in DOMAIN feeds PROVE StateStep(f) /\ ShutStep(f)
    <3>1. CASE /\ closing = "open"
               /\ feeds'[f].state = IF InMap(f) /\ feeds[f].scope \in Scopes /\ Tenant(f)
                                         /\ feeds[f].state = "reserved"
                                     THEN "failed" ELSE feeds[f].state
               /\ InMap(f) /\ feeds[f].state = "live" => f \in toSignal'
      <4>1. f \notin toSignal
        BY <1>1, <3>1 DEF Shape
      <4>2. StateStep(f)
        BY <3>1 DEF StateStep
      <4> QED BY <1>1, <2>1, <3>1, <4>1, <4>2 DEF ShutStep
    <3>2. CASE /\ closing # "open" /\ feeds'[f].state = feeds[f].state
               /\ f \in toSignal /\ f \notin toSignal' => feeds'[f].closing
      BY <2>1, <3>2 DEF StateStep, ShutStep
    <3> QED BY <1>1, <1>13, <3>1, <3>2, CloseEffect
  <2>4. \A f \in DOMAIN feeds : FeedStep(f)
    BY <2>1, <2>2, <2>3 DEF FeedStep, MapStep
  <2> QED BY <2>1, <2>2, <2>4 DEF Steps, SubStep, OneMover, StartingStep
<1>14. CASE UNCHANGED vars
  <2>1. UNCHANGED <<feeds, slots, subs, starting, closing, toSignal>>
    BY <1>14 DEF vars
  <2>2. \A f \in DOMAIN feeds : FeedStep(f)
    BY <2>1 DEF FeedStep, StateStep, MapStep, ShutStep, InMap
  <2> QED BY <2>1, <2>2 DEF Steps, SubStep, OneMover, StartingStep
<1> QED BY <1>3, <1>4, <1>5, <1>6, <1>7, <1>8, <1>9, <1>10, <1>11, <1>12, <1>13, <1>14, NextCases

-----------------------------------------------------------------------------
(* Who waits on whom, and who stops a feed.                                *)

(* A reserved feed keeps its creator at work, and Start's feed its slot. *)
LEMMA CreatingKept ==
  ASSUME Types, Types', Steps, Creating
  PROVE  Creating'
<1>1. ASSUME NEW f \in DOMAIN feeds', feeds'[f].scope # Zero, feeds'[f].state = "reserved"
      PROVE  /\ closing' = "open"
             /\ \E c \in Subscribers : subs'[c].pc = "creating" /\ subs'[c].feed = f
  <2>1. CASE f \notin DOMAIN feeds
    BY <1>1, <2>1 DEF Steps, NewStep
  <2>2. CASE f \in DOMAIN feeds
    <3>1. FeedStep(f)
      BY <2>2 DEF Steps
    <3>2. Tenant(f) /\ feeds[f].state = "reserved"
      BY <1>1, <2>2, <3>1 DEF FeedStep, StateStep, Tenant
    <3>3. PICK c \in Subscribers : subs[c].pc = "creating" /\ subs[c].feed = f
      BY <2>2, <3>2 DEF Creating
    <3>4. closing = "open" /\ InMap(f)
      BY <2>2, <3>2, <3>3 DEF Creating, Types, Creators
    <3>5. closing' = "open"
      BY <1>1, <3>1, <3>2, <3>4 DEF FeedStep, ShutStep
    <3>6. subs'[c] = subs[c]
      <4>1. SubStep(c)
        BY DEF Steps
      <4> QED BY <1>1, <3>3, <4>1 DEF SubStep, Advances, Ends
    <3> QED BY <3>3, <3>5, <3>6
  <2> QED BY <2>1, <2>2
<1>2. ASSUME starting' # 0, closing' = "open"
      PROVE  slots'[feeds'[starting'].scope] = starting'
  <2>1. CASE starting' = starting
    <3>1. PICK f \in DOMAIN feeds : f = starting /\ ~Tenant(f)
      BY <1>2, <2>1 DEF Types, Core, Shape
    <3>2. FeedStep(f)
      BY DEF Steps
    <3>3. closing = "open"
      BY <1>2, <3>2 DEF FeedStep, ShutStep
    <3>4. InMap(f)
      BY <1>2, <2>1, <3>1, <3>3 DEF Creating
    <3>5. slots'[feeds[f].scope] = f
      BY <1>2, <3>1, <3>2, <3>4 DEF FeedStep, MapStep, LastToLeave, Tenant
    <3> QED BY <2>1, <3>1, <3>2, <3>5 DEF FeedStep
  <2>2. CASE Zero \in Scopes /\ slots'[Zero] = starting'
    <3>1. feeds'[starting'].scope = Zero
      BY <1>2, <2>2 DEF Types, Core, Shape
    <3> QED BY <2>2, <3>1
  <2> QED BY <1>2, <2>1, <2>2 DEF Steps, StartingStep
<1> QED BY <1>1, <1>2 DEF Creating, Tenant, InMap

(* A feed somebody besides the last to leave holds stays in the map. *)
LEMMA HeldInMap ==
  ASSUME Types, Steps, NEW f \in DOMAIN feeds, InMap(f), closing' = "open",
         NEW u \in Subscribers, subs[u].feed = f,
         subs[u].pc \in {"waiting", "creating", "held", "joining", "active"},
         feeds'[f].state # "failed" \/ ~Tenant(f)
  PROVE  slots'[feeds[f].scope] = f
<1>1. MapStep(f)
  BY DEF Steps, FeedStep
<1>2. ASSUME NEW s \in Subscribers, subs[s].pc = "release", subs[s].feed = f, LastToLeave(f)
      PROVE  FALSE
  <2>1. s \in Holders(f) /\ u \in Holders(f)
    BY <1>2 DEF Holders, Holding
  <2>2. u = s
    BY <1>2, <2>1, LastAlone DEF Types
  <2> QED BY <1>2, <2>2
<1> QED BY <1>1, <1>2 DEF MapStep

(* Whoever was let in keeps a live feed that is in the map until Close. *)
LEMMA AdmittedKept ==
  ASSUME Types, Types', Steps, Admitted
  PROVE  Admitted'
<1> SUFFICES ASSUME NEW u \in Subscribers
             PROVE  /\ subs'[u].pc \in {"held", "joining", "active"} =>
                         /\ feeds'[subs'[u].feed].scope # Zero => feeds'[subs'[u].feed].state = "live"
                         /\ closing' = "open" =>
                              slots'[feeds'[subs'[u].feed].scope] = subs'[u].feed
                    /\ subs'[u].pc = "waiting" =>
                         /\ feeds'[subs'[u].feed].scope # Zero
                         /\ closing' = "open" /\ feeds'[subs'[u].feed].state = "live" =>
                              slots'[feeds'[subs'[u].feed].scope] = subs'[u].feed
  BY DEF Admitted, Tenant, InMap
<1>1. SubStep(u)
  BY DEF Steps
<1>2. CASE subs'[u].pc \notin {"waiting", "held", "joining", "active"}
  BY <1>2
<1>3. CASE Arrives(u)
  <2>1. PICK sc \in Scopes :
          /\ subs'[u].feed # 0 /\ slots'[sc] = subs'[u].feed
          /\ subs'[u].pc \in IF sc = Zero THEN {"held"} ELSE {"waiting", "creating"}
    BY <1>3 DEF Arrives
  <2>2. feeds'[subs'[u].feed].scope = sc
    BY <2>1 DEF Types, Core, Shape
  <2>3. CASE sc = Zero
    BY <2>1, <2>2, <2>3
  <2>4. CASE sc # Zero
    BY <2>1, <2>2, <2>4
  <2> QED BY <2>3, <2>4
<1>4. CASE /\ subs'[u] = subs[u] \/ Advances(u)
           /\ subs'[u].pc \in {"waiting", "held", "joining", "active"}
  <2>1. /\ subs'[u].feed = subs[u].feed
        /\ subs[u].pc \in {"waiting", "creating", "held", "joining", "active"}
        /\ subs'[u].pc = "waiting" => subs[u].pc = "waiting"
    BY <1>4 DEF Advances
  <2>2. PICK f \in DOMAIN feeds : f = subs[u].feed
    BY <2>1 DEF Types, Core, Shape, Holding
  <2>3. FeedStep(f)
    BY DEF Steps
  <2>4. ASSUME closing' = "open", InMap(f), feeds'[f].state # "failed" \/ ~Tenant(f)
        PROVE  slots'[feeds'[f].scope] = f
    <3>1. slots'[feeds[f].scope] = f
      BY <2>1, <2>2, <2>4, HeldInMap
    <3> QED BY <2>3, <3>1 DEF FeedStep
  <2>5. feeds'[f].scope = feeds[f].scope /\ (closing' = "open" => closing = "open")
        /\ (feeds[f].state = "live" => feeds'[f].state = "live")
    BY <2>3 DEF FeedStep, ShutStep, StateStep
  <2>6. CASE subs'[u].pc \in {"held", "joining", "active"}
    <3>1. Tenant(f) => feeds'[f].state = "live"
      BY <1>4, <2>1, <2>2, <2>5, <2>6 DEF Admitted, Advances
    <3>2. closing' = "open" => InMap(f)
      <4>1. CASE subs[u].pc = "creating"
        BY <2>2, <2>5, <4>1 DEF Types, Creators
      <4>2. CASE subs[u].pc = "waiting"
        <5>1. feeds[f].state = "live"
          BY <1>4, <2>2, <2>6, <4>2 DEF Advances
        <5> QED BY <2>2, <2>5, <4>2, <5>1 DEF Admitted
      <4>3. CASE subs[u].pc \in {"held", "joining", "active"}
        BY <2>2, <2>5, <4>3 DEF Admitted
      <4> QED BY <2>1, <4>1, <4>2, <4>3
    <3>3. closing' = "open" => slots'[feeds'[f].scope] = f
      BY <2>4, <3>1, <3>2
    <3> QED BY <2>1, <2>2, <2>5, <2>6, <3>1, <3>3 DEF Tenant
  <2>7. CASE subs'[u].pc = "waiting"
    <3>1. subs[u].pc = "waiting" /\ Tenant(f)
          /\ (closing = "open" /\ feeds[f].state = "live" => InMap(f))
      BY <2>1, <2>2, <2>7 DEF Admitted
    <3>2. ASSUME closing' = "open", feeds'[f].state = "live"
          PROVE  slots'[feeds'[f].scope] = f
      <4>1. CASE feeds[f].state = "live"
        BY <2>4, <2>5, <3>1, <3>2, <4>1
      <4>2. CASE feeds[f].state # "live"
        <5>1. UNCHANGED slots /\ closing = "open"
              /\ (\/ f = starting
                  \/ \E c \in Subscribers : subs[c].pc = "creating" /\ subs[c].feed = f)
          BY <2>3, <3>2, <4>2 DEF FeedStep, StateStep
        <5>2. f # starting
          BY <3>1 DEF Types, Core, Shape
        <5>3. InMap(f)
          BY <5>1, <5>2 DEF Types, Creators
        <5> QED BY <2>5, <5>1, <5>3 DEF InMap
      <4> QED BY <4>1, <4>2
    <3> QED BY <2>1, <2>2, <2>5, <2>7, <3>1, <3>2 DEF Tenant
  <2> QED BY <1>4, <2>6, <2>7
<1>5. CASE Ends(u)
  BY <1>5 DEF Ends
<1> QED BY <1>1, <1>2, <1>3, <1>4, <1>5 DEF SubStep

(* Who leaves a live feed that is in the map, and does not take it out, is *)
(* not its only holder.                                                    *)
LEMMA AnotherHolds ==
  ASSUME Core, Counted, NEW f \in DOMAIN feeds, Tenant(f), feeds[f].state = "live", InMap(f),
         NEW s \in Holders(f), ~LastToLeave(f)
  PROVE  \E u \in Holders(f) : u # s
<1>1. feeds[f].refs # 1 /\ feeds[f].refs \in Nat
  BY Typing DEF Core, Feed, Tenant, InMap, LastToLeave
<1>2. IsFiniteSet(Holders(f)) /\ Cardinality(Holders(f)) = feeds[f].refs
  BY DEF Counted, Count, Tenant
<1>3. IsFiniteSet(Holders(f) \ {s})
      /\ Cardinality(Holders(f) \ {s}) = Cardinality(Holders(f)) - 1
  BY <1>2, FS_RemoveElement
<1>4. Cardinality(Holders(f) \ {s}) # 0
  BY <1>1, <1>2, <1>3
<1>5. Holders(f) \ {s} # {}
  BY <1>4, FS_EmptySet
<1> QED BY <1>5

(* A feed that runs keeps somebody who will stop it. *)
LEMMA OwnedKept ==
  ASSUME Types, Types', Steps, Creating, FeedsOwned
  PROVE  FeedsOwned'
<1> DEFINE Owned(f) ==
      \/ f \in toSignal'
      \/ closing' = "open" /\ slots'[feeds'[f].scope] = f /\
           (feeds'[f].scope = Zero \/
            \E s \in Subscribers : subs'[s].feed = f /\ Owes(s)')
      \/ \E s \in Subscribers : subs'[s].feed = f /\ subs'[s].pc = "signal"
<1> SUFFICES ASSUME NEW f \in DOMAIN feeds', feeds'[f].state = "live", ~feeds'[f].closing
             PROVE  Owned(f)
  BY DEF FeedsOwned
<1>1. f \in DOMAIN feeds
  BY DEF Steps, NewStep
<1>2. FeedStep(f)
  BY <1>1 DEF Steps
<1>3. feeds'[f].scope = feeds[f].scope /\ ~feeds[f].closing
  BY <1>2 DEF FeedStep
<1>4. CASE feeds[f].state # "live"
  <2>1. /\ closing = "open" /\ closing' = "open" /\ UNCHANGED slots
        /\ \/ f = starting
           \/ \E c \in Subscribers : /\ subs[c].pc = "creating" /\ subs[c].feed = f
                                     /\ subs'[c].pc = "held" /\ subs'[c].feed = f
    BY <1>2, <1>4 DEF FeedStep, StateStep
  <2>2. CASE f = starting
    <3>1. ~Tenant(f) /\ f # 0
      BY <1>1, <2>2, Typing DEF Types, Core, Shape
    <3>2. InMap(f)
      BY <2>1, <2>2, <3>1 DEF Creating
    <3> QED BY <1>3, <2>1, <3>1, <3>2 DEF Tenant, InMap
  <2>3. CASE \E c \in Subscribers : /\ subs[c].pc = "creating" /\ subs[c].feed = f
                                    /\ subs'[c].pc = "held" /\ subs'[c].feed = f
    <3>1. PICK c \in Subscribers : /\ subs[c].pc = "creating" /\ subs[c].feed = f
                                   /\ subs'[c].pc = "held" /\ subs'[c].feed = f
      BY <2>3
    <3>2. InMap(f)
      BY <2>1, <3>1 DEF Types, Creators
    <3>3. Owes(c)'
      BY <3>1 DEF Owes
    <3> QED BY <1>3, <2>1, <3>1, <3>2, <3>3 DEF InMap
  <2> QED BY <2>1, <2>2, <2>3
<1>5. CASE feeds[f].state = "live" /\ f \in toSignal
  BY <1>2, <1>5 DEF FeedStep, ShutStep
<1>6. ASSUME feeds[f].state = "live", NEW s \in Subscribers, subs[s].feed = f, subs[s].pc = "signal"
      PROVE  Owned(f)
  <2>1. SubStep(s)
    BY DEF Steps
  <2>2. subs'[s] = subs[s]
    BY <1>6, <2>1 DEF SubStep, Advances, Ends
  <2> QED BY <1>6, <2>2
<1>7. ASSUME feeds[f].state = "live", closing = "open", InMap(f),
             ~Tenant(f) \/ \E s \in Subscribers : subs[s].feed = f /\ Owes(s)
      PROVE  Owned(f)
  <2>1. CASE closing' # "open"
    BY <1>2, <1>7, <2>1 DEF FeedStep, ShutStep
  <2>2. CASE closing' = "open"
    <3>1. CASE slots'[feeds[f].scope] # f
      BY <1>2, <1>7, <2>2, <3>1 DEF FeedStep, MapStep
    <3>2. CASE slots'[feeds[f].scope] = f /\ ~Tenant(f)
      BY <1>3, <2>2, <3>2 DEF Tenant
    <3>3. CASE slots'[feeds[f].scope] = f /\ Tenant(f)
      <4>1. PICK s \in Subscribers : subs[s].feed = f /\ Owes(s)
        BY <1>7, <3>3
      <4>2. SubStep(s)
        BY DEF Steps
      <4>3. CASE subs'[s] = subs[s]
        BY <1>3, <2>2, <3>3, <4>1, <4>3 DEF Owes
      <4>4. CASE Advances(s)
        <5>1. subs'[s].feed = f /\ (Owes(s)' \/ subs'[s].pc = "signal")
          BY <4>1, <4>4 DEF Advances, Owes
        <5> QED BY <1>3, <2>2, <3>3, <5>1
      <4>5. CASE Ends(s)
        <5>1. subs[s].pc = "release" /\ ~LastToLeave(f) /\ subs'[s] # subs[s]
          BY <4>1, <4>5 DEF Ends, Owes
        <5>2. s \in Holders(f)
          BY <4>1, <5>1 DEF Holders, Holding
        <5>3. PICK u \in Holders(f) : u # s
          BY <1>1, <1>7, <3>3, <5>1, <5>2, AnotherHolds DEF Types
        <5>4. u \in Subscribers /\ subs[u].feed = f /\ subs[u].pc \in Holding
          BY DEF Holders
        <5>5. subs'[u] = subs[u]
          BY <5>1, <5>3, <5>4 DEF Steps, OneMover
        <5>6. subs[u].pc # "creating"
          BY <1>7, <5>4 DEF Types, Creators
        <5>7. Owes(u)' /\ subs'[u].feed = f
          BY <5>4, <5>5, <5>6 DEF Owes, Holding
        <5> QED BY <1>3, <2>2, <3>3, <5>4, <5>7
      <4> QED BY <4>1, <4>2, <4>3, <4>4, <4>5 DEF SubStep, Owes
    <3> QED BY <3>1, <3>2, <3>3
  <2> QED BY <2>1, <2>2
<1> QED BY <1>1, <1>3, <1>4, <1>5, <1>6, <1>7 DEF FeedsOwned, Tenant, InMap

(* Who waits on whom holds throughout. *)
THEOREM OwnershipHolds == Spec => []Ownership
<1>1. Init => Ownership
  <2> SUFFICES ASSUME Init PROVE Ownership
    OBVIOUS
  <2>1. DOMAIN feeds = {} /\ starting = 0 /\ \A s \in Subscribers : subs[s].pc = "idle"
    BY DEF Init, IdleSub
  <2> QED BY <2>1 DEF Ownership, Creating, Admitted, FeedsOwned
<1>2. Types /\ Types' /\ Ownership /\ [Next]_vars => Ownership'
  <2> SUFFICES ASSUME Types, Types', Ownership, [Next]_vars PROVE Ownership'
    OBVIOUS
  <2>1. Steps
    BY StepsTaken
  <2> QED BY <2>1, CreatingKept, AdmittedKept, OwnedKept DEF Ownership
<1> QED BY <1>1, <1>2, TypesHold, PTL DEF Spec

(* A tenant's feed that runs has somebody who will stop it: the last of    *)
(* its holders in releaseFeed, or Close.                                   *)
THEOREM NoFeedAbandoned == Spec => []FeedsOwned
<1>1. Ownership => FeedsOwned
  BY DEF Ownership
<1> QED BY <1>1, OwnershipHolds, PTL

(* Until Close, a subscriber's feed is in the map and not told to stop:    *)
(* releaseFeed stops it with its last holder only.                         *)
THEOREM HoldersAreServed == Spec => []HoldersServed
<1>1. Types /\ Ownership => HoldersServed
  <2> SUFFICES ASSUME Types, Ownership, closing = "open", NEW s \in Subscribers,
                      subs[s].pc \in {"held", "joining", "active"}
               PROVE  ~feeds[subs[s].feed].closing /\ InMap(subs[s].feed)
    BY DEF HoldersServed, InMap
  <2>1. PICK f \in DOMAIN feeds : f = subs[s].feed
    BY DEF Types, Core, Shape, Holding
  <2>2. InMap(f) /\ f # 0 /\ feeds[f].scope \in Scopes
    BY <2>1, Typing DEF Ownership, Admitted, Types, Core, Feed
  <2> QED BY <2>1, <2>2 DEF Types, Core, Shape, InMap
<1> QED BY <1>1, TypesHold, OwnershipHolds, PTL

(* A caller parked in awaitFeed has a creator at work, who will publish or *)
(* fail the feed; Close fails the slot itself.                             *)
THEOREM NobodyIsStranded == Spec => []NobodyStranded
<1>1. Types /\ Ownership => NobodyStranded
  <2> SUFFICES ASSUME Types, Ownership, NEW s \in Subscribers, subs[s].pc = "waiting",
                      feeds[subs[s].feed].state = "reserved"
               PROVE  /\ closing = "open"
                      /\ \E c \in Subscribers : subs[c].pc = "creating" /\ subs[c].feed = subs[s].feed
    BY DEF NobodyStranded
  <2>1. PICK f \in DOMAIN feeds : f = subs[s].feed
    BY DEF Types, Core, Shape, Holding
  <2>2. Tenant(f)
    BY <2>1 DEF Ownership, Admitted
  <2> QED BY <2>1, <2>2 DEF Ownership, Creating
<1> QED BY <1>1, TypesHold, OwnershipHolds, PTL

-----------------------------------------------------------------------------
(* What the subscribers are told.                                          *)

(* A call that neither joins nor leaves a feed. *)
Quietly(k, g) ==
  \/ g = k
  \/ /\ k.pc \notin Here /\ g.pc \notin Here
     /\ g.pc \in Before => k.pc \in Before
     /\ g.inside => k.inside /\ g.pc \in {"release", "signal"} /\ g.feed = k.feed

(* The feeds keep their subscribers and what they announced; a new one has *)
(* neither.                                                                *)
FeedsQuiet ==
  /\ \A f \in DOMAIN feeds :
       /\ f \in DOMAIN feeds' /\ feeds'[f].subs = feeds[f].subs
       /\ feeds'[f].connected = feeds[f].connected
       /\ feeds'[f].disconnected = feeds[f].disconnected
       /\ feeds[f].closing => feeds'[f].closing
  /\ \A f \in DOMAIN feeds' \ DOMAIN feeds :
       /\ feeds'[f].subs = {} /\ ~feeds'[f].connected /\ ~feeds'[f].disconnected
       /\ readers'[f].pc = "none"

(* A reader starts, at most. *)
ReadersQuiet ==
  \A f \in Feeds :
    \/ readers'[f] = readers[f]
    \/ /\ readers[f].pc = "none" /\ readers'[f].pc = "resync"
       /\ readers'[f].todo = readers[f].todo /\ readers'[f].in = readers[f].in

(* What holds of a feed, its reader and what is known still does when they *)
(* keep what they announced and fewer subscribe.                           *)
LEMMA TellsFrame ==
  ASSUME NEW h, NEW r, NEW K, Tells(h, r, K), NEW k, NEW L, k.connected = h.connected,
         k.disconnected = h.disconnected, h.closing => k.closing, k.subs \subseteq h.subs,
         ~k.closing => \A s \in r.todo \cup k.subs : L[s] = K[s]
  PROVE  Tells(k, r, L)
<1>1. Says(k) = Says(h)
  BY DEF Says
<1>2. AnnouncedAt(k, r)
  BY <1>1 DEF Tells, AnnouncedAt
<1>3. KnownAt(k, r, L)
  BY <1>1 DEF Tells, KnownAt
<1> QED BY <1>2, <1>3 DEF Tells

(* A reader that has just started has announced nothing. *)
LEMMA TellsStart ==
  ASSUME NEW h, NEW r, NEW K, Tells(h, r, K), r.pc = "none", NEW q, q.pc = "resync", q.todo = {},
         NEW k, k.connected = h.connected, k.disconnected = h.disconnected,
         h.closing => k.closing, k.subs = h.subs
  PROVE  Tells(k, q, K)
<1>1. Says(k) = Says(h)
  BY DEF Says
<1>2. AnnouncedAt(k, q)
  BY <1>1 DEF Tells, AnnouncedAt
<1>3. KnownAt(k, q, K)
  BY <1>1 DEF Tells, KnownAt
<1> QED BY <1>2, <1>3 DEF Tells

(* Calls that neither join nor leave a feed. *)
LEMMA TelltaleQuiet ==
  ASSUME Types, Types', Telltale, FeedsQuiet, ReadersQuiet, UNCHANGED heard,
         \A u \in Subscribers : Quietly(subs[u], subs'[u])
  PROVE  Telltale'
<1>1. /\ subs \in [Subscribers -> Sub] /\ DOMAIN feeds \subseteq Feeds /\ DOMAIN feeds' \subseteq Feeds
      /\ \A f \in Feeds : readers[f].todo \subseteq Subscribers
      /\ \A f \in DOMAIN feeds : feeds[f].subs \subseteq Subscribers
  <2>1. TypeOK /\ Shape /\ TypeOK' /\ Shape'
    BY DEF Types, Core
  <2>2. DOMAIN feeds' \subseteq Feeds
    BY <2>1, BoundsAssumption DEF TypeOK, Feeds
  <2> QED BY <2>1, <2>2, Typing DEF Feed, Reader
<1>2. \A f \in DOMAIN feeds' \ DOMAIN feeds : readers'[f].todo = {}
  BY <1>1 DEF FeedsQuiet, Types, Core, Reading
<1>3. \A f \in DOMAIN feeds : readers'[f].todo = readers[f].todo
  BY <1>1 DEF ReadersQuiet
<1>4. Known' = Known
  BY <1>1 DEF Known, Quietly, Here
<1>5. OneFeed'
  <2>1. ASSUME NEW f \in DOMAIN feeds', NEW s \in feeds'[f].subs
        PROVE  subs'[s].feed = f /\ subs'[s].pc \in Here
    BY <1>1, <2>1 DEF FeedsQuiet, Telltale, OneFeed, Quietly
  <2>2. ASSUME NEW f \in DOMAIN feeds', NEW s \in readers'[f].todo
        PROVE  /\ subs'[s].pc \notin Before /\ (subs'[s].pc \in Here => subs'[s].feed = f)
               /\ \A g \in DOMAIN feeds' : s \in readers'[g].todo => g = f
    <3>1. f \in DOMAIN feeds /\ s \in readers[f].todo /\ s \in Subscribers
      BY <1>1, <1>2, <1>3, <2>2
    <3>2. /\ subs[s].pc \notin Before /\ (subs[s].pc \in Here => subs[s].feed = f)
          /\ \A g \in DOMAIN feeds : s \in readers[g].todo => g = f
      BY <3>1 DEF Telltale, OneFeed
    <3>3. subs'[s].pc \notin Before /\ (subs'[s].pc \in Here => subs'[s].feed = f)
      BY <3>1, <3>2 DEF Quietly
    <3> QED BY <1>2, <1>3, <3>2, <3>3
  <2>3. ASSUME NEW s \in Subscribers, subs'[s].pc \in Before \cup {"joining"}
        PROVE  heard'.op[s] = "none"
    BY <2>3 DEF Telltale, OneFeed, Quietly, Here
  <2> QED BY <2>1, <2>2, <2>3 DEF OneFeed
<1>6. Telling'
  <2> SUFFICES ASSUME NEW f \in DOMAIN feeds' PROVE Tells(feeds'[f], readers'[f], Known)
    BY <1>4 DEF Telling
  <2>1. CASE f \notin DOMAIN feeds
    <3>1. /\ feeds'[f].subs = {} /\ ~feeds'[f].connected /\ ~feeds'[f].disconnected
          /\ readers'[f].pc = "none" /\ readers'[f].todo = {}
      BY <1>2, <2>1 DEF FeedsQuiet
    <3> QED BY <3>1 DEF Tells, AnnouncedAt, KnownAt, Says
  <2>2. CASE f \in DOMAIN feeds
    <3>1. Tells(feeds[f], readers[f], Known)
      BY <2>2 DEF Telltale, Telling
    <3>2. CASE readers'[f] = readers[f]
      BY <2>2, <3>1, <3>2, TellsFrame DEF FeedsQuiet
    <3>3. CASE readers'[f] # readers[f]
      <4>1. readers[f].pc = "none" /\ readers'[f].pc = "resync" /\ readers'[f].todo = {}
        BY <1>1, <2>2, <3>3 DEF ReadersQuiet, Types, Core, Reading
      <4> QED BY <2>2, <3>1, <4>1, TellsStart DEF FeedsQuiet
    <3> QED BY <3>2, <3>3
  <2> QED BY <2>1, <2>2
<1>7. Inside'
  <2> SUFFICES ASSUME NEW s \in Subscribers, subs'[s].inside
               PROVE  subs'[s].pc \in {"release", "signal"} /\ readers'[subs'[s].feed].in = s
    BY DEF Inside
  <2>1. /\ subs[s].inside /\ subs'[s].feed = subs[s].feed
        /\ subs'[s] = subs[s] \/ subs'[s].pc \in {"release", "signal"}
    BY DEF Quietly
  <2>2. subs[s].pc \in {"release", "signal"} /\ readers[subs[s].feed].in = s
    BY <2>1 DEF Telltale, Inside
  <2>3. subs[s].feed \in Feeds
    BY <1>1, <2>2 DEF Types, Core, Shape, Holding
  <2>4. readers'[subs[s].feed].in = readers[subs[s].feed].in
    BY <2>3 DEF ReadersQuiet
  <2> QED BY <2>1, <2>2, <2>4
<1> QED BY <1>5, <1>6, <1>7 DEF Telltale

(* A subscriber joins, and will be told what was last announced. *)
LEMMA TelltaleJoin ==
  ASSUME Types, Telltale, NEW s \in Subscribers, Join(s)
  PROVE  Telltale'
<1>1. /\ TypeOK /\ Shape /\ subs \in [Subscribers -> Sub] /\ DOMAIN feeds \subseteq Feeds
      /\ \A f \in DOMAIN feeds : readers[f].todo \subseteq Subscribers /\ feeds[f].subs \subseteq Subscribers
  BY Typing DEF Types, Core, Feed, Reader
<1>2. PICK f \in DOMAIN feeds : f = subs[s].feed
  BY <1>1, JoinEffect
<1>3. subs[s].pc = "held" /\ UNCHANGED <<readers, heard>>
  BY <1>1, JoinEffect
<1>4. PICK g \in Sub : /\ SubIs(s, g) /\ g.feed = f /\ g.inside = subs[s].inside
                       /\ g.pc = "joining" /\ g.joining = JoiningOp(f)
  BY <1>1, <1>2, JoinEffect
<1>5. PICK h \in Feed : FeedIs(f, h) /\ AsBefore(h, feeds[f]) /\ h.subs = feeds[f].subs \cup {s}
  BY <1>1, <1>2, JoinEffect
<1>6. subs'[s] = g /\ \A u \in Subscribers \ {s} : subs'[u] = subs[u]
  BY <1>1, <1>4, OneSub
<1>7. /\ DOMAIN feeds' = DOMAIN feeds /\ feeds'[f] = h
      /\ \A x \in DOMAIN feeds \ {f} : feeds'[x] = feeds[x]
  BY <1>1, <1>5, OneChanges
<1>8. /\ heard.op[s] = "none" /\ ~subs[s].inside
      /\ \A x \in DOMAIN feeds : s \notin feeds[x].subs /\ s \notin readers[x].todo
  BY <1>3 DEF Telltale, OneFeed, Inside, Before, Here
<1>9. \A u \in Subscribers \ {s} : Known'[u] = Known[u]
  BY <1>3, <1>6 DEF Known
<1>10. Known'[s] = Says(feeds[f])
  <2>1. JoiningOp(f) = Says(feeds[f])
    BY DEF JoiningOp, Says
  <2> QED BY <1>3, <1>4, <1>6, <1>8, <2>1 DEF Known
<1>11. OneFeed'
  <2>1. ASSUME NEW x \in DOMAIN feeds', NEW u \in feeds'[x].subs
        PROVE  subs'[u].feed = x /\ subs'[u].pc \in Here
    <3>1. CASE u = s
      BY <1>4, <1>5, <1>6, <1>7, <1>8, <2>1, <3>1 DEF Here
    <3>2. CASE u # s
      <4>1. x \in DOMAIN feeds /\ u \in feeds[x].subs
        BY <1>5, <1>7, <2>1, <3>2
      <4> QED BY <1>1, <1>6, <3>2, <4>1 DEF Telltale, OneFeed
    <3> QED BY <3>1, <3>2
  <2>2. ASSUME NEW x \in DOMAIN feeds', NEW u \in readers'[x].todo
        PROVE  /\ subs'[u].pc \notin Before /\ (subs'[u].pc \in Here => subs'[u].feed = x)
               /\ \A y \in DOMAIN feeds' : u \in readers'[y].todo => y = x
    <3>1. x \in DOMAIN feeds /\ u \in readers[x].todo /\ u # s /\ u \in Subscribers
      BY <1>1, <1>3, <1>7, <1>8, <2>2
    <3> QED BY <1>3, <1>6, <1>7, <3>1 DEF Telltale, OneFeed
  <2>3. ASSUME NEW u \in Subscribers, subs'[u].pc \in Before \cup {"joining"}
        PROVE  heard'.op[u] = "none"
    BY <1>3, <1>6, <1>8, <2>3 DEF Telltale, OneFeed
  <2> QED BY <2>1, <2>2, <2>3 DEF OneFeed
<1>12. Telling'
  <2> SUFFICES ASSUME NEW x \in DOMAIN feeds PROVE Tells(feeds'[x], readers[x], Known')
    BY <1>3, <1>7 DEF Telling
  <2>1. Tells(feeds[x], readers[x], Known)
    BY DEF Telltale, Telling
  <2>2. \A u \in readers[x].todo \cup feeds[x].subs : Known'[u] = Known[u]
    BY <1>1, <1>8, <1>9
  <2>3. CASE x # f
    BY <1>7, <2>1, <2>2, <2>3, TellsFrame
  <2>4. CASE x = f
    <3>1. Says(h) = Says(feeds[f]) /\ h.closing = feeds[f].closing
      BY <1>5 DEF AsBefore, Says
    <3>2. AnnouncedAt(h, readers[f])
      BY <1>5, <2>1, <2>4, <3>1 DEF Tells, AnnouncedAt, AsBefore
    <3>3. KnownAt(h, readers[f], Known')
      BY <1>5, <1>10, <2>1, <2>2, <2>4, <3>1 DEF Tells, KnownAt
    <3> QED BY <1>7, <2>4, <3>2, <3>3 DEF Tells
  <2> QED BY <2>3, <2>4
<1>13. Inside'
  BY <1>3, <1>4, <1>6, <1>8 DEF Telltale, Inside
<1> QED BY <1>11, <1>12, <1>13 DEF Telltale

(* The call that joined tells its subscriber. *)
LEMMA TelltaleDeliver ==
  ASSUME Types, Telltale, NEW s \in Subscribers, DeliverJoining(s)
  PROVE  Telltale'
<1>1. /\ TypeOK /\ Shape /\ subs \in [Subscribers -> Sub] /\ heard \in HeardType
      /\ \A f \in DOMAIN feeds : readers[f].todo \subseteq Subscribers /\ feeds[f].subs \subseteq Subscribers
  BY Typing DEF Types, Core, Feed, Reader, TypeOK, HeardType
<1>2. PICK f \in DOMAIN feeds : f = subs[s].feed
  BY <1>1, DeliverEffect
<1>3. /\ subs[s].pc = "joining" /\ UNCHANGED <<feeds, readers>>
      /\ subs[s].joining \in {"none", "resync", "disconnect"}
  BY <1>1, DeliverEffect
<1>4. PICK g \in Sub : SubIs(s, g) /\ g.feed = f /\ g.inside = subs[s].inside /\ g.pc = "active"
  BY <1>1, <1>2, DeliverEffect
<1>5. subs'[s] = g /\ \A u \in Subscribers \ {s} : subs'[u] = subs[u]
  BY <1>1, <1>4, OneSub
<1>6. Told(f, s, subs[s].joining)
  BY <1>2 DEF DeliverJoining
<1>7. /\ \A u \in Subscribers \ {s} : heard'.op[u] = heard.op[u]
      /\ heard'.op[s] = IF feeds[f].closing \/ subs[s].joining \in {"none", "key"} THEN heard.op[s]
                        ELSE subs[s].joining
  BY <1>1, <1>3, <1>6, ToldEffect
<1>8. \A u \in Subscribers \ {s} : Known'[u] = Known[u]
  BY <1>5, <1>7 DEF Known
<1>9. ~feeds[f].closing => Known'[s] = Known[s]
  BY <1>3, <1>4, <1>5, <1>7 DEF Known
<1>10. \A x \in DOMAIN feeds : s \in feeds[x].subs \cup readers[x].todo => x = f
  BY <1>2, <1>3 DEF Telltale, OneFeed, Here
<1>11. OneFeed'
  <2>1. ASSUME NEW x \in DOMAIN feeds, NEW u \in feeds[x].subs
        PROVE  subs'[u].feed = x /\ subs'[u].pc \in Here
    BY <1>1, <1>4, <1>5, <1>10, <2>1 DEF Telltale, OneFeed, Here
  <2>2. ASSUME NEW x \in DOMAIN feeds, NEW u \in readers[x].todo
        PROVE  /\ subs'[u].pc \notin Before /\ (subs'[u].pc \in Here => subs'[u].feed = x)
               /\ \A y \in DOMAIN feeds : u \in readers[y].todo => y = x
    BY <1>1, <1>4, <1>5, <1>10, <2>2 DEF Telltale, OneFeed, Before
  <2>3. ASSUME NEW u \in Subscribers, subs'[u].pc \in Before \cup {"joining"}
        PROVE  heard'.op[u] = "none"
    BY <1>4, <1>5, <1>7, <2>3 DEF Telltale, OneFeed, Before
  <2> QED BY <1>3, <2>1, <2>2, <2>3 DEF OneFeed
<1>12. Telling'
  <2> SUFFICES ASSUME NEW x \in DOMAIN feeds PROVE Tells(feeds[x], readers[x], Known')
    BY <1>3 DEF Telling
  <2>1. Tells(feeds[x], readers[x], Known)
    BY DEF Telltale, Telling
  <2>2. ~feeds[x].closing => \A u \in readers[x].todo \cup feeds[x].subs : Known'[u] = Known[u]
    BY <1>1, <1>8, <1>9, <1>10
  <2> QED BY <2>1, <2>2, TellsFrame
<1>13. Inside'
  BY <1>3, <1>4, <1>5 DEF Telltale, Inside
<1> QED BY <1>11, <1>12, <1>13 DEF Telltale

(* A subscriber leaves its feed. *)
LEMMA TelltaleTeardown ==
  ASSUME Types, Telltale, NEW s \in Subscribers, NEW inside \in BOOLEAN, Teardown(s, inside)
  PROVE  Telltale'
<1>1. /\ TypeOK /\ Shape /\ subs \in [Subscribers -> Sub]
      /\ \A f \in DOMAIN feeds : readers[f].todo \subseteq Subscribers /\ feeds[f].subs \subseteq Subscribers
  BY Typing DEF Types, Core, Feed, Reader
<1>2. PICK f \in DOMAIN feeds : f = subs[s].feed
  BY <1>1, TeardownEffect
<1>3. subs[s].pc = "active" /\ (inside => readers[f].in = s) /\ UNCHANGED <<readers, heard>>
  BY <1>1, <1>2, TeardownEffect
<1>4. PICK g \in Sub : SubIs(s, g) /\ g.feed = f /\ g.inside = inside /\ g.pc = "release"
  BY <1>1, <1>2, TeardownEffect
<1>5. PICK h \in Feed : FeedIs(f, h) /\ AsBefore(h, feeds[f]) /\ h.subs = feeds[f].subs \ {s}
  BY <1>1, <1>2, TeardownEffect
<1>6. subs'[s] = g /\ \A u \in Subscribers \ {s} : subs'[u] = subs[u]
  BY <1>1, <1>4, OneSub
<1>7. /\ DOMAIN feeds' = DOMAIN feeds /\ feeds'[f] = h
      /\ \A x \in DOMAIN feeds \ {f} : feeds'[x] = feeds[x]
  BY <1>1, <1>5, OneChanges
<1>8. Known' = Known
  BY <1>3, <1>4, <1>6 DEF Known
<1>9. \A x \in DOMAIN feeds : s \notin feeds'[x].subs /\ feeds'[x].subs \subseteq feeds[x].subs
  BY <1>2, <1>5, <1>7 DEF Telltale, OneFeed
<1>10. OneFeed'
  <2>1. ASSUME NEW x \in DOMAIN feeds, NEW u \in feeds'[x].subs
        PROVE  subs'[u].feed = x /\ subs'[u].pc \in Here
    BY <1>1, <1>6, <1>9, <2>1 DEF Telltale, OneFeed
  <2>2. ASSUME NEW x \in DOMAIN feeds, NEW u \in readers[x].todo
        PROVE  /\ subs'[u].pc \notin Before /\ (subs'[u].pc \in Here => subs'[u].feed = x)
               /\ \A y \in DOMAIN feeds : u \in readers[y].todo => y = x
    BY <1>1, <1>4, <1>6, <2>2 DEF Telltale, OneFeed, Before, Here
  <2>3. ASSUME NEW u \in Subscribers, subs'[u].pc \in Before \cup {"joining"}
        PROVE  heard'.op[u] = "none"
    BY <1>3, <1>4, <1>6, <2>3 DEF Telltale, OneFeed, Before
  <2> QED BY <1>3, <1>7, <2>1, <2>2, <2>3 DEF OneFeed
<1>11. Telling'
  <2> SUFFICES ASSUME NEW x \in DOMAIN feeds PROVE Tells(feeds'[x], readers[x], Known)
    BY <1>3, <1>7, <1>8 DEF Telling
  <2>1. Tells(feeds[x], readers[x], Known)
    BY DEF Telltale, Telling
  <2>2. AsBefore(feeds'[x], feeds[x])
    BY <1>5, <1>7 DEF AsBefore
  <2> QED BY <1>9, <2>1, <2>2, TellsFrame DEF AsBefore
<1>12. Inside'
  BY <1>3, <1>4, <1>6 DEF Telltale, Inside
<1> QED BY <1>10, <1>11, <1>12 DEF Telltale

(* A reader with nobody left to call goes elsewhere. *)
LEMMA TellsMove ==
  ASSUME NEW h, NEW r, NEW K, Tells(h, r, K), r.pc # "delivering" \/ r.todo = {},
         NEW q, q.todo = {}, AnnouncedAt(h, q)
  PROVE  Tells(h, q, K)
BY DEF Tells, KnownAt

(* It announces what it has not announced before. *)
LEMMA TellsMarker ==
  ASSUME NEW h, NEW r, NEW K, Tells(h, r, K), r.pc # "delivering", NEW k, k.subs = h.subs,
         k.closing = h.closing, ~(k.connected /\ k.disconnected), Says(k) \in {"resync", "disconnect"},
         ~h.closing => Says(h) # Says(k),
         NEW q, q.pc = "delivering", q.event = Says(k), q.todo = h.subs
  PROVE  Tells(k, q, K)
<1>1. AnnouncedAt(k, q)
  BY DEF AnnouncedAt
<1>2. KnownAt(k, q, K)
  BY DEF Tells, KnownAt
<1> QED BY <1>1, <1>2 DEF Tells

(* It hands on a notification. *)
LEMMA TellsKey ==
  ASSUME NEW h, NEW r, NEW K, Tells(h, r, K), r.pc = "consume",
         NEW q, q.pc = "delivering", q.event = "key", q.todo = h.subs
  PROVE  Tells(h, q, K)
<1>1. AnnouncedAt(h, q)
  BY DEF Tells, AnnouncedAt
<1>2. KnownAt(h, q, K)
  BY DEF Tells, KnownAt, AnnouncedAt
<1> QED BY <1>1, <1>2 DEF Tells

(* A reader moves and nobody is told. *)
LEMMA TelltaleReads ==
  ASSUME Types, Telltale, NEW f \in DOMAIN feeds, UNCHANGED <<subs, heard>>,
         DOMAIN feeds' = DOMAIN feeds, feeds'[f].subs = feeds[f].subs,
         \A x \in DOMAIN feeds \ {f} : feeds'[x] = feeds[x],
         NEW r \in Reader, ReaderIs(f, r), Tells(feeds'[f], r, Known),
         r.todo \subseteq readers[f].todo \cup feeds[f].subs,
         \A u \in Subscribers : subs[u].inside /\ readers[f].in = u => r.in = u
  PROVE  Telltale'
<1>1. /\ DOMAIN feeds \subseteq Feeds /\ readers \in [Feeds -> Reader] /\ f \in Feeds
  BY Typing DEF Types, Core
<1>2. readers'[f] = r /\ \A x \in Feeds \ {f} : readers'[x] = readers[x]
  BY <1>1, OneReads
<1>3. Known' = Known
  BY DEF Known
<1>4. OneFeed'
  <2>1. ASSUME NEW x \in DOMAIN feeds, NEW u \in feeds'[x].subs
        PROVE  subs[u].feed = x /\ subs[u].pc \in Here
    BY <2>1 DEF Telltale, OneFeed
  <2>2. ASSUME NEW x \in DOMAIN feeds, NEW u \in readers'[x].todo
        PROVE  u \in readers[x].todo \/ (x = f /\ u \in feeds[f].subs)
    BY <1>1, <1>2, <2>2
  <2>3. ASSUME NEW x \in DOMAIN feeds, NEW u \in readers'[x].todo
        PROVE  subs[u].pc \notin Before /\ (subs[u].pc \in Here => subs[u].feed = x)
    BY <2>2, <2>3 DEF Telltale, OneFeed, Before, Here
  <2>4. ASSUME NEW x \in DOMAIN feeds, NEW y \in DOMAIN feeds, NEW u \in readers'[x].todo,
               u \in readers'[y].todo
        PROVE  y = x
    BY <2>2, <2>4 DEF Telltale, OneFeed
  <2> QED BY <2>1, <2>3, <2>4 DEF Telltale, OneFeed
<1>5. Telling'
  <2> SUFFICES ASSUME NEW x \in DOMAIN feeds PROVE Tells(feeds'[x], readers'[x], Known)
    BY <1>3 DEF Telling
  <2>1. CASE x = f
    BY <1>2, <2>1
  <2>2. CASE x # f
    BY <1>1, <1>2, <2>2 DEF Telltale, Telling
  <2> QED BY <2>1, <2>2
<1>6. Inside'
  <2> SUFFICES ASSUME NEW u \in Subscribers, subs[u].inside
               PROVE  subs[u].pc \in {"release", "signal"} /\ readers'[subs[u].feed].in = u
    BY DEF Inside
  <2>1. subs[u].pc \in {"release", "signal"} /\ readers[subs[u].feed].in = u
    BY DEF Telltale, Inside
  <2>2. subs[u].feed \in Feeds
    BY <1>1, <2>1 DEF Types, Core, Shape, Holding
  <2> QED BY <1>2, <2>1, <2>2
<1> QED BY <1>4, <1>5, <1>6 DEF Telltale

(* The callback of a subscriber starts. *)
LEMMA TelltaleCallback ==
  ASSUME Types, Telltale, NEW f \in DOMAIN feeds, NEW s \in Subscribers, StartCallback(f, s)
  PROVE  Telltale'
<1>1. /\ DOMAIN feeds \subseteq Feeds /\ readers \in [Feeds -> Reader] /\ f \in Feeds
      /\ heard \in HeardType /\ readers[f] \in Reader
      /\ \A x \in DOMAIN feeds : readers[x].todo \subseteq Subscribers /\ feeds[x].subs \subseteq Subscribers
  BY Typing DEF Types, Core, Feed, Reader, TypeOK, HeardType
<1>2. /\ readers[f].pc = "delivering" /\ readers[f].in = Nobody /\ s \in readers[f].todo
      /\ subs[s].pc # "joining" /\ UNCHANGED <<feeds, subs>> /\ Told(f, s, readers[f].event)
      /\ readers' = [readers EXCEPT ![f] = [readers[f] EXCEPT !.in = s, !.todo = @ \ {s}]]
  BY DEF StartCallback
<1>3. PICK r \in Reader : /\ ReaderIs(f, r) /\ r.pc = readers[f].pc /\ r.event = readers[f].event
                          /\ r.then = readers[f].then /\ r.in = s /\ r.todo = readers[f].todo \ {s}
  <2>1. readers[f] \in Reader
    BY <1>1
  <2>2. readers' = [readers EXCEPT ![f] = [readers[f] EXCEPT !.in = s, !.todo = @ \ {s}]]
    BY <1>2
  <2> QED BY <2>1, <2>2, CallbackEffect
<1>4. readers'[f] = r /\ \A x \in Feeds \ {f} : readers'[x] = readers[x]
  BY <1>1, <1>3, OneReads
<1>5. readers[f].event \in {"resync", "disconnect", "key"}
  BY <1>1, <1>2 DEF Types, Core, Reading
<1>6. /\ \A u \in Subscribers \ {s} : heard'.op[u] = heard.op[u]
      /\ heard'.op[s] = IF feeds[f].closing \/ readers[f].event \in {"none", "key"} THEN heard.op[s]
                        ELSE readers[f].event
  BY <1>1, <1>2, <1>5, ToldEffect
<1>7. /\ subs[s].pc \notin Before \cup {"joining"}
      /\ \A x \in DOMAIN feeds : s \in readers[x].todo \cup feeds[x].subs => x = f
  <2>1. /\ subs[s].pc \notin Before /\ (subs[s].pc \in Here => subs[s].feed = f)
        /\ \A x \in DOMAIN feeds : s \in readers[x].todo => x = f
    BY <1>2 DEF Telltale, OneFeed
  <2>2. \A x \in DOMAIN feeds : s \in feeds[x].subs => subs[s].pc \in Here /\ subs[s].feed = x
    BY DEF Telltale, OneFeed
  <2> QED BY <1>2, <2>1, <2>2
<1>8. \A u \in Subscribers \ {s} : Known'[u] = Known[u]
  BY <1>2, <1>6 DEF Known
<1>9. Known'[s] = heard'.op[s] /\ Known[s] = heard.op[s]
  BY <1>2 DEF Known
<1>10. OneFeed'
  <2>1. \A x \in DOMAIN feeds : readers'[x].todo \subseteq readers[x].todo
    BY <1>1, <1>3, <1>4
  <2>2. \A u \in Subscribers : subs[u].pc \in Before \cup {"joining"} => heard'.op[u] = "none"
    BY <1>6, <1>7 DEF Telltale, OneFeed
  <2> QED BY <1>2, <2>1, <2>2 DEF Telltale, OneFeed
<1>11. Telling'
  <2> SUFFICES ASSUME NEW x \in DOMAIN feeds PROVE Tells(feeds[x], readers'[x], Known')
    BY <1>2 DEF Telling
  <2>1. Tells(feeds[x], readers[x], Known)
    BY DEF Telltale, Telling
  <2>2. CASE x # f
    <3>1. \A u \in readers[x].todo \cup feeds[x].subs : Known'[u] = Known[u]
      BY <1>1, <1>7, <1>8, <2>2
    <3> QED BY <1>1, <1>4, <2>1, <2>2, <3>1, TellsFrame
  <2>3. CASE x = f
    <3>1. AnnouncedAt(feeds[f], r)
      BY <1>2, <1>3, <2>1, <2>3 DEF Tells, AnnouncedAt
    <3>2. ASSUME ~feeds[f].closing PROVE Known'[s] = Says(feeds[f])
      <4>1. CASE readers[f].event = "key"
        <5>1. Known'[s] = Known[s] /\ Known[s] = "resync"
          BY <1>2, <1>6, <1>9, <2>1, <2>3, <3>2, <4>1 DEF Tells, KnownAt
        <5> QED BY <1>2, <2>1, <2>3, <3>2, <4>1, <5>1 DEF Tells, AnnouncedAt
      <4>2. CASE readers[f].event \in {"resync", "disconnect"}
        <5>1. Known'[s] = readers[f].event
          BY <1>6, <1>9, <3>2, <4>2
        <5> QED BY <1>2, <2>1, <2>3, <3>2, <4>2, <5>1 DEF Tells, AnnouncedAt
      <4> QED BY <1>5, <4>1, <4>2
    <3>3. KnownAt(feeds[f], r, Known')
      <4> SUFFICES ASSUME ~feeds[f].closing
                   PROVE  /\ \A u \in r.todo : IF r.event = "key" THEN Known'[u] = "resync"
                                               ELSE Known'[u] # r.event
                          /\ \A u \in feeds[f].subs :
                               \/ r.pc = "delivering" /\ r.event # "key" /\ u \in r.todo
                               \/ Known'[u] = Says(feeds[f])
        BY DEF KnownAt
      <4>1. /\ \A u \in readers[f].todo : IF readers[f].event = "key" THEN Known[u] = "resync"
                                          ELSE Known[u] # readers[f].event
            /\ \A u \in feeds[f].subs :
                 \/ readers[f].pc = "delivering" /\ readers[f].event # "key" /\ u \in readers[f].todo
                 \/ Known[u] = Says(feeds[f])
        BY <2>1, <2>3 DEF Tells, KnownAt
      <4>2. \A u \in readers[f].todo \cup feeds[f].subs : u # s => Known'[u] = Known[u]
        BY <1>1, <1>8
      <4> QED BY <1>3, <3>2, <4>1, <4>2
    <3> QED BY <1>4, <2>3, <3>1, <3>3 DEF Tells
  <2> QED BY <2>2, <2>3
<1>12. Inside'
  <2> SUFFICES ASSUME NEW u \in Subscribers, subs[u].inside
               PROVE  subs[u].pc \in {"release", "signal"} /\ readers'[subs[u].feed].in = u
    BY <1>2 DEF Inside
  <2>1. subs[u].pc \in {"release", "signal"} /\ readers[subs[u].feed].in = u
    BY DEF Telltale, Inside
  <2>2. subs[u].feed \in Feeds /\ subs[u].feed # f
    BY <1>1, <1>2, <2>1, NobodyAssumption DEF Types, Core, Shape, Holding
  <2> QED BY <1>4, <2>1, <2>2
<1> QED BY <1>10, <1>11, <1>12 DEF Telltale

(* A step of a reader. *)
LEMMA TelltaleReader ==
  ASSUME Types, Telltale, NEW f \in DOMAIN feeds, ReaderStep(f)
  PROVE  Telltale'
<1>1. /\ TypeOK /\ Shape /\ Reading /\ feeds[f] \in Feed /\ f \in Feeds /\ readers[f] \in Reader
      /\ Tells(feeds[f], readers[f], Known) /\ AnnouncedAt(feeds[f], readers[f])
  BY Typing DEF Types, Core, Telltale, Telling, Tells
<1>2. UNCHANGED subs
  BY <1>1, ReaderFrame
<1>3. readers[f].pc # "delivering" => readers[f].todo = {} /\ readers[f].in = Nobody
  BY <1>1 DEF Reading
<1>4. ASSUME readers[f].in = Nobody PROVE \A u \in Subscribers : readers[f].in # u
  BY <1>4, NobodyAssumption
<1>5. ASSUME UNCHANGED <<feeds, heard>>, readers[f].in = Nobody, readers[f].todo = {},
             NEW pc \in {"resync", "consume", "lost", "reconnect", "dialing", "exited"}, Move(f, pc),
             ~feeds[f].closing =>
               /\ pc = "resync" => Says(feeds[f]) # "resync"
               /\ pc \in {"consume", "lost"} => Says(feeds[f]) = "resync"
               /\ pc \in {"reconnect", "dialing", "exited"} => Says(feeds[f]) = "disconnect"
      PROVE  Telltale'
  <2>1. PICK r \in Reader : ReaderIs(f, r) /\ Elsewhere(r) /\ r.pc = pc
    BY <1>5, MoveEffect
  <2>2. AnnouncedAt(feeds[f], r)
    BY <1>1, <1>5, <2>1 DEF AnnouncedAt
  <2>3. Tells(feeds'[f], r, Known)
    BY <1>1, <1>5, <2>1, <2>2, TellsMove DEF Elsewhere
  <2> QED BY <1>2, <1>4, <1>5, <2>1, <2>3, TelltaleReads DEF Elsewhere
<1>6. ASSUME NEW up \in BOOLEAN, UNCHANGED heard, readers[f].pc # "delivering",
             feeds' = [feeds EXCEPT ![f] = [@ EXCEPT !.connected = up, !.disconnected = ~up]],
             NEW event, NEW then, Broadcast(f, event, then),
             <<event, then>> = IF up THEN <<"resync", "consume">> ELSE <<"disconnect", "reconnect">>,
             ~feeds[f].closing => Says(feeds[f]) # event
      PROVE  Telltale'
  <2>1. PICK h \in Feed : /\ FeedIs(f, h) /\ h.connected = up /\ h.disconnected = ~up
                          /\ h.closing = feeds[f].closing /\ h.subs = feeds[f].subs
    BY <1>1, <1>6, FlagsEffect
  <2>2. <<event, then>> \in {<<"resync", "consume">>, <<"key", "consume">>,
                             <<"disconnect", "reconnect">>}
    BY <1>6
  <2>3. PICK r \in Reader : /\ ReaderIs(f, r) /\ FanningOut(r) /\ r.event = event
                            /\ r.todo = feeds[f].subs /\ r.in = Nobody
    BY <1>1, <1>6, <2>2, BroadcastEffect
  <2>4. /\ DOMAIN feeds' = DOMAIN feeds /\ feeds'[f] = h
        /\ \A x \in DOMAIN feeds \ {f} : feeds'[x] = feeds[x]
    BY <1>1, <2>1, OneChanges
  <2>5. event = Says(h) /\ event \in {"resync", "disconnect"} /\ ~(h.connected /\ h.disconnected)
    <3>1. CASE up = TRUE
      BY <1>6, <2>1, <3>1 DEF Says
    <3>2. CASE up = FALSE
      BY <1>6, <2>1, <3>2 DEF Says
    <3> QED BY <3>1, <3>2
  <2>6. r.pc = "delivering"
    BY <2>3 DEF FanningOut
  <2>7. Tells(h, r, Known)
    BY <1>1, <1>6, <2>1, <2>3, <2>5, <2>6, TellsMarker
  <2> QED BY <1>2, <1>3, <1>4, <1>6, <2>1, <2>3, <2>4, <2>7, TelltaleReads
<1>7. CASE BeginResync(f)
  <2>1. CASE feeds[f].closing
    BY <1>3, <1>5, <1>7, <2>1 DEF BeginResync
  <2>2. CASE ~feeds[f].closing
    <3>1. Says(feeds[f]) # "resync"
      BY <1>1, <1>7, <2>2 DEF BeginResync, AnnouncedAt
    <3>2. /\ feeds' = [feeds EXCEPT ![f] = [@ EXCEPT !.connected = TRUE, !.disconnected = ~TRUE]]
          /\ Broadcast(f, "resync", "consume") /\ UNCHANGED heard /\ readers[f].pc # "delivering"
      BY <1>7, <2>2 DEF BeginResync
    <3> QED BY <1>6, <3>1, <3>2
  <2> QED BY <2>1, <2>2
<1>8. CASE BeginDisconnect(f)
  <2>1. readers[f].pc = "lost" /\ UNCHANGED heard
    BY <1>8 DEF BeginDisconnect
  <2>2. ~feeds[f].closing => Says(feeds[f]) = "resync" /\ ~(feeds[f].connected /\ feeds[f].disconnected)
    BY <1>1, <2>1 DEF AnnouncedAt
  <2>3. CASE feeds[f].closing \/ feeds[f].disconnected
    <3>1. feeds[f].closing
      BY <2>2, <2>3 DEF Says
    <3>2. Move(f, "reconnect") /\ UNCHANGED feeds
      BY <1>8, <2>3 DEF BeginDisconnect
    <3> QED BY <1>3, <1>5, <2>1, <3>1, <3>2
  <2>4. CASE ~(feeds[f].closing \/ feeds[f].disconnected)
    <3>1. /\ feeds' = [feeds EXCEPT ![f] = [@ EXCEPT !.connected = FALSE, !.disconnected = ~FALSE]]
          /\ Broadcast(f, "disconnect", "reconnect")
      BY <1>8, <2>4 DEF BeginDisconnect
    <3> QED BY <1>6, <2>1, <2>2, <3>1
  <2> QED BY <2>3, <2>4
<1>9. CASE HandleNotification(f)
  <2>1. /\ readers[f].pc = "consume" /\ UNCHANGED <<feeds, heard>> /\ Broadcast(f, "key", "consume")
    BY <1>9 DEF HandleNotification
  <2>2. PICK r \in Reader : /\ ReaderIs(f, r) /\ FanningOut(r) /\ r.event = "key"
                            /\ r.todo = feeds[f].subs /\ r.in = Nobody
    BY <1>1, <2>1, BroadcastEffect
  <2>3. Tells(feeds'[f], r, Known)
    BY <1>1, <2>1, <2>2, TellsKey DEF FanningOut
  <2> QED BY <1>2, <1>3, <1>4, <2>1, <2>2, <2>3, TelltaleReads
<1>10. CASE ConsumeFails(f) \/ Reconnected(f) \/ ReconnectFails(f) \/ Attempt(f)
  <2>1. /\ UNCHANGED <<feeds, heard>> /\ readers[f].pc \in {"consume", "dialing", "reconnect"}
        /\ \/ readers[f].pc = "consume" /\ Move(f, "lost")
           \/ readers[f].pc = "dialing" /\ (Move(f, "resync") \/ Move(f, "reconnect"))
           \/ readers[f].pc = "reconnect" /\ (Move(f, "exited") \/ Move(f, "dialing"))
    BY <1>10 DEF ConsumeFails, Reconnected, ReconnectFails, Attempt
  <2>2. ~feeds[f].closing =>
          Says(feeds[f]) = IF readers[f].pc = "consume" THEN "resync" ELSE "disconnect"
    BY <1>1, <2>1 DEF AnnouncedAt
  <2> QED BY <1>3, <1>5, <2>1, <2>2
<1>11. CASE EndDispatch(f)
  <2>1. /\ UNCHANGED <<feeds, heard>> /\ readers[f].pc = "delivering" /\ readers[f].in = Nobody
        /\ readers[f].todo = {} /\ Move(f, readers[f].then)
    BY <1>11 DEF EndDispatch
  <2>2. \/ readers[f].event \in {"resync", "key"} /\ readers[f].then = "consume"
        \/ readers[f].event = "disconnect" /\ readers[f].then = "reconnect"
    BY <1>1, <2>1 DEF Reading
  <2>3. ~feeds[f].closing =>
          Says(feeds[f]) = IF readers[f].event = "disconnect" THEN "disconnect" ELSE "resync"
    BY <1>1, <2>1 DEF AnnouncedAt
  <2>4. CASE readers[f].then = "consume"
    BY <1>5, <2>1, <2>2, <2>3, <2>4
  <2>5. CASE readers[f].then = "reconnect"
    BY <1>5, <2>1, <2>2, <2>3, <2>5
  <2> QED BY <2>2, <2>4, <2>5
<1>12. CASE EndCallback(f)
  <2>1. /\ UNCHANGED <<feeds, heard>> /\ readers' = [readers EXCEPT ![f].in = Nobody]
        /\ ~(subs[readers[f].in].inside /\ subs[readers[f].in].pc \in {"release", "signal", "stopping"})
    BY <1>12 DEF EndCallback
  <2>2. PICK r \in Reader : /\ ReaderIs(f, r) /\ r.pc = readers[f].pc /\ r.event = readers[f].event
                            /\ r.then = readers[f].then /\ r.in = Nobody /\ r.todo = readers[f].todo
    BY <1>1, <2>1, CallbackEnds
  <2>3. Tells(feeds'[f], r, Known)
    BY <1>1, <2>1, <2>2 DEF Tells, AnnouncedAt, KnownAt
  <2>4. \A u \in Subscribers : ~(subs[u].inside /\ readers[f].in = u)
    BY <2>1 DEF Telltale, Inside
  <2> QED BY <1>2, <2>1, <2>2, <2>3, <2>4, TelltaleReads
<1> QED BY <1>7, <1>8, <1>9, <1>10, <1>11, <1>12, TelltaleCallback DEF ReaderStep

(* One feed keeps its subscribers and what it announced. *)
LEMMA QuietFeed ==
  ASSUME Types, NEW f \in DOMAIN feeds, NEW h \in Feed, FeedIs(f, h), h.subs = feeds[f].subs,
         h.connected = feeds[f].connected, h.disconnected = feeds[f].disconnected,
         feeds[f].closing => h.closing
  PROVE  FeedsQuiet
<1>1. /\ DOMAIN feeds' = DOMAIN feeds /\ feeds'[f] = h
      /\ \A x \in DOMAIN feeds \ {f} : feeds'[x] = feeds[x]
  BY OneChanges DEF Types, Core
<1> QED BY <1>1 DEF FeedsQuiet

(* A feed is reserved. *)
LEMMA QuietReserve ==
  ASSUME Types, NEW sc \in Scopes, NEW n \in Nat, Reserved(sc, n), UNCHANGED readers
  PROVE  FeedsQuiet
<1>1. PICK new \in Feeds : new = created + 1
  BY DEF Reserved
<1>2. /\ new \notin DOMAIN feeds /\ DOMAIN feeds' = DOMAIN feeds \cup {new}
      /\ feeds'[new] = NewFeed(sc, n) /\ \A x \in DOMAIN feeds : feeds'[x] = feeds[x]
  BY <1>1 DEF Reserved
<1>3. readers'[new].pc = "none"
  BY <1>2 DEF Types, Core, Shape
<1>4. feeds'[new].subs = {} /\ ~feeds'[new].connected /\ ~feeds'[new].disconnected
  BY <1>2 DEF NewFeed
<1> QED BY <1>2, <1>3, <1>4 DEF FeedsQuiet

(* A feed fails or is published. *)
LEMMA QuietVerdict ==
  ASSUME Types, NEW f \in DOMAIN feeds, feeds[f].state # "live",
         (FailLocked(f) /\ UNCHANGED readers) \/ (PublishFeed(f) /\ Publishable(f))
  PROVE  FeedsQuiet /\ ReadersQuiet
<1>1. TypeOK /\ Shape /\ readers \in [Feeds -> Reader] /\ f \in Feeds
  BY Typing DEF Types, Core
<1>2. CASE FailLocked(f) /\ UNCHANGED readers
  <2>1. PICK h \in Feed : /\ FeedIs(f, h) /\ h.closing = feeds[f].closing
                          /\ h.connected = feeds[f].connected
                          /\ h.disconnected = feeds[f].disconnected /\ h.subs = feeds[f].subs
    BY <1>1, <1>2, FailEffect
  <2> QED BY <1>2, <2>1, QuietFeed DEF ReadersQuiet
<1>3. CASE PublishFeed(f) /\ Publishable(f)
  <2>1. PICK h \in Feed : /\ FeedIs(f, h) /\ h.closing = feeds[f].closing
                          /\ h.connected = feeds[f].connected
                          /\ h.disconnected = feeds[f].disconnected /\ h.subs = feeds[f].subs
    BY <1>1, <1>3, PublishEffect
  <2>2. PICK r \in Reader : /\ ReaderIs(f, r) /\ r.pc = "resync" /\ r.todo = readers[f].todo
                            /\ r.in = readers[f].in
    BY <1>1, <1>3, PublishEffect
  <2>3. readers'[f] = r /\ \A x \in Feeds \ {f} : readers'[x] = readers[x]
    BY <1>1, <2>2, OneReads
  <2>4. readers[f].pc = "none"
    BY <1>1 DEF Shape
  <2> QED BY <2>1, <2>2, <2>3, <2>4, QuietFeed DEF ReadersQuiet
<1> QED BY <1>2, <1>3

(* What the subscribers were told, and will be, is kept by every step. *)
LEMMA TelltaleKept ==
  ASSUME Types, Types', Telltale, [Next]_vars
  PROVE  Telltale'
<1>1. /\ TypeOK /\ Shape /\ Reading /\ Counted /\ Creators
      /\ subs \in [Subscribers -> Sub] /\ DOMAIN feeds \subseteq Feeds
  BY Typing DEF Types, Core
<1>2. ASSUME NEW s \in Subscribers, NEW g \in Sub, SubIs(s, g), Quietly(subs[s], g)
      PROVE  \A u \in Subscribers : Quietly(subs[u], subs'[u])
  <2>1. subs'[s] = g /\ \A u \in Subscribers \ {s} : subs'[u] = subs[u]
    BY <1>1, <1>2, OneSub
  <2> QED BY <1>2, <2>1 DEF Quietly
<1>3. ASSUME NEW s \in Subscribers, subs[s].pc \notin {"release", "signal"}
      PROVE  ~subs[s].inside
  BY <1>3 DEF Telltale, Inside
<1>4. UNCHANGED readers => ReadersQuiet
  BY DEF ReadersQuiet
<1>5. UNCHANGED feeds => FeedsQuiet
  BY DEF FeedsQuiet
<1>6. UNCHANGED subs => \A u \in Subscribers : Quietly(subs[u], subs'[u])
  BY DEF Quietly
<1>7. ASSUME NEW s \in Subscribers, NEW sc \in Scopes, Subscribe(s, sc)
      PROVE  Telltale'
  <2>1. subs[s].pc = "idle" /\ UNCHANGED <<readers, heard>>
    BY <1>1, <1>7, SubscribeEffect
  <2>2. PICK g \in Sub :
          /\ SubIs(s, g) /\ (g.inside => subs[s].inside)
          /\ \/ g.pc = "refused" /\ UNCHANGED feeds
             \/ /\ slots[sc] # 0
                /\ g.pc = IF sc = Zero THEN "held" ELSE "waiting"
                /\ \E h \in Feed : /\ FeedIs(slots[sc], h) /\ AsBefore(h, feeds[slots[sc]])
                                   /\ h.subs = feeds[slots[sc]].subs
             \/ Reserved(sc, 1) /\ g.pc = IF sc = Zero THEN "held" ELSE "creating"
    BY <1>1, <1>7, SubscribeEffect
  <2>3. Quietly(subs[s], g)
    <3>1. g.pc \in {"refused", "held", "waiting", "creating"}
      BY <2>2
    <3> QED BY <1>3, <2>1, <2>2, <3>1 DEF Quietly, Before, Here
  <2>4. FeedsQuiet
    <3>1. ASSUME slots[sc] # 0, NEW h \in Feed, FeedIs(slots[sc], h), AsBefore(h, feeds[slots[sc]]),
                 h.subs = feeds[slots[sc]].subs
          PROVE  FeedsQuiet
      <4>1. PICK f \in DOMAIN feeds : f = slots[sc]
        BY <1>1, <3>1 DEF Shape
      <4> QED BY <3>1, <4>1, QuietFeed DEF AsBefore
    <3>2. Reserved(sc, 1) => FeedsQuiet
      BY <2>1, QuietReserve
    <3> QED BY <1>5, <2>2, <3>1, <3>2
  <2> QED BY <1>2, <1>4, <2>1, <2>2, <2>3, <2>4, TelltaleQuiet
<1>8. ASSUME NEW s \in Subscribers, Create(s) \/ CreateFails(s)
      PROVE  Telltale'
  <2>1. PICK f \in DOMAIN feeds : f = subs[s].feed
    BY <1>1, <1>8, CreateEffect
  <2>2. /\ subs[s].pc = "creating" /\ UNCHANGED heard
        /\ (FailLocked(f) /\ UNCHANGED readers) \/ (PublishFeed(f) /\ Publishable(f))
    BY <1>1, <1>8, <2>1, CreateEffect
  <2>3. PICK g \in Sub : SubIs(s, g) /\ g.pc \in {"refused", "held"} /\ (g.inside => subs[s].inside)
    BY <1>1, <1>8, CreateEffect
  <2>4. Quietly(subs[s], g)
    BY <1>3, <2>2, <2>3 DEF Quietly, Before, Here
  <2>5. feeds[f].state # "live"
    BY <1>1, <2>1, <2>2 DEF Creators
  <2> QED BY <1>2, <2>2, <2>3, <2>4, <2>5, QuietVerdict, TelltaleQuiet
<1>9. ASSUME NEW s \in Subscribers, AwaitFeed(s) \/ GiveUp(s)
      PROVE  Telltale'
  <2>1. subs[s].pc = "waiting" /\ UNCHANGED <<feeds, readers, heard>>
    BY <1>1, <1>9, AwaitEffect
  <2>2. PICK g \in Sub : SubIs(s, g) /\ g.inside = subs[s].inside /\ g.pc \in {"release", "held"}
    BY <1>1, <1>9, AwaitEffect
  <2>3. Quietly(subs[s], g)
    BY <1>3, <2>1, <2>2 DEF Quietly, Before, Here
  <2> QED BY <1>2, <1>4, <1>5, <2>1, <2>2, <2>3, TelltaleQuiet
<1>10. ASSUME NEW s \in Subscribers, ReleaseFeed(s)
       PROVE  Telltale'
  <2>1. PICK f \in DOMAIN feeds : f = subs[s].feed
    BY <1>1, <1>10, ReleaseEffect
  <2>2. subs[s].pc = "release" /\ UNCHANGED <<readers, heard>>
    BY <1>1, <1>10, ReleaseEffect
  <2>3. PICK h \in Feed : FeedIs(f, h) /\ AsBefore(h, feeds[f]) /\ h.subs = feeds[f].subs
    BY <1>1, <1>10, <2>1, ReleaseEffect
  <2>4. PICK g \in Sub : /\ SubIs(s, g)
                         /\ \/ g.pc = "signal" /\ g.feed = f /\ g.inside = subs[s].inside
                            \/ g.pc \in {"gone", "refused"} /\ g.inside = FALSE
    BY <1>1, <1>10, <2>1, ReleaseEffect
  <2>5. Quietly(subs[s], g)
    BY <2>1, <2>2, <2>4 DEF Quietly, Before, Here
  <2>6. FeedsQuiet
    BY <2>3, QuietFeed DEF AsBefore
  <2> QED BY <1>2, <1>4, <2>2, <2>4, <2>5, <2>6, TelltaleQuiet
<1>11. ASSUME NEW s \in Subscribers, StopFeed(s) \/ StopFeedReturns(s)
       PROVE  Telltale'
  <2>1. PICK f \in DOMAIN feeds : f = subs[s].feed
    BY <1>1, <1>11, StopEffect
  <2>2. subs[s].pc \in {"signal", "stopping"} /\ UNCHANGED <<readers, heard>>
    BY <1>1, <1>11, StopEffect
  <2>3. \/ UNCHANGED feeds
        \/ \E h \in Feed : /\ FeedIs(f, h) /\ h.closing = TRUE /\ h.connected = feeds[f].connected
                           /\ h.disconnected = feeds[f].disconnected /\ h.subs = feeds[f].subs
    BY <1>1, <1>11, <2>1, StopEffect, ZenonT(40)
  <2>4. PICK g \in Sub : /\ SubIs(s, g)
                         /\ \/ g.pc \in {"gone", "refused"} /\ g.inside = FALSE
                            \/ /\ g.pc = "stopping" /\ g.inside = subs[s].inside
                               /\ ~Dispatching(f)
    BY <1>1, <1>11, <2>1, StopEffect
  <2>5. g.pc = "stopping" => ~subs[s].inside
    <3> SUFFICES ASSUME ~Dispatching(f), subs[s].inside PROVE FALSE
      BY <2>4
    <3>1. readers[f].in = s
      BY <2>1 DEF Telltale, Inside
    <3>2. readers[f].in = Nobody
      BY <1>1 DEF Reading, Dispatching
    <3> QED BY <3>1, <3>2, NobodyAssumption
  <2>6. Quietly(subs[s], g)
    BY <2>2, <2>4, <2>5 DEF Quietly, Before, Here
  <2>7. FeedsQuiet
    BY <1>5, <2>3, QuietFeed
  <2> QED BY <1>2, <1>4, <2>2, <2>4, <2>6, <2>7, TelltaleQuiet
<1>12. ASSUME Start \/ StartFails \/ StartPublishes
       PROVE  Telltale'
  <2>1. UNCHANGED <<subs, heard>>
    BY <1>1, <1>12, StartEffect
  <2>2. CASE Zero \in Scopes /\ Reserved(Zero, 0) /\ UNCHANGED readers
    BY <1>4, <1>6, <2>1, <2>2, QuietReserve, TelltaleQuiet
  <2>3. CASE /\ starting # 0
             /\ \/ FailLocked(starting) /\ UNCHANGED readers
                \/ PublishFeed(starting) /\ Publishable(starting)
    <3>1. PICK f \in DOMAIN feeds : f = starting /\ feeds[f].state # "live"
      BY <1>1, <2>3 DEF Shape
    <3>2. (FailLocked(f) /\ UNCHANGED readers) \/ (PublishFeed(f) /\ Publishable(f))
      BY <2>3, <3>1
    <3> QED BY <1>6, <2>1, <3>1, <3>2, QuietVerdict, TelltaleQuiet
  <2>4. CASE /\ Zero \in Scopes /\ slots[Zero] # 0 /\ UNCHANGED readers
             /\ \E h \in Feed :
                  LET k == feeds[slots[Zero]] IN
                  /\ FeedIs(slots[Zero], h) /\ h.closing = k.closing /\ h.connected = k.connected
                  /\ h.disconnected = k.disconnected /\ h.subs = k.subs
    <3>1. PICK f \in DOMAIN feeds : f = slots[Zero]
      BY <1>1, <2>4 DEF Shape
    <3>2. PICK h \in Feed : /\ FeedIs(f, h) /\ h.closing = feeds[f].closing
                            /\ h.connected = feeds[f].connected
                            /\ h.disconnected = feeds[f].disconnected /\ h.subs = feeds[f].subs
      BY <2>4, <3>1
    <3>3. FeedsQuiet
      BY <3>2, QuietFeed
    <3> QED BY <1>4, <1>6, <2>1, <2>4, <3>3, TelltaleQuiet
  <2> QED BY <1>1, <1>12, <2>2, <2>3, <2>4, StartEffect
<1>13. ASSUME StopFeeds \/ (\E f \in toSignal : SignalFeed(f)) \/ CloseReturns
       PROVE  Telltale'
  <2>1. /\ UNCHANGED <<readers, subs, heard, created>> /\ feeds' \in [1 .. created -> Feed]
        /\ \A f \in DOMAIN feeds :
              /\ feeds'[f].subs = feeds[f].subs /\ feeds'[f].connected = feeds[f].connected
              /\ feeds'[f].disconnected = feeds[f].disconnected
              /\ feeds[f].closing => feeds'[f].closing
    BY <1>1, <1>13, CloseEffect
  <2>2. DOMAIN feeds' = DOMAIN feeds
    BY <1>1, <2>1, Typing
  <2>3. FeedsQuiet
    BY <2>1, <2>2 DEF FeedsQuiet
  <2> QED BY <1>4, <1>6, <2>1, <2>3, TelltaleQuiet
<1>14. CASE UNCHANGED vars
  <2>1. UNCHANGED <<feeds, readers, subs, heard>>
    BY <1>14 DEF vars
  <2> QED BY <1>4, <1>5, <1>6, <2>1, TelltaleQuiet
<1> QED BY <1>7, <1>8, <1>9, <1>10, <1>11, <1>12, <1>13, <1>14, NextCases, TelltaleJoin,
           TelltaleDeliver, TelltaleTeardown, TelltaleReader

(* What the subscribers are told holds throughout. *)
THEOREM TelltaleHolds == Spec => []Telltale
<1>1. Init => Telltale
  <2> SUFFICES ASSUME Init PROVE Telltale
    OBVIOUS
  <2>1. /\ DOMAIN feeds = {}
        /\ \A s \in Subscribers : ~subs[s].inside /\ heard.op[s] = "none"
    BY DEF Init, IdleSub, C!Init
  <2> QED BY <2>1 DEF Telltale, OneFeed, Telling, Inside
<1>2. Types /\ Types' /\ Telltale /\ [Next]_vars => Telltale'
  BY TelltaleKept
<1> QED BY <1>1, <1>2, TypesHold, PTL DEF Spec

(* Nobody misses an announcement: whoever joins reads what was announced   *)
(* in the hold that makes it a subscriber, and the fan-outs reach the      *)
(* others.                                                                 *)
THEOREM EverybodyInformed == Spec => []Informed
<1>1. Types /\ Telltale => Informed
  <2> SUFFICES ASSUME Types, Telltale, NEW f \in DOMAIN feeds, NEW s \in feeds[f].subs,
                      subs[s].pc = "active", ~feeds[f].closing
               PROVE  /\ readers[f].pc = "consume" => heard.op[s] = "resync"
                      /\ readers[f].pc \in {"reconnect", "dialing"} => heard.op[s] = "disconnect"
    BY DEF Informed
  <2>1. s \in Subscribers
    BY Typing DEF Types, Core, Feed
  <2>2. AnnouncedAt(feeds[f], readers[f]) /\ KnownAt(feeds[f], readers[f], Known)
    BY DEF Telltale, Telling, Tells
  <2>3. Known[s] = heard.op[s]
    BY <2>1 DEF Known
  <2> QED BY <2>2, <2>3 DEF AnnouncedAt, KnownAt
<1> QED BY <1>1, TypesHold, TelltaleHolds, PTL

(* A callback that drops the last subscription never waits for the reader  *)
(* that runs it: signalFeed sees the fan-out it is called from.            *)
THEOREM NeverWaitsForItself == Spec => []NoSelfWait
<1>1. Telltale => NoSelfWait
  BY DEF Telltale, Inside, NoSelfWait
<1> QED BY <1>1, TelltaleHolds, PTL

(* The feeds implement the store's contract with each subscriber: the      *)
(* markers it is handed alternate and the key events it is handed come     *)
(* after a resync it was handed itself, whether the call that joined or    *)
(* the reader delivers them.                                               *)
THEOREM Refinement == Spec => KeepsContract
<1>1. Init => C!Init
  BY DEF Init
<1>2. ASSUME Types, Telltale, NEW f \in DOMAIN feeds, NEW s \in Subscribers, NEW op, Told(f, s, op),
             ~feeds[f].closing => \/ op \in {"resync", "disconnect"} /\ heard.op[s] # op
                                  \/ op = "key" /\ heard.op[s] = "resync"
                                  \/ op = "none"
      PROVE  [C!Next]_heard
  <2>1. CASE feeds[f].closing \/ op = "none"
    BY <1>2, <2>1 DEF Told
  <2>2. CASE ~feeds[f].closing /\ op = "key"
    <3>1. C!KeyEvent(s)
      BY <1>2, <2>2 DEF Told, C!KeyEvent
    <3> QED BY <3>1 DEF C!Next
  <2>3. CASE ~feeds[f].closing /\ op \in {"resync", "disconnect"}
    <3>1. C!Marker(s, op)
      BY <1>2, <2>3 DEF Told, C!Marker
    <3> QED BY <2>3, <3>1 DEF C!Next
  <2> QED BY <1>2, <2>1, <2>2, <2>3
<1>3. Types /\ Telltale /\ [Next]_vars => [C!Next]_heard
  <2> SUFFICES ASSUME Types, Telltale, [Next]_vars PROVE [C!Next]_heard
    OBVIOUS
  <2>1. TypeOK /\ Shape /\ Reading /\ Counted
    BY DEF Types, Core
  <2>2. ASSUME NEW s \in Subscribers, DeliverJoining(s) PROVE [C!Next]_heard
    <3>1. PICK f \in DOMAIN feeds : f = subs[s].feed
      BY <2>1, <2>2, DeliverEffect
    <3>2. subs[s].pc = "joining" /\ subs[s].joining \in {"none", "resync", "disconnect"}
      BY <2>1, <2>2, DeliverEffect
    <3>3. heard.op[s] = "none"
      BY <3>2 DEF Telltale, OneFeed
    <3>4. Told(f, s, subs[s].joining)
      BY <2>2, <3>1 DEF DeliverJoining
    <3> QED BY <1>2, <3>2, <3>3, <3>4
  <2>3. ASSUME NEW f \in DOMAIN feeds, NEW s \in Subscribers, StartCallback(f, s)
        PROVE  [C!Next]_heard
    <3>1. /\ readers[f].pc = "delivering" /\ s \in readers[f].todo /\ subs[s].pc # "joining"
          /\ Told(f, s, readers[f].event)
      BY <2>3 DEF StartCallback
    <3>2. f \in Feeds
      BY <2>1, Typing
    <3>3. readers[f].event \in {"resync", "disconnect", "key"}
      BY <2>1, <3>1, <3>2 DEF Reading
    <3>4. Known[s] = heard.op[s]
      BY <3>1 DEF Known
    <3>5. ~feeds[f].closing =>
            IF readers[f].event = "key" THEN Known[s] = "resync" ELSE Known[s] # readers[f].event
      BY <3>1 DEF Telltale, Telling, Tells, KnownAt
    <3> QED BY <1>2, <3>1, <3>3, <3>4, <3>5
  <2>4. ASSUME NEW f \in DOMAIN feeds, ReaderStep(f), ~\E s \in Subscribers : StartCallback(f, s)
        PROVE  UNCHANGED heard
    BY <2>4 DEF ReaderStep, BeginResync, HandleNotification, EndCallback, EndDispatch,
       ConsumeFails, BeginDisconnect, Attempt, Reconnected, ReconnectFails
  <2>5. ASSUME NEW s \in Subscribers, NEW sc \in Scopes, Subscribe(s, sc) PROVE UNCHANGED heard
    BY <2>5 DEF Subscribe
  <2>6. ASSUME NEW s \in Subscribers, NEW inside \in BOOLEAN, Teardown(s, inside)
        PROVE  UNCHANGED heard
    BY <2>6 DEF Teardown
  <2>7. ASSUME NEW s \in Subscribers,
               \/ Create(s) \/ CreateFails(s) \/ AwaitFeed(s) \/ GiveUp(s) \/ Join(s)
               \/ ReleaseFeed(s) \/ StopFeed(s) \/ StopFeedReturns(s)
        PROVE  UNCHANGED heard
    BY <2>7 DEF Create, CreateFails, AwaitFeed, GiveUp, Join, ReleaseFeed, StopFeed, StopFeedReturns
  <2>8. Start \/ StartFails \/ StartPublishes => UNCHANGED heard
    BY <2>1, StartEffect
  <2>9. StopFeeds \/ (\E f \in toSignal : SignalFeed(f)) \/ CloseReturns => UNCHANGED heard
    BY <2>1, CloseEffect
  <2> QED BY <2>2, <2>3, <2>4, <2>5, <2>6, <2>7, <2>8, <2>9, NextCases DEF vars
<1> QED BY <1>1, <1>3, TypesHold, TelltaleHolds, PTL DEF Spec, KeepsContract, C!Spec
=============================================================================
