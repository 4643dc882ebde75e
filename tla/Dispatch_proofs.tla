--------------------------- MODULE Dispatch_proofs ---------------------------
(***************************************************************************)
(* What holds of Dispatch for any number of scope states, subscribers,     *)
(* publishers and publications.                                            *)
(***************************************************************************)
EXTENDS Dispatch, TLAPS, SequenceTheorems

Elements(q) == {q[i] : i \in DOMAIN q}
Distinct(q) == \A i, j \in DOMAIN q : q[i] = q[j] => i = j

(* The worker holds a publication it is handing out. *)
Handing(s) == worker[s].pc \in {"delivering", "calling"}

(* A publisher inside a scope's lock is alone there, and what it has not   *)
(* yet submitted is newer than anything submitted before.                  *)
Locked ==
  \A p \in Publishers : publisher[p].pc # "idle" =>
    /\ publisher[p].scope \in Scopes
    /\ publisher[p].rev # 0 /\ publisher[p].rev <= published
    /\ \A q \in Publishers : 
         publisher[q].pc # "idle" /\ publisher[q].scope = publisher[p].scope => q = p
    /\ publisher[p].pc # "submitted" => newest[publisher[p].scope] < publisher[p].rev

(* The slot holds the newest publication, which nobody has seen. *)
Newest ==
  \A s \in Scopes :
    /\ newest[s] <= published
    /\ pending[s] # 0 => pending[s] = newest[s]
    /\ \A u \in Subs : /\ seen[<<s, u>>] <= newest[s]
                       /\ pending[s] # 0 => seen[<<s, u>>] < pending[s]

(* What is being handed out is older than what is in the slot, and news to *)
(* each subscriber still on the worker's list, who is on it once.          *)
News ==
  \A s \in Scopes : Handing(s) =>
    /\ worker[s].rev <= newest[s]
    /\ pending[s] # 0 => worker[s].rev < pending[s]
    /\ Distinct(worker[s].left)
    /\ \A u \in Elements(worker[s].left) : seen[<<s, u>>] < worker[s].rev

(* A subscriber is registered once. *)
Roster == Distinct(subscribers) /\ Subscribed \subseteq joined

(* The busy mark is up from the wake-up on. *)
Marked ==
  \A s \in Scopes :
    worker[s].pc \in {"woken", "taking", "delivering", "calling", "done"} => s \in running

(* Only a subscriber is owed, and by a scope that is not stopped; its debt *)
(* is in the slot, or on the list of a worker that hands out the newest.   *)
Placed ==
  \A s \in Scopes, u \in Subs : <<s, u>> \in owed =>
    /\ u \in Subscribed /\ ~Stopped(s)
    /\ \/ pending[s] # 0
       \/ Handing(s) /\ worker[s].rev = newest[s] /\ u \in Elements(worker[s].left)

(* The layers of the inductive invariant, each proved from the one before. *)
Types == TypeOK /\ \A p \in Publishers : publisher[p].pc # "idle" => publisher[p].scope \in Scopes
Order == Locked /\ Newest /\ News /\ Roster
Debts == Marked /\ Placed /\ PendingWakes /\ DrainedForGood

PublisherType == [pc : {"idle", "accepted", "holding", "submitted"},
                  scope : Scopes \cup {0}, rev : Nat]
WorkerType == [pc : {"none", "parked", "woken", "taking", "delivering", "calling", "done",
                     "exited"},
               rev : Nat, left : Seq(Subs)]

-----------------------------------------------------------------------------
(* Sequences: the list a worker goes through and the list of subscribers.  *)

(* Head and Tail. *)
LEMMA TailLemma ==
  ASSUME NEW S, NEW q \in Seq(S), q # << >>
  PROVE  /\ Head(q) \in S /\ Tail(q) \in Seq(S)
         /\ Elements(q) = {Head(q)} \cup Elements(Tail(q))
         /\ Distinct(q) => Distinct(Tail(q)) /\ Head(q) \notin Elements(Tail(q))
<1>1. Len(q) \in Nat /\ Len(q) > 0 /\ DOMAIN q = 1 .. Len(q) /\ Head(q) = q[1]
  OBVIOUS
<1>2. /\ Tail(q) \in Seq(S) /\ Len(Tail(q)) = Len(q) - 1
      /\ DOMAIN Tail(q) = 1 .. Len(q) - 1
      /\ \A i \in 1 .. Len(q) - 1 : Tail(q)[i] = q[i + 1]
  BY <1>1
<1>3. Elements(q) \subseteq {Head(q)} \cup Elements(Tail(q))
  <2> SUFFICES ASSUME NEW i \in DOMAIN q, q[i] # Head(q) PROVE q[i] \in Elements(Tail(q))
    BY DEF Elements
  <2>1. i - 1 \in 1 .. Len(q) - 1 /\ Tail(q)[i - 1] = q[i]
    BY <1>1, <1>2
  <2> QED BY <1>2, <2>1 DEF Elements
<1>4. {Head(q)} \cup Elements(Tail(q)) \subseteq Elements(q)
  <2>1. ASSUME NEW i \in DOMAIN Tail(q) PROVE Tail(q)[i] \in Elements(q)
    BY <1>1, <1>2 DEF Elements
  <2> QED BY <1>1, <2>1 DEF Elements
<1>5. ASSUME Distinct(q) PROVE Distinct(Tail(q)) /\ Head(q) \notin Elements(Tail(q))
  BY <1>1, <1>2, <1>5 DEF Distinct, Elements
<1> QED BY <1>1, <1>2, <1>3, <1>4, <1>5

(* Append. *)
LEMMA AppendLemma ==
  ASSUME NEW S, NEW q \in Seq(S), NEW u \in S, u \notin Elements(q)
  PROVE  /\ Append(q, u) \in Seq(S)
         /\ Elements(Append(q, u)) = Elements(q) \cup {u}
         /\ Distinct(q) => Distinct(Append(q, u))
<1>1. Len(q) \in Nat /\ DOMAIN q = 1 .. Len(q)
  OBVIOUS
<1>2. /\ Append(q, u) \in Seq(S) /\ DOMAIN Append(q, u) = 1 .. Len(q) + 1
      /\ \A i \in 1 .. Len(q) : Append(q, u)[i] = q[i]
      /\ Append(q, u)[Len(q) + 1] = u
  BY <1>1
<1>3. Elements(Append(q, u)) \subseteq Elements(q) \cup {u}
  BY <1>1, <1>2 DEF Elements
<1>4. Elements(q) \cup {u} \subseteq Elements(Append(q, u))
  <2>1. ASSUME NEW i \in DOMAIN q PROVE q[i] \in Elements(Append(q, u))
    BY <1>1, <1>2 DEF Elements
  <2>2. u \in Elements(Append(q, u))
    BY <1>1, <1>2 DEF Elements
  <2> QED BY <2>1, <2>2 DEF Elements
<1>5. Distinct(q) => Distinct(Append(q, u))
  BY <1>1, <1>2 DEF Elements, Distinct
<1> QED BY <1>2, <1>3, <1>4, <1>5

(* The removal of one entry. *)
LEMMA WithoutLemma ==
  ASSUME NEW S, NEW q \in Seq(S), NEW i \in DOMAIN q
  PROVE  /\ Without(q, i) \in Seq(S)
         /\ Elements(Without(q, i)) \subseteq Elements(q)
         /\ Elements(q) \ {q[i]} \subseteq Elements(Without(q, i))
         /\ Distinct(q) => Distinct(Without(q, i))
<1>1. Len(q) \in Nat /\ DOMAIN q = 1 .. Len(q) /\ i \in 1 .. Len(q)
  OBVIOUS
<1> DEFINE a == SubSeq(q, 1, i - 1)  b == SubSeq(q, i + 1, Len(q))
<1>2. /\ a \in Seq(S) /\ Len(a) = i - 1
      /\ \A j \in 1 .. i - 1 : a[j] = q[j]
  <2>1. \A j \in 1 .. i - 1 : q[j] \in S
    BY <1>1
  <2> QED BY <1>1, <2>1, SubSeqProperties
<1>3. /\ b \in Seq(S) /\ Len(b) = Len(q) - i
      /\ \A j \in 1 .. Len(q) - i : b[j] = q[i + j]
  <2>1. \A j \in i + 1 .. Len(q) : q[j] \in S
    BY <1>1
  <2>2. /\ b \in Seq(S) /\ Len(b) = IF i + 1 <= Len(q) THEN Len(q) - (i + 1) + 1 ELSE 0
        /\ \A j \in 1 .. Len(q) - (i + 1) + 1 : b[j] = q[i + 1 + j - 1]
    BY <1>1, <2>1, SubSeqProperties
  <2> HIDE DEF b
  <2>3. Len(b) = Len(q) - i
    BY <1>1, <2>2
  <2>4. ASSUME NEW j \in 1 .. Len(q) - i PROVE b[j] = q[i + j]
    <3>1. i + 1 + j - 1 = i + j /\ j \in 1 .. Len(q) - (i + 1) + 1
      BY <1>1
    <3> QED BY <2>2, <3>1
  <2> QED BY <2>2, <2>3, <2>4
<1>4. /\ Without(q, i) \in Seq(S) /\ Len(Without(q, i)) = Len(q) - 1
      /\ DOMAIN Without(q, i) = 1 .. Len(q) - 1
      /\ \A j \in 1 .. Len(q) - 1 : Without(q, i)[j] = IF j < i THEN a[j] ELSE b[j - (i - 1)]
  <2>1. Without(q, i) = a \o b
    BY DEF Without
  <2> HIDE DEF a, b
  <2>2. /\ a \o b \in Seq(S) /\ Len(a \o b) = Len(a) + Len(b)
        /\ \A j \in 1 .. Len(a) + Len(b) :
             (a \o b)[j] = IF j <= Len(a) THEN a[j] ELSE b[j - Len(a)]
    BY <1>2, <1>3, ConcatProperties
  <2>3. Len(a) + Len(b) = Len(q) - 1 /\ Len(q) - 1 \in Nat
    BY <1>1, <1>2, <1>3
  <2>4. ASSUME NEW j \in 1 .. Len(q) - 1
        PROVE  Without(q, i)[j] = IF j < i THEN a[j] ELSE b[j - (i - 1)]
    BY <1>1, <1>2, <2>1, <2>2, <2>3
  <2> QED BY <2>1, <2>2, <2>3, <2>4
<1> HIDE DEF a, b
<1>5. ASSUME NEW j \in 1 .. Len(q) - 1
      PROVE  Without(q, i)[j] = IF j < i THEN q[j] ELSE q[j + 1]
  <2>1. CASE j < i
    BY <1>1, <1>2, <1>4, <2>1
  <2>2. CASE ~(j < i)
    <3>1. j - (i - 1) \in 1 .. Len(q) - i /\ i + (j - (i - 1)) = j + 1
      BY <1>1, <2>2
    <3> QED BY <1>3, <1>4, <2>2, <3>1
  <2> QED BY <2>1, <2>2
<1>6. Elements(Without(q, i)) \subseteq Elements(q)
  <2> SUFFICES ASSUME NEW j \in 1 .. Len(q) - 1 PROVE Without(q, i)[j] \in Elements(q)
    BY <1>4 DEF Elements
  <2>1. j \in DOMAIN q /\ j + 1 \in DOMAIN q
    BY <1>1
  <2> QED BY <1>5, <2>1 DEF Elements
<1>7. Elements(q) \ {q[i]} \subseteq Elements(Without(q, i))
  <2> SUFFICES ASSUME NEW j \in DOMAIN q, q[j] # q[i] PROVE q[j] \in Elements(Without(q, i))
    BY DEF Elements
  <2>1. CASE j < i
    BY <1>1, <1>4, <1>5, <2>1 DEF Elements
  <2>2. CASE j > i
    <3>1. j - 1 \in 1 .. Len(q) - 1 /\ Without(q, i)[j - 1] = q[j]
      BY <1>1, <1>5, <2>2
    <3> QED BY <1>4, <3>1 DEF Elements
  <2> QED BY <1>1, <2>1, <2>2
<1>8. ASSUME Distinct(q) PROVE Distinct(Without(q, i))
  <2> SUFFICES ASSUME NEW j \in 1 .. Len(q) - 1, NEW k \in 1 .. Len(q) - 1,
                      Without(q, i)[j] = Without(q, i)[k]
               PROVE  j = k
    BY <1>4 DEF Distinct
  <2>1. \A m, n \in 1 .. Len(q) : q[m] = q[n] => m = n
    BY <1>1, <1>8 DEF Distinct
  <2> QED BY <1>1, <1>5, <2>1
<1> QED BY <1>4, <1>6, <1>7, <1>8

-----------------------------------------------------------------------------
(* Types.                                                                  *)

(* Init. *)
LEMMA InitTypes == Init => Types
<1> SUFFICES ASSUME Init PROVE Types
  OBVIOUS
<1>1. publisher \in [Publishers -> PublisherType] /\ worker \in [Scopes -> WorkerType]
  BY DEF Init, IdlePublisher, NoWorker, PublisherType, WorkerType
<1>2. \A s \in Scopes : worker[s].pc = "none"
  BY DEF Init, NoWorker
<1>3. \A p \in Publishers : publisher[p].pc = "idle"
  BY DEF Init, IdlePublisher
<1>4. subscribers \in Seq(Subs) /\ owed \in SUBSET (Scopes \X Subs)
  BY DEF Init
<1> QED BY <1>1, <1>2, <1>3, <1>4 DEF Init, Types, TypeOK, PublisherType, WorkerType

(* Registrations. *)
LEMMA RosterTypes ==
  ASSUME Types, NEW u \in Subs, OnChange(u) \/ Unsubscribe(u) PROVE Types'
<1>1. subscribers \in Seq(Subs) /\ joined \in SUBSET Subs /\ owed \in SUBSET (Scopes \X Subs)
  BY DEF Types, TypeOK
<1>2. CASE OnChange(u)
  <2>1. subscribers' \in Seq(Subs) /\ joined' \in SUBSET Subs
    BY <1>1, <1>2 DEF OnChange
  <2> QED BY <1>2, <2>1 DEF Types, TypeOK, OnChange, scopeVars, boxVars, channelVars
<1>3. CASE Unsubscribe(u)
  <2>1. subscribers' \in Seq(Subs)
    BY <1>1, <1>3, WithoutLemma DEF Unsubscribe
  <2>2. owed' \in SUBSET (Scopes \X Subs)
    BY <1>1, <1>3 DEF Unsubscribe
  <2> QED BY <1>3, <2>1, <2>2 DEF Types, TypeOK, Unsubscribe, scopeVars, boxVars
<1> QED BY <1>2, <1>3

(* Publications. *)
LEMMA PublisherTypes ==
  ASSUME Types, NEW p \in Publishers,
         (\E s \in Scopes : Accept(p, s)) \/ WorkerFor(p) \/ Submit(p) \/ Signal(p)
  PROVE  Types'
<1>1. /\ publisher \in [Publishers -> PublisherType] /\ worker \in [Scopes -> WorkerType]
      /\ published \in Nat /\ pending \in [Scopes -> Nat] /\ newest \in [Scopes -> Nat]
      /\ signal \in [Scopes -> BOOLEAN] /\ owed \in SUBSET (Scopes \X Subs)
      /\ subscribers \in Seq(Subs)
  BY DEF Types, TypeOK, PublisherType, WorkerType
<1>2. IdlePublisher \in PublisherType /\ IdlePublisher.pc = "idle"
  BY DEF IdlePublisher, PublisherType
<1>3. ASSUME NEW s \in Scopes, Accept(p, s) PROVE Types'
  <2> DEFINE g == [pc |-> "accepted", scope |-> s, rev |-> published + 1]
  <2>1. g \in PublisherType /\ g.scope \in Scopes
    BY <1>1 DEF PublisherType
  <2>2. publisher' = publisher \/ publisher' = [publisher EXCEPT ![p] = g]
    BY <1>3 DEF Accept
  <2> HIDE DEF g
  <2>3. publisher' \in [Publishers -> PublisherType]
    BY <1>1, <2>1, <2>2
  <2>4. \A q \in Publishers : publisher'[q].pc # "idle" => publisher'[q].scope \in Scopes
    BY <1>1, <2>1, <2>2 DEF Types
  <2>5. published' \in Nat
    BY <1>1, <1>3 DEF Accept
  <2> QED BY <1>3, <2>3, <2>4, <2>5 DEF Types, TypeOK, PublisherType, Accept, scopeVars,
         boxVars, channelVars
<1> DEFINE s == publisher[p].scope
<1>4. CASE WorkerFor(p)
  <2> DEFINE g == [publisher[p] EXCEPT !.pc = "holding"]
             w == [worker[s] EXCEPT !.pc = "parked"]
  <2>1. s \in Scopes
    BY <1>4 DEF WorkerFor, Types
  <2>2. g \in PublisherType /\ g.scope \in Scopes
    BY <1>1, <2>1 DEF PublisherType
  <2>3. w \in WorkerType /\ w.pc = "parked"
    BY <1>1, <2>1 DEF WorkerType
  <2>4. \/ publisher' = [publisher EXCEPT ![p] = IdlePublisher]
        \/ publisher' = [publisher EXCEPT ![p] = g]
    BY <1>4 DEF WorkerFor
  <2>5. worker' = worker \/ worker' = [worker EXCEPT ![s] = w]
    BY <1>4 DEF WorkerFor
  <2> HIDE DEF g, w, s
  <2>6. publisher' \in [Publishers -> PublisherType]
    BY <1>1, <1>2, <2>2, <2>4
  <2>7. \A q \in Publishers : publisher'[q].pc # "idle" => publisher'[q].scope \in Scopes
    BY <1>1, <1>2, <2>2, <2>4 DEF Types
  <2>8. worker' \in [Scopes -> WorkerType]
    BY <1>1, <2>1, <2>3, <2>5
  <2>9. \A x \in Scopes : worker'[x].pc \in {"delivering", "calling"} => worker'[x].rev # 0
    BY <1>1, <2>1, <2>3, <2>5 DEF Types, TypeOK
  <2> QED BY <1>4, <2>6, <2>7, <2>8, <2>9 DEF Types, TypeOK, PublisherType, WorkerType,
         WorkerFor, scopeVars, boxVars, channelVars
<1>5. CASE Submit(p) \/ Signal(p)
  <2> DEFINE g == [publisher[p] EXCEPT !.pc = "submitted"]
  <2>1. s \in Scopes /\ publisher[p].rev \in Nat
    BY <1>1, <1>5 DEF Submit, Signal, Types, PublisherType
  <2>2. g \in PublisherType /\ g.scope \in Scopes
    BY <1>1, <2>1 DEF PublisherType
  <2>3. \/ publisher' = [publisher EXCEPT ![p] = IdlePublisher]
        \/ publisher' = [publisher EXCEPT ![p] = g]
    BY <1>5 DEF Submit, Signal
  <2>4. pending' \in [Scopes -> Nat] /\ newest' \in [Scopes -> Nat]
    BY <1>1, <1>5, <2>1 DEF Submit, Signal, channelVars
  <2>5. signal' \in [Scopes -> BOOLEAN]
    BY <1>1, <1>5, <2>1 DEF Submit, Signal
  <2>6. Subscribed \subseteq Subs
    BY <1>1 DEF Subscribed
  <2>7. owed' \in SUBSET (Scopes \X Subs)
    BY <1>1, <1>5, <2>1, <2>6 DEF Submit, Signal, channelVars
  <2> HIDE DEF g, s
  <2>8. publisher' \in [Publishers -> PublisherType]
    BY <1>1, <1>2, <2>2, <2>3
  <2>9. \A q \in Publishers : publisher'[q].pc # "idle" => publisher'[q].scope \in Scopes
    BY <1>1, <1>2, <2>2, <2>3 DEF Types
  <2> QED BY <1>5, <2>4, <2>5, <2>7, <2>8, <2>9 DEF Types, TypeOK, PublisherType, Submit,
         Signal, scopeVars, channelVars
<1> QED BY <1>3, <1>4, <1>5

(* The worker. *)
LEMMA WorkerTypes ==
  ASSUME Types, NEW s \in Scopes, WorkerStep(s) PROVE Types'
<1>1. /\ worker \in [Scopes -> WorkerType] /\ pending \in [Scopes -> Nat]
      /\ signal \in [Scopes -> BOOLEAN] /\ running \in SUBSET Scopes
      /\ newest \in [Scopes -> Nat] /\ seen \in [Scopes \X Subs -> Nat]
      /\ owed \in SUBSET (Scopes \X Subs) /\ subscribers \in Seq(Subs)
      /\ worker[s] \in WorkerType
  BY DEF Types, TypeOK, WorkerType
<1>2. PICK g \in WorkerType : /\ worker' = [worker EXCEPT ![s] = g]
                              /\ g.pc \in {"delivering", "calling"} => g.rev # 0
  <2> DEFINE Moved(pc) == [worker[s] EXCEPT !.pc = pc]
  <2>1. ASSUME NEW pc \in {"woken", "exited", "taking", "done"}
        PROVE  Moved(pc) \in WorkerType /\ Moved(pc).pc = pc
    BY <1>1 DEF WorkerType
  <2>2. CASE Wake(s) \/ Exit(s) \/ Recheck(s)
    <3>1. \E pc \in {"woken", "exited", "taking"} : worker' = [worker EXCEPT ![s] = Moved(pc)]
      BY <2>2 DEF Wake, Exit, Recheck
    <3> HIDE DEF Moved
    <3> QED BY <2>1, <3>1
  <2>3. CASE Take(s)
    <3> DEFINE h == [pc |-> "delivering", rev |-> pending[s], left |-> subscribers]
    <3>1. h \in WorkerType /\ h.rev = pending[s]
      BY <1>1 DEF WorkerType
    <3>2. worker' = [worker EXCEPT ![s] = IF pending[s] = 0 THEN Moved("done") ELSE h]
      BY <2>3 DEF Take
    <3> HIDE DEF Moved, h
    <3> QED BY <2>1, <3>1, <3>2
  <2>4. CASE StartCallback(s)
    <3> DEFINE h == [worker[s] EXCEPT !.pc = "calling", !.left = Tail(worker[s].left)]
    <3>1. worker[s].left \in Seq(Subs) /\ worker[s].rev \in Nat /\ worker[s].rev # 0
      BY <1>1, <2>4 DEF WorkerType, StartCallback, Types, TypeOK
    <3>2. Tail(worker[s].left) \in Seq(Subs)
      BY <2>4, <3>1 DEF StartCallback
    <3>3. h \in WorkerType /\ h.rev = worker[s].rev
      BY <1>1, <3>2 DEF WorkerType
    <3> HIDE DEF h
    <3> QED BY <2>4, <3>1, <3>3 DEF StartCallback, h
  <2>5. CASE EndCallback(s)
    <3> DEFINE h == [worker[s] EXCEPT !.pc = "delivering"]
    <3>1. worker[s].rev # 0
      BY <2>5 DEF EndCallback, Types, TypeOK
    <3>2. h \in WorkerType /\ h.rev = worker[s].rev
      BY <1>1 DEF WorkerType
    <3>3. worker' = [worker EXCEPT ![s] = h]
      BY <2>5 DEF EndCallback
    <3> HIDE DEF h
    <3> QED BY <3>1, <3>2, <3>3
  <2>6. CASE Park(s)
    <3> DEFINE h == [pc |-> "parked", rev |-> 0, left |-> << >>]
    <3>1. h \in WorkerType /\ h.pc = "parked"
      BY DEF WorkerType
    <3> HIDE DEF h
    <3> QED BY <2>6, <3>1 DEF Park, h
  <2> QED BY <2>2, <2>3, <2>4, <2>5, <2>6 DEF WorkerStep
<1>3. worker' \in [Scopes -> WorkerType]
  BY <1>1, <1>2
<1>4. \A x \in Scopes : worker'[x].pc \in {"delivering", "calling"} => worker'[x].rev # 0
  BY <1>1, <1>2 DEF Types, TypeOK
<1>5. pending' \in [Scopes -> Nat] /\ running' \in SUBSET Scopes
  <2>1. pending' = pending \/ pending' = [pending EXCEPT ![s] = 0]
    BY DEF WorkerStep, Wake, Exit, Recheck, Take, StartCallback, EndCallback, Park, boxVars
  <2>2. running' = running \/ running' = running \cup {s} \/ running' = running \ {s}
    BY DEF WorkerStep, Wake, Exit, Recheck, Take, StartCallback, EndCallback, Park
  <2>3. pending' \in [Scopes -> Nat]
    <3>1. pending \in [Scopes -> Nat]
      BY <1>1
    <3> QED BY <2>1, <3>1
  <2>4. running' \in SUBSET Scopes
    BY <1>1, <2>2, Zenon
  <2> QED BY <2>3, <2>4
<1>6. signal' \in [Scopes -> BOOLEAN]
  BY <1>1 DEF WorkerStep, Wake, Exit, Recheck, Take, StartCallback, EndCallback, Park, boxVars
<1>7. /\ seen' \in [Scopes \X Subs -> Nat] /\ owed' \in SUBSET (Scopes \X Subs)
      /\ newest' \in [Scopes -> Nat]
  <2>1. CASE StartCallback(s)
    <3>1. worker[s].rev \in Nat
      BY <1>1 DEF WorkerType
    <3>2. owed' \subseteq owed /\ newest' = newest
      BY <2>1 DEF StartCallback
    <3>3. seen' = [seen EXCEPT ![<<s, Head(worker[s].left)>>] = worker[s].rev]
      BY <2>1 DEF StartCallback
    <3> QED BY <1>1, <3>1, <3>2, <3>3
  <2>2. CASE ~StartCallback(s)
    BY <1>1, <2>2 DEF WorkerStep, Wake, Exit, Recheck, Take, EndCallback, Park, channelVars
  <2> QED BY <2>1, <2>2
<1>8. UNCHANGED <<scope, closing, subscribers, published, publisher, joined>>
  BY DEF WorkerStep, Wake, Exit, Recheck, Take, StartCallback, EndCallback, Park, scopeVars
<1> QED BY <1>3, <1>4, <1>5, <1>6, <1>7, <1>8 DEF Types, TypeOK, WorkerType

(* Bring-up, drop and Close. *)
LifecycleStep ==
  \/ \E s \in Scopes : BringUp(s) \/ DropScope(s) \/ StopScopeWorkers(s)
  \/ MarkClosed \/ Cancel \/ CloseWorkers \/ WaitForWorkers

(* What such a step leaves alone, and what it does to the debts. *)
LEMMA LifecycleFrame ==
  ASSUME Types, LifecycleStep
  PROVE  /\ UNCHANGED <<subscribers, published, publisher, worker, pending, signal, running,
                        newest, seen, joined>>
         /\ owed' \subseteq owed
         /\ \A s \in Scopes : scope'[s] # "dropped" => scope[s] # "dropped"
         /\ \A s \in Scopes, u \in Subs : <<s, u>> \in owed' /\ ~Stopped(s) => ~Stopped(s)'
         /\ scope' \in [Scopes -> {"absent", "tracked", "stopping", "dropped"}]
         /\ closing' \in {"open", "closed", "canceled", "waiting", "drained", "timeout"}
<1>1. scope \in [Scopes -> {"absent", "tracked", "stopping", "dropped"}]
      /\ owed \in SUBSET (Scopes \X Subs)
      /\ closing \in {"open", "closed", "canceled", "waiting", "drained", "timeout"}
  BY DEF Types, TypeOK
<1>2. ASSUME NEW s \in Scopes, BringUp(s) \/ DropScope(s)
      PROVE  /\ UNCHANGED <<subscribers, published, publisher, worker, pending, signal, running,
                            newest, seen, joined, owed, closing>>
             /\ scope' \in [Scopes -> {"absent", "tracked", "stopping", "dropped"}]
             /\ \A x \in Scopes : scope'[x] = "dropped" <=> scope[x] = "dropped"
  BY <1>1, <1>2 DEF BringUp, DropScope, boxVars, channelVars
<1>3. ASSUME NEW s \in Scopes, StopScopeWorkers(s)
      PROVE  /\ UNCHANGED <<subscribers, published, publisher, worker, pending, signal, running,
                            newest, seen, joined, closing>>
             /\ owed' = {c \in owed : c[1] # s}
             /\ scope' \in [Scopes -> {"absent", "tracked", "stopping", "dropped"}]
             /\ \A x \in Scopes \ {s} : scope'[x] = scope[x]
             /\ scope'[s] = "dropped" /\ scope[s] # "dropped"
  <2>1. owed' = {c \in owed : c[1] # s}
    BY <1>1, <1>3 DEF StopScopeWorkers, Forgone
  <2> QED BY <1>1, <1>3, <2>1 DEF StopScopeWorkers, boxVars
<1>4. ASSUME Cancel
      PROVE  /\ UNCHANGED <<subscribers, published, publisher, worker, pending, signal, running,
                            newest, seen, joined, scope>>
             /\ owed' = {} /\ closing' = "canceled"
  BY <1>1, <1>4 DEF Cancel, Forgone, boxVars
<1>5. ASSUME MarkClosed \/ CloseWorkers \/ WaitForWorkers
      PROVE  /\ UNCHANGED <<subscribers, published, publisher, worker, pending, signal, running,
                            newest, seen, joined, scope, owed>>
             /\ closing' \in {"closed", "waiting", "drained", "timeout"}
             /\ Canceled' => Canceled
  BY <1>5 DEF MarkClosed, CloseWorkers, WaitForWorkers, boxVars, channelVars, Canceled
<1>6. ASSUME NEW s \in Scopes, StopScopeWorkers(s), NEW x \in Scopes, NEW u \in Subs,
             <<x, u>> \in owed', ~Stopped(x)
      PROVE  ~Stopped(x)'
  <2>1. x # s
    BY <1>3, <1>6
  <2> QED BY <1>3, <1>6, <2>1 DEF Stopped, Canceled
<1>7. CASE \E s \in Scopes : BringUp(s) \/ DropScope(s)
  BY <1>1, <1>2, <1>7 DEF Stopped, Canceled
<1>8. CASE \E s \in Scopes : StopScopeWorkers(s)
  BY <1>1, <1>3, <1>6, <1>8
<1>9. CASE Cancel
  BY <1>1, <1>4, <1>9
<1>10. CASE MarkClosed \/ CloseWorkers \/ WaitForWorkers
  BY <1>1, <1>5, <1>10 DEF Stopped
<1> QED BY <1>7, <1>8, <1>9, <1>10 DEF LifecycleStep

(* Next, by who takes the step. *)
LEMMA NextCases ==
  ASSUME [Next]_vars
  PROVE  \/ \E u \in Subs : OnChange(u) \/ Unsubscribe(u)
         \/ \E p \in Publishers :
              (\E s \in Scopes : Accept(p, s)) \/ WorkerFor(p) \/ Submit(p) \/ Signal(p)
         \/ \E s \in Scopes : WorkerStep(s)
         \/ LifecycleStep
         \/ UNCHANGED vars
BY DEF Next, WorkerStep, LifecycleStep, AtRest

(* Every step. *)
LEMMA NextTypes == Types /\ [Next]_vars => Types'
<1> SUFFICES ASSUME Types, [Next]_vars PROVE Types'
  OBVIOUS
<1>1. CASE LifecycleStep
  BY <1>1, LifecycleFrame DEF Types, TypeOK
<1>2. CASE UNCHANGED vars
  BY <1>2 DEF Types, TypeOK, vars
<1> QED BY <1>1, <1>2, NextCases, RosterTypes, PublisherTypes, WorkerTypes

(* The state keeps its types, and a worker that delivers holds a change,   *)
(* never the zero Change of an empty slot (runWorker, dispatch.go).        *)
THEOREM TypeCorrect == Spec => []TypeOK
<1>1. Init => Types
  BY InitTypes
<1>2. Types /\ [Next]_vars => Types'
  BY NextTypes
<1>3. Types => TypeOK
  BY DEF Types
<1> QED BY <1>1, <1>2, <1>3, PTL DEF Spec

-----------------------------------------------------------------------------
(* Order.                                                                  *)

(* Init. *)
LEMMA InitOrder == Init => Order
<1> SUFFICES ASSUME Init PROVE Order
  OBVIOUS
<1>1. Locked
  BY DEF Init, IdlePublisher, Locked
<1>2. Newest
  BY DEF Init, Newest
<1>3. News
  BY DEF Init, NoWorker, News, Handing
<1>4. Roster
  BY DEF Init, Roster, Distinct, Subscribed
<1> QED BY <1>1, <1>2, <1>3, <1>4 DEF Order

(* The roster. *)
LEMMA RosterOrder ==
  ASSUME Types, Order, NEW u \in Subs, OnChange(u) \/ Unsubscribe(u)
  PROVE  Order' /\ Subscribed \ {u} \subseteq Subscribed'
<1>1. subscribers \in Seq(Subs) /\ Distinct(subscribers) /\ Subscribed \subseteq joined
      /\ Subscribed = Elements(subscribers) /\ Subscribed' = Elements(subscribers')
  BY DEF Types, TypeOK, Order, Roster, Subscribed, Elements
<1>2. CASE OnChange(u)
  <2>1. u \notin Elements(subscribers) /\ subscribers' = Append(subscribers, u)
        /\ joined' = joined \cup {u}
    BY <1>1, <1>2 DEF OnChange
  <2>2. Distinct(subscribers') /\ Elements(subscribers') = Elements(subscribers) \cup {u}
    BY <1>1, <2>1, AppendLemma
  <2>3. Roster'
    BY <1>1, <2>1, <2>2 DEF Roster
  <2> QED BY <1>1, <1>2, <2>2, <2>3 DEF OnChange, Order, Locked, Newest, News, Handing, boxVars,
         channelVars
<1>3. CASE Unsubscribe(u)
  <2>1. PICK i \in DOMAIN subscribers : subscribers[i] = u /\ subscribers' = Without(subscribers, i)
    BY <1>3 DEF Unsubscribe
  <2>2. /\ Distinct(subscribers') /\ Elements(subscribers') \subseteq Elements(subscribers)
        /\ Elements(subscribers) \ {u} \subseteq Elements(subscribers')
    BY <1>1, <2>1, WithoutLemma
  <2>3. Roster'
    BY <1>1, <1>3, <2>2 DEF Roster, Unsubscribe
  <2> QED BY <1>1, <1>3, <2>2, <2>3 DEF Unsubscribe, Order, Locked, Newest, News, Handing,
         boxVars
<1> QED BY <1>2, <1>3

(* Publications: a publisher's revision is newer than any of its scope.    *)
LEMMA PublisherOrder ==
  ASSUME Types, Order, NEW p \in Publishers,
         (\E s \in Scopes : Accept(p, s)) \/ WorkerFor(p) \/ Submit(p) \/ Signal(p)
  PROVE  Order'
<1>1. /\ publisher \in [Publishers -> PublisherType] /\ worker \in [Scopes -> WorkerType]
      /\ published \in Nat /\ pending \in [Scopes -> Nat] /\ newest \in [Scopes -> Nat]
      /\ seen \in [Scopes \X Subs -> Nat]
      /\ \A q \in Publishers : publisher[q] \in PublisherType /\ publisher[q].rev \in Nat
  BY DEF Types, TypeOK, PublisherType, WorkerType
<1>2. IdlePublisher.pc = "idle"
  BY DEF IdlePublisher
<1>3. Roster'
  BY DEF Order, Roster, Accept, WorkerFor, Submit, Signal, Subscribed
<1>4. ASSUME NEW s \in Scopes, Accept(p, s) PROVE Order'
  <2> DEFINE g == [pc |-> "accepted", scope |-> s, rev |-> published + 1]
  <2>1. g.pc = "accepted" /\ g.scope = s /\ g.rev = published + 1
    OBVIOUS
  <2>2. publisher' = publisher \/ publisher' = [publisher EXCEPT ![p] = g]
    BY <1>4 DEF Accept
  <2>3. UNCHANGED <<worker, pending, newest, seen>> /\ published' = published + 1 /\ LockFree(s)
    BY <1>4 DEF Accept, boxVars, channelVars
  <2> HIDE DEF g
  <2>4. Newest' /\ News'
    BY <1>1, <2>3 DEF Order, Newest, News, Handing
  <2>5. newest[s] < published + 1 /\ published + 1 # 0
    BY <1>1 DEF Order, Newest
  <2>6. Locked'
    <3> SUFFICES ASSUME NEW q \in Publishers, publisher'[q].pc # "idle"
                 PROVE  /\ publisher'[q].scope \in Scopes
                        /\ publisher'[q].rev # 0 /\ publisher'[q].rev <= published'
                        /\ \A r \in Publishers : 
                             publisher'[r].pc # "idle" /\ publisher'[r].scope = publisher'[q].scope
                               => r = q
                        /\ publisher'[q].pc # "submitted" =>
                             newest'[publisher'[q].scope] < publisher'[q].rev
      BY DEF Locked
    <3>1. CASE publisher' = publisher
      BY <1>1, <2>3, <3>1 DEF Order, Locked
    <3>2. CASE publisher' = [publisher EXCEPT ![p] = g]
      <4>1. publisher'[p] = g /\ \A r \in Publishers \ {p} : publisher'[r] = publisher[r]
        BY <1>1, <3>2
      <4>2. \A r \in Publishers \ {p} : publisher[r].pc # "idle" => publisher[r].scope # s
        BY <2>3 DEF LockFree
      <4>3. CASE q = p
        BY <1>1, <2>1, <2>3, <2>5, <4>1, <4>2, <4>3
      <4>4. CASE q # p
        <5>1. publisher'[q] = publisher[q] /\ publisher[q].scope # s
          BY <4>1, <4>2, <4>4
        <5>2. publisher[q].rev <= published'
          BY <1>1, <2>3, <4>1, <4>4 DEF Order, Locked
        <5> QED BY <2>1, <2>3, <4>1, <4>4, <5>1, <5>2 DEF Order, Locked
      <4> QED BY <4>3, <4>4
    <3> QED BY <2>2, <3>1, <3>2
  <2> QED BY <1>3, <2>4, <2>6 DEF Order
<1>5. CASE WorkerFor(p)
  <2> DEFINE s == publisher[p].scope
             g == [publisher[p] EXCEPT !.pc = "holding"]
             w == [worker[s] EXCEPT !.pc = "parked"]
  <2>1. /\ UNCHANGED <<pending, newest, seen, published>>
        /\ publisher[p].pc = "accepted" /\ s \in Scopes
    BY <1>5 DEF WorkerFor, boxVars, channelVars, Types
  <2>2. g.pc = "holding" /\ g.scope = s /\ g.rev = publisher[p].rev
    BY <1>1 DEF PublisherType
  <2>3. w.pc = "parked"
    BY <1>1, <2>1 DEF WorkerType
  <2>4. \/ publisher' = [publisher EXCEPT ![p] = IdlePublisher]
        \/ publisher' = [publisher EXCEPT ![p] = g]
    BY <1>5 DEF WorkerFor
  <2>5. worker' = worker \/ worker' = [worker EXCEPT ![s] = w]
    BY <1>5 DEF WorkerFor
  <2> HIDE DEF g, w
  <2>6. Locked'
    BY <1>1, <1>2, <2>1, <2>2, <2>4 DEF Order, Locked
  <2>7. \A x \in Scopes : Handing(x)' => Handing(x) /\ worker'[x] = worker[x]
    BY <1>1, <2>1, <2>3, <2>5 DEF Handing
  <2>8. Newest' /\ News'
    BY <2>1, <2>7 DEF Order, Newest, News
  <2> QED BY <1>3, <2>6, <2>8 DEF Order
<1>6. CASE Submit(p)
  <2> DEFINE s == publisher[p].scope  r == publisher[p].rev
             g == [publisher[p] EXCEPT !.pc = "submitted"]
  <2>1. /\ UNCHANGED <<worker, seen, published>>
        /\ s \in Scopes /\ r \in Nat /\ r # 0 /\ r <= published /\ newest[s] < r
    BY <1>1, <1>6 DEF Submit, Order, Locked
  <2>2. g.pc = "submitted" /\ g.scope = s /\ g.rev = r
    BY <1>1 DEF PublisherType
  <2>3. publisher' = [publisher EXCEPT ![p] = g]
    BY <1>6 DEF Submit
  <2>4. pending'[s] = r /\ newest'[s] = r
        /\ \A x \in Scopes \ {s} : pending'[x] = pending[x] /\ newest'[x] = newest[x]
    BY <1>1, <1>6, <2>1 DEF Submit
  <2>5. \A q \in Publishers \ {p} : publisher[q].pc # "idle" => publisher[q].scope # s
    BY <1>6 DEF Order, Locked, Submit
  <2> HIDE DEF g
  <2>6. Locked'
    <3>1. publisher'[p] = g /\ \A q \in Publishers \ {p} : publisher'[q] = publisher[q]
      BY <1>1, <2>3
    <3>2. ASSUME NEW q \in Publishers, publisher'[q].pc # "idle"
          PROVE  /\ publisher'[q].scope \in Scopes
                 /\ publisher'[q].rev # 0 /\ publisher'[q].rev <= published'
                 /\ publisher'[q].pc # "submitted" =>
                      newest'[publisher'[q].scope] < publisher'[q].rev
      <4>1. CASE q = p
        BY <2>1, <2>2, <3>1, <4>1
      <4>2. CASE q # p
        BY <2>1, <2>4, <2>5, <3>1, <3>2, <4>2 DEF Order, Locked
      <4> QED BY <4>1, <4>2
    <3>3. ASSUME NEW q \in Publishers, NEW x \in Publishers, publisher'[q].pc # "idle",
                 publisher'[x].pc # "idle", publisher'[x].scope = publisher'[q].scope
          PROVE  x = q
      BY <1>6, <2>2, <2>5, <3>1, <3>3 DEF Order, Locked, Submit
    <3> QED BY <3>2, <3>3 DEF Locked
  <2>7. Newest'
    <3>1. ASSUME NEW x \in Scopes
          PROVE  /\ newest'[x] <= published'
                 /\ pending'[x] # 0 => pending'[x] = newest'[x]
                 /\ \A u \in Subs : /\ seen'[<<x, u>>] <= newest'[x]
                                    /\ pending'[x] # 0 => seen'[<<x, u>>] < pending'[x]
      <4>1. CASE x = s
        <5>1. \A u \in Subs : seen[<<s, u>>] \in Nat /\ seen[<<s, u>>] <= newest[s]
          BY <1>1, <2>1 DEF Order, Newest
        <5> QED BY <1>1, <2>1, <2>4, <4>1, <5>1
      <4>2. CASE x # s
        BY <2>1, <2>4, <4>2 DEF Order, Newest
      <4> QED BY <4>1, <4>2
    <3> QED BY <3>1 DEF Newest
  <2>8. News'
    <3> SUFFICES ASSUME NEW x \in Scopes, Handing(x)
                 PROVE  /\ worker[x].rev <= newest'[x]
                        /\ pending'[x] # 0 => worker[x].rev < pending'[x]
                        /\ Distinct(worker[x].left)
                        /\ \A u \in Elements(worker[x].left) : seen[<<x, u>>] < worker[x].rev
      BY <2>1 DEF News, Handing
    <3>1. worker[x].rev \in Nat /\ worker[x].rev <= newest[x] /\ newest[x] \in Nat
      BY <1>1 DEF Order, News, WorkerType
    <3>2. CASE x = s
      BY <2>1, <2>4, <3>1, <3>2 DEF Order, News
    <3>3. CASE x # s
      BY <2>4, <3>3 DEF Order, News
    <3> QED BY <3>2, <3>3
  <2> QED BY <1>3, <2>6, <2>7, <2>8 DEF Order
<1>7. CASE Signal(p)
  <2>1. /\ UNCHANGED <<worker, pending, newest, seen, published>>
        /\ publisher' = [publisher EXCEPT ![p] = IdlePublisher]
    BY <1>7 DEF Signal, channelVars
  <2>2. Locked'
    BY <1>1, <1>2, <2>1 DEF Order, Locked
  <2>3. Newest' /\ News'
    BY <2>1 DEF Order, Newest, News, Handing
  <2> QED BY <1>3, <2>2, <2>3 DEF Order
<1> QED BY <1>4, <1>5, <1>6, <1>7

(* The worker: what it takes is the newest, what it hands out is news. *)
LEMMA WorkerOrder ==
  ASSUME Types, Order, NEW s \in Scopes, WorkerStep(s) PROVE Order'
<1>1. /\ worker \in [Scopes -> WorkerType] /\ pending \in [Scopes -> Nat]
      /\ newest \in [Scopes -> Nat] /\ seen \in [Scopes \X Subs -> Nat]
      /\ worker[s] \in WorkerType /\ subscribers \in Seq(Subs)
  BY DEF Types, TypeOK, WorkerType
<1>2. UNCHANGED <<subscribers, published, publisher, joined, newest>>
  BY DEF WorkerStep, Wake, Exit, Recheck, Take, StartCallback, EndCallback, Park, channelVars
<1>3. Locked' /\ Roster'
  BY <1>2 DEF Order, Locked, Roster, Subscribed
<1>4. CASE Wake(s) \/ Exit(s) \/ Recheck(s) \/ Park(s) \/ (Take(s) /\ pending[s] = 0)
  <2>1. PICK g : worker' = [worker EXCEPT ![s] = g] /\ g.pc \notin {"delivering", "calling"}
    <3> DEFINE Moved(pc) == [worker[s] EXCEPT !.pc = pc]
               h == [pc |-> "parked", rev |-> 0, left |-> << >>]
    <3>1. \A pc \in {"woken", "exited", "taking", "done"} : Moved(pc).pc = pc
      BY <1>1 DEF WorkerType
    <3>2. h.pc = "parked"
      OBVIOUS
    <3>3. \/ \E pc \in {"woken", "exited", "taking", "done"} :
               worker' = [worker EXCEPT ![s] = Moved(pc)]
          \/ worker' = [worker EXCEPT ![s] = h]
      BY <1>4 DEF Wake, Exit, Recheck, Park, Take
    <3> HIDE DEF Moved, h
    <3> QED BY <3>1, <3>2, <3>3
  <2>2. \A x \in Scopes : pending'[x] = pending[x] /\ seen' = seen
    BY <1>1, <1>4 DEF Wake, Exit, Recheck, Park, Take, boxVars, channelVars
  <2>3. \A x \in Scopes : Handing(x)' => Handing(x) /\ worker'[x] = worker[x]
    BY <1>1, <2>1 DEF Handing
  <2>4. Newest' /\ News'
    BY <1>2, <2>2, <2>3 DEF Order, Newest, News
  <2> QED BY <1>3, <2>4 DEF Order
<1>5. CASE Take(s) /\ pending[s] # 0
  <2> DEFINE h == [pc |-> "delivering", rev |-> pending[s], left |-> subscribers]
  <2>1. h.rev = pending[s] /\ h.left = subscribers
    OBVIOUS
  <2>2. worker'[s] = h /\ \A x \in Scopes \ {s} : worker'[x] = worker[x]
    BY <1>1, <1>5 DEF Take
  <2>3. pending'[s] = 0 /\ seen' = seen /\ \A x \in Scopes \ {s} : pending'[x] = pending[x]
    BY <1>1, <1>5 DEF Take, channelVars
  <2> HIDE DEF h
  <2>4. Newest'
    BY <1>2, <2>3 DEF Order, Newest
  <2>5. Elements(subscribers) \subseteq Subs
    BY <1>1 DEF Elements
  <2>6. News'
    <3> SUFFICES ASSUME NEW x \in Scopes, Handing(x)'
                 PROVE  /\ worker'[x].rev <= newest'[x]
                        /\ pending'[x] # 0 => worker'[x].rev < pending'[x]
                        /\ Distinct(worker'[x].left)
                        /\ \A u \in Elements(worker'[x].left) : seen'[<<x, u>>] < worker'[x].rev
      BY DEF News
    <3>1. CASE x = s
      BY <1>1, <1>2, <1>5, <2>1, <2>2, <2>3, <2>5, <3>1 DEF Order, Newest, Roster
    <3>2. CASE x # s
      BY <1>2, <2>2, <2>3, <3>2 DEF Order, News, Handing
    <3> QED BY <3>1, <3>2
  <2> QED BY <1>3, <2>4, <2>6 DEF Order
<1>6. CASE StartCallback(s) \/ EndCallback(s)
  <2>1. /\ pending' = pending /\ Handing(s)
        /\ worker[s].rev \in Nat /\ worker[s].rev <= newest[s]
        /\ pending[s] # 0 => worker[s].rev < pending[s]
        /\ Distinct(worker[s].left) /\ worker[s].left \in Seq(Subs)
        /\ \A u \in Elements(worker[s].left) : seen[<<s, u>>] < worker[s].rev
    BY <1>1, <1>6 DEF StartCallback, EndCallback, boxVars, Order, News, Handing, WorkerType
  <2>2. /\ \A x \in Scopes \ {s} : worker'[x] = worker[x]
        /\ worker'[s].rev = worker[s].rev
        /\ worker'[s].left = IF StartCallback(s) THEN Tail(worker[s].left) ELSE worker[s].left
    <3>1. CASE StartCallback(s)
      <4> DEFINE h == [worker[s] EXCEPT !.pc = "calling", !.left = Tail(worker[s].left)]
      <4>1. h.rev = worker[s].rev /\ h.left = Tail(worker[s].left)
        BY <1>1 DEF WorkerType
      <4>2. worker' = [worker EXCEPT ![s] = h]
        BY <3>1 DEF StartCallback
      <4> HIDE DEF h
      <4> QED BY <1>1, <3>1, <4>1, <4>2
    <3>2. CASE EndCallback(s)
      <4>1. ~StartCallback(s)
        BY <3>2 DEF StartCallback, EndCallback
      <4> DEFINE h == [worker[s] EXCEPT !.pc = "delivering"]
      <4>2. h.rev = worker[s].rev /\ h.left = worker[s].left
        BY <1>1 DEF WorkerType
      <4>3. worker' = [worker EXCEPT ![s] = h]
        BY <3>2 DEF EndCallback
      <4> HIDE DEF h
      <4> QED BY <1>1, <4>1, <4>2, <4>3
    <3> QED BY <1>6, <3>1, <3>2
  <2>3. CASE StartCallback(s)
    <3> DEFINE u == Head(worker[s].left)
    <3>1. worker[s].left # << >> /\ seen' = [seen EXCEPT ![<<s, u>>] = worker[s].rev]
      BY <2>3 DEF StartCallback
    <3>2. /\ u \in Subs /\ Distinct(Tail(worker[s].left))
          /\ u \notin Elements(Tail(worker[s].left))
          /\ Elements(Tail(worker[s].left)) \subseteq Elements(worker[s].left)
          /\ Tail(worker[s].left) \in Seq(Subs)
      BY <2>1, <3>1, TailLemma
    <3>3. Elements(Tail(worker[s].left)) \subseteq Subs
      BY <3>2 DEF Elements
    <3> HIDE DEF u
    <3>4. /\ seen'[<<s, u>>] = worker[s].rev
          /\ \A x \in Scopes, v \in Subs : <<x, v>> # <<s, u>> => seen'[<<x, v>>] = seen[<<x, v>>]
      BY <1>1, <3>1, <3>2
    <3>5. Newest'
      <4> SUFFICES ASSUME NEW x \in Scopes, NEW v \in Subs
                   PROVE  /\ seen'[<<x, v>>] <= newest[x]
                          /\ pending[x] # 0 => seen'[<<x, v>>] < pending[x]
        BY <1>2, <2>1 DEF Order, Newest
      <4>1. CASE x = s /\ v = u
        BY <2>1, <3>4, <4>1
      <4>2. CASE x # s \/ v # u
        BY <3>4, <4>2 DEF Order, Newest
      <4> QED BY <4>1, <4>2
    <3>6. News'
      <4> SUFFICES ASSUME NEW x \in Scopes, Handing(x)'
                   PROVE  /\ worker'[x].rev <= newest'[x]
                          /\ pending'[x] # 0 => worker'[x].rev < pending'[x]
                          /\ Distinct(worker'[x].left)
                          /\ \A v \in Elements(worker'[x].left) : seen'[<<x, v>>] < worker'[x].rev
        BY DEF News
      <4>1. CASE x = s
        <5>1. \A v \in Elements(Tail(worker[s].left)) : seen'[<<s, v>>] = seen[<<s, v>>]
          BY <3>2, <3>3, <3>4
        <5> QED BY <1>2, <2>1, <2>2, <2>3, <3>2, <4>1, <5>1
      <4>2. CASE x # s
        <5>1. worker'[x] = worker[x] /\ Handing(x) /\ worker[x].left \in Seq(Subs)
          BY <1>1, <2>2, <4>2 DEF Handing, WorkerType
        <5>2. Elements(worker[x].left) \subseteq Subs
          BY <5>1 DEF Elements
        <5>3. \A v \in Subs : seen'[<<x, v>>] = seen[<<x, v>>]
          BY <3>4, <4>2
        <5> QED BY <1>2, <2>1, <5>1, <5>2, <5>3 DEF Order, News
      <4> QED BY <4>1, <4>2
    <3> QED BY <1>3, <3>5, <3>6 DEF Order
  <2>4. CASE EndCallback(s)
    <3>1. seen' = seen /\ ~StartCallback(s)
      BY <2>4 DEF EndCallback, StartCallback, channelVars
    <3>2. \A x \in Scopes : worker'[x].rev = worker[x].rev /\ worker'[x].left = worker[x].left
                            /\ (Handing(x)' => Handing(x))
      BY <2>1, <2>2, <3>1 DEF Handing
    <3>3. Newest' /\ News'
      BY <1>2, <2>1, <3>1, <3>2 DEF Order, Newest, News
    <3> QED BY <1>3, <3>3 DEF Order
  <2> QED BY <1>6, <2>3, <2>4
<1> QED BY <1>4, <1>5, <1>6 DEF WorkerStep

(* Every step. *)
LEMMA NextOrder == Types /\ Order /\ [Next]_vars => Order'
<1> SUFFICES ASSUME Types, Order, [Next]_vars PROVE Order'
  OBVIOUS
<1>1. CASE LifecycleStep
  BY <1>1, LifecycleFrame DEF Order, Locked, Newest, News, Handing, Roster, Subscribed
<1>2. CASE UNCHANGED vars
  BY <1>2 DEF Order, Locked, Newest, News, Handing, Roster, Subscribed, vars
<1> QED BY <1>1, <1>2, NextCases, RosterOrder, PublisherOrder, WorkerOrder

-----------------------------------------------------------------------------
(* Debts: the slot, the wake-up and the busy mark.                         *)

(* Init. *)
LEMMA InitDebts == Init => Debts
BY DEF Init, NoWorker, Debts, Marked, Placed, PendingWakes, DrainedForGood

(* The roster: who leaves is owed nothing more. *)
LEMMA RosterDebts ==
  ASSUME Types, Order, Debts, NEW u \in Subs, OnChange(u) \/ Unsubscribe(u) PROVE Debts'
<1>1. UNCHANGED <<scope, closing, publisher, worker, pending, signal, running, newest>>
  BY DEF OnChange, Unsubscribe, scopeVars, boxVars, channelVars
<1>2. Subscribed \ {u} \subseteq Subscribed'
  BY RosterOrder
<1>3. Marked' /\ PendingWakes' /\ DrainedForGood'
  BY <1>1 DEF Debts, Marked, PendingWakes, DrainedForGood
<1>4. owed' \subseteq owed /\ \A s \in Scopes, v \in Subs : <<s, v>> \in owed' => v \in Subscribed'
  <2>1. CASE OnChange(u)
    <3>1. u \notin Subscribed
      BY <2>1 DEF OnChange, Order, Roster
    <3> QED BY <1>2, <2>1, <3>1 DEF OnChange, channelVars, Debts, Placed
  <2>2. CASE Unsubscribe(u)
    BY <1>2, <2>2 DEF Unsubscribe, Debts, Placed
  <2> QED BY <2>1, <2>2
<1>5. Placed'
  BY <1>1, <1>4 DEF Debts, Placed, Handing, Stopped, Canceled
<1> QED BY <1>3, <1>5 DEF Debts

(* Publications: the slot is filled before the wake-up is sent. *)
LEMMA PublisherDebts ==
  ASSUME Types, Order, Debts, NEW p \in Publishers,
         (\E s \in Scopes : Accept(p, s)) \/ WorkerFor(p) \/ Submit(p) \/ Signal(p)
  PROVE  Debts'
<1>1. /\ publisher \in [Publishers -> PublisherType] /\ worker \in [Scopes -> WorkerType]
      /\ pending \in [Scopes -> Nat] /\ newest \in [Scopes -> Nat]
      /\ signal \in [Scopes -> BOOLEAN] /\ subscribers \in Seq(Subs)
  BY DEF Types, TypeOK, PublisherType, WorkerType
<1>2. UNCHANGED <<scope, closing, subscribers, running>>
  BY DEF Accept, WorkerFor, Submit, Signal, scopeVars
<1>3. ASSUME NEW s \in Scopes, Accept(p, s) PROVE Debts'
  <2>1. UNCHANGED <<worker, pending, signal, newest, owed>>
    BY <1>3 DEF Accept, boxVars, channelVars
  <2>2. \A q \in Publishers : publisher[q].pc = "submitted" => publisher'[q] = publisher[q]
    BY <1>1, <1>3 DEF Accept
  <2> QED BY <1>2, <2>1, <2>2 DEF Debts, Marked, Placed, PendingWakes, DrainedForGood,
         Handing, Stopped, Canceled, Subscribed
<1>4. CASE WorkerFor(p)
  <2> DEFINE s == publisher[p].scope
             w == [worker[s] EXCEPT !.pc = "parked"]
  <2>1. UNCHANGED <<pending, signal, newest, owed>> /\ s \in Scopes
    BY <1>4 DEF WorkerFor, boxVars, channelVars, Types
  <2>2. \A q \in Publishers : publisher[q].pc = "submitted" => publisher'[q] = publisher[q]
    BY <1>1, <1>4 DEF WorkerFor
  <2>3. w.pc = "parked"
    BY <1>1, <2>1 DEF WorkerType
  <2>4. \/ worker' = worker
        \/ worker' = [worker EXCEPT ![s] = w] /\ worker[s].pc = "none" /\ closing # "drained"
    BY <1>4 DEF WorkerFor, Refused
  <2> HIDE DEF w, s
  <2>5. CASE worker' = worker
    BY <1>2, <2>1, <2>2, <2>5 DEF Debts, Marked, Placed, PendingWakes, DrainedForGood,
         Handing, Stopped, Canceled, Subscribed
  <2>6. CASE worker' = [worker EXCEPT ![s] = w] /\ worker[s].pc = "none" /\ closing # "drained"
    <3>1. worker'[s].pc = "parked" /\ \A x \in Scopes \ {s} : worker'[x] = worker[x]
      BY <1>1, <2>1, <2>3, <2>6
    <3>2. Marked' /\ DrainedForGood'
      BY <1>2, <2>6, <3>1 DEF Debts, Marked, DrainedForGood
    <3>3. \A x \in Scopes : Handing(x) => worker'[x] = worker[x]
      BY <2>6, <3>1 DEF Handing
    <3>4. Placed'
      BY <1>2, <2>1, <3>3 DEF Debts, Placed, Handing, Stopped, Canceled, Subscribed
    <3>5. PendingWakes'
      BY <2>1, <2>2, <2>6, <3>1 DEF Debts, PendingWakes
    <3> QED BY <3>2, <3>4, <3>5 DEF Debts
  <2> QED BY <2>4, <2>5, <2>6
<1>5. CASE Submit(p)
  <2> DEFINE s == publisher[p].scope
             g == [publisher[p] EXCEPT !.pc = "submitted"]
  <2>1. /\ UNCHANGED <<worker, signal>> /\ publisher' = [publisher EXCEPT ![p] = g]
        /\ s \in Scopes /\ publisher[p].rev # 0 /\ publisher[p].rev \in Nat
    BY <1>1, <1>5 DEF Submit, Order, Locked, PublisherType
  <2>2. g.pc = "submitted" /\ g.scope = s
    BY <1>1 DEF PublisherType
  <2>3. /\ pending'[s] # 0
        /\ \A x \in Scopes \ {s} : pending'[x] = pending[x] /\ newest'[x] = newest[x]
    BY <1>1, <1>5, <2>1 DEF Submit
  <2>4. owed' = owed \/ (~Stopped(s) /\ owed' = owed \cup ({s} \X Subscribed))
    BY <1>5 DEF Submit
  <2> HIDE DEF s, g
  <2>5. Marked' /\ DrainedForGood'
    BY <1>2, <2>1 DEF Debts, Marked, DrainedForGood
  <2>6. PendingWakes'
    <3> SUFFICES ASSUME NEW x \in Scopes, pending'[x] # 0, worker[x].pc # "exited"
                 PROVE  \/ signal[x]
                        \/ worker[x].pc \in {"woken", "taking"}
                        \/ \E q \in Publishers :
                             publisher'[q].pc = "submitted" /\ publisher'[q].scope = x
      BY <2>1 DEF PendingWakes
    <3>1. publisher'[p] = g /\ \A q \in Publishers \ {p} : publisher'[q] = publisher[q]
      BY <1>1, <2>1
    <3>2. CASE x = s
      BY <2>2, <3>1, <3>2
    <3>3. CASE x # s
      <4>1. publisher[p].pc # "submitted"
        BY <1>5 DEF Submit
      <4> QED BY <2>3, <3>1, <3>3, <4>1 DEF Debts, PendingWakes
    <3> QED BY <3>2, <3>3
  <2>7. Placed'
    <3> SUFFICES ASSUME NEW x \in Scopes, NEW v \in Subs, <<x, v>> \in owed'
                 PROVE  /\ v \in Subscribed /\ ~Stopped(x)
                        /\ \/ pending'[x] # 0
                           \/ /\ Handing(x) /\ worker[x].rev = newest'[x]
                              /\ v \in Elements(worker[x].left)
      BY <1>2, <2>1 DEF Placed, Stopped, Canceled, Subscribed, Handing
    <3>1. CASE <<x, v>> \in owed
      <4>1. v \in Subscribed /\ ~Stopped(x)
            /\ (pending[x] # 0 \/ (Handing(x) /\ worker[x].rev = newest[x]
                                   /\ v \in Elements(worker[x].left)))
        BY <3>1 DEF Debts, Placed
      <4> QED BY <2>3, <4>1
    <3>2. CASE <<x, v>> \notin owed
      <4>1. x = s /\ v \in Subscribed /\ ~Stopped(s)
        BY <2>4, <3>2
      <4> QED BY <2>3, <4>1
    <3> QED BY <3>1, <3>2
  <2> QED BY <2>5, <2>6, <2>7 DEF Debts
<1>6. CASE Signal(p)
  <2> DEFINE s == publisher[p].scope
  <2>1. /\ UNCHANGED <<worker, pending, newest, owed>> /\ publisher[p].pc = "submitted"
        /\ publisher' = [publisher EXCEPT ![p] = IdlePublisher] /\ s \in Scopes
        /\ signal' = [signal EXCEPT ![s] = TRUE]
    BY <1>6 DEF Signal, channelVars, Types
  <2> HIDE DEF s
  <2>2. Marked' /\ DrainedForGood' /\ Placed'
    BY <1>2, <2>1 DEF Debts, Marked, DrainedForGood, Placed, Handing, Stopped, Canceled, Subscribed
  <2>3. PendingWakes'
    <3> SUFFICES ASSUME NEW x \in Scopes, pending[x] # 0, worker[x].pc # "exited", ~signal'[x],
                        worker[x].pc \notin {"woken", "taking"}
                 PROVE  \E q \in Publishers :
                           publisher'[q].pc = "submitted" /\ publisher'[q].scope = x
      BY <2>1 DEF PendingWakes
    <3>1. x # s /\ ~signal[x]
      BY <1>1, <2>1
    <3>2. PICK q \in Publishers : publisher[q].pc = "submitted" /\ publisher[q].scope = x
      BY <3>1 DEF Debts, PendingWakes
    <3>3. q # p
      BY <3>1, <3>2 DEF s
    <3> QED BY <1>1, <2>1, <3>2, <3>3
  <2> QED BY <2>2, <2>3 DEF Debts
<1> QED BY <1>3, <1>4, <1>5, <1>6

(* The worker: it leaves its list, or the busy mark, when nothing is owed. *)
LEMMA WorkerDebts ==
  ASSUME Types, Order, Debts, NEW s \in Scopes, WorkerStep(s) PROVE Debts'
<1>1. /\ worker \in [Scopes -> WorkerType] /\ pending \in [Scopes -> Nat]
      /\ newest \in [Scopes -> Nat] /\ signal \in [Scopes -> BOOLEAN]
      /\ worker[s] \in WorkerType /\ worker[s].left \in Seq(Subs)
      /\ subscribers \in Seq(Subs) /\ Elements(subscribers) = Subscribed
      /\ owed \in SUBSET (Scopes \X Subs)
  BY DEF Types, TypeOK, WorkerType, Elements, Subscribed
<1>2. UNCHANGED <<scope, closing, subscribers, publisher, newest>> /\ owed' \subseteq owed
  BY DEF WorkerStep, Wake, Exit, Recheck, Take, StartCallback, EndCallback, Park, scopeVars,
         channelVars
<1>3. worker[s].pc \notin {"none", "exited"}
  BY DEF WorkerStep, Wake, Exit, Recheck, Take, StartCallback, EndCallback, Park
<1>4. DrainedForGood'
  BY <1>2, <1>3 DEF Debts, DrainedForGood
<1> DEFINE Moved(pc) == [worker[s] EXCEPT !.pc = pc]
<1>5. \A pc \in {"woken", "exited", "taking", "done", "delivering"} :
        Moved(pc).pc = pc /\ Moved(pc).rev = worker[s].rev /\ Moved(pc).left = worker[s].left
  BY <1>1 DEF WorkerType
<1>6. ASSUME NEW x \in Scopes, NEW u \in Subs, <<x, u>> \in owed
      PROVE  /\ u \in Subscribed' /\ ~Stopped(x)'
             /\ \/ pending[x] # 0
                \/ Handing(x) /\ worker[x].rev = newest[x] /\ u \in Elements(worker[x].left)
  BY <1>2, <1>6 DEF Debts, Placed, Stopped, Canceled, Subscribed
<1>7. CASE Wake(s) \/ Exit(s) \/ Recheck(s)
  <2> DEFINE pc == IF Wake(s) THEN "woken" ELSE IF Recheck(s) THEN "taking" ELSE "exited"
  <2>1. /\ pending' = pending /\ owed' = owed /\ worker' = [worker EXCEPT ![s] = Moved(pc)]
        /\ worker[s].pc \in {"parked", "woken"}
    BY <1>7 DEF Wake, Exit, Recheck, boxVars, channelVars
  <2>2. /\ worker'[s].pc = pc /\ pc \in {"woken", "taking", "exited"}
        /\ \A x \in Scopes \ {s} : worker'[x] = worker[x]
    <3> HIDE DEF Moved
    <3>1. pc \in {"woken", "taking", "exited"}
      OBVIOUS
    <3> QED BY <1>1, <1>5, <2>1, <3>1
  <2>3. /\ \A x \in Scopes \ {s} : signal'[x] = signal[x] /\ (x \in running => x \in running')
        /\ pc # "exited" => s \in running'
    <3>1. CASE Wake(s)
      BY <1>1, <3>1 DEF Wake
    <3>2. CASE ~Wake(s) /\ Recheck(s)
      BY <3>2 DEF Recheck, boxVars, Debts, Marked
    <3>3. CASE ~Wake(s) /\ ~Recheck(s)
      BY <1>7, <3>3 DEF Exit, boxVars
    <3> QED BY <3>1, <3>2, <3>3
  <2> HIDE DEF pc, Moved
  <2>4. Marked'
    BY <2>2, <2>3 DEF Debts, Marked
  <2>5. PendingWakes'
    BY <1>2, <2>1, <2>2, <2>3 DEF Debts, PendingWakes
  <2>6. \A x \in Scopes : Handing(x) => Handing(x)' /\ worker'[x] = worker[x]
    BY <2>1, <2>2 DEF Handing
  <2>7. Placed'
    BY <1>2, <1>6, <2>1, <2>6 DEF Placed
  <2> QED BY <1>4, <2>4, <2>5, <2>7 DEF Debts
<1>8. CASE Take(s)
  <2> DEFINE h == [pc |-> "delivering", rev |-> pending[s], left |-> subscribers]
             g == IF pending[s] = 0 THEN Moved("done") ELSE h
  <2>1. h.pc = "delivering" /\ h.rev = pending[s] /\ h.left = subscribers
    OBVIOUS
  <2>2. /\ worker' = [worker EXCEPT ![s] = g] /\ worker[s].pc = "taking"
        /\ pending' = [pending EXCEPT ![s] = 0] /\ UNCHANGED <<signal, running, owed>>
    BY <1>8 DEF Take, channelVars
  <2> HIDE DEF h, Moved
  <2>3. g.pc \in {"delivering", "done"} /\ (pending[s] # 0 => g = h)
    BY <1>5, <2>1
  <2> HIDE DEF g
  <2>4. /\ worker'[s] = g /\ \A x \in Scopes \ {s} : worker'[x] = worker[x]
        /\ pending'[s] = 0 /\ \A x \in Scopes \ {s} : pending'[x] = pending[x]
    BY <1>1, <2>2
  <2>5. s \in running
    BY <2>2 DEF Debts, Marked
  <2>6. Marked'
    BY <2>2, <2>4, <2>5 DEF Debts, Marked
  <2>7. PendingWakes'
    BY <1>2, <2>2, <2>4 DEF Debts, PendingWakes
  <2>8. Placed'
    <3> SUFFICES ASSUME NEW x \in Scopes, NEW u \in Subs, <<x, u>> \in owed
                 PROVE  \/ pending'[x] # 0
                        \/ /\ Handing(x)' /\ worker'[x].rev = newest[x]
                           /\ u \in Elements(worker'[x].left)
      BY <1>2, <1>6, <2>2 DEF Placed
    <3>1. CASE x # s
      BY <1>6, <2>4, <3>1 DEF Handing
    <3>2. CASE x = s
      <4>1. pending[s] # 0 /\ pending[s] = newest[s] /\ u \in Elements(subscribers)
        BY <1>1, <1>2, <1>6, <2>2, <3>2, ZenonT(40) DEF Handing, Order, Newest, Subscribed
      <4>2. worker'[s] = h
        BY <2>3, <2>4, <4>1
      <4> QED BY <2>1, <3>2, <4>1, <4>2 DEF Handing
    <3> QED BY <3>1, <3>2
  <2> QED BY <1>4, <2>6, <2>7, <2>8 DEF Debts
<1>9. CASE StartCallback(s)
  <2> DEFINE u == Head(worker[s].left)
             h == [worker[s] EXCEPT !.pc = "calling", !.left = Tail(worker[s].left)]
  <2>1. h.pc = "calling" /\ h.rev = worker[s].rev /\ h.left = Tail(worker[s].left)
    BY <1>1 DEF WorkerType
  <2>2. /\ worker' = [worker EXCEPT ![s] = h] /\ worker[s].pc = "delivering"
        /\ worker[s].left # << >>
        /\ UNCHANGED <<pending, signal, running>>
        /\ owed' = IF worker[s].rev = newest[s] THEN owed \ {<<s, u>>} ELSE owed
    BY <1>9 DEF StartCallback, boxVars
  <2>3. Elements(worker[s].left) = {u} \cup Elements(Tail(worker[s].left))
    BY <1>1, <2>2, TailLemma
  <2> HIDE DEF h, u, Moved
  <2>4. worker'[s] = h /\ \A x \in Scopes \ {s} : worker'[x] = worker[x]
    BY <1>1, <2>2
  <2>5. Marked' /\ PendingWakes'
    BY <1>2, <2>1, <2>2, <2>4 DEF Debts, Marked, PendingWakes
  <2>6. Placed'
    <3> SUFFICES ASSUME NEW x \in Scopes, NEW v \in Subs, <<x, v>> \in owed', pending[x] = 0
                 PROVE  /\ Handing(x)' /\ worker'[x].rev = newest[x]
                        /\ v \in Elements(worker'[x].left)
      BY <1>2, <1>6, <2>2 DEF Placed
    <3>1. Handing(x) /\ worker[x].rev = newest[x] /\ v \in Elements(worker[x].left)
      BY <1>2, <1>6
    <3>2. CASE x # s
      BY <2>4, <3>1, <3>2 DEF Handing
    <3>3. CASE x = s
      <4>1. v # u
        BY <2>2, <3>1, <3>3
      <4> QED BY <2>1, <2>3, <2>4, <3>1, <3>3, <4>1 DEF Handing
    <3> QED BY <3>2, <3>3
  <2> QED BY <1>4, <2>5, <2>6 DEF Debts
<1>10. CASE EndCallback(s)
  <2>1. /\ worker' = [worker EXCEPT ![s] = Moved("delivering")] /\ worker[s].pc = "calling"
        /\ UNCHANGED <<pending, signal, running, owed>>
    BY <1>10 DEF EndCallback, boxVars, channelVars
  <2> HIDE DEF Moved
  <2>2. /\ worker'[s].pc = "delivering" /\ \A x \in Scopes \ {s} : worker'[x] = worker[x]
        /\ worker'[s].rev = worker[s].rev /\ worker'[s].left = worker[s].left
    BY <1>1, <1>5, <2>1
  <2>3. Marked' /\ PendingWakes'
    BY <1>2, <2>1, <2>2 DEF Debts, Marked, PendingWakes
  <2>4. Placed'
    BY <1>2, <1>6, <2>1, <2>2 DEF Placed, Handing
  <2> QED BY <1>4, <2>3, <2>4 DEF Debts
<1>11. CASE Park(s)
  <2> DEFINE h == [pc |-> "parked", rev |-> 0, left |-> << >>]
  <2>1. h.pc = "parked"
    OBVIOUS
  <2>2. /\ worker' = [worker EXCEPT ![s] = h] /\ running' = running \ {s}
        /\ worker[s].pc \in {"delivering", "done"}
        /\ worker[s].pc = "delivering" => worker[s].left = << >>
        /\ UNCHANGED <<pending, signal, owed>>
    BY <1>11 DEF Park, boxVars, channelVars
  <2> HIDE DEF h, Moved
  <2>3. worker'[s] = h /\ \A x \in Scopes \ {s} : worker'[x] = worker[x]
    BY <1>1, <2>2
  <2>4. Marked'
    BY <2>1, <2>2, <2>3 DEF Debts, Marked
  <2>5. PendingWakes'
    BY <1>2, <2>1, <2>2, <2>3 DEF Debts, PendingWakes
  <2>6. Placed'
    <3> SUFFICES ASSUME NEW x \in Scopes, NEW v \in Subs, <<x, v>> \in owed, pending[x] = 0
                 PROVE  /\ Handing(x)' /\ worker'[x].rev = newest[x]
                        /\ v \in Elements(worker'[x].left)
      BY <1>2, <1>6, <2>2 DEF Placed
    <3>1. Handing(x) /\ worker[x].rev = newest[x] /\ v \in Elements(worker[x].left)
      BY <1>6
    <3>2. x # s
      BY <2>2, <3>1 DEF Handing, Elements
    <3> QED BY <2>3, <3>1, <3>2 DEF Handing
  <2> QED BY <1>4, <2>4, <2>5, <2>6 DEF Debts
<1> QED BY <1>7, <1>8, <1>9, <1>10, <1>11 DEF WorkerStep

(* Every step. *)
LEMMA NextDebts == Types /\ Order /\ Debts /\ [Next]_vars => Debts'
<1> SUFFICES ASSUME Types, Order, Debts, [Next]_vars PROVE Debts'
  OBVIOUS
<1>1. CASE LifecycleStep
  <2>1. Marked' /\ PendingWakes'
    BY <1>1, LifecycleFrame DEF Debts, Marked, PendingWakes
  <2>2. Placed'
    BY <1>1, LifecycleFrame DEF Debts, Placed, Handing, Subscribed
  <2>3. DrainedForGood'
    <3>1. UNCHANGED worker
      BY <1>1, LifecycleFrame
    <3>2. closing' = "drained" => closing = "drained" \/ Drained
      BY <1>1 DEF LifecycleStep, BringUp, DropScope, StopScopeWorkers, MarkClosed, Cancel,
           CloseWorkers, WaitForWorkers
    <3> QED BY <3>1, <3>2 DEF Debts, DrainedForGood, Drained
  <2> QED BY <2>1, <2>2, <2>3 DEF Debts
<1>2. CASE UNCHANGED vars
  BY <1>2 DEF Debts, Marked, Placed, PendingWakes, DrainedForGood, Handing, Stopped, Canceled,
       Subscribed, vars
<1> QED BY <1>1, <1>2, NextCases, RosterDebts, PublisherDebts, WorkerDebts

-----------------------------------------------------------------------------
(* The theorems.                                                           *)

(* The three layers hold in every reachable state. *)
THEOREM Invariant == Spec => [](Types /\ Order /\ Debts)
<1>1. Init => Types /\ Order /\ Debts
  BY InitTypes, InitOrder, InitDebts
<1>2. Types /\ Order /\ Debts /\ [Next]_vars => (Types /\ Order /\ Debts)'
  BY NextTypes, NextOrder, NextDebts
<1> QED BY <1>1, <1>2, PTL DEF Spec

(* No wake-up is lost (submit and runWorker): a change in the slot of a    *)
(* worker that has not exited has its signal buffered, about to be sent or *)
(* just received.                                                          *)
THEOREM NoLostWakeUp == Spec => []PendingWakes
<1>1. Types /\ Order /\ Debts => PendingWakes
  BY DEF Debts
<1> QED BY <1>1, Invariant, PTL

(* A publication some subscriber is still owed is in the slot or under the *)
(* busy mark, at every moment of runWorker's hand-over between them.       *)
THEOREM DebtsAreVisible == Spec => []OwedVisible
<1>1. Types /\ Order /\ Debts => OwedVisible
  <2> SUFFICES ASSUME Types, Debts, NEW c \in owed PROVE pending[c[1]] # 0 \/ c[1] \in running
    BY DEF OwedVisible
  <2>1. PICK s \in Scopes, u \in Subs : c = <<s, u>>
    BY DEF Types, TypeOK
  <2>2. pending[s] # 0 \/ Handing(s)
    BY <2>1 DEF Debts, Placed
  <2>3. Handing(s) => s \in running
    BY DEF Debts, Marked, Handing
  <2> QED BY <2>1, <2>2, <2>3
<1> QED BY <1>1, Invariant, PTL

(* When Engine.Close has reported a clean drain no worker is left, and     *)
(* none is started afterwards.                                             *)
THEOREM CloseIsFinal == Spec => []DrainedForGood
<1>1. Types /\ Order /\ Debts => DrainedForGood
  BY DEF Debts
<1> QED BY <1>1, Invariant, PTL

(* Every step is one of the channel's, or none of its business. *)
LEMMA StepConflates ==
  ASSUME Types, Order, Debts, Types', [Next]_vars
  PROVE  [C!Next]_(C!channelVars)
<1>1. /\ newest \in [Scopes -> Nat] /\ seen \in [Scopes \X Subs -> Nat]
      /\ owed \in SUBSET (Scopes \X Subs) /\ subscribers \in Seq(Subs)
      /\ publisher \in [Publishers -> PublisherType] /\ worker \in [Scopes -> WorkerType]
  BY DEF Types, TypeOK, PublisherType, WorkerType
<1>2. ASSUME owed' \subseteq owed, UNCHANGED <<newest, seen>> PROVE C!Next
  BY <1>2 DEF C!Next, C!Forgo
<1>3. ASSUME NEW u \in Subs, OnChange(u) \/ Unsubscribe(u) PROVE C!Next
  BY <1>2, <1>3 DEF OnChange, Unsubscribe, channelVars
<1>4. ASSUME NEW p \in Publishers, Submit(p) PROVE C!Next
  <2> DEFINE s == publisher[p].scope
  <2>1. s \in Scopes /\ newest[s] < publisher[p].rev /\ publisher[p].rev \in Nat
    BY <1>1, <1>4 DEF Submit, Order, Locked, PublisherType
  <2>2. newest' = [newest EXCEPT ![s] = publisher[p].rev] /\ UNCHANGED seen
    BY <1>4 DEF Submit
  <2>3. newest'[s] = publisher[p].rev
    BY <1>1, <2>1, <2>2
  <2>4. Subscribed \in SUBSET Subs /\ {} \in SUBSET Subs /\ {s} \X {} = {}
    BY <1>1 DEF Subscribed
  <2>5. \E D \in SUBSET Subs : owed' = owed \cup ({s} \X D)
    <3>1. CASE Stopped(s)
      <4>1. owed' = owed \cup ({s} \X {})
        BY <1>4, <2>4, <3>1 DEF Submit
      <4> QED BY <2>4, <4>1
    <3>2. CASE ~Stopped(s)
      BY <1>4, <2>4, <3>2 DEF Submit
    <3> QED BY <3>1, <3>2
  <2>6. C!Publish(s)
    <3>1. newest'[s] > newest[s]
      BY <1>1, <2>1, <2>3
    <3>2. newest' = [newest EXCEPT ![s] = newest'[s]]
      BY <2>2, <2>3
    <3> HIDE DEF s
    <3> QED BY <2>2, <2>5, <3>1, <3>2 DEF C!Publish
  <2> QED BY <2>1, <2>6 DEF C!Next
<1>5. ASSUME NEW p \in Publishers,
             (\E s \in Scopes : Accept(p, s)) \/ WorkerFor(p) \/ Signal(p)
      PROVE  C!Next
  BY <1>2, <1>5 DEF Accept, WorkerFor, Signal, channelVars
<1>6. ASSUME NEW s \in Scopes, StartCallback(s) PROVE C!Next
  <2> DEFINE u == Head(worker[s].left)  c == <<s, u>>  r == worker[s].rev
  <2>1. Handing(s) /\ worker[s].left # << >> /\ worker[s].left \in Seq(Subs) /\ r \in Nat
    BY <1>1, <1>6 DEF StartCallback, Handing, WorkerType
  <2>2. u \in Elements(worker[s].left) /\ u \in Subs
    BY <2>1, TailLemma
  <2>3. seen[c] < r /\ r <= newest[s] /\ c \in Scopes \X Subs
    BY <2>1, <2>2 DEF Order, News
  <2>4. /\ seen' = [seen EXCEPT ![c] = r] /\ UNCHANGED newest
        /\ owed' = IF r = newest[s] THEN owed \ {c} ELSE owed
    BY <1>6 DEF StartCallback
  <2>5. seen'[c] = r /\ c[1] = s
    BY <1>1, <2>3, <2>4
  <2> HIDE DEF u, r
  <2>6. seen'[c] \in seen[c] + 1 .. newest[c[1]]
    BY <1>1, <2>1, <2>3, <2>5
  <2> HIDE DEF c
  <2>7. C!Deliver(c)
    BY <2>4, <2>5, <2>6 DEF C!Deliver
  <2> QED BY <2>3, <2>7 DEF C!Next, C!Channels
<1>7. ASSUME NEW s \in Scopes, WorkerStep(s), ~StartCallback(s) PROVE C!Next
  BY <1>2, <1>7 DEF WorkerStep, Wake, Exit, Recheck, Take, EndCallback, Park, channelVars
<1>8. CASE LifecycleStep
  BY <1>2, <1>8, LifecycleFrame
<1>9. CASE UNCHANGED vars
  BY <1>9 DEF vars, C!channelVars
<1> QED BY <1>3, <1>4, <1>5, <1>6, <1>7, <1>8, <1>9, NextCases

(* The mailbox and its worker implement the conflating channel: within one *)
(* scope state a subscriber never sees publications twice or out of order, *)
(* and its debt is settled only by the newest, by leaving or by a stop.    *)
THEOREM Refinement == Spec => Conflates
<1>1. Init => C!Init
  BY DEF Init, C!Init, C!Channels
<1>2. Types /\ Order /\ Debts /\ Types' /\ [Next]_vars => [C!Next]_(C!channelVars)
  BY StepConflates
<1> QED BY <1>1, <1>2, Invariant, PTL DEF Spec, Conflates, C!Spec
=============================================================================
