----------------------------- MODULE Dispatch -------------------------------
(***************************************************************************)
(* Delivery of one key's publications to its OnChange subscribers          *)
(* (internal/engine/dispatch.go): a worker goroutine per scope state with  *)
(* a single-slot mailbox, a buffered wake-up, and two ways to be stopped,  *)
(* the scope's drop and Engine.Close.  A scope dropped and brought up      *)
(* again is a new scope state with a worker of its own; the old one may    *)
(* still be inside a subscriber.                                           *)
(***************************************************************************)
EXTENDS Naturals, Sequences, FiniteSets

CONSTANTS
  Scopes,       \* successive states of one scope, 1 .. n
  Subs,         \* subscribers, each registered at most once
  Publishers,   \* goroutines that publish: the feed, the reconcile, a writer
  MaxPubs       \* bound: accepted publications

ASSUME PubsAssumption == MaxPubs \in Nat

VARIABLES
  scope,        \* "absent", "tracked", "stopping" (out of the map), "dropped"
  closing,      \* how far Engine.Close is
  subscribers,  \* the key's registrations, in order
  published,    \* accepted publications so far, their revision order
  publisher,    \* who holds which scope's lock, and where
  worker,       \* the key's worker of each scope state
  pending,      \* its slot: a publication, or 0
  signal,       \* its buffered wake-up
  running,      \* workers marked busy
  \* history, read by no action
  newest, seen, owed,
  joined        \* subscribers that have registered

scopeVars == <<scope, closing>>
boxVars == <<pending, signal>>
channelVars == <<newest, seen, owed>>
vars == <<scope, closing, subscribers, published, publisher, worker, pending,
          signal, running, newest, seen, owed, joined>>

IdlePublisher == [pc |-> "idle", scope |-> 0, rev |-> 0]
NoWorker == [pc |-> "none", rev |-> 0, left |-> << >>]

Init ==
  /\ scope = [s \in Scopes |-> "absent"]
  /\ closing = "open"
  /\ subscribers = << >>
  /\ published = 0
  /\ publisher = [p \in Publishers |-> IdlePublisher]
  /\ worker = [s \in Scopes |-> NoWorker]
  /\ pending = [s \in Scopes |-> 0]
  /\ signal = [s \in Scopes |-> FALSE]
  /\ running = {}
  /\ newest = [s \in Scopes |-> 0]
  /\ seen = [c \in Scopes \X Subs |-> 0]
  /\ owed = {}
  /\ joined = {}

(* A worker is told to stop by its scope's sweep or by the lifecycle       *)
(* context Close cancels.                                                  *)
Canceled == closing \in {"canceled", "waiting", "drained", "timeout"}
Stopped(s) == scope[s] = "dropped" \/ Canceled

-----------------------------------------------------------------------------
(* Registrations. *)

Subscribed == {subscribers[i] : i \in DOMAIN subscribers}

OnChange(u) ==
  /\ closing = "open"
  /\ u \notin joined
  /\ subscribers' = Append(subscribers, u)
  /\ joined' = joined \cup {u}
  /\ UNCHANGED <<scopeVars, published, publisher, worker, boxVars, running,
                 channelVars>>

(* slices.Delete(q, i, i+1) *)
Without(q, i) == SubSeq(q, 1, i - 1) \o SubSeq(q, i + 1, Len(q))

(* The unsubscribe it returned: the entry with its id. *)
Unsubscribe(u) ==
  /\ \E i \in DOMAIN subscribers :
       subscribers[i] = u /\ subscribers' = Without(subscribers, i)
  /\ owed' = {c \in owed : c[2] # u}
  /\ UNCHANGED <<scopeVars, published, publisher, worker, boxVars, running,
                 newest, seen, joined>>

-----------------------------------------------------------------------------
(* publish and dispatch, under the scope's write lock. *)

(* Mutant: the fence decision and the mailbox write under separate locks. *)
LockFree_Always(s) == TRUE

LockFree(s) ==
  \A p \in Publishers : publisher[p].pc = "idle" \/ publisher[p].scope # s

(* The publication is accepted into the cache; with no subscriber it goes  *)
(* no further.                                                             *)
Accept(p, s) ==
  /\ publisher[p].pc = "idle"
  /\ LockFree(s)
  /\ scope[s] = "tracked"
  /\ closing = "open"
  /\ published < MaxPubs
  /\ published' = published + 1
  /\ publisher' = IF subscribers = << >> THEN publisher
                  ELSE [publisher EXCEPT ![p] =
                          [pc |-> "accepted", scope |-> s, rev |-> published + 1]]
  /\ UNCHANGED <<scopeVars, subscribers, worker, boxVars, running, channelVars, joined>>

(* What workerFor answers nil to. *)
Refused(s) == closing \in {"waiting", "drained", "timeout"} \/ scope[s] = "dropped"

(* workerFor: the scope's worker, started on first use. *)
WorkerFor(p) ==
  LET s == publisher[p].scope IN
  /\ publisher[p].pc = "accepted"
  /\ IF Refused(s)
     THEN /\ publisher' = [publisher EXCEPT ![p] = IdlePublisher]
          /\ UNCHANGED worker
     ELSE /\ publisher' = [publisher EXCEPT ![p].pc = "holding"]
          /\ worker' = IF worker[s].pc # "none" THEN worker
                       ELSE [worker EXCEPT ![s].pc = "parked"]
  /\ UNCHANGED <<scopeVars, subscribers, published, boxVars, running, channelVars, joined>>

(* submit, the slot: whatever was pending is overwritten. *)
Submit(p) ==
  LET s == publisher[p].scope IN
  /\ publisher[p].pc = "holding"
  /\ publisher' = [publisher EXCEPT ![p].pc = "submitted"]
  /\ pending' = [pending EXCEPT ![s] = publisher[p].rev]
  /\ newest' = [newest EXCEPT ![s] = publisher[p].rev]
  /\ owed' = IF Stopped(s) THEN owed ELSE owed \cup ({s} \X Subscribed)
  /\ UNCHANGED <<scopeVars, subscribers, published, worker, signal, running, seen, joined>>

(* Mutant: the wake-up is sent only to a worker that waits. *)
Signal_IfParked(p) ==
  LET s == publisher[p].scope IN
  /\ publisher[p].pc = "submitted"
  /\ publisher' = [publisher EXCEPT ![p] = IdlePublisher]
  /\ signal' = [signal EXCEPT ![s] = @ \/ worker[s].pc = "parked"]
  /\ UNCHANGED <<scopeVars, subscribers, published, worker, pending, running,
                 channelVars, joined>>

(* submit, the wake-up: a full buffer already says there is work. *)
Signal(p) ==
  LET s == publisher[p].scope IN
  /\ publisher[p].pc = "submitted"
  /\ publisher' = [publisher EXCEPT ![p] = IdlePublisher]
  /\ signal' = [signal EXCEPT ![s] = TRUE]
  /\ UNCHANGED <<scopeVars, subscribers, published, worker, pending, running,
                 channelVars, joined>>

-----------------------------------------------------------------------------
(* runWorker and deliver. *)

(* Mutant: the mark is put up only by a delivery, after the slot. *)
Wake_Unmarked(s) ==
  /\ worker[s].pc = "parked"
  /\ signal[s]
  /\ signal' = [signal EXCEPT ![s] = FALSE]
  /\ worker' = [worker EXCEPT ![s].pc = "woken"]
  /\ UNCHANGED <<scopeVars, subscribers, published, publisher, pending, running,
                 channelVars, joined>>

(* The outer select may take the wake-up even when a stop is ready too. *)
Wake(s) ==
  /\ worker[s].pc = "parked"
  /\ signal[s]
  /\ signal' = [signal EXCEPT ![s] = FALSE]
  /\ worker' = [worker EXCEPT ![s].pc = "woken"]
  /\ running' = running \cup {s}
  /\ UNCHANGED <<scopeVars, subscribers, published, publisher, pending,
                 channelVars, joined>>

(* The stop case of either select. *)
Exit(s) ==
  /\ worker[s].pc \in {"parked", "woken"}
  /\ Stopped(s)
  /\ worker' = [worker EXCEPT ![s].pc = "exited"]
  /\ running' = running \ {s}
  /\ UNCHANGED <<scopeVars, subscribers, published, publisher, boxVars,
                 channelVars, joined>>

(* The inner select: no stop is ready. *)
Recheck(s) ==
  /\ worker[s].pc = "woken"
  /\ ~Stopped(s)
  /\ worker' = [worker EXCEPT ![s].pc = "taking"]
  /\ UNCHANGED <<scopeVars, subscribers, published, publisher, boxVars, running,
                 channelVars, joined>>

(* take, and the copy of the subscriber list; a wake-up may find the slot  *)
(* empty.                                                                  *)
Take(s) ==
  /\ worker[s].pc = "taking"
  /\ worker' = [worker EXCEPT ![s] =
       IF pending[s] = 0 THEN [worker[s] EXCEPT !.pc = "done"]
       ELSE [pc |-> "delivering", rev |-> pending[s], left |-> subscribers]]
  /\ pending' = [pending EXCEPT ![s] = 0]
  /\ UNCHANGED <<scopeVars, subscribers, published, publisher, signal, running,
                 channelVars, joined>>

(* The next subscriber is called. *)
StartCallback(s) ==
  LET w == worker[s]  c == <<s, Head(w.left)>> IN
  /\ w.pc = "delivering"
  /\ w.left # << >>
  /\ worker' = [worker EXCEPT ![s] = [w EXCEPT !.pc = "calling", !.left = Tail(w.left)]]
  /\ seen' = [seen EXCEPT ![c] = w.rev]
  /\ owed' = IF w.rev = newest[s] THEN owed \ {c} ELSE owed
  /\ UNCHANGED <<scopeVars, subscribers, published, publisher, boxVars, running,
                 newest, joined>>

(* It returns, or panics and is recovered. *)
EndCallback(s) ==
  /\ worker[s].pc = "calling"
  /\ worker' = [worker EXCEPT ![s].pc = "delivering"]
  /\ UNCHANGED <<scopeVars, subscribers, published, publisher, boxVars, running,
                 channelVars, joined>>

(* The list is exhausted, or there was nothing: the mark goes. *)
Park(s) ==
  /\ \/ worker[s].pc = "delivering" /\ worker[s].left = << >>
     \/ worker[s].pc = "done"
  /\ worker' = [worker EXCEPT ![s] = [pc |-> "parked", rev |-> 0, left |-> << >>]]
  /\ running' = running \ {s}
  /\ UNCHANGED <<scopeVars, subscribers, published, publisher, boxVars,
                 channelVars, joined>>

-----------------------------------------------------------------------------
(* The scope's lifecycle, and Close. *)

Forgone(stopped) == owed' = {c \in owed : ~stopped[c[1]]}

(* Bring-ups and drops of one scope run one after the other: under         *)
(* startMu, or in the scope's activation slot.                             *)
BringUp(s) ==
  /\ scope[s] = "absent"
  /\ closing = "open"
  /\ \A other \in Scopes : /\ scope[other] \in {"absent", "dropped"}
                           /\ other < s => scope[other] = "dropped"
  /\ scope' = [scope EXCEPT ![s] = "tracked"]
  /\ UNCHANGED <<closing, subscribers, published, publisher, worker, boxVars,
                 running, channelVars, joined>>

(* dropScope, up to stopReconcileWorker: publications are refused. *)
DropScope(s) ==
  /\ scope[s] = "tracked"
  /\ scope' = [scope EXCEPT ![s] = "stopping"]
  /\ UNCHANGED <<closing, subscribers, published, publisher, worker, boxVars,
                 running, channelVars, joined>>

StopScopeWorkers(s) ==
  /\ scope[s] = "stopping"
  /\ scope' = [scope EXCEPT ![s] = "dropped"]
  /\ Forgone([x \in Scopes |-> x = s])
  /\ UNCHANGED <<closing, subscribers, published, publisher, worker, boxVars,
                 running, newest, seen, joined>>

(* Close marks the engine closed, then cancels the lifecycle context. *)
MarkClosed ==
  /\ closing = "open"
  /\ closing' = "closed"
  /\ UNCHANGED <<scope, subscribers, published, publisher, worker, boxVars,
                 running, channelVars, joined>>

Cancel ==
  /\ closing = "closed"
  /\ closing' = "canceled"
  /\ Forgone([x \in Scopes |-> TRUE])
  /\ UNCHANGED <<scope, subscribers, published, publisher, worker, boxVars,
                 running, newest, seen, joined>>

CloseWorkers ==
  /\ closing = "canceled"
  /\ closing' = "waiting"
  /\ UNCHANGED <<scope, subscribers, published, publisher, worker, boxVars,
                 running, channelVars, joined>>

(* Mutant: Close waits for the workers marked busy only. *)
Drained_Idle == running = {}

(* The WaitGroup: every worker started has returned. *)
Drained == \A s \in Scopes : worker[s].pc \in {"none", "exited"}

WaitForWorkers ==
  /\ closing = "waiting"
  /\ \/ Drained /\ closing' = "drained"
     \/ closing' = "timeout"
  /\ UNCHANGED <<scope, subscribers, published, publisher, worker, boxVars,
                 running, channelVars, joined>>

-----------------------------------------------------------------------------
(* Nothing left to do: what may still happen is a new call from outside. *)
AtRest ==
  /\ \A p \in Publishers : publisher[p].pc = "idle"
  /\ \A s \in Scopes : \/ worker[s].pc \in {"none", "exited"}
                       \/ worker[s].pc = "parked" /\ ~signal[s] /\ ~Stopped(s)
  /\ UNCHANGED vars

WorkerStep(s) ==
  \/ Wake(s) \/ Exit(s) \/ Recheck(s) \/ Take(s)
  \/ StartCallback(s) \/ EndCallback(s) \/ Park(s)
OwnStep(s) ==
  \/ Wake(s) \/ Exit(s) \/ Recheck(s) \/ Take(s) \/ StartCallback(s) \/ Park(s)
PublisherStep(p) == WorkerFor(p) \/ Submit(p) \/ Signal(p)

Next ==
  \/ \E u \in Subs : OnChange(u) \/ Unsubscribe(u)
  \/ \E p \in Publishers, s \in Scopes : Accept(p, s)
  \/ \E p \in Publishers : WorkerFor(p) \/ Submit(p) \/ Signal(p)
  \/ \E s \in Scopes : \/ Wake(s) \/ Exit(s) \/ Recheck(s) \/ Take(s)
                       \/ StartCallback(s) \/ EndCallback(s) \/ Park(s)
                       \/ BringUp(s) \/ DropScope(s) \/ StopScopeWorkers(s)
  \/ MarkClosed \/ Cancel \/ CloseWorkers \/ WaitForWorkers
  \/ AtRest

Spec == Init /\ [][Next]_vars

(* A publisher holds its lock for a few steps only and a worker runs when  *)
(* it can.  EndCallback is no part of it: a callback may never return.     *)
FairSpec ==
  /\ Spec
  /\ \A p \in Publishers : WF_vars(PublisherStep(p))
  /\ \A s \in Scopes : WF_vars(OwnStep(s))

-----------------------------------------------------------------------------
(* Type invariant; a worker that delivers holds a change, never the zero   *)
(* Change of an empty slot.                                                *)
TypeOK ==
  /\ scope \in [Scopes -> {"absent", "tracked", "stopping", "dropped"}]
  /\ closing \in {"open", "closed", "canceled", "waiting", "drained", "timeout"}
  /\ subscribers \in Seq(Subs)
  /\ published \in Nat
  /\ publisher \in [Publishers -> [pc : {"idle", "accepted", "holding", "submitted"},
                                   scope : Scopes \cup {0}, rev : Nat]]
  /\ worker \in [Scopes -> [pc : {"none", "parked", "woken", "taking", "delivering",
                                  "calling", "done", "exited"},
                            rev : Nat, left : Seq(Subs)]]
  /\ \A s \in Scopes : worker[s].pc \in {"delivering", "calling"} => worker[s].rev # 0
  /\ pending \in [Scopes -> Nat]
  /\ signal \in [Scopes -> BOOLEAN]
  /\ running \in SUBSET Scopes
  /\ newest \in [Scopes -> Nat]
  /\ seen \in [Scopes \X Subs -> Nat]
  /\ owed \in SUBSET (Scopes \X Subs)
  /\ joined \in SUBSET Subs

(* A change in a live worker's slot is always one somebody will take: the  *)
(* wake-up is buffered, about to be sent, or just received.                *)
PendingWakes ==
  \A s \in Scopes :
    pending[s] # 0 /\ worker[s].pc # "exited" =>
      \/ signal[s]
      \/ worker[s].pc \in {"woken", "taking"}
      \/ \E p \in Publishers : publisher[p].pc = "submitted" /\ publisher[p].scope = s

(* A publication owed to a subscriber is in the slot or under the busy     *)
(* mark: whoever samples both never takes a delivery for an idle worker.   *)
OwedVisible ==
  \A c \in owed : pending[c[1]] # 0 \/ c[1] \in running

(* When Close returns nil no goroutine is left: no callback runs, and none *)
(* starts afterwards.                                                      *)
DrainedForGood ==
  closing = "drained" => \A s \in Scopes : worker[s].pc \in {"none", "exited"}

(* The mailboxes and the subscriber list are the implementation; what each *)
(* subscriber is owed and was handed is the channel's own state.           *)
C == INSTANCE Conflation
       WITH Scopes <- Scopes, Subs <- Subs,
            newest <- newest, seen <- seen, owed <- owed

(* The mailbox implements a conflating channel: within one scope state a   *)
(* subscriber never sees publications twice or out of order, and its debt  *)
(* is settled only by the newest one, by leaving or by a stop.             *)
Conflates == C!Spec

(* Every publication a subscriber is owed is eventually settled: it is     *)
(* handed the newest, or has left, or the scope was dropped or closed.     *)
(* Only a callback that never returns, of any subscriber of the key, keeps *)
(* the key's one worker from it.                                           *)
DebtsSettled ==
  \A c \in Scopes \X Subs :
    c \in owed ~> (c \notin owed \/ [](worker[c[1]].pc = "calling"))

(* Client.OnChange's promise across a drop and a re-activation: a          *)
(* subscriber of a (tenant, key) never sees revisions out of order.        *)
NeverBackwards ==
  [][\A s \in Scopes, u \in Subs :
       seen'[<<s, u>>] # seen[<<s, u>>] =>
         \A other \in Scopes : seen[<<other, u>>] < seen'[<<s, u>>]]_vars
=============================================================================
