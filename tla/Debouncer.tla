----------------------------- MODULE Debouncer ------------------------------
(***************************************************************************)
(* The trailing-edge debouncer (internal/debounce) the feed submits its    *)
(* re-reads to, with a positive window.  Submit replaces the key's timer   *)
(* and fire runs the function if its generation is still the key's.  A     *)
(* timer that has expired runs on a goroutine of its own and may wait for  *)
(* the lock while the key moves on; Stop no longer reaches it.             *)
(***************************************************************************)
EXTENDS Integers

CONSTANTS
  Keys,         \* what submissions are debounced by
  MaxSubmits    \* bound: submissions

ASSUME SubmitsAssumption == MaxSubmits \in Nat

VARIABLES
  closed,
  timers,       \* the map: the key's generation and the submission it holds
  armed,        \* timers running
  fired,        \* timers that expired and have not taken the lock yet
  submitted,    \* submissions so far; a submission is named by its number
  \* history, read by no action
  latest,       \* the last submission of each key
  ran,          \* the last submission run for each key
  cleared       \* submissions made when the key's map entry last went away

vars == <<closed, timers, armed, fired, submitted, latest, ran, cleared>>

(* A missing map entry reads as generation 0. *)
NoEntry == [generation |-> 0, fn |-> 0]
Timer == [key : Keys, generation : Nat, fn : Nat]
TimerOf(k) == [key |-> k, generation |-> timers[k].generation, fn |-> timers[k].fn]

Init ==
  /\ closed = FALSE
  /\ timers = [k \in Keys |-> NoEntry]
  /\ armed = {}
  /\ fired = {}
  /\ submitted = 0
  /\ latest = [k \in Keys |-> 0]
  /\ ran = [k \in Keys |-> 0]
  /\ cleared = [k \in Keys |-> 0]

-----------------------------------------------------------------------------
(* Mutant: the replacement keeps the generation it found. *)
NextGeneration_Kept(k) == IF timers[k] = NoEntry THEN 1 ELSE timers[k].generation

NextGeneration(k) == timers[k].generation + 1

(* Submit stops the key's timer, which does nothing to one that expired,   *)
(* and arms another; after Close it does nothing.                          *)
Submit(k) ==
  LET fn == submitted + 1
      entry == [generation |-> NextGeneration(k), fn |-> fn] IN
  /\ ~closed
  /\ submitted < MaxSubmits
  /\ submitted' = fn
  /\ timers' = [timers EXCEPT ![k] = entry]
  /\ armed' = (armed \ {TimerOf(k)})
              \cup {[key |-> k, generation |-> entry.generation, fn |-> fn]}
  /\ latest' = [latest EXCEPT ![k] = fn]
  /\ UNCHANGED <<closed, fired, ran, cleared>>

(* The quiet window elapses. *)
Expire(t) ==
  /\ t \in armed
  /\ armed' = armed \ {t}
  /\ fired' = fired \cup {t}
  /\ UNCHANGED <<closed, timers, submitted, latest, ran, cleared>>

(* Mutant: fire runs only the very last submission of all. *)
MayRun_Newest(t) == ~closed /\ t.fn = submitted /\ timers[t.key] # NoEntry

(* What fire checks under the lock. *)
MayRun(t) ==
  /\ ~closed
  /\ timers[t.key] # NoEntry
  /\ timers[t.key].generation = t.generation

Fire(t) ==
  /\ t \in fired
  /\ fired' = fired \ {t}
  /\ IF MayRun(t)
     THEN /\ timers' = [timers EXCEPT ![t.key] = NoEntry]
          /\ ran' = [ran EXCEPT ![t.key] = t.fn]
          /\ cleared' = [cleared EXCEPT ![t.key] = submitted]
     ELSE UNCHANGED <<timers, ran, cleared>>
  /\ UNCHANGED <<closed, armed, submitted, latest>>

Close ==
  /\ ~closed
  /\ closed' = TRUE
  /\ armed' = armed \ {TimerOf(k) : k \in Keys}
  /\ timers' = [k \in Keys |-> NoEntry]
  /\ cleared' = [k \in Keys |-> submitted]
  /\ UNCHANGED <<fired, submitted, latest, ran>>

Next ==
  \/ \E k \in Keys : Submit(k)
  \/ \E t \in armed : Expire(t)
  \/ \E t \in fired : Fire(t)
  \/ Close

Spec == Init /\ [][Next]_vars

(* Timers expire and their goroutines get the lock: it is held for map     *)
(* operations only.  Nobody has to call Close.                             *)
FairSpec ==
  Spec /\ WF_vars(\E t \in armed : Expire(t)) /\ WF_vars(\E t \in fired : Fire(t))

-----------------------------------------------------------------------------
(* Type invariant. *)
TypeOK ==
  /\ closed \in BOOLEAN
  /\ timers \in [Keys -> [generation : Nat, fn : Nat]]
  /\ armed \subseteq Timer
  /\ fired \subseteq Timer
  /\ submitted \in Nat
  /\ latest \in [Keys -> Nat]
  /\ ran \in [Keys -> Nat]
  /\ cleared \in [Keys -> Nat]

(* A pending submission has a live timer of its own under its own          *)
(* generation, so fire will find the entry and run something for the key.  *)
PendingHasTimer ==
  \A k \in Keys : timers[k] # NoEntry => TimerOf(k) \in armed \cup fired

(* Submit's promise while the entry lives: what runs is the last           *)
(* submission, unless it was made before the key's entry last went away:   *)
(* generations restart at 1 with the entry, so a timer of an earlier life  *)
(* that is very late can pass for the current one.  After Close nothing    *)
(* runs, a timer that had already expired included.                        *)
LatestOfItsLife ==
  [][\A k \in Keys : ran'[k] # ran[k] =>
       ~closed /\ (ran'[k] = latest[k] \/ ran'[k] <= cleared[k])]_vars

(* Every submission is followed by a run for its key, or by Close. *)
PendingAnswered == \A k \in Keys : timers[k] # NoEntry ~> timers[k] = NoEntry
=============================================================================
