---------------------------- MODULE Conflation ------------------------------
(***************************************************************************)
(* What OnChange promises of one scope state: a conflating channel to each *)
(* subscriber.  A subscriber may miss intermediate publications, never     *)
(* sees one twice or out of order, and is handed the newest one it is owed *)
(* unless it leaves or the channel is torn down.                           *)
(***************************************************************************)
EXTENDS Naturals

CONSTANTS Scopes, Subs

VARIABLES
  newest,   \* the newest publication of each scope state
  seen,     \* the newest publication each subscriber was handed
  owed      \* the channels with a publication still to hand over

channelVars == <<newest, seen, owed>>
Channels == Scopes \X Subs

Init ==
  /\ newest = [s \in Scopes |-> 0]
  /\ seen = [c \in Channels |-> 0]
  /\ owed = {}

Publish(s) ==
  /\ newest'[s] > newest[s]
  /\ newest' = [newest EXCEPT ![s] = newest'[s]]
  /\ \E D \in SUBSET Subs : owed' = owed \cup ({s} \X D)
  /\ UNCHANGED seen

Deliver(c) ==
  /\ seen'[c] \in seen[c] + 1 .. newest[c[1]]
  /\ seen' = [seen EXCEPT ![c] = seen'[c]]
  /\ owed' = IF seen'[c] = newest[c[1]] THEN owed \ {c} ELSE owed
  /\ UNCHANGED newest

(* The subscriber left, the scope was dropped or the engine closed. *)
Forgo ==
  /\ owed' \in SUBSET owed
  /\ UNCHANGED <<newest, seen>>

Next ==
  \/ \E s \in Scopes : Publish(s)
  \/ \E c \in Channels : Deliver(c)
  \/ Forgo

Spec == Init /\ [][Next]_channelVars
=============================================================================
