---------------------------- MODULE ChangeFeed ------------------------------
(***************************************************************************)
(* What Store.Subscribe promises each subscriber (internal/store): one     *)
(* OpResync after every (re)connect, before any key event of it, and one   *)
(* OpDisconnect per outage.  The engine's scope cache is built on it: its  *)
(* feed moves between "up" and "down" by these markers only.               *)
(***************************************************************************)
EXTENDS Naturals

CONSTANT Subscribers

(* The last marker each was told; a subscriber's mark and key flip at      *)
(* every marker and every key event it is handed, which makes a repetition *)
(* a step and tells whose it was.                                          *)
VARIABLE heard

Init ==
  heard = [op |-> [s \in Subscribers |-> "none"],
           mark |-> [s \in Subscribers |-> FALSE], key |-> [s \in Subscribers |-> FALSE]]

Marker(s, op) ==
  /\ heard.op[s] # op
  /\ heard' = [heard EXCEPT !.op[s] = op, !.mark[s] = ~@]

KeyEvent(s) ==
  /\ heard.op[s] = "resync"
  /\ heard' = [heard EXCEPT !.key[s] = ~@]

Next ==
  \E s \in Subscribers : Marker(s, "resync") \/ Marker(s, "disconnect") \/ KeyEvent(s)

Spec == Init /\ [][Next]_heard
=============================================================================
