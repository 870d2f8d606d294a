--------------------------- MODULE OneShotDelivery ---------------------------
(***************************************************************************)
(* What an outbox with one transport attempt per event promises, without a *)
(* word about files, rows, processes or locks: an event is tried at most   *)
(* once for all time, only a try can put it into the chat, and only what   *)
(* is in the chat is ever confirmed.  ChartAlertOutbox implements it.      *)
(***************************************************************************)
EXTENDS Naturals

CONSTANT Events

VARIABLES
  tried,      \* events whose one attempt has begun
  flying,     \* ... and has not ended
  received,   \* how often the chat received an event
  confirmed   \* events reported as delivered

vars == <<tried, flying, received, confirmed>>

Init ==
  /\ tried = {}
  /\ flying = {}
  /\ received = [e \in Events |-> 0]
  /\ confirmed = {}

Try(e) ==
  /\ e \notin tried
  /\ tried' = tried \union {e}
  /\ flying' = flying \union {e}
  /\ UNCHANGED <<received, confirmed>>

(* The attempt ends in the chat. *)
Receive(e) ==
  /\ e \in flying
  /\ flying' = flying \ {e}
  /\ received' = [received EXCEPT ![e] = @ + 1]
  /\ UNCHANGED <<tried, confirmed>>

(* The attempt ends in nothing: refused, lost, or its process died. *)
Lose(e) ==
  /\ e \in flying
  /\ flying' = flying \ {e}
  /\ UNCHANGED <<tried, received, confirmed>>

Confirm(e) ==
  /\ received[e] > 0
  /\ confirmed' = confirmed \union {e}
  /\ UNCHANGED <<tried, flying, received>>

Next == \E e \in Events : Try(e) \/ Receive(e) \/ Lose(e) \/ Confirm(e)

Spec == Init /\ [][Next]_vars

(* What the abstraction is for: nobody reads an alert twice. *)
ReceivedOnce == \A e \in Events : received[e] <= 1
==============================================================================
