----------------------------- MODULE HeldDelivery -----------------------------
(***************************************************************************)
(* What the deliveries to the operator's chat promise that may be resumed, *)
(* without a word about tables, runs, batches or processes: a message is   *)
(* sent while it is open; an outcome nobody knows holds it until a review; *)
(* and it reaches the chat a second time only with an excuse, which is an  *)
(* outcome that was lost, or a review.  DailySummaryDelivery (fragments)   *)
(* and IntradayAlerts (reports in their batches) implement it, one         *)
(* invocation at a time.                                                   *)
(***************************************************************************)
EXTENDS Naturals

CONSTANT Items

VARIABLES
  standing,   \* of a message: absent, open, sent, held or closed
  flying,     \* messages that may have arrived, the outcome not recorded
  received,   \* how often the chat received a message
  excuses     \* outcomes lost with a process or a reply, and reviews

vars == <<standing, flying, received, excuses>>

Standings == {"absent", "open", "sent", "held", "closed"}

Init ==
  /\ standing = [m \in Items |-> "absent"]
  /\ flying = {}
  /\ received = [m \in Items |-> 0]
  /\ excuses = 0

(* Messages come, and others are given up: open or held, not in flight. *)
Plan ==
  /\ standing' \in [Items -> Standings]
  /\ \A m \in Items : standing'[m] # standing[m] =>
       /\ m \notin flying
       /\ \/ standing[m] = "absent" /\ standing'[m] = "open"
          \/ standing[m] \in {"open", "held"} /\ standing'[m] = "closed"
  /\ UNCHANGED <<flying, received, excuses>>

(* Open messages are sent together; whether they arrive is another matter. *)
Deliver(M) ==
  /\ \A m \in M : standing[m] = "open" /\ m \notin flying
  /\ flying' = flying \union M
  /\ \E arrived \in SUBSET M :
       received' = [m \in Items |-> received[m] + (IF m \in arrived THEN 1 ELSE 0)]
  /\ UNCHANGED <<standing, excuses>>

(* Messages arrive together, and the reply says that they did not. *)
Misread(M) ==
  /\ \A m \in M : standing[m] = "open" /\ m \notin flying
  /\ received' = [m \in Items |-> received[m] + (IF m \in M THEN 1 ELSE 0)]
  /\ excuses' = excuses + 1
  /\ UNCHANGED <<standing, flying>>

(* The outcome is recorded: sent if they were received, held if unknown. *)
Settle(M, verdict) ==
  /\ M \subseteq flying
  /\ verdict = "sent" => \A m \in M : received[m] > 0
  /\ standing' = [m \in Items |-> IF m \in M THEN verdict ELSE standing[m]]
  /\ flying' = flying \ M
  /\ UNCHANGED <<received, excuses>>

(* Open messages are held back, nobody asked to send them any more. *)
HoldBack(M) ==
  /\ \A m \in M : standing[m] = "open"
  /\ standing' = [m \in Items |-> IF m \in M THEN "held" ELSE standing[m]]

Withdraw(M) ==
  /\ M \intersect flying = {}
  /\ HoldBack(M)
  /\ UNCHANGED <<flying, received, excuses>>

(* The process dies, and with it the outcome of what is in flight. *)
Lose(M) ==
  /\ HoldBack(M)
  /\ flying' = {}
  /\ excuses' = excuses + 1
  /\ UNCHANGED received

(* An operator asks for what is held. *)
Reopen(M) ==
  /\ \A m \in M : standing[m] = "held"
  /\ standing' = [m \in Items |-> IF m \in M THEN "open" ELSE standing[m]]
  /\ excuses' = excuses + 1
  /\ UNCHANGED <<flying, received>>

Next ==
  \/ Plan
  \/ \E M \in SUBSET Items :
       \/ Deliver(M) \/ Misread(M) \/ Settle(M, "sent") \/ Settle(M, "held")
       \/ Withdraw(M) \/ Lose(M) \/ Reopen(M)

Spec == Init /\ [][Next]_vars

TypeOK ==
  /\ standing \in [Items -> Standings]
  /\ flying \subseteq Items
  /\ received \in [Items -> Nat]
  /\ excuses \in Nat

(* What the abstraction is for: every repetition has its excuse, *)
RepeatNeedsExcuse == \A m \in Items : received[m] <= 1 + excuses

(* what is called sent was received, *)
SentWasReceived == \A m \in Items : standing[m] = "sent" => received[m] > 0

(* and only what is open is in flight.  What has no place in the chat yet  *)
(* is paid for by excuses alone.                                           *)
Counted ==
  /\ flying \subseteq {m \in Items : standing[m] = "open"}
  /\ \A m \in Items :
       standing[m] = "absent" \/ (standing[m] = "open" /\ m \notin flying)
         => received[m] <= excuses
==============================================================================
