----------------------- MODULE MCDailySummaryDelivery -----------------------
(* TLC instances of DailySummaryDelivery.  Both signatures have two         *)
(* fragments and share the text of the first: a quote changed in the second.*)
EXTENDS DailySummaryDelivery, TLC

CONSTANTS sigA, sigB, head, tailA, tailB

MCSize == [s \in Signatures |-> 2]
MCText == [s \in Signatures |-> [i \in Index |->
             IF i = 1 THEN head ELSE IF s = sigA THEN tailA ELSE tailB]]

ProcSymmetry == Permutations(Procs)
=============================================================================
