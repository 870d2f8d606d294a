--------------------------- MODULE MCIntradayAlerts ---------------------------
(* Instance of IntradayAlerts for TLC: two reports of the first business    *)
(* date and one of the second.                                              *)
EXTENDS IntradayAlerts, TLC

CONSTANTS r1, r2, r3, p1, p2

MCDayOf == [r \in Reports |-> IF r = r3 THEN 2 ELSE 1]
ProcessSymmetry == Permutations(Processes)
===============================================================================
