-------------------------- MODULE MCChartAlertOutbox --------------------------
(* Instance of ChartAlertOutbox for TLC. *)
EXTENDS ChartAlertOutbox, TLC

CONSTANTS d1, d2, e1, e2, w1, w2

EventSymmetry == Permutations(Events)
Interchangeable == Permutations(Events) \union Permutations(Dispatchers)
===============================================================================
