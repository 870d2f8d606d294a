------------------------- MODULE MCChartAlertMonitor -------------------------
(* Instance of ChartAlertMonitor for TLC.  Requests of a server are         *)
(* interchangeable, and so are servers; liveness runs use no symmetry.      *)
EXTENDS ChartAlertMonitor, TLC

ServerSymmetry == Permutations(Servers)
RequestSymmetry == Permutations(Slots)
===============================================================================
