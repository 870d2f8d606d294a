--------------------------- MODULE MCTossProvider ---------------------------
(* Instance of TossProvider for TLC. *)
EXTENDS TossProvider
=============================================================================
