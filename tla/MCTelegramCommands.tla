------------------------- MODULE MCTelegramCommands -------------------------
(* Instance of TelegramCommands for TLC. *)
EXTENDS TelegramCommands, TLC

ProcessorSymmetry == Permutations(Processors)
=============================================================================
