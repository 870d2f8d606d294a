------------------------- MODULE MCSchemaMigration -------------------------
(* Instance of SchemaMigration for TLC: two processes of one program and one of   *)
(* an older one; a migration that adds columns lies between them.           *)
EXTENDS SchemaMigration, TLC

CONSTANTS old, web, cli

MCSupports == (old :> 3) @@ (web :> 5) @@ (cli :> 5)
=============================================================================
