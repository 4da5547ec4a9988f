----------------------------- MODULE MCCommand -----------------------------
(* Command with a concrete timeout: see the .cfg files.                     *)
EXTENDS Command
=============================================================================
