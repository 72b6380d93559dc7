---------------------------- MODULE MCBootScript ----------------------------
(***************************************************************************)
(* TLC's constants for the boot script: two slots with two tries each.      *)
(***************************************************************************)
EXTENDS BootScript
=============================================================================
