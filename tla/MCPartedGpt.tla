---------------------------- MODULE MCPartedGpt ----------------------------
(***************************************************************************)
(* TLC's constants for parted.py: sectors of two units, so that arguments   *)
(* may lie inside one, a disk of fifteen or a half more with tables of two, *)
(* and a start that is the end of the first disk.                           *)
(***************************************************************************)
EXTENDS PartedGpt

CONSTANTS boot, super

MCNames == {boot, super}
MCStarts == {2, 9, 14, 30}
MCSizes == {1, 4, 9}
MCImageSizes == {2, 5}
=============================================================================
