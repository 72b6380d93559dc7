------------------------------ MODULE MCPower ------------------------------
(***************************************************************************)
(* TLC's constants for the boost engine: two DVFS nodes, the second of them *)
(* with a min_freq that may refuse a write, and requests shorter, equal and *)
(* longer than the default and not positive at all.                         *)
(***************************************************************************)
EXTENDS GloDroidPower

CONSTANTS cpu, gpu

MCDevFreqs == {cpu, gpu}
MCFlaky == {gpu}
MCTimeouts == {-1, 0, 1, 3}
=============================================================================
