----------------------------- MODULE MCPowerHal -----------------------------
(***************************************************************************)
(* TLC's constants for the whole power HAL: LAUNCH and one mode that does   *)
(* not boost, one boost of each kind.                                       *)
(***************************************************************************)
EXTENDS PowerHal

CONSTANTS cpu, LOW_POWER, INTERACTION, CAMERA_LAUNCH

MCDevFreqs == {cpu}
MCTimeouts == {-1, 1}
MCModes == {LAUNCH, LOW_POWER}
MCBoosts == {INTERACTION, CAMERA_LAUNCH}
MCTimedBoosts == {INTERACTION}
=============================================================================
