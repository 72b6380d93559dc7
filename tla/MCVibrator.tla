----------------------------- MODULE MCVibrator -----------------------------
(***************************************************************************)
(* TLC's constants for the vibrator: the binder thread and one detached     *)
(* thread, or two, two effect slots, a timeout cut to length 0 and one cut  *)
(* to a length, compositions with and without NOOP and one too long.        *)
(***************************************************************************)
EXTENDS Vibrator

CONSTANTS d1, d2, CLICK

MCThreads == {Binder, d1}
MCLeakThreads == {Binder, d1, d2}
MCTimeouts == {LengthMod, LengthMod + EffectMillis}
MCDurations == MCTimeouts \union {0, EffectMillis}
MCSupportedPrimitives == {NOOP, CLICK}
MCCompositions == {<<CLICK, NOOP, CLICK>>, <<NOOP>>, <<NOOP, CLICK, CLICK, CLICK>>}
MCPwleSegments ==
  {<<>>, <<[active |-> TRUE, duration |-> -1]>>, <<[active |-> FALSE, duration |-> -1]>>}
=============================================================================
