------------------------------ MODULE PowerHal ------------------------------
(***************************************************************************)
(* The power HAL service (class Power): one binder thread runs the IPower   *)
(* calls one after another and drives the boost engine.  setMode records    *)
(* the mode before it asks for the engine's lock, so the worker may run in  *)
(* between.  The service never destroys its engine (main does not return).  *)
(***************************************************************************)
EXTENDS GloDroidPower

CONSTANTS Modes,  \* members of enum Mode
          LAUNCH, \* Mode::LAUNCH, the one that boosts
          Boosts, \* members of enum Boost
          TimedBoosts \* DISPLAY_UPDATE_IMMINENT and INTERACTION

ASSUME HalAssumption ==
  /\ LAUNCH \in Modes
  /\ TimedBoosts \subseteq Boosts

VARIABLES mode_enabled,
          handler \* "idle", or "setMode" between the set and BoostEn

halVars == <<vars, mode_enabled, handler>>

HalTypeOK ==
  /\ TypeOK
  /\ mode_enabled \in SUBSET Modes
  /\ handler \in {"idle", "setMode"}

HalInit == Init /\ mode_enabled = {} /\ handler = "idle"

SetMode(type, enabled) ==
  /\ handler = "idle"
  /\ mode_enabled' = IF enabled THEN mode_enabled \union {type}
                                ELSE mode_enabled \ {type}
  /\ handler' = "setMode"
  /\ UNCHANGED vars

\* Mutant: any enabled mode boosts.
LaunchEnabled_AnyMode == mode_enabled # {}

LaunchEnabled == LAUNCH \in mode_enabled

SetModeBoost ==
  /\ handler = "setMode"
  /\ BoostEn(LaunchEnabled)
  /\ handler' = "idle"
  /\ UNCHANGED mode_enabled

SetBoost(type, durationMs) ==
  /\ handler = "idle"
  /\ type \in TimedBoosts
  /\ BoostFor(durationMs)
  /\ UNCHANGED <<mode_enabled, handler>>

HalRestart(usable) ==
  Restart(usable) /\ handler' = "idle" /\ mode_enabled' = {}

HalNext ==
  \/ \E type \in Modes, enabled \in BOOLEAN : SetMode(type, enabled)
  \/ SetModeBoost
  \/ \E type \in Boosts, durationMs \in Timeouts : SetBoost(type, durationMs)
  \/ (WorkerStep \/ Tick \/ SpuriousWakeup) /\ UNCHANGED <<mode_enabled, handler>>
  \/ \E usable \in SUBSET DevFreqs : HalRestart(usable)

HalSpec == HalInit /\ [][HalNext]_halVars

\* The worker and the clock run; no client is obliged to call.
HalFairSpec ==
  /\ HalSpec
  /\ WF_halVars(WorkerStep /\ UNCHANGED <<mode_enabled, handler>>)
  /\ WF_halVars(Tick /\ UNCHANGED <<mode_enabled, handler>>)

\* What an IPower client may rely on once its call has returned and the worker
\* sleeps, having heard every notification: the floor is held up without an end
\* exactly while LAUNCH is among the enabled modes, whatever other modes were
\* set and cleared and whichever restarts came in between.
LaunchHoldsFloor ==
  handler = "idle" /\ worker = "waiting" /\ missed = {}
    => ((boosted /\ wakeup_pt = Never) <=> LAUNCH \in mode_enabled)
=============================================================================
