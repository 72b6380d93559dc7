--------------------------- MODULE PowerHal_proofs ---------------------------
(***************************************************************************)
(* The IPower calls drive the engine only through BoostFor and BoostEn, so  *)
(* everything proved of the engine holds of the service; and the engine's   *)
(* parked worker reflects the client's LAUNCH mode.                         *)
(***************************************************************************)
EXTENDS PowerHal, GloDroidPower_proofs

\* Every behaviour of the service is a behaviour of the boost engine: no IPower
\* call touches the engine's state but by its two entry points.
THEOREM ServiceDrivesEngine == HalSpec => Spec
<1>1. HalInit => Init
  BY DEF HalInit
<1>2. [HalNext]_halVars => [Next]_vars
  <2> SUFFICES ASSUME [HalNext]_halVars
               PROVE  [Next]_vars
    OBVIOUS
  <2>1. ASSUME NEW type \in Modes, NEW enabled \in BOOLEAN, SetMode(type, enabled)
        PROVE  UNCHANGED vars
    BY <2>1 DEF SetMode
  <2>2. CASE SetModeBoost
    <3>1. LaunchEnabled \in BOOLEAN
      BY DEF LaunchEnabled
    <3>2. BoostEn(LaunchEnabled)
      BY <2>2 DEF SetModeBoost
    <3>3. QED
      BY <3>1, <3>2 DEF Next, Request
  <2>3. ASSUME NEW type \in Boosts, NEW durationMs \in Timeouts,
               SetBoost(type, durationMs)
        PROVE  Next
    BY <2>3 DEF SetBoost, Next, Request
  <2>4. CASE WorkerStep \/ Tick \/ SpuriousWakeup
    BY <2>4 DEF Next, Surroundings
  <2>5. ASSUME NEW usable \in SUBSET DevFreqs, HalRestart(usable)
        PROVE  Next
    BY <2>5 DEF HalRestart, Next, Surroundings
  <2>6. CASE UNCHANGED halVars
    BY <2>6 DEF halVars
  <2>7. QED
    BY <2>1, <2>2, <2>3, <2>4, <2>5, <2>6 DEF HalNext
<1>3. QED
  BY <1>1, <1>2, PTL DEF HalSpec, Spec

-----------------------------------------------------------------------------
\* Between calls the engine's switch is the client's LAUNCH mode.
SwitchInv ==
  /\ handler \in {"idle", "setMode"}
  /\ handler = "idle" => (boost_en <=> LAUNCH \in mode_enabled)

\* setMode keeps the switch in step with the set of modes.
LEMMA SwitchInvHolds == HalSpec => []SwitchInv
<1>1. HalInit => SwitchInv
  BY DEF HalInit, Init, SwitchInv
<1>2. SwitchInv /\ [HalNext]_halVars => SwitchInv'
  <2> SUFFICES ASSUME SwitchInv, [HalNext]_halVars
               PROVE  SwitchInv'
    OBVIOUS
  <2> USE DEF SwitchInv, vars, requests, files, locals
  <2>1. ASSUME NEW type \in Modes, NEW enabled \in BOOLEAN, SetMode(type, enabled)
        PROVE  SwitchInv'
    BY <2>1 DEF SetMode
  <2>2. CASE SetModeBoost
    BY <2>2 DEF SetModeBoost, LaunchEnabled, BoostEn
  <2>3. ASSUME NEW type \in Boosts, NEW durationMs \in Timeouts,
               SetBoost(type, durationMs)
        PROVE  SwitchInv'
    BY <2>3 DEF SetBoost, BoostFor
  <2>4. CASE (WorkerStep \/ Tick \/ SpuriousWakeup)
               /\ UNCHANGED <<mode_enabled, handler>>
    BY <2>4 DEF WorkerStep, StartWait, WaitExpires, Process, Exit, BoostNode,
                Tick, SpuriousWakeup
  <2>5. ASSUME NEW usable \in SUBSET DevFreqs, HalRestart(usable)
        PROVE  SwitchInv'
    <3>1. boost_en' = FALSE
      BY <2>5 DEF HalRestart, Restart
    <3>2. handler' = "idle" /\ mode_enabled' = {}
      BY <2>5 DEF HalRestart
    <3>3. QED
      BY <3>1, <3>2
  <2>6. CASE UNCHANGED halVars
    BY <2>6 DEF halVars
  <2>7. QED
    BY <2>1, <2>2, <2>3, <2>4, <2>5, <2>6 DEF HalNext
<1>3. QED
  BY <1>1, <1>2, PTL DEF HalSpec

\* Once the last IPower call has returned and the worker sleeps, having heard
\* every notification, the floor is held up without an end exactly while LAUNCH
\* is enabled.
THEOREM LaunchHoldsFloorHolds == HalSpec => []LaunchHoldsFloor
<1>1. ParkInv /\ SwitchInv => LaunchHoldsFloor
  BY DEF ParkInv, SwitchInv, LaunchHoldsFloor
<1>2. QED
  BY <1>1, ServiceDrivesEngine, ParkInvHolds, SwitchInvHolds, PTL

\* The service is well typed: it records modes of the enumeration only, and the
\* engine under it keeps its own types.
THEOREM HalTypeCorrect == HalSpec => []HalTypeOK
<1> DEFINE RecordOK == mode_enabled \in SUBSET Modes
                       /\ handler \in {"idle", "setMode"}
<1>1. HalInit => RecordOK
  BY DEF HalInit
<1>2. RecordOK /\ [HalNext]_halVars => RecordOK'
  BY DEF HalNext, SetMode, SetModeBoost, SetBoost, HalRestart, halVars
<1>3. TypeOK /\ RecordOK => HalTypeOK
  BY DEF HalTypeOK
<1>4. QED
  BY <1>1, <1>2, <1>3, ServiceDrivesEngine, TypeCorrect, PTL DEF HalSpec
=============================================================================
