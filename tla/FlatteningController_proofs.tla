--------------------- MODULE FlatteningController_proofs ---------------------
(***************************************************************************)
(* The safety of the flattening controller for every timeout: no callback   *)
(* into a destroyed display, no wake-up lost, no idle mixed frame that is   *)
(* neither counting down nor asked for nor known to have lost its request.  *)
(***************************************************************************)
EXTENDS FlatteningController, TLAPS

\* A frame is accounted for from its report on, and a frame being validated
\* leaves the last one on the screen.
Accounted ==
  stage \in {"idle", "validated"} /\ shown = "mixed" =>
    ~disabled_ \/ flatten_next_frame_ \/ wasted

\* What the screen shows is what was committed, until it is reported.
CommittedShown == stage = "committed" /\ shown = "mixed" => many /\ ~flat

\* The callback is cleared by the destructor and by nothing else.
ClearedWhenDestroyed == trigger <=> stage # "destroyed"

FlatInv ==
  /\ FlatTypeOK
  /\ CallbackOnLiveDisplay
  /\ WakesInTime
  /\ Accounted
  /\ CommittedShown
  /\ ClearedWhenDestroyed

-----------------------------------------------------------------------------
\* Every step keeps the types.
LEMMA FlatTypeStep == FlatTypeOK /\ [FlatNext]_vars => FlatTypeOK'
<1> SUFFICES ASSUME FlatTypeOK, [FlatNext]_vars PROVE FlatTypeOK'
  OBVIOUS
<1> USE FlatAssumption DEF FlatTypeOK, Never
<1>1. CASE ThreadStep \/ WakeUp \/ Tick
  <2>1. CASE EndThread
    BY <2>1 DEF EndThread, controller, frame
  <2>2. CASE TimeOut
    BY <2>2 DEF TimeOut, frame
  <2>3. CASE Triggered \/ NothingToDo
    BY <2>3 DEF Triggered, NothingToDo, Park, controller, frame
  <2>4. CASE WakeUp
    BY <2>4 DEF WakeUp, controller, frame
  <2>5. CASE Tick
    BY <2>5 DEF Tick, frame
  <2>6. QED
    BY <1>1, <2>1, <2>2, <2>3, <2>4, <2>5 DEF ThreadStep, Expires
<1>2. ASSUME NEW several \in BOOLEAN,
             SelectClientLayers(several) \/ PresentNotValidated(several)
      PROVE  FlatTypeOK'
  BY <1>2 DEF SelectClientLayers, PresentNotValidated, Shows, controller, waiter
<1>3. CASE PresentValidated
  BY <1>3 DEF PresentValidated, Shows, controller, waiter
<1>4. CASE ReportFrame
  <2>1. CASE TakeRequest \/ Disable
    BY <1>4, <2>1 DEF ReportFrame, TakeRequest, Disable, waiter
  <2>2. CASE StartCountdown
    <3>1. left' \in 0 .. Timeout /\ alarm' = alarm
      BY <2>2 DEF StartCountdown
    <3>2. thread' \in {"top", "triggering", "waiting", "ended"}
      BY <2>2 DEF StartCountdown, Notify
    <3>3. QED
      BY <1>4, <2>2, <3>1, <3>2 DEF ReportFrame, StartCountdown
  <2>3. QED
    BY <1>4, <2>1, <2>2 DEF ReportFrame, NewFrame
<1>5. CASE StopThread
  BY <1>5 DEF StopThread, Notify
<1>6. CASE UNCHANGED vars
  BY <1>6 DEF vars, controller, waiter, frame
<1>7. QED
  BY <1>1, <1>2, <1>3, <1>4, <1>5, <1>6 DEF FlatNext

\* Every step keeps the invariant.
LEMMA FlatInvStep == FlatInv /\ [FlatNext]_vars => FlatInv'
<1> SUFFICES ASSUME FlatInv, [FlatNext]_vars PROVE FlatInv'
  OBVIOUS
<1>0. FlatTypeOK /\ FlatTypeOK'
  BY FlatTypeStep DEF FlatInv
<1> USE FlatAssumption, <1>0
        DEF FlatInv, CallbackOnLiveDisplay, WakesInTime, Accounted,
            CommittedShown, ClearedWhenDestroyed, FlatTypeOK, Never
<1>1. CASE EndThread
  BY <1>1 DEF EndThread, controller, frame
<1>2. CASE TimeOut
  BY <1>2 DEF TimeOut, frame
<1>3. CASE Triggered
  BY <1>3 DEF Triggered, Park, controller, frame
<1>4. CASE NothingToDo
  BY <1>4 DEF NothingToDo, Park, controller, frame
<1>5. CASE WakeUp
  BY <1>5 DEF WakeUp, controller, frame
<1>6. CASE Tick
  BY <1>6 DEF Tick, frame
<1>7. ASSUME NEW several \in BOOLEAN, SelectClientLayers(several)
      PROVE  FlatInv'
  BY <1>7 DEF SelectClientLayers, controller, waiter
<1>8. ASSUME NEW several \in BOOLEAN, PresentNotValidated(several)
      PROVE  FlatInv'
  BY <1>8 DEF PresentNotValidated, Shows, controller, waiter
<1>9. CASE PresentValidated
  BY <1>9 DEF PresentValidated, Shows, controller, waiter
<1>10. CASE ReportFrame
  <2>1. CASE (many \/ flat) /\ flatten_next_frame_
    BY <1>10, <2>1 DEF ReportFrame, NewFrame, TakeRequest, MutexFree, waiter
  <2>2. CASE (many \/ flat) /\ ~flatten_next_frame_
    BY <1>10, <2>2 DEF ReportFrame, NewFrame, StartCountdown, MutexFree, Notify
  <2>3. CASE ~(many \/ flat)
    BY <1>10, <2>3 DEF ReportFrame, Disable, MutexFree, waiter
  <2>4. QED
    BY <2>1, <2>2, <2>3
<1>11. CASE StopThread
  BY <1>11 DEF StopThread, MutexFree, Notify
<1>12. CASE UNCHANGED vars
  BY <1>12 DEF vars, controller, waiter, frame
<1>13. QED
  BY <1>1, <1>2, <1>3, <1>4, <1>5, <1>6, <1>7, <1>8, <1>9, <1>10, <1>11, <1>12
  DEF FlatNext, ThreadStep, Expires

-----------------------------------------------------------------------------
\* The inductive invariant holds of every behaviour.
THEOREM FlatInvariant == FlatSpec => []FlatInv
<1>1. FlatInit => FlatInv
  <2> SUFFICES ASSUME FlatInit PROVE FlatInv
    OBVIOUS
  <2>1. FlatTypeOK
    <3>1. left \in 0 .. Timeout /\ alarm \in 0 .. Timeout \union {Never}
      BY FlatAssumption DEF FlatInit, Never
    <3>2. QED
      BY <3>1 DEF FlatInit, FlatTypeOK
  <2>2. CallbackOnLiveDisplay /\ WakesInTime
    BY DEF FlatInit, CallbackOnLiveDisplay, WakesInTime
  <2>3. Accounted /\ CommittedShown /\ ClearedWhenDestroyed
    BY DEF FlatInit, Accounted, CommittedShown, ClearedWhenDestroyed
  <2>4. QED
    BY <2>1, <2>2, <2>3 DEF FlatInv
<1>2. QED
  BY <1>1, FlatInvStep, PTL DEF FlatSpec

\* The deadlines never pass the timeout and the flags stay flags.
THEOREM FlatTypeCorrect == FlatSpec => []FlatTypeOK
<1>1. FlatInv => FlatTypeOK
  BY DEF FlatInv
<1>2. QED
  BY <1>1, FlatInvariant, PTL

\* The refresh callback never runs into a display whose compositor is gone.
THEOREM CallbackIsSafe == FlatSpec => []CallbackOnLiveDisplay
<1>1. FlatInv => CallbackOnLiveDisplay
  BY DEF FlatInv
<1>2. QED
  BY <1>1, FlatInvariant, PTL

\* However frames disable, renew and start the countdown, the thread is awake
\* in time for its end.
THEOREM NoWakeUpLost == FlatSpec => []WakesInTime
<1>1. FlatInv => WakesInTime
  BY DEF FlatInv
<1>2. QED
  BY <1>1, FlatInvariant, PTL

\* An idle frame on several planes is counting down, asked for, or had its
\* request taken back.
THEOREM MixedFramesHold == FlatSpec => []MixedIsAccountedFor
<1>1. FlatInv => MixedIsAccountedFor
  BY DEF FlatInv, Accounted, MixedIsAccountedFor
<1>2. QED
  BY <1>1, FlatInvariant, PTL
=============================================================================
