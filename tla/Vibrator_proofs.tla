-------------------------- MODULE Vibrator_proofs --------------------------
(***************************************************************************)
(* Theorems about the rumble device, for any number of threads and effect   *)
(* slots and any durations.  The IVibrator service drives its device only   *)
(* through vibrate() and off(), so they hold of the service as well.        *)
(***************************************************************************)
EXTENDS Vibrator, TLAPS

USE FFAssumption DEF Slots, NoEffect, ffVars, kernel, DevicePCs

\* No slot has the number that stands for no effect.
LEMMA NoEffectIsNoSlot == NoEffect \notin Slots
OBVIOUS

\* Every variable keeps its type: in particular only a slot this descriptor
\* owns is ever played or marked endless.
THEOREM FFTypeCorrect == FFSpec => []FFTypeOK
<1>1. FFInit => FFTypeOK
  BY DEF FFInit, FFTypeOK
<1>2. FFTypeOK /\ [FFNext]_ffVars => FFTypeOK'
  <2> SUFFICES ASSUME FFTypeOK, [FFNext]_ffVars
               PROVE  FFTypeOK'
    OBVIOUS
  <2> USE DEF FFTypeOK, Goto, Leave, LeaveOff
  <2>1. ASSUME NEW t \in Threads, NEW d \in Durations, BeginVibrate(t, d)
        PROVE  FFTypeOK'
    BY <2>1 DEF BeginVibrate
  <2>2. ASSUME NEW t \in Threads, BeginOff(t)
        PROVE  FFTypeOK'
    BY <2>2 DEF BeginOff
  <2>3. ASSUME NEW t \in Threads, Test(t)
        PROVE  FFTypeOK'
    BY <2>3 DEF Test
  <2>4. ASSUME NEW t \in Threads, Remove(t)
        PROVE  FFTypeOK'
    BY <2>4 DEF Remove
  <2>5. ASSUME NEW t \in Threads, Clear(t)
        PROVE  FFTypeOK'
    BY <2>5 DEF Clear
  <2>6. ASSUME NEW t \in Threads, Upload(t)
        PROVE  FFTypeOK'
    BY <2>6 DEF Upload
  <2>7. ASSUME NEW t \in Threads, Record(t)
        PROVE  FFTypeOK'
    BY <2>7 DEF Record
  <2>8. ASSUME NEW t \in Threads, Play(t)
        PROVE  FFTypeOK'
    BY <2>8 DEF Play
  <2>9. ASSUME NEW slot \in Slots, EffectEnds(slot)
        PROVE  FFTypeOK'
    BY <2>9 DEF EffectEnds
  <2>10. CASE UNCHANGED ffVars
    BY <2>10
  <2>11. QED
    BY <2>1, <2>2, <2>3, <2>4, <2>5, <2>6, <2>7, <2>8, <2>9, <2>10
    DEF FFNext, DeviceStep
<1>3. QED
  BY <1>1, <1>2, PTL DEF FFSpec

-----------------------------------------------------------------------------
\* What the one thread inside the device code knows of the kernel's pool.
ThreadKnows(t) ==
  /\ pc[t] = "test" => loaded \subseteq {last_effect_id}
  /\ pc[t] = "remove" => id[t] = last_effect_id /\ loaded \subseteq {last_effect_id}
  /\ pc[t] = "clear" => loaded = {}
  /\ pc[t] = "upload" => loaded = {} /\ last_effect_id = NoEffect
  /\ pc[t] = "record" => loaded \subseteq {id[t]} /\ playing = {}
  /\ pc[t] = "play" => id[t] = last_effect_id /\ loaded \subseteq {last_effect_id}
  /\ pc[t] \in {"upload", "record", "play"} => then[t] = "upload"

\* The strengthening that makes the three properties inductive: without overlap
\* at most one thread is inside, and the pool is as its program counter says.
PoolInv ==
  ~overlap =>
    /\ \A t, u \in Inside : t = u
    /\ NoLeakWithoutOverlap
    /\ \A t \in Threads : ThreadKnows(t)
    /\ quiet => /\ playing = {}
                /\ \A t \in Inside : then[t] = "return"

\* The invariant of the pool holds whatever threads call the device.
LEMMA PoolInvHolds == FFSpec => []PoolInv
<1>1. FFInit => PoolInv
  BY DEF FFInit, PoolInv, Inside, NoLeakWithoutOverlap, ThreadKnows
<1>2. FFTypeOK /\ PoolInv /\ [FFNext]_ffVars => PoolInv'
  <2> SUFFICES ASSUME FFTypeOK, PoolInv, [FFNext]_ffVars, ~overlap'
               PROVE  PoolInv'
    BY DEF PoolInv
  <2> USE DEF FFTypeOK, PoolInv, Inside, NoLeakWithoutOverlap, ThreadKnows,
              Goto, Leave, LeaveOff
  <2>1. ASSUME NEW t \in Threads, NEW d \in Durations, BeginVibrate(t, d)
        PROVE  PoolInv'
    BY <2>1 DEF BeginVibrate
  <2>2. ASSUME NEW t \in Threads, BeginOff(t)
        PROVE  PoolInv'
    BY <2>2 DEF BeginOff
  <2>3. ASSUME NEW t \in Threads, Test(t)
        PROVE  PoolInv'
    BY <2>3 DEF Test
  <2>4. ASSUME NEW t \in Threads, Remove(t)
        PROVE  PoolInv'
    BY <2>4 DEF Remove
  <2>5. ASSUME NEW t \in Threads, Clear(t)
        PROVE  PoolInv'
    BY <2>5 DEF Clear
  <2>6. ASSUME NEW t \in Threads, Upload(t)
        PROVE  PoolInv'
    <3>1. /\ t \in Inside /\ ~overlap
          /\ loaded = {} /\ last_effect_id = NoEffect /\ playing = {}
          /\ then[t] = "upload" /\ ~quiet
      BY <2>6 DEF Upload
    <3>2. \A u \in Threads \ {t} : pc[u] = "out" /\ pc'[u] = "out"
      BY <2>6, <3>1 DEF Upload
    <3>3. CASE pc'[t] = "record"
      <4>1. \A u, v \in Inside' : u = v
        BY <3>2
      <4>2. ThreadKnows(t)'
        BY <2>6, <3>1, <3>3 DEF Upload
      <4>3. QED
        BY <2>6, <3>1, <3>2, <3>3, <4>1, <4>2 DEF Upload
    <3>4. CASE pc'[t] = "out"
      BY <2>6, <3>1, <3>2, <3>4 DEF Upload
    <3>5. QED
      BY <2>6, <3>3, <3>4 DEF Upload
  <2>7. ASSUME NEW t \in Threads, Record(t)
        PROVE  PoolInv'
    BY <2>7 DEF Record
  <2>8. ASSUME NEW t \in Threads, Play(t)
        PROVE  PoolInv'
    BY <2>8 DEF Play
  <2>9. ASSUME NEW slot \in Slots, EffectEnds(slot)
        PROVE  PoolInv'
    BY <2>9 DEF EffectEnds
  <2>10. CASE UNCHANGED ffVars
    BY <2>10
  <2>11. QED
    BY <2>1, <2>2, <2>3, <2>4, <2>5, <2>6, <2>7, <2>8, <2>9, <2>10
    DEF FFNext, DeviceStep
<1>3. QED
  BY <1>1, <1>2, FFTypeCorrect, PTL DEF FFSpec

\* Calls that do not overlap leak no slot, whatever their order and number and
\* whichever uploads and plays the kernel refuses.
THEOREM NoLeak == FFSpec => []NoLeakWithoutOverlap
<1>1. PoolInv => NoLeakWithoutOverlap
  BY DEF PoolInv, NoLeakWithoutOverlap
<1>2. QED
  BY <1>1, PoolInvHolds, PTL

\* Calls that do not overlap never have two effects playing.
THEOREM OneVoice == FFSpec => []SingleVoice
<1>1. FFTypeOK /\ PoolInv => SingleVoice
  <2> SUFFICES ASSUME FFTypeOK, PoolInv, ~overlap
               PROVE  \A a, b \in playing : a = b
    BY DEF SingleVoice
  <2>1. playing \subseteq loaded
    BY DEF FFTypeOK
  <2>2. CASE Inside = {}
    BY <2>1, <2>2 DEF PoolInv, NoLeakWithoutOverlap
  <2>3. CASE Inside # {}
    <3>1. PICK t \in Threads : pc[t] \in DevicePCs
      BY <2>3 DEF FFTypeOK, Inside
    <3>2. ThreadKnows(t)
      BY DEF PoolInv
    <3>3. QED
      BY <2>1, <3>1, <3>2 DEF ThreadKnows
  <2>4. QED
    BY <2>2, <2>3
<1>2. QED
  BY <1>1, PoolInvHolds, FFTypeCorrect, PTL

\* After an off() that overlapped no other call, silence until the next
\* vibrate() begins.
THEOREM OffSilencesHolds == FFSpec => []OffSilences
<1>1. PoolInv => OffSilences
  BY DEF PoolInv, OffSilences
<1>2. QED
  BY <1>1, PoolInvHolds, PTL
-----------------------------------------------------------------------------
\* Every behaviour of the service, with its binder and detached threads, is a
\* behaviour of the device under arbitrary callers.
THEOREM ServiceDrivesDevice == VibratorSpec => FFSpec
<1>1. VibratorInit => FFInit
  BY DEF VibratorInit
<1>2. [VibratorNext]_vibratorVars => [FFNext]_ffVars
  <2> SUFFICES ASSUME [VibratorNext]_vibratorVars
               PROVE  [FFNext]_ffVars
    OBVIOUS
  <2>1. CASE Off
    BY <2>1, VibratorAssumption DEF Off, FFNext
  <2>2. ASSUME NEW with_callback \in BOOLEAN, NEW m \in Timeouts, On(m, with_callback)
        PROVE  FFNext
    BY <2>2, VibratorAssumption DEF On, FFNext
  <2>3. ASSUME NEW with_callback \in BOOLEAN, Perform(with_callback)
        PROVE  FFNext
    BY <2>3, VibratorAssumption DEF Perform, FFNext
  <2>4. ASSUME NEW composite \in Compositions, Compose(composite)
        PROVE  UNCHANGED ffVars
    BY <2>4 DEF Compose
  <2>5. ASSUME NEW composite \in PwleSegments, ComposePwle(composite)
        PROVE  UNCHANGED ffVars
    BY <2>5 DEF ComposePwle
  <2>6. CASE Return
    BY <2>6 DEF Return
  <2>7. ASSUME NEW t \in Threads, InDevice(t)
        PROVE  FFNext
    BY <2>7 DEF InDevice, FFNext
  <2>8. ASSUME NEW d \in Detached, TriggerPrimitive(d)
        PROVE  FFNext
    <3>1. PrimitiveDuration(Head(todo[d])) \in Durations
      BY VibratorAssumption DEF PrimitiveDuration
    <3>2. QED
      BY <2>8, <3>1 DEF TriggerPrimitive, FFNext, Detached
  <2>9. ASSUME NEW d \in Detached, SleepAfterPrimitive(d) \/ Complete(d)
        PROVE  UNCHANGED ffVars
    BY <2>9 DEF SleepAfterPrimitive, Complete
  <2>10. ASSUME NEW slot \in Slots, EffectEnds(slot)
         PROVE  FFNext
    BY <2>10 DEF FFNext
  <2>11. CASE UNCHANGED vibratorVars
    BY <2>11 DEF vibratorVars
  <2>12. QED
    BY <2>1, <2>2, <2>3, <2>4, <2>5, <2>6, <2>7, <2>8, <2>9, <2>10, <2>11,
       VibratorAssumption
    DEF VibratorNext, Request, DetachedStep, Detached
<1>3. QED
  BY <1>1, <1>2, PTL DEF VibratorSpec, FFSpec

-----------------------------------------------------------------------------
\* What the service adds to the device's variables.
ServiceTypeOK ==
  /\ stage \in [Threads -> {"none", "calling", "asleep"}]
  /\ todo \in [Threads -> Seq(SupportedPrimitives)]
  /\ \A t \in Threads : Len(todo[t]) <= kComposeSizeMax
  /\ callback \in BOOLEAN

\* A composition that has passed compose()'s checks is one of supported
\* primitives.
LEMMA CheckedComposition ==
  ASSUME NEW composite \in Compositions,
         \A i \in DOMAIN composite : composite[i] \in SupportedPrimitives
  PROVE  composite \in Seq(SupportedPrimitives)
<1>1. composite \in Seq({composite[i] : i \in DOMAIN composite})
  BY VibratorAssumption
<1>2. DOMAIN composite = 1 .. Len(composite) /\ Len(composite) \in Nat
  BY <1>1
<1>3. composite = [i \in 1 .. Len(composite) |-> composite[i]]
  BY <1>1, <1>2
<1>4. QED
  BY <1>2, <1>3

\* Detach() starts a thread with a to-do list of the right type.
LEMMA DetachKeepsTypes ==
  ASSUME ServiceTypeOK, NEW primitives \in Seq(SupportedPrimitives),
         Len(primitives) <= kComposeSizeMax, Detach(primitives),
         UNCHANGED callback
  PROVE  ServiceTypeOK'
<1>1. PICK d \in Detached :
        /\ stage' = [stage EXCEPT ![d] = "asleep", ![Binder] = "none"]
        /\ todo' = [todo EXCEPT ![d] = primitives]
  BY DEF Detach
<1>2. QED
  BY <1>1, VibratorAssumption DEF ServiceTypeOK, Detached

\* Every step of the service keeps the types of its own variables.
LEMMA ServiceTypeStep ==
  ServiceTypeOK /\ [VibratorNext]_vibratorVars => ServiceTypeOK'
<1> SUFFICES ASSUME ServiceTypeOK, [VibratorNext]_vibratorVars
             PROVE  ServiceTypeOK'
  OBVIOUS
<1>0. <<>> \in Seq(SupportedPrimitives) /\ Len(<<>>) <= kComposeSizeMax
  BY VibratorAssumption
<1>1. ASSUME NEW with_callback \in BOOLEAN, Call(with_callback)
      PROVE  ServiceTypeOK'
  BY <1>1, VibratorAssumption DEF Call, ServiceTypeOK
<1>2. ASSUME NEW composite \in Compositions, Compose(composite)
      PROVE  ServiceTypeOK'
  BY <1>2, CheckedComposition, DetachKeepsTypes DEF Compose
<1>3. ASSUME NEW composite \in PwleSegments, ComposePwle(composite)
      PROVE  ServiceTypeOK'
  BY <1>3, <1>0, DetachKeepsTypes DEF ComposePwle
<1>4. CASE Return
  <2>1. CASE Detach(<<>>)
    BY <1>4, <2>1, <1>0, DetachKeepsTypes DEF Return
  <2>2. CASE stage' = [stage EXCEPT ![Binder] = "none"] /\ todo' = todo
    BY <1>4, <2>2, VibratorAssumption DEF Return, ServiceTypeOK
  <2>3. QED
    BY <1>4, <2>1, <2>2 DEF Return
<1>5. ASSUME NEW d \in Detached, TriggerPrimitive(d)
      PROVE  ServiceTypeOK'
  <2>1. todo[d] \in Seq(SupportedPrimitives) /\ todo[d] # <<>>
    BY <1>5 DEF TriggerPrimitive, ServiceTypeOK, Detached
  <2>2. /\ Tail(todo[d]) \in Seq(SupportedPrimitives)
        /\ Len(Tail(todo[d])) = Len(todo[d]) - 1
        /\ Len(todo[d]) \in Nat
    BY <2>1
  <2>3. Len(Tail(todo[d])) <= kComposeSizeMax
    BY <2>2, VibratorAssumption DEF ServiceTypeOK, Detached
  <2>4. QED
    BY <1>5, <2>2, <2>3 DEF TriggerPrimitive, ServiceTypeOK, Detached
<1>6. ASSUME NEW d \in Detached, SleepAfterPrimitive(d) \/ Complete(d)
      PROVE  ServiceTypeOK'
  BY <1>6 DEF SleepAfterPrimitive, Complete, ServiceTypeOK, Detached
<1>7. CASE UNCHANGED <<stage, todo, callback>>
  BY <1>7 DEF ServiceTypeOK
<1>8. CASE Request
  BY <1>8, <1>1, <1>2, <1>3 DEF Request, Off, On, Perform
<1>9. ASSUME NEW d \in Detached, DetachedStep(d)
      PROVE  ServiceTypeOK'
  BY <1>9, <1>5, <1>6, <1>7 DEF DetachedStep, InDevice
<1>10. CASE UNCHANGED vibratorVars
  BY <1>10, <1>7 DEF vibratorVars
<1>11. CASE InDevice(Binder)
  BY <1>11, <1>7 DEF InDevice
<1>12. CASE \E slot \in Slots : EffectEnds(slot) /\ UNCHANGED <<stage, todo, callback>>
  BY <1>7, <1>12
<1>13. QED
  BY <1>4, <1>8, <1>9, <1>10, <1>11, <1>12 DEF VibratorNext

\* The service is well typed: what compose() hands to a detached thread is a
\* list of supported primitives within its limit, and stays one.
THEOREM VibratorTypeCorrect == VibratorSpec => []VibratorTypeOK
<1>1. VibratorInit => ServiceTypeOK
  <2>1. <<>> \in Seq(SupportedPrimitives) /\ Len(<<>>) <= kComposeSizeMax
    BY VibratorAssumption
  <2>2. QED
    BY <2>1 DEF VibratorInit, ServiceTypeOK
<1>2. ServiceTypeOK /\ FFTypeOK => VibratorTypeOK
  BY DEF ServiceTypeOK, VibratorTypeOK
<1>3. QED
  BY <1>1, <1>2, ServiceTypeStep, ServiceDrivesDevice, FFTypeCorrect, PTL
  DEF VibratorSpec

\* The service leaks no slot, has one voice and is silent after off() as long
\* as its threads stay out of each other's way in the device code.
THEOREM ServiceKeepsPool ==
  VibratorSpec => [](NoLeakWithoutOverlap /\ SingleVoice /\ OffSilences)
BY ServiceDrivesDevice, NoLeak, OneVoice, OffSilencesHolds, PTL
=============================================================================
