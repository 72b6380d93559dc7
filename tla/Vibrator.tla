------------------------------ MODULE Vibrator ------------------------------
(***************************************************************************)
(* The vibrator HAL service (class Vibrator) above its rumble device: one   *)
(* binder thread takes the calls of IVibrator; on(), perform(), compose()   *)
(* and composePwle() leave a detached thread behind which sleeps, vibrates  *)
(* for compose() once per primitive, and ends with the client's callback.   *)
(* How long a sleep lasts is left open, delays between primitives included. *)
(***************************************************************************)
EXTENDS FFDevice, Sequences

CONSTANTS Binder,        \* the binder thread
          Timeouts,      \* arguments of on()
          Compositions,  \* arguments of compose(): sequences of primitives
          PwleSegments,  \* arguments of composePwle(): sequences of segments
          SupportedPrimitives,
          NOOP,
          kComposeSizeMax, kComposePwleSizeMax, PwleDurationMax

EffectMillis == 100  \* kEffectMillis, and the length of every primitive but NOOP

ASSUME VibratorAssumption ==
  /\ Binder \in Threads
  /\ NOOP \in SupportedPrimitives
  /\ kComposeSizeMax \in Nat
  /\ \A c \in Compositions : c \in Seq({c[i] : i \in DOMAIN c})
  /\ Timeouts \union {0, EffectMillis} \subseteq Durations

Detached == Threads \ {Binder}  \* bound: so many detached threads at a time

VARIABLES
  stage,    \* of each thread outside the device code
  todo,     \* primitives a compose() thread has still to trigger
  callback  \* the call of on() or perform() at hand brought a callback

vibratorVars == <<ffVars, stage, todo, callback>>

VibratorTypeOK ==
  /\ FFTypeOK
  /\ stage \in [Threads -> {"none", "calling", "asleep"}]
  /\ todo \in [Threads -> Seq(SupportedPrimitives)]
  /\ \A t \in Threads : Len(todo[t]) <= kComposeSizeMax
  /\ callback \in BOOLEAN

VibratorInit ==
  /\ FFInit
  /\ stage = [t \in Threads |-> "none"]
  /\ todo = [t \in Threads |-> <<>>]
  /\ callback = FALSE

-----------------------------------------------------------------------------
\* std::thread(...).detach(): the new thread starts at its sleep, or in
\* compose() at the top of its loop.
Detach(primitives) ==
  \E d \in Detached :
    /\ stage[d] = "none"
    /\ stage' = [stage EXCEPT ![d] = "asleep", ![Binder] = "none"]
    /\ todo' = [todo EXCEPT ![d] = primitives]

Call(with_callback) ==
  /\ stage[Binder] = "none"
  /\ stage' = [stage EXCEPT ![Binder] = "calling"]
  /\ callback' = with_callback
  /\ UNCHANGED todo

Off == Call(FALSE) /\ BeginOff(Binder)

On(timeoutMs, with_callback) == Call(with_callback) /\ BeginVibrate(Binder, timeoutMs)

\* An effect other than CLICK and TICK, or a strength unknown, is refused.
Perform(with_callback) == Call(with_callback) /\ BeginVibrate(Binder, EffectMillis)

\* The rest of on() and perform() after the device code, and the return of off().
Return ==
  /\ stage[Binder] = "calling"
  /\ pc[Binder] = "out"
  /\ \/ callback /\ Detach(<<>>)
     \/ ~callback /\ stage' = [stage EXCEPT ![Binder] = "none"] /\ todo' = todo
  /\ UNCHANGED <<ffVars, callback>>

Compose(composite) ==
  /\ stage[Binder] = "none"
  /\ Len(composite) <= kComposeSizeMax
  /\ \A i \in DOMAIN composite : composite[i] \in SupportedPrimitives
  /\ Detach(composite)
  /\ UNCHANGED <<ffVars, callback>>

\* A braking segment's duration has no lower limit, an active one's has.
PwleSegmentOK(e) ==
  /\ e.duration <= PwleDurationMax
  /\ e.active => e.duration >= 0

\* The segments are checked, the waveform is built and dropped: the detached
\* thread sleeps and calls back, and the device never hears of it.
ComposePwle(composite) ==
  /\ stage[Binder] = "none"
  /\ Len(composite) \in 1 .. kComposePwleSizeMax
  /\ \A i \in DOMAIN composite : PwleSegmentOK(composite[i])
  /\ Detach(<<>>)
  /\ UNCHANGED <<ffVars, callback>>

PrimitiveDuration(primitive) == IF primitive = NOOP THEN 0 ELSE EffectMillis

\* Mutant: the loop triggers the same primitive again and again.
TriggerPrimitive_Repeats(d) ==
  /\ stage[d] = "asleep"
  /\ todo[d] # <<>>
  /\ BeginVibrate(d, PrimitiveDuration(Head(todo[d])))
  /\ stage' = [stage EXCEPT ![d] = "calling"]
  /\ UNCHANGED <<todo, callback>>

TriggerPrimitive(d) ==
  /\ stage[d] = "asleep"
  /\ todo[d] # <<>>
  /\ BeginVibrate(d, PrimitiveDuration(Head(todo[d])))
  /\ todo' = [todo EXCEPT ![d] = Tail(@)]
  /\ stage' = [stage EXCEPT ![d] = "calling"]
  /\ UNCHANGED callback

SleepAfterPrimitive(d) ==
  /\ stage[d] = "calling"
  /\ pc[d] = "out"
  /\ stage' = [stage EXCEPT ![d] = "asleep"]
  /\ UNCHANGED <<ffVars, todo, callback>>

\* callback->onComplete(), if there is one, and the end of the thread.
Complete(d) ==
  /\ stage[d] = "asleep"
  /\ todo[d] = <<>>
  /\ stage' = [stage EXCEPT ![d] = "none"]
  /\ UNCHANGED <<ffVars, todo, callback>>

InDevice(t) == DeviceStep(t) /\ UNCHANGED <<stage, todo, callback>>

Request ==
  \/ Off
  \/ \E with_callback \in BOOLEAN : \/ \E m \in Timeouts : On(m, with_callback)
                                    \/ Perform(with_callback)
  \/ \E composite \in Compositions : Compose(composite)
  \/ \E composite \in PwleSegments : ComposePwle(composite)

DetachedStep(d) == TriggerPrimitive(d) \/ SleepAfterPrimitive(d) \/ Complete(d) \/ InDevice(d)

VibratorNext ==
  \/ Request
  \/ Return
  \/ InDevice(Binder)
  \/ \E d \in Detached : DetachedStep(d)
  \/ \E slot \in Slots : EffectEnds(slot) /\ UNCHANGED <<stage, todo, callback>>

VibratorSpec == VibratorInit /\ [][VibratorNext]_vibratorVars

\* Threads are scheduled and sleeps end; no client is obliged to call.
VibratorFairSpec ==
  /\ VibratorSpec
  /\ WF_vibratorVars(Return \/ InDevice(Binder))
  /\ \A d \in Detached : WF_vibratorVars(DetachedStep(d))

-----------------------------------------------------------------------------
\* Every thread left behind ends, its callback given, whatever else is called
\* in the meantime and whichever uploads fail.
CallbacksComplete ==
  \A d \in Detached : stage[d] # "none" ~> stage[d] = "none"

\* A binder call comes back: the binder thread is free for the next one.
CallsReturn ==
  stage[Binder] = "calling" ~> stage[Binder] = "none"
=============================================================================
