------------------------------ MODULE FFDevice ------------------------------
(***************************************************************************)
(* The rumble device of the vibrator HAL (class FFDevice) and the pool of   *)
(* effect slots the kernel keeps for its file descriptor.  vibrate() is     *)
(* off() followed by upload, record and play; off() removes the effect that *)
(* last_effect_id names.  Neither takes a lock, although the binder thread  *)
(* and the detached threads of compose() call them on one object, so the    *)
(* model splits them at every access to last_effect_id and at every call    *)
(* into the kernel.                                                         *)
(***************************************************************************)
EXTENDS Integers

CONSTANTS Threads,    \* the threads that call into the device
          MaxEffects, \* effect slots of the driver
          Durations   \* the arguments vibrate() is called with, in ms

ASSUME FFAssumption ==
  /\ MaxEffects \in Nat \ {0}
  /\ Durations \subseteq Int

NoEffect == -1
Slots == 0 .. MaxEffects - 1
LengthMod == 65536  \* replay.length is a uint16_t

VARIABLES
  last_effect_id,
  loaded,   \* kernel: slots this file descriptor owns
  endless,  \* kernel: slots with replay.length 0, which play until removed
  playing,  \* kernel: slots being played
  pc,       \* where in the device code each thread is
  then,     \* what follows the off() part: "upload" in vibrate(), or "return"
  ms,       \* duration_ms of each thread's vibrate()
  id,       \* effect id each thread holds in a register
  overlap,  \* history: two threads were in the device code at once
  quiet     \* history: off() returned and no vibrate() began since

kernel == <<loaded, endless, playing>>
ffVars == <<last_effect_id, kernel, pc, then, ms, id, overlap, quiet>>

DevicePCs == {"test", "remove", "clear", "upload", "record", "play"}

FFTypeOK ==
  /\ last_effect_id \in Slots \union {NoEffect}
  /\ loaded \in SUBSET Slots
  /\ endless \in SUBSET loaded
  /\ playing \in SUBSET loaded
  /\ pc \in [Threads -> DevicePCs \union {"out"}]
  /\ then \in [Threads -> {"upload", "return"}]
  /\ ms \in [Threads -> Durations \union {0}]
  /\ id \in [Threads -> Slots \union {NoEffect}]
  /\ overlap \in BOOLEAN
  /\ quiet \in BOOLEAN

FFInit ==
  /\ last_effect_id = NoEffect
  /\ loaded = {}
  /\ endless = {}
  /\ playing = {}
  /\ pc = [t \in Threads |-> "out"]
  /\ then = [t \in Threads |-> "return"]
  /\ ms = [t \in Threads |-> 0]
  /\ id = [t \in Threads |-> NoEffect]
  /\ overlap = FALSE
  /\ quiet = FALSE

-----------------------------------------------------------------------------
Inside == {t \in Threads : pc[t] # "out"}
Goto(t, label) == pc' = [pc EXCEPT ![t] = label]

\* A return from the device code: the thread's locals are gone.
Leave(t) ==
  /\ Goto(t, "out")
  /\ then' = [then EXCEPT ![t] = "return"]
  /\ ms' = [ms EXCEPT ![t] = 0]
  /\ id' = [id EXCEPT ![t] = NoEffect]

\* Mutant: vibrate() uploads at once, without its off().
BeginVibrate_NoOff(t, duration_ms) ==
  /\ pc[t] = "out"
  /\ Goto(t, "upload")
  /\ then' = [then EXCEPT ![t] = "upload"]
  /\ ms' = [ms EXCEPT ![t] = duration_ms]
  /\ overlap' = (overlap \/ Inside # {})
  /\ quiet' = FALSE
  /\ UNCHANGED <<last_effect_id, kernel, id>>

BeginVibrate(t, duration_ms) ==
  /\ pc[t] = "out"
  /\ Goto(t, "test")
  /\ then' = [then EXCEPT ![t] = "upload"]
  /\ ms' = [ms EXCEPT ![t] = duration_ms]
  /\ overlap' = (overlap \/ Inside # {})
  /\ quiet' = FALSE
  /\ UNCHANGED <<last_effect_id, kernel, id>>

BeginOff(t) ==
  /\ pc[t] = "out"
  /\ Goto(t, "test")
  /\ then' = [then EXCEPT ![t] = "return"]
  /\ overlap' = (overlap \/ Inside # {})
  /\ UNCHANGED <<last_effect_id, kernel, ms, id, quiet>>

\* The end of the off() part.
LeaveOff(t) ==
  \/ /\ then[t] = "upload"
     /\ Goto(t, "upload")
     /\ UNCHANGED <<then, ms, id, quiet>>
  \/ /\ then[t] = "return"
     /\ Leave(t)
     /\ quiet' = TRUE

Test(t) ==
  /\ pc[t] = "test"
  /\ \/ last_effect_id = NoEffect /\ LeaveOff(t)
     \/ /\ last_effect_id # NoEffect
        /\ id' = [id EXCEPT ![t] = last_effect_id]
        /\ Goto(t, "remove")
        /\ UNCHANGED <<then, ms, quiet>>
  /\ UNCHANGED <<last_effect_id, kernel, overlap>>

\* Mutant: the id is forgotten and the kernel never told.
Remove_OnlyForgets(t) ==
  /\ pc[t] = "remove"
  /\ Goto(t, "clear")
  /\ UNCHANGED <<last_effect_id, kernel, then, ms, id, overlap, quiet>>

\* EVIOCRMFF stops and frees the slot; it fails on an id that is not owned,
\* and the failure is only logged.  The build may use the id tested before or
\* read last_effect_id again.
Remove(t) ==
  /\ pc[t] = "remove"
  /\ \E victim \in {id[t], last_effect_id} :
       /\ loaded' = loaded \ {victim}
       /\ playing' = playing \ {victim}
       /\ endless' = endless \ {victim}
  /\ Goto(t, "clear")
  /\ UNCHANGED <<last_effect_id, then, ms, id, overlap, quiet>>

Clear(t) ==
  /\ pc[t] = "clear"
  /\ last_effect_id' = NoEffect
  /\ LeaveOff(t)
  /\ UNCHANGED <<kernel, overlap>>

\* The cast to uint16_t of the duration.
ReplayLength(duration_ms) == duration_ms % LengthMod

\* Mutant: with no slot free vibrate() tries again, from its off().
Upload_Retries(t) ==
  /\ pc[t] = "upload"
  /\ \/ \E slot \in Slots \ loaded :
          /\ loaded' = loaded \union {slot}
          /\ endless' = IF ReplayLength(ms[t]) = 0 THEN endless \union {slot}
                                                 ELSE endless
          /\ id' = [id EXCEPT ![t] = slot]
          /\ Goto(t, "record")
     \/ /\ loaded = Slots
        /\ Goto(t, "test")
        /\ UNCHANGED <<loaded, endless, id>>
  /\ UNCHANGED <<last_effect_id, playing, then, ms, overlap, quiet>>

\* EVIOCSFF with id -1 takes a free slot; with none left, or when the driver
\* refuses the effect, vibrate() returns.
Upload(t) ==
  /\ pc[t] = "upload"
  /\ \/ \E slot \in Slots \ loaded :
          /\ loaded' = loaded \union {slot}
          /\ endless' = IF ReplayLength(ms[t]) = 0 THEN endless \union {slot}
                                                 ELSE endless
          /\ id' = [id EXCEPT ![t] = slot]
          /\ Goto(t, "record")
          /\ UNCHANGED <<then, ms>>
     \/ Leave(t) /\ UNCHANGED <<loaded, endless>>
  /\ UNCHANGED <<last_effect_id, playing, overlap, quiet>>

Record(t) ==
  /\ pc[t] = "record"
  /\ last_effect_id' = id[t]
  /\ Goto(t, "play")
  /\ UNCHANGED <<kernel, then, ms, id, overlap, quiet>>

\* The kernel plays an effect its owner still has; a failing write is logged.
Play(t) ==
  /\ pc[t] = "play"
  /\ \/ id[t] \in loaded /\ playing' = playing \union {id[t]}
     \/ playing' = playing
  /\ Leave(t)
  /\ UNCHANGED <<last_effect_id, loaded, endless, overlap, quiet>>

DeviceStep(t) == Test(t) \/ Remove(t) \/ Clear(t) \/ Upload(t) \/ Record(t) \/ Play(t)

\* An effect with a length ends by itself and stays in its slot.
EffectEnds(slot) ==
  /\ slot \in playing
  /\ slot \notin endless
  /\ playing' = playing \ {slot}
  /\ UNCHANGED <<last_effect_id, loaded, endless, pc, then, ms, id, overlap, quiet>>

FFNext ==
  \/ \E t \in Threads : \/ \E d \in Durations : BeginVibrate(t, d)
                        \/ BeginOff(t)
                        \/ DeviceStep(t)
  \/ \E slot \in Slots : EffectEnds(slot)

FFSpec == FFInit /\ [][FFNext]_ffVars

-----------------------------------------------------------------------------
\* As long as no two threads were in the device code together, the kernel holds
\* no effect but the one last_effect_id names once everybody is out: vibrate()
\* in whatever order, refused uploads and plays included, leaks no slot.
NoLeakWithoutOverlap ==
  ~overlap /\ Inside = {} => loaded \subseteq {last_effect_id}

\* As long as no two threads were in the device code together, never are two
\* effects played at once, not even between the steps of one vibrate().
SingleVoice ==
  ~overlap => \A a, b \in playing : a = b

\* Once off() has returned and until the next vibrate() begins nothing is
\* played - unless calls overlapped, when off() may have missed an effect.
OffSilences ==
  quiet /\ ~overlap => playing = {}

\* The comment on EVIOCRMFF reads "Cleanup": every effect is removed before it
\* is forgotten, so that with everybody out only the last one holds a slot.
\* Without a lock two overlapping vibrate() calls break it.
NothingLeaked ==
  Inside = {} => loaded \subseteq {last_effect_id}
=============================================================================
