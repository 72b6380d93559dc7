------------------------ MODULE FlatteningController ------------------------
(***************************************************************************)
(* drm_hwcomposer as patches 0010 to 0016 leave it: a thread that asks for  *)
(* a refresh once the screen has been idle for kTimeout, so that the frame  *)
(* composed for it is flattened into one layer, and the compositor whose    *)
(* calls it waits for.  The compositor looks at the request without the     *)
(* mutex when it validates a frame and takes it back, under the mutex, when *)
(* it has committed one; a frame like the last may skip the validation.     *)
(***************************************************************************)
EXTENDS Integers

CONSTANT Timeout  \* kTimeout, in ticks

ASSUME FlatAssumption == Timeout \in Nat \ {0}

Never == -1

VARIABLES
  flatten_next_frame_,
  disabled_,
  left,     \* ticks to sleep_until_, 0 once it has passed
  trigger,  \* cbks_.trigger is set
  thread,   \* "triggering": in the callback, with mutex_ held
  alarm,    \* ticks to the end of the wait, Never for a wait without one
  stage,    \* of the compositor's frame
  many,     \* the frame has more than one layer
  flat,     \* all layers are left to the GPU
  shown,    \* what the screen shows
  wasted    \* history: the request was taken back by a frame not flattened

controller == <<flatten_next_frame_, disabled_, left, trigger>>
waiter == <<thread, alarm>>
frame == <<stage, many, flat, shown>>
vars == <<controller, waiter, frame, wasted>>

FlatTypeOK ==
  /\ flatten_next_frame_ \in BOOLEAN
  /\ disabled_ \in BOOLEAN
  /\ left \in 0 .. Timeout
  /\ trigger \in BOOLEAN
  /\ thread \in {"top", "triggering", "waiting", "ended"}
  /\ alarm \in 0 .. Timeout \union {Never}
  /\ stage \in {"idle", "validated", "committed", "destroyed"}
  /\ many \in BOOLEAN
  /\ flat \in BOOLEAN
  /\ shown \in {"nothing", "single", "mixed", "flat"}
  /\ wasted \in BOOLEAN

\* sleep_until_ is the epoch: the first pass of the thread finds it over.
FlatInit ==
  /\ flatten_next_frame_ = FALSE
  /\ disabled_ = FALSE
  /\ left = 0
  /\ trigger = TRUE
  /\ thread = "top"
  /\ alarm = Never
  /\ stage = "idle"
  /\ many = FALSE
  /\ flat = FALSE
  /\ shown = "nothing"
  /\ wasted = FALSE

-----------------------------------------------------------------------------
MutexFree == thread # "triggering"

\* cv_.notify_all()
Notify == thread' = IF thread = "waiting" THEN "top" ELSE thread

\* Mutant: every wait is one without a deadline.
Park_NoDeadline ==
  /\ thread' = "waiting"
  /\ alarm' = Never

\* The end of a pass: the wait, with the deadline as it is now.
Park ==
  /\ thread' = "waiting"
  /\ alarm' = IF disabled_ THEN Never ELSE left

EndThread ==
  /\ thread = "top"
  /\ ~trigger
  /\ thread' = "ended"
  /\ UNCHANGED <<controller, alarm, frame, wasted>>

TimeOut ==
  /\ thread = "top"
  /\ trigger
  /\ left = 0
  /\ ~disabled_
  /\ disabled_' = TRUE
  /\ flatten_next_frame_' = TRUE
  /\ wasted' = FALSE
  /\ thread' = "triggering"
  /\ UNCHANGED <<left, trigger, alarm, frame>>

\* The callback returns: SurfaceFlinger has been asked for a refresh.
Triggered ==
  /\ thread = "triggering"
  /\ Park
  /\ UNCHANGED <<controller, frame, wasted>>

NothingToDo ==
  /\ thread = "top"
  /\ trigger
  /\ left > 0 \/ disabled_
  /\ Park
  /\ UNCHANGED <<controller, frame, wasted>>

\* The deadline of a wait_until, or a spurious wake-up of either wait.
WakeUp ==
  /\ thread = "waiting"
  /\ thread' = "top"
  /\ UNCHANGED <<controller, alarm, frame, wasted>>

Expires == alarm = 0 /\ WakeUp

Tick ==
  /\ left > 0 \/ alarm > 0
  /\ left' = IF left > 0 THEN left - 1 ELSE 0
  /\ alarm' = IF alarm > 0 THEN alarm - 1 ELSE alarm
  /\ UNCHANGED <<flatten_next_frame_, disabled_, trigger, thread, frame, wasted>>

-----------------------------------------------------------------------------
\* ShouldFlatten() takes no lock.  A test commit that fails leaves all layers
\* to the GPU as well.
SelectClientLayers(several) ==
  /\ stage = "idle"
  /\ stage' = "validated"
  /\ many' = several
  /\ flat' \in {flatten_next_frame_, TRUE}
  /\ UNCHANGED <<controller, waiter, shown, wasted>>

Shows(several, flattened) ==
  IF ~several THEN "single" ELSE IF flattened THEN "flat" ELSE "mixed"

\* A commit that fails clears the screen, one that is not reached does not.
PresentValidated ==
  /\ stage = "validated"
  /\ \/ /\ stage' = "committed"
        /\ shown' = Shows(many, flat)
     \/ /\ stage' = "idle"
        /\ shown' \in {shown, "nothing"}
  /\ UNCHANGED <<controller, waiter, many, flat, wasted>>

\* SKIP_VALIDATE: each layer goes where the last validation put it, or tries
\* the planes if it changed, and layers come and go.  When that fails
\* SurfaceFlinger is told to validate the frame.
PresentNotValidated(several) ==
  /\ stage = "idle"
  /\ many' = several
  /\ flat' \in BOOLEAN
  /\ \/ /\ stage' = "committed"
        /\ shown' = Shows(several, flat')
     \/ UNCHANGED <<stage, shown>>
  /\ UNCHANGED <<controller, waiter, wasted>>

Disable ==
  /\ flatten_next_frame_' = FALSE
  /\ disabled_' = TRUE
  /\ UNCHANGED <<left, waiter, wasted>>

\* The request is taken back, and then the countdown is not started again.
TakeRequest ==
  /\ flatten_next_frame_' = FALSE
  /\ wasted' = ~flat
  /\ UNCHANGED <<disabled_, left, waiter>>

\* Mutant: a thread that waits without a deadline is not told.
StartCountdown_Silent ==
  /\ left' = Timeout
  /\ disabled_' = FALSE
  /\ wasted' = FALSE
  /\ UNCHANGED <<flatten_next_frame_, waiter>>

\* Mutant: the countdown starts again but stays disabled.
StartCountdown_Disabled ==
  /\ left' = Timeout
  /\ wasted' = FALSE
  /\ UNCHANGED <<flatten_next_frame_, disabled_, waiter>>

StartCountdown ==
  /\ left' = Timeout
  /\ disabled_' = FALSE
  /\ wasted' = FALSE
  /\ IF disabled_ THEN Notify ELSE UNCHANGED thread
  /\ UNCHANGED <<flatten_next_frame_, alarm>>

NewFrame ==
  IF flatten_next_frame_ THEN TakeRequest ELSE StartCountdown

\* The end of PresentComposition.  The buffer of the GPU counts as a layer, so
\* a single layer left to the GPU is not taken for a single one.
ReportFrame ==
  /\ stage = "committed"
  /\ MutexFree
  /\ stage' = "idle"
  /\ IF many \/ flat THEN NewFrame ELSE Disable
  /\ UNCHANGED <<trigger, many, flat, shown>>

\* Mutant: the callbacks are cleared without the mutex.
StopThread_NoLock ==
  /\ stage = "idle"
  /\ stage' = "destroyed"
  /\ trigger' = FALSE
  /\ Notify
  /\ UNCHANGED <<flatten_next_frame_, disabled_, left, alarm, many, flat, shown, wasted>>

\* Mutant: the thread is left asleep.
StopThread_Silent ==
  /\ stage = "idle"
  /\ MutexFree
  /\ stage' = "destroyed"
  /\ trigger' = FALSE
  /\ UNCHANGED <<flatten_next_frame_, disabled_, left, waiter, many, flat, shown, wasted>>

\* ~CompositorGeneric(), when no frame is under way.
StopThread ==
  /\ stage = "idle"
  /\ MutexFree
  /\ stage' = "destroyed"
  /\ trigger' = FALSE
  /\ Notify
  /\ UNCHANGED <<flatten_next_frame_, disabled_, left, alarm, many, flat, shown, wasted>>

-----------------------------------------------------------------------------
ThreadStep == EndThread \/ TimeOut \/ Triggered \/ NothingToDo \/ Expires

FlatNext ==
  \/ ThreadStep \/ WakeUp \/ Tick
  \/ \E several \in BOOLEAN : SelectClientLayers(several) \/ PresentNotValidated(several)
  \/ PresentValidated \/ ReportFrame \/ StopThread

FlatSpec == FlatInit /\ [][FlatNext]_vars

\* The thread and the clock run, the callback returns, a frame begun is ended;
\* no frame has to come and no display has to go.
FlatFairSpec ==
  /\ FlatSpec
  /\ WF_vars(ThreadStep)
  /\ WF_vars(Tick)
  /\ WF_vars(PresentValidated)
  /\ WF_vars(ReportFrame)

-----------------------------------------------------------------------------
\* Once the destructor has passed StopThread() the callback, which points into
\* the display being destroyed, neither runs nor can run: StopThread() waits
\* for the mutex a running callback holds.
CallbackOnLiveDisplay ==
  thread = "triggering" => stage # "destroyed"

\* No wake-up is lost: a waiting thread has its callback, and while a countdown
\* runs it wakes up no later than the countdown ends, however often frames
\* disabled, renewed or started it since the thread went to sleep.
WakesInTime ==
  thread = "waiting" => /\ trigger
                        /\ ~disabled_ => alarm \in 0 .. left

\* An idle screen that shows several layers from planes is either counting
\* down, or has asked for the frame to flatten, or had its request taken back
\* by a frame that was not flattened.  The last happens: the request may come
\* between a frame's validation and its report, and a frame that skips the
\* validation never looks at it.
MixedIsAccountedFor ==
  stage = "idle" /\ shown = "mixed" => ~disabled_ \/ flatten_next_frame_ \/ wasted

\* When no more frames come the countdown comes to its end, whatever state the
\* last frames left the thread in.
IdleSettles ==
  <>[](stage = "idle") => <>[]disabled_

\* The thread of a destroyed compositor ends, and with it the last reference.
ThreadEnds ==
  stage = "destroyed" ~> thread = "ended"
=============================================================================
