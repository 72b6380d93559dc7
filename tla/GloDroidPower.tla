--------------------------- MODULE GloDroidPower ---------------------------
(***************************************************************************)
(* The boost engine of the power HAL (class GloDroidPower): callers change  *)
(* boost_end_ / boost_en_ under mut_ and notify cv_; one worker thread runs *)
(* ThreadFn, which raises and drops the min_freq floor of every DVFS node.  *)
(*                                                                          *)
(* ThreadFn calls cv_.wait_until with no predicate, and drops mut_ at the   *)
(* end of each iteration only to take it again at the top of the next: a    *)
(* notification given in between (or before the thread first waits) reaches *)
(* nobody.  The model keeps that window: worker = "unlocked".               *)
(*                                                                          *)
(* A caller's critical section is one action (nothing in it blocks); the    *)
(* worker's is split, because BoostAll writes one sysfs file after another  *)
(* with mut_ held while the clock runs and writes fail.                     *)
(***************************************************************************)
EXTENDS Integers

CONSTANTS DevFreqs,       \* the sysfs nodes with a min_freq and a max_freq file
          Flaky,          \* the nodes whose min_freq may refuse a later write
          Timeouts,       \* the arguments BoostFor is called with
          DefaultTimeout, \* kDefaultTimeout
          Horizon,        \* bound: the clock stops here, deadlines lie below
          MaxRestarts     \* bound: how often the service is restarted

ASSUME PowerAssumption ==
  /\ Flaky \subseteq DevFreqs
  /\ Timeouts \subseteq Int
  /\ DefaultTimeout \in Nat \ {0}
  /\ Horizon \in Nat
  /\ MaxRestarts \in Nat

Low == "low"    \* the node's min_freq as the kernel set it up
High == "high"  \* the node's max_freq
Never == Horizon + 1  \* time_point::max(): later than the clock ever gets

VARIABLES
  now,          \* steady_clock::now()
  boost_end, boost_en, exit, booster_list,
  worker,       \* where the thread is: see WorkerStates
  boosted, wakeup_pt,  \* ThreadFn's locals
  pending,      \* nodes BoostAll has still to write
  owner,        \* where the destructor is: see OwnerStates
  min_freq,     \* the sysfs files themselves: they outlive the process
  initial_min,  \* SysfsIntFile::initial_value_ of each min_freq
  restarts,
  asked,        \* history: deadlines BoostFor was asked for
  missed,       \* history: notifications that went unheard since the last pass
  tainted       \* history: the service came up while a floor was raised

requests == <<boost_end, boost_en, asked>>
files == <<min_freq, initial_min, booster_list, restarts, tainted>>
locals == <<boosted, wakeup_pt, pending>>
vars == <<now, requests, files, locals, worker, exit, owner, missed>>

\* "unlocked": before the first iteration or between two, mut_ not held;
\* "waiting": inside wait_until; "woken": out of it, waiting for mut_;
\* "applying": in BoostAll, mut_ held; "none": no node usable, no thread.
WorkerStates == {"none", "unlocked", "waiting", "woken", "applying", "exited"}

\* "terminated": join() of a thread never started throws in the destructor.
OwnerStates == {"alive", "exit_set", "joining", "destroyed", "terminated"}

\* What notify_all() is called for.
Notifications == {"deadline", "on", "off", "exit"}

TypeOK ==
  /\ now \in 0 .. Horizon
  /\ boost_end \in 0 .. Horizon
  /\ boost_en \in BOOLEAN
  /\ exit \in BOOLEAN
  /\ booster_list \in SUBSET DevFreqs
  /\ worker \in WorkerStates
  /\ boosted \in BOOLEAN
  /\ wakeup_pt \in 0 .. Never
  /\ pending \in SUBSET booster_list
  /\ owner \in OwnerStates
  /\ min_freq \in [DevFreqs -> {Low, High}]
  /\ initial_min \in [DevFreqs -> {Low, High}]
  /\ restarts \in 0 .. MaxRestarts
  /\ asked \in SUBSET (0 .. Horizon)
  /\ missed \in SUBSET Notifications
  /\ tainted \in BOOLEAN

-----------------------------------------------------------------------------
StartWorker(usable) == IF usable = {} THEN "none" ELSE "unlocked"

Init ==
  /\ now = 0
  /\ boost_end = 0
  /\ boost_en = FALSE
  /\ asked = {}
  /\ exit = FALSE
  /\ min_freq = [d \in DevFreqs |-> Low]
  /\ initial_min = min_freq
  /\ booster_list \in SUBSET DevFreqs
  /\ restarts = 0
  /\ tainted = FALSE
  /\ worker = StartWorker(booster_list)
  /\ boosted = FALSE
  /\ wakeup_pt = Never
  /\ pending = {}
  /\ owner = "alive"
  /\ missed = {}

\* The process dies wherever it is and init starts it again.  Its constructor
\* reads the floors it finds as the initial ones and keeps the nodes whose files
\* it can read and write.
Restart(usable) ==
  /\ restarts < MaxRestarts
  /\ restarts' = restarts + 1
  /\ boost_end' = 0
  /\ boost_en' = FALSE
  /\ asked' = {}
  /\ exit' = FALSE
  /\ initial_min' = min_freq
  /\ booster_list' = usable
  /\ tainted' = (tainted \/ \E d \in DevFreqs : min_freq[d] = High)
  /\ worker' = StartWorker(usable)
  /\ boosted' = FALSE
  /\ wakeup_pt' = Never
  /\ pending' = {}
  /\ owner' = "alive"
  /\ missed' = {}
  /\ UNCHANGED <<now, min_freq>>

-----------------------------------------------------------------------------
MutexFree == worker # "applying"

\* cv_.notify_all(): it wakes the worker only if the worker is in wait_until.
Notify(what) ==
  /\ worker' = IF worker = "waiting" THEN "woken" ELSE worker
  /\ missed' = IF worker \in {"unlocked", "applying"} THEN missed \union {what} ELSE missed

Deadline(timeout_ms) ==
  now + (IF timeout_ms <= 0 THEN DefaultTimeout ELSE timeout_ms)

\* Mutant: the newest deadline replaces the one in force even when it is earlier.
BoostFor_Shortens(timeout_ms) ==
  LET end == Deadline(timeout_ms)
  IN  /\ owner = "alive"
      /\ MutexFree
      /\ end <= Horizon
      /\ asked' = asked \union {end}
      /\ boost_end' = end
      /\ Notify("deadline")
      /\ UNCHANGED <<now, boost_en, files, locals, exit, owner>>

\* A later deadline replaces the one in force; an earlier one changes nothing.
BoostFor(timeout_ms) ==
  LET end == Deadline(timeout_ms)
  IN  /\ owner = "alive"
      /\ MutexFree
      /\ end <= Horizon
      /\ asked' = asked \union {end}
      /\ \/ /\ boost_end < end
            /\ boost_end' = end
            /\ Notify("deadline")
         \/ /\ boost_end >= end
            /\ UNCHANGED <<boost_end, worker, missed>>
      /\ UNCHANGED <<now, boost_en, files, locals, exit, owner>>

\* Mutant: the switch is changed and nobody is told.
BoostEn_Silent(en) ==
  /\ owner = "alive"
  /\ MutexFree
  /\ boost_en' = en
  /\ UNCHANGED <<now, boost_end, asked, files, locals, worker, missed, exit, owner>>

BoostEn(en) ==
  /\ owner = "alive"
  /\ MutexFree
  /\ boost_en' = en
  /\ Notify(IF en THEN "on" ELSE "off")
  /\ UNCHANGED <<now, boost_end, asked, files, locals, exit, owner>>

\* ~GloDroidPower, in its three steps: the flag under the lock, the
\* notification without it, the join.
SetExit ==
  /\ owner = "alive"
  /\ MutexFree
  /\ exit' = TRUE
  /\ owner' = "exit_set"
  /\ UNCHANGED <<now, requests, files, locals, worker, missed>>

NotifyExit ==
  /\ owner = "exit_set"
  /\ Notify("exit")
  /\ owner' = "joining"
  /\ UNCHANGED <<now, requests, files, locals, exit>>

Join ==
  /\ owner = "joining"
  /\ worker \in {"exited", "none"}
  /\ owner' = IF worker = "exited" THEN "destroyed" ELSE "terminated"
  /\ UNCHANGED <<now, requests, files, locals, worker, exit, missed>>

-----------------------------------------------------------------------------
\* Top of the loop: lock, then release-and-wait in one step.
StartWait ==
  /\ worker = "unlocked"
  /\ worker' = "waiting"
  /\ UNCHANGED <<now, requests, files, locals, exit, owner, missed>>

WaitExpires ==
  /\ worker = "waiting"
  /\ wakeup_pt <= now
  /\ worker' = "woken"
  /\ UNCHANGED <<now, requests, files, locals, exit, owner, missed>>

SpuriousWakeup ==
  /\ worker = "waiting"
  /\ worker' = "woken"
  /\ UNCHANGED <<now, requests, files, locals, exit, owner, missed>>

BoostActive == boost_end > now \/ boost_en

\* Mutant: the alarm is set only by the pass that raises the floor.
Process_ArmsOnRaise ==
  /\ worker = "woken"
  /\ ~exit
  /\ boosted' = BoostActive
  /\ pending' = IF BoostActive = boosted THEN {} ELSE booster_list
  /\ worker' = IF BoostActive = boosted THEN "unlocked" ELSE "applying"
  /\ wakeup_pt' = IF BoostActive /\ ~boosted /\ ~boost_en THEN boost_end ELSE Never
  /\ missed' = {}
  /\ UNCHANGED <<now, requests, files, exit, owner>>

\* Mutant: the pass looks at the deadline alone and not at the switch.
Process_IgnoresSwitch ==
  LET active == boost_end > now
  IN  /\ worker = "woken"
      /\ ~exit
      /\ boosted' = active
      /\ pending' = IF active = boosted THEN {} ELSE booster_list
      /\ worker' = IF active = boosted THEN "unlocked" ELSE "applying"
      /\ wakeup_pt' = IF active THEN boost_end ELSE Never
      /\ missed' = {}
      /\ UNCHANGED <<now, requests, files, exit, owner>>

\* One pass over the shared state, from the return of wait_until on.
Process ==
  /\ worker = "woken"
  /\ ~exit
  /\ boosted' = BoostActive
  /\ pending' = IF BoostActive = boosted THEN {} ELSE booster_list
  /\ worker' = IF BoostActive = boosted THEN "unlocked" ELSE "applying"
  /\ wakeup_pt' = IF BoostActive /\ ~boost_en THEN boost_end ELSE Never
  /\ missed' = {}
  /\ UNCHANGED <<now, requests, files, exit, owner>>

Exit ==
  /\ worker = "woken"
  /\ exit
  /\ worker' = "exited"
  /\ UNCHANGED <<now, requests, files, locals, exit, owner, missed>>

\* Mutant: a drop writes back the last value instead of the initial one.
Target_LastValue(d) == IF boosted THEN High ELSE min_freq[d]

\* The floor BoostAll(boosted) writes for node d.
Target(d) == IF boosted THEN High ELSE initial_min[d]

\* Mutant: the loop gives up at the first node that refuses the write.
BoostNode_StopsAtFailure(d) ==
  /\ worker = "applying"
  /\ d \in pending
  /\ \/ /\ min_freq' = [min_freq EXCEPT ![d] = Target(d)]
        /\ pending' = pending \ {d}
     \/ /\ d \in Flaky
        /\ min_freq' = min_freq
        /\ pending' = {}
  /\ worker' = IF pending' = {} THEN "unlocked" ELSE "applying"
  /\ UNCHANGED <<now, requests, boosted, wakeup_pt, initial_min, booster_list,
                 restarts, tainted, exit, owner, missed>>

\* BoostAll's loop body: the write's result is ignored, the loop goes on.
BoostNode(d) ==
  /\ worker = "applying"
  /\ d \in pending
  /\ \/ min_freq' = [min_freq EXCEPT ![d] = Target(d)]
     \/ d \in Flaky /\ min_freq' = min_freq
  /\ pending' = pending \ {d}
  /\ worker' = IF pending = {d} THEN "unlocked" ELSE "applying"
  /\ UNCHANGED <<now, requests, boosted, wakeup_pt, initial_min, booster_list,
                 restarts, tainted, exit, owner, missed>>

Tick ==
  /\ now < Horizon
  /\ now' = now + 1
  /\ UNCHANGED <<requests, files, locals, worker, exit, owner, missed>>

-----------------------------------------------------------------------------
WorkerStep ==
  StartWait \/ WaitExpires \/ Process \/ Exit \/ \E d \in DevFreqs : BoostNode(d)

\* The world outside the class: time, unwanted wake-ups, a process that dies.
Surroundings ==
  Tick \/ SpuriousWakeup \/ \E usable \in SUBSET DevFreqs : Restart(usable)

Request == (\E t \in Timeouts : BoostFor(t)) \/ (\E en \in BOOLEAN : BoostEn(en))

Destroy == SetExit \/ NotifyExit \/ Join

Next == Request \/ Destroy \/ WorkerStep \/ Surroundings

Spec == Init /\ [][Next]_vars

\* The scheduler runs the worker and the clock; nobody is obliged to call in or
\* to destroy the object, but a destructor once entered runs on.
FairSpec == Spec /\ WF_vars(WorkerStep) /\ WF_vars(Tick)
                 /\ WF_vars(NotifyExit) /\ WF_vars(Join)

-----------------------------------------------------------------------------
\* Outside BoostAll every node whose writes succeed has the floor the worker
\* decided on, and inside it every node already visited has: no order of
\* requests, time-outs and writes leaves one node raised and another dropped.
FloorFollowsDecision ==
  \A d \in booster_list \ (pending \union Flaky) : min_freq[d] = Target(d)

\* Once no boost is in force and BoostAll is done, every node is back at the
\* floor the kernel gave it - unless the service was restarted while a floor was
\* raised, when the constructor takes the raised value for the initial one.
FloorReleased ==
  ~boosted /\ ~tainted
    => \A d \in booster_list \ (pending \union Flaky) : min_freq[d] = Low

\* The worker sleeps out of step with the requests only if a notification was
\* given while it was outside wait_until.  Otherwise, asleep, it holds the floor
\* up exactly while the switch is on or a deadline is armed, and no destructor
\* is waiting for it.
ParkedInStep ==
  worker = "waiting" /\ missed = {}
    => /\ boosted <=> (boost_en \/ wakeup_pt # Never)
       /\ owner # "joining"

\* An armed alarm belongs to a boost and rings no later than the deadline in force.
\* A boost has none while the switch holds it; when the switch goes off, it gets
\* one or is dropped, unless exactly that BoostEn(false) was given between two
\* iterations.  No deadline, BoostEn(true) or destructor that goes unheard, alone
\* or with others, costs a boost its alarm.
AlarmArmed ==
  /\ wakeup_pt # Never => boosted /\ wakeup_pt <= boost_end
  /\ boosted /\ wakeup_pt = Never /\ worker \notin {"woken", "exited"}
       => boost_en \/ "off" \in missed

\* The engine is a BoostPolicy: it raises and drops the floor only as the
\* requests made so far want it, whatever the order of calls, and no shorter
\* later request cuts a longer earlier one.
Policy == INSTANCE BoostPolicy WITH switched <- boost_en

PolicySpec == Policy!Spec

\* A boost with an alarm ends, or is taken over by the switch: the worker wakes
\* at the deadline without anybody's help.
TimedBoostEnds ==
  (boosted /\ wakeup_pt # Never) ~> (~boosted \/ boost_en \/ exit)

\* A request that finds the worker asleep is acted upon: once the worker is
\* woken with a boost wanted, the floor goes up unless the want lapses first.
HeardRequestApplied ==
  (worker = "woken" /\ BoostActive) ~> (boosted \/ ~BoostActive \/ exit)

\* What the log lines of ThreadFn announce ("Cancel boost"): a boost nobody
\* wants any more is cancelled.  The code does not ensure it: BoostEn(false)
\* may notify while the worker is between two iterations.
UnwantedBoostCancelled ==
  (boosted /\ ~BoostActive) ~> (~boosted \/ BoostActive)
=============================================================================
