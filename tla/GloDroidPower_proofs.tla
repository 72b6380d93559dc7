------------------------ MODULE GloDroidPower_proofs ------------------------
(***************************************************************************)
(* Theorems about the boost engine, for any set of nodes, any requests and  *)
(* any clock bound.                                                         *)
(***************************************************************************)
EXTENDS GloDroidPower, TLAPS

\* time_point::max() lies beyond every time the clock shows.
LEMMA NeverFacts == /\ Never \in Nat \ (0 .. Horizon)
                    /\ Never \in 0 .. Never
                    /\ 0 .. Horizon \subseteq 0 .. Never
BY PowerAssumption DEF Never

\* The definitions every step of every proof looks through.
USE PowerAssumption, NeverFacts DEF Low, High, vars, requests, files, locals

\* The worker is started with one of the states it can have.
LEMMA StartWorkerType ==
  ASSUME NEW usable
  PROVE  StartWorker(usable) \in {"none", "unlocked"}
BY DEF StartWorker

\* Every variable keeps its type: in particular the armed wake-up time is a time
\* or time_point::max(), and BoostAll never visits a node that is not listed.
THEOREM TypeCorrect == Spec => []TypeOK
<1>1. Init => TypeOK
  <2> SUFFICES ASSUME Init
               PROVE  TypeOK
    OBVIOUS
  <2>1. /\ now \in 0 .. Horizon /\ boost_end \in 0 .. Horizon
        /\ restarts \in 0 .. MaxRestarts /\ wakeup_pt \in 0 .. Never
    BY DEF Init
  <2>2. /\ min_freq \in [DevFreqs -> {Low, High}]
        /\ initial_min \in [DevFreqs -> {Low, High}]
    BY DEF Init
  <2>3. worker \in WorkerStates
    BY StartWorkerType DEF Init, WorkerStates
  <2>4. QED
    BY <2>1, <2>2, <2>3 DEF Init, TypeOK, OwnerStates
<1>2. TypeOK /\ [Next]_vars => TypeOK'
  <2> SUFFICES ASSUME TypeOK, [Next]_vars
               PROVE  TypeOK'
    OBVIOUS
  <2> USE DEF TypeOK, WorkerStates, OwnerStates, Notifications
  <2>1. ASSUME NEW t \in Timeouts, BoostFor(t)
        PROVE  TypeOK'
    <3>1. Deadline(t) \in 0 .. Horizon
      BY <2>1 DEF BoostFor, Deadline
    <3>2. QED
      BY <2>1, <3>1 DEF BoostFor, Notify
  <2>2. ASSUME NEW en \in BOOLEAN, BoostEn(en)
        PROVE  TypeOK'
    BY <2>2 DEF BoostEn, Notify
  <2>3. CASE SetExit
    BY <2>3 DEF SetExit
  <2>4. CASE NotifyExit
    BY <2>4 DEF NotifyExit, Notify
  <2>5. CASE Join
    BY <2>5 DEF Join
  <2>6. CASE StartWait
    BY <2>6 DEF StartWait
  <2>7. CASE WaitExpires
    BY <2>7 DEF WaitExpires
  <2>8. CASE Process
    <3>1. BoostActive \in BOOLEAN
      BY DEF BoostActive
    <3>2. QED
      BY <2>8, <3>1 DEF Process
  <2>9. CASE Exit
    BY <2>9 DEF Exit
  <2>10. ASSUME NEW d \in DevFreqs, BoostNode(d)
         PROVE  TypeOK'
    <3>1. min_freq' \in [DevFreqs -> {Low, High}]
      BY <2>10 DEF BoostNode, Target
    <3>2. QED
      BY <2>10, <3>1 DEF BoostNode
  <2>11. CASE Tick
    BY <2>11 DEF Tick
  <2>12. CASE SpuriousWakeup
    BY <2>12 DEF SpuriousWakeup
  <2>13. ASSUME NEW usable \in SUBSET DevFreqs, Restart(usable)
         PROVE  TypeOK'
    <3>1. /\ now' \in 0 .. Horizon /\ boost_end' \in 0 .. Horizon
          /\ restarts' \in 0 .. MaxRestarts /\ wakeup_pt' \in 0 .. Never
      BY <2>13 DEF Restart
    <3>2. /\ min_freq' \in [DevFreqs -> {Low, High}]
          /\ initial_min' \in [DevFreqs -> {Low, High}]
      BY <2>13 DEF Restart
    <3>3. worker' \in WorkerStates
      BY <2>13, StartWorkerType DEF Restart
    <3>4. tainted' \in BOOLEAN
      BY <2>13 DEF Restart
    <3>5. QED
      BY <2>13, <3>1, <3>2, <3>3, <3>4 DEF Restart
  <2>14. CASE UNCHANGED vars
    BY <2>14
  <2>15. QED
    BY <2>1, <2>2, <2>3, <2>4, <2>5, <2>6, <2>7, <2>8, <2>9, <2>10, <2>11,
       <2>12, <2>13, <2>14
    DEF Next, Request, Destroy, WorkerStep, Surroundings
<1>3. QED
  BY <1>1, <1>2, PTL DEF Spec

-----------------------------------------------------------------------------
\* FloorFollowsDecision is inductive once it is known that BoostAll leaves no
\* node behind when it returns.
FloorInv ==
  /\ worker # "applying" => pending = {}
  /\ FloorFollowsDecision

\* Outside BoostAll every node whose writes succeed has the floor the worker
\* decided on, and inside it every node already visited.
THEOREM FloorSafe == Spec => []FloorFollowsDecision
<1>1. Init => FloorInv
  <2> SUFFICES ASSUME Init
               PROVE  FloorInv
    OBVIOUS
  <2>1. \A d \in booster_list : min_freq[d] = initial_min[d]
    BY DEF Init
  <2>2. QED
    BY <2>1 DEF Init, FloorInv, FloorFollowsDecision, Target
<1>2. TypeOK /\ FloorInv /\ [Next]_vars => FloorInv'
  <2> SUFFICES ASSUME TypeOK, FloorInv, [Next]_vars
               PROVE  FloorInv'
    OBVIOUS
  <2> USE DEF FloorInv, FloorFollowsDecision, Target
  <2>1. ASSUME NEW t \in Timeouts, BoostFor(t)
        PROVE  FloorInv'
    BY <2>1 DEF BoostFor, Notify, MutexFree
  <2>2. ASSUME NEW en \in BOOLEAN, BoostEn(en)
        PROVE  FloorInv'
    BY <2>2 DEF BoostEn, Notify, MutexFree
  <2>3. CASE SetExit
    BY <2>3 DEF SetExit
  <2>4. CASE NotifyExit
    BY <2>4 DEF NotifyExit, Notify
  <2>5. CASE Join
    BY <2>5 DEF Join
  <2>6. CASE StartWait
    BY <2>6 DEF StartWait
  <2>7. CASE WaitExpires
    BY <2>7 DEF WaitExpires
  <2>8. CASE Process
    <3>1. CASE BoostActive = boosted
      BY <2>8, <3>1 DEF Process
    <3>2. CASE BoostActive # boosted
      BY <2>8, <3>2 DEF Process
    <3>3. QED
      BY <3>1, <3>2
  <2>9. CASE Exit
    BY <2>9 DEF Exit
  <2>10. ASSUME NEW d \in DevFreqs, BoostNode(d)
         PROVE  FloorInv'
    <3>1. pending' = pending \ {d} /\ (worker' # "applying" => pending' = {})
      BY <2>10 DEF BoostNode
    <3>2. UNCHANGED <<booster_list, boosted, initial_min>>
      BY <2>10 DEF BoostNode
    <3>3. ASSUME NEW e \in booster_list, e \notin pending', e \notin Flaky
          PROVE  min_freq'[e] = Target(e)
      <4>1. CASE e = d
        BY <2>10, <3>3, <4>1 DEF BoostNode, TypeOK
      <4>2. CASE e # d
        BY <2>10, <3>1, <3>3, <4>2 DEF BoostNode, TypeOK
      <4>3. QED
        BY <4>1, <4>2
    <3>4. QED
      BY <3>1, <3>2, <3>3
  <2>11. CASE Tick
    BY <2>11 DEF Tick
  <2>12. CASE SpuriousWakeup
    BY <2>12 DEF SpuriousWakeup
  <2>13. ASSUME NEW usable \in SUBSET DevFreqs, Restart(usable)
         PROVE  FloorInv'
    BY <2>13, StartWorkerType DEF Restart
  <2>14. CASE UNCHANGED vars
    BY <2>14
  <2>15. QED
    BY <2>1, <2>2, <2>3, <2>4, <2>5, <2>6, <2>7, <2>8, <2>9, <2>10, <2>11,
       <2>12, <2>13, <2>14
    DEF Next, Request, Destroy, WorkerStep, Surroundings
<1>3. FloorInv => FloorFollowsDecision
  BY DEF FloorInv
<1>4. QED
  BY <1>1, <1>2, <1>3, TypeCorrect, PTL DEF Spec

\* The constructor reads a raised floor as the initial one only when the service
\* comes up while a floor is raised.
UntaintedInv == ~tainted => \A d \in DevFreqs : initial_min[d] = Low

\* Unless the service was restarted under a raised floor, a finished drop leaves
\* every node whose writes succeed at the floor the kernel gave it.
THEOREM FloorReleasedHolds == Spec => []FloorReleased
<1>1. Init => UntaintedInv
  BY DEF Init, UntaintedInv
<1>2. TypeOK /\ UntaintedInv /\ [Next]_vars => UntaintedInv'
  <2> SUFFICES ASSUME TypeOK, UntaintedInv, [Next]_vars
               PROVE  UntaintedInv'
    OBVIOUS
  <2> USE DEF UntaintedInv
  <2>1. ASSUME NEW usable \in SUBSET DevFreqs, Restart(usable)
        PROVE  UntaintedInv'
    <3>1. initial_min' = min_freq
          /\ (~tainted' => \A d \in DevFreqs : min_freq[d] # High)
      BY <2>1 DEF Restart
    <3>2. QED
      BY <3>1 DEF TypeOK
  <2>2. CASE UNCHANGED <<initial_min, tainted>>
    BY <2>2
  <2>3. QED
    BY <2>1, <2>2
    DEF Next, Request, Destroy, WorkerStep, Surroundings, BoostFor, BoostEn,
        SetExit, NotifyExit, Join, StartWait, WaitExpires, Process, Exit,
        BoostNode, Tick, SpuriousWakeup
<1>3. TypeOK /\ FloorFollowsDecision /\ UntaintedInv => FloorReleased
  BY DEF TypeOK, FloorFollowsDecision, UntaintedInv, FloorReleased, Target
<1>4. QED
  BY <1>1, <1>2, <1>3, TypeCorrect, FloorSafe, PTL DEF Spec

-----------------------------------------------------------------------------
\* What the worker knows when it goes back to sleep.  ParkedInStep speaks of the
\* sleeping worker only; what makes it inductive is that the same holds from the
\* end of a pass on, and that a destructor has set the flag before it notifies.
ParkInv ==
  /\ owner # "alive" => exit
  /\ worker = "none" => ~boosted
  /\ worker \in {"unlocked", "applying", "waiting"} /\ missed = {}
       => /\ boosted <=> (boost_en \/ wakeup_pt # Never)
          /\ boost_en => wakeup_pt = Never
          /\ owner # "joining"
  /\ worker \in {"unlocked", "applying", "waiting"} /\ boosted /\ wakeup_pt = Never
       => boost_en \/ "off" \in missed
  /\ wakeup_pt # Never => boosted /\ wakeup_pt <= boost_end

\* The worker's invariant holds of the engine.
LEMMA ParkInvHolds == Spec => []ParkInv
<1>1. Init => ParkInv
  BY StartWorkerType DEF Init, ParkInv
<1>2. TypeOK /\ ParkInv /\ [Next]_vars => ParkInv'
  <2> SUFFICES ASSUME TypeOK, ParkInv, [Next]_vars
               PROVE  ParkInv'
    OBVIOUS
  <2> USE DEF TypeOK, ParkInv
  <2>1. ASSUME NEW t \in Timeouts, BoostFor(t)
        PROVE  ParkInv'
    <3>1. CASE boost_end < Deadline(t)
      <4>1. boost_end' = Deadline(t) /\ Deadline(t) \in 0 .. Horizon
        BY <2>1, <3>1 DEF BoostFor, Deadline
      <4>2. QED
        BY <2>1, <3>1, <4>1 DEF BoostFor, Notify, MutexFree
    <3>2. CASE ~(boost_end < Deadline(t))
      BY <2>1, <3>2 DEF BoostFor
    <3>3. QED
      BY <3>1, <3>2
  <2>2. ASSUME NEW en \in BOOLEAN, BoostEn(en)
        PROVE  ParkInv'
    BY <2>2 DEF BoostEn, Notify, MutexFree
  <2>3. CASE SetExit
    BY <2>3 DEF SetExit
  <2>4. CASE NotifyExit
    BY <2>4 DEF NotifyExit, Notify
  <2>5. CASE Join
    BY <2>5 DEF Join
  <2>6. CASE StartWait
    BY <2>6 DEF StartWait
  <2>7. CASE WaitExpires
    BY <2>7 DEF WaitExpires
  <2>8. CASE Process
    <3>1. owner = "alive"
      BY <2>8 DEF Process
    <3>2. boost_end # Never
      OBVIOUS
    <3>3. boosted' <=> (boost_en' \/ wakeup_pt' # Never)
      BY <2>8, <3>2 DEF Process, BoostActive
    <3>4. QED
      BY <2>8, <3>1, <3>3 DEF Process, BoostActive
  <2>9. CASE Exit
    BY <2>9 DEF Exit
  <2>10. ASSUME NEW d \in DevFreqs, BoostNode(d)
         PROVE  ParkInv'
    BY <2>10 DEF BoostNode
  <2>11. CASE Tick
    BY <2>11 DEF Tick
  <2>12. CASE SpuriousWakeup
    BY <2>12 DEF SpuriousWakeup
  <2>13. ASSUME NEW usable \in SUBSET DevFreqs, Restart(usable)
         PROVE  ParkInv'
    BY <2>13, StartWorkerType DEF Restart
  <2>14. CASE UNCHANGED vars
    BY <2>14
  <2>15. QED
    BY <2>1, <2>2, <2>3, <2>4, <2>5, <2>6, <2>7, <2>8, <2>9, <2>10, <2>11,
       <2>12, <2>13, <2>14
    DEF Next, Request, Destroy, WorkerStep, Surroundings
<1>3. QED
  BY <1>1, <1>2, TypeCorrect, PTL DEF Spec

\* The worker sleeps out of step with the requests only after a notification
\* that was given while it was outside wait_until.
THEOREM ParkedInStepHolds == Spec => []ParkedInStep
<1>1. ParkInv => ParkedInStep
  BY DEF ParkInv, ParkedInStep
<1>2. QED
  BY <1>1, ParkInvHolds, PTL

\* A boost is without an alarm only under the switch, or after a BoostEn(false) that
\* nobody heard; an alarm rings no later than the deadline in force.
THEOREM AlarmArmedHolds == Spec => []AlarmArmed
<1>1. TypeOK /\ ParkInv => AlarmArmed
  BY DEF TypeOK, WorkerStates, ParkInv, AlarmArmed
<1>2. QED
  BY <1>1, TypeCorrect, ParkInvHolds, PTL

-----------------------------------------------------------------------------
\* boost_end_ is the latest deadline asked for, so the single time point the
\* code keeps stands for the whole set of requests.
AskedInv ==
  /\ \A d \in asked : d <= boost_end
  /\ boost_end \in asked \union {0}

\* BoostFor keeps in boost_end the latest of the deadlines asked for.
LEMMA AskedInvHolds == Spec => []AskedInv
<1>1. Init => AskedInv
  BY DEF Init, AskedInv
<1>2. TypeOK /\ AskedInv /\ [Next]_vars => AskedInv'
  <2> SUFFICES ASSUME TypeOK, AskedInv, [Next]_vars
               PROVE  AskedInv'
    OBVIOUS
  <2> USE DEF TypeOK, AskedInv
  <2>1. ASSUME NEW t \in Timeouts, BoostFor(t)
        PROVE  AskedInv'
    <3>1. Deadline(t) \in 0 .. Horizon /\ asked' = asked \union {Deadline(t)}
      BY <2>1 DEF BoostFor, Deadline
    <3>2. boost_end' = IF boost_end < Deadline(t) THEN Deadline(t) ELSE boost_end
      BY <2>1, <3>1 DEF BoostFor
    <3>3. QED
      BY <3>1, <3>2
  <2>2. ASSUME NEW usable \in SUBSET DevFreqs, Restart(usable)
        PROVE  AskedInv'
    BY <2>2 DEF Restart
  <2>3. CASE UNCHANGED <<asked, boost_end>>
    BY <2>3
  <2>4. QED
    BY <2>1, <2>2, <2>3
    DEF Next, Request, Destroy, WorkerStep, Surroundings, BoostEn, SetExit,
        NotifyExit, Join, StartWait, WaitExpires, Process, Exit, BoostNode,
        Tick, SpuriousWakeup
<1>3. QED
  BY <1>1, <1>2, TypeCorrect, PTL DEF Spec

\* The engine implements BoostPolicy: every step of the code raises or drops the
\* floor as the requests want it, or leaves the policy's state alone.
THEOREM ImplementsPolicy == Spec => PolicySpec
<1> USE DEF Policy!vars, Policy!Next
<1>1. Init => Policy!Init
  BY DEF Init, Policy!Init
<1>2. TypeOK /\ AskedInv /\ [Next]_vars => [Policy!Next]_(Policy!vars)
  <2> SUFFICES ASSUME TypeOK, AskedInv, [Next]_vars
               PROVE  Policy!Next \/ UNCHANGED Policy!vars
    OBVIOUS
  <2>1. ASSUME NEW t \in Timeouts, BoostFor(t)
        PROVE  Policy!AskUntil
    <3>1. Deadline(t) \in 0 .. Horizon /\ Deadline(t) > now
      BY <2>1 DEF BoostFor, Deadline, TypeOK
    <3>2. asked' = asked \union {Deadline(t)}
      BY <2>1 DEF BoostFor
    <3>3. UNCHANGED <<boost_en, boosted, now>>
      BY <2>1 DEF BoostFor
    <3>4. QED
      BY <3>1, <3>2, <3>3 DEF Policy!AskUntil
  <2>2. ASSUME NEW en \in BOOLEAN, BoostEn(en)
        PROVE  Policy!Switch
    BY <2>2 DEF BoostEn, Policy!Switch
  <2>3. CASE Process
    <3>1. BoostActive <=> Policy!Wanted
      BY DEF BoostActive, Policy!Wanted, TypeOK, AskedInv
    <3>2. boosted' = BoostActive /\ UNCHANGED <<asked, boost_en, now>>
      BY <2>3 DEF Process
    <3>3. CASE BoostActive /\ ~boosted
      BY <3>1, <3>2, <3>3 DEF Policy!Raise
    <3>4. CASE ~BoostActive /\ boosted
      BY <3>1, <3>2, <3>4 DEF Policy!Drop, BoostActive
    <3>5. CASE BoostActive <=> boosted
      BY <3>2, <3>5 DEF BoostActive, TypeOK
    <3>6. QED
      BY <3>3, <3>4, <3>5
  <2>4. CASE Tick
    BY <2>4 DEF Tick, Policy!Tick
  <2>5. ASSUME NEW usable \in SUBSET DevFreqs, Restart(usable)
        PROVE  Policy!Restart
    BY <2>5 DEF Restart, Policy!Restart
  <2>6. CASE \/ SetExit \/ NotifyExit \/ Join \/ StartWait \/ WaitExpires
             \/ Exit \/ SpuriousWakeup \/ UNCHANGED vars
             \/ \E d \in DevFreqs : BoostNode(d)
    BY <2>6 DEF SetExit, NotifyExit, Join, StartWait, WaitExpires, Exit,
                BoostNode, SpuriousWakeup
  <2>7. QED
    BY <2>1, <2>2, <2>3, <2>4, <2>5, <2>6
    DEF Next, Request, Destroy, WorkerStep, Surroundings
<1>3. QED
  BY <1>1, <1>2, TypeCorrect, AskedInvHolds, PTL
  DEF Spec, PolicySpec, Policy!Spec

=============================================================================
