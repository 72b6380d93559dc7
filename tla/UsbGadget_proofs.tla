-------------------------- MODULE UsbGadget_proofs --------------------------
(***************************************************************************)
(* Safety of the USB gadget HAL for any set of requests and any number of   *)
(* restarts.  The properties relate what a request left behind to what the  *)
(* monitor thread, reset() and later requests do with it, so the invariant  *)
(* follows a configuration from its tear-down to its last pull-up.          *)
(***************************************************************************)
EXTENDS UsbGadget, TLAPS

\* Whoever may pull the gadget up finds it whole.
Configured ==
  "unlink" \notin tainted
      /\ (pulledUp \/ pc = "resetDown" \/ (monitor # "off" /\ pc # "stopMonitor"))
    => linked \in Supported /\ ids = linked

\* From a tear-down to the set-up nothing is linked and nobody pulls up.
TornDown ==
  /\ pc \in {"stopMonitor", "disconnect", "setUp"} => linked = {} /\ ~pulledUp
  /\ pc \in {"disconnect", "setUp"} => monitor = "off"
  /\ pc = "setUp" => host = {}
  /\ pc \in {"stopMonitor", "disconnect", "setUp", "pullUpWait"} => "unlink" \notin tainted
  /\ pc \notin {"idle", "resetDown"} => "reset" \notin tainted

\* What the host saw last is what may come back without a disconnect.
HostView ==
  "unlink" \notin tainted
    => /\ pulledUp => host = linked
       /\ linked # {} => host \in {{}, linked}

\* The monitor watches the functions of the record, and has them up when it
\* believes so.
MonitorView ==
  monitor # "off" /\ "unlink" \notin tainted /\ pc \notin {"tearDown", "stopMonitor"}
    => /\ linked = functions
       /\ monitor \in {"raised", "up"} /\ controller /\ "reset" \notin tainted => pulledUp

\* The field says "applied" of the functions beside it, and says it early in a
\* request only when the old monitor came late.
RecordView ==
  /\ applied /\ pc \in {"tearDown", "stopMonitor", "disconnect", "setUp"}
       => "late" \in tainted
  /\ applied /\ "unset" \notin tainted /\ "unlink" \notin tainted /\ "late" \notin tainted
    => /\ linked = functions
       /\ controller /\ "reset" \notin tainted => pulledUp \/ monitor = "lowered"

UsbInv ==
  UsbTypeOK /\ Configured /\ TornDown /\ HostView /\ MonitorView /\ RecordView

-----------------------------------------------------------------------------
\* Every request, callback and restart keeps the types.
LEMMA TypeStep ==
  ASSUME UsbTypeOK, [UsbNext]_vars
  PROVE  UsbTypeOK'
<1> USE UsbAssumption
<1>1. ASSUME NEW fs \in Requested, NEW with_callback \in BOOLEAN,
             SetCurrentUsbFunctions(fs, with_callback)
      PROVE  UsbTypeOK'
  BY <1>1 DEF SetCurrentUsbFunctions, record, gadget, UsbTypeOK, Taints
<1>2. CASE TearDownGadget
  BY <1>2 DEF TearDownGadget, Answer, record, gadget, UsbTypeOK, Taints
<1>3. CASE StopMonitor
  BY <1>3 DEF StopMonitor, record, gadget, UsbTypeOK, Taints
<1>4. CASE DisconnectWait
  BY <1>4 DEF DisconnectWait, record, gadget, UsbTypeOK, Taints
<1>5. CASE pc = "setUp" /\ NoneRequested /\ UNCHANGED <<tainted, controller, callback, restarts>>
  BY <1>5 DEF NoneRequested, Answer, record, gadget, UsbTypeOK, Taints
<1>6. CASE pc = "setUp" /\ NotSupported /\ UNCHANGED <<tainted, controller, callback, restarts>>
  BY <1>6 DEF NotSupported, Answer, record, gadget, UsbTypeOK, Taints
<1>7. CASE pc = "setUp" /\ SetUpFails /\ UNCHANGED <<tainted, controller, callback, restarts>>
  BY <1>7 DEF SetUpFails, Answer, record, gadget, UsbTypeOK, Taints
<1>8. CASE /\ pc = "setUp" /\ SetUpAtOnce /\ tainted' = tainted \ {"late"}
          /\ UNCHANGED <<controller, callback, restarts>>
  BY <1>8 DEF SetUpAtOnce, LinkAll, PullUp, Answer, record, gadget, UsbTypeOK, Taints
<1>9. CASE pc = "setUp" /\ StartMonitor /\ UNCHANGED <<tainted, controller, callback, restarts>>
  BY <1>9 DEF StartMonitor, LinkAll, record, gadget, UsbTypeOK, Taints
<1>10. CASE EndPullUpWait
  BY <1>10 DEF EndPullUpWait, Answer, record, gadget, UsbTypeOK, Taints
<1>11. ASSUME NEW with_callback \in BOOLEAN, Reset(with_callback)
       PROVE  UsbTypeOK'
  BY <1>11 DEF Reset, record, gadget, UsbTypeOK, Taints
<1>12. CASE EndReset
  BY <1>12 DEF EndReset, CanPullUp, PullUp, Answer, record, gadget, UsbTypeOK, Taints
<1>13. CASE MonitorRaises
  BY <1>13 DEF MonitorRaises, CanPullUp, PullUp, record, gadget, UsbTypeOK, Taints
<1>14. CASE MonitorLowers
  BY <1>14 DEF MonitorLowers, record, gadget, UsbTypeOK, Taints
<1>15. CASE CurrentFunctionsAppliedCallback
  BY <1>15 DEF CurrentFunctionsAppliedCallback, record, gadget, UsbTypeOK, Taints
<1>16. CASE Restart
  <2>1. functions' \in SUBSET Functions
    BY <1>16 DEF Restart, Construct
  <2>2. tainted' \in SUBSET Taints
    BY <1>16 DEF Restart, Taints
  <2>3. restarts' \in 0 .. MaxRestarts
    BY <1>16 DEF Restart, UsbTypeOK
  <2>4. QED
    BY <1>16, <2>1, <2>2, <2>3 DEF Restart, Construct, gadget, UsbTypeOK
<1>17. CASE UNCHANGED vars
  BY <1>17 DEF vars, record, gadget, UsbTypeOK, Taints
<1>18. QED
  BY <1>1, <1>2, <1>3, <1>4, <1>5, <1>6, <1>7, <1>8, <1>9, <1>10,
     <1>11, <1>12, <1>13, <1>14, <1>15, <1>16, <1>17
  DEF UsbNext, BinderStep, SetupFunctions

\* One step per action, and under it one per part of the invariant.
LEMMA InvStep ==
  ASSUME UsbInv, [UsbNext]_vars
  PROVE  UsbInv'
<1> USE UsbAssumption DEF UsbInv
<1>t. UsbTypeOK'
  BY TypeStep
<1>1. ASSUME NEW fs \in Requested, NEW with_callback \in BOOLEAN,
             SetCurrentUsbFunctions(fs, with_callback)
      PROVE  UsbInv'
  <2>1. Configured'
    BY <1>1 DEF UsbTypeOK, Configured, TornDown,
       SetCurrentUsbFunctions, record, gadget
  <2>2. TornDown'
    BY <1>1 DEF UsbTypeOK, TornDown,
       SetCurrentUsbFunctions, record, gadget
  <2>3. HostView'
    BY <1>1 DEF UsbTypeOK, HostView, TornDown,
       SetCurrentUsbFunctions, record, gadget
  <2>4. MonitorView'
    BY <1>1 DEF UsbTypeOK, MonitorView, TornDown,
       SetCurrentUsbFunctions, record, gadget
  <2>5. RecordView'
    BY <1>1 DEF UsbTypeOK, RecordView, MonitorView, TornDown,
       SetCurrentUsbFunctions, record, gadget
  <2>6. QED
    BY <1>t, <2>1, <2>2, <2>3, <2>4, <2>5
<1>2. CASE TearDownGadget
  <2>1. Configured'
    BY <1>2 DEF UsbTypeOK, Configured, TornDown,
       TearDownGadget, Answer, record, gadget
  <2>2. TornDown'
    BY <1>2 DEF UsbTypeOK, TornDown,
       TearDownGadget, Answer, record, gadget
  <2>3. HostView'
    BY <1>2 DEF UsbTypeOK, HostView, TornDown,
       TearDownGadget, Answer, record, gadget
  <2>4. MonitorView'
    BY <1>2 DEF UsbTypeOK, MonitorView, TornDown,
       TearDownGadget, Answer, record, gadget
  <2>5. RecordView'
    BY <1>2 DEF UsbTypeOK, RecordView, MonitorView, TornDown,
       TearDownGadget, Answer, record, gadget
  <2>6. QED
    BY <1>t, <2>1, <2>2, <2>3, <2>4, <2>5
<1>3. CASE StopMonitor
  <2>1. Configured'
    BY <1>3 DEF UsbTypeOK, Configured, TornDown,
       StopMonitor, record, gadget
  <2>2. TornDown'
    BY <1>3 DEF UsbTypeOK, TornDown,
       StopMonitor, record, gadget
  <2>3. HostView'
    BY <1>3 DEF UsbTypeOK, HostView, TornDown,
       StopMonitor, record, gadget
  <2>4. MonitorView'
    BY <1>3 DEF UsbTypeOK, MonitorView, TornDown,
       StopMonitor, record, gadget
  <2>5. RecordView'
    BY <1>3 DEF UsbTypeOK, RecordView, MonitorView, TornDown,
       StopMonitor, record, gadget
  <2>6. QED
    BY <1>t, <2>1, <2>2, <2>3, <2>4, <2>5
<1>4. CASE DisconnectWait
  <2>1. Configured'
    BY <1>4 DEF UsbTypeOK, Configured, TornDown,
       DisconnectWait, record, gadget
  <2>2. TornDown'
    BY <1>4 DEF UsbTypeOK, TornDown,
       DisconnectWait, record, gadget
  <2>3. HostView'
    BY <1>4 DEF UsbTypeOK, HostView, TornDown,
       DisconnectWait, record, gadget
  <2>4. MonitorView'
    BY <1>4 DEF UsbTypeOK, MonitorView, TornDown,
       DisconnectWait, record, gadget
  <2>5. RecordView'
    BY <1>4 DEF UsbTypeOK, RecordView, MonitorView, TornDown,
       DisconnectWait, record, gadget
  <2>6. QED
    BY <1>t, <2>1, <2>2, <2>3, <2>4, <2>5
<1>5. CASE pc = "setUp" /\ NoneRequested /\ UNCHANGED <<tainted, controller, callback, restarts>>
  <2>1. Configured'
    BY <1>5 DEF UsbTypeOK, Configured, TornDown,
       NoneRequested, Answer, record, gadget
  <2>2. TornDown'
    BY <1>5 DEF UsbTypeOK, TornDown,
       NoneRequested, Answer, record, gadget
  <2>3. HostView'
    BY <1>5 DEF UsbTypeOK, HostView, TornDown,
       NoneRequested, Answer, record, gadget
  <2>4. MonitorView'
    BY <1>5 DEF UsbTypeOK, MonitorView, TornDown,
       NoneRequested, Answer, record, gadget
  <2>5. RecordView'
    BY <1>5 DEF UsbTypeOK, RecordView, MonitorView, TornDown,
       NoneRequested, Answer, record, gadget
  <2>6. QED
    BY <1>t, <2>1, <2>2, <2>3, <2>4, <2>5
<1>6. CASE pc = "setUp" /\ NotSupported /\ UNCHANGED <<tainted, controller, callback, restarts>>
  <2>1. Configured'
    BY <1>6 DEF UsbTypeOK, Configured, TornDown,
       NotSupported, Answer, record, gadget
  <2>2. TornDown'
    BY <1>6 DEF UsbTypeOK, TornDown,
       NotSupported, Answer, record, gadget
  <2>3. HostView'
    BY <1>6 DEF UsbTypeOK, HostView, TornDown,
       NotSupported, Answer, record, gadget
  <2>4. MonitorView'
    BY <1>6 DEF UsbTypeOK, MonitorView, TornDown,
       NotSupported, Answer, record, gadget
  <2>5. RecordView'
    BY <1>6 DEF UsbTypeOK, RecordView, MonitorView, TornDown,
       NotSupported, Answer, record, gadget
  <2>6. QED
    BY <1>t, <2>1, <2>2, <2>3, <2>4, <2>5
<1>7. CASE pc = "setUp" /\ SetUpFails /\ UNCHANGED <<tainted, controller, callback, restarts>>
  <2>1. Configured'
    BY <1>7 DEF UsbTypeOK, Configured, TornDown,
       SetUpFails, Answer, record, gadget
  <2>2. TornDown'
    BY <1>7 DEF UsbTypeOK, TornDown,
       SetUpFails, Answer, record, gadget
  <2>3. HostView'
    BY <1>7 DEF UsbTypeOK, HostView, TornDown,
       SetUpFails, Answer, record, gadget
  <2>4. MonitorView'
    BY <1>7 DEF UsbTypeOK, MonitorView, TornDown,
       SetUpFails, Answer, record, gadget
  <2>5. RecordView'
    BY <1>7 DEF UsbTypeOK, RecordView, MonitorView, TornDown,
       SetUpFails, Answer, record, gadget
  <2>6. QED
    BY <1>t, <2>1, <2>2, <2>3, <2>4, <2>5
<1>8. CASE /\ pc = "setUp" /\ SetUpAtOnce /\ tainted' = tainted \ {"late"}
          /\ UNCHANGED <<controller, callback, restarts>>
  <2>1. Configured'
    BY <1>8 DEF UsbTypeOK, Configured, TornDown,
       SetUpAtOnce, LinkAll, PullUp, Answer, record, gadget
  <2>2. TornDown'
    BY <1>8 DEF UsbTypeOK, TornDown,
       SetUpAtOnce, LinkAll, PullUp, Answer, record, gadget
  <2>3. HostView'
    BY <1>8 DEF UsbTypeOK, HostView, TornDown,
       SetUpAtOnce, LinkAll, PullUp, Answer, record, gadget
  <2>4. MonitorView'
    BY <1>8 DEF UsbTypeOK, MonitorView, TornDown,
       SetUpAtOnce, LinkAll, PullUp, Answer, record, gadget
  <2>5. RecordView'
    BY <1>8 DEF UsbTypeOK, RecordView, MonitorView, TornDown,
       SetUpAtOnce, LinkAll, PullUp, Answer, record, gadget
  <2>6. QED
    BY <1>t, <2>1, <2>2, <2>3, <2>4, <2>5
<1>9. CASE pc = "setUp" /\ StartMonitor /\ UNCHANGED <<tainted, controller, callback, restarts>>
  <2>1. Configured'
    BY <1>9 DEF UsbTypeOK, Configured, TornDown,
       StartMonitor, LinkAll, record, gadget
  <2>2. TornDown'
    BY <1>9 DEF UsbTypeOK, TornDown,
       StartMonitor, LinkAll, record, gadget
  <2>3. HostView'
    BY <1>9 DEF UsbTypeOK, HostView, TornDown,
       StartMonitor, LinkAll, record, gadget
  <2>4. MonitorView'
    BY <1>9 DEF UsbTypeOK, MonitorView, TornDown,
       StartMonitor, LinkAll, record, gadget
  <2>5. RecordView'
    BY <1>9 DEF UsbTypeOK, RecordView, MonitorView, TornDown,
       StartMonitor, LinkAll, record, gadget
  <2>6. QED
    BY <1>t, <2>1, <2>2, <2>3, <2>4, <2>5
<1>10. CASE EndPullUpWait
  <2>1. Configured'
    BY <1>10 DEF UsbTypeOK, Configured, TornDown,
       EndPullUpWait, Answer, record, gadget
  <2>2. TornDown'
    BY <1>10 DEF UsbTypeOK, TornDown,
       EndPullUpWait, Answer, record, gadget
  <2>3. HostView'
    BY <1>10 DEF UsbTypeOK, HostView, TornDown,
       EndPullUpWait, Answer, record, gadget
  <2>4. MonitorView'
    BY <1>10 DEF UsbTypeOK, MonitorView, TornDown,
       EndPullUpWait, Answer, record, gadget
  <2>5. RecordView'
    BY <1>10 DEF UsbTypeOK, RecordView, MonitorView, TornDown,
       EndPullUpWait, Answer, record, gadget
  <2>6. QED
    BY <1>t, <2>1, <2>2, <2>3, <2>4, <2>5
<1>11. ASSUME NEW with_callback \in BOOLEAN, Reset(with_callback)
       PROVE  UsbInv'
  <2>1. Configured'
    BY <1>11 DEF UsbTypeOK, Configured, TornDown,
       Reset, record, gadget
  <2>2. TornDown'
    BY <1>11 DEF UsbTypeOK, TornDown,
       Reset, record, gadget
  <2>3. HostView'
    BY <1>11 DEF UsbTypeOK, HostView, TornDown,
       Reset, record, gadget
  <2>4. MonitorView'
    BY <1>11 DEF UsbTypeOK, MonitorView, TornDown,
       Reset, record, gadget
  <2>5. RecordView'
    BY <1>11 DEF UsbTypeOK, RecordView, MonitorView, TornDown,
       Reset, record, gadget
  <2>6. QED
    BY <1>t, <2>1, <2>2, <2>3, <2>4, <2>5
<1>12. CASE EndReset
  <2>1. Configured'
    BY <1>12 DEF UsbTypeOK, Configured, TornDown,
       EndReset, CanPullUp, PullUp, Answer, record, gadget
  <2>2. TornDown'
    BY <1>12 DEF UsbTypeOK, TornDown,
       EndReset, CanPullUp, PullUp, Answer, record, gadget
  <2>3. HostView'
    BY <1>12 DEF UsbTypeOK, HostView, TornDown,
       EndReset, CanPullUp, PullUp, Answer, record, gadget
  <2>4. MonitorView'
    BY <1>12 DEF UsbTypeOK, MonitorView, TornDown,
       EndReset, CanPullUp, PullUp, Answer, record, gadget
  <2>5. RecordView'
    BY <1>12 DEF UsbTypeOK, RecordView, MonitorView, TornDown,
       EndReset, CanPullUp, PullUp, Answer, record, gadget
  <2>6. QED
    BY <1>t, <2>1, <2>2, <2>3, <2>4, <2>5
<1>13. CASE MonitorRaises
  <2>1. Configured'
    BY <1>13 DEF UsbTypeOK, Configured, TornDown,
       MonitorRaises, CanPullUp, PullUp, record, gadget
  <2>2. TornDown'
    BY <1>13 DEF UsbTypeOK, TornDown,
       MonitorRaises, CanPullUp, PullUp, record, gadget
  <2>3. HostView'
    BY <1>13 DEF UsbTypeOK, HostView, TornDown,
       MonitorRaises, CanPullUp, PullUp, record, gadget
  <2>4. MonitorView'
    BY <1>13 DEF UsbTypeOK, MonitorView, TornDown,
       MonitorRaises, CanPullUp, PullUp, record, gadget
  <2>5. RecordView'
    BY <1>13 DEF UsbTypeOK, RecordView, MonitorView, TornDown,
       MonitorRaises, CanPullUp, PullUp, record, gadget
  <2>6. QED
    BY <1>t, <2>1, <2>2, <2>3, <2>4, <2>5
<1>14. CASE MonitorLowers
  <2>1. Configured'
    BY <1>14 DEF UsbTypeOK, Configured, TornDown,
       MonitorLowers, record, gadget
  <2>2. TornDown'
    BY <1>14 DEF UsbTypeOK, TornDown,
       MonitorLowers, record, gadget
  <2>3. HostView'
    BY <1>14 DEF UsbTypeOK, HostView, TornDown,
       MonitorLowers, record, gadget
  <2>4. MonitorView'
    BY <1>14 DEF UsbTypeOK, MonitorView, TornDown,
       MonitorLowers, record, gadget
  <2>5. RecordView'
    BY <1>14 DEF UsbTypeOK, RecordView, MonitorView, TornDown,
       MonitorLowers, record, gadget
  <2>6. QED
    BY <1>t, <2>1, <2>2, <2>3, <2>4, <2>5
<1>15. CASE CurrentFunctionsAppliedCallback
  <2>1. Configured'
    BY <1>15 DEF UsbTypeOK, Configured, TornDown,
       CurrentFunctionsAppliedCallback, record, gadget
  <2>2. TornDown'
    BY <1>15 DEF UsbTypeOK, TornDown,
       CurrentFunctionsAppliedCallback, record, gadget
  <2>3. HostView'
    BY <1>15 DEF UsbTypeOK, HostView, TornDown,
       CurrentFunctionsAppliedCallback, record, gadget
  <2>4. MonitorView'
    BY <1>15 DEF UsbTypeOK, MonitorView, TornDown,
       CurrentFunctionsAppliedCallback, record, gadget
  <2>5. RecordView'
    BY <1>15 DEF UsbTypeOK, RecordView, MonitorView, TornDown,
       CurrentFunctionsAppliedCallback, record, gadget
  <2>6. QED
    BY <1>t, <2>1, <2>2, <2>3, <2>4, <2>5
<1>16. CASE Restart
  <2>1. Configured'
    BY <1>16 DEF UsbTypeOK, Configured, TornDown,
       Restart, Construct, record, gadget
  <2>2. TornDown'
    BY <1>16 DEF UsbTypeOK, TornDown,
       Restart, Construct, record, gadget
  <2>3. HostView'
    BY <1>16 DEF UsbTypeOK, HostView, TornDown,
       Restart, Construct, record, gadget
  <2>4. MonitorView'
    BY <1>16 DEF UsbTypeOK, MonitorView, TornDown,
       Restart, Construct, record, gadget
  <2>5. RecordView'
    BY <1>16 DEF UsbTypeOK, RecordView, MonitorView, TornDown,
       Restart, Construct, record, gadget
  <2>6. QED
    BY <1>t, <2>1, <2>2, <2>3, <2>4, <2>5
<1>17. CASE UNCHANGED vars
  <2>1. Configured'
    BY <1>17 DEF UsbTypeOK, Configured, TornDown,
       vars, record, gadget
  <2>2. TornDown'
    BY <1>17 DEF UsbTypeOK, TornDown,
       vars, record, gadget
  <2>3. HostView'
    BY <1>17 DEF UsbTypeOK, HostView, TornDown,
       vars, record, gadget
  <2>4. MonitorView'
    BY <1>17 DEF UsbTypeOK, MonitorView, TornDown,
       vars, record, gadget
  <2>5. RecordView'
    BY <1>17 DEF UsbTypeOK, RecordView, MonitorView, TornDown,
       vars, record, gadget
  <2>6. QED
    BY <1>t, <2>1, <2>2, <2>3, <2>4, <2>5
<1>18. QED
  BY <1>1, <1>2, <1>3, <1>4, <1>5, <1>6, <1>7, <1>8, <1>9, <1>10,
     <1>11, <1>12, <1>13, <1>14, <1>15, <1>16, <1>17
  DEF UsbNext, BinderStep, SetupFunctions

\* The inductive invariant holds of every behaviour of the service.
THEOREM UsbInvariant == UsbSpec => []UsbInv
<1>1. UsbInit => UsbInv
  <2> SUFFICES ASSUME UsbInit
               PROVE  UsbInv
    OBVIOUS
  <2>1. UsbTypeOK
    <3>1. functions \in SUBSET Functions
      BY UsbAssumption DEF UsbInit
    <3>2. tainted \in SUBSET Taints
      BY DEF UsbInit, Taints
    <3>3. restarts \in 0 .. MaxRestarts
      BY UsbAssumption DEF UsbInit
    <3>4. QED
      BY <3>1, <3>2, <3>3 DEF UsbInit, UsbTypeOK
  <2>2. Configured /\ TornDown /\ HostView /\ MonitorView /\ RecordView
    BY DEF UsbInit, Configured, TornDown, HostView, MonitorView, RecordView
  <2>3. QED
    BY <2>1, <2>2 DEF UsbInv
<1>2. UsbInv /\ [UsbNext]_vars => UsbInv'
  BY InvStep
<1>3. QED
  BY <1>1, <1>2, PTL DEF UsbSpec

\* The state is well typed, and the wait for the monitor has a callback to make.
THEOREM UsbTypeCorrect == UsbSpec => []UsbTypeOK
BY UsbInvariant, PTL DEF UsbInv

\* The host never sees half a gadget, nor one under the ids of another, for any
\* requests, failures, resets and restarts.
THEOREM GadgetIsWhole == UsbSpec => []WholeGadget
<1>1. UsbInv => WholeGadget
  BY DEF UsbInv, Configured, WholeGadget
<1>2. QED
  BY <1>1, UsbInvariant, PTL

\* What getCurrentUsbFunctions() reports is what the gadget is, outside the
\* cases the property names.
THEOREM ReportHolds == UsbSpec => []ReportIsTrue
<1>1. UsbInv => ReportIsTrue
  BY DEF UsbInv, RecordView, ReportedStatus, ReportIsTrue
<1>2. QED
  BY <1>1, UsbInvariant, PTL

\* The functions never change under a host that has not sensed a disconnect.
THEOREM SwapHolds == UsbSpec => HostSensesSwap
<1> DEFINE Swap == ~pulledUp /\ pulledUp' /\ "unlink" \notin tainted
                     => host \in {{}, linked'}
<1>1. UsbInv /\ [UsbNext]_vars => [Swap]_vars
  <2> SUFFICES ASSUME UsbInv, UsbNext, ~pulledUp, pulledUp', "unlink" \notin tainted
               PROVE  host \in {{}, linked'}
    BY DEF UsbInv
  <2>1. CASE SetupFunctions
    BY <2>1 DEF SetupFunctions, NoneRequested, NotSupported, SetUpFails, SetUpAtOnce,
                StartMonitor, PullUp, gadget, UsbInv, TornDown, UsbTypeOK
  <2>2. CASE EndReset \/ MonitorRaises
    BY <2>2 DEF EndReset, MonitorRaises, CanPullUp, PullUp, UsbInv, HostView, UsbTypeOK
  <2>3. QED
    BY <2>1, <2>2
    DEF UsbNext, BinderStep, SetCurrentUsbFunctions, TearDownGadget, StopMonitor,
        DisconnectWait, EndPullUpWait, Reset, MonitorLowers,
        CurrentFunctionsAppliedCallback, Restart, gadget, UsbInv, UsbTypeOK
<1>2. QED
  BY <1>1, UsbInvariant, PTL DEF UsbSpec, HostSensesSwap

\* A SUCCESS given to a client is one the gadget bears out.
THEOREM SuccessHolds == UsbSpec => SuccessIsTrue
<1> DEFINE True == answer # "SUCCESS" /\ answer' = "SUCCESS" /\ functions # {} /\ controller
                     => pulledUp' /\ (pc # "resetDown" => linked' = functions)
<1>1. UsbInv /\ [UsbNext]_vars => [True]_vars
  <2> SUFFICES ASSUME UsbInv, UsbNext, answer # "SUCCESS", answer' = "SUCCESS",
                      functions # {}, controller
               PROVE  pulledUp' /\ (pc # "resetDown" => linked' = functions)
    BY DEF UsbInv
  <2>1. CASE SetupFunctions
    BY <2>1 DEF SetupFunctions, NoneRequested, NotSupported, SetUpFails, SetUpAtOnce,
                StartMonitor, LinkAll, PullUp, Answer
  <2>2. CASE EndPullUpWait
    BY <2>2 DEF EndPullUpWait, Answer, gadget, UsbInv, MonitorView, TornDown
  <2>3. CASE EndReset
    BY <2>3 DEF EndReset, PullUp, Answer
  <2>4. QED
    BY <2>1, <2>2, <2>3
    DEF UsbNext, BinderStep, SetCurrentUsbFunctions, TearDownGadget, StopMonitor,
        DisconnectWait, Answer, Reset, MonitorRaises, MonitorLowers,
        CurrentFunctionsAppliedCallback, Restart, Construct
<1>2. QED
  BY <1>1, UsbInvariant, PTL DEF UsbSpec, SuccessIsTrue
=============================================================================
