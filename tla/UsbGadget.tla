----------------------------- MODULE UsbGadget -----------------------------
(***************************************************************************)
(* The USB gadget HAL (struct UsbGadget).  One binder thread takes the      *)
(* requests; between startMonitor and MonitorFfs::reset the monitor thread  *)
(* of libusbconfigfs (external) runs beside it: it pulls the gadget up once *)
(* the daemons have written their descriptors, down when they die, and      *)
(* writes mCurrentUsbFunctionsApplied through the registered callback.      *)
(* The gadget itself lives in configfs and survives the service.            *)
(***************************************************************************)
EXTENDS Naturals

CONSTANTS Requested,   \* arguments of setCurrentUsbFunctions, {} being NONE
          MaxRestarts  \* bound: so many deaths of the service

Functions ==
  {"ADB", "MTP", "RNDIS", "PTP", "MIDI", "NCM", "ACCESSORY", "AUDIO_SOURCE"}

\* The functions a daemon serves through functionfs.
Ffs == {"ADB", "MTP", "PTP"}

\* The combinations that have a product id of their own.
Supported ==
  {{f} : f \in Functions} \union {{"ADB", f} : f \in Functions}
    \union {{"ACCESSORY", "AUDIO_SOURCE"}, {"ADB", "ACCESSORY", "AUDIO_SOURCE"}}

ASSUME UsbAssumption ==
  /\ Requested \subseteq SUBSET Functions
  /\ Requested # {}
  /\ MaxRestarts \in Nat

VARIABLES
  functions,  \* mCurrentUsbFunctions
  applied,    \* mCurrentUsbFunctionsApplied
  controller, \* sys.usb.controller was set when the service read it
  pc,         \* where the binder thread is
  callback,   \* the request at hand brought a callback
  answer,     \* the status the request was last answered with
  monitor,    \* the monitor thread; "raised" and "lowered": callback to come
  linked,     \* configfs: functions linked to the configuration
  ids,        \* configfs: the functions whose vendor and product id are set
  pulledUp,   \* configfs: the gadget is bound to its controller
  host,       \* history: functions the host last saw and has not seen leave
  tainted,    \* history: why the record may not describe the gadget
  restarts

record == <<functions, applied>>
gadget == <<linked, ids, pulledUp, host>>
vars == <<record, controller, pc, callback, answer, monitor, gadget, tainted, restarts>>

Taints == {"unset", "unlink", "late", "reset"}

\* The types of the state; only a request with a callback waits for the monitor.
UsbTypeOK ==
  /\ functions \in SUBSET Functions
  /\ applied \in BOOLEAN
  /\ controller \in BOOLEAN
  /\ pc \in {"idle", "tearDown", "stopMonitor", "disconnect", "setUp",
             "pullUpWait", "resetDown"}
  /\ callback \in BOOLEAN
  /\ pc = "pullUpWait" => callback
  /\ answer \in {"none", "SUCCESS", "ERROR", "CONFIGURATION_NOT_SUPPORTED"}
  /\ monitor \in {"off", "down", "raised", "up", "lowered"}
  /\ linked \in SUBSET Functions
  /\ ids \in SUBSET Functions
  /\ pulledUp \in BOOLEAN
  /\ host \in SUBSET Functions
  /\ tainted \in SUBSET Taints
  /\ restarts \in 0 .. MaxRestarts

\* The constructor leaves both fields of the record uninitialised.
Construct ==
  /\ functions' \in Requested
  /\ applied' \in BOOLEAN
  /\ controller' \in BOOLEAN
  /\ pc' = "idle"
  /\ callback' = FALSE
  /\ answer' = "none"
  /\ monitor' = "off"

UsbInit ==
  /\ functions \in Requested
  /\ applied \in BOOLEAN
  /\ controller \in BOOLEAN
  /\ pc = "idle"
  /\ callback = FALSE
  /\ answer = "none"
  /\ monitor = "off"
  /\ linked = {}
  /\ ids = {}
  /\ pulledUp = FALSE
  /\ host = {}
  /\ tainted = {"unset"}
  /\ restarts = 0

-----------------------------------------------------------------------------
\* Writing the controller's name binds a gadget that has functions and is not
\* bound yet.  Without a name nothing is written, which counts as success.
CanPullUp == controller => ~pulledUp /\ linked # {}

PullUp(functions_linked) ==
  /\ pulledUp' = (pulledUp \/ controller)
  /\ host' = IF controller THEN functions_linked ELSE host

Answer(status) ==
  /\ answer' = IF callback THEN status ELSE answer
  /\ pc' = "idle"

-----------------------------------------------------------------------------
SetCurrentUsbFunctions(fs, with_callback) ==
  /\ pc = "idle"
  /\ functions' = fs
  /\ applied' = FALSE
  /\ callback' = with_callback
  /\ answer' = "none"
  /\ pc' = "tearDown"
  /\ tainted' = tainted \intersect {"unlink"}
  /\ UNCHANGED <<controller, monitor, gadget, restarts>>

\* resetGadget() pulls down and unlinks; it may stop at any point of that, and
\* then the request fails with the monitor still running.
TearDownGadget ==
  /\ pc = "tearDown"
  /\ \/ /\ pulledUp' = FALSE
        /\ linked' = {}
        /\ pc' = IF monitor = "off" THEN "disconnect" ELSE "stopMonitor"
        /\ tainted' = tainted \ {"unlink"}
        /\ UNCHANGED answer
     \/ /\ pulledUp' \in {FALSE, pulledUp}
        /\ linked' \in SUBSET linked
        /\ tainted' = tainted \union {"unlink"}
        /\ Answer("ERROR")
  /\ UNCHANGED <<record, controller, callback, monitor, ids, host, restarts>>

\* Mutant: the monitor is left running.
StopMonitor_Forgets ==
  /\ pc = "stopMonitor"
  /\ pc' = "disconnect"
  /\ UNCHANGED <<record, controller, callback, answer, monitor, gadget, tainted, restarts>>

\* MonitorFfs::reset joins the thread, which first completes its callback.
StopMonitor ==
  /\ pc = "stopMonitor"
  /\ monitor \notin {"raised", "lowered"}
  /\ monitor' = "off"
  /\ pc' = "disconnect"
  /\ UNCHANGED <<record, controller, callback, answer, gadget, tainted, restarts>>

\* Mutant: the gadget is set up again at once.
DisconnectWait_Skipped ==
  /\ pc = "disconnect"
  /\ pc' = "setUp"
  /\ UNCHANGED <<record, controller, callback, answer, monitor, gadget, tainted, restarts>>

\* usleep(kDisconnectWaitUs): the host senses that a pulled down gadget left.
DisconnectWait ==
  /\ pc = "disconnect"
  /\ host' = IF pulledUp THEN host ELSE {}
  /\ pc' = "setUp"
  /\ UNCHANGED <<record, controller, callback, answer, monitor, linked, ids,
                 pulledUp, tainted, restarts>>

NoneRequested ==
  /\ functions = {}
  /\ Answer("SUCCESS")
  /\ UNCHANGED <<record, monitor, gadget>>

NotSupported ==
  /\ functions # {}
  /\ functions \notin Supported
  /\ Answer("CONFIGURATION_NOT_SUPPORTED")
  /\ UNCHANGED <<record, monitor, gadget>>

\* The ids or one of the links cannot be written, or the pull-up is refused:
\* what is there is left as it is.
SetUpFails ==
  /\ functions \in Supported
  /\ ids' \in {ids, functions}
  /\ linked' \in SUBSET functions
  /\ Answer("ERROR")
  /\ UNCHANGED <<record, monitor, pulledUp, host>>

\* Mutant: the adb link is not waited for.
LinkAll_NoAdb == linked' = functions \ {"ADB"}

LinkAll == linked' = functions

SetUpAtOnce ==
  /\ functions \in Supported
  /\ functions \intersect Ffs = {}
  /\ ids' = functions
  /\ LinkAll
  /\ PullUp(functions)
  /\ applied' = TRUE
  /\ Answer("SUCCESS")
  /\ UNCHANGED <<functions, monitor>>

StartMonitor ==
  /\ functions \in Supported
  /\ functions \intersect Ffs # {}
  /\ ids' = functions
  /\ LinkAll
  /\ monitor' = "down"
  /\ pc' = IF callback THEN "pullUpWait" ELSE "idle"
  /\ UNCHANGED <<record, answer, pulledUp, host>>

SetupFunctions ==
  /\ pc = "setUp"
  /\ \/ SetUpAtOnce /\ tainted' = tainted \ {"late"}
     \/ (NoneRequested \/ NotSupported \/ SetUpFails \/ StartMonitor) /\ UNCHANGED tainted
  /\ UNCHANGED <<controller, callback, restarts>>

\* Mutant: what waitForPullUp() returns is not looked at.
EndPullUpWait_Success ==
  /\ pc = "pullUpWait"
  /\ Answer("SUCCESS")
  /\ UNCHANGED <<record, controller, callback, monitor, gadget, tainted, restarts>>

\* waitForPullUp() returns: pulled up, or the timeout is over.
EndPullUpWait ==
  /\ pc = "pullUpWait"
  /\ Answer(IF monitor \in {"raised", "up"} THEN "SUCCESS" ELSE "ERROR")
  /\ UNCHANGED <<record, controller, callback, monitor, gadget, tainted, restarts>>

\* reset(): only a bound gadget can be pulled down.
Reset(with_callback) ==
  /\ pc = "idle"
  /\ callback' = with_callback
  /\ \/ /\ answer' = IF with_callback THEN "ERROR" ELSE "none"
        /\ UNCHANGED <<pc, pulledUp, tainted>>
     \/ /\ pulledUp
        /\ pulledUp' = FALSE
        /\ pc' = "resetDown"
        /\ answer' = "none"
        /\ tainted' = tainted \union {"reset"}
  /\ UNCHANGED <<record, controller, monitor, linked, ids, host, restarts>>

\* The end of reset()'s sleep, and the pull-up, which may fail.
EndReset ==
  /\ pc = "resetDown"
  /\ \/ /\ CanPullUp
        /\ PullUp(linked)
        /\ tainted' = IF controller THEN tainted \ {"reset"} ELSE tainted
        /\ Answer("SUCCESS")
     \/ /\ host' = IF pulledUp THEN host ELSE {}
        /\ Answer("ERROR")
        /\ UNCHANGED <<pulledUp, tainted>>
  /\ UNCHANGED <<record, controller, callback, monitor, linked, ids, restarts>>

-----------------------------------------------------------------------------
\* The monitor thread: the daemons' descriptors are there, or gone.
MonitorRaises ==
  /\ monitor = "down"
  /\ CanPullUp
  /\ PullUp(linked)
  /\ monitor' = "raised"
  /\ tainted' = IF controller THEN tainted \ {"reset"} ELSE tainted
  /\ UNCHANGED <<record, controller, pc, callback, answer, linked, ids, restarts>>

MonitorLowers ==
  /\ monitor = "up"
  /\ pulledUp' = FALSE
  /\ monitor' = "lowered"
  /\ UNCHANGED <<record, controller, pc, callback, answer, linked, ids, host, tainted, restarts>>

\* Mutant: the callback takes the lock of the requests.
CurrentFunctionsAppliedCallback_Locks ==
  /\ pc = "idle"
  /\ monitor \in {"raised", "lowered"}
  /\ applied' = (monitor = "raised")
  /\ monitor' = IF monitor = "raised" THEN "up" ELSE "down"
  /\ UNCHANGED <<functions, controller, pc, callback, answer, gadget, tainted, restarts>>

\* No lock: it may come after a request has cleared the field and before that
\* request has stopped the monitor, and then it stands for the old functions.
CurrentFunctionsAppliedCallback ==
  /\ monitor \in {"raised", "lowered"}
  /\ applied' = (monitor = "raised")
  /\ monitor' = IF monitor = "raised" THEN "up" ELSE "down"
  /\ tainted' = IF pc \in {"tearDown", "stopMonitor"} THEN tainted \union {"late"}
                ELSE tainted \ {"late"}
  /\ UNCHANGED <<functions, controller, pc, callback, answer, gadget, restarts>>

\* The service dies and init starts it again; the gadget stays as it was.
Restart ==
  /\ restarts < MaxRestarts
  /\ restarts' = restarts + 1
  /\ Construct
  /\ tainted' = (tainted \intersect {"unlink"}) \union {"unset"}
  /\ UNCHANGED gadget

BinderStep ==
  \/ TearDownGadget \/ StopMonitor \/ DisconnectWait \/ SetupFunctions
  \/ EndPullUpWait \/ EndReset

UsbNext ==
  \/ \E fs \in Requested, with_callback \in BOOLEAN : SetCurrentUsbFunctions(fs, with_callback)
  \/ \E with_callback \in BOOLEAN : Reset(with_callback)
  \/ BinderStep
  \/ MonitorRaises \/ MonitorLowers \/ CurrentFunctionsAppliedCallback
  \/ Restart

UsbSpec == UsbInit /\ [][UsbNext]_vars

\* A request's next step comes - a sleep or a wait has an end - and so does a
\* callback the monitor has begun.  The order to stop stands until the monitor
\* comes back from one event and looks at it, hence strong fairness.  No client
\* calls, no daemon lives or dies by obligation.
UsbFairSpec ==
  /\ UsbSpec
  /\ WF_vars(BinderStep)
  /\ SF_vars(StopMonitor)
  /\ WF_vars(CurrentFunctionsAppliedCallback)

-----------------------------------------------------------------------------
\* The status getCurrentUsbFunctions() reports beside mCurrentUsbFunctions.
ReportedStatus == IF applied THEN "FUNCTIONS_APPLIED" ELSE "FUNCTIONS_NOT_APPLIED"

\* The host never sees half a gadget: whatever setup steps failed, wherever the
\* service died, whoever pulls up - a request, reset() or the monitor - what is
\* bound is one supported combination under its own ids.  A tear-down that
\* failed (resetGadget) is the exception, until the next one succeeds.
WholeGadget ==
  pulledUp /\ "unlink" \notin tainted => linked \in Supported /\ ids = linked

\* getCurrentUsbFunctions() reports FUNCTIONS_APPLIED for no other functions
\* than those the gadget is configured with, and only while it is up (or the
\* monitor is about to report that it is not).  The exceptions are the ones the
\* code has: fields nobody has written, a failed tear-down, a callback between
\* the clearing of the field and the stop of the monitor, a reset() that could
\* not pull up, and a controller without a name.
ReportIsTrue ==
  ReportedStatus = "FUNCTIONS_APPLIED" /\ tainted = {} /\ controller
    => linked = functions /\ (pulledUp \/ monitor = "lowered")

\* "Leave the gadget pulled down to give time for the host to sense disconnect":
\* no pull-up changes the functions under a host that has not seen the old ones
\* leave, failed requests, resets, dying daemons and services included.
HostSensesSwap ==
  [][~pulledUp /\ pulledUp' /\ "unlink" \notin tainted => host \in {{}, linked'}]_vars

\* A request for functions is answered SUCCESS only with those functions linked
\* and the gadget up, and so is a reset().
SuccessIsTrue ==
  [][answer # "SUCCESS" /\ answer' = "SUCCESS" /\ functions # {} /\ controller
       => pulledUp' /\ (pc # "resetDown" => linked' = functions)]_vars

\* Every request comes to its end, the joining of the monitor thread included,
\* which may be in its callback: no one waits for the other.
RequestEnds == pc # "idle" ~> pc = "idle"
=============================================================================
