----------------------------- MODULE BootPolicy -----------------------------
(***************************************************************************)
(* What the boot of a board promises, with no script, environment or table  *)
(* in sight.  Android is started in attempts, each paid for with a credit   *)
(* of its slot unless the slot has proven itself, and only while nobody     *)
(* requests anything else.  Recovery runs on request and costs nothing.  A  *)
(* fastboot session is opened when requested, or when no credit is left.    *)
(* Losing the power loses the attempt under way and nothing else.           *)
(***************************************************************************)
EXTENDS Naturals

CONSTANTS Slots, NoSlot, MaxTries

VARIABLES credit,  \* attempts the slots have left
          proven,  \* the slots whose Android came up
          request, \* "none", "bootloader" or "recovery" (fastbootd included)
          attempt, \* the slot an attempt is paid for, or NoSlot
          running  \* "nothing", "session", "android" or "recovery"

vars == <<credit, proven, request, attempt, running>>

Requests == {"none", "bootloader", "recovery"}

Idle == running = "nothing" /\ attempt = NoSlot

Init == /\ \E n \in 0 .. MaxTries : credit = [s \in Slots |-> n]
        /\ proven = [s \in Slots |-> FALSE]
        /\ request = "none"
        /\ attempt = NoSlot
        /\ running = "nothing"

\* An attempt begins.
Pay(s) == /\ Idle
          /\ request = "none"
          /\ credit[s] > 0
          /\ attempt' = s
          /\ credit' = IF proven[s] THEN credit ELSE [credit EXCEPT ![s] = @ - 1]
          /\ UNCHANGED <<proven, request, running>>

StartAndroid == /\ running = "nothing" /\ attempt # NoSlot
                /\ request = "none"
                /\ running' = "android"
                /\ UNCHANGED <<credit, proven, request, attempt>>

Vouch == /\ running = "android"
         /\ proven' = [proven EXCEPT ![attempt] = TRUE]
         /\ UNCHANGED <<credit, request, attempt, running>>

StartRecovery == /\ Idle
                 /\ request = "recovery"
                 /\ running' = "recovery"
                 /\ UNCHANGED <<credit, proven, request, attempt>>

\* A requested session uses up its request.
OpenSession == /\ Idle
               /\ \/ request = "bootloader" /\ request' = "none"
                  \/ (\A s \in Slots : credit[s] = 0) /\ request' = request
               /\ running' = "session"
               /\ UNCHANGED <<credit, proven, attempt>>

\* A session ends without a reset.  One that never got going may ask for
\* fastbootd instead.
CloseSession == /\ running = "session"
                /\ running' = "nothing"
                /\ request' \in {request, "recovery"}
                /\ UNCHANGED <<credit, proven, attempt>>

\* The host makes slots usable, or has the board forget what it knew of them.
Refill == /\ running = "session"
          /\ credit' \in [Slots -> 0 .. MaxTries]
          /\ \A s \in Slots : credit'[s] >= credit[s]
          /\ UNCHANGED <<proven, request, attempt, running>>

Forget == /\ running = "session"
          /\ credit' = [s \in Slots |-> MaxTries]
          /\ proven' = [s \in Slots |-> FALSE]
          /\ request' = "none"
          /\ UNCHANGED <<attempt, running>>

\* What runs asks for a restart, and for what comes next.
Restart == /\ running # "nothing"
           /\ request' \in Requests
           /\ running' = "nothing"
           /\ attempt' = NoSlot
           /\ UNCHANGED <<credit, proven>>

\* The board resets by itself.
Fall == /\ running' = "nothing"
        /\ attempt' = NoSlot
        /\ UNCHANGED <<credit, proven, request>>

Next == \/ \E s \in Slots : Pay(s)
        \/ StartAndroid \/ Vouch \/ StartRecovery
        \/ OpenSession \/ CloseSession \/ Refill \/ Forget
        \/ Restart \/ Fall

Spec == Init /\ [][Next]_vars
=============================================================================
