---------------------------- MODULE BoostPolicy ----------------------------
(***************************************************************************)
(* What the boost engine of the power HAL promises, with no thread, lock or *)
(* condition variable in sight.  Callers leave requests: a set of deadlines *)
(* that were asked for, and a switch.  A boost is wanted while the switch   *)
(* is on or some deadline lies ahead.  The engine may raise the frequency   *)
(* floor only when a boost is wanted and may drop it only when none is; it  *)
(* never acts on its own account and never forgets a deadline because a     *)
(* shorter one was asked for later.                                         *)
(***************************************************************************)
EXTENDS Naturals

VARIABLES asked,    \* deadlines of every timed request so far
          switched, \* the switch of BoostEn
          boosted,  \* the engine holds the floor up
          now

vars == <<asked, switched, boosted, now>>

Wanted == switched \/ \E d \in asked : d > now

Init == /\ asked = {}
        /\ switched = FALSE
        /\ boosted = FALSE
        /\ now = 0

AskUntil == /\ \E d \in asked' : d > now /\ asked' = asked \union {d}
            /\ UNCHANGED <<switched, boosted, now>>

Switch == /\ switched' \in BOOLEAN
          /\ UNCHANGED <<asked, boosted, now>>

Raise == /\ Wanted
         /\ ~boosted
         /\ boosted' = TRUE
         /\ UNCHANGED <<asked, switched, now>>

Drop == /\ ~Wanted
        /\ boosted
        /\ boosted' = FALSE
        /\ UNCHANGED <<asked, switched, now>>

Tick == /\ now' = now + 1
        /\ UNCHANGED <<asked, switched, boosted>>

\* The service process dies and is started again: the requests die with it.
Restart == /\ asked' = {}
           /\ switched' = FALSE
           /\ boosted' = FALSE
           /\ UNCHANGED now

Next == AskUntil \/ Switch \/ Raise \/ Drop \/ Tick \/ Restart

Spec == Init /\ [][Next]_vars
=============================================================================
