------------------------------ MODULE Responder ------------------------------
(***************************************************************************)
(* What a virtual ECU's start() and stop() promise their caller, whatever  *)
(* threads and sockets they use: start() returns only once requests are    *)
(* served, or raises with nothing serving them; serving begins only inside *)
(* a start(); it ends inside a stop(), or because the service broke down;  *)
(* a service that broke down stays down until it is stopped and started    *)
(* anew; after stop() nothing serves.                                      *)
(* A caller whose time runs out inside a call gives these promises up.     *)
(***************************************************************************)
VARIABLES
  call,      \* the call in progress: "start", "stop" or "none"
  serving,   \* requests are answered
  broken,    \* the service broke down and was not stopped since
  gave_up    \* a call returned because its time was up

vars == <<call, serving, broken, gave_up>>

Init == call = "none" /\ serving = FALSE /\ broken = FALSE /\ gave_up = FALSE

\* The phases of a call and of the service.
Down == ~serving /\ ~broken
Goes(from, to) == call = from /\ call' = to

CallStart == Goes("none", "start") /\ Down /\ UNCHANGED <<serving, broken>>
BeginServing == Goes("start", "start") /\ Down /\ serving' = TRUE /\ UNCHANGED broken
ReturnStarted == Goes("start", "none") /\ ~Down /\ UNCHANGED <<serving, broken>>
RaiseNotStarted == Goes("start", "none") /\ Down /\ UNCHANGED <<serving, broken>>

BreakDown ==
  /\ serving /\ call # "stop"
  /\ serving' = FALSE /\ broken' = TRUE
  /\ UNCHANGED call

CallStop == Goes("none", "stop") /\ broken' = FALSE /\ UNCHANGED serving
EndServing == Goes("stop", "stop") /\ serving /\ serving' = FALSE /\ UNCHANGED broken
ReturnStopped == Goes("stop", "none") /\ Down /\ UNCHANGED <<serving, broken>>

InTime ==
  /\ \/ CallStart \/ BeginServing \/ ReturnStarted \/ RaiseNotStarted
     \/ BreakDown \/ CallStop \/ EndServing \/ ReturnStopped
  /\ UNCHANGED gave_up

\* Only a call in progress can run out of time.
OutOfTime == (gave_up \/ call # "none") /\ gave_up' = TRUE

Next == InTime \/ OutOfTime

Spec == Init /\ [][Next]_vars
=============================================================================
