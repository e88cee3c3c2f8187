---------------------------- MODULE EcuLifecycle ----------------------------
(***************************************************************************)
(* Starting and stopping the virtual ECU on a CAN interface                *)
(* (diag/virtual_ecu/transport.py, ECUTransport): one caller of start()    *)
(* and stop(), and the serve threads they create.  The threads and the     *)
(* caller share the fields of the transport object and two Events; a       *)
(* thread and the bus it opened have the same number.                      *)
(***************************************************************************)
EXTENDS Integers

CONSTANT
  MaxStarts      \* bound on the number of start() calls that make a thread

ASSUME LifecycleAssumption == MaxStarts \in Nat

VARIABLES
  caller,           \* where the caller is: idle, or inside start() or stop()
  outcome,          \* how its last call ended
  births,           \* serve threads created so far
  serve_thread,     \* _serve_thread, 0 for None
  stop_requested,   \* the Event _stop_requested is set
  started,          \* the Event _started is set
  start_error,      \* _start_error is not None
  bus,              \* _bus: the thread that opened it, 0 for None
  stack,            \* _stack likewise
  open,             \* the buses opened and not shut down
  pc,               \* where each serve thread is in _run
  expired           \* history: the caller once ran out of time (5 s or 2 s)

fields == <<serve_thread, stop_requested, started, start_error, bus, stack, open>>
vars == <<caller, outcome, births, fields, pc, expired>>

Threads == 1..MaxStarts

\* A thread is at one of these from its creation to the end of _run.
AtWork ==
  {"open_bus", "open_stack", "report_error", "report_started", "check_stop", "handle",
   "stop_stack", "shutdown_bus", "clear_stack", "clear_bus"}

\* It ended: at the return of _run, in its except clause, or by an exception
\* in its finally clause.
Ended == {"returned", "failed", "crashed"}

Init ==
  /\ caller = "idle" /\ outcome = "none" /\ births = 0
  /\ serve_thread = 0
  /\ stop_requested = FALSE /\ started = FALSE /\ start_error = FALSE
  /\ bus = 0 /\ stack = 0 /\ open = {}
  /\ pc = [t \in Threads |-> "unborn"]
  /\ expired = FALSE

-----------------------------------------------------------------------------
(* The caller                                                              *)

\* Mutant of CallStart: the stop requested last time is not cleared.
CallStartStillStopping ==
  /\ caller = "idle" /\ serve_thread = 0
  /\ births < MaxStarts
  /\ births' = births + 1
  /\ caller' = "wait_started"
  /\ started' = FALSE /\ start_error' = FALSE
  /\ serve_thread' = births + 1
  /\ pc' = [pc EXCEPT ![births + 1] = "open_bus"]
  /\ UNCHANGED <<outcome, stop_requested, bus, stack, open, expired>>

\* start(), up to the wait for _started.  On a transport that has a thread it
\* raises instead and changes nothing.
CallStart ==
  /\ caller = "idle" /\ serve_thread = 0
  /\ births < MaxStarts
  /\ births' = births + 1
  /\ caller' = "wait_started"
  /\ stop_requested' = FALSE /\ started' = FALSE /\ start_error' = FALSE
  /\ serve_thread' = births + 1
  /\ pc' = [pc EXCEPT ![births + 1] = "open_bus"]
  /\ UNCHANGED <<outcome, bus, stack, open, expired>>

StartSucceeds ==
  /\ caller = "wait_started" /\ started /\ ~start_error
  /\ caller' = "idle" /\ outcome' = "running"
  /\ UNCHANGED <<births, fields, pc, expired>>

\* The thread reported an exception: join it, then raise.
SeeStartError ==
  /\ caller = "wait_started" /\ started /\ start_error
  /\ caller' = "join_failed"
  /\ UNCHANGED <<outcome, births, fields, pc, expired>>

\* The thread that the transport knows of, if any, has ended.
NothingToJoin == \A t \in Threads : t = serve_thread => pc[t] \in Ended

\* Mutants of JoinReturns: no join at all, and a join without its timeout.
NoJoin == UNCHANGED expired
JoinUntilEnded == NothingToJoin /\ UNCHANGED expired

\* join(timeout) returns when the thread has ended or the time is up; without
\* a thread it is not called.
JoinReturns == expired' = (expired \/ ~NothingToJoin)

StartFails ==
  /\ caller = "join_failed" /\ JoinReturns
  /\ caller' = "idle" /\ outcome' = "failed"
  /\ serve_thread' = 0
  /\ UNCHANGED <<births, stop_requested, started, start_error, bus, stack, open, pc>>

\* _started.wait(timeout=5.0) is False; the handle of the thread is kept.
StartTimesOut ==
  /\ caller = "wait_started" /\ ~started
  /\ caller' = "idle" /\ outcome' = "timed_out"
  /\ stop_requested' = TRUE /\ expired' = TRUE
  /\ UNCHANGED <<births, serve_thread, started, start_error, bus, stack, open, pc>>

CallStop ==
  /\ caller = "idle"
  /\ stop_requested' = TRUE
  /\ caller' = "join_stopped"
  /\ UNCHANGED <<outcome, births, serve_thread, started, start_error, bus, stack, open, pc,
                 expired>>

\* Mutant of StopReturns: stop() does not wait for the thread.
StopReturnsAtOnce ==
  /\ caller = "join_stopped" /\ UNCHANGED expired
  /\ caller' = "idle" /\ outcome' = "stopped"
  /\ serve_thread' = 0
  /\ UNCHANGED <<births, stop_requested, started, start_error, bus, stack, open, pc>>

StopReturns ==
  /\ caller = "join_stopped" /\ JoinReturns
  /\ caller' = "idle" /\ outcome' = "stopped"
  /\ serve_thread' = 0
  /\ UNCHANGED <<births, stop_requested, started, start_error, bus, stack, open, pc>>

Caller ==
  \/ CallStart \/ StartSucceeds \/ SeeStartError \/ StartFails
  \/ StartTimesOut \/ CallStop \/ StopReturns

\* What the caller does once it is inside a call.
Finish == StartSucceeds \/ SeeStartError \/ StartFails \/ StartTimesOut \/ StopReturns

-----------------------------------------------------------------------------
(* A serve thread                                                          *)

Goto(t, label) == pc' = [pc EXCEPT ![t] = label]

OpenBus(t) ==
  /\ pc[t] = "open_bus"
  /\ \/ /\ bus' = t /\ open' = open \cup {t}
        /\ Goto(t, "open_stack")
     \/ /\ UNCHANGED <<bus, open>>
        /\ Goto(t, "report_error")
  /\ start_error' = (start_error \/ pc'[t] = "report_error")
  /\ UNCHANGED <<caller, outcome, expired, births, serve_thread, stop_requested, started, stack>>

\* CanStack() or its start() may raise after the bus was opened.
OpenStack(t) ==
  /\ pc[t] = "open_stack"
  /\ \/ stack' = t /\ Goto(t, "report_started")
     \/ stack' \in {stack, t} /\ Goto(t, "report_error")
  /\ start_error' = (start_error \/ pc'[t] = "report_error")
  /\ UNCHANGED <<caller, outcome, expired, births, serve_thread, stop_requested, started, bus, open>>

\* Mutant of ReportError: the error is kept, start() is not woken.
ReportErrorSilently(t) ==
  /\ pc[t] = "report_error"
  /\ Goto(t, "failed")
  /\ UNCHANGED <<caller, outcome, expired, births, fields>>

\* The except clause: _started is set last, and nothing is released.
ReportError(t) ==
  /\ pc[t] = "report_error"
  /\ started' = TRUE
  /\ Goto(t, "failed")
  /\ UNCHANGED <<caller, outcome, expired, births, serve_thread, stop_requested, start_error,
                 bus, stack, open>>

ReportStarted(t) ==
  /\ pc[t] = "report_started"
  /\ started' = TRUE
  /\ Goto(t, "check_stop")
  /\ UNCHANGED <<caller, outcome, expired, births, serve_thread, stop_requested, start_error,
                 bus, stack, open>>

CheckStop(t) ==
  /\ pc[t] = "check_stop"
  /\ Goto(t, IF stop_requested THEN "stop_stack" ELSE "handle")
  /\ UNCHANGED <<caller, outcome, expired, births, fields>>

\* Up to 0.2 s of recv, and a request if there is one.  Every exception is
\* caught, the one for a _stack that another thread set to None included.
Handle(t) ==
  /\ pc[t] = "handle"
  /\ Goto(t, "check_stop")
  /\ UNCHANGED <<caller, outcome, expired, births, fields>>

\* The finally clause uses whatever _stack and _bus are now; calling a method
\* of None raises and ends the thread.
StopStack(t) ==
  /\ pc[t] = "stop_stack"
  /\ Goto(t, IF stack = 0 THEN "crashed" ELSE "shutdown_bus")
  /\ UNCHANGED <<caller, outcome, expired, births, fields>>

\* Mutant of ShutdownBus: _bus is forgotten without its shutdown().
ShutdownBusForgotten(t) ==
  /\ pc[t] = "shutdown_bus"
  /\ Goto(t, "clear_stack")
  /\ UNCHANGED <<caller, outcome, expired, births, fields>>

ShutdownBus(t) ==
  /\ pc[t] = "shutdown_bus"
  /\ Goto(t, IF bus = 0 THEN "crashed" ELSE "clear_stack")
  /\ open' = open \ {bus}
  /\ UNCHANGED <<caller, outcome, expired, births, serve_thread, stop_requested, started,
                 start_error, bus, stack>>

ClearStack(t) ==
  /\ pc[t] = "clear_stack"
  /\ stack' = 0
  /\ Goto(t, "clear_bus")
  /\ UNCHANGED <<caller, outcome, expired, births, serve_thread, stop_requested, started,
                 start_error, bus, open>>

ClearBus(t) ==
  /\ pc[t] = "clear_bus"
  /\ bus' = 0
  /\ Goto(t, "returned")
  /\ UNCHANGED <<caller, outcome, expired, births, serve_thread, stop_requested, started,
                 start_error, stack, open>>

Run(t) ==
  \/ OpenBus(t) \/ OpenStack(t) \/ ReportError(t) \/ ReportStarted(t) \/ CheckStop(t)
  \/ Handle(t) \/ StopStack(t) \/ ShutdownBus(t) \/ ClearStack(t) \/ ClearBus(t)

Next == Caller \/ \E t \in Threads : Run(t)

\* The caller is scheduled once it is inside a call; how often it calls is up
\* to the test.  Nothing is assumed of the serve threads: can.Bus() or a
\* request handler may hang for ever.
Spec == Init /\ [][Next]_vars /\ WF_vars(Finish)

-----------------------------------------------------------------------------
(* Properties                                                              *)

TypeOK ==
  /\ caller \in {"idle", "wait_started", "join_failed", "join_stopped"}
  /\ outcome \in {"none", "running", "failed", "timed_out", "stopped"}
  /\ births \in 0..MaxStarts
  /\ serve_thread \in 0..births
  /\ stop_requested \in BOOLEAN /\ started \in BOOLEAN /\ start_error \in BOOLEAN
  /\ bus \in 0..births /\ stack \in 0..births
  /\ open \subseteq 1..births
  /\ pc \in [Threads -> {"unborn"} \cup AtWork \cup Ended]
  /\ \A t \in Threads : pc[t] = "unborn" <=> t > births
  /\ expired \in BOOLEAN

\* Unless a timeout expired, the transport never has a serve thread it does
\* not know of: two of them would share _bus and _stack.
OneServeThread == ~expired => \A t \in Threads : pc[t] \in AtWork => t = serve_thread

\* When start() has returned normally, the thread it made is serving on the
\* bus and the stack that this very thread opened, unless a timeout expired.
InLoop == {"check_stop", "handle"}

StartReturnsServing ==
  ~expired /\ caller = "idle" /\ outcome = "running" =>
    /\ serve_thread # 0 /\ pc[serve_thread] \in InLoop
    /\ bus = serve_thread /\ stack = serve_thread
    /\ bus \in open

\* When the caller holds no thread, after stop() or a start() that raised, no
\* thread is left and no finally clause went wrong; a bus that is still open
\* belongs to a thread whose start failed.  Unless a timeout expired.
StopReleases ==
  ~expired /\ caller = "idle" /\ serve_thread = 0 =>
    /\ \A t \in Threads : pc[t] \in {"unborn", "returned", "failed"}
    /\ \A t \in open : pc[t] = "failed"

\* Every call of start() and stop() comes back, whatever the threads do.
CallsReturn == caller # "idle" ~> caller = "idle"

\* A serve thread that is scheduled wakes its start(), with a bus or an error:
\* the 5 s are never spent on a thread that has already given up.
ThreadsScheduled == \A t \in Threads : WF_vars(Run(t))

StartIsAnswered == ThreadsScheduled => \A t \in Threads : pc[t] = "open_bus" ~> started

\* start() and stop() keep the promises of Responder.
CallInProgress ==
  CASE caller = "idle" -> "none"
    [] caller \in {"wait_started", "join_failed"} -> "start"
    [] caller = "join_stopped" -> "stop"

Serving == \E t \in Threads : pc[t] \in InLoop

Promise ==
  INSTANCE Responder WITH call <- CallInProgress, serving <- Serving, broken <- FALSE,
                          gave_up <- expired

KeepsPromise == Promise!Spec

-----------------------------------------------------------------------------
(* The inductive invariant behind these properties, when no timeout        *)
(* expires: the caller's place in the code bounds the place of the one     *)
(* thread at work, and that thread's place says whose bus and stack the    *)
(* shared fields hold.                                                     *)

CallerKnowsThread ==
  /\ caller = "idle" => serve_thread = 0 \/ pc[serve_thread] \in InLoop
  /\ caller = "idle" /\ outcome = "running" => serve_thread # 0
  /\ caller = "idle" /\ serve_thread # 0 => stop_requested = FALSE
  /\ caller = "wait_started" =>
       /\ serve_thread # 0 /\ stop_requested = FALSE
       /\ pc[serve_thread] \in {"open_bus", "open_stack", "report_error", "report_started",
                                "failed"} \cup InLoop
       /\ started <=> pc[serve_thread] \in {"failed"} \cup InLoop
       /\ start_error <=> pc[serve_thread] \in {"report_error", "failed"}
  /\ caller = "join_failed" => serve_thread # 0 /\ pc[serve_thread] = "failed"
  /\ caller = "join_stopped" =>
       /\ stop_requested
       /\ serve_thread # 0 =>
            pc[serve_thread] \in {"stop_stack", "shutdown_bus", "clear_stack", "clear_bus",
                                  "returned"} \cup InLoop

ThreadOwnsFields ==
  /\ \A t \in Threads : pc[t] # "crashed"
  /\ \A t \in Threads :
       pc[t] \in {"open_stack", "report_started", "stop_stack", "shutdown_bus"} \cup InLoop
         => bus = t /\ t \in open
  /\ \A t \in Threads :
       pc[t] \in {"report_started", "stop_stack", "shutdown_bus"} \cup InLoop => stack = t
  /\ \A t \in open :
       pc[t] \in {"open_stack", "report_error", "report_started", "stop_stack",
                  "shutdown_bus", "failed"} \cup InLoop

LifecycleInv == TypeOK /\ OneServeThread /\ (~expired => CallerKnowsThread /\ ThreadOwnsFields)

-----------------------------------------------------------------------------
(* A claim of the repository that the code does not keep.                  *)

\* "Stopping the responder closes its socket and joins its background thread"
\* (tests/integration/test_virtual_ecu_lifecycle.py): not the socket of a
\* start() whose ISO-TP stack could not be built.
StopClosesSocket == ~expired /\ caller = "idle" /\ outcome = "stopped" => open = {}
=============================================================================
