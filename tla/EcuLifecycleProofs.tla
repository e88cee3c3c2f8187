-------------------------- MODULE EcuLifecycleProofs --------------------------
(***************************************************************************)
(* Proofs about EcuLifecycle for any number of starts.                     *)
(***************************************************************************)
EXTENDS EcuLifecycle, TLAPS

USE DEF Threads, AtWork, Ended, InLoop, fields

LEMMA LifecycleInit == Init => LifecycleInv
PROOF
  <1> SUFFICES ASSUME Init PROVE LifecycleInv
    OBVIOUS
  <1>1. TypeOK
    <2>1. pc \in [Threads -> {"unborn"} \cup AtWork \cup Ended]
      BY DEF Init
    <2>2. \A t \in Threads : pc[t] = "unborn" <=> t > births
      BY LifecycleAssumption DEF Init
    <2>3. /\ births \in 0..MaxStarts /\ serve_thread \in 0..births
          /\ bus \in 0..births /\ stack \in 0..births /\ open \subseteq 1..births
      BY LifecycleAssumption DEF Init
    <2> QED
      BY <2>1, <2>2, <2>3 DEF Init, TypeOK
  <1>2. OneServeThread
    BY DEF Init, OneServeThread
  <1>3. CallerKnowsThread
    BY DEF Init, CallerKnowsThread
  <1>4. ThreadOwnsFields
    BY DEF Init, ThreadOwnsFields
  <1> QED
    BY <1>1, <1>2, <1>3, <1>4 DEF LifecycleInv

\* However late a caller gives up, the fields keep their types.
LEMMA CallerTypes ==
  ASSUME TypeOK, Caller
  PROVE  TypeOK'
PROOF
  <1> USE LifecycleAssumption DEF TypeOK
  <1>1. CASE CallStart
    <2> USE <1>1 DEF CallStart
    <2>1. births + 1 \in Threads
      OBVIOUS
    <2>2. /\ pc' \in [Threads -> {"unborn"} \cup AtWork \cup Ended]
          /\ pc'[births + 1] = "open_bus"
          /\ \A t \in Threads : t # births + 1 => pc'[t] = pc[t]
      BY <2>1
    <2>3. \A t \in Threads : pc'[t] = "unborn" <=> t > births'
      BY <2>1, <2>2
    <2>4. /\ births' \in 0..MaxStarts /\ serve_thread' \in 0..births'
          /\ bus' \in 0..births' /\ stack' \in 0..births' /\ open' \subseteq 1..births'
      OBVIOUS
    <2> QED
      BY <2>2, <2>3, <2>4
  <1>2. CASE StartSucceeds
    BY <1>2 DEF StartSucceeds
  <1>3. CASE SeeStartError
    BY <1>3 DEF SeeStartError
  <1>4. CASE StartFails
    BY <1>4 DEF StartFails, JoinReturns
  <1>5. CASE StartTimesOut
    BY <1>5 DEF StartTimesOut
  <1>6. CASE CallStop
    BY <1>6 DEF CallStop
  <1>7. CASE StopReturns
    BY <1>7 DEF StopReturns, JoinReturns
  <1> QED
    BY <1>1, <1>2, <1>3, <1>4, <1>5, <1>6, <1>7 DEF Caller

\* A caller whose time does not run out keeps the whole invariant.
LEMMA CallerInTime ==
  ASSUME LifecycleInv, Caller, ~expired'
  PROVE  (OneServeThread /\ CallerKnowsThread /\ ThreadOwnsFields)'
PROOF
  <1>1. ~expired
    BY DEF Caller, CallStart, StartSucceeds, SeeStartError, StartFails, StartTimesOut,
           CallStop, StopReturns, JoinReturns
  <1> USE LifecycleAssumption, <1>1
      DEF LifecycleInv, TypeOK, OneServeThread, CallerKnowsThread, ThreadOwnsFields
  <1>2. CASE CallStart
    <2> USE <1>2 DEF CallStart
    <2>1. births + 1 \in Threads /\ pc[births + 1] = "unborn"
      OBVIOUS
    <2>2. \A t \in Threads : pc[t] \notin AtWork
      OBVIOUS
    <2>3. /\ pc' \in [Threads -> {"unborn"} \cup AtWork \cup Ended]
          /\ pc'[births + 1] = "open_bus"
          /\ \A t \in Threads : t # births + 1 => pc'[t] = pc[t]
      BY <2>1
    <2>4. OneServeThread'
      BY <2>2, <2>3
    <2>5. CallerKnowsThread'
      BY <2>3
    <2>6. ThreadOwnsFields'
      BY <2>1, <2>2, <2>3
    <2> QED
      BY <2>4, <2>5, <2>6
  <1>3. CASE StartSucceeds
    BY <1>3 DEF StartSucceeds
  <1>4. CASE SeeStartError
    BY <1>4 DEF SeeStartError
  <1>5. CASE StartFails
    BY <1>5 DEF StartFails, JoinReturns, NothingToJoin
  <1>6. CASE StartTimesOut
    BY <1>6 DEF StartTimesOut
  <1>7. CASE CallStop
    BY <1>7 DEF CallStop
  <1>8. CASE StopReturns
    BY <1>8 DEF StopReturns, JoinReturns, NothingToJoin
  <1> QED
    BY <1>2, <1>3, <1>4, <1>5, <1>6, <1>7, <1>8 DEF Caller

LEMMA ThreadTypes ==
  ASSUME NEW t \in Threads, TypeOK, Run(t)
  PROVE  TypeOK' /\ expired' = expired
PROOF
  <1> USE LifecycleAssumption DEF TypeOK, Goto
  <1>1. CASE OpenBus(t)
    <2>1. t \in 1..births /\ births' = births
      BY <1>1 DEF OpenBus
    <2>2. bus' \in 0..births' /\ open' \subseteq 1..births'
      <3>1. bus' \in {bus, t} /\ open' \in {open, open \cup {t}}
        BY <1>1 DEF OpenBus
      <3>2. bus \in 0..births /\ open \subseteq 1..births /\ t \in 0..births
        BY <2>1
      <3> QED
        BY <2>1, <3>1, <3>2
    <2>3. \E label \in {"open_stack", "report_error"} : pc' = [pc EXCEPT ![t] = label]
      BY <1>1 DEF OpenBus
    <2>4. start_error' \in BOOLEAN
      BY <1>1 DEF OpenBus
    <2> QED
      BY <1>1, <2>1, <2>2, <2>3, <2>4 DEF OpenBus
  <1>2. CASE OpenStack(t)
    BY <1>2 DEF OpenStack
  <1>3. CASE ReportError(t)
    BY <1>3 DEF ReportError
  <1>4. CASE ReportStarted(t)
    BY <1>4 DEF ReportStarted
  <1>5. CASE CheckStop(t)
    BY <1>5 DEF CheckStop
  <1>6. CASE Handle(t)
    BY <1>6 DEF Handle
  <1>7. CASE StopStack(t)
    BY <1>7 DEF StopStack
  <1>8. CASE ShutdownBus(t)
    BY <1>8 DEF ShutdownBus
  <1>9. CASE ClearStack(t)
    BY <1>9 DEF ClearStack
  <1>10. CASE ClearBus(t)
    BY <1>10 DEF ClearBus
  <1> QED
    BY <1>1, <1>2, <1>3, <1>4, <1>5, <1>6, <1>7, <1>8, <1>9, <1>10 DEF Run

LEMMA ThreadInTime ==
  ASSUME NEW t \in Threads, LifecycleInv, Run(t), ~expired
  PROVE  (OneServeThread /\ CallerKnowsThread /\ ThreadOwnsFields)'
PROOF
  <1> USE LifecycleAssumption
      DEF LifecycleInv, TypeOK, OneServeThread, CallerKnowsThread, ThreadOwnsFields, Goto
  <1>1. CASE OpenBus(t)
    <2>1. serve_thread = t /\ caller = "wait_started"
      BY <1>1 DEF OpenBus
    <2>2. CASE bus' = t /\ open' = open \cup {t} /\ Goto(t, "open_stack")
      <3>1. start_error' = start_error
        BY <1>1, <2>2 DEF OpenBus
      <3> QED
        BY <1>1, <2>1, <2>2, <3>1 DEF OpenBus
    <2>3. CASE UNCHANGED <<bus, open>> /\ Goto(t, "report_error")
      <3>1. start_error' = TRUE
        BY <1>1, <2>3 DEF OpenBus
      <3> QED
        BY <1>1, <2>1, <2>3, <3>1 DEF OpenBus
    <2> QED
      BY <1>1, <2>2, <2>3 DEF OpenBus
  <1>2. CASE OpenStack(t)
    <2>1. serve_thread = t /\ caller = "wait_started"
      BY <1>2 DEF OpenStack
    <2>2. CASE stack' = t /\ Goto(t, "report_started")
      <3>1. start_error' = start_error
        BY <1>2, <2>2 DEF OpenStack
      <3> QED
        BY <1>2, <2>1, <2>2, <3>1 DEF OpenStack
    <2>3. CASE stack' \in {stack, t} /\ Goto(t, "report_error")
      <3>1. start_error' = TRUE
        BY <1>2, <2>3 DEF OpenStack
      <3> QED
        BY <1>2, <2>1, <2>3, <3>1 DEF OpenStack
    <2> QED
      BY <1>2, <2>2, <2>3 DEF OpenStack
  <1>3. CASE ReportError(t)
    BY <1>3 DEF ReportError
  <1>4. CASE ReportStarted(t)
    BY <1>4 DEF ReportStarted
  <1>5. CASE CheckStop(t)
    BY <1>5 DEF CheckStop
  <1>6. CASE Handle(t)
    BY <1>6 DEF Handle
  <1>7. CASE StopStack(t)
    BY <1>7 DEF StopStack
  <1>8. CASE ShutdownBus(t)
    BY <1>8 DEF ShutdownBus
  <1>9. CASE ClearStack(t)
    BY <1>9 DEF ClearStack
  <1>10. CASE ClearBus(t)
    BY <1>10 DEF ClearBus
  <1> QED
    BY <1>1, <1>2, <1>3, <1>4, <1>5, <1>6, <1>7, <1>8, <1>9, <1>10 DEF Run

LEMMA LifecycleNext ==
  ASSUME LifecycleInv, [Next]_vars
  PROVE  LifecycleInv'
PROOF
  <1>1. CASE UNCHANGED vars
    BY <1>1 DEF vars, LifecycleInv, TypeOK, OneServeThread, CallerKnowsThread, ThreadOwnsFields
  <1>2. CASE Caller
    <2>1. TypeOK'
      BY <1>2, CallerTypes DEF LifecycleInv
    <2>2. ~expired' => (OneServeThread /\ CallerKnowsThread /\ ThreadOwnsFields)'
      BY <1>2, CallerInTime
    <2> QED
      BY <2>1, <2>2 DEF LifecycleInv, OneServeThread
  <1>3. ASSUME NEW t \in Threads, Run(t) PROVE LifecycleInv'
    <2>1. TypeOK' /\ expired' = expired
      BY <1>3, ThreadTypes DEF LifecycleInv
    <2>2. ~expired => (OneServeThread /\ CallerKnowsThread /\ ThreadOwnsFields)'
      BY <1>3, ThreadInTime
    <2> QED
      BY <2>1, <2>2 DEF LifecycleInv, OneServeThread
  <1> QED
    BY <1>1, <1>2, <1>3 DEF Next

LEMMA LifecycleInvariant == Spec => []LifecycleInv
PROOF
  <1>1. LifecycleInv /\ [Next]_vars => LifecycleInv'
    BY LifecycleNext
  <1> QED
    BY LifecycleInit, <1>1, PTL DEF Spec

-----------------------------------------------------------------------------
(* Safety                                                                  *)

\* However often the responder is started and stopped, and whether its starts
\* succeed or fail, there is at most one thread inside _run, and it is the one
\* that _serve_thread names.
THEOREM OneThreadServes == Spec => []OneServeThread
PROOF
  <1>1. LifecycleInv => OneServeThread
    BY DEF LifecycleInv
  <1> QED
    BY LifecycleInvariant, <1>1, PTL

\* When start() has returned normally, its own thread serves requests on the
\* bus and the stack that this thread opened.
THEOREM StartedIsServing == Spec => []StartReturnsServing
PROOF
  <1>1. LifecycleInv => StartReturnsServing
    <2> SUFFICES ASSUME LifecycleInv, ~expired, caller = "idle", outcome = "running"
                 PROVE  /\ serve_thread # 0 /\ pc[serve_thread] \in InLoop
                        /\ bus = serve_thread /\ stack = serve_thread
                        /\ bus \in open
      BY DEF StartReturnsServing
    <2>1. serve_thread # 0 /\ pc[serve_thread] \in InLoop
      BY DEF LifecycleInv, CallerKnowsThread
    <2>2. serve_thread \in Threads
      BY <2>1, LifecycleAssumption DEF LifecycleInv, TypeOK
    <2> QED
      BY <2>1, <2>2 DEF LifecycleInv, ThreadOwnsFields
  <1> QED
    BY LifecycleInvariant, <1>1, PTL

\* When the caller is back from stop(), or from a start() that raised, no
\* thread is left, none died in its finally clause, and only a failed start
\* can have left its bus open.
THEOREM StoppedIsReleased == Spec => []StopReleases
PROOF
  <1>1. LifecycleInv => StopReleases
    <2> SUFFICES ASSUME LifecycleInv, ~expired, caller = "idle", serve_thread = 0
                 PROVE  /\ \A t \in Threads : pc[t] \in {"unborn", "returned", "failed"}
                        /\ \A t \in open : pc[t] = "failed"
      BY DEF StopReleases
    <2>1. \A t \in Threads : pc[t] \in {"unborn", "returned", "failed"}
      <3>1. \A t \in Threads : pc[t] \notin AtWork
        BY DEF LifecycleInv, OneServeThread
      <3>2. pc \in [Threads -> {"unborn"} \cup AtWork \cup Ended]
        BY DEF LifecycleInv, TypeOK
      <3>3. \A t \in Threads : pc[t] # "crashed"
        BY DEF LifecycleInv, ThreadOwnsFields
      <3> QED
        BY <3>1, <3>2, <3>3
    <2>2. open \subseteq Threads
      BY LifecycleAssumption DEF LifecycleInv, TypeOK
    <2>3. \A t \in open : pc[t] = "failed"
      BY <2>1, <2>2 DEF LifecycleInv, ThreadOwnsFields
    <2> QED
      BY <2>1, <2>3
  <1> QED
    BY LifecycleInvariant, <1>1, PTL

-----------------------------------------------------------------------------
(* Refinement                                                              *)

LEMMA ServingStable ==
  ASSUME UNCHANGED pc
  PROVE  Serving' = Serving
BY DEF Serving

\* A thread that moves outside its loop starts or ends no service.
LEMMA ServingElsewhere ==
  ASSUME TypeOK, NEW t \in Threads, NEW label, label \notin InLoop,
         pc[t] \notin InLoop, pc' = [pc EXCEPT ![t] = label]
  PROVE  Serving' = Serving
PROOF
  <1>1. \A u \in Threads : pc'[u] \in InLoop <=> pc[u] \in InLoop
    BY DEF TypeOK
  <1> QED
    BY <1>1 DEF Serving

LEMMA NoneServing ==
  ASSUME \A t \in Threads : pc[t] \notin InLoop
  PROVE  Serving = FALSE
BY DEF Serving

LEMMA CallOf ==
  /\ caller = "idle" => CallInProgress = "none"
  /\ caller \in {"wait_started", "join_failed"} => CallInProgress = "start"
  /\ caller = "join_stopped" => CallInProgress = "stop"
BY DEF CallInProgress

LEMMA CallOfNext ==
  /\ caller' = "idle" => CallInProgress' = "none"
  /\ caller' \in {"wait_started", "join_failed"} => CallInProgress' = "start"
  /\ caller' = "join_stopped" => CallInProgress' = "stop"
BY DEF CallInProgress

LEMMA PromiseInit == Init => Promise!Init
PROOF
  <1> SUFFICES ASSUME Init PROVE Promise!Init
    OBVIOUS
  <1>1. Serving = FALSE
    BY NoneServing DEF Init
  <1> QED
    BY <1>1, CallOf DEF Init, Promise!Init

\* Time runs out inside a call only.
LEMMA PromiseOutOfTime ==
  ASSUME TypeOK, [Next]_vars, expired'
  PROVE  Promise!Next
PROOF
  <1>1. expired \/ CallInProgress # "none"
    <2>1. expired \/ caller \in {"wait_started", "join_failed", "join_stopped"}
      BY DEF Next, vars, Caller, CallStart, StartSucceeds, SeeStartError, StartFails,
             StartTimesOut, CallStop, StopReturns, Run, OpenBus, OpenStack, ReportError,
             ReportStarted, CheckStop, Handle, StopStack, ShutdownBus, ClearStack, ClearBus
    <2> QED
      BY <2>1, CallOf
  <1>2. expired' = TRUE
    BY DEF Next, vars, Caller, CallStart, StartSucceeds, SeeStartError, StartFails,
           StartTimesOut, CallStop, StopReturns, JoinReturns, Run, OpenBus, OpenStack,
           ReportError, ReportStarted, CheckStop, Handle, StopStack, ShutdownBus, ClearStack,
           ClearBus, TypeOK
  <1> QED
    BY <1>1, <1>2 DEF Promise!Next, Promise!OutOfTime

LEMMA PromiseCaller ==
  ASSUME LifecycleInv, Caller, ~expired'
  PROVE  [Promise!Next]_(Promise!vars)
PROOF
  <1>0. expired = FALSE /\ expired' = FALSE
    BY DEF Caller, CallStart, StartSucceeds, SeeStartError, StartFails, StartTimesOut,
           CallStop, StopReturns, JoinReturns, LifecycleInv, TypeOK
  <1> USE CallOf, CallOfNext, ServingStable, <1>0
      DEF Promise!vars, Promise!Next, Promise!InTime, Promise!Goes, Promise!Down
  <1>1. CASE CallStart
    <2>1. \A t \in Threads : pc[t] \notin InLoop
      BY <1>1 DEF CallStart, LifecycleInv, OneServeThread
    <2>2. \A t \in Threads : pc'[t] \notin InLoop
      BY <1>1, <2>1 DEF CallStart, LifecycleInv, TypeOK
    <2>3. Serving = FALSE /\ Serving' = FALSE
      BY <2>1, <2>2 DEF Serving
    <2> QED
      BY <1>1, <2>3 DEF CallStart, Promise!CallStart
  <1>2. CASE StartSucceeds
    <2>1. serve_thread \in Threads /\ pc[serve_thread] \in InLoop
      BY <1>2, LifecycleAssumption
      DEF StartSucceeds, LifecycleInv, TypeOK, CallerKnowsThread
    <2>2. Serving
      BY <2>1 DEF Serving
    <2> QED
      BY <1>2, <2>2 DEF StartSucceeds, Promise!ReturnStarted
  <1>3. CASE SeeStartError
    BY <1>3 DEF SeeStartError
  <1>4. CASE StartFails
    <2>1. \A t \in Threads : pc[t] \notin InLoop
      BY <1>4 DEF StartFails, LifecycleInv, OneServeThread, CallerKnowsThread
    <2> QED
      BY <1>4, <2>1, NoneServing DEF StartFails, Promise!RaiseNotStarted
  <1>5. CASE StartTimesOut
    BY <1>5 DEF StartTimesOut
  <1>6. CASE CallStop
    BY <1>6 DEF CallStop, Promise!CallStop
  <1>7. CASE StopReturns
    <2>1. \A t \in Threads : pc[t] \notin InLoop
      BY <1>7 DEF StopReturns, JoinReturns, NothingToJoin, LifecycleInv, OneServeThread
    <2> QED
      BY <1>7, <2>1, NoneServing DEF StopReturns, Promise!ReturnStopped
  <1> QED
    BY <1>1, <1>2, <1>3, <1>4, <1>5, <1>6, <1>7 DEF Caller

LEMMA PromiseThread ==
  ASSUME LifecycleInv, NEW t \in Threads, Run(t), ~expired
  PROVE  [Promise!Next]_(Promise!vars)
PROOF
  <1> USE DEF Promise!InTime, Promise!Goes, Promise!Down
  <1>1. caller' = caller /\ expired' = expired
    BY DEF Run, OpenBus, OpenStack, ReportError, ReportStarted, CheckStop, Handle,
           StopStack, ShutdownBus, ClearStack, ClearBus
  <1>2. CallInProgress' = CallInProgress
    BY <1>1 DEF CallInProgress
  <1>3. TypeOK
    BY DEF LifecycleInv
  <1>4. CASE ReportStarted(t)
    <2>1. t = serve_thread /\ caller = "wait_started"
      BY <1>4 DEF ReportStarted, LifecycleInv, TypeOK, OneServeThread, CallerKnowsThread
    <2>2. Serving = FALSE
      BY <1>4, <2>1, NoneServing DEF ReportStarted, LifecycleInv, OneServeThread
    <2>3. Serving'
      BY <1>4, <1>3 DEF ReportStarted, Goto, Serving, TypeOK
    <2> QED
      BY <1>1, <1>2, <2>1, <2>2, <2>3, CallOf DEF Promise!Next, Promise!BeginServing
  <1>5. CASE CheckStop(t)
    <2>1. CASE stop_requested
      <3>1. t = serve_thread /\ caller = "join_stopped"
        BY <1>5, <2>1 DEF CheckStop, LifecycleInv, TypeOK, OneServeThread, CallerKnowsThread
      <3>2. Serving
        BY <1>5 DEF CheckStop, Serving
      <3>3. \A u \in Threads : pc'[u] \notin InLoop
        BY <1>5, <2>1, <3>1, <1>3 DEF CheckStop, Goto, TypeOK, LifecycleInv, OneServeThread
      <3>4. Serving' = FALSE
        BY <3>3 DEF Serving
      <3> QED
        BY <1>1, <1>2, <3>1, <3>2, <3>4, CallOf DEF Promise!Next, Promise!EndServing
    <2>2. CASE ~stop_requested
      <3>1. Serving /\ Serving'
        BY <1>5, <2>2, <1>3 DEF CheckStop, Goto, Serving, TypeOK
      <3> QED
        BY <1>1, <1>2, <3>1 DEF Promise!vars, Serving
    <2> QED
      BY <2>1, <2>2
  <1>6. CASE Handle(t)
    <2>1. Serving /\ Serving'
      BY <1>6, <1>3 DEF Handle, Goto, Serving, TypeOK
    <2> QED
      BY <1>1, <1>2, <2>1 DEF Promise!vars, Serving
  <1>7. CASE OpenBus(t) \/ OpenStack(t) \/ ReportError(t) \/ StopStack(t)
             \/ ShutdownBus(t) \/ ClearStack(t) \/ ClearBus(t)
    <2>1. pc[t] \notin InLoop
      BY <1>7 DEF OpenBus, OpenStack, ReportError, StopStack, ShutdownBus, ClearStack, ClearBus
    <2>2. \E label : label \notin InLoop /\ pc' = [pc EXCEPT ![t] = label]
      BY <1>7 DEF OpenBus, OpenStack, ReportError, StopStack, ShutdownBus, ClearStack,
                  ClearBus, Goto
    <2>3. Serving' = Serving
      BY <1>3, <2>1, <2>2, ServingElsewhere
    <2> QED
      BY <1>1, <1>2, <2>3 DEF Promise!vars
  <1> QED
    BY <1>4, <1>5, <1>6, <1>7 DEF Run

\* Whatever the threads and the sockets do, start() and stop() keep the
\* contract of Responder, and never break down: service begins only inside a
\* start() and ends only inside a stop(), and each returns with the service in
\* the state it promises, as long as the caller's time has not run out inside a
\* call.
THEOREM KeepsItsPromise == Spec => KeepsPromise
PROOF
  <1>1. LifecycleInv /\ [Next]_vars => [Promise!Next]_(Promise!vars)
    <2> SUFFICES ASSUME LifecycleInv, [Next]_vars
                 PROVE  [Promise!Next]_(Promise!vars)
      OBVIOUS
    <2>1. CASE UNCHANGED vars
      <3>1. UNCHANGED <<caller, pc, expired>>
        BY <2>1 DEF vars
      <3>2. CallInProgress' = CallInProgress /\ Serving' = Serving
        BY <3>1, ServingStable DEF CallInProgress
      <3> QED
        BY <3>1, <3>2 DEF Promise!vars
    <2>2. CASE expired'
      BY <2>2, PromiseOutOfTime DEF LifecycleInv
    <2>3. CASE ~expired' /\ Caller
      BY <2>3, PromiseCaller
    <2>4. ASSUME NEW t \in Threads, Run(t), ~expired' PROVE [Promise!Next]_(Promise!vars)
      <3>1. ~expired
        BY <2>4, ThreadTypes DEF LifecycleInv
      <3> QED
        BY <2>4, <3>1, PromiseThread
    <2> QED
      BY <2>1, <2>2, <2>3, <2>4 DEF Next
  <1> QED
    BY PromiseInit, LifecycleInvariant, <1>1, PTL DEF Spec, KeepsPromise, Promise!Spec
=============================================================================
