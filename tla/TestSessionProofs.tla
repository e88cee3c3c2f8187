-------------------------- MODULE TestSessionProofs --------------------------
(***************************************************************************)
(* Proofs about TestSession for every length of queue and timeout and any  *)
(* number of periodic tasks.                                               *)
(***************************************************************************)
EXTENDS TestSession, TLAPS

\* The variables that FixturesInv speaks of.
held_vars == <<active, phase, bus, ecu, client, tasks, shut_by_test>>

LEMMA FixturesInit == Init => FixturesInv
PROOF
  <1> SUFFICES ASSUME Init PROVE FixturesInv
    OBVIOUS
  <1>1. active = <<>> /\ active \in Seq(FixtureNames) /\ DOMAIN active = {}
    BY DEF Init
  <1>2. StackOrdered
    BY <1>1 DEF StackOrdered
  <1>3. HeldIsActive
    BY <1>1 DEF Init, HeldIsActive
  <1> QED
    BY <1>1, <1>2, <1>3 DEF FixturesInv

LEMMA FixturesUnchanged ==
  ASSUME FixturesInv, UNCHANGED held_vars
  PROVE  FixturesInv'
BY DEF held_vars, FixturesInv, StackOrdered, HeldIsActive

LEMMA FixtureSetUp ==
  ASSUME FixturesInv, NEW f \in FixtureNames, SetUp(f)
  PROVE  FixturesInv'
PROOF
  <1> DEFINE n == Len(active) + 1
  <1>1. active \in Seq(FixtureNames) /\ active' = Append(active, f) /\ phase = "setup"
        /\ phase' = phase /\ shut_by_test' = shut_by_test
    BY DEF SetUp, FixturesInv, StackOrdered
  <1>2. /\ DOMAIN active = 1..Len(active) /\ DOMAIN active' = 1..n /\ Len(active) \in Nat
        /\ active'[n] = f
        /\ \A i \in DOMAIN active : active'[i] = active[i]
    BY <1>1
  <1>3. /\ \A i \in DOMAIN active : active[i] # f
        /\ \A g \in Needs(f) : \E i \in DOMAIN active : active[i] = g
    BY <1>1 DEF SetUp, ToSet
  <1>4. StackOrdered'
    <2>1. \A i, j \in DOMAIN active' : active'[i] = active'[j] => i = j
      BY <1>2, <1>3 DEF FixturesInv, StackOrdered
    <2>2. \A i \in DOMAIN active' : \A g \in Needs(active'[i]) :
            \E j \in DOMAIN active' : j < i /\ active'[j] = g
      <3>1. \A i \in DOMAIN active : \A g \in Needs(active[i]) :
              \E j \in DOMAIN active : j < i /\ active[j] = g
        BY DEF FixturesInv, StackOrdered
      <3>2. SUFFICES ASSUME NEW i \in DOMAIN active', NEW g \in Needs(active'[i])
                     PROVE  \E j \in DOMAIN active' : j < i /\ active'[j] = g
        OBVIOUS
      <3>3. CASE i = n
        BY <1>2, <1>3, <3>2, <3>3
      <3>4. CASE i # n
        <4>1. i \in DOMAIN active /\ active'[i] = active[i]
          BY <1>2, <3>4
        <4>2. PICK j \in DOMAIN active : j < i /\ active[j] = g
          BY <3>1, <4>1
        <4> QED
          BY <1>2, <4>2
      <3> QED
        BY <3>3, <3>4
    <2>3. active' \in Seq(FixtureNames)
      BY <1>1
    <2> QED
      BY <2>1, <2>2, <2>3 DEF StackOrdered
  <1>5. HeldIsActive'
    <2>1. CASE f = "bus"
      <3>1. bus' = "open" /\ UNCHANGED <<ecu, client, tasks>>
        BY <2>1 DEF SetUp, Acquire, OpenBus
      <3> QED
        BY <1>1, <1>2, <2>1, <3>1 DEF FixturesInv, HeldIsActive
    <2>2. CASE f = "ecu"
      <3>1. ecu' = "serving" /\ UNCHANGED <<bus, client, tasks>>
        BY <2>2 DEF SetUp, Acquire, OpenBus
      <3> QED
        BY <1>1, <1>2, <2>2, <3>1 DEF FixturesInv, HeldIsActive
    <2>3. CASE f = "uds"
      <3>1. client' = "running" /\ UNCHANGED <<bus, ecu, tasks>>
        BY <2>3 DEF SetUp, Acquire, OpenUdsClient
      <3> QED
        BY <1>1, <1>2, <2>3, <3>1 DEF FixturesInv, HeldIsActive
    <2> QED
      BY <2>1, <2>2, <2>3 DEF FixtureNames
  <1> QED
    BY <1>1, <1>4, <1>5 DEF FixturesInv

\* The fixture on top is needed by none of those below it.
LEMMA FixtureTearDown ==
  ASSUME FixturesInv, TearDown
  PROVE  FixturesInv'
PROOF
  <1> DEFINE n == Len(active)
             f == active[n]
  <1>1. active \in Seq(FixtureNames) /\ active # <<>> /\ phase = "teardown"
        /\ phase' = phase /\ shut_by_test' = shut_by_test
    BY DEF TearDown, FixturesInv, StackOrdered
  <1>2. active' = Front(active) /\ Last(active) = f
    BY DEF TearDown, Last
  <1>3. /\ n \in Nat /\ n >= 1 /\ DOMAIN active = 1..n /\ DOMAIN active' = 1..(n - 1)
        /\ \A i \in 1..(n - 1) : active'[i] = active[i]
        /\ active' \in Seq(FixtureNames)
    BY <1>1, <1>2 DEF Front
  <1>4. /\ \A i, j \in 1..n : active[i] = active[j] => i = j
        /\ \A i \in 1..n : \A g \in Needs(active[i]) :
             \E j \in 1..n : j < i /\ active[j] = g
    BY <1>3 DEF FixturesInv, StackOrdered
  <1>5. StackOrdered'
    <2>1. \A i \in 1..(n - 1) : \A g \in Needs(active[i]) :
            \E j \in 1..(n - 1) : j < i /\ active[j] = g
      BY <1>3, <1>4
    <2>2. \A i, j \in DOMAIN active' : active'[i] = active'[j] => i = j
      BY <1>3, <1>4
    <2>3. \A i \in DOMAIN active' : \A g \in Needs(active'[i]) :
            \E j \in DOMAIN active' : j < i /\ active'[j] = g
      <3>1. SUFFICES ASSUME NEW i \in DOMAIN active', NEW g \in Needs(active'[i])
                     PROVE  \E j \in DOMAIN active' : j < i /\ active'[j] = g
        OBVIOUS
      <3>2. i \in 1..(n - 1) /\ active'[i] = active[i]
        BY <1>3, <3>1
      <3>3. PICK j \in 1..(n - 1) : j < i /\ active[j] = g
        BY <2>1, <3>1, <3>2
      <3>4. active'[j] = g /\ j \in DOMAIN active'
        BY <1>3, <3>3
      <3> QED
        BY <3>3, <3>4
    <2> QED
      BY <1>3, <2>2, <2>3 DEF StackOrdered
  <1>6. \A g \in FixtureNames :
          (\E i \in DOMAIN active' : active'[i] = g)
            <=> (\E i \in DOMAIN active : active[i] = g) /\ g # f
    BY <1>3, <1>4
  <1>7. f \in FixtureNames
    BY <1>1, <1>3
  <1>8. HeldIsActive'
    <2>1. CASE f = "bus"
      <3>1. Release("bus")
        BY <1>2, <2>1 DEF TearDown
      <3>2. bus' = "closed" /\ UNCHANGED <<ecu, client>>
        BY <3>1 DEF Release, ShutdownBus
      <3>3. tasks' = 0
        BY <3>1 DEF Release, ShutdownBus, FixturesInv, HeldIsActive
      <3> QED
        BY <1>1, <1>6, <2>1, <3>2, <3>3 DEF FixturesInv, HeldIsActive, FixtureNames
    <2>2. CASE f = "ecu"
      <3>1. ecu' = "stopped" /\ UNCHANGED <<bus, client, tasks>>
        BY <1>2, <2>2 DEF TearDown, Release
      <3> QED
        BY <1>1, <1>6, <2>2, <3>1 DEF FixturesInv, HeldIsActive, FixtureNames
    <2>3. CASE f = "uds"
      <3>1. client' = "stopped" /\ UNCHANGED <<bus, ecu, tasks>>
        BY <1>2, <2>3 DEF TearDown, Release
      <3> QED
        BY <1>1, <1>6, <2>3, <3>1 DEF FixturesInv, HeldIsActive, FixtureNames
    <2> QED
      BY <1>7, <2>1, <2>2, <2>3 DEF FixtureNames
  <1> QED
    BY <1>1, <1>5, <1>8 DEF FixturesInv

LEMMA FixturesStep ==
  ASSUME FixturesInv, [Next]_vars
  PROVE  FixturesInv'
PROOF
  <1> USE DEF held_vars, fixture_state, runner_state
  <1>1. CASE UNCHANGED vars
    BY <1>1, FixturesUnchanged DEF vars
  <1>2. ASSUME NEW f \in FixtureNames, SetUp(f) \/ SetUpFails(f)
        PROVE  FixturesInv'
    <2>1. CASE SetUpFails(f)
      BY <2>1 DEF SetUpFails, FixturesInv, StackOrdered, HeldIsActive
    <2> QED
      BY <1>2, <2>1, FixtureSetUp
  <1>3. CASE StartTest \/ EndTest \/ Finish
    BY <1>3 DEF StartTest, EndTest, Finish, FixturesInv, StackOrdered, HeldIsActive
  <1>4. CASE TearDown
    BY <1>4, FixtureTearDown
  <1>5. ASSUME NEW given \in Periods, NEW declared \in Periods, StartCyclic(given, declared)
        PROVE  FixturesInv'
    BY <1>5 DEF StartCyclic, SendPeriodic, FixturesInv, StackOrdered, HeldIsActive
  <1>6. CASE StopCyclic
    <2>1. bus = "open"
      BY <1>6 DEF StopCyclic, FixturesInv, HeldIsActive
    <2> QED
      BY <1>6, <2>1 DEF StopCyclic, FixturesInv, StackOrdered, HeldIsActive
  <1>7. CASE ShutBusDown
    BY <1>7 DEF ShutBusDown, ShutdownBus, FixturesInv, StackOrdered, HeldIsActive
  <1>8. ASSUME NEW frame \in Frames, Arrive(frame)
        PROVE  FixturesInv'
    BY <1>8, FixturesUnchanged DEF Arrive
  <1>9. CASE TakeFrame
    BY <1>9, FixturesUnchanged DEF TakeFrame
  <1>10. ASSUME NEW what, NEW timeout, StartWait(what, timeout)
         PROVE  FixturesInv'
    BY <1>10, FixturesUnchanged DEF StartWait
  <1>11. CASE Tick \/ BecomeTrue
    BY <1>11, FixturesUnchanged DEF Tick, BecomeTrue
  <1>12. CASE WaitStep
    BY <1>12, FixturesUnchanged
    DEF WaitStep, CheckDeadline, Receive, ReceiveNothing, ReceiveOnClosed, Call, JudgeCall, Wake
  <1> QED
    BY <1>1, <1>2, <1>3, <1>4, <1>5, <1>6, <1>7, <1>8, <1>9, <1>10, <1>11, <1>12 DEF Next

LEMMA FixturesInvariant == Spec => []FixturesInv
PROOF
  <1>1. FixturesInv /\ [Next]_vars => FixturesInv'
    BY FixturesStep
  <1> QED
    BY FixturesInit, <1>1, PTL DEF Spec

-----------------------------------------------------------------------------

\* Whatever fixtures a test names and wherever its set-up stops, nothing of it
\* is left when it is done.
THEOREM TestLeavesNothing == Spec => []NothingOutlivesTest
PROOF
  <1>1. FixturesInv => NothingOutlivesTest
    BY DEF FixturesInv, HeldIsActive, NothingOutlivesTest
  <1> QED
    BY FixturesInvariant, <1>1, PTL

\* The ISO-TP thread of the client is gone before the Bus that it reads is shut
\* down and the ECU that it asks is stopped.
THEOREM ClientGoesFirst == Spec => []ClientEndsFirst
PROOF
  <1>1. FixturesInv => ClientEndsFirst
    <2> SUFFICES ASSUME FixturesInv, client = "running"
                 PROVE  (bus = "open" \/ shut_by_test) /\ ecu = "serving"
      BY DEF ClientEndsFirst
    <2>1. PICK i \in DOMAIN active : active[i] = "uds"
      BY DEF FixturesInv, HeldIsActive
    <2>2. \A f \in {"bus", "ecu"} : \E j \in DOMAIN active : active[j] = f
      BY <2>1 DEF FixturesInv, StackOrdered, Needs
    <2> QED
      BY <2>2 DEF FixturesInv, HeldIsActive
  <1> QED
    BY FixturesInvariant, <1>1, PTL

-----------------------------------------------------------------------------
(* The waits.  A wait runs in the body of the test, so that nothing but the  *)
(* wait and the ISO-TP thread takes frames meanwhile; a frame that was       *)
(* offered to it is still there, or that thread took one.                    *)

Wanted == \E i \in DOMAIN inbox : Satisfies(waiting, inbox[i])

WaitShape ==
  /\ waiting = "none" <=> at = "idle"
  /\ waiting = "poll" <=> at \in {"call", "judge", "sleep"}
  /\ waiting # "none" => phase = "body" /\ outcome = "none"
  /\ waiting \in {"none", "poll"} \cup OnBus
  /\ inbox \in Seq(Frames)

OfferedIsThere == offered /\ waiting # "none" => robbed \/ Wanted

\* What held when a sleep ended still holds, and the call after it saw it.
PollSees ==
  /\ held => holds /\ waiting \notin OnBus
  /\ holds \in BOOLEAN
  /\ at \in {"judge", "sleep"} /\ held => sample
  /\ outcome = "timeout" => ~held

WaitInv == WaitShape /\ OfferedIsThere /\ PollSees

LEMMA WaitInit == Init => WaitInv
PROOF
  <1> SUFFICES ASSUME Init PROVE WaitInv
    OBVIOUS
  <1>1. inbox \in Seq(Frames)
    BY DEF Init
  <1> QED
    BY <1>1 DEF Init, WaitInv, WaitShape, OfferedIsThere, PollSees, OnBus

\* Between waits anything may happen to the queue.
LEMMA BetweenWaits ==
  ASSUME WaitInv, waiting = "none", UNCHANGED wait_state, inbox' \in Seq(Frames)
  PROVE  WaitInv'
BY DEF WaitInv, WaitShape, OfferedIsThere, PollSees, wait_state

\* A wait that ends: a time-out only if no sleep of the poll saw its condition.
LEMMA WaitEnds ==
  ASSUME WaitInv, NEW how, EndWait(how), how = "timeout" => ~held,
         phase' = phase, inbox' \in Seq(Frames)
  PROVE  WaitInv'
BY DEF WaitInv, WaitShape, OfferedIsThere, PollSees, EndWait, OnBus

\* A wait that goes on: what it had to find it still has to find.
LEMMA WaitGoesOn ==
  ASSUME WaitInv, NEW label, Goto(label), phase' = phase, inbox' \in Seq(Frames),
         waiting # "none",
         label # "idle", (waiting = "poll" <=> label \in {"call", "judge", "sleep"}),
         label \in {"judge", "sleep"} /\ held => sample,
         Wanted => Wanted'
  PROVE  WaitInv'
BY DEF WaitInv, WaitShape, OfferedIsThere, PollSees, Goto

\* The head of the queue is taken.
LEMMA HeadTaken ==
  ASSUME inbox \in Seq(Frames), inbox # <<>>, inbox' = Tail(inbox), waiting' = waiting
  PROVE  /\ inbox' \in Seq(Frames) /\ Head(inbox) \in Frames
         /\ Wanted => Wanted' \/ Satisfies(waiting, Head(inbox))
PROOF
  <1>1. /\ inbox' \in Seq(Frames) /\ Head(inbox) \in Frames /\ Head(inbox) = inbox[1]
        /\ DOMAIN inbox = 1..Len(inbox) /\ DOMAIN inbox' = 1..(Len(inbox) - 1)
        /\ Len(inbox) \in Nat
        /\ \A i \in 1..(Len(inbox) - 1) : inbox'[i] = inbox[i + 1]
    OBVIOUS
  <1>2. ASSUME NEW i \in DOMAIN inbox, Satisfies(waiting, inbox[i]), i # 1 PROVE Wanted'
    <2>1. i - 1 \in DOMAIN inbox' /\ inbox'[i - 1] = inbox[i]
      BY <1>1, <1>2
    <2> QED
      BY <1>2, <2>1 DEF Wanted, Satisfies
  <1> QED
    BY <1>1, <1>2 DEF Wanted

LEMMA WaitStepKeeps ==
  ASSUME WaitInv, WaitStep
  PROVE  WaitInv'
PROOF
  <1> USE DEF runner_state
  <1>0. WaitShape /\ OfferedIsThere /\ PollSees /\ inbox \in Seq(Frames)
    BY DEF WaitInv, WaitShape
  <1>1. CASE CheckDeadline
    <2>1. /\ at = "check" /\ waiting \notin {"none", "poll"}
          /\ phase' = phase /\ inbox' = inbox
      BY <1>0, <1>1 DEF CheckDeadline, WaitShape, fixture_state
    <2>2. CASE EndWait("timeout")
      <3>1. ~held
        BY <1>0, <2>1
        DEF PollSees, WaitShape, OnBus
      <3> QED
        BY <1>0, <2>1, <2>2, <3>1, WaitEnds
    <2>3. CASE Goto("recv")
      <3>1. Wanted => Wanted'
        BY <2>1, <2>3 DEF Wanted, Goto, Satisfies
      <3> QED
        BY <1>0, <2>1, <2>3, <3>1, WaitGoesOn
    <2> QED
      BY <1>1, <2>2, <2>3 DEF CheckDeadline
  <1>2. CASE Receive
    <2>1. /\ at = "recv" /\ waiting \notin {"none", "poll"} /\ phase' = phase
          /\ inbox # <<>> /\ inbox' = Tail(inbox)
      BY <1>0, <1>2 DEF Receive, WaitShape
    <2>2. inbox' \in Seq(Frames)
      BY <1>0, <2>1
    <2>3. ASSUME NEW how \in {"value", "error"}, EndWait(how) PROVE WaitInv'
      BY <2>1, <2>2, <2>3, WaitEnds
    <2>4. CASE ~Satisfies(waiting, Head(inbox)) /\ Goto("check")
      <3>1. Wanted => Wanted'
        BY <1>0, <2>1, <2>4, HeadTaken DEF Goto
      <3> QED
        BY <2>1, <2>2, <2>4, <3>1, WaitGoesOn
    <2> QED
      BY <1>2, <2>3, <2>4 DEF Receive, Judge
  <1>3. CASE ReceiveNothing
    <2>1. /\ at = "recv" /\ waiting \notin {"none", "poll"} /\ phase' = phase
          /\ inbox' = inbox /\ Goto("check")
      BY <1>0, <1>3 DEF ReceiveNothing, WaitShape, fixture_state
    <2>2. Wanted => Wanted'
      BY <2>1 DEF Wanted, Goto, Satisfies
    <2> QED
      BY <1>0, <2>1, <2>2, WaitGoesOn
  <1>4. CASE ReceiveOnClosed
    BY <1>0, <1>4, WaitEnds DEF ReceiveOnClosed, fixture_state
  <1>5. CASE Call
    BY <1>0, <1>5 DEF Call, fixture_state, WaitInv, WaitShape, OfferedIsThere, PollSees, Wanted, Satisfies
  <1>6. CASE JudgeCall
    <2>1. /\ at = "judge" /\ waiting = "poll" /\ phase' = phase /\ inbox' = inbox
      BY <1>0, <1>6 DEF JudgeCall, WaitShape, fixture_state
    <2>2. CASE EndWait("value")
      BY <1>0, <2>1, <2>2, WaitEnds
    <2>3. CASE ~sample /\ EndWait("timeout")
      <3>1. ~held
        BY <1>0, <2>1, <2>3 DEF PollSees
      <3> QED
        BY <1>0, <2>1, <2>3, <3>1, WaitEnds
    <2>4. CASE ~sample /\ Goto("sleep")
      <3>1. Wanted => Wanted'
        BY <2>1, <2>4 DEF Wanted, Goto, Satisfies
      <3>2. held => sample
        BY <1>0, <2>1 DEF PollSees
      <3> QED
        BY <1>0, <2>1, <2>4, <3>1, <3>2, WaitGoesOn
    <2> QED
      BY <1>6, <2>2, <2>3, <2>4 DEF JudgeCall
  <1>7. CASE Wake
    BY <1>0, <1>7 DEF Wake, fixture_state, WaitInv, WaitShape, OfferedIsThere, PollSees, Wanted, Satisfies, OnBus
  <1> QED
    BY <1>1, <1>2, <1>3, <1>4, <1>5, <1>6, <1>7 DEF WaitStep

LEMMA WaitInvStep ==
  ASSUME WaitInv, [Next]_vars
  PROVE  WaitInv'
PROOF
  <1> USE DEF runner_state, fixture_state
  <1>0. WaitShape /\ OfferedIsThere /\ PollSees /\ inbox \in Seq(Frames) /\ <<>> \in Seq(Frames)
    BY DEF WaitInv, WaitShape
  <1>1. CASE UNCHANGED vars
    BY <1>0, <1>1 DEF vars, wait_state, WaitInv, WaitShape, OfferedIsThere, PollSees, Wanted, Satisfies
  <1>2. ASSUME NEW f \in FixtureNames, SetUp(f) \/ SetUpFails(f)
        PROVE  WaitInv'
    <2>1. waiting = "none" /\ UNCHANGED wait_state
      BY <1>0, <1>2 DEF SetUp, SetUpFails, WaitShape
    <2>2. inbox' \in Seq(Frames)
      BY <1>0, <1>2 DEF SetUp, SetUpFails, Acquire, OpenBus, OpenUdsClient
    <2> QED
      BY <2>1, <2>2, BetweenWaits
  <1>3. CASE StartTest \/ EndTest \/ Finish
    <2>1. waiting = "none" /\ UNCHANGED <<wait_state, inbox>>
      BY <1>0, <1>3 DEF StartTest, EndTest, Finish, WaitShape
    <2> QED
      BY <1>0, <2>1, BetweenWaits
  <1>4. CASE TearDown
    <2>1. waiting = "none" /\ UNCHANGED wait_state
      BY <1>0, <1>4 DEF TearDown, WaitShape
    <2>2. inbox' \in Seq(Frames)
      BY <1>0, <1>4 DEF TearDown, Release, ShutdownBus
    <2> QED
      BY <2>1, <2>2, BetweenWaits
  <1>5. ASSUME NEW given \in Periods, NEW declared \in Periods, StartCyclic(given, declared)
        PROVE  WaitInv'
    BY <1>0, <1>5, BetweenWaits DEF StartCyclic, InBody
  <1>6. CASE StopCyclic
    BY <1>0, <1>6, BetweenWaits DEF StopCyclic, InBody
  <1>7. CASE ShutBusDown
    BY <1>0, <1>7, BetweenWaits DEF ShutBusDown, ShutdownBus, InBody
  <1>8. ASSUME NEW frame \in Frames, Arrive(frame)
        PROVE  WaitInv'
    <2>1. /\ inbox' = Append(inbox, frame)
          /\ offered' = (offered \/ (Satisfies(waiting, frame) /\ left > 0))
          /\ UNCHANGED <<phase, waiting, at, outcome, robbed, holds, sample, held>>
      BY <1>8 DEF Arrive
    <2>2. /\ inbox' \in Seq(Frames) /\ DOMAIN inbox = 1..Len(inbox) /\ Len(inbox) \in Nat
          /\ DOMAIN inbox' = 1..(Len(inbox) + 1)
          /\ inbox'[Len(inbox) + 1] = frame
          /\ \A i \in 1..Len(inbox) : inbox'[i] = inbox[i]
      BY <1>0, <2>1
    <2>3. Wanted \/ Satisfies(waiting, frame) => Wanted'
      BY <2>1, <2>2 DEF Wanted, Satisfies
    <2>4. WaitShape' /\ PollSees'
      BY <1>0, <2>1, <2>2 DEF WaitShape, PollSees
    <2>5. OfferedIsThere'
      BY <1>0, <2>1, <2>3 DEF OfferedIsThere
    <2> QED
      BY <2>4, <2>5 DEF WaitInv
  <1>9. CASE TakeFrame
    <2>1. /\ inbox # <<>> /\ inbox' = Tail(inbox)
          /\ robbed' = (robbed \/ Satisfies(waiting, Head(inbox)))
          /\ UNCHANGED <<phase, waiting, at, outcome, offered, holds, sample, held>>
      BY <1>9 DEF TakeFrame
    <2>2. inbox' \in Seq(Frames) /\ (Wanted => Wanted' \/ Satisfies(waiting, Head(inbox)))
      BY <1>0, <2>1, HeadTaken
    <2>3. WaitShape' /\ PollSees'
      BY <1>0, <2>1, <2>2 DEF WaitShape, PollSees
    <2>4. OfferedIsThere'
      BY <1>0, <2>1, <2>2 DEF OfferedIsThere
    <2> QED
      BY <2>3, <2>4 DEF WaitInv
  <1>10. ASSUME NEW what \in OnBus \cup {"poll"}, NEW timeout, StartWait(what, timeout)
         PROVE  WaitInv'
    <2>1. /\ waiting' = what /\ outcome' = "none" /\ holds' = FALSE /\ held' = FALSE
          /\ at' = IF what = "poll" THEN "call" ELSE "check"
          /\ phase' = phase /\ phase = "body" /\ inbox' = inbox
          /\ offered' => \E i \in DOMAIN inbox : Satisfies(what, inbox[i])
      BY <1>10 DEF StartWait, InBody
    <2>2. what # "none"
      BY DEF OnBus
    <2>3. OfferedIsThere'
      BY <2>1 DEF OfferedIsThere, Wanted, Satisfies
    <2>4. WaitShape' /\ PollSees'
      BY <1>0, <2>1, <2>2 DEF WaitShape, PollSees
    <2> QED
      BY <2>3, <2>4 DEF WaitInv
  <1>11. CASE Tick
    BY <1>0, <1>11 DEF Tick, WaitInv, WaitShape, OfferedIsThere, PollSees, Wanted, Satisfies
  <1>12. CASE BecomeTrue
    BY <1>0, <1>12 DEF BecomeTrue, WaitInv, WaitShape, OfferedIsThere, PollSees, Wanted, Satisfies
  <1>13. CASE WaitStep
    BY <1>13, WaitStepKeeps
  <1> QED
    BY <1>1, <1>2, <1>3, <1>4, <1>5, <1>6, <1>7, <1>8, <1>9, <1>10, <1>11, <1>12, <1>13 DEF Next

LEMMA WaitInvariant == Spec => []WaitInv
PROOF
  <1>1. WaitInv /\ [Next]_vars => WaitInv'
    BY WaitInvStep
  <1> QED
    BY WaitInit, <1>1, PTL DEF Spec

\* A poll that gives up has looked once more after its last sleep, whatever the
\* length of its time-out.
THEOREM PollNeverStopsAsleep == Spec => []PollLooksAfterSleep
PROOF
  <1>1. WaitInv => PollLooksAfterSleep
    BY DEF WaitInv, PollSees, PollLooksAfterSleep
  <1> QED
    BY WaitInvariant, <1>1, PTL

\* Whatever the traffic, the size of the queue and the time-out: a wait that
\* times out was robbed, or the frame it was for is still unread.
THEOREM WaitsLoseNothing == Spec => WaitLosesNothing
PROOF
  <1> DEFINE Loses == outcome' = "timeout" /\ offered /\ waiting # "none" =>
                        robbed \/ \E i \in DOMAIN inbox' : Satisfies(waiting, inbox'[i])
  <1>1. WaitInv /\ [Next]_vars => [Loses]_vars
    <2> SUFFICES ASSUME WaitInv, [Next]_vars, outcome' = "timeout", offered, waiting # "none"
                 PROVE  robbed \/ \E i \in DOMAIN inbox' : Satisfies(waiting, inbox'[i])
      OBVIOUS
    <2>1. outcome = "none" /\ phase = "body" /\ (robbed \/ Wanted)
      BY DEF WaitInv, WaitShape, OfferedIsThere
    <2>2. outcome' # outcome
      BY <2>1
    <2>3. CASE inbox' = inbox
      BY <2>1, <2>3 DEF Wanted
    <2>4. CASE inbox' # inbox
      <3>1. ASSUME Receive PROVE FALSE
        BY <2>2, <3>1 DEF Receive, Judge, EndWait, Goto
      <3>2. ASSUME NEW frame \in Frames, Arrive(frame) PROVE FALSE
        BY <2>2, <3>2 DEF Arrive
      <3>3. ASSUME TakeFrame PROVE FALSE
        BY <2>2, <3>3 DEF TakeFrame
      <3>4. ASSUME NEW f \in FixtureNames, SetUp(f) \/ SetUpFails(f) PROVE FALSE
        BY <2>1, <3>4 DEF SetUp, SetUpFails
      <3>5. ASSUME TearDown \/ ShutBusDown PROVE FALSE
        BY <2>1, <3>5 DEF TearDown, ShutBusDown, InBody
      <3>6. ASSUME WaitStep PROVE FALSE
        BY <2>4, <3>1, <3>6
        DEF WaitStep, CheckDeadline, ReceiveNothing, ReceiveOnClosed, Call, JudgeCall, Wake,
            fixture_state
      <3>7. ASSUME UNCHANGED inbox PROVE FALSE
        BY <2>4, <3>7
      <3> QED
        BY <3>2, <3>3, <3>4, <3>5, <3>6, <3>7
        DEF Next, vars, StartTest, EndTest, Finish, StartCyclic, StopCyclic, StartWait, Tick,
            BecomeTrue, fixture_state
    <2> QED
      BY <2>3, <2>4
  <1> QED
    BY WaitInvariant, <1>1, PTL DEF Spec, WaitLosesNothing

-----------------------------------------------------------------------------
(* Types.  FixturesInv has those of the stack of fixtures, and WaitInv those *)
(* of the queue and of what is waited for.                                   *)

RunnerTypes ==
  /\ requested \subseteq FixtureNames
  /\ \A i \in DOMAIN active : active[i] \in requested
  /\ phase \in {"setup", "body", "teardown", "done"}

FixtureTypes ==
  /\ bus \in {"none", "open", "closed"}
  /\ ecu \in {"none", "serving", "stopped"} /\ client \in {"none", "running", "stopped"}
  /\ tasks \in 0..MaxTasks
  /\ Len(inbox) <= MaxInbox

WaitTypes ==
  /\ at \in {"idle", "check", "recv", "call", "judge", "sleep"}
  /\ left \in 0..MaxTimeout
  /\ outcome \in {"none", "value", "timeout", "error"}
  /\ offered \in BOOLEAN /\ robbed \in BOOLEAN
  /\ sample \in BOOLEAN /\ held \in BOOLEAN

SessionTypes == RunnerTypes /\ FixtureTypes /\ WaitTypes

LEMMA TypesInit == Init => SessionTypes
PROOF
  <1> SUFFICES ASSUME Init PROVE SessionTypes
    OBVIOUS
  <1>1. RunnerTypes
    BY DEF Init, RunnerTypes
  <1>2. FixtureTypes
    BY SessionAssumption DEF Init, FixtureTypes
  <1>3. WaitTypes
    <2>1. left \in 0..MaxTimeout
      BY SessionAssumption DEF Init
    <2>2. offered \in BOOLEAN /\ robbed \in BOOLEAN /\ sample \in BOOLEAN /\ held \in BOOLEAN
      BY Zenon DEF Init
    <2> QED
      BY <2>1, <2>2 DEF Init, WaitTypes
  <1> QED
    BY <1>1, <1>2, <1>3 DEF SessionTypes

\* What the fixtures acquire and release is what they hold.
LEMMA FixtureTypesKept ==
  ASSUME FixtureTypes, NEW f \in FixtureNames, Acquire(f) \/ Release(f)
  PROVE  FixtureTypes'
PROOF
  <1>1. 0 \in 0..MaxTasks /\ Len(<<>>) = 0 /\ 0 <= MaxInbox
    BY SessionAssumption
  <1>2. CASE Acquire(f)
    BY <1>1, <1>2 DEF FixtureTypes, Acquire, OpenBus, OpenUdsClient
  <1>3. CASE Release(f)
    <2>1. CASE f = "bus"
      BY <1>1, <1>3, <2>1 DEF FixtureTypes, Release, ShutdownBus
    <2>2. CASE f # "bus"
      BY <1>3, <2>2 DEF FixtureTypes, Release
    <2> QED
      BY <2>1, <2>2
  <1> QED
    BY <1>2, <1>3

LEMMA RunnerStep ==
  ASSUME FixturesInv, SessionTypes, [Next]_vars
  PROVE  RunnerTypes'
PROOF
  <1> USE DEF runner_state
  <1>0. RunnerTypes /\ active \in Seq(FixtureNames)
    BY DEF SessionTypes, FixturesInv, StackOrdered
  <1>1. ASSUME NEW f \in FixtureNames, SetUp(f)
        PROVE  RunnerTypes'
    <2>1. active' = Append(active, f) /\ f \in requested /\ UNCHANGED <<requested, phase>>
      BY <1>1 DEF SetUp
    <2>2. /\ DOMAIN active = 1..Len(active) /\ DOMAIN active' = 1..(Len(active) + 1)
          /\ Len(active) \in Nat /\ active'[Len(active) + 1] = f
          /\ \A i \in 1..Len(active) : active'[i] = active[i]
      BY <1>0, <2>1
    <2> QED
      BY <1>0, <2>1, <2>2 DEF RunnerTypes
  <1>2. CASE TearDown
    <2>1. active' = Front(active) /\ active # <<>> /\ UNCHANGED <<requested, phase>>
      BY <1>2 DEF TearDown
    <2>2. /\ DOMAIN active = 1..Len(active) /\ DOMAIN active' = 1..(Len(active) - 1)
          /\ Len(active) \in Nat
          /\ \A i \in 1..(Len(active) - 1) : active'[i] = active[i]
      BY <1>0, <2>1 DEF Front
    <2> QED
      BY <1>0, <2>1, <2>2 DEF RunnerTypes
  <1>3. CASE UNCHANGED <<requested, active>> /\ phase' \in {phase, "body", "teardown", "done"}
    BY <1>0, <1>3 DEF RunnerTypes
  <1>4. ASSUME NEW f \in FixtureNames, SetUpFails(f)
        PROVE  RunnerTypes'
    BY <1>3, <1>4 DEF SetUpFails
  <1>5. CASE \/ UNCHANGED vars
             \/ StartTest \/ EndTest \/ Finish
             \/ \E given, declared \in Periods : StartCyclic(given, declared)
             \/ StopCyclic \/ ShutBusDown
    BY <1>3, <1>5 DEF vars, StartTest, EndTest, Finish, StartCyclic, StopCyclic, ShutBusDown
  <1>6. CASE \/ \E frame \in Frames : Arrive(frame)
             \/ TakeFrame
             \/ \E what \in OnBus \cup {"poll"}, timeout \in 0..MaxTimeout : StartWait(what, timeout)
             \/ Tick \/ BecomeTrue
    BY <1>3, <1>6 DEF Arrive, TakeFrame, StartWait, Tick, BecomeTrue
  <1>7. CASE WaitStep
    BY <1>3, <1>7
    DEF WaitStep, CheckDeadline, Receive, ReceiveNothing, ReceiveOnClosed, Call, JudgeCall, Wake
  <1> QED
    BY <1>1, <1>2, <1>4, <1>5, <1>6, <1>7 DEF Next

LEMMA FixtureStep ==
  ASSUME FixturesInv, WaitInv, SessionTypes, [Next]_vars
  PROVE  FixtureTypes'
PROOF
  <1> USE DEF fixture_state
  <1>0. FixtureTypes /\ inbox \in Seq(Frames)
    BY DEF SessionTypes, WaitInv, WaitShape
  <1>1. ASSUME NEW f \in FixtureNames, SetUp(f)
        PROVE  FixtureTypes'
    BY <1>0, <1>1, FixtureTypesKept DEF SetUp
  <1>2. CASE TearDown
    <2>1. Last(active) \in FixtureNames
      BY <1>2 DEF TearDown, Last, FixturesInv, StackOrdered
    <2> QED
      BY <1>0, <1>2, <2>1, FixtureTypesKept DEF TearDown
  <1>3. CASE UNCHANGED fixture_state
    BY <1>0, <1>3 DEF FixtureTypes
  <1>4. CASE ShutBusDown
    <2>1. 0 \in 0..MaxTasks /\ Len(<<>>) = 0 /\ 0 <= MaxInbox
      BY SessionAssumption
    <2> QED
      BY <1>0, <1>4, <2>1 DEF ShutBusDown, ShutdownBus, FixtureTypes
  <1>5. ASSUME UNCHANGED <<bus, ecu, client, inbox>>,
               \/ tasks < MaxTasks /\ tasks' = tasks + 1
               \/ tasks > 0 /\ tasks' = tasks - 1
        PROVE  FixtureTypes'
    BY <1>0, <1>5, SessionAssumption DEF FixtureTypes
  <1>6. CASE StopCyclic \/ \E given, declared \in Periods : StartCyclic(given, declared)
    BY <1>5, <1>6 DEF StopCyclic, StartCyclic, SendPeriodic
  <1>7. ASSUME UNCHANGED <<bus, ecu, client, tasks>>,
               \/ inbox # <<>> /\ inbox' = Tail(inbox)
               \/ Len(inbox) < MaxInbox /\ \E frame \in Frames : inbox' = Append(inbox, frame)
        PROVE  FixtureTypes'
    <2>1. Len(inbox) \in Nat /\ Len(inbox) <= MaxInbox
      BY <1>0 DEF FixtureTypes
    <2>2. Len(inbox') <= MaxInbox
      <3>1. CASE inbox # <<>> /\ inbox' = Tail(inbox)
        <4>1. Len(inbox') = Len(inbox) - 1
          BY <1>0, <3>1
        <4> QED
          BY <2>1, <4>1, SessionAssumption
      <3>2. CASE Len(inbox) < MaxInbox /\ \E frame \in Frames : inbox' = Append(inbox, frame)
        <4>1. Len(inbox') = Len(inbox) + 1
          BY <1>0, <3>2
        <4> QED
          BY <2>1, <3>2, <4>1, SessionAssumption
      <3> QED
        BY <1>7, <3>1, <3>2
    <2> QED
      BY <1>0, <1>7, <2>2 DEF FixtureTypes
  <1>8. CASE TakeFrame \/ Receive \/ \E frame \in Frames : Arrive(frame)
    BY <1>7, <1>8 DEF TakeFrame, Receive, Arrive
  <1>9. CASE \/ UNCHANGED vars
             \/ \E f \in FixtureNames : SetUpFails(f)
             \/ StartTest \/ EndTest \/ Finish
             \/ \E what \in OnBus \cup {"poll"}, timeout \in 0..MaxTimeout : StartWait(what, timeout)
             \/ Tick \/ BecomeTrue
    BY <1>3, <1>9
    DEF vars, SetUpFails, StartTest, EndTest, Finish, StartWait, Tick, BecomeTrue
  <1>10. CASE WaitStep /\ ~Receive
    BY <1>3, <1>10
    DEF WaitStep, CheckDeadline, ReceiveNothing, ReceiveOnClosed, Call, JudgeCall, Wake
  <1> QED
    BY <1>1, <1>2, <1>4, <1>6, <1>8, <1>9, <1>10 DEF Next, WaitStep

LEMMA WaitTypesStep ==
  ASSUME WaitInv, SessionTypes, [Next]_vars
  PROVE  WaitTypes'
PROOF
  <1>0. WaitTypes /\ holds \in BOOLEAN /\ 0 \in 0..MaxTimeout
    BY SessionAssumption DEF SessionTypes, WaitInv, PollSees
  <1>1. CASE UNCHANGED wait_state
    BY <1>0, <1>1 DEF wait_state, WaitTypes
  <1>2. CASE \/ UNCHANGED vars
             \/ \E f \in FixtureNames : SetUp(f) \/ SetUpFails(f)
             \/ StartTest \/ EndTest \/ TearDown \/ Finish
             \/ \E given, declared \in Periods : StartCyclic(given, declared)
             \/ StopCyclic \/ ShutBusDown
    BY <1>1, <1>2
    DEF vars, SetUp, SetUpFails, StartTest, EndTest, TearDown, Finish, StartCyclic, StopCyclic,
        ShutBusDown
  <1>3. ASSUME NEW frame \in Frames, Arrive(frame)
        PROVE  WaitTypes'
    BY <1>0, <1>3 DEF Arrive, WaitTypes
  <1>4. CASE TakeFrame
    BY <1>0, <1>4 DEF TakeFrame, WaitTypes
  <1>5. ASSUME NEW what \in OnBus \cup {"poll"}, NEW timeout \in 0..MaxTimeout,
               StartWait(what, timeout)
        PROVE  WaitTypes'
    BY <1>0, <1>5 DEF StartWait, WaitTypes
  <1>6. CASE Tick
    BY <1>0, <1>6, SessionAssumption DEF Tick, WaitTypes
  <1>7. CASE BecomeTrue
    BY <1>0, <1>7 DEF BecomeTrue, WaitTypes
  <1>8. ASSUME NEW how \in {"value", "timeout", "error"}, EndWait(how)
        PROVE  WaitTypes'
    BY <1>0, <1>8 DEF EndWait, WaitTypes
  <1>9. ASSUME NEW label \in {"check", "recv", "sleep"}, Goto(label)
        PROVE  WaitTypes'
    BY <1>0, <1>9 DEF Goto, WaitTypes
  <1>10. CASE WaitStep /\ ~Call /\ ~Wake
    BY <1>8, <1>9, <1>10
    DEF WaitStep, CheckDeadline, Receive, Judge, ReceiveNothing, ReceiveOnClosed, JudgeCall
  <1>11. CASE Call \/ Wake
    BY <1>0, <1>11 DEF Call, Wake, WaitTypes
  <1> QED
    BY <1>2, <1>3, <1>4, <1>5, <1>6, <1>7, <1>10, <1>11 DEF Next, WaitStep

\* The types of the fixtures, the queue and the wait, for any length of queue
\* and time-out: a test never sets up a fixture that it did not ask for, or one
\* twice, and no queue or deadline passes its bound.
THEOREM TypeCorrect == Spec => []TypeOK
PROOF
  <1>1. FixturesInv /\ WaitInv /\ SessionTypes /\ [Next]_vars => SessionTypes'
    BY RunnerStep, FixtureStep, WaitTypesStep DEF SessionTypes
  <1>2. FixturesInv /\ WaitInv /\ SessionTypes => TypeOK
    <2> SUFFICES ASSUME FixturesInv, WaitInv, SessionTypes PROVE TypeOK
      OBVIOUS
    <2>1. active \in Seq(FixtureNames) /\ IsInjective(active) /\ ToSet(active) \subseteq requested
      BY DEF FixturesInv, StackOrdered, SessionTypes, RunnerTypes, IsInjective, ToSet
    <2>2. /\ waiting \in {"none", "poll"} \cup OnBus /\ inbox \in Seq(Frames)
          /\ holds \in BOOLEAN /\ shut_by_test \in BOOLEAN
      BY DEF WaitInv, WaitShape, PollSees, FixturesInv, HeldIsActive
    <2> QED
      BY <2>1, <2>2 DEF SessionTypes, RunnerTypes, FixtureTypes, WaitTypes, TypeOK
  <1> QED
    BY FixturesInvariant, WaitInvariant, TypesInit, <1>1, <1>2, PTL DEF Spec
=============================================================================
