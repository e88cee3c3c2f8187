----------------------------- MODULE TestSession -----------------------------
(***************************************************************************)
(* One test that uses the fixtures of the pytest plugin (runner/plugin.py) *)
(* and the wait helpers (runner/wait.py): the Bus it is given, the virtual *)
(* ECU, the UDS client whose ISO-TP thread reads the same Bus, and the     *)
(* periodic tasks it starts.                                               *)
(***************************************************************************)
EXTENDS Integers, Sequences, FiniteSets, SequencesExt

CONSTANTS
  MaxInbox,     \* frames the socket of the Bus holds before it drops one
  MaxTimeout,   \* longest timeout given to a wait, in ticks of the clock
  MaxTasks      \* bound on the periodic tasks of the test

ASSUME SessionAssumption == MaxInbox \in Nat /\ MaxTimeout \in Nat /\ MaxTasks \in Nat

VARIABLES
  requested,    \* the fixtures the test names, with those they need
  active,       \* the fixtures that are set up, the latest last
  phase,        \* where the runner is with this test
  bus,          \* the Bus of the fixture: none, open or closed
  ecu,          \* the virtual ECU: none, serving or stopped
  client,       \* the ISO-TP thread of the client: none, running or stopped
  tasks,        \* periodic tasks that are sending on the Bus
  shut_by_test, \* history: the test itself called bus.shutdown()
  inbox,        \* frames in the socket of the Bus
  waiting,      \* the helper the test is in: none, any, message, signal or poll
  at,           \* where in its loop
  left,         \* ticks until its deadline
  outcome,      \* how the last wait ended
  offered,      \* history: a frame this wait was for was on the Bus before its deadline
  robbed,       \* history: the ISO-TP thread took such a frame
  holds,        \* what wait_for_response polls for is true; it stays true
  sample,       \* what the last call() found
  held          \* history: it was true when the last sleep of the poll ended

fixture_state == <<bus, ecu, client, tasks, inbox>>
runner_state == <<requested, active, phase, shut_by_test>>
wait_state == <<waiting, at, left, outcome, offered, robbed, holds, sample, held>>
vars == <<runner_state, fixture_state, wait_state>>

FixtureNames == {"bus", "ecu", "uds"}

\* The arguments of each fixture; scenario and the channel keep no state.
Needs(f) == IF f = "uds" THEN {"bus", "ecu"} ELSE {}

\* "wanted" satisfies what the test waits for; "garbled" has the identifier of
\* the awaited message and a content the database cannot decode; "other" is
\* anything else on the bus, the answers to UDS requests included.
Frames == {"wanted", "garbled", "other"}

Init ==
  /\ requested \in {s \in SUBSET FixtureNames : \A f \in s : Needs(f) \subseteq s}
  /\ active = <<>> /\ phase = "setup" /\ shut_by_test = FALSE
  /\ bus = "none" /\ ecu = "none" /\ client = "none" /\ tasks = 0 /\ inbox = <<>>
  /\ waiting = "none" /\ at = "idle" /\ left = 0 /\ outcome = "none"
  /\ offered = FALSE /\ robbed = FALSE /\ holds = FALSE /\ sample = FALSE /\ held = FALSE

-----------------------------------------------------------------------------
(* What the fixtures acquire and release                                   *)

\* open_bus()
OpenBus == bus' = "open" /\ inbox' = <<>> /\ UNCHANGED tasks

\* Bus.shutdown(): once only; python-can stops the periodic tasks of its bus.
ShutdownBus ==
  IF bus = "closed" THEN UNCHANGED <<bus, inbox, tasks>>
  ELSE bus' = "closed" /\ inbox' = <<>> /\ tasks' = 0

\* open_connection() on a CanConnectionConfig is open_uds_client(): the
\* constructor of its transport starts the thread.
OpenUdsClient == client' = "running"

Acquire(f) ==
  \/ f = "bus" /\ OpenBus /\ UNCHANGED <<ecu, client>>
  \/ f = "ecu" /\ ecu' = "serving" /\ UNCHANGED <<bus, client, tasks, inbox>>
  \/ f = "uds" /\ OpenUdsClient /\ UNCHANGED <<bus, ecu, tasks, inbox>>

Release(f) ==
  \/ f = "bus" /\ ShutdownBus /\ UNCHANGED <<ecu, client>>
  \/ f = "ecu" /\ ecu' = "stopped" /\ UNCHANGED <<bus, client, tasks, inbox>>
  \/ f = "uds" /\ client' = "stopped" /\ UNCHANGED <<bus, ecu, tasks, inbox>>

-----------------------------------------------------------------------------
(* The runner                                                              *)

\* Mutant of SetUp: a fixture is set up for each of those that need it.
SetUpAgain(f) ==
  /\ phase = "setup" /\ f \in requested /\ Needs(f) \subseteq ToSet(active)
  /\ Acquire(f)
  /\ active' = Append(active, f)
  /\ UNCHANGED <<requested, phase, shut_by_test, wait_state>>

SetUp(f) ==
  /\ phase = "setup" /\ f \in requested \ ToSet(active)
  /\ Needs(f) \subseteq ToSet(active)
  /\ Acquire(f)
  /\ active' = Append(active, f)
  /\ UNCHANGED <<requested, phase, shut_by_test, wait_state>>

\* Mutant of SetUpFails: the fixtures set up before it are forgotten.
SetUpAborts(f) ==
  /\ phase = "setup" /\ f \in requested \ ToSet(active)
  /\ Needs(f) \subseteq ToSet(active)
  /\ phase' = "done"
  /\ UNCHANGED <<requested, active, shut_by_test, fixture_state, wait_state>>

\* No such interface, a responder that does not start, identifiers that are
\* none: the fixture raises and holds nothing.  (What a responder that fails to
\* start may leave behind is the subject of EcuLifecycle.)
SetUpFails(f) ==
  /\ phase = "setup" /\ f \in requested \ ToSet(active)
  /\ Needs(f) \subseteq ToSet(active)
  /\ phase' = "teardown"
  /\ UNCHANGED <<requested, active, shut_by_test, fixture_state, wait_state>>

StartTest ==
  /\ phase = "setup" /\ requested = ToSet(active)
  /\ phase' = "body"
  /\ UNCHANGED <<requested, active, shut_by_test, fixture_state, wait_state>>

\* The test returns, fails an assertion or lets an exception out.
EndTest ==
  /\ phase = "body" /\ waiting = "none"
  /\ phase' = "teardown"
  /\ UNCHANGED <<requested, active, shut_by_test, fixture_state, wait_state>>

\* Mutant of TearDown: in the order of the set-up.
TearDownInOrder ==
  /\ phase = "teardown" /\ active # <<>>
  /\ Release(Head(active))
  /\ active' = Tail(active)
  /\ UNCHANGED <<requested, phase, shut_by_test, wait_state>>

TearDown ==
  /\ phase = "teardown" /\ active # <<>>
  /\ Release(Last(active))
  /\ active' = Front(active)
  /\ UNCHANGED <<requested, phase, shut_by_test, wait_state>>

Finish ==
  /\ phase = "teardown" /\ active = <<>>
  /\ phase' = "done"
  /\ UNCHANGED <<requested, active, shut_by_test, fixture_state, wait_state>>

-----------------------------------------------------------------------------
(* What the test does between its waits                                    *)

InBody == phase = "body" /\ waiting = "none"

\* start_cyclic_from_dbc() with or without a period, for a message whose
\* declared cycle time is absent, zero or positive.
Periods == {"absent", "zero", "positive"}

Period(given, declared) == IF given = "absent" THEN declared ELSE given

\* send_periodic() refuses a closed bus and a period of zero.
SendPeriodic(period) == bus = "open" /\ period = "positive" /\ tasks' = tasks + 1

StartCyclic(given, declared) ==
  /\ InBody /\ tasks < MaxTasks
  /\ Period(given, declared) # "absent"
  /\ SendPeriodic(Period(given, declared))
  /\ UNCHANGED <<runner_state, bus, ecu, client, inbox, wait_state>>

\* stop() of the task that start_cyclic_from_dbc() returned
StopCyclic ==
  /\ InBody /\ tasks > 0
  /\ tasks' = tasks - 1
  /\ UNCHANGED <<runner_state, bus, ecu, client, inbox, wait_state>>

ShutBusDown ==
  /\ InBody /\ bus = "open"
  /\ ShutdownBus
  /\ shut_by_test' = TRUE
  /\ UNCHANGED <<requested, active, phase, ecu, client, wait_state>>

-----------------------------------------------------------------------------
(* The bus and its other reader                                            *)

\* What a wait is for: without a predicate any frame will do.
Satisfies(what, frame) == what = "any" \/ (what \in {"message", "signal"} /\ frame = "wanted")

\* A frame of some other node; a full socket drops it.
Arrive(frame) ==
  /\ bus = "open" /\ Len(inbox) < MaxInbox
  /\ inbox' = Append(inbox, frame)
  /\ offered' = (offered \/ (Satisfies(waiting, frame) /\ left > 0))
  /\ UNCHANGED <<runner_state, bus, ecu, client, tasks,
                 waiting, at, left, outcome, robbed, holds, sample, held>>

\* _rxfn(): the ISO-TP thread takes every frame from the Bus and ignores those
\* that are not addressed to it; on a closed bus it finds nothing.
TakeFrame ==
  /\ client = "running" /\ bus = "open" /\ inbox # <<>>
  /\ inbox' = Tail(inbox)
  /\ robbed' = (robbed \/ Satisfies(waiting, Head(inbox)))
  /\ UNCHANGED <<runner_state, bus, ecu, client, tasks,
                 waiting, at, left, outcome, offered, holds, sample, held>>

-----------------------------------------------------------------------------
(* wait_for_message(), wait_for_signal() and wait_for_response()           *)

OnBus == {"any", "message", "signal"}

StartWait(what, timeout) ==
  /\ InBody /\ (what \in OnBus => bus # "none")
  /\ waiting' = what /\ left' = timeout
  /\ at' = IF what = "poll" THEN "call" ELSE "check"
  /\ outcome' = "none" /\ robbed' = FALSE
  /\ offered' = (timeout > 0 /\ \E i \in DOMAIN inbox : Satisfies(what, inbox[i]))
  /\ holds' = FALSE /\ sample' = FALSE /\ held' = FALSE
  /\ UNCHANGED <<runner_state, fixture_state>>

Tick ==
  /\ waiting # "none" /\ left > 0
  /\ left' = left - 1
  /\ UNCHANGED <<runner_state, fixture_state, waiting, at, outcome, offered, robbed,
                 holds, sample, held>>

\* The wait returns or raises.
EndWait(how) ==
  /\ waiting' = "none" /\ at' = "idle" /\ outcome' = how /\ left' = 0
  /\ UNCHANGED <<offered, robbed, holds, sample, held>>

Goto(label) ==
  at' = label /\ UNCHANGED <<waiting, left, outcome, offered, robbed, holds, sample, held>>

\* remaining = deadline - now, and the check of it
CheckDeadline ==
  /\ at = "check"
  /\ IF left = 0 THEN EndWait("timeout") ELSE Goto("recv")
  /\ UNCHANGED <<runner_state, fixture_state>>

\* Mutant of Judge: every frame that is not the one starts the timeout anew.
JudgeAnew(frame) ==
  \/ Satisfies(waiting, frame) /\ EndWait("value")
  \/ waiting = "signal" /\ frame = "garbled" /\ EndWait("error")
  \/ /\ ~Satisfies(waiting, frame) /\ ~(waiting = "signal" /\ frame = "garbled")
     /\ at' = "check" /\ left' = MaxTimeout
     /\ UNCHANGED <<waiting, outcome, offered, robbed, holds, sample, held>>

\* Mutant of Judge: the deadline is looked at before the frame.
JudgeInTime(frame) ==
  \/ left = 0 /\ EndWait("timeout")
  \/ left > 0 /\ Satisfies(waiting, frame) /\ EndWait("value")
  \/ left > 0 /\ waiting = "signal" /\ frame = "garbled" /\ EndWait("error")
  \/ /\ left > 0 /\ ~Satisfies(waiting, frame) /\ ~(waiting = "signal" /\ frame = "garbled")
     /\ Goto("check")

\* The predicate of the wait.  wait_for_signal() compares the identifier first
\* and decodes second, and what decode() raises leaves the wait.
Judge(frame) ==
  \/ Satisfies(waiting, frame) /\ EndWait("value")
  \/ waiting = "signal" /\ frame = "garbled" /\ EndWait("error")
  \/ /\ ~Satisfies(waiting, frame) /\ ~(waiting = "signal" /\ frame = "garbled")
     /\ Goto("check")

\* bus.recv(timeout=remaining) returns a frame.
Receive ==
  /\ at = "recv" /\ bus = "open" /\ inbox # <<>>
  /\ Judge(Head(inbox))
  /\ inbox' = Tail(inbox)
  /\ UNCHANGED <<runner_state, bus, ecu, client, tasks>>

\* It returns None when its time is up, and raises BusClosedError on a Bus that
\* was shut down.
ReceiveNothing ==
  /\ at = "recv" /\ bus = "open" /\ inbox = <<>> /\ left = 0
  /\ Goto("check")
  /\ UNCHANGED <<runner_state, fixture_state>>

ReceiveOnClosed ==
  /\ at = "recv" /\ bus = "closed"
  /\ EndWait("error")
  /\ UNCHANGED <<runner_state, fixture_state>>

BecomeTrue ==
  /\ waiting = "poll" /\ ~holds
  /\ holds' = TRUE
  /\ UNCHANGED <<runner_state, fixture_state, waiting, at, left, outcome, offered, robbed,
                 sample, held>>

\* call() looks at some moment before it returns.
Call ==
  /\ at = "call"
  /\ sample' = holds /\ at' = "judge"
  /\ UNCHANGED <<runner_state, fixture_state, waiting, left, outcome, offered, robbed,
                 holds, held>>

JudgeCall ==
  /\ at = "judge"
  /\ \/ sample /\ EndWait("value")
     \/ ~sample /\ left = 0 /\ EndWait("timeout")
     \/ ~sample /\ left > 0 /\ Goto("sleep")
  /\ UNCHANGED <<runner_state, fixture_state>>

\* Mutant of Wake: the deadline is looked at before the call.
WakeAndCheck ==
  /\ at = "sleep"
  /\ held' = holds
  /\ IF left = 0 THEN waiting' = "none" /\ at' = "idle" /\ outcome' = "timeout"
     ELSE at' = "call" /\ UNCHANGED <<waiting, outcome>>
  /\ UNCHANGED <<runner_state, fixture_state, left, offered, robbed, holds, sample>>

\* sleep(min(poll_interval, remaining)) ends, at the deadline at the latest.
Wake ==
  /\ at = "sleep"
  /\ held' = holds /\ at' = "call"
  /\ UNCHANGED <<runner_state, fixture_state, waiting, left, outcome, offered, robbed,
                 holds, sample>>

WaitStep ==
  \/ CheckDeadline \/ Receive \/ ReceiveNothing \/ ReceiveOnClosed
  \/ Call \/ JudgeCall \/ Wake

-----------------------------------------------------------------------------

Next ==
  \/ \E f \in FixtureNames : SetUp(f) \/ SetUpFails(f)
  \/ StartTest \/ EndTest \/ TearDown \/ Finish
  \/ \E given, declared \in Periods : StartCyclic(given, declared)
  \/ StopCyclic \/ ShutBusDown
  \/ \E frame \in Frames : Arrive(frame)
  \/ TakeFrame
  \/ \E what \in OnBus \cup {"poll"}, timeout \in 0..MaxTimeout : StartWait(what, timeout)
  \/ Tick \/ BecomeTrue \/ WaitStep

\* The clock runs, and a thread inside a wait or the runner is scheduled; a
\* test may go on for ever, and so may the traffic of the other nodes.
Spec ==
  /\ Init /\ [][Next]_vars
  /\ WF_vars(Tick) /\ WF_vars(WaitStep)
  /\ WF_vars(TearDown) /\ WF_vars(Finish)

-----------------------------------------------------------------------------
(* Properties                                                              *)

TypeOK ==
  /\ requested \subseteq FixtureNames
  /\ active \in Seq(FixtureNames) /\ IsInjective(active) /\ ToSet(active) \subseteq requested
  /\ phase \in {"setup", "body", "teardown", "done"}
  /\ bus \in {"none", "open", "closed"}
  /\ ecu \in {"none", "serving", "stopped"} /\ client \in {"none", "running", "stopped"}
  /\ tasks \in 0..MaxTasks /\ shut_by_test \in BOOLEAN
  /\ inbox \in Seq(Frames) /\ Len(inbox) <= MaxInbox
  /\ waiting \in {"none", "poll"} \cup OnBus
  /\ at \in {"idle", "check", "recv", "call", "judge", "sleep"}
  /\ left \in 0..MaxTimeout
  /\ outcome \in {"none", "value", "timeout", "error"}
  /\ offered \in BOOLEAN /\ robbed \in BOOLEAN
  /\ holds \in BOOLEAN /\ sample \in BOOLEAN /\ held \in BOOLEAN

\* Whichever fixtures a test asks for, in whatever order they are set up, one
\* of them failing or not: nothing of it is left when the next test begins.
NothingOutlivesTest ==
  phase = "done" =>
    bus # "open" /\ ecu # "serving" /\ client # "running" /\ tasks = 0

\* The client's thread never outlives the Bus it reads and the ECU it asks,
\* unless the test shut the Bus down itself.
ClientEndsFirst ==
  client = "running" => (bus = "open" \/ shut_by_test) /\ ecu = "serving"

\* A wait ends, however much traffic that is not for it keeps arriving.
WaitsEnd == waiting # "none" ~> waiting = "none"

\* A wait that times out has not let go of a frame it was for: if one was on the
\* Bus in time, it is unread, or the ISO-TP thread took one.
WaitLosesNothing ==
  [][outcome' = "timeout" /\ offered /\ waiting # "none" =>
       robbed \/ \E i \in DOMAIN inbox' : Satisfies(waiting, inbox'[i])]_vars

\* A poll that gives up has looked once more after its last sleep: what was
\* true when that sleep ended is never missed.
PollLooksAfterSleep == outcome = "timeout" => ~held

-----------------------------------------------------------------------------
(* The inductive invariant behind NothingOutlivesTest and ClientEndsFirst: *)
(* what is held is what active lists, and a fixture stands above those it  *)
(* needs.                                                                  *)

StackOrdered ==
  /\ active \in Seq(FixtureNames)
  /\ \A i, j \in DOMAIN active : active[i] = active[j] => i = j
  /\ \A i \in DOMAIN active : \A f \in Needs(active[i]) :
       \E j \in DOMAIN active : j < i /\ active[j] = f

HeldIsActive ==
  /\ bus = "open" => \E i \in DOMAIN active : active[i] = "bus"
  /\ \A i \in DOMAIN active : active[i] = "bus" => bus = "open" \/ shut_by_test
  /\ ecu = "serving" <=> \E i \in DOMAIN active : active[i] = "ecu"
  /\ client = "running" <=> \E i \in DOMAIN active : active[i] = "uds"
  /\ bus # "open" => tasks = 0
  /\ shut_by_test \in BOOLEAN

FixturesInv == StackOrdered /\ HeldIsActive /\ (phase = "done" => active = <<>>)

-----------------------------------------------------------------------------
(* A claim of the repository that the code does not keep.                  *)

\* A wait raises WaitTimeoutError when its "condition never became true within
\* the given timeout" (runner/wait.py): no frame it was for was received on the
\* Bus while it waited.
TimeoutMeansNever == outcome = "timeout" => ~robbed
=============================================================================
