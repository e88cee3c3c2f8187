# Formal models of tapwright

tapwright is a Python toolkit for testing automotive ECUs: a CAN hardware
layer, UDS diagnostics over ISO-TP and over DoIP, a simulated ECU to test
against, and a pytest plugin. This directory holds TLA+ models of the parts of
it that run concurrently or keep state over a conversation, a test or a series
of pull requests, the TLC runs that check them on small instances, and theorems
about them proved with TLAPS.

Paths below are relative to the repository; `diag/`, `hal/`, `runner/`, `buses/`
stand for `src/tapwright/diag/` and so on.

## 1. Inventory

| Component | State it keeps | Operations | Talks to |
|---|---|---|---|
| UDS state machine of the virtual ECU, `diag/virtual_ecu/protocol.py` | session, unlocked levels, pending seed, the scenario's dict of DIDs | `handle_request`, five services | called by both responders; reads and writes the `Scenario` |
| Scenario, `diag/virtual_ecu/scenario.py` | configuration; its `dids` are rewritten by writes | `matching_injection` | shared by every ECU made from it |
| CAN responder, `diag/virtual_ecu/transport.py` (`ecu.py` delegates to it) | serve thread, two Events, the error of a start, bus and stack | `start`, `stop`, the loop of the serve thread | python-can, can-isotp, the state machine |
| DoIP responder, `diag/virtual_ecu/doip_transport.py` (`doip_ecu.py`) | serve thread, server socket, one connection, its activation and parser | `start`, `stop`, accept loop, message handling | TCP clients, doipclient's parser, the state machine |
| Interception point, `diag/interception.py` | server socket, one observer, its receive buffer | `open`, `close`, `_publish` around every send and receive | the wrapped connection; observer processes over TCP |
| ISO-TP transport and connection, `diag/isotp_transport.py`, `diag/connection.py` | open and closed flags, one stashed protocol error, the stack's queues | `send`, `recv`, `close`, `open`, `empty_rxqueue`, the adapters called by the stack's thread | udsoncan above, the HAL bus below |
| HAL bus, `hal/bus.py` | closed flag | `send`, `send_periodic`, `recv`, `shutdown` | python-can; shared by clients, wait helpers and fixtures |
| Wait helpers, `runner/wait.py` | none beyond a call: a deadline | three waits | a bus, a callable |
| pytest plugin, `runner/plugin.py`, `runner/cli.py` | options | fixtures `bus`, `ecu`, `uds` | all of the above |
| Cyclic sending, `buses/cyclic.py` | the task of python-can | `start_cyclic_from_dbc` | a database, the bus |
| Client factories, `diag/uds_client.py`, `diag/doip_client.py`, `diag/connection_config.py` | none | constructors | udsoncan, doipclient |
| ODX import, `diag/odx_import.py` | a loaded database | name resolution | odxtools |
| Databases, `dbc_arxml/`; traces, `trace/`; report | handles of libraries | conversions, file I/O | cantools, pya2l, python-can |
| Fixture gate, `tools/check_fixtures.py` | `fixtures/provenance.toml` | the gate, `--update` | the file tree of a branch |
| Guardrails, `tools/check_blast_radius.py` | none: commit messages and the pull request | the gate | git |
| Coverage ratchet, `tools/coverage_ratchet.py` | `coverage-floor.json` | the gate, `--update` | a coverage report |
| Other checks, `tools/check_licences.py` and others | none | batch checks | text of the file tree |

What is hard here, and what makes each part correct:

* **State machine.** Correctness is about conversations, not about one request:
  which session the tester may believe the ECU to be in after refusals,
  injected failures and restarts; which key is right at this moment; what a
  read returns after writes. Restarting an ECU on the same scenario starts a new
  state machine over the dict that the old one wrote to.
* **Responders.** `start()` and `stop()` synchronise with a thread through
  Events, a joined handle and plain attributes. What start reports must be
  what its own thread did; after stop nothing may be left running or open; both
  must come back whatever clients or the operating system do. Over DoIP, TCP may
  cut or merge messages, connections are served one at a time, and activation
  belongs to one connection.
* **Interception.** An external process sits in the path of every message. It
  may be slow, answer late, answer too much, never finish a line, or be
  replaced by another. No message may get the answer to another one, and none may
  be held up.
* **ISO-TP client.** Answers arrive late, corrupt or not at all; errors come from
  another thread and wait in one unprotected attribute; the bus may be shut down
  by someone else. A call must end, must not return a stale answer, and must
  report an error once.
* **A test and its fixtures.** Fixtures come up in the order of the test's
  arguments, any of them may fail, and what came up must go down in the reverse
  order, with the periodic tasks. Wait helpers look at a deadline, a queue and a
  predicate in turn, on a Bus whose frames the client's ISO-TP thread also takes.
* **The merge gate.** The fixture gate, the guardrails and the ratchet are batch
  programs, but each keeps a file in the tree that the next pull request starts
  from and that a branch may edit by hand or with `--update`. What they are
  for - an oracle changes only with an explanation, a fixture is vouched for,
  coverage does not fall - is a property of that history and of no single run.

The hazards, each at its line and with the properties that cover it, are listed
in `PROJECT.json`.

## 2. Modules

| Module | Models | Proofs |
|---|---|---|
| `Scenario` | configuration types, `matching_injection` as a definition | `EcuProtocolProofs` |
| `InjectionMatch`, `MCInjectionMatch` | the loop of `matching_injection`, one action per iteration | `InjectionMatchProofs` |
| `EcuProtocol`, `MCEcuProtocol` | `ProtocolState` | `EcuProtocolProofs` |
| `Responder` | the contract of `start()` and `stop()` (abstract) | |
| `EcuLifecycle` | `ECUTransport`: implements `Responder` | `EcuLifecycleProofs` |
| `DoipResponder` | `DoIPTransport`: implements `Responder` | `DoipResponderProofs` |
| `Interception` | `InterceptingConnection` and its observers | `InterceptionProofs` |
| `Exchange` | what calls that send a request and wait for an answer may expect (abstract) | `IsoTpClientProofs` |
| `IsoTpClient` | `TapwrightIsoTpConnection`, `IsoTpTransport`, the HAL bus under them: implements `Exchange` | `IsoTpClientProofs` |
| `TestSession` | one test: fixtures, wait helpers, cyclic sending, two readers of one Bus | `TestSessionProofs` |
| `FixtureGate` | manifests, `verify()`, `update()` as operators | |
| `BlastRadius` | what the guardrails see of a branch and refuse | |
| `CoverageRatchet` | measuring, comparing and raising the floor | |
| `MergeGate`, `MCMergeGate` | pull requests through these three gates | `MergeGateProofs` |

How they compose: `EcuProtocol` EXTENDS `Scenario`, whose constants are the
scenario. The responders treat serving one request as one step (`Handle`,
`Answer`), the content of which is `EcuProtocol`'s `handle_request`. Both
responders are shown to implement `Responder` by a refinement mapping, and the
client `Exchange`. The
clients (`Interception`, `IsoTpClient`) meet an ECU that may do anything the
responders can be seen to do, and worse. `TestSession` puts a client's thread, a
wait and the fixtures on one Bus; what a responder that fails to start may leave
behind is the subject of `EcuLifecycle` and not repeated there. `MergeGate`
EXTENDS the operators of the three gates and adds the branch, its author and
main.

Operators named "... Mutant of X" in a comment are plausible bugs. Each property
of a passing run is paired in `PROJECT.json` with one of them: with X replaced by
the mutant TLC finds the property violated, which shows that the property can
fail for a reason in the code.

### EcuProtocol

Real bytes: a request is a sequence of 0..255, a reply is the bytes the code
builds. The variables are the attributes of `ProtocolState`, `dids` is the shared
`scenario.dids`, and `log` is the conversation. There is one action per branch
of `handle_request` and `NewProtocolState` for another instance over the same
scenario. An "oversized" injection is not an early answer: it pads what the read
handler returns, and only that one.

The properties are stated over `log`, from the tester's point of view:

* `SessionFollowsConversation`, `GatedReads`: the session is the last one
  announced; a gated DID is read only in its session.
* `ReadsReturnLastWrite`: a read returns the last acknowledged write, across
  restarts, with padding never stored.
* `AccessRulesKept` (proved): writes never loosen a DID.
* `KeyAnswersSeed`, `UnlockedByKey`: a key is accepted exactly when it is right and
  answers an unused seed of its level; a level is unlocked exactly when its key was
  accepted since boot.
* `RefusalsChangeNothing` (an action property).

### InjectionMatch

The loop keeps the last wildcard while it looks for an exact match, and returns
early. `ReturnsMatch` relates its result to `IsMatch`, the definition that
`EcuProtocol` uses; `LoopInv`, of which it is a part, is its inductive invariant.

### EcuLifecycle and Responder

`ECUTransport`: the caller's place inside `start()` or `stop()`, and every serve
thread's place inside `_run`, one label per statement that touches shared state.
The attributes `_bus` and `_stack` hold the number of the thread that made them,
so that a thread closing another's bus can be seen. `_started.wait(5)` may return
False whenever the Event is not set, and `join(2)` may return whatever the thread
does; a history variable `expired` says that one of them did. Creating the bus or
the stack may fail at any call. `Handle` (0.2 s of recv, and a request) catches
every exception, as the code does. Nothing is assumed of the serve threads: they
may stop anywhere, as a thread in a hanging `can.Bus()` does.

* `OneServeThread`, `StartReturnsServing`, `StopReleases`: what holds until a
  time-out expires. After that a thread left behind works on the fields of the
  next start, and they are false.
* `CallsReturn`: both calls come back whatever the threads do. `StartIsAnswered`: if
  the threads are scheduled (`ThreadsScheduled`), every thread that a start makes
  sets the Event that start waits for, whether it came up or failed.

`Responder` says what the caller is promised: start returns when requests are
served or raises when they are not; serving begins inside start; it ends inside
stop, or because the service broke down, and what broke down stays down until it
is stopped and started anew; a caller whose time runs out gives these promises up.
The mapping: `serving` is "a thread is in its loop", and `broken` is FALSE: the loop
over CAN catches every exception, so this responder never breaks down.

### DoipResponder

The serve thread, its caller and clients over TCP. A connection's byte stream is
a sequence of messages, a message counting as received with its last byte; each
`recv` takes any number of them, and perhaps the first bytes of the next. The
parser gives back one message for each `recv`, as doipclient's does when called
as the code calls it, and keeps the others. `EndConnection` is every way
out of `_handle_connection`; a `sendall` that fails is one of them, for a client
that is gone or for one that does not take the bytes within 0.2 s. `AcceptFails` is
the `except OSError: break` around `accept()`: the thread ends and the server is
closed although nobody called `stop()`. It may happen at any time and never has to
(it is not part of the fair `Serve`). Kinds: routing activation, diagnostic request,
another known message, bytes the parser rejects.

* `AnsweredInOrder`: replies are to the connection's own messages, in order,
  none skipped or doubled up to the last one answered, and a request is
  acknowledged exactly after an activation of the same connection.
* `ConnectionsOwned`: no connection is left without someone to serve or refuse it.
* `ClientsAnswered`, `CallsReturn` (liveness).
* `KeepsPromise` (refinement of `Responder`): `broken` is "the thread has ended and no
  stop is in progress". So a start returns with a listening server, or with one that
  has broken down since; after a breakdown nothing serves until a stop and another
  start; and nothing ever serves after a stop.

### Interception

The client's thread in `_publish`; observers that connect, answer, volunteer
lines, trickle bytes that end no line (`partial`) and hang up at any time. A
payload is the number of its publication, so that a late answer can be
recognised. A line counts as received with its newline, and is classified by
what `_publish` does with it.

* `ReplyAnswersItsMessage`: from an observer that keeps to one line per message
  only the answer to *this* message can replace it, whatever the timing.
* `ReplyFromItsReader`: from any observer, a replacement comes from the one that was
  shown the message.
* `SocketsOwned`, `PublishEnds`.

### IsoTpClient and Exchange

One client thread makes calls of udsoncan's `send_request` (modelled from how
`diag/connection.py` and its tests use it): drain the receive queue, send, wait.
Each `recv` is split where another thread can come between: taking from the queue,
looking at `_protocol_error`, clearing it. The ISO-TP thread transmits,
reassembles and stashes errors; the ECU answers once, corruptly or never, as
late as it likes; the bus may be shut down at any time, after which sending ends
the ISO-TP thread and receiving looks like silence. `close()` and `open()` come
between calls, which is where a udsoncan client makes them.

* `WrongAnswerOnlyAfterFailure`, `AnswerFollowsDrain`: what answer a call may return.
* `RequestsReturn`: a call ends whatever the ECU, the bus and the thread do.
* `AnswersInTurn` (refinement): the client implements `Exchange`.

`Exchange` allows requests and answers to be lost, and an answer to come so late
that a later call takes it for its own, but no answer to be returned twice,
before its request was sent, or after the answer to a later request. The mapping:
an answer is still open when its request or itself is in one of the stack's
queues, with the ECU, on the bus or in the client's hands (`InFlight`); a call has
sent its request when its `recv` is no longer one that drains the queue (`Phase`).

### TestSession

The runner sets up the fixtures a test names, in any order their arguments allow
(`uds` asks for `bus` and `ecu`); any of them may fail. The body starts waits and
periodic tasks and may shut the bus down itself; it ends at any time between
waits. Teardown takes the fixtures in reverse order. The bus has one queue, from
which a wait and the client's ISO-TP thread both take. A wait is split at every
place where time passes or another thread can come between: the check of the
deadline, recv, the predicate; for a poll, the call, its judgement, the sleep. The
clock (`Tick`) may run at any of them.

* `NothingOutlivesTest`, `ClientEndsFirst`: what fixtures leave behind, and in which
  order they go.
* `WaitLosesNothing`: a wait that times out has not thrown away a frame it was
  for; `PollLooksAfterSleep`: a poll looks once more after its last sleep;
  `WaitsEnd`: the deadline does not move with unrelated traffic.

### FixtureGate, BlastRadius, CoverageRatchet and MergeGate

A tree is the files, the manifest, the coverage its tests reach and the floor
file. A manifest is a function from the lines of the file at which an entry
stands to the entries, since only their order matters: `verify()` goes by the last
entry of a path, `update()` writes the entries anew in the order of the files. A
content stands for its hash. Two facts no tool sees are kept as part of an entry:
which content its signer looked at (`verified`), and whether `--update` has
replaced the hash since (`rewritten`). Coverage is a pair of counts; `Below`,
`Rounded` and `Raised` compute in hundredths of a percent, as the code does.

On a branch files are written, removed and moved, entries are filled in,
repeated or removed by hand, the two `--update` commands run, the floor file may
be written or removed by hand, a commit may carry the trailer and the pull request may declare a
radius. `Merge` is allowed when the three gates pass. The rename detection of git
is a relation (`Renames`): files of equal content are always paired, others may be.

* `VouchedOrRewritten`: every fixture on main has an entry somebody signed for
  this content, unless `--update` has rewritten its hash. The exception is what
  the tool does: `update()` keeps `verified_by` over a changed file.
* `UpdateSettles`: after `--update` only people have something left to do.
* `OraclesExplained`, `RadiusRespected`: no oracle changes or goes without the trailer,
  and nothing outside a declared radius changes, *but for the old names of renames*.
  `changed_files()` keeps of a rename that git reports the new name only, so an oracle
  that moves to a path which holds none, and a file that moves into the radius, pass
  without a word. The properties say that exactly these escape: there is one set of
  renames git may have reported (each new file the new name of at most one old one)
  that accounts for every unexplained loss. Without the exception they are false; see
  the divergences below.
* `LockedIn`: the floor falls only where a branch edited `coverage-floor.json` by hand,
  and as long as it stands, what is merged is covered as well as the floor of main
  asked for, or measures nothing. That the floor never falls is false.

## 3. Runs

| Run | Instance | Shows |
|---|---|---|
| `ecu` | 28 requests (two DIDs, two levels, five injections), 4 exchanges after the boot; about 640 000 conversations | all properties of `EcuProtocol` but the proved `AccessRulesKept` |
| `injection_match` | every list of up to 3 of 6 injections | `ReturnsMatch` |
| `lifecycle` | 3 starts, any number of stops, time-outs that expire, threads that hang; 208 000 states | invariants, `CallsReturn`, `StartIsAnswered`, `KeepsPromise` |
| `doip` | 2 connections, 2 messages each, one client patient; any `sendall` or `accept()` may fail; 272 000 states | all properties of `DoipResponder` |
| `interception` | 2 observers, 3 publications, 2 lines under way from each | all properties of `Interception` |
| `isotp_client` | 4 calls; 64 500 states | all properties of `IsoTpClient` but the proved `TypeOK` |
| `test_session` | every set of fixtures and order of set-up, 3 frames in the socket, time-outs of up to 3 ticks, 2 tasks | all properties of `TestSession` |
| `merge_gate` | two fixtures, an oracle and another file, 3 contents (one too large), 2 lines of manifest, one floor written by hand, 2 pull requests of 3 steps; 2.4 million states | all properties of `MergeGate` |
| `lifecycle_leak` | violation | finding 1 |
| `interception_trickle` | violation | finding 2 |
| `isotp_lost_error` | violation | finding 3 |
| `test_session_theft` | violation | finding 4 |

**Why the bounds are enough.** `MaxExchanges`: seed, disturbance, key, use is the
longest pattern a property distinguishes; longer conversations are covered by the
theorems. `MaxStarts = 3`: a thread, its predecessor and its successor; at most
one is alive at a time, by `OneServeThread`. DoIP: two connections give an active
and a waiting one and a successor; two messages give a message behind another in
one chunk, and a request before and after activation. Interception: three
publications let an answer be late by one and by two, two observers allow a
replacement, and two lines on a wire let one be left in the buffer.
`MaxRequests = 4`: a failed call, one that takes its late answer, one after that and
a close. `TestSession`: a queue of three can hold a frame for the wait behind and
before others, and three ticks allow a check, a recv and a last look at different
times. `MergeGate`: two lines make a duplicate, a stale and a swapped entry
possible; two fixtures allow a move from one to the other, which `--update` has to
put in order; with three steps a file is changed, updated and explained in one
pull request, and the second starts from what the first left. Three reports give
one that is rounded up, a better one that is rounded down and one that counts
nothing; the hand-written floor is below the first floor for lines, and for branches
between the first floor and what `--update` would raise it to. Longer histories are covered by the theorems. Each is a plain guard on the action that makes the calls or the
messages; no state is cut off in the middle of a call.

**Fairness.** Only threads of tapwright itself are fair, and only inside a call or
a loop whose waits all have time-outs (`recv` of 0.2 s, `REPLY_TIMEOUT`, the
request time-out, `join(timeout)`). How often calls are made, what clients,
observers and the ECU do, and whether the bus stays up, is never assumed.
In `EcuLifecycle` nothing is assumed of the serve threads: `CallsReturn` rests on the
caller alone, and `StartIsAnswered` states its assumption about the threads as its
hypothesis. In `TestSession` the clock runs, a wait and the runner's teardown are
scheduled; how long a test goes on, what arrives and what the ISO-TP thread
does is not assumed. `MergeGate` has no fairness: nobody has to finish a pull
request. `CHECK_DEADLOCK` is off everywhere: a finished conversation, the last
start, the end of the test or the last merge of the bound is a state in which
nothing more has to happen.

### Findings

1. **A failed start can leak its bus.** If the ISO-TP stack cannot be built after
   the bus was opened, the except clause in `transport.py` reports the error
   without shutting the bus down, and `stop()` finds no thread that would.
2. **A trickling observer blocks the client.** `REPLY_TIMEOUT` restarts with each
   chunk; `interception.py:45-46` excludes such a "denial-of-service".
3. **A protocol error can be lost.** `recv()` reads `_protocol_error` and clears
   it in two steps; an error stored in between is never raised. The language allows a
   switch of threads there; a CPython that switches only at calls and backward jumps
   may not make one inside that line, a free-threaded build can.
4. **A wait can miss a frame that was received.** The `uds` fixture hands its
   client the very Bus of the `bus` fixture, and the client's ISO-TP thread takes
   every frame from it; `runner/wait.py:40-42` says a wait gives up when its
   condition "never became true". `WaitLosesNothing` shows that nothing else takes
   frames from a wait.

Also met while modelling, and not made into runs:

* `_write_did` looks at `read_only` only; `scenario.py:33-35` says of a gated DID
  that it is "only readable/writable in the given session".
* Only `JSONDecodeError` is caught where an observer's line is parsed: a JSON number,
  a `data` that is no string, or bytes that are not UTF-8 raise out of `send()` or
  `wait_frame()`; `interception.py:26` says anything else passes through.
  (`Interception` has these lines, as the verdict "uncaught".)
* Writes change `scenario.dids`, although `scenario.py:8-9` says that `ProtocolState`
  "only ever reads" a scenario (`ReadsReturnLastWrite` describes what a restarted
  ECU then sees).
* A serve thread that outlived both time-outs still works on the fields of the
  next start, and can answer it or close its socket (hence `expired`).
* After the bus was shut down, calls end in time-outs and not in the
  `TransportClosedError` that the comment in `_rxfn` announces; a protocol error
  left by an earlier transfer makes the next call fail before its request is sent.
* `coverage_ratchet.py --update` stores the rounded coverage: when it was rounded
  up, the same code fails the next run. A report that names no gated package
  leaves the ratchet idle, and one that counts no branches is covered to 100 %.
* `check_blast_radius.py:7-10` says that "any modification under" the protected paths
  "must be accompanied by a `fixture-change:` trailer", and lines 101-105 that this
  includes removing one; an oracle that git reports as renamed to an unprotected path
  is merged without (line 74 keeps `parts[-1]`, the new name). In the model: write
  the content of the oracle elsewhere, remove the oracle, merge.
* `check_blast_radius.py:17-18` says that changes outside the declared set fail; a file
  outside that is renamed to a path inside is not seen, for the same reason.
* `coverage_ratchet.py:10-11` says "the floor may rise and never falls" and that coverage
  "gets locked in". The gate reads the floor from the branch it judges (lines 89-92), so
  a branch that writes a lower number, or removes the file, is measured by that.
  Line 139 tells people "Do not lower the floor"; no check does.
* The comment at `doip_transport.py:144` explains the `OSError` that ends the accept loop
  as a "socket closed out from under accept() during stop()". `stop()` closes no
  socket; any other failure of `accept()` comes here too, and ends serving without a
  word to the caller: `start()` then refuses ("already started") until `stop()` is called.
* A frame that was in the socket before a wait began satisfies it. A trailer is
  looked for as a substring of the commit messages.

## 4. Proofs

All proofs are checked by tlapm to the last leaf. They assume the named
assumptions on the constants (types, and that 0 or -1, which stand for None,
are no value), and nothing about their size. `FixtureAssumption` also says that a
manifest has room for an entry of each file.

* `InjectionMatchProofs`: `LoopReturnsMatch`, with `LoopInv` as the inductive
  invariant: no exact match has been passed, and the wildcard remembered is the
  last one passed.
* `EcuProtocolProofs`: `matching_injection` is well defined, and `InjectionIsScoped`:
  what it returns is configured for this service and this selector or any. Of the
  protocol itself `TypeCorrect`, `AccessRulesAreKept`, `SessionIsAnnounced`,
  `ReadsAreGated`, `KeysAnswerSeeds`, `LevelsUnlockedByKey`, `ReadsSeeLastWrite`,
  `RefusalsAreQuiet`, for every scenario, set of requests and length of
  conversation. `GatedReads` and `KeyAnswersSeed` speak about the whole log and are
  not inductive. They are strengthened by what the state has to do with the log:
  `SessionFollowsConversation` (the session is the last announced) and
  `PendingFollowsConversation` (a level is pending exactly when its seed is
  outstanding); `ReadsReturnLastWrite` likewise by `ValuesFollowConversation` (the
  stored value of a DID is the last one acknowledged). The step proof first
  reduces the actions to a few effects on session, seed and log, then shows that
  appending an entry keeps what was said about earlier ones.
* `EcuLifecycleProofs`: `OneThreadServes`, `StartedIsServing`, `StoppedIsReleased`
  and the refinement `KeepsItsPromise`, for any number of starts and with time-outs
  that may expire, all from `LifecycleInv`. Until one has expired this invariant
  bounds the place of the one thread at work by the caller's place
  (`CallerKnowsThread`) and says whose bus and stack the shared fields hold at each
  place of the thread (`ThreadOwnsFields`).
* `InterceptionProofs`: `OneObserverAttached`, `ReplacedByItsReader` and
  `RepliesAnswerTheirMessage`, for any number of observers, publications and lines
  under way. The first is inductive with little help: while the client's thread
  is inside `_publish` the observer it holds is attached. The second needs that
  every line on a wire is by the observer whose wire it is and every line in the
  buffer by the attached one, and that between `sendall` and the end of reading
  this observer has been shown the current message. The third is about time. An
  observer that sends one line per message owes at most one answer, which is at
  one place: still to be given, on its wire or in the buffer; and it is an answer
  to the message in progress, since an observer whose answer did not come in
  time was dropped together with its wire and the buffer.
* `IsoTpClientProofs`: `TypeCorrect`, `AnswersAreFresh`, `NoWrongAnswerBeforeFailure`
  and the refinement `AnswersReturnedInTurn`, for any number of calls.
  `AnswersAreFresh` rests on `ReceivedAfterDrain`: from the moment a call has found
  the queue empty, all that is in the queue came after that moment, and the call
  returns nothing else. `NoWrongAnswerBeforeFailure` rests on `OneInTransit`: while no call has failed, the request or its answer is in one
  place at most (a queue of the stack, the ECU, the bus, the client's hands), it is
  the current call's, and between calls there is none. A failure ends that, which
  is why the property has to allow a wrong answer afterwards.
  The refinement rests on `QueuesInTurn`: from the client's hands through the
  receive queue, the bus and the ECU to the transmit queue the numbers of the calls
  rise, within each and from one to the next, and the last is the last call that
  sent its request; the invariant names the four numbers at which one queue ends
  and the next begins, so that each step moves one of them. `NoAnswerTwice` then
  follows from `Exchange` alone.
* `TestSessionProofs`: `TestLeavesNothing` and `ClientGoesFirst`, for every capacity
  and time-out, from `FixturesInv`: `active` is a stack in which each fixture stands
  above those it needs (`StackOrdered`), and what is held is exactly what it lists
  (`HeldIsActive`). Teardown pops it, so a client goes before its bus and ECU.
  `WaitsLoseNothing` and `PollNeverStopsAsleep` follow from `WaitInv`: a wait runs in
  the body only, where nothing empties the queue, so that a frame offered to it is
  there or was taken by the ISO-TP thread (`OfferedIsThere`); and what held when a
  sleep ended is seen by the call that follows (`PollSees`). `TypeCorrect` needs both.
* `DoipResponderProofs`: `TypeCorrect`, `NoConnectionForgotten`, `RepliesInOrder` and the
  refinement `KeepsItsPromise`, for any set of connections and any number of
  messages. `ConnectionsOwned` is inductive together with what the caller's place says of the thread's: it is on its
  way up only inside a start, and asked to stop only inside a stop
  (`CallerKnowsThread`); its end is the end of a stop or, by `AcceptFails`, a breakdown.
  `AnsweredInOrder` speaks about all replies of a connection and says nothing of
  what is still to come. It is strengthened by a count of the messages handled
  (`Progress`): the parser followed by the uplink holds the messages after that
  number, in order and without a gap; every reply is to one up to it, and each of
  these that can be answered was; and `activated` is whether one of them was an
  activation. The lemmas on queues say that whatever number of messages a chunk
  ends, the parser followed by the uplink loses exactly its first message.
* `MergeGateProofs`: `TypeCorrect`, `FixturesVouchedFor`, `UpdateLeavesPeople`,
  `OraclesNeedExplanation`, `RadiusHolds`, `CoverageLockedIn`, for every set of paths
  and contents and any number of steps and merges, from `MergeInv`. A gate sees
  only the branch it runs on, so the invariant is about branches: a filled-in
  entry was signed for its hash unless that was rewritten (`SignedTree`), which
  turns into `VouchedOrRewritten` when the gate compares hashes; and the floor of a
  branch is never below that of main unless somebody wrote or removed it by hand
  (`FloorKept`). Lemmas
  establish what `Updated` and `Changes` return for every manifest and tree.

Every invariant, action property and refinement that a passing run checks is
stated by one of these theorems. Only model-checked are the liveness
properties, which are true under fairness and beyond the proof system:
`CallsReturn` (of both responders), `StartIsAnswered`, `ClientsAnswered`, `PublishEnds`,
`RequestsReturn` and `WaitsEnd`.

## 5. Abstractions and what is left out

* Log messages, exception texts and message layouts (DoIP headers, JSON fields,
  ISO-TP frames) are abstracted to what the control flow distinguishes. The raw
  frame that a "truncated" injection sends is one reply kind, `Malformed`; what a
  client's ISO-TP stack makes of it is a corrupt answer of `IsoTpClient`.
* An ISO-TP transfer is whole or wrong. can-isotp's segmentation is a
  library's. Frames of other participants on the bus are filtered by identifier
  there and left out.
* Why an `accept()` or a `sendall` fails is left out: either may fail at any call.
  `conn.close()` and `server.close()` are taken to succeed.
* Time is not measured. A time-out is a step that may happen when what it waits
  for has not; `_publish` can therefore time out on any observer, and a 5 s wait can
  expire before a 0.2 s one. That only adds behaviours.
* `DoipResponder` leaves out the time-outs of start and stop: they are the same
  statements that `EcuLifecycle` models.
* `TestSession`: python-can is taken to stop the periodic tasks of a bus that is
  shut down, and `recv` to honour its time-out. The clock counts a few ticks; only
  whether the deadline has passed matters to the code.
* `MergeGate`: main does not move under an open branch, and whoever fills in an
  entry looks at the file whose hash it holds: the tools rely on both and check
  neither. A fixture's size is a property of its content. Which of the required
  fields of an entry is missing is not told apart, nor are glob patterns from the
  files they match.
* Not modelled: the DoIP client factory and the option defaults of the plugin (no
  state), conversions of the databases, traces and ODX loading (libraries and file
  formats; `resolve_service_name` is one search in a list), the report package
  (empty), licence, SPDX and dependency checks and the telemetry (single passes
  over text).

## 6. Plan

Done, in this order: `Scenario`, `InjectionMatch`, `EcuProtocol`, `Responder`,
`EcuLifecycle`, `DoipResponder`, `Interception`, `IsoTpClient`, then `EcuLifecycle` with
expiring time-outs and hanging threads, `TestSession`, and the three gates with
`MergeGate`; then the proofs, a component at a time.

Next:

1. A client over `DoipResponder` that implements `Exchange` too: one that sends
   several requests without waiting, with the message that stays in the parser.
2. What the interception point may do to an exchange: `Exchange` with answers
   replaced, implemented by `Interception` over a connection.
