----------------------------- MODULE IsoTpClient -----------------------------
(***************************************************************************)
(* The diagnostic client on CAN: udsoncan's client sends a request through *)
(* TapwrightIsoTpConnection (diag/connection.py) and IsoTpTransport        *)
(* (diag/isotp_transport.py), whose ISO-TP thread works on the HAL bus     *)
(* (hal/bus.py).  The ECU answers once, late, corruptly or never, and      *)
(* another thread may shut the bus down.                                   *)
(*                                                                         *)
(* A request and the answer to it are the number of the call that sent the *)
(* request.  At most one transfer per request goes wrong, and the error it *)
(* causes has the same number.                                             *)
(***************************************************************************)
EXTENDS Integers, Sequences

CONSTANT MaxRequests   \* bound on the calls of send_request

ASSUME MaxRequestsAssumption == MaxRequests \in Nat

VARIABLES
  pc,              \* the client's thread: idle, or where it is in the call
  purpose,         \* of the recv it is in: "drain" or "wait"
  popped,          \* what this recv took from the queue
  taken,           \* the error this recv read from _protocol_error, 0 for None
  outcome,         \* how each call ended
  drained,         \* the last call that found the receive queue empty
  is_open,         \* _is_open of the connection
  closed,          \* _closed of the transport
  protocol_error,  \* _protocol_error, 0 for None
  tx, rx,          \* the queues of the ISO-TP stack
  iso_tp,          \* its thread: "running", "dead" or "stopped"
  bus_closed,      \* the HAL bus was shut down
  ecu, answers     \* requests the ECU has to answer; its answers on the bus

call == <<pc, purpose, popped, taken, outcome, drained>>
opened == <<is_open, closed>>
peer == <<bus_closed, ecu, answers>>
vars == <<call, opened, protocol_error, tx, rx, iso_tp, peer>>

\* The call in progress, or the next one.
Current == Len(outcome) + 1

\* A payload in the receive queue: the request it answers, and the last call
\* that had found the queue empty before it arrived.
Payload(about, after) == [about |-> about, after |-> after]
Nothing == Payload(0, 0)

Outcome(kind, payload) == [kind |-> kind, payload |-> payload]

Init ==
  /\ pc = "idle" /\ purpose = "drain" /\ popped = Nothing /\ taken = 0
  /\ outcome = <<>> /\ drained = 0
  /\ is_open = TRUE /\ closed = FALSE
  /\ protocol_error = 0
  /\ tx = <<>> /\ rx = <<>> /\ iso_tp = "running"
  /\ bus_closed = FALSE /\ ecu = <<>> /\ answers = <<>>

-----------------------------------------------------------------------------
(* The client's thread                                                     *)

\* The call ends, by a return or an exception.
End(kind, payload) ==
  /\ pc' = "idle"
  /\ outcome' = Append(outcome, Outcome(kind, payload))

\* send_request empties the receive queue before it looks at the connection.
CallRequest ==
  /\ pc = "idle" /\ is_open /\ ~closed /\ Len(outcome) < MaxRequests
  /\ pc' = "pop" /\ purpose' = "drain"
  /\ UNCHANGED <<popped, taken, outcome, drained, opened, protocol_error, tx, rx,
                 iso_tp, peer>>

\* Closed: empty_rxqueue does nothing and send raises RuntimeError; or, if the
\* connection was opened again, the transport raises TransportClosedError.
RefuseRequest ==
  /\ pc = "idle" /\ (closed \/ ~is_open) /\ Len(outcome) < MaxRequests
  /\ End(IF is_open THEN "transport_closed" ELSE "not_open", Nothing)
  /\ UNCHANGED <<purpose, popped, taken, drained, opened, protocol_error, tx, rx,
                 iso_tp, peer>>

\* Mutant of Pop: the stack's recv without a time-out.
PopOrBlock ==
  /\ pc = "pop" /\ rx # <<>>
  /\ popped' = Head(rx) /\ rx' = Tail(rx)
  /\ pc' = "check"
  /\ UNCHANGED <<purpose, taken, outcome, drained, opened, protocol_error, tx, iso_tp, peer>>

\* The stack's recv: the oldest payload, or nothing until the time is up.
Pop ==
  /\ pc = "pop"
  /\ \/ /\ rx # <<>>
        /\ popped' = Head(rx) /\ rx' = Tail(rx)
        /\ UNCHANGED drained
     \/ /\ rx = <<>>
        /\ popped' = Nothing /\ UNCHANGED rx
        /\ drained' = IF purpose = "drain" THEN Current ELSE drained
  /\ pc' = "check"
  /\ UNCHANGED <<purpose, taken, outcome, opened, protocol_error, tx, iso_tp, peer>>

\* recv finds an error: the first half of the swap.
TakeError ==
  /\ pc = "check" /\ protocol_error # 0
  /\ taken' = protocol_error
  /\ pc' = "clear"
  /\ UNCHANGED <<purpose, popped, outcome, drained, opened, protocol_error, tx, rx,
                 iso_tp, peer>>

\* The second half, and the raise; what recv had popped is gone.  An error
\* found while the queue is emptied ends the call before its request is sent.
RaiseError ==
  /\ pc = "clear"
  /\ protocol_error' = 0
  /\ taken' = 0 /\ popped' = Nothing
  /\ End("error", Nothing)
  /\ UNCHANGED <<purpose, drained, opened, tx, rx, iso_tp, peer>>

RecvReturns == pc = "check" /\ protocol_error = 0

\* Mutant of DrainOn: one payload is discarded, the others stay.
DrainOnce ==
  /\ RecvReturns /\ purpose = "drain" /\ popped # Nothing
  /\ pc' = "send" /\ popped' = Nothing
  /\ UNCHANGED <<purpose, taken, outcome, drained, opened, protocol_error, tx, rx,
                 iso_tp, peer>>

DrainOn ==
  /\ RecvReturns /\ purpose = "drain" /\ popped # Nothing
  /\ pc' = "pop" /\ popped' = Nothing
  /\ UNCHANGED <<purpose, taken, outcome, drained, opened, protocol_error, tx, rx,
                 iso_tp, peer>>

Drained ==
  /\ RecvReturns /\ purpose = "drain" /\ popped = Nothing
  /\ pc' = "send"
  /\ UNCHANGED <<purpose, popped, taken, outcome, drained, opened, protocol_error, tx, rx,
                 iso_tp, peer>>

\* Mutant of Send: the request is queued by the connection and by the transport.
SendTwice ==
  /\ pc = "send"
  /\ tx' = tx \o <<Current, Current>>
  /\ pc' = "pop" /\ purpose' = "wait"
  /\ UNCHANGED <<popped, taken, outcome, drained, opened, protocol_error, rx, iso_tp, peer>>

Send ==
  /\ pc = "send"
  /\ tx' = Append(tx, Current)
  /\ pc' = "pop" /\ purpose' = "wait"
  /\ UNCHANGED <<popped, taken, outcome, drained, opened, protocol_error, rx, iso_tp, peer>>

\* udsoncan returns the answer; it rejects one whose service or identifier is
\* not that of the request, which the answer to another request may have.
AnswerArrives ==
  /\ RecvReturns /\ purpose = "wait" /\ popped # Nothing
  /\ \/ End("reply", popped)
     \/ popped.about # Current /\ End("unexpected", popped)
  /\ popped' = Nothing
  /\ UNCHANGED <<purpose, taken, drained, opened, protocol_error, tx, rx, iso_tp, peer>>

RequestTimesOut ==
  /\ RecvReturns /\ purpose = "wait" /\ popped = Nothing
  /\ End("timeout", Nothing)
  /\ UNCHANGED <<purpose, popped, taken, drained, opened, protocol_error, tx, rx,
                 iso_tp, peer>>

InCall ==
  \/ Pop \/ TakeError \/ RaiseError \/ DrainOn \/ Drained \/ Send \/ AnswerArrives
  \/ RequestTimesOut

\* The stack is stopped with the transport, for good.
Close ==
  /\ pc = "idle" /\ is_open
  /\ is_open' = FALSE /\ closed' = TRUE
  /\ iso_tp' = IF iso_tp = "running" THEN "stopped" ELSE iso_tp
  /\ UNCHANGED <<call, protocol_error, tx, rx, peer>>

\* Only the connection's own flag is set.
Open ==
  /\ pc = "idle" /\ ~is_open
  /\ is_open' = TRUE
  /\ UNCHANGED <<call, closed, protocol_error, tx, rx, iso_tp, peer>>

-----------------------------------------------------------------------------
(* The ISO-TP thread                                                       *)

\* _txfn, for all the frames of a request.  On a bus that was shut down
\* Bus.send raises, and the exception ends the thread.
Transmit ==
  /\ iso_tp = "running" /\ tx # <<>>
  /\ \/ /\ ~bus_closed
        /\ ecu' = Append(ecu, Head(tx)) /\ tx' = Tail(tx)
        /\ UNCHANGED iso_tp
     \/ /\ bus_closed
        /\ iso_tp' = "dead"
        /\ UNCHANGED <<ecu, tx>>
  /\ UNCHANGED <<call, opened, protocol_error, rx, bus_closed, answers>>

\* _rxfn, for all the frames of an answer.  It returns None on a bus that was
\* shut down, which looks like silence.
Receiving == iso_tp = "running" /\ ~bus_closed /\ answers # <<>>

Reassemble ==
  /\ Receiving /\ Head(answers).ok
  /\ answers' = Tail(answers)
  /\ rx' = Append(rx, Payload(Head(answers).about, drained))
  /\ UNCHANGED <<call, opened, protocol_error, tx, iso_tp, bus_closed, ecu>>

\* _on_protocol_error, over any error that waits to be raised.
OnProtocolError ==
  /\ Receiving /\ ~Head(answers).ok
  /\ answers' = Tail(answers)
  /\ protocol_error' = Head(answers).about
  /\ UNCHANGED <<call, opened, tx, rx, iso_tp, bus_closed, ecu>>

IsoTpThread == Transmit \/ Reassemble \/ OnProtocolError

-----------------------------------------------------------------------------
(* The ECU, and the owner of the bus                                       *)

\* In order, and at most one answer to a request, which may be corrupt.
EcuAnswers ==
  /\ ecu # <<>>
  /\ ecu' = Tail(ecu)
  /\ \/ UNCHANGED answers
     \/ \E ok \in BOOLEAN : answers' = Append(answers, [about |-> Head(ecu), ok |-> ok])
  /\ UNCHANGED <<call, opened, protocol_error, tx, rx, iso_tp, bus_closed>>

ShutdownBus ==
  /\ ~bus_closed
  /\ bus_closed' = TRUE
  /\ UNCHANGED <<call, opened, protocol_error, tx, rx, iso_tp, ecu, answers>>

Next ==
  \/ CallRequest \/ RefuseRequest \/ InCall \/ Close \/ Open
  \/ IsoTpThread \/ EcuAnswers \/ ShutdownBus

\* The client's thread runs, and each recv keeps to its time-out.  Nothing is
\* asked of the ISO-TP thread or the ECU.
Spec == Init /\ [][Next]_vars /\ WF_vars(InCall)

-----------------------------------------------------------------------------
(* Properties                                                              *)

Calls == 1..MaxRequests
Payloads == [about: 0..MaxRequests, after: 0..MaxRequests]

\* The types; and a closed transport has no thread.
TypeOK ==
  /\ pc \in {"idle", "pop", "check", "clear", "send"}
  /\ purpose \in {"drain", "wait"}
  /\ popped \in Payloads
  /\ taken \in 0..MaxRequests
  /\ outcome \in Seq([kind: {"reply", "unexpected", "error", "timeout", "not_open",
                             "transport_closed"},
                      payload: Payloads])
  /\ drained \in 0..MaxRequests
  /\ is_open \in BOOLEAN /\ closed \in BOOLEAN
  /\ protocol_error \in 0..MaxRequests
  /\ tx \in Seq(Calls) /\ rx \in Seq(Payloads)
  /\ iso_tp \in {"running", "dead", "stopped"}
  /\ bus_closed \in BOOLEAN
  /\ ecu \in Seq(Calls) /\ answers \in Seq([about: Calls, ok: BOOLEAN])
  /\ closed => iso_tp # "running"

\* As long as no call has failed, the answer each call returns is the one to its
\* own request.  A time-out or a protocol error leaves an answer under way
\* that the next call may take for its own.
WrongAnswerOnlyAfterFailure ==
  \A n \in DOMAIN outcome :
    outcome[n].kind \in {"reply", "unexpected"} /\ outcome[n].payload.about # n
      => \E k \in 1..(n - 1) : outcome[k].kind \in {"timeout", "error"}

\* But not one that was received before: whatever the calls that failed left in
\* the receive queue is gone before a request is sent, however much it is.
AnswerFollowsDrain ==
  \A n \in DOMAIN outcome :
    outcome[n].kind \in {"reply", "unexpected"} => outcome[n].payload.after = n

\* A call ends whatever the ECU does, and when the bus is shut down under it
\* and the ISO-TP thread dies.
RequestsReturn == pc # "idle" ~> pc = "idle"

\* The calls whose answer may yet be returned: the request or its answer is in
\* a queue of the stack, with the ECU, on the bus or in the client's hands.
About(queue) == {queue[i].about : i \in DOMAIN queue}
Sent(queue) == {queue[i] : i \in DOMAIN queue}
Queued == About(rx) \cup About(answers) \cup Sent(ecu) \cup Sent(tx)
InFlight == Queued \cup ({popped.about} \ {0})

Phase ==
  IF pc = "idle" THEN "idle" ELSE IF purpose = "drain" THEN "asking" ELSE "waiting"
Returned == [n \in DOMAIN outcome |-> outcome[n].payload.about]

\* The queues, the stack and the calls that fail never double an answer or let
\* one overtake another, whatever is lost, corrupt or late.
Promise == INSTANCE Exchange WITH phase <- Phase, open <- InFlight, returned <- Returned

AnswersInTurn == Promise!Spec

-----------------------------------------------------------------------------
(* A claim of the repository that the code does not keep.                  *)

\* "Stashed ... and re-raised from the next recv() call": unless it replaces
\* another one, an error that recv clears without having read it is lost.
ClearsWhatItRaises == [][RaiseError => protocol_error = taken]_vars
=============================================================================
