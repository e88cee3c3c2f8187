-------------------------- MODULE IsoTpClientProofs --------------------------
(***************************************************************************)
(* Proofs about IsoTpClient for any number of calls: which answer a call   *)
(* may return.                                                             *)
(***************************************************************************)
EXTENDS IsoTpClient, SequenceTheorems, TLAPS

-----------------------------------------------------------------------------
(* Queues                                                                  *)

LEMMA Dequeued ==
  ASSUME NEW S, NEW s \in Seq(S), s # <<>>
  PROVE  /\ Head(s) \in S /\ Head(s) = s[1]
         /\ Tail(s) \in Seq(S)
         /\ Len(s) \in Nat /\ Len(s) >= 1 /\ Len(Tail(s)) = Len(s) - 1
         /\ \A i \in 1..Len(Tail(s)) : i + 1 \in 1..Len(s) /\ Tail(s)[i] = s[i + 1]
PROOF
  <1>1. Len(s) \in Nat /\ Len(s) >= 1
    BY EmptySeq, LenProperties
  <1> QED
    BY <1>1, HeadTailProperties

LEMMA Enqueued ==
  ASSUME NEW S, NEW s \in Seq(S), NEW x \in S
  PROVE  /\ Append(s, x) \in Seq(S)
         /\ Len(s) \in Nat /\ Len(Append(s, x)) = Len(s) + 1
         /\ \A i \in 1..Len(s) : Append(s, x)[i] = s[i]
         /\ Append(s, x)[Len(s) + 1] = x
BY AppendProperties, LenProperties

LEMMA Indices ==
  ASSUME NEW S, NEW s \in Seq(S)
  PROVE  DOMAIN s = 1..Len(s) /\ Len(s) \in Nat /\ \A i \in 1..Len(s) : s[i] \in S
BY LenProperties, ElementOfSeq

-----------------------------------------------------------------------------
(* Types                                                                   *)

Kinds == {"reply", "unexpected", "error", "timeout", "not_open", "transport_closed"}
Outcomes == [kind : Kinds, payload : Payloads]
Answers == [about : Calls, ok : BOOLEAN]

LEMMA PayloadTypes ==
  /\ Nothing \in Payloads /\ Nothing.about = 0
  /\ \A about, after \in 0..MaxRequests :
       /\ Payload(about, after) \in Payloads
       /\ Payload(about, after).about = about /\ Payload(about, after).after = after
  /\ \A kind \in Kinds, payload \in Payloads :
       /\ Outcome(kind, payload) \in Outcomes
       /\ Outcome(kind, payload).kind = kind /\ Outcome(kind, payload).payload = payload
PROOF
  <1>1. 0 \in 0..MaxRequests
    BY MaxRequestsAssumption
  <1> QED
    BY <1>1 DEF Nothing, Payload, Payloads, Outcome, Outcomes

\* What a call in progress knows; a payload is always about a request.
CallShape ==
  /\ pc # "idle" => Len(outcome) < MaxRequests
  /\ pc = "send" => purpose = "drain"
  /\ \A i \in DOMAIN rx : rx[i].about # 0

TypeInv == TypeOK /\ CallShape

LEMMA CurrentIsCall ==
  ASSUME TypeInv
  PROVE  /\ Len(outcome) \in Nat
         /\ pc # "idle" => Current \in Calls
PROOF
  <1>1. outcome \in Seq(Outcomes)
    BY DEF TypeInv, TypeOK, Outcomes, Kinds
  <1>2. Len(outcome) \in Nat
    BY <1>1, LenProperties
  <1> QED
    BY <1>2, MaxRequestsAssumption DEF TypeInv, CallShape, Current, Calls

\* What ends a call appends its outcome.
LEMMA Ending ==
  ASSUME TypeInv, NEW kind \in Kinds, NEW payload \in Payloads, End(kind, payload)
  PROVE  /\ pc' = "idle"
         /\ outcome' \in Seq(Outcomes)
         /\ Len(outcome') = Len(outcome) + 1
         /\ \A k \in 1..Len(outcome) : outcome'[k] = outcome[k]
         /\ outcome'[Len(outcome) + 1] = Outcome(kind, payload)
PROOF
  <1>1. outcome \in Seq(Outcomes)
    BY DEF TypeInv, TypeOK, Outcomes, Kinds
  <1>2. Outcome(kind, payload) \in Outcomes
    BY PayloadTypes
  <1> QED
    BY <1>1, <1>2, Enqueued DEF End

\* The client's thread; the stack, its thread and the outside world.
ClientPart ==
  /\ pc \in {"idle", "pop", "check", "clear", "send"}
  /\ purpose \in {"drain", "wait"}
  /\ popped \in Payloads /\ taken \in 0..MaxRequests
  /\ outcome \in Seq(Outcomes)
  /\ drained \in 0..MaxRequests
  /\ is_open \in BOOLEAN /\ closed \in BOOLEAN
  /\ pc # "idle" => Len(outcome) < MaxRequests
  /\ pc = "send" => purpose = "drain"

StackPart ==
  /\ protocol_error \in 0..MaxRequests
  /\ tx \in Seq(Calls) /\ rx \in Seq(Payloads)
  /\ \A i \in DOMAIN rx : rx[i].about # 0
  /\ iso_tp \in {"running", "dead", "stopped"}
  /\ bus_closed \in BOOLEAN
  /\ ecu \in Seq(Calls) /\ answers \in Seq(Answers)
  /\ closed => iso_tp # "running"

LEMMA TypeParts == TypeInv <=> ClientPart /\ StackPart
BY DEF TypeInv, TypeOK, CallShape, ClientPart, StackPart, Outcomes, Kinds, Answers

LEMMA TypeInit == Init => TypeInv
PROOF
  <1> SUFFICES ASSUME Init PROVE TypeInv
    OBVIOUS
  <1>1. 0 \in 0..MaxRequests /\ Nothing \in Payloads
    BY PayloadTypes, MaxRequestsAssumption
  <1>2. /\ <<>> \in Seq(Outcomes) /\ <<>> \in Seq(Calls) /\ <<>> \in Seq(Payloads)
        /\ <<>> \in Seq(Answers)
    BY EmptySeq
  <1>3. ClientPart
    BY <1>1, <1>2 DEF Init, ClientPart
  <1>4. DOMAIN rx = {}
    BY DEF Init
  <1>5. StackPart
    BY <1>1, <1>2, <1>4 DEF Init, StackPart
  <1> QED
    BY <1>3, <1>5, TypeParts

LEMMA ReceivedTypes ==
  ASSUME TypeInv, rx # <<>>
  PROVE  /\ Head(rx) \in Payloads /\ Head(rx).about # 0 /\ Head(rx) # Nothing
         /\ Tail(rx) \in Seq(Payloads)
         /\ \A i \in DOMAIN Tail(rx) : Tail(rx)[i].about # 0
PROOF
  <1>1. rx \in Seq(Payloads) /\ \A i \in DOMAIN rx : rx[i].about # 0
    BY TypeParts DEF StackPart
  <1>2. /\ Head(rx) \in Payloads /\ Head(rx) = rx[1] /\ 1 \in DOMAIN rx
        /\ Tail(rx) \in Seq(Payloads)
        /\ \A i \in 1..Len(Tail(rx)) : i + 1 \in DOMAIN rx /\ Tail(rx)[i] = rx[i + 1]
    BY <1>1, Dequeued, Indices
  <1>3. DOMAIN Tail(rx) = 1..Len(Tail(rx))
    BY <1>2, Indices
  <1> QED
    BY <1>1, <1>2, <1>3, PayloadTypes

\* The payload that a reassembled answer leaves in the queue.
LEMMA Reassembled ==
  ASSUME TypeInv, Reassemble
  PROVE  \E payload \in Payloads :
           /\ payload.about = Head(answers).about /\ payload.about # 0
           /\ payload.after = drained
           /\ rx' = Append(rx, payload)
PROOF
  <1>1. Head(answers) \in Answers
    BY TypeParts, Dequeued DEF Reassemble, Receiving, StackPart
  <1>2. Head(answers).about \in 0..MaxRequests /\ Head(answers).about # 0
    BY <1>1, MaxRequestsAssumption DEF Answers, Calls
  <1>3. drained \in 0..MaxRequests
    BY TypeParts DEF ClientPart
  <1> QED
    BY <1>2, <1>3, PayloadTypes DEF Reassemble

\* The answer that the ECU puts on the bus, if it answers.
LEMMA Answered ==
  ASSUME TypeInv, EcuAnswers
  PROVE  \/ answers' = answers
         \/ \E answer \in Answers :
              /\ answer.about = Head(ecu)
              /\ answers' = Append(answers, answer)
PROOF
  <1>1. Head(ecu) \in Calls
    BY TypeParts, Dequeued DEF EcuAnswers, StackPart
  <1>2. CASE UNCHANGED answers
    BY <1>2
  <1>3. CASE \E ok \in BOOLEAN : answers' = Append(answers, [about |-> Head(ecu), ok |-> ok])
    <2>1. PICK ok \in BOOLEAN : answers' = Append(answers, [about |-> Head(ecu), ok |-> ok])
      BY <1>3
    <2>2. PICK answer : answer = [about |-> Head(ecu), ok |-> ok]
      OBVIOUS
    <2>3. answer \in Answers /\ answer.about = Head(ecu)
      BY <1>1, <2>2 DEF Answers
    <2> QED
      BY <2>1, <2>2, <2>3
  <1> QED
    BY <1>2, <1>3 DEF EcuAnswers

LEMMA TypeStep == TypeInv /\ [Next]_vars => TypeInv'
PROOF
  <1> SUFFICES ASSUME TypeInv, [Next]_vars PROVE ClientPart' /\ StackPart'
    BY TypeParts, PTL
  <1> USE PayloadTypes
  <1>0. ClientPart /\ StackPart
    BY TypeParts
  <1>1. CASE CallRequest
    BY <1>0, <1>1 DEF CallRequest, ClientPart, StackPart, opened, peer
  <1>2. CASE RefuseRequest
    <2>1. PICK kind \in Kinds : End(kind, Nothing)
      BY <1>2 DEF RefuseRequest, Kinds
    <2>2. pc' = "idle" /\ outcome' \in Seq(Outcomes)
      BY <2>1, Ending
    <2> QED
      BY <1>0, <1>2, <2>2 DEF RefuseRequest, ClientPart, StackPart, opened, peer
  <1>3. CASE Pop
    <2>1. drained' \in 0..MaxRequests
      BY <1>0, <1>3, CurrentIsCall DEF Pop, ClientPart, Calls
    <2>2. popped' \in Payloads /\ rx' \in Seq(Payloads) /\ \A i \in DOMAIN rx' : rx'[i].about # 0
      BY <1>0, <1>3, ReceivedTypes DEF Pop, StackPart
    <2> QED
      BY <1>0, <1>3, <2>1, <2>2 DEF Pop, ClientPart, StackPart, opened, peer
  <1>4. CASE TakeError
    BY <1>0, <1>4 DEF TakeError, ClientPart, StackPart, opened, peer
  <1>5. CASE RaiseError
    <2>1. pc' = "idle" /\ outcome' \in Seq(Outcomes)
      BY <1>5, Ending DEF RaiseError, Kinds
    <2>2. 0 \in 0..MaxRequests
      BY MaxRequestsAssumption
    <2> QED
      BY <1>0, <1>5, <2>1, <2>2 DEF RaiseError, ClientPart, StackPart, opened, peer
  <1>6. CASE DrainOn
    BY <1>0, <1>6 DEF DrainOn, RecvReturns, ClientPart, StackPart, opened, peer
  <1>7. CASE Drained
    BY <1>0, <1>7 DEF Drained, RecvReturns, ClientPart, StackPart, opened, peer
  <1>8. CASE Send
    <2>1. tx' \in Seq(Calls)
      BY <1>0, <1>8, CurrentIsCall, Enqueued DEF Send, StackPart
    <2> QED
      BY <1>0, <1>8, <2>1 DEF Send, ClientPart, StackPart, opened, peer
  <1>9. CASE AnswerArrives
    <2>1. PICK kind \in Kinds : End(kind, popped)
      BY <1>9 DEF AnswerArrives, Kinds
    <2>2. pc' = "idle" /\ outcome' \in Seq(Outcomes)
      BY <1>0, <2>1, Ending DEF ClientPart
    <2> QED
      BY <1>0, <1>9, <2>2 DEF AnswerArrives, ClientPart, StackPart, opened, peer
  <1>10. CASE RequestTimesOut
    <2>1. pc' = "idle" /\ outcome' \in Seq(Outcomes)
      BY <1>10, Ending DEF RequestTimesOut, Kinds
    <2> QED
      BY <1>0, <1>10, <2>1 DEF RequestTimesOut, ClientPart, StackPart, opened, peer
  <1>11. CASE Close
    BY <1>0, <1>11 DEF Close, ClientPart, StackPart, call, peer
  <1>12. CASE Open
    BY <1>0, <1>12 DEF Open, ClientPart, StackPart, call, peer
  <1>13. CASE Transmit
    <2>1. Head(tx) \in Calls /\ Tail(tx) \in Seq(Calls) /\ Append(ecu, Head(tx)) \in Seq(Calls)
      BY <1>0, <1>13, Dequeued, Enqueued DEF Transmit, StackPart
    <2> QED
      BY <1>0, <1>13, <2>1 DEF Transmit, ClientPart, StackPart, opened, call
  <1>14. CASE Reassemble
    <2>1. Head(answers) \in Answers /\ Tail(answers) \in Seq(Answers)
      BY <1>0, <1>14, Dequeued DEF Reassemble, Receiving, StackPart
    <2>3. PICK payload \in Payloads : payload.about # 0 /\ rx' = Append(rx, payload)
      BY <1>14, Reassembled
    <2>4. rx' \in Seq(Payloads) /\ \A i \in DOMAIN rx' : rx'[i].about # 0
      <3>1. rx \in Seq(Payloads) /\ \A i \in 1..Len(rx) : rx[i].about # 0
        BY <1>0, Indices DEF StackPart
      <3>2. /\ rx' \in Seq(Payloads)
            /\ Len(rx) \in Nat /\ Len(rx') = Len(rx) + 1
            /\ \A i \in 1..Len(rx) : rx'[i] = rx[i]
            /\ rx'[Len(rx) + 1] = payload
        BY <2>3, <3>1, Enqueued
      <3>3. DOMAIN rx' = 1..(Len(rx) + 1)
        BY <3>2, Indices
      <3> QED
        BY <2>3, <3>1, <3>2, <3>3
    <2> QED
      BY <1>0, <1>14, <2>1, <2>4 DEF Reassemble, ClientPart, StackPart, opened, call
  <1>15. CASE OnProtocolError
    <2>1. Head(answers) \in Answers /\ Tail(answers) \in Seq(Answers)
      BY <1>0, <1>15, Dequeued DEF OnProtocolError, Receiving, StackPart
    <2>2. Head(answers).about \in 0..MaxRequests
      BY <2>1, MaxRequestsAssumption DEF Answers, Calls
    <2> QED
      BY <1>0, <1>15, <2>1, <2>2 DEF OnProtocolError, ClientPart, StackPart, opened, call
  <1>16. CASE EcuAnswers
    <2>1. Head(ecu) \in Calls /\ Tail(ecu) \in Seq(Calls)
      BY <1>0, <1>16, Dequeued DEF EcuAnswers, StackPart
    <2>2. answers \in Seq(Answers) /\ \A answer \in Answers : Append(answers, answer) \in Seq(Answers)
      BY <1>0, Enqueued DEF StackPart
    <2>3. answers' \in Seq(Answers)
      BY <1>16, <2>2, Answered
    <2>4. /\ ecu' = Tail(ecu)
          /\ UNCHANGED <<call, opened, protocol_error, tx, rx, iso_tp, bus_closed>>
      BY <1>16 DEF EcuAnswers
    <2>5. ecu' \in Seq(Calls)
      BY <2>1, <2>4
    <2>6. ClientPart'
      BY <1>0, <2>4 DEF ClientPart, opened, call
    <2> QED
      BY <1>0, <2>3, <2>4, <2>5, <2>6 DEF StackPart, opened
  <1>17. CASE ShutdownBus
    BY <1>0, <1>17 DEF ShutdownBus, ClientPart, StackPart, opened, call
  <1>18. CASE UNCHANGED vars
    BY <1>0, <1>18 DEF vars, ClientPart, StackPart, opened, call, peer
  <1> QED
    BY <1>1, <1>2, <1>3, <1>4, <1>5, <1>6, <1>7, <1>8, <1>9, <1>10, <1>11, <1>12, <1>13,
       <1>14, <1>15, <1>16, <1>17, <1>18 DEF Next, InCall, IsoTpThread

\* The types of the client, its stack and the bus, for any number of calls.
THEOREM TypeCorrect == Spec => []TypeOK
PROOF
  <1>1. TypeInv => TypeOK
    BY DEF TypeInv
  <1> QED
    BY <1>1, TypeInit, TypeStep, PTL DEF Spec

-----------------------------------------------------------------------------
(* The answer a call returns was received after it had emptied the queue    *)

\* From the moment the queue was found empty the call will send, or has sent,
\* its request, and all that is received comes after that moment.
Awaiting ==
  /\ pc # "idle"
  /\ purpose = "wait" \/ pc = "send" \/ (pc = "check" /\ popped = Nothing)

ReceivedAfterDrain ==
  /\ Awaiting => drained = Current /\ \A i \in DOMAIN rx : rx[i].after = Current
  /\ pc = "check" /\ purpose = "wait" /\ popped # Nothing => popped.after = Current

AnswerInv == TypeInv /\ ReceivedAfterDrain /\ AnswerFollowsDrain

\* A call that ends leaves nothing to say about the queue.
LEMMA EndedAnswer ==
  ASSUME AnswerInv, NEW kind \in Kinds, NEW payload \in Payloads, End(kind, payload),
         kind \in {"reply", "unexpected"} => payload.after = Current
  PROVE  ReceivedAfterDrain' /\ AnswerFollowsDrain'
PROOF
  <1>1. /\ pc' = "idle" /\ outcome' \in Seq(Outcomes)
        /\ Len(outcome') = Len(outcome) + 1
        /\ \A k \in 1..Len(outcome) : outcome'[k] = outcome[k]
        /\ outcome'[Len(outcome) + 1] = Outcome(kind, payload)
    BY Ending DEF AnswerInv
  <1>2. outcome \in Seq(Outcomes)
    BY TypeParts DEF AnswerInv, ClientPart
  <1>3. /\ DOMAIN outcome = 1..Len(outcome) /\ Len(outcome) \in Nat
        /\ DOMAIN outcome' = 1..(Len(outcome) + 1)
    BY <1>1, <1>2, Indices
  <1>4. ReceivedAfterDrain'
    BY <1>1 DEF ReceivedAfterDrain, Awaiting
  <1>5. AnswerFollowsDrain'
    <2> SUFFICES ASSUME NEW n \in DOMAIN outcome', outcome'[n].kind \in {"reply", "unexpected"}
                 PROVE  outcome'[n].payload.after = n
      BY DEF AnswerFollowsDrain
    <2>1. CASE n \in 1..Len(outcome)
      BY <1>1, <1>3, <2>1 DEF AnswerInv, AnswerFollowsDrain
    <2>2. CASE n = Len(outcome) + 1
      <3>1. outcome'[n].kind = kind /\ outcome'[n].payload = payload
        BY <1>1, <2>2, PayloadTypes
      <3> QED
        BY <2>2, <3>1 DEF Current
    <2> QED
      BY <1>3, <2>1, <2>2
  <1> QED
    BY <1>4, <1>5

LEMMA AnswerInit == Init => AnswerInv
PROOF
  <1> SUFFICES ASSUME Init PROVE AnswerInv
    OBVIOUS
  <1>1. pc = "idle" /\ DOMAIN outcome = {}
    BY DEF Init
  <1> QED
    BY <1>1, TypeInit DEF AnswerInv, ReceivedAfterDrain, Awaiting, AnswerFollowsDrain

LEMMA AnswerStep == AnswerInv /\ [Next]_vars => AnswerInv'
PROOF
  <1> SUFFICES ASSUME AnswerInv, [Next]_vars PROVE ReceivedAfterDrain' /\ AnswerFollowsDrain'
    BY TypeStep DEF AnswerInv
  <1>0. TypeInv /\ ReceivedAfterDrain /\ AnswerFollowsDrain /\ ClientPart /\ StackPart
    BY TypeParts DEF AnswerInv
  <1>a. outcome' = outcome => AnswerFollowsDrain' /\ Current' = Current
    BY <1>0 DEF AnswerFollowsDrain, Current
  <1>1. CASE CallRequest
    BY <1>0, <1>1, <1>a DEF CallRequest, ReceivedAfterDrain, Awaiting
  <1>2. CASE RefuseRequest
    <2>1. PICK kind \in Kinds \ {"reply", "unexpected"} : End(kind, Nothing)
      BY <1>2 DEF RefuseRequest, Kinds
    <2> QED
      BY <2>1, EndedAnswer, PayloadTypes
  <1>3. CASE Pop
    <2>1. /\ pc = "pop" /\ pc' = "check" /\ purpose' = purpose /\ outcome' = outcome
          /\ purpose \in {"drain", "wait"}
      BY <1>0, <1>3 DEF Pop, ClientPart
    <2>2. ASSUME rx # <<>> PROVE ReceivedAfterDrain'
      <3>1. popped' = Head(rx) /\ rx' = Tail(rx) /\ drained' = drained
        BY <1>3, <2>2 DEF Pop
      <3>2. rx \in Seq(Payloads)
        BY <1>0 DEF StackPart
      <3>3. /\ Head(rx) = rx[1] /\ 1 \in DOMAIN rx
            /\ \A i \in DOMAIN Tail(rx) : i + 1 \in DOMAIN rx /\ Tail(rx)[i] = rx[i + 1]
        BY <2>2, <3>2, Dequeued, Indices
      <3>4. popped' # Nothing
        BY <1>0, <2>2, <3>1, ReceivedTypes
      <3>5. CASE purpose = "drain"
        BY <2>1, <3>4, <3>5 DEF ReceivedAfterDrain, Awaiting
      <3>6. CASE purpose = "wait"
        <4>1. drained = Current /\ \A i \in DOMAIN rx : rx[i].after = Current
          BY <1>0, <2>1, <3>6 DEF ReceivedAfterDrain, Awaiting
        <4>2. popped'.after = Current
          BY <3>1, <3>3, <4>1
        <4>3. \A i \in DOMAIN rx' : rx'[i].after = Current
          BY <3>1, <3>3, <4>1
        <4> QED
          BY <1>a, <2>1, <3>1, <4>1, <4>2, <4>3 DEF ReceivedAfterDrain
      <3> QED
        BY <2>1, <3>5, <3>6
    <2>3. ASSUME rx = <<>> PROVE ReceivedAfterDrain'
      <3>1. popped' = Nothing /\ DOMAIN rx' = {}
        BY <1>3, <2>3 DEF Pop
      <3>2. drained' = Current
        BY <1>0, <1>3, <2>1, <2>3 DEF Pop, ReceivedAfterDrain, Awaiting
      <3> QED
        BY <1>a, <2>1, <3>1, <3>2 DEF ReceivedAfterDrain
    <2> QED
      BY <1>a, <2>1, <2>2, <2>3
  <1>4. CASE TakeError
    BY <1>0, <1>4, <1>a DEF TakeError, ReceivedAfterDrain, Awaiting
  <1>5. CASE RaiseError
    BY <1>5, EndedAnswer, PayloadTypes DEF RaiseError, Kinds
  <1>6. CASE DrainOn
    BY <1>0, <1>6, <1>a DEF DrainOn, RecvReturns, ReceivedAfterDrain, Awaiting
  <1>7. CASE Drained
    BY <1>0, <1>7, <1>a DEF Drained, RecvReturns, ReceivedAfterDrain, Awaiting
  <1>8. CASE Send
    BY <1>0, <1>8, <1>a DEF Send, ReceivedAfterDrain, Awaiting
  <1>9. CASE AnswerArrives
    <2>1. PICK kind \in Kinds : End(kind, popped)
      BY <1>9 DEF AnswerArrives, Kinds
    <2>2. popped.after = Current
      BY <1>0, <1>9 DEF AnswerArrives, RecvReturns, ReceivedAfterDrain
    <2> QED
      BY <1>0, <2>1, <2>2, EndedAnswer DEF ClientPart
  <1>10. CASE RequestTimesOut
    BY <1>10, EndedAnswer, PayloadTypes DEF RequestTimesOut, Kinds
  <1>11. CASE Close
    BY <1>0, <1>11, <1>a DEF Close, call, ReceivedAfterDrain, Awaiting
  <1>12. CASE Open
    BY <1>0, <1>12, <1>a DEF Open, call, ReceivedAfterDrain, Awaiting
  <1>13. CASE Transmit
    BY <1>0, <1>13, <1>a DEF Transmit, call, ReceivedAfterDrain, Awaiting
  <1>14. CASE Reassemble
    <2>1. UNCHANGED call /\ outcome' = outcome
      BY <1>14 DEF Reassemble, call
    <2>2. PICK payload \in Payloads : payload.after = drained /\ rx' = Append(rx, payload)
      BY <1>0, <1>14, Reassembled
    <2>3. /\ rx \in Seq(Payloads) /\ DOMAIN rx = 1..Len(rx) /\ Len(rx) \in Nat
          /\ DOMAIN rx' = 1..(Len(rx) + 1)
          /\ \A i \in 1..Len(rx) : rx'[i] = rx[i]
          /\ rx'[Len(rx) + 1] = payload
      BY <1>0, <2>2, Enqueued, Indices DEF StackPart
    <2>4. Awaiting => drained' = Current' /\ \A i \in DOMAIN rx' : rx'[i].after = Current'
      BY <1>0, <1>a, <2>1, <2>2, <2>3 DEF ReceivedAfterDrain, call
    <2> QED
      BY <1>0, <1>a, <2>1, <2>4 DEF ReceivedAfterDrain, Awaiting, call
  <1>15. CASE OnProtocolError
    BY <1>0, <1>15, <1>a DEF OnProtocolError, call, ReceivedAfterDrain, Awaiting
  <1>16. CASE EcuAnswers
    BY <1>0, <1>16, <1>a DEF EcuAnswers, call, ReceivedAfterDrain, Awaiting
  <1>17. CASE ShutdownBus
    BY <1>0, <1>17, <1>a DEF ShutdownBus, call, ReceivedAfterDrain, Awaiting
  <1>18. CASE UNCHANGED vars
    BY <1>0, <1>18, <1>a DEF vars, call, ReceivedAfterDrain, Awaiting
  <1> QED
    BY <1>1, <1>2, <1>3, <1>4, <1>5, <1>6, <1>7, <1>8, <1>9, <1>10, <1>11, <1>12, <1>13,
       <1>14, <1>15, <1>16, <1>17, <1>18 DEF Next, InCall, IsoTpThread

\* No call returns an answer received before it had emptied the queue: what the
\* calls that failed left there is gone before the request is sent.
THEOREM AnswersAreFresh == Spec => []AnswerFollowsDrain
PROOF
  <1>1. AnswerInv => AnswerFollowsDrain
    BY DEF AnswerInv
  <1> QED
    BY <1>1, AnswerInit, AnswerStep, PTL DEF Spec

-----------------------------------------------------------------------------
(* While no call has failed, an answer is the answer to the call's request   *)

\* While no call has failed, a request or its answer is in one place at most,
\* and in none between calls.
NoneFailed == \A k \in DOMAIN outcome : outcome[k].kind \notin {"timeout", "error"}

OneInTransit ==
  /\ Len(tx) + Len(ecu) + Len(answers) + Len(rx) + (IF popped = Nothing THEN 0 ELSE 1)
       <= (IF pc # "idle" /\ purpose = "wait" THEN 1 ELSE 0)
  /\ \A i \in DOMAIN tx : tx[i] = Current
  /\ \A i \in DOMAIN ecu : ecu[i] = Current
  /\ \A i \in DOMAIN answers : answers[i].about = Current
  /\ \A i \in DOMAIN rx : rx[i].about = Current
  /\ popped # Nothing => popped.about = Current

InTransit == Len(tx) + Len(ecu) + Len(answers) + Len(rx) + (IF popped = Nothing THEN 0 ELSE 1)

TransitInv ==
  /\ TypeInv
  /\ NoneFailed => OneInTransit
  /\ WrongAnswerOnlyAfterFailure

LEMMA Queues ==
  ASSUME TypeInv
  PROVE  /\ Len(tx) \in Nat /\ DOMAIN tx = 1..Len(tx)
         /\ Len(ecu) \in Nat /\ DOMAIN ecu = 1..Len(ecu)
         /\ Len(answers) \in Nat /\ DOMAIN answers = 1..Len(answers)
         /\ Len(rx) \in Nat /\ DOMAIN rx = 1..Len(rx)
         /\ outcome \in Seq(Outcomes)
         /\ Len(outcome) \in Nat /\ DOMAIN outcome = 1..Len(outcome)
         /\ InTransit \in Nat
PROOF
  <1>1. /\ Len(tx) \in Nat /\ DOMAIN tx = 1..Len(tx)
        /\ Len(ecu) \in Nat /\ DOMAIN ecu = 1..Len(ecu)
        /\ Len(answers) \in Nat /\ DOMAIN answers = 1..Len(answers)
        /\ Len(rx) \in Nat /\ DOMAIN rx = 1..Len(rx)
        /\ outcome \in Seq(Outcomes)
        /\ Len(outcome) \in Nat /\ DOMAIN outcome = 1..Len(outcome)
    BY TypeParts, Indices DEF ClientPart, StackPart
  <1> QED
    BY <1>1 DEF InTransit

\* With nothing in transit, the number of the call does not matter.
LEMMA NothingInTransit == TypeInv /\ InTransit <= 0 => OneInTransit
PROOF
  <1> SUFFICES ASSUME TypeInv, InTransit <= 0 PROVE OneInTransit
    OBVIOUS
  <1>1. /\ popped = Nothing
        /\ Len(tx) = 0 /\ Len(ecu) = 0 /\ Len(answers) = 0 /\ Len(rx) = 0
    BY Queues DEF InTransit
  <1>2. DOMAIN tx = {} /\ DOMAIN ecu = {} /\ DOMAIN answers = {} /\ DOMAIN rx = {}
    BY <1>1, Queues
  <1> QED
    BY <1>1, <1>2 DEF OneInTransit

LEMMA TransitParts ==
  OneInTransit <=>
    /\ InTransit <= (IF pc # "idle" /\ purpose = "wait" THEN 1 ELSE 0)
    /\ \A i \in DOMAIN tx : tx[i] = Current
    /\ \A i \in DOMAIN ecu : ecu[i] = Current
    /\ \A i \in DOMAIN answers : answers[i].about = Current
    /\ \A i \in DOMAIN rx : rx[i].about = Current
    /\ popped # Nothing => popped.about = Current
BY DEF OneInTransit, InTransit

\* A call that ends: it fails, or it leaves nothing in transit.
LEMMA EndedTransit ==
  ASSUME TransitInv, TypeInv', NEW kind \in Kinds, NEW payload \in Payloads,
         End(kind, payload), UNCHANGED <<tx, rx, ecu, answers>>,
         NoneFailed /\ kind \notin {"timeout", "error"} =>
           /\ Len(tx) + Len(ecu) + Len(answers) + Len(rx) <= 0
           /\ popped' = Nothing,
         NoneFailed /\ kind \in {"reply", "unexpected"} => payload.about = Current
  PROVE  TransitInv'
PROOF
  <1>1. /\ pc' = "idle" /\ outcome' \in Seq(Outcomes)
        /\ Len(outcome') = Len(outcome) + 1
        /\ \A k \in 1..Len(outcome) : outcome'[k] = outcome[k]
        /\ outcome'[Len(outcome) + 1] = Outcome(kind, payload)
    BY Ending DEF TransitInv
  <1>2. /\ outcome'[Len(outcome) + 1].kind = kind
        /\ outcome'[Len(outcome) + 1].payload = payload
    BY <1>1, PayloadTypes
  <1>3. /\ DOMAIN outcome = 1..Len(outcome) /\ Len(outcome) \in Nat
        /\ DOMAIN outcome' = 1..(Len(outcome) + 1)
    BY <1>1, Indices, Queues DEF TransitInv
  <1>4. NoneFailed' => NoneFailed /\ kind \notin {"timeout", "error"}
    BY <1>1, <1>2, <1>3 DEF NoneFailed
  <1>5. ASSUME NoneFailed' PROVE OneInTransit'
    <2>1. /\ Len(tx)' + Len(ecu)' + Len(answers)' + Len(rx)' <= 0
          /\ popped' = Nothing
      BY <1>4, <1>5
    <2>2. (InTransit <= 0)'
      <3>1. /\ Len(tx)' \in Nat /\ Len(ecu)' \in Nat /\ Len(answers)' \in Nat
            /\ Len(rx)' \in Nat
        BY Queues DEF TransitInv
      <3> QED
        BY <2>1, <3>1 DEF InTransit, Nothing
    <2> QED
      BY <2>2, NothingInTransit, PTL
  <1>6. WrongAnswerOnlyAfterFailure'
    <2> SUFFICES ASSUME NEW n \in DOMAIN outcome', outcome'[n].kind \in {"reply", "unexpected"},
                        outcome'[n].payload.about # n
                 PROVE  \E k \in 1..(n - 1) : outcome'[k].kind \in {"timeout", "error"}
      BY DEF WrongAnswerOnlyAfterFailure
    <2>1. CASE n \in 1..Len(outcome)
      <3>1. PICK k \in 1..(n - 1) : outcome[k].kind \in {"timeout", "error"}
        BY <1>1, <1>3, <2>1 DEF TransitInv, WrongAnswerOnlyAfterFailure
      <3>2. k \in 1..Len(outcome)
        BY <1>3, <2>1
      <3> QED
        BY <1>1, <3>1, <3>2
    <2>2. CASE n = Len(outcome) + 1
      <3>1. ~NoneFailed
        BY <1>2, <2>2 DEF Current
      <3>2. PICK k \in DOMAIN outcome : outcome[k].kind \in {"timeout", "error"}
        BY <3>1 DEF NoneFailed
      <3> QED
        BY <1>1, <1>3, <2>2, <3>2
    <2> QED
      BY <1>3, <2>1, <2>2
  <1> QED
    BY <1>5, <1>6 DEF TransitInv

LEMMA TransitInit == Init => TransitInv
PROOF
  <1> SUFFICES ASSUME Init PROVE TransitInv
    OBVIOUS
  <1>1. /\ Len(tx) = 0 /\ Len(ecu) = 0 /\ Len(answers) = 0 /\ Len(rx) = 0
        /\ popped = Nothing /\ DOMAIN outcome = {}
    BY EmptySeq DEF Init
  <1>2. InTransit <= 0
    BY <1>1 DEF InTransit
  <1> QED
    BY <1>1, <1>2, TypeInit, NothingInTransit DEF TransitInv, WrongAnswerOnlyAfterFailure

\* A step that ends no call needs only look at what is in transit.
LEMMA SameOutcome ==
  ASSUME TransitInv, TypeInv', outcome' = outcome, NoneFailed /\ OneInTransit => OneInTransit'
  PROVE  TransitInv'
BY DEF TransitInv, NoneFailed, WrongAnswerOnlyAfterFailure

\* What follows when the oldest element of a queue is taken off, and when an
\* element is put at its end.
LEMMA TakenOff ==
  ASSUME NEW S, NEW s \in Seq(S), s # <<>>
  PROVE  /\ Len(s) \in Nat /\ Len(s) >= 1 /\ Len(Tail(s)) = Len(s) - 1
         /\ Head(s) \in S /\ 1 \in DOMAIN s /\ Head(s) = s[1]
         /\ \A i \in DOMAIN Tail(s) : i + 1 \in DOMAIN s /\ Tail(s)[i] = s[i + 1]
BY Dequeued, Indices

LEMMA PutAtEnd ==
  ASSUME NEW S, NEW s \in Seq(S), NEW x \in S
  PROVE  /\ Len(s) \in Nat /\ Len(Append(s, x)) = Len(s) + 1
         /\ \A i \in DOMAIN Append(s, x) : Append(s, x)[i] = x \/ (i \in DOMAIN s /\ Append(s, x)[i] = s[i])
PROOF
  <1>1. DOMAIN Append(s, x) = 1..(Len(s) + 1)
    BY Enqueued, Indices
  <1> QED
    BY <1>1, Enqueued, Indices

LEMMA TransitStep == TransitInv /\ [Next]_vars => TransitInv'
PROOF
  <1> SUFFICES ASSUME TransitInv, [Next]_vars PROVE TransitInv'
    OBVIOUS
  <1>0. TypeInv /\ TypeInv' /\ ClientPart /\ StackPart /\ (NoneFailed => OneInTransit)
    BY TypeStep, TypeParts DEF TransitInv
  <1>q. /\ Len(tx) \in Nat /\ Len(ecu) \in Nat /\ Len(answers) \in Nat /\ Len(rx) \in Nat
        /\ NoneFailed => InTransit <= (IF pc # "idle" /\ purpose = "wait" THEN 1 ELSE 0)
        /\ NoneFailed /\ popped # Nothing => popped.about = Current
    BY <1>0, Queues, TransitParts
  <1>1. CASE CallRequest
    <2>1. OneInTransit => OneInTransit'
      BY <1>0, <1>1, Queues DEF CallRequest, peer, OneInTransit, Current
    <2> QED
      BY <1>0, <1>1, <2>1, SameOutcome DEF CallRequest
  <1>2. CASE RefuseRequest
    <2>1. PICK kind \in Kinds \ {"reply", "unexpected"} : End(kind, Nothing)
      BY <1>2 DEF RefuseRequest, Kinds
    <2>2. UNCHANGED <<tx, rx, ecu, answers>> /\ popped' = popped /\ pc = "idle"
      BY <1>2 DEF RefuseRequest, peer
    <2>3. NoneFailed => Len(tx) + Len(ecu) + Len(answers) + Len(rx) <= 0 /\ popped = Nothing
      BY <1>q, <2>2 DEF InTransit
    <2> QED
      BY <1>0, <2>1, <2>2, <2>3, EndedTransit, PayloadTypes
  <1>3. CASE Pop
    <2>1. /\ UNCHANGED <<tx, ecu, answers, purpose, outcome>> /\ pc = "pop" /\ pc' = "check"
      BY <1>3 DEF Pop, peer
    <2>2. ASSUME rx = <<>>, OneInTransit PROVE OneInTransit'
      <3>1. popped' = Nothing /\ rx' = rx
        BY <1>3, <2>2 DEF Pop
      <3> QED
        BY <1>q, <2>1, <2>2, <3>1 DEF OneInTransit, Current, Nothing
    <2>3. ASSUME rx # <<>>, OneInTransit PROVE OneInTransit'
      <3>1. popped' = Head(rx) /\ rx' = Tail(rx)
        BY <1>3, <2>3 DEF Pop
      <3>2. /\ Len(rx)' = Len(rx) - 1 /\ Len(rx) >= 1
            /\ 1 \in DOMAIN rx /\ popped' = rx[1]
            /\ \A i \in DOMAIN rx' : i + 1 \in DOMAIN rx /\ rx'[i] = rx[i + 1]
        BY <1>0, <2>3, <3>1, TakenOff DEF StackPart
      <3>3. popped' # Nothing
        BY <1>0, <2>3, <3>1, ReceivedTypes
      <3>4. popped = Nothing
        BY <1>q, <2>3, <3>2 DEF OneInTransit
      <3>5. /\ \A i \in DOMAIN rx' : rx'[i].about = Current
            /\ popped'.about = Current
        BY <2>3, <3>2 DEF OneInTransit
      <3> QED
        BY <1>q, <2>1, <2>3, <3>2, <3>3, <3>4, <3>5 DEF OneInTransit, Current, Nothing
    <2> QED
      BY <1>0, <2>1, <2>2, <2>3, SameOutcome
  <1>4. CASE TakeError
    <2>1. OneInTransit => OneInTransit'
      BY <1>4 DEF TakeError, peer, OneInTransit, Current
    <2> QED
      BY <1>0, <1>4, <2>1, SameOutcome DEF TakeError
  <1>5. CASE RaiseError
    <2>1. End("error", Nothing) /\ UNCHANGED <<tx, rx, ecu, answers>>
      BY <1>5 DEF RaiseError, peer
    <2> QED
      BY <1>0, <2>1, EndedTransit, PayloadTypes DEF Kinds
  <1>6. CASE DrainOn
    <2>1. ASSUME OneInTransit PROVE OneInTransit'
      <3>1. /\ UNCHANGED <<tx, ecu, answers, rx, purpose, outcome>> /\ purpose = "drain"
            /\ popped # Nothing
        BY <1>6 DEF DrainOn, RecvReturns, peer
      <3> QED
        BY <1>q, <2>1, <3>1 DEF OneInTransit
    <2> QED
      BY <1>0, <1>6, <2>1, SameOutcome DEF DrainOn
  <1>7. CASE Drained
    <2>1. OneInTransit => OneInTransit'
      BY <1>7 DEF Drained, RecvReturns, peer, OneInTransit, Current
    <2> QED
      BY <1>0, <1>7, <2>1, SameOutcome DEF Drained
  <1>8. CASE Send
    <2>1. ASSUME OneInTransit PROVE OneInTransit'
      <3>1. /\ UNCHANGED <<ecu, answers, rx, outcome, popped>> /\ tx' = Append(tx, Current)
            /\ pc' = "pop" /\ purpose' = "wait"
        BY <1>8 DEF Send, peer
      <3>2. Current \in Calls /\ tx \in Seq(Calls)
        BY <1>0, <1>8, CurrentIsCall DEF Send, StackPart
      <3>3. /\ Len(tx)' = Len(tx) + 1
            /\ \A i \in DOMAIN tx' : tx'[i] = Current \/ (i \in DOMAIN tx /\ tx'[i] = tx[i])
        BY <3>1, <3>2, PutAtEnd
      <3>4. \A i \in DOMAIN tx' : tx'[i] = Current
        BY <2>1, <3>3 DEF OneInTransit
      <3>5. InTransit <= 0
        BY <1>0, <1>q, <1>8, <2>1, TransitParts DEF Send, ClientPart
      <3> QED
        BY <1>q, <2>1, <3>1, <3>3, <3>4, <3>5 DEF OneInTransit, Current, Nothing, InTransit
    <2> QED
      BY <1>0, <1>8, <2>1, SameOutcome DEF Send
  <1>9. CASE AnswerArrives
    <2>1. PICK kind \in Kinds \ {"timeout", "error"} : End(kind, popped)
      BY <1>9 DEF AnswerArrives, Kinds
    <2>2. UNCHANGED <<tx, rx, ecu, answers>> /\ popped' = Nothing /\ popped # Nothing
      BY <1>9 DEF AnswerArrives, peer
    <2>3. NoneFailed => Len(tx) + Len(ecu) + Len(answers) + Len(rx) <= 0
      BY <1>q, <2>2 DEF InTransit
    <2> QED
      BY <1>0, <1>q, <2>1, <2>2, <2>3, EndedTransit DEF ClientPart
  <1>10. CASE RequestTimesOut
    <2>1. End("timeout", Nothing) /\ UNCHANGED <<tx, rx, ecu, answers>>
      BY <1>10 DEF RequestTimesOut, peer
    <2> QED
      BY <1>0, <2>1, EndedTransit, PayloadTypes DEF Kinds
  <1>11. CASE Close
    <2>1. OneInTransit => OneInTransit'
      BY <1>11 DEF Close, call, peer, OneInTransit, Current
    <2> QED
      BY <1>0, <1>11, <2>1, SameOutcome DEF Close, call
  <1>12. CASE Open
    <2>1. OneInTransit => OneInTransit'
      BY <1>12 DEF Open, call, peer, OneInTransit, Current
    <2> QED
      BY <1>0, <1>12, <2>1, SameOutcome DEF Open, call
  <1>13. CASE Transmit
    <2>1. /\ UNCHANGED <<answers, rx, outcome, popped, pc, purpose>> /\ tx # <<>>
          /\ tx \in Seq(Calls) /\ ecu \in Seq(Calls)
      BY <1>0, <1>13 DEF Transmit, call, StackPart
    <2>2. CASE bus_closed
      BY <1>0, <1>13, <2>1, <2>2, SameOutcome DEF Transmit, OneInTransit, Current
    <2>3. ASSUME ~bus_closed, OneInTransit PROVE OneInTransit'
      <3>1. ecu' = Append(ecu, Head(tx)) /\ tx' = Tail(tx)
        BY <1>13, <2>3 DEF Transmit
      <3>2. /\ Len(tx)' = Len(tx) - 1 /\ Head(tx) \in Calls /\ 1 \in DOMAIN tx /\ Head(tx) = tx[1]
            /\ \A i \in DOMAIN tx' : i + 1 \in DOMAIN tx /\ tx'[i] = tx[i + 1]
        BY <2>1, <3>1, TakenOff
      <3>3. /\ Len(ecu)' = Len(ecu) + 1
            /\ \A i \in DOMAIN ecu' : ecu'[i] = Head(tx) \/ (i \in DOMAIN ecu /\ ecu'[i] = ecu[i])
        BY <2>1, <3>1, <3>2, PutAtEnd
      <3>4. /\ \A i \in DOMAIN tx' : tx'[i] = Current
            /\ \A i \in DOMAIN ecu' : ecu'[i] = Current
        BY <2>3, <3>2, <3>3 DEF OneInTransit
      <3> QED
        BY <1>q, <2>1, <2>3, <3>2, <3>3, <3>4 DEF OneInTransit, Current, Nothing
    <2> QED
      BY <1>0, <2>1, <2>2, <2>3, SameOutcome
  <1>14. CASE Reassemble
    <2>1. /\ UNCHANGED <<tx, ecu, outcome, popped, pc, purpose>> /\ answers # <<>>
          /\ answers' = Tail(answers)
          /\ answers \in Seq(Answers) /\ rx \in Seq(Payloads)
      BY <1>0, <1>14 DEF Reassemble, Receiving, call, StackPart
    <2>2. PICK payload \in Payloads :
            payload.about = Head(answers).about /\ rx' = Append(rx, payload)
      BY <1>0, <1>14, Reassembled
    <2>3. /\ Len(answers)' = Len(answers) - 1 /\ 1 \in DOMAIN answers /\ Head(answers) = answers[1]
          /\ \A i \in DOMAIN answers' : i + 1 \in DOMAIN answers /\ answers'[i] = answers[i + 1]
      BY <2>1, TakenOff
    <2>4. /\ Len(rx)' = Len(rx) + 1
          /\ \A i \in DOMAIN rx' : rx'[i] = payload \/ (i \in DOMAIN rx /\ rx'[i] = rx[i])
      BY <2>1, <2>2, PutAtEnd
    <2>5. ASSUME OneInTransit PROVE OneInTransit'
      <3>1. /\ \A i \in DOMAIN answers' : answers'[i].about = Current
            /\ \A i \in DOMAIN rx' : rx'[i].about = Current
        BY <2>2, <2>3, <2>4, <2>5 DEF OneInTransit
      <3> QED
        BY <1>q, <2>1, <2>3, <2>4, <2>5, <3>1 DEF OneInTransit, Current, Nothing
    <2> QED
      BY <1>0, <2>1, <2>5, SameOutcome
  <1>15. CASE OnProtocolError
    <2>1. /\ UNCHANGED <<tx, rx, ecu, outcome, popped, pc, purpose>> /\ answers # <<>>
          /\ answers' = Tail(answers)
          /\ answers \in Seq(Answers)
      BY <1>0, <1>15 DEF OnProtocolError, Receiving, call, StackPart
    <2>2. /\ Len(answers)' = Len(answers) - 1
          /\ \A i \in DOMAIN answers' : i + 1 \in DOMAIN answers /\ answers'[i] = answers[i + 1]
      BY <2>1, TakenOff
    <2>3. ASSUME OneInTransit PROVE OneInTransit'
      <3>1. \A i \in DOMAIN answers' : answers'[i].about = Current
        BY <2>2, <2>3 DEF OneInTransit
      <3> QED
        BY <1>q, <2>1, <2>2, <2>3, <3>1 DEF OneInTransit, Current, Nothing
    <2> QED
      BY <1>0, <2>1, <2>3, SameOutcome
  <1>16. CASE EcuAnswers
    <2>1. /\ UNCHANGED <<tx, rx, outcome, popped, pc, purpose>> /\ ecu # <<>> /\ ecu' = Tail(ecu)
          /\ ecu \in Seq(Calls) /\ answers \in Seq(Answers)
      BY <1>0, <1>16 DEF EcuAnswers, call, StackPart
    <2>2. /\ Len(ecu)' = Len(ecu) - 1 /\ 1 \in DOMAIN ecu /\ Head(ecu) = ecu[1]
          /\ \A i \in DOMAIN ecu' : i + 1 \in DOMAIN ecu /\ ecu'[i] = ecu[i + 1]
      BY <2>1, TakenOff
    <2>3. /\ Len(answers)' <= Len(answers) + 1 /\ Len(answers)' \in Nat
          /\ \A i \in DOMAIN answers' :
               answers'[i].about = Head(ecu) \/ (i \in DOMAIN answers /\ answers'[i] = answers[i])
      <3>1. CASE answers' = answers
        BY <1>q, <3>1
      <3>2. CASE \E answer \in Answers :
                   answer.about = Head(ecu) /\ answers' = Append(answers, answer)
        <4>1. PICK answer \in Answers :
                answer.about = Head(ecu) /\ answers' = Append(answers, answer)
          BY <3>2
        <4>2. /\ Len(answers)' = Len(answers) + 1
              /\ \A i \in DOMAIN answers' :
                   answers'[i] = answer \/ (i \in DOMAIN answers /\ answers'[i] = answers[i])
          BY <2>1, <4>1, PutAtEnd
        <4> QED
          BY <1>q, <4>1, <4>2
      <3> QED
        BY <1>0, <1>16, <3>1, <3>2, Answered
    <2>4. ASSUME OneInTransit PROVE OneInTransit'
      <3>1. /\ \A i \in DOMAIN ecu' : ecu'[i] = Current
            /\ \A i \in DOMAIN answers' : answers'[i].about = Current
        BY <2>2, <2>3, <2>4 DEF OneInTransit
      <3> QED
        BY <1>q, <2>1, <2>2, <2>3, <2>4, <3>1 DEF OneInTransit, Current, Nothing
    <2> QED
      BY <1>0, <2>1, <2>4, SameOutcome
  <1>17. CASE ShutdownBus
    <2>1. OneInTransit => OneInTransit'
      BY <1>17 DEF ShutdownBus, call, OneInTransit, Current
    <2> QED
      BY <1>0, <1>17, <2>1, SameOutcome DEF ShutdownBus, call
  <1>18. CASE UNCHANGED vars
    <2>1. OneInTransit => OneInTransit'
      BY <1>18 DEF vars, call, peer, OneInTransit, Current
    <2> QED
      BY <1>0, <1>18, <2>1, SameOutcome DEF vars, call
  <1> QED
    BY <1>1, <1>2, <1>3, <1>4, <1>5, <1>6, <1>7, <1>8, <1>9, <1>10, <1>11, <1>12, <1>13,
       <1>14, <1>15, <1>16, <1>17, <1>18 DEF Next, InCall, IsoTpThread

\* As long as no call has failed, the answer that each call returns is the one
\* to its own request.
THEOREM NoWrongAnswerBeforeFailure == Spec => []WrongAnswerOnlyAfterFailure
PROOF
  <1>1. TransitInv => WrongAnswerOnlyAfterFailure
    BY DEF TransitInv
  <1> QED
    BY <1>1, TransitInit, TransitStep, PTL DEF Spec

-----------------------------------------------------------------------------
(* Answers come in turn: IsoTpClient implements Exchange                   *)

\* The numbers in a queue rise, from above lo and up to hi.
Rising(s, lo, hi) ==
  /\ \A i \in 1..Len(s) : lo < s[i] /\ s[i] <= hi
  /\ \A i, j \in 1..Len(s) : i < j => s[i] < s[j]
RisingAbout(s, lo, hi) ==
  /\ \A i \in 1..Len(s) : lo < s[i].about /\ s[i].about <= hi
  /\ \A i, j \in 1..Len(s) : i < j => s[i].about < s[j].about

\* The last call that has sent its request, if it was not refused.
LastAsked == IF pc # "idle" /\ purpose = "wait" THEN Current ELSE Len(outcome)

\* From the client's hands to its requests not yet sent each queue holds later
\* calls than the one before; a, b, c and d are where one ends and the next begins.
InTurn(a, b, c, d) ==
  /\ a <= b /\ b <= c /\ c <= d /\ d <= LastAsked
  /\ popped.about <= a
  /\ RisingAbout(rx, a, b) /\ RisingAbout(answers, b, c)
  /\ Rising(ecu, c, d)
  /\ Rising(tx, d, LastAsked)

QueuesInTurn == \E a, b, c, d \in Nat : InTurn(a, b, c, d)

TurnInv == TypeInv /\ QueuesInTurn /\ (popped # Nothing => popped.about # 0)

LEMMA RisingWider ==
  ASSUME NEW s \in Seq(Calls), NEW lo \in Nat, NEW hi \in Nat, NEW a \in Nat, NEW b \in Nat,
         Rising(s, lo, hi), a <= lo, hi <= b
  PROVE  Rising(s, a, b)
PROOF
  <1>1. \A i \in 1..Len(s) : s[i] \in Nat
    BY Indices, MaxRequestsAssumption DEF Calls
  <1> QED
    BY <1>1 DEF Rising

LEMMA RisingTail ==
  ASSUME NEW s \in Seq(Calls), NEW lo \in Nat, NEW hi \in Nat, Rising(s, lo, hi), s # <<>>
  PROVE  Head(s) \in Nat /\ lo < Head(s) /\ Head(s) <= hi /\ Rising(Tail(s), Head(s), hi)
PROOF
  <1>1. /\ Len(s) \in Nat /\ Len(s) >= 1 /\ Len(Tail(s)) = Len(s) - 1 /\ Head(s) = s[1]
        /\ \A i \in 1..Len(Tail(s)) : i + 1 \in 1..Len(s) /\ Tail(s)[i] = s[i + 1]
    BY Dequeued
  <1>2. \A i \in 1..Len(s) : s[i] \in Nat
    BY Indices, MaxRequestsAssumption DEF Calls
  <1>3. 1 \in 1..Len(s)
    BY <1>1
  <1>4. \A i \in 1..Len(Tail(s)) : Head(s) < Tail(s)[i] /\ Tail(s)[i] <= hi
    BY <1>1, <1>3 DEF Rising
  <1>5. \A i, j \in 1..Len(Tail(s)) : i < j => Tail(s)[i] < Tail(s)[j]
    BY <1>1 DEF Rising
  <1> QED
    BY <1>1, <1>2, <1>3, <1>4, <1>5 DEF Rising

LEMMA RisingAppend ==
  ASSUME NEW s \in Seq(Calls), NEW lo \in Nat, NEW hi \in Nat, NEW x \in Calls,
         Rising(s, lo, hi), lo <= hi, hi < x
  PROVE  Rising(Append(s, x), lo, x)
PROOF
  <1>1. /\ Len(s) \in Nat /\ Len(Append(s, x)) = Len(s) + 1
        /\ \A i \in 1..Len(s) : Append(s, x)[i] = s[i]
        /\ Append(s, x)[Len(s) + 1] = x
    BY Enqueued
  <1>2. x \in Nat /\ \A i \in 1..Len(s) : s[i] \in Nat
    BY Indices, MaxRequestsAssumption DEF Calls
  <1>3. \A i \in 1..Len(s) : lo < s[i] /\ s[i] < x
    BY <1>2 DEF Rising
  <1>4. \A i \in 1..(Len(s) + 1) : i \in 1..Len(s) \/ i = Len(s) + 1
    BY <1>1
  <1>5. \A i \in 1..(Len(s) + 1) : lo < Append(s, x)[i] /\ Append(s, x)[i] <= x
    BY <1>1, <1>2, <1>3, <1>4
  <1>6. ASSUME NEW i \in 1..(Len(s) + 1), NEW j \in 1..(Len(s) + 1), i < j
        PROVE  Append(s, x)[i] < Append(s, x)[j]
    <2>1. i \in 1..Len(s)
      BY <1>1, <1>6
    <2>2. CASE j \in 1..Len(s)
      BY <1>1, <1>6, <2>1, <2>2 DEF Rising
    <2>3. CASE j = Len(s) + 1
      BY <1>1, <1>3, <2>1, <2>3
    <2> QED
      BY <1>4, <2>2, <2>3
  <1> QED
    BY <1>1, <1>5, <1>6 DEF Rising

LEMMA RisingAboutWider ==
  ASSUME NEW S, \A e \in S : e.about \in Nat,
         NEW s \in Seq(S), NEW lo \in Nat, NEW hi \in Nat, NEW a \in Nat, NEW b \in Nat,
         RisingAbout(s, lo, hi), a <= lo, hi <= b
  PROVE  RisingAbout(s, a, b)
PROOF
  <1>1. \A i \in 1..Len(s) : s[i].about \in Nat
    BY Indices
  <1> QED
    BY <1>1 DEF RisingAbout

LEMMA RisingAboutTail ==
  ASSUME NEW S, \A e \in S : e.about \in Nat,
         NEW s \in Seq(S), NEW lo \in Nat, NEW hi \in Nat, RisingAbout(s, lo, hi), s # <<>>
  PROVE  /\ Head(s).about \in Nat /\ lo < Head(s).about /\ Head(s).about <= hi
         /\ RisingAbout(Tail(s), Head(s).about, hi)
PROOF
  <1>1. /\ Len(s) \in Nat /\ Len(s) >= 1 /\ Len(Tail(s)) = Len(s) - 1 /\ Head(s) = s[1]
        /\ \A i \in 1..Len(Tail(s)) : i + 1 \in 1..Len(s) /\ Tail(s)[i] = s[i + 1]
    BY Dequeued
  <1>2. \A i \in 1..Len(s) : s[i].about \in Nat
    BY Indices
  <1>3. 1 \in 1..Len(s)
    BY <1>1
  <1>4. \A i \in 1..Len(Tail(s)) : Head(s).about < Tail(s)[i].about /\ Tail(s)[i].about <= hi
    BY <1>1, <1>3 DEF RisingAbout
  <1>5. \A i, j \in 1..Len(Tail(s)) : i < j => Tail(s)[i].about < Tail(s)[j].about
    BY <1>1 DEF RisingAbout
  <1> QED
    BY <1>1, <1>2, <1>3, <1>4, <1>5 DEF RisingAbout

LEMMA RisingAboutAppend ==
  ASSUME NEW S, \A e \in S : e.about \in Nat,
         NEW s \in Seq(S), NEW lo \in Nat, NEW hi \in Nat, NEW x \in S,
         RisingAbout(s, lo, hi), lo <= hi, hi < x.about
  PROVE  RisingAbout(Append(s, x), lo, x.about)
PROOF
  <1>1. /\ Len(s) \in Nat /\ Len(Append(s, x)) = Len(s) + 1
        /\ \A i \in 1..Len(s) : Append(s, x)[i] = s[i]
        /\ Append(s, x)[Len(s) + 1] = x
    BY Enqueued
  <1>2. x.about \in Nat /\ \A i \in 1..Len(s) : s[i].about \in Nat
    BY Indices
  <1>3. \A i \in 1..Len(s) : lo < s[i].about /\ s[i].about < x.about
    BY <1>2 DEF RisingAbout
  <1>4. \A i \in 1..(Len(s) + 1) : i \in 1..Len(s) \/ i = Len(s) + 1
    BY <1>1
  <1>5. \A i \in 1..(Len(s) + 1) :
          lo < Append(s, x)[i].about /\ Append(s, x)[i].about <= x.about
    BY <1>1, <1>2, <1>3, <1>4
  <1>6. ASSUME NEW i \in 1..(Len(s) + 1), NEW j \in 1..(Len(s) + 1), i < j
        PROVE  Append(s, x)[i].about < Append(s, x)[j].about
    <2>1. i \in 1..Len(s)
      BY <1>1, <1>6
    <2>2. CASE j \in 1..Len(s)
      BY <1>1, <1>6, <2>1, <2>2 DEF RisingAbout
    <2>3. CASE j = Len(s) + 1
      BY <1>1, <1>3, <2>1, <2>3
    <2> QED
      BY <1>4, <2>2, <2>3
  <1> QED
    BY <1>1, <1>5, <1>6 DEF RisingAbout

LEMMA TurnTypes ==
  ASSUME TypeInv
  PROVE  /\ tx \in Seq(Calls) /\ ecu \in Seq(Calls)
         /\ rx \in Seq(Payloads) /\ answers \in Seq(Answers) /\ popped \in Payloads
         /\ \A payload \in Payloads : payload.about \in Nat
         /\ \A answer \in Answers : answer.about \in Nat
         /\ Len(outcome) \in Nat /\ Current = Len(outcome) + 1
         /\ LastAsked \in Nat /\ Len(outcome) <= LastAsked /\ LastAsked <= Current
         /\ pc # "idle" => Current \in Calls
PROOF
  <1>1. /\ tx \in Seq(Calls) /\ ecu \in Seq(Calls)
        /\ rx \in Seq(Payloads) /\ answers \in Seq(Answers) /\ popped \in Payloads
    BY TypeParts DEF StackPart, ClientPart
  <1>2. /\ \A payload \in Payloads : payload.about \in Nat
        /\ \A answer \in Answers : answer.about \in Nat
    BY MaxRequestsAssumption DEF Payloads, Answers, Calls
  <1>3. Len(outcome) \in Nat /\ (pc # "idle" => Current \in Calls) /\ Current = Len(outcome) + 1
    BY CurrentIsCall DEF Current
  <1> QED
    BY <1>1, <1>2, <1>3 DEF LastAsked

LEMMA AskedType == TypeInv => LastAsked \in Nat
BY TurnTypes

\* The last call asked only grows: with the outcomes, and when a request is sent.
LEMMA AskedGrows ==
  ASSUME TypeInv, TypeInv', [Next]_vars
  PROVE  LastAsked <= LastAsked' /\ (Send => LastAsked < Current /\ LastAsked' = Current)
PROOF
  <1>1. ASSUME NEW kind, NEW payload, End(kind, payload)
        PROVE  Len(outcome') = Len(outcome) + 1 /\ pc' = "idle"
    BY <1>1, TypeParts, AppendProperties DEF End, ClientPart
  <1>2. Len(outcome) \in Nat /\ LastAsked \in Nat /\ LastAsked <= Len(outcome) + 1
    BY TurnTypes
  <1>3. CASE UNCHANGED outcome /\ ~Send
    <2>1. ~(pc # "idle" /\ purpose = "wait") \/ (pc' # "idle" /\ purpose' = "wait")
      BY <1>3 DEF Next, vars, call, InCall, CallRequest, RefuseRequest, Pop, TakeError, RaiseError,
                  DrainOn, Drained, AnswerArrives, RequestTimesOut, End, Close, Open, IsoTpThread,
                  Transmit, Reassemble, OnProtocolError, EcuAnswers, ShutdownBus
    <2> QED
      BY <1>2, <1>3, <2>1 DEF LastAsked, Current
  <1>4. CASE Send
    <2>1. purpose = "drain" /\ pc' = "pop" /\ purpose' = "wait" /\ outcome' = outcome
      BY <1>4, TypeParts DEF Send, ClientPart
    <2> QED
      BY <1>2, <2>1 DEF LastAsked, Current
  <1>5. CASE \E kind \in Kinds, payload \in Payloads : End(kind, payload)
    <2>1. Len(outcome') = Len(outcome) + 1 /\ pc' = "idle"
      BY <1>1, <1>5
    <2>2. LastAsked' = Len(outcome) + 1
      BY <2>1 DEF LastAsked
    <2>3. ~Send
      BY <2>1 DEF Send
    <2> QED
      BY <1>2, <2>2, <2>3
  <1>6. \/ UNCHANGED outcome
        \/ \E kind \in Kinds, payload \in Payloads : End(kind, payload)
    <2>1. Nothing \in Payloads /\ popped \in Payloads
      BY PayloadTypes, TurnTypes
    <2>2. CASE RefuseRequest
      BY <2>1, <2>2 DEF RefuseRequest, Kinds
    <2>3. CASE RaiseError
      BY <2>1, <2>3 DEF RaiseError, Kinds
    <2>4. CASE AnswerArrives
      BY <2>1, <2>4 DEF AnswerArrives, Kinds
    <2>5. CASE RequestTimesOut
      BY <2>1, <2>5 DEF RequestTimesOut, Kinds
    <2> QED
      BY <2>2, <2>3, <2>4, <2>5
      DEF Next, vars, call, InCall, CallRequest, Pop, TakeError, DrainOn, Drained, Send, Close,
          Open, IsoTpThread, Transmit, Reassemble, OnProtocolError, EcuAnswers, ShutdownBus
  <1> QED
    BY <1>3, <1>4, <1>5, <1>6

\* A step that leaves the queues alone and drops at most what the client held.
LEMMA QueuesUnchanged ==
  ASSUME TurnInv, TypeInv', [Next]_vars,
         UNCHANGED <<rx, answers, ecu, tx>>, popped' = popped \/ popped' = Nothing
  PROVE  TurnInv'
PROOF
  <1>1. PICK a \in Nat, b \in Nat, c \in Nat, d \in Nat : InTurn(a, b, c, d)
    BY DEF TurnInv, QueuesInTurn
  <1>t. (LastAsked \in Nat)'
    BY AskedType, PTL
  <1>2. LastAsked \in Nat /\ LastAsked' \in Nat /\ LastAsked <= LastAsked' /\ tx \in Seq(Calls)
    BY <1>t, TurnTypes, AskedGrows DEF TurnInv
  <1>3. Rising(tx, d, LastAsked')
    BY <1>1, <1>2, RisingWider DEF InTurn
  <1>4. popped'.about <= a /\ (popped' # Nothing => popped'.about # 0)
    BY <1>1, PayloadTypes DEF TurnInv, InTurn
  <1>5. d <= LastAsked'
    BY <1>1, <1>2 DEF InTurn
  <1>6. InTurn(a, b, c, d)'
    BY <1>1, <1>3, <1>4, <1>5 DEF InTurn, RisingAbout, Rising
  <1> QED
    BY <1>4, <1>6 DEF TurnInv, QueuesInTurn

LEMMA TurnInit == Init => TurnInv
PROOF
  <1> SUFFICES ASSUME Init PROVE TurnInv
    OBVIOUS
  <1>1. popped = Nothing /\ Nothing.about = 0
    BY PayloadTypes DEF Init
  <1>2. Len(rx) = 0 /\ Len(answers) = 0 /\ Len(ecu) = 0 /\ Len(tx) = 0 /\ LastAsked = 0
    BY EmptySeq DEF Init, LastAsked
  <1>3. InTurn(0, 0, 0, 0)
    BY <1>1, <1>2 DEF InTurn, Rising, RisingAbout
  <1> QED
    BY <1>1, <1>3, TypeInit DEF TurnInv, QueuesInTurn

LEMMA TurnStep == TurnInv /\ [Next]_vars => TurnInv'
PROOF
  <1> SUFFICES ASSUME TurnInv, [Next]_vars PROVE TurnInv'
    OBVIOUS
  <1>0. TypeInv /\ TypeInv'
    BY TypeStep DEF TurnInv
  <1>t. /\ tx \in Seq(Calls) /\ ecu \in Seq(Calls)
        /\ rx \in Seq(Payloads) /\ answers \in Seq(Answers)
        /\ \A payload \in Payloads : payload.about \in Nat
        /\ \A answer \in Answers : answer.about \in Nat
        /\ LastAsked \in Nat
    BY <1>0, TurnTypes
  <1>p. PICK a \in Nat, b \in Nat, c \in Nat, d \in Nat : InTurn(a, b, c, d)
    BY DEF TurnInv, QueuesInTurn
  <1>b. /\ a <= b /\ b <= c /\ c <= d /\ d <= LastAsked /\ popped.about <= a
        /\ RisingAbout(rx, a, b) /\ RisingAbout(answers, b, c)
        /\ Rising(ecu, c, d) /\ Rising(tx, d, LastAsked)
    BY <1>p DEF InTurn
  <1>1. CASE Pop /\ rx # <<>>
    <2>1. PICK x \in Nat : x = Head(rx).about
      BY <1>1, <1>t, <1>b, RisingAboutTail
    <2>2. a < x /\ x <= b /\ RisingAbout(Tail(rx), x, b)
      BY <1>1, <1>t, <1>b, <2>1, RisingAboutTail
    <2>3. popped' = Head(rx) /\ rx' = Tail(rx) /\ UNCHANGED <<answers, ecu, tx, outcome, purpose>>
      BY <1>1 DEF Pop, peer
    <2>4. popped'.about = x /\ x # 0
      BY <2>1, <2>2, <2>3
    <2>5. LastAsked' = LastAsked
      BY <1>1 DEF Pop, LastAsked, Current
    <2>6. InTurn(x, b, c, d)'
      BY <1>b, <2>2, <2>3, <2>4, <2>5 DEF InTurn, RisingAbout, Rising
    <2> QED
      BY <1>0, <2>4, <2>6 DEF TurnInv, QueuesInTurn
  <1>2. CASE Send
    <2>1. PICK x \in Calls : x = Current
      BY <1>0, <1>2, TurnTypes DEF Send
    <2>2. LastAsked' = x /\ LastAsked < x
      BY <1>0, <1>2, <2>1, AskedGrows
    <2>3. tx' = Append(tx, x) /\ UNCHANGED <<answers, ecu, rx, popped>>
      BY <1>2, <2>1 DEF Send, peer
    <2>4. Rising(tx', d, x)
      BY <1>t, <1>b, <2>2, <2>3, RisingAppend
    <2>5. x \in Nat /\ d <= x
      BY <1>t, <1>b, <2>1, <2>2, MaxRequestsAssumption DEF Calls
    <2>6. InTurn(a, b, c, d)'
      BY <1>b, <2>2, <2>3, <2>4, <2>5 DEF InTurn, RisingAbout, Rising
    <2> QED
      BY <1>0, <2>3, <2>6 DEF TurnInv, QueuesInTurn
  <1>3. CASE Transmit /\ ~bus_closed
    <2>1. PICK x \in Calls : x = Head(tx)
      BY <1>3, <1>t, Dequeued DEF Transmit
    <2>2. x \in Nat /\ d < x /\ x <= LastAsked /\ Rising(Tail(tx), x, LastAsked)
      BY <1>3, <1>t, <1>b, <2>1, RisingTail DEF Transmit
    <2>3. Rising(Append(ecu, x), c, x)
      BY <1>t, <1>b, <2>2, RisingAppend
    <2>4. tx' = Tail(tx) /\ ecu' = Append(ecu, x) /\ UNCHANGED <<answers, rx, popped>>
      BY <1>3, <2>1 DEF Transmit, call
    <2>5. LastAsked' = LastAsked
      BY <1>3 DEF Transmit, call, LastAsked, Current
    <2>6. c <= x
      BY <1>b, <2>2
    <2>7. InTurn(a, b, c, x)'
      BY <1>b, <2>2, <2>3, <2>4, <2>5, <2>6 DEF InTurn, RisingAbout
    <2> QED
      BY <1>0, <2>2, <2>4, <2>7 DEF TurnInv, QueuesInTurn
  <1>4. CASE Reassemble \/ OnProtocolError
    <2>1. Head(answers) \in Answers /\ answers # <<>> /\ Tail(answers) \in Seq(Answers)
      BY <1>4, <1>t, Dequeued DEF Reassemble, OnProtocolError, Receiving
    <2>2. PICK x \in Nat : x = Head(answers).about
      BY <1>t, <2>1
    <2>3. b < x /\ x <= c /\ RisingAbout(Tail(answers), x, c)
      BY <1>t, <1>b, <2>1, <2>2, RisingAboutTail
    <2>4. answers' = Tail(answers) /\ UNCHANGED <<ecu, tx, popped, outcome, pc, purpose>>
      BY <1>4 DEF Reassemble, OnProtocolError, call
    <2>5. LastAsked' = LastAsked
      BY <2>4 DEF LastAsked, Current
    <2>6. RisingAbout(rx', a, x)
      <3>1. CASE OnProtocolError
        <4>1. rx' = rx
          BY <3>1 DEF OnProtocolError
        <4>2. a \in Nat /\ a <= a /\ b <= x
          BY <2>3
        <4>3. RisingAbout(rx, a, x)
          BY <1>t, <1>b, <4>2, RisingAboutWider
        <4> QED
          BY <4>1, <4>3
      <3>2. CASE Reassemble
        <4>1. PICK payload \in Payloads : payload.about = x /\ rx' = Append(rx, payload)
          BY <1>0, <2>2, <3>2, Reassembled
        <4>2. RisingAbout(Append(rx, payload), a, payload.about)
          BY <1>t, <1>b, <2>3, <4>1, RisingAboutAppend
        <4> QED
          BY <4>1, <4>2
      <3> QED
        BY <1>4, <3>1, <3>2
    <2>7. a <= x
      BY <1>b, <2>3
    <2>8. InTurn(a, x, c, d)'
      BY <1>b, <2>3, <2>4, <2>5, <2>6, <2>7 DEF InTurn, Rising
    <2> QED
      BY <1>0, <2>4, <2>8 DEF TurnInv, QueuesInTurn
  <1>5. CASE EcuAnswers
    <2>1. PICK x \in Calls : x = Head(ecu)
      BY <1>5, <1>t, Dequeued DEF EcuAnswers
    <2>2. x \in Nat /\ c < x /\ x <= d /\ Rising(Tail(ecu), x, d)
      BY <1>5, <1>t, <1>b, <2>1, RisingTail DEF EcuAnswers
    <2>3. ecu' = Tail(ecu) /\ UNCHANGED <<rx, tx, popped, outcome, pc, purpose>>
      BY <1>5 DEF EcuAnswers, call
    <2>4. LastAsked' = LastAsked
      BY <2>3 DEF LastAsked, Current
    <2>5. RisingAbout(answers', b, x)
      <3>1. CASE answers' = answers
        BY <1>t, <1>b, <2>2, <3>1, RisingAboutWider
      <3>2. ASSUME NEW answer \in Answers, answer.about = x, answers' = Append(answers, answer)
            PROVE  RisingAbout(answers', b, x)
        <4>1. RisingAbout(Append(answers, answer), b, answer.about)
          BY <1>t, <1>b, <2>2, <3>2, RisingAboutAppend
        <4> QED
          BY <3>2, <4>1
      <3> QED
        BY <1>0, <1>5, <2>1, <3>1, <3>2, Answered
    <2>6. b <= x
      BY <1>b, <2>2
    <2>7. InTurn(a, b, x, d)'
      BY <1>b, <2>2, <2>3, <2>4, <2>5, <2>6 DEF InTurn, Rising, RisingAbout
    <2> QED
      BY <1>0, <2>2, <2>3, <2>7 DEF TurnInv, QueuesInTurn
  <1>6. CASE UNCHANGED <<rx, answers, ecu, tx>> /\ (popped' = popped \/ popped' = Nothing)
    BY <1>0, <1>6, QueuesUnchanged
  <1>7. \/ Pop /\ rx # <<>>
        \/ Send \/ (Transmit /\ ~bus_closed) \/ Reassemble \/ OnProtocolError \/ EcuAnswers
        \/ UNCHANGED <<rx, answers, ecu, tx>> /\ (popped' = popped \/ popped' = Nothing)
    BY DEF Next, vars, call, peer, InCall, CallRequest, RefuseRequest, Pop, TakeError, RaiseError,
           DrainOn, Drained, AnswerArrives, RequestTimesOut, Close, Open, IsoTpThread, Transmit,
           ShutdownBus
  <1> QED
    BY <1>1, <1>2, <1>3, <1>4, <1>5, <1>6, <1>7

LEMMA TurnAlways == Spec => []TurnInv
BY TurnInit, TurnStep, PTL DEF Spec

\* What is in a queue when its oldest element is taken off and one is put at its end.
LEMMA SentChanges ==
  ASSUME NEW s \in Seq(Calls)
  PROVE  /\ s # <<>> => Sent(s) = {Head(s)} \cup Sent(Tail(s))
         /\ \A x \in Calls : Sent(Append(s, x)) = Sent(s) \cup {x}
PROOF
  <1>1. DOMAIN s = 1..Len(s) /\ Len(s) \in Nat
    BY Indices
  <1>2. ASSUME s # <<>> PROVE Sent(s) = {Head(s)} \cup Sent(Tail(s))
    <2>1. /\ Len(s) >= 1 /\ Head(s) = s[1] /\ Len(Tail(s)) = Len(s) - 1
          /\ Tail(s) \in Seq(Calls)
          /\ \A i \in 1..Len(Tail(s)) : i + 1 \in 1..Len(s) /\ Tail(s)[i] = s[i + 1]
      BY <1>2, Dequeued
    <2>2. DOMAIN Tail(s) = 1..Len(Tail(s))
      BY <2>1, Indices
    <2>3. \A i \in 1..Len(s) : i = 1 \/ (i - 1 \in 1..Len(Tail(s)) /\ s[i] = Tail(s)[i - 1])
      BY <1>1, <2>1
    <2>4. Head(s) \in Sent(s)
      <3>1. 1 \in DOMAIN s
        BY <1>1, <2>1
      <3> QED
        BY <2>1, <3>1 DEF Sent
    <2>5. \A n \in Sent(Tail(s)) : n \in Sent(s)
      BY <1>1, <2>1, <2>2 DEF Sent
    <2>6. ASSUME NEW n \in Sent(s) PROVE n = Head(s) \/ n \in Sent(Tail(s))
      <3>1. PICK i \in 1..Len(s) : n = s[i]
        BY <1>1 DEF Sent
      <3>2. CASE i = 1
        BY <2>1, <3>1, <3>2
      <3>3. CASE i # 1
        <4>1. PICK j \in 1..Len(Tail(s)) : s[i] = Tail(s)[j]
          BY <2>3, <3>3
        <4>2. j \in DOMAIN Tail(s) /\ n = Tail(s)[j]
          BY <2>2, <3>1, <4>1
        <4> QED
          BY <4>2 DEF Sent
      <3> QED
        BY <3>2, <3>3
    <2> QED
      BY <2>4, <2>5, <2>6
  <1>3. ASSUME NEW x \in Calls PROVE Sent(Append(s, x)) = Sent(s) \cup {x}
    <2>1. /\ Append(s, x) \in Seq(Calls) /\ Len(Append(s, x)) = Len(s) + 1
          /\ \A i \in 1..Len(s) : Append(s, x)[i] = s[i]
          /\ Append(s, x)[Len(s) + 1] = x
      BY Enqueued
    <2>2. DOMAIN Append(s, x) = 1..(Len(s) + 1)
      BY <2>1, Indices
    <2>3. \A i \in 1..(Len(s) + 1) : i \in 1..Len(s) \/ i = Len(s) + 1
      BY <1>1
    <2>4. 1..Len(s) \subseteq 1..(Len(s) + 1) /\ Len(s) + 1 \in 1..(Len(s) + 1)
      BY <1>1
    <2> QED
      BY <1>1, <2>1, <2>2, <2>3, <2>4 DEF Sent
  <1> QED
    BY <1>2, <1>3

LEMMA AboutChanges ==
  ASSUME NEW S, NEW s \in Seq(S)
  PROVE  /\ s # <<>> => About(s) = {Head(s).about} \cup About(Tail(s))
         /\ \A x \in S : About(Append(s, x)) = About(s) \cup {x.about}
PROOF
  <1>1. DOMAIN s = 1..Len(s) /\ Len(s) \in Nat
    BY Indices
  <1>2. ASSUME s # <<>> PROVE About(s) = {Head(s).about} \cup About(Tail(s))
    <2>1. /\ Len(s) >= 1 /\ Head(s) = s[1] /\ Len(Tail(s)) = Len(s) - 1
          /\ Tail(s) \in Seq(S)
          /\ \A i \in 1..Len(Tail(s)) : i + 1 \in 1..Len(s) /\ Tail(s)[i] = s[i + 1]
      BY <1>2, Dequeued
    <2>2. DOMAIN Tail(s) = 1..Len(Tail(s))
      BY <2>1, Indices
    <2>3. \A i \in 1..Len(s) : i = 1 \/ (i - 1 \in 1..Len(Tail(s)) /\ s[i] = Tail(s)[i - 1])
      BY <1>1, <2>1
    <2>4. Head(s).about \in About(s)
      <3>1. 1 \in DOMAIN s
        BY <1>1, <2>1
      <3> QED
        BY <2>1, <3>1 DEF About
    <2>5. \A n \in About(Tail(s)) : n \in About(s)
      BY <1>1, <2>1, <2>2 DEF About
    <2>6. ASSUME NEW n \in About(s) PROVE n = Head(s).about \/ n \in About(Tail(s))
      <3>1. PICK i \in 1..Len(s) : n = s[i].about
        BY <1>1 DEF About
      <3>2. CASE i = 1
        BY <2>1, <3>1, <3>2
      <3>3. CASE i # 1
        <4>1. PICK j \in 1..Len(Tail(s)) : s[i] = Tail(s)[j]
          BY <2>3, <3>3
        <4>2. j \in DOMAIN Tail(s) /\ n = Tail(s)[j].about
          BY <2>2, <3>1, <4>1
        <4> QED
          BY <4>2 DEF About
      <3> QED
        BY <3>2, <3>3
    <2> QED
      BY <2>4, <2>5, <2>6
  <1>3. ASSUME NEW x \in S PROVE About(Append(s, x)) = About(s) \cup {x.about}
    <2>1. /\ Append(s, x) \in Seq(S) /\ Len(Append(s, x)) = Len(s) + 1
          /\ \A i \in 1..Len(s) : Append(s, x)[i] = s[i]
          /\ Append(s, x)[Len(s) + 1] = x
      BY Enqueued
    <2>2. DOMAIN Append(s, x) = 1..(Len(s) + 1)
      BY <2>1, Indices
    <2>3. \A i \in 1..(Len(s) + 1) : i \in 1..Len(s) \/ i = Len(s) + 1
      BY <1>1
    <2>4. 1..Len(s) \subseteq 1..(Len(s) + 1) /\ Len(s) + 1 \in 1..(Len(s) + 1)
      BY <1>1
    <2> QED
      BY <1>1, <2>1, <2>2, <2>3, <2>4 DEF About
  <1> QED
    BY <1>2, <1>3

\* What a call that ends adds to the answers returned.
LEMMA ReturnedGrows ==
  ASSUME TypeInv, NEW kind \in Kinds, NEW payload \in Payloads, End(kind, payload)
  PROVE  Returned' = Append(Returned, payload.about)
PROOF
  <1>1. outcome \in Seq(Outcomes) /\ \A o \in Outcomes : o.payload.about \in Nat
    BY TypeParts, TurnTypes DEF ClientPart, Outcomes
  <1>2. /\ outcome' \in Seq(Outcomes) /\ Len(outcome') = Len(outcome) + 1
        /\ \A k \in 1..Len(outcome) : outcome'[k] = outcome[k]
        /\ outcome'[Len(outcome) + 1].payload = payload
    BY Ending, PayloadTypes
  <1>3. PICK n \in Nat : n = Len(outcome)
    BY <1>1, Indices
  <1>4. DOMAIN outcome = 1..n /\ DOMAIN outcome' = 1..(n + 1)
    BY <1>1, <1>2, <1>3, Indices
  <1>5. \A i \in 1..(n + 1) : i \in 1..n \/ i = n + 1
    BY <1>3
  <1>6. Returned \in [1..n -> Nat] /\ Returned' \in [1..(n + 1) -> Nat]
    BY <1>1, <1>2, <1>3, <1>4, Indices DEF Returned
  <1>7. Returned \in Seq(Nat) /\ Len(Returned) = n /\ Returned' \in Seq(Nat) /\ Len(Returned') = n + 1
    BY <1>3, <1>6
  <1>8. /\ Append(Returned, payload.about) \in Seq(Nat)
        /\ Len(Append(Returned, payload.about)) = n + 1
        /\ \A i \in 1..n : Append(Returned, payload.about)[i] = Returned[i]
        /\ Append(Returned, payload.about)[n + 1] = payload.about
    <2>1. payload.about \in Nat
      BY TurnTypes
    <2> QED
      BY <1>7, <2>1, Enqueued
  <1>9. \A i \in 1..n : Returned'[i] = Returned[i]
    BY <1>2, <1>3, <1>4 DEF Returned
  <1>10. Returned'[n + 1] = payload.about
    BY <1>2, <1>3, <1>4 DEF Returned
  <1>11. \A i \in 1..Len(Returned') : Returned'[i] = Append(Returned, payload.about)[i]
    BY <1>5, <1>7, <1>8, <1>9, <1>10
  <1> QED
    BY <1>7, <1>8, <1>11, SeqEqual

LEMMA ReturnedLength == TypeInv => Len(Returned) = Len(outcome)
PROOF
  <1> SUFFICES ASSUME TypeInv PROVE Len(Returned) = Len(outcome)
    OBVIOUS
  <1>1. outcome \in Seq(Outcomes) /\ \A o \in Outcomes : o.payload.about \in Nat
    BY TypeParts, TurnTypes DEF ClientPart, Outcomes
  <1>2. DOMAIN outcome = 1..Len(outcome) /\ Len(outcome) \in Nat
    BY <1>1, Indices
  <1>3. Returned \in [1..Len(outcome) -> Nat]
    BY <1>1, <1>2, Indices DEF Returned
  <1> QED
    BY <1>2, <1>3

\* All that is queued is later than what the client holds.
LEMMA QueuedLater ==
  ASSUME TurnInv
  PROVE  \A n \in Queued : n \in Nat /\ n > popped.about
PROOF
  <1>0. TypeInv
    BY DEF TurnInv
  <1>1. PICK a \in Nat, b \in Nat, c \in Nat, d \in Nat : InTurn(a, b, c, d)
    BY DEF TurnInv, QueuesInTurn
  <1>2. popped.about \in Nat /\ popped.about <= a /\ a <= b /\ b <= c /\ c <= d
    BY <1>0, <1>1, TurnTypes DEF InTurn
  <1>3. \A n \in About(rx) : n \in Nat /\ n > a
    BY <1>0, <1>1, TurnTypes, Indices DEF InTurn, RisingAbout, About
  <1>4. \A n \in About(answers) : n \in Nat /\ n > b
    BY <1>0, <1>1, TurnTypes, Indices DEF InTurn, RisingAbout, About
  <1>5. \A n \in Sent(ecu) : n \in Nat /\ n > c
    BY <1>0, <1>1, TurnTypes, Indices, MaxRequestsAssumption DEF InTurn, Rising, Sent, Calls
  <1>6. \A n \in Sent(tx) : n \in Nat /\ n > d
    BY <1>0, <1>1, TurnTypes, Indices, MaxRequestsAssumption DEF InTurn, Rising, Sent, Calls
  <1> QED
    BY <1>2, <1>3, <1>4, <1>5, <1>6 DEF Queued

\* A step that neither ends nor begins a call and sends nothing only loses answers.
LEMMA NothingReturned ==
  ASSUME TurnInv, Phase' = Phase, outcome' = outcome, InFlight' \subseteq InFlight
  PROVE  Promise!Lose
PROOF
  <1>1. Returned' = Returned
    BY DEF Returned
  <1> QED
    BY <1>1 DEF Promise!Lose

LEMMA ClientKeepsPromise ==
  ASSUME TurnInv, CallRequest \/ RefuseRequest \/ InCall
  PROVE  Promise!Next
PROOF
  <1>0. /\ TypeInv /\ tx \in Seq(Calls) /\ rx \in Seq(Payloads)
        /\ pc \in {"idle", "pop", "check", "clear", "send"} /\ purpose \in {"drain", "wait"}
        /\ pc = "send" => purpose = "drain"
        /\ Nothing \in Payloads /\ Nothing.about = 0 /\ popped \in Payloads
        /\ popped # Nothing => popped.about # 0
    BY TurnTypes, TypeParts, PayloadTypes DEF TurnInv, ClientPart
  <1>1. CASE CallRequest
    <2>1. Phase = "idle" /\ Phase' = "asking"
      BY <1>1 DEF CallRequest, Phase
    <2>2. InFlight' = InFlight /\ Returned' = Returned
      BY <1>1 DEF CallRequest, peer, InFlight, Queued, Returned
    <2> QED
      BY <2>1, <2>2 DEF Promise!Next, Promise!Call
  <1>2. CASE RefuseRequest
    <2>1. PICK kind \in Kinds : End(kind, Nothing)
      BY <1>2 DEF RefuseRequest, Kinds
    <2>2. Returned' = Append(Returned, 0)
      BY <1>0, <2>1, ReturnedGrows
    <2>3. Phase = "idle" /\ Phase' = "idle"
      BY <1>2, <2>1 DEF RefuseRequest, End, Phase
    <2>4. InFlight' = InFlight
      BY <1>2 DEF RefuseRequest, peer, InFlight, Queued
    <2> QED
      BY <2>2, <2>3, <2>4 DEF Promise!Next, Promise!Refuse
  <1>3. CASE Pop
    <2>1. Phase' = Phase /\ outcome' = outcome
      BY <1>3 DEF Pop, Phase
    <2>2. CASE rx # <<>>
      <3>1. About(rx) = {Head(rx).about} \cup About(Tail(rx))
        BY <1>0, <2>2, AboutChanges
      <3>2. popped' = Head(rx) /\ rx' = Tail(rx) /\ UNCHANGED <<answers, ecu, tx>>
        BY <1>3, <2>2 DEF Pop, peer
      <3>3. InFlight' \subseteq InFlight
        BY <3>1, <3>2 DEF InFlight, Queued
      <3> QED
        BY <2>1, <3>3, NothingReturned DEF Promise!Next
    <2>3. CASE rx = <<>>
      <3>1. InFlight' \subseteq InFlight
        BY <1>0, <1>3, <2>3 DEF Pop, peer, InFlight, Queued
      <3> QED
        BY <2>1, <3>1, NothingReturned DEF Promise!Next
    <2> QED
      BY <2>2, <2>3
  <1>4. CASE TakeError \/ DrainOn \/ Drained
    <2>1. Phase' = Phase /\ outcome' = outcome
      BY <1>4 DEF TakeError, DrainOn, Drained, RecvReturns, Phase
    <2>2. InFlight' \subseteq InFlight
      BY <1>0, <1>4 DEF TakeError, DrainOn, Drained, peer, InFlight, Queued
    <2> QED
      BY <2>1, <2>2, NothingReturned DEF Promise!Next
  <1>5. CASE Send
    <2>1. Phase = "asking" /\ Phase' = "waiting"
      BY <1>0, <1>5 DEF Send, Phase
    <2>2. Promise!Current = Current /\ Current \in Calls
      BY <1>0, <1>5, ReturnedLength, TurnTypes DEF Promise!Current, Current, Send
    <2>3. Sent(tx') = Sent(tx) \cup {Current}
      BY <1>0, <1>5, <2>2, SentChanges DEF Send
    <2>4. InFlight' = InFlight \cup {Current} /\ Returned' = Returned
      BY <1>5, <2>3 DEF Send, peer, InFlight, Queued, Returned
    <2> QED
      BY <2>1, <2>2, <2>4 DEF Promise!Next, Promise!Ask
  <1>6. CASE RaiseError \/ RequestTimesOut
    <2>1. PICK kind \in Kinds : End(kind, Nothing)
      BY <1>6 DEF RaiseError, RequestTimesOut, Kinds
    <2>2. Returned' = Append(Returned, 0)
      BY <1>0, <2>1, ReturnedGrows
    <2>3. Phase # "idle" /\ Phase' = "idle"
      BY <1>6, <2>1 DEF RaiseError, RequestTimesOut, RecvReturns, End, Phase
    <2>4. InFlight' \subseteq InFlight
      BY <1>0, <1>6 DEF RaiseError, RequestTimesOut, peer, InFlight, Queued
    <2> QED
      BY <2>2, <2>3, <2>4 DEF Promise!Next, Promise!Fail
  <1>7. CASE AnswerArrives
    <2>1. PICK kind \in Kinds : End(kind, popped)
      BY <1>7 DEF AnswerArrives, Kinds
    <2>2. Returned' = Append(Returned, popped.about)
      BY <1>0, <2>1, ReturnedGrows
    <2>3. Phase = "waiting" /\ Phase' = "idle"
      BY <1>7, <2>1 DEF AnswerArrives, RecvReturns, End, Phase
    <2>4. popped.about \in InFlight
      BY <1>0, <1>7 DEF AnswerArrives, InFlight
    <2>5. InFlight' = Queued
      BY <1>0, <1>7 DEF AnswerArrives, peer, InFlight, Queued
    <2>6. popped.about \in Nat
      BY <1>0, TurnTypes
    <2>7. {later \in InFlight : later > popped.about} = Queued
      BY <2>6, QueuedLater DEF InFlight
    <2> QED
      BY <2>2, <2>3, <2>4, <2>5, <2>7 DEF Promise!Next, Promise!Return
  <1> QED
    BY <1>1, <1>2, <1>3, <1>4, <1>5, <1>6, <1>7 DEF InCall

\* Below the client answers are moved along, or lost.
LEMMA LayersBelowLose ==
  ASSUME TurnInv, IsoTpThread \/ EcuAnswers
  PROVE  InFlight' \subseteq InFlight
PROOF
  <1>0. /\ TypeInv /\ tx \in Seq(Calls) /\ ecu \in Seq(Calls)
        /\ rx \in Seq(Payloads) /\ answers \in Seq(Answers)
    BY TurnTypes DEF TurnInv
  <1>1. CASE Transmit
    <2>1. Sent(tx) = {Head(tx)} \cup Sent(Tail(tx)) /\ Head(tx) \in Calls
      BY <1>0, <1>1, SentChanges, Dequeued DEF Transmit
    <2>2. Sent(Append(ecu, Head(tx))) = Sent(ecu) \cup {Head(tx)}
      BY <1>0, <2>1, SentChanges
    <2> QED
      BY <1>1, <2>1, <2>2 DEF Transmit, call, InFlight, Queued
  <1>2. CASE Reassemble \/ OnProtocolError
    <2>1. About(answers) = {Head(answers).about} \cup About(Tail(answers))
      BY <1>0, <1>2, AboutChanges DEF Reassemble, OnProtocolError, Receiving
    <2>2. answers' = Tail(answers) /\ UNCHANGED <<tx, ecu, popped>>
      BY <1>2 DEF Reassemble, OnProtocolError, call
    <2>3. About(rx') \subseteq About(rx) \cup {Head(answers).about}
      <3>1. CASE OnProtocolError
        BY <3>1 DEF OnProtocolError
      <3>2. CASE Reassemble
        <4>1. PICK payload \in Payloads :
                payload.about = Head(answers).about /\ rx' = Append(rx, payload)
          BY <1>0, <3>2, Reassembled
        <4>2. About(Append(rx, payload)) = About(rx) \cup {payload.about}
          BY <1>0, AboutChanges
        <4> QED
          BY <4>1, <4>2
      <3> QED
        BY <1>2, <3>1, <3>2
    <2> QED
      BY <2>1, <2>2, <2>3 DEF InFlight, Queued
  <1>3. CASE EcuAnswers
    <2>1. Sent(ecu) = {Head(ecu)} \cup Sent(Tail(ecu))
      BY <1>0, <1>3, SentChanges DEF EcuAnswers
    <2>2. ecu' = Tail(ecu) /\ UNCHANGED <<tx, rx, popped>>
      BY <1>3 DEF EcuAnswers, call
    <2>3. About(answers') \subseteq About(answers) \cup {Head(ecu)}
      <3>1. ASSUME NEW answer \in Answers, answer.about = Head(ecu),
                   answers' = Append(answers, answer)
            PROVE  About(answers') \subseteq About(answers) \cup {Head(ecu)}
        <4>1. About(Append(answers, answer)) = About(answers) \cup {answer.about}
          BY <1>0, AboutChanges
        <4> QED
          BY <3>1, <4>1
      <3>2. CASE answers' = answers
        BY <3>2
      <3> QED
        BY <1>0, <1>3, <3>1, <3>2, Answered
    <2> QED
      BY <2>1, <2>2, <2>3 DEF InFlight, Queued
  <1> QED
    BY <1>1, <1>2, <1>3 DEF IsoTpThread

\* However many calls are made, time out or fail, the answers that calls return
\* are to requests sent before, each at most once and in the order of the requests.
THEOREM AnswersReturnedInTurn == Spec => AnswersInTurn
PROOF
  <1>1. Init => Promise!Init
    <2> SUFFICES ASSUME Init PROVE Promise!Init
      OBVIOUS
    <2>1. Phase = "idle" /\ Returned = <<>>
      BY DEF Init, Phase, Returned
    <2>2. InFlight = {}
      <3>1. DOMAIN rx = {} /\ DOMAIN answers = {} /\ DOMAIN ecu = {} /\ DOMAIN tx = {}
        BY DEF Init
      <3>2. popped.about = 0
        BY PayloadTypes DEF Init
      <3> QED
        BY <3>1, <3>2 DEF InFlight, Queued, About, Sent
    <2> QED
      BY <2>1, <2>2 DEF Promise!Init
  <1>2. TurnInv /\ [Next]_vars => [Promise!Next]_(Promise!vars)
    <2> SUFFICES ASSUME TurnInv, [Next]_vars PROVE [Promise!Next]_(Promise!vars)
      OBVIOUS
    <2>1. CASE CallRequest \/ RefuseRequest \/ InCall
      BY <2>1, ClientKeepsPromise
    <2>2. CASE IsoTpThread \/ EcuAnswers
      <3>1. UNCHANGED call
        BY <2>2 DEF IsoTpThread, Transmit, Reassemble, OnProtocolError, EcuAnswers
      <3>2. Phase' = Phase /\ outcome' = outcome
        BY <3>1 DEF call, Phase
      <3> QED
        BY <2>2, <3>2, LayersBelowLose, NothingReturned DEF Promise!Next
    <2>3. CASE Close \/ Open \/ ShutdownBus \/ UNCHANGED vars
      <3>1. UNCHANGED <<call, rx, answers, ecu, tx>>
        BY <2>3 DEF Close, Open, ShutdownBus, vars, peer
      <3> QED
        BY <3>1 DEF call, Phase, Returned, InFlight, Queued, Promise!vars
    <2> QED
      BY <2>1, <2>2, <2>3 DEF Next
  <1> QED
    BY <1>1, <1>2, TurnAlways, PTL DEF Spec, AnswersInTurn, Promise!Spec

-----------------------------------------------------------------------------
(* What Exchange promises                                                  *)

\* The open calls have been made, and are later than the answers returned.
OpenInv ==
  /\ Returned \in Seq(Nat)
  /\ Promise!InOrder
  /\ \A n \in DOMAIN Returned : Returned[n] <= n
  /\ \A k \in InFlight :
       k \in 1..(Len(Returned) + 1) /\ \A n \in DOMAIN Returned : Returned[n] < k

LEMMA OpenInit == Promise!Init => OpenInv
PROOF
  <1> SUFFICES ASSUME Promise!Init PROVE OpenInv
    OBVIOUS
  <1>1. InFlight = {} /\ Returned = <<>>
    BY DEF Promise!Init
  <1>2. Returned \in Seq(Nat) /\ DOMAIN Returned = {}
    BY <1>1, EmptySeq
  <1> QED
    BY <1>1, <1>2 DEF OpenInv, Promise!InOrder

LEMMA OpenAppend ==
  ASSUME OpenInv, NEW answer \in Nat,
         answer # 0 => answer \in InFlight,
         Returned' = Append(Returned, answer),
         \A k \in InFlight' : k \in InFlight /\ answer < k
  PROVE  OpenInv'
PROOF
  <1>1. PICK n \in Nat : n = Len(Returned)
    BY Indices DEF OpenInv
  <1>2. /\ Returned' \in Seq(Nat) /\ Len(Returned') = n + 1
        /\ \A i \in 1..n : Returned'[i] = Returned[i]
        /\ Returned'[n + 1] = answer
    BY <1>1, Enqueued DEF OpenInv
  <1>3. DOMAIN Returned = 1..n /\ DOMAIN Returned' = 1..(n + 1)
    BY <1>1, <1>2, Indices DEF OpenInv
  <1>4. \A i \in 1..(n + 1) : i \in 1..n \/ i = n + 1
    BY <1>1
  <1>5. answer <= n + 1 /\ (answer # 0 => \A i \in 1..n : Returned[i] < answer)
    BY <1>1, <1>3 DEF OpenInv
  <1>6. \A i \in 1..(n + 1) : Returned'[i] <= i
    BY <1>2, <1>3, <1>4, <1>5 DEF OpenInv
  <1>7. ASSUME NEW i \in 1..(n + 1), Returned'[i] # 0, NEW k \in 1..(i - 1)
        PROVE  Returned'[k] < Returned'[i]
    <2>1. k \in 1..n /\ Returned'[k] = Returned[k]
      BY <1>1, <1>2, <1>7
    <2>2. CASE i = n + 1
      BY <1>2, <1>5, <1>7, <2>1, <2>2
    <2>3. CASE i \in 1..n
      BY <1>2, <1>3, <1>7, <2>1, <2>3 DEF OpenInv, Promise!InOrder
    <2> QED
      BY <1>4, <2>2, <2>3
  <1>8. (Promise!InOrder)'
    BY <1>3, <1>6, <1>7 DEF Promise!InOrder
  <1>9. ASSUME NEW k \in InFlight'
        PROVE  k \in 1..(Len(Returned') + 1) /\ \A i \in DOMAIN Returned' : Returned'[i] < k
    <2>1. k \in 1..(n + 1) /\ answer < k /\ \A i \in 1..n : Returned[i] < k
      BY <1>1, <1>3, <1>9 DEF OpenInv
    <2>2. k \in 1..(Len(Returned') + 1)
      BY <1>1, <1>2, <2>1
    <2> QED
      BY <1>2, <1>3, <1>4, <2>1, <2>2
  <1> QED
    BY <1>2, <1>3, <1>6, <1>8, <1>9 DEF OpenInv

LEMMA OpenStep == OpenInv /\ [Promise!Next]_(Promise!vars) => OpenInv'
PROOF
  <1> SUFFICES ASSUME OpenInv, [Promise!Next]_(Promise!vars) PROVE OpenInv'
    OBVIOUS
  <1>0. /\ Len(Returned) \in Nat /\ DOMAIN Returned = 1..Len(Returned)
        /\ \A n \in 1..Len(Returned) : Returned[n] \in Nat
        /\ \A k \in InFlight : k \in Nat /\ k # 0
    BY Indices DEF OpenInv
  <1>1. CASE Promise!Refuse \/ Promise!Fail
    <2>1. Returned' = Append(Returned, 0) /\ InFlight' \subseteq InFlight
      BY <1>1 DEF Promise!Refuse, Promise!Fail
    <2>2. \A k \in InFlight' : k \in InFlight /\ 0 < k
      BY <1>0, <2>1
    <2> QED
      BY <2>1, <2>2, OpenAppend
  <1>2. CASE Promise!Return
    <2>1. PICK answer \in InFlight :
            /\ Returned' = Append(Returned, answer)
            /\ InFlight' = {later \in InFlight : later > answer}
      BY <1>2 DEF Promise!Return
    <2>2. answer \in Nat /\ \A k \in InFlight' : k \in InFlight /\ answer < k
      BY <1>0, <2>1
    <2> QED
      BY <2>1, <2>2, OpenAppend
  <1>3. CASE Promise!Ask
    <2>1. Returned' = Returned /\ InFlight' = InFlight \cup {Len(Returned) + 1}
      BY <1>3 DEF Promise!Ask, Promise!Current
    <2>2. \A n \in DOMAIN Returned : Returned[n] < Len(Returned) + 1
      BY <1>0 DEF OpenInv
    <2>3. \A k \in InFlight' :
            k \in 1..(Len(Returned) + 1) /\ \A n \in DOMAIN Returned : Returned[n] < k
      BY <1>0, <2>1, <2>2 DEF OpenInv
    <2> QED
      BY <2>1, <2>3 DEF OpenInv, Promise!InOrder
  <1>4. CASE Promise!Call \/ Promise!Lose \/ UNCHANGED Promise!vars
    <2>1. Returned' = Returned /\ InFlight' \subseteq InFlight
      BY <1>4 DEF Promise!Call, Promise!Lose, Promise!vars
    <2> QED
      BY <2>1 DEF OpenInv, Promise!InOrder
  <1> QED
    BY <1>1, <1>2, <1>3, <1>4 DEF Promise!Next

\* An answer that a call returns is its own or that of an earlier call, and no
\* answer is returned twice or after a later one.
THEOREM NoAnswerTwice == Spec => []Promise!InOrder
PROOF
  <1>1. Promise!Spec => []OpenInv
    BY OpenInit, OpenStep, PTL DEF Promise!Spec
  <1>2. OpenInv => Promise!InOrder
    BY DEF OpenInv
  <1> QED
    BY <1>1, <1>2, AnswersReturnedInTurn, PTL DEF AnswersInTurn
=============================================================================
