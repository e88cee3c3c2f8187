-------------------------- MODULE InterceptionProofs --------------------------
(***************************************************************************)
(* Proofs about Interception for any observers and any number of           *)
(* publications: which reply may replace which message.                    *)
(***************************************************************************)
EXTENDS Interception, SequenceTheorems, TLAPS

Lines == [verdict : AllVerdicts, about : Nat, by : Observers]
Deliveries ==
  [payload : {"original", "replacement", "exception"}, about : Nat, by : {0} \cup Observers]

TypeOK ==
  /\ server \in BOOLEAN /\ inner_open \in BOOLEAN
  /\ client \in {0} \cup Observers
  /\ buffer \in Seq(Lines)
  /\ pc \in {"idle", "ensure_client", "send", "read"}
  /\ delivered \in Seq(Deliveries)
  /\ socket \in [Observers -> {"none", "backlog", "accepted", "closed"}]
  /\ hung_up \subseteq Observers /\ partial \subseteq Observers
  /\ wire \in [Observers -> Seq(Lines)]
  /\ asked \in [Observers -> Nat]
  /\ shown \in [Observers -> Seq(Nat)]

\* A publication is made over an open connection, and talks to an observer.
PublishOwns ==
  /\ pc # "idle" => server /\ inner_open
  /\ pc \in {"send", "read"} => client # 0

\* Each line is by the observer that it came from, the observer that is read was
\* shown the message, and so was every author of a replacement.
WireBy == \A o \in Observers : \A i \in DOMAIN wire[o] : wire[o][i].by = o
BufferBy == \A i \in DOMAIN buffer : buffer[i].by = client
ReadWasShown == pc = "read" => \E i \in DOMAIN shown[client] : shown[client][i] = Current
AuthorsKnown ==
  \A n \in DOMAIN delivered :
    delivered[n].payload = "replacement" => delivered[n].by \in Observers

\* Nothing is asked of the observer and nothing of it is unread.
Quiet(o) == asked[o] = 0 /\ wire[o] = <<>>

\* The one answer of observer o is still to come, on its way, or received.
Outstanding(o) ==
  \/ asked[o] = Current /\ wire[o] = <<>> /\ buffer = <<>>
  \/ /\ asked[o] = 0 /\ buffer = <<>>
     /\ Len(wire[o]) = 1 /\ wire[o][1].about = Current
  \/ /\ Quiet(o)
     /\ Len(buffer) = 1 /\ buffer[1].about = Current

\* An observer that keeps to the protocol is asked one thing at a time.
OneAnswer(o) ==
  /\ socket[o] \in {"none", "backlog"} => Quiet(o)
  /\ o = client => \/ Quiet(o) /\ buffer = <<>>
                   \/ pc = "read" /\ Outstanding(o)
OneAnswerEach == \A o \in Observers \ Chatty : OneAnswer(o)

-----------------------------------------------------------------------------
(* Queues                                                                  *)

LEMMA Dequeued ==
  ASSUME NEW S, NEW s \in Seq(S), s # <<>>
  PROVE  /\ Head(s) \in S /\ Head(s) = s[1]
         /\ Tail(s) \in Seq(S)
         /\ Len(s) \in Nat /\ Len(s) >= 1 /\ Len(Tail(s)) = Len(s) - 1
         /\ \A i \in 1..Len(Tail(s)) : i + 1 \in 1..Len(s) /\ Tail(s)[i] = s[i + 1]
PROOF
  <1>1. Len(s) \in Nat /\ Len(s) >= 1
    BY EmptySeq, LenProperties
  <1> QED
    BY <1>1, HeadTailProperties

LEMMA Enqueued ==
  ASSUME NEW S, NEW s \in Seq(S), NEW x \in S
  PROVE  /\ Append(s, x) \in Seq(S)
         /\ Len(s) \in Nat /\ Len(Append(s, x)) = Len(s) + 1
         /\ \A i \in 1..Len(s) : Append(s, x)[i] = s[i]
         /\ Append(s, x)[Len(s) + 1] = x
BY AppendProperties, LenProperties

LEMMA Indices ==
  ASSUME NEW S, NEW s \in Seq(S)
  PROVE  DOMAIN s = 1..Len(s) /\ Len(s) \in Nat /\ \A i \in 1..Len(s) : s[i] \in S
BY LenProperties, ElementOfSeq

\* Cutting a queue in two.
LEMMA Split ==
  ASSUME NEW S, NEW s \in Seq(S), NEW k \in 0..Len(s)
  PROVE  /\ SubSeq(s, 1, k) \in Seq(S) /\ Len(SubSeq(s, 1, k)) = k
         /\ \A i \in 1..k : SubSeq(s, 1, k)[i] = s[i]
         /\ SubSeq(s, k + 1, Len(s)) \in Seq(S)
         /\ Len(SubSeq(s, k + 1, Len(s))) = Len(s) - k
         /\ \A i \in 1..(Len(s) - k) : SubSeq(s, k + 1, Len(s))[i] = s[k + i]
PROOF
  <1>1. Len(s) \in Nat /\ \A i \in 1..Len(s) : s[i] \in S
    BY Indices
  <1>2. \A i \in 1..k : s[i] \in S
    BY <1>1
  <1>3. \A i \in (k + 1)..Len(s) : s[i] \in S
    BY <1>1
  <1>4. SubSeq(s, 1, k) \in Seq(S) /\ Len(SubSeq(s, 1, k)) = k
        /\ \A i \in 1..k : SubSeq(s, 1, k)[i] = s[i]
    BY <1>1, <1>2, SubSeqProperties
  <1>5. SubSeq(s, k + 1, Len(s)) \in Seq(S)
        /\ Len(SubSeq(s, k + 1, Len(s))) = Len(s) - k
        /\ \A i \in 1..(Len(s) - k) : SubSeq(s, k + 1, Len(s))[i] = s[k + i]
    BY <1>1, <1>3, SubSeqProperties
  <1> QED
    BY <1>4, <1>5

-----------------------------------------------------------------------------
(* Types                                                                   *)

LEMMA LineTypes ==
  /\ \A verdict \in AllVerdicts, about \in Nat, by \in Observers :
       /\ Line(verdict, about, by) \in Lines
       /\ Line(verdict, about, by).about = about /\ Line(verdict, about, by).by = by
  /\ Original \in Deliveries /\ Original.payload = "original"
  /\ Delivery("exception", 0, 0) \in Deliveries
  /\ Delivery("exception", 0, 0).payload = "exception"
  /\ \A line \in Lines :
       /\ Delivery("replacement", line.about, line.by) \in Deliveries
       /\ Delivery("replacement", line.about, line.by).about = line.about
       /\ Delivery("replacement", line.about, line.by).by = line.by
BY DEF Line, Lines, Delivery, Original, Deliveries

LEMMA TypeInit == Init => TypeOK
PROOF
  <1> SUFFICES ASSUME Init PROVE TypeOK
    OBVIOUS
  <1>1. <<>> \in Seq(Lines) /\ <<>> \in Seq(Deliveries) /\ <<>> \in Seq(Nat)
    BY EmptySeq
  <1> QED
    BY <1>1 DEF Init, TypeOK

\* _publish ends, and what it delivers is added.
LEMMA Delivering ==
  ASSUME TypeOK, NEW delivery \in Deliveries, Deliver(delivery)
  PROVE  /\ pc' = "idle"
         /\ delivered' \in Seq(Deliveries)
         /\ DOMAIN delivered = 1..Len(delivered) /\ Len(delivered) \in Nat
         /\ DOMAIN delivered' = 1..(Len(delivered) + 1)
         /\ \A n \in DOMAIN delivered : delivered'[n] = delivered[n]
         /\ delivered'[Len(delivered) + 1] = delivery
PROOF
  <1>1. delivered \in Seq(Deliveries) /\ delivered' = Append(delivered, delivery) /\ pc' = "idle"
    BY DEF TypeOK, Deliver
  <1>2. /\ delivered' \in Seq(Deliveries)
        /\ Len(delivered) \in Nat /\ Len(delivered') = Len(delivered) + 1
        /\ \A n \in 1..Len(delivered) : delivered'[n] = delivered[n]
        /\ delivered'[Len(delivered) + 1] = delivery
    BY <1>1, Enqueued
  <1>3. DOMAIN delivered = 1..Len(delivered) /\ DOMAIN delivered' = 1..Len(delivered')
    BY <1>1, <1>2, LenProperties
  <1> QED
    BY <1>1, <1>2, <1>3

\* The steps that give up on the observer.
GivingUp ==
  \/ SendFails \/ ReceiveTimesOut \/ ReceiveEnds \/ TakeMalformed

LEMMA GivingUpPasses == GivingUp => PassThrough /\ pc \in {"send", "read"}
BY DEF GivingUp, SendFails, ReceiveTimesOut, ReceiveEnds, TakeMalformed, NeedsMore

LEMMA Steps ==
  ASSUME [Next]_vars
  PROVE  \/ Open \/ Close \/ Publish
         \/ EnsureClient \/ SendAll \/ GivingUp \/ Receive \/ TakeLine
         \/ \E o \in Observers : Connect(o)
         \/ \E o \in Observers : Reply(o)
         \/ \E o \in Observers : Volunteer(o)
         \/ \E o \in Observers : Trickle(o) \/ HangUp(o)
         \/ UNCHANGED vars
BY DEF Next, InPublish, GivingUp, Observer

\* An observer puts one more line on its wire.
LEMMA Putting ==
  ASSUME TypeOK, NEW o \in Observers, NEW line \in Lines, Put(o, line)
  PROVE  /\ wire' \in [Observers -> Seq(Lines)]
         /\ \A p \in Observers : p # o => wire'[p] = wire[p]
         /\ wire[o] \in Seq(Lines) /\ Len(wire[o]) \in Nat
         /\ Len(wire'[o]) = Len(wire[o]) + 1
         /\ \A i \in 1..Len(wire[o]) : wire'[o][i] = wire[o][i]
         /\ wire'[o][Len(wire[o]) + 1] = line
PROOF
  <1>1. wire \in [Observers -> Seq(Lines)] /\ wire[o] \in Seq(Lines)
    BY DEF TypeOK
  <1>2. /\ Append(wire[o], line) \in Seq(Lines)
        /\ Len(wire[o]) \in Nat /\ Len(Append(wire[o], line)) = Len(wire[o]) + 1
        /\ \A i \in 1..Len(wire[o]) : Append(wire[o], line)[i] = wire[o][i]
        /\ Append(wire[o], line)[Len(wire[o]) + 1] = line
    BY <1>1, Enqueued
  <1>3. wire' = [wire EXCEPT ![o] = Append(wire[o], line)]
    BY DEF Put
  <1> QED
    BY <1>1, <1>2, <1>3

\* recv() moves the first lines on the wire into the buffer.
LEMMA Receiving ==
  ASSUME TypeOK, PublishOwns, Receive
  PROVE  /\ client \in Observers /\ buffer = <<>>
         /\ wire' \in [Observers -> Seq(Lines)] /\ buffer' \in Seq(Lines)
         /\ \A p \in Observers : p # client => wire'[p] = wire[p]
         /\ \E k \in 0..Len(wire[client]) :
              /\ Len(buffer') = k
              /\ \A i \in 1..k : buffer'[i] = wire[client][i]
              /\ Len(wire'[client]) = Len(wire[client]) - k
              /\ \A i \in 1..(Len(wire[client]) - k) : wire'[client][i] = wire[client][k + i]
PROOF
  <1>1. client \in Observers /\ buffer = <<>>
    BY DEF Receive, NeedsMore, TypeOK, PublishOwns
  <1>2. wire \in [Observers -> Seq(Lines)] /\ wire[client] \in Seq(Lines)
    BY <1>1 DEF TypeOK
  <1>3. PICK k \in 0..Len(wire[client]) :
          /\ buffer' = SubSeq(wire[client], 1, k)
          /\ wire' = [wire EXCEPT ![client] = SubSeq(wire[client], k + 1, Len(wire[client]))]
    BY DEF Receive
  <1>4. /\ SubSeq(wire[client], 1, k) \in Seq(Lines) /\ Len(SubSeq(wire[client], 1, k)) = k
        /\ \A i \in 1..k : SubSeq(wire[client], 1, k)[i] = wire[client][i]
    BY <1>2, Split
  <1>5. PICK rest : rest = SubSeq(wire[client], k + 1, Len(wire[client]))
    OBVIOUS
  <1>6. /\ rest \in Seq(Lines) /\ Len(rest) = Len(wire[client]) - k
        /\ \A i \in 1..(Len(wire[client]) - k) : rest[i] = wire[client][k + i]
    BY <1>2, <1>5, Split
  <1>7. wire' = [wire EXCEPT ![client] = rest]
    BY <1>3, <1>5
  <1>8. /\ wire' \in [Observers -> Seq(Lines)] /\ wire'[client] = rest
        /\ \A p \in Observers : p # client => wire'[p] = wire[p]
    BY <1>1, <1>2, <1>6, <1>7
  <1> QED
    BY <1>1, <1>3, <1>4, <1>6, <1>8

LEMMA TypeStep == TypeOK /\ PublishOwns /\ [Next]_vars => TypeOK'
PROOF
  <1> SUFFICES ASSUME TypeOK, PublishOwns, [Next]_vars PROVE TypeOK'
    OBVIOUS
  <1> USE LineTypes
  <1>0. <<>> \in Seq(Lines)
    BY EmptySeq
  <1>1. CASE Open
    BY <1>1 DEF Open, TypeOK, network
  <1>2. CASE Close
    BY <1>0, <1>2 DEF Close, TypeOK
  <1>3. CASE Publish
    BY <1>3 DEF Publish, TypeOK, network
  <1>4. CASE EnsureClient
    <2>1. /\ client' \in {0} \cup Observers /\ buffer' \in Seq(Lines)
          /\ socket' \in [Observers -> {"none", "backlog", "accepted", "closed"}]
      BY <1>0, <1>4 DEF EnsureClient, TypeOK, Waiting
    <2>2. pc' \in {"idle", "send"} /\ delivered' \in Seq(Deliveries)
      <3>1. CASE Deliver(Original)
        BY <3>1, Delivering
      <3> QED
        BY <1>4, <3>1 DEF EnsureClient, TypeOK
    <2> QED
      BY <1>4, <2>1, <2>2 DEF EnsureClient, TypeOK
  <1>5. CASE SendAll
    <2>1. client \in Observers /\ delivered \in Seq(Deliveries)
      BY <1>5 DEF SendAll, TypeOK, PublishOwns
    <2>2. Current \in Nat
      BY <2>1, LenProperties DEF Current
    <2>3. shown[client] \in Seq(Nat)
      BY <2>1 DEF TypeOK
    <2>4. Append(shown[client], Current) \in Seq(Nat)
      BY <2>2, <2>3, Enqueued
    <2>5. shown' \in [Observers -> Seq(Nat)] /\ asked' \in [Observers -> Nat]
      BY <1>5, <2>1, <2>2, <2>4 DEF SendAll, TypeOK
    <2> QED
      BY <1>5, <2>5 DEF SendAll, TypeOK
  <1>6. CASE GivingUp
    <2>1. PassThrough
      BY <1>6, GivingUpPasses
    <2>2. pc' = "idle" /\ delivered' \in Seq(Deliveries)
      BY <2>1, Delivering DEF PassThrough
    <2> QED
      BY <1>0, <2>1, <2>2 DEF PassThrough, DropClient, TypeOK
  <1>7. CASE Receive
    <2>1. partial' \subseteq Observers
      BY <1>7 DEF Receive, TypeOK
    <2> QED
      BY <1>7, <2>1, Receiving DEF Receive, TypeOK
  <1>8. CASE TakeLine
    <2>1. buffer \in Seq(Lines) /\ buffer # <<>>
      BY <1>8 DEF TakeLine, TypeOK
    <2>2. Head(buffer) \in Lines /\ Tail(buffer) \in Seq(Lines)
      BY <2>1, Dequeued
    <2>3. \E delivery \in Deliveries : Deliver(delivery)
      BY <1>8, <2>2 DEF TakeLine
    <2>4. pc' = "idle" /\ delivered' \in Seq(Deliveries)
      BY <2>3, Delivering
    <2> QED
      BY <1>8, <2>2, <2>4 DEF TakeLine, TypeOK, network
  <1>9. CASE \E o \in Observers : Connect(o)
    BY <1>9 DEF Connect, TypeOK, connection
  <1>10. ASSUME NEW o \in Observers, Reply(o) PROVE TypeOK'
    <2>1. asked[o] \in Nat
      BY DEF TypeOK
    <2>2. PICK verdict \in Verdicts : Put(o, Line(verdict, asked[o], o))
      BY <1>10 DEF Reply
    <2>3. Line(verdict, asked[o], o) \in Lines
      BY <2>1, InterceptionAssumption
    <2>4. wire' \in [Observers -> Seq(Lines)]
      BY <2>2, <2>3, Putting
    <2> QED
      BY <1>10, <2>4 DEF Reply, TypeOK, connection
  <1>11. ASSUME NEW o \in Observers, Volunteer(o) PROVE TypeOK'
    <2>1. Line("replace", 0, o) \in Lines
      BY DEF AllVerdicts
    <2>2. wire' \in [Observers -> Seq(Lines)]
      BY <1>11, <2>1, Putting DEF Volunteer
    <2> QED
      BY <1>11, <2>2 DEF Volunteer, TypeOK, connection
  <1>12. CASE \E o \in Observers : Trickle(o) \/ HangUp(o)
    BY <1>12 DEF Trickle, HangUp, TypeOK, connection
  <1>13. CASE UNCHANGED vars
    BY <1>13 DEF vars, TypeOK, connection, network
  <1> QED
    BY <1>1, <1>2, <1>3, <1>4, <1>5, <1>6, <1>7, <1>8, <1>9, <1>10, <1>11, <1>12, <1>13, Steps

-----------------------------------------------------------------------------
(* Who is attached                                                         *)

Owned == SocketsOwned /\ PublishOwns

LEMMA OwnedInit == Init => Owned
BY InterceptionAssumption DEF Init, Owned, SocketsOwned, PublishOwns

\* An observer that is given up leaves no socket and no buffer.
LEMMA GivenUp ==
  ASSUME TypeOK, Owned, GivingUp
  PROVE  /\ client \in Observers /\ client' = 0 /\ buffer' = <<>>
         /\ \A o \in Observers : socket'[o] = IF o = client THEN "closed" ELSE socket[o]
         /\ \A o \in Observers : wire'[o] = IF o = client THEN <<>> ELSE wire[o]
         /\ pc' = "idle" /\ Deliver(Original)
         /\ UNCHANGED <<server, inner_open, hung_up, asked, shown>>
BY GivingUpPasses DEF PassThrough, DropClient, Deliver, TypeOK, Owned, PublishOwns

LEMMA OwnedStep == TypeOK /\ Owned /\ [Next]_vars => Owned'
PROOF
  <1> SUFFICES ASSUME TypeOK, Owned, [Next]_vars PROVE SocketsOwned' /\ PublishOwns'
    BY DEF Owned
  <1> USE InterceptionAssumption
  <1>0. SocketsOwned /\ PublishOwns
    BY DEF Owned
  <1>1. CASE Open
    BY <1>0, <1>1 DEF Open, SocketsOwned, PublishOwns, network
  <1>2. CASE Close
    BY <1>0, <1>2 DEF Close, SocketsOwned, PublishOwns, TypeOK
  <1>3. CASE Publish
    BY <1>0, <1>3 DEF Publish, SocketsOwned, PublishOwns, network
  <1>4. CASE EnsureClient
    <2>1. SocketsOwned'
      <3>1. CASE client # 0
        BY <1>0, <1>4, <3>1 DEF EnsureClient, SocketsOwned
      <3>2. CASE client = 0 /\ UNCHANGED <<client, buffer, socket>>
        BY <1>0, <1>4, <3>2 DEF EnsureClient, SocketsOwned
      <3>3. ASSUME client = 0, NEW o \in Waiting,
                   client' = o, buffer' = <<>>, socket' = [socket EXCEPT ![o] = "accepted"]
            PROVE  SocketsOwned'
        <4>1. server /\ inner_open /\ UNCHANGED <<server, inner_open>> /\ o \in Observers
          BY <1>0, <1>4, <3>3 DEF EnsureClient, PublishOwns, Waiting
        <4>2. \A p \in Observers : socket'[p] = IF p = o THEN "accepted" ELSE socket[p]
          BY <3>3 DEF TypeOK
        <4> QED
          BY <1>0, <3>3, <4>1, <4>2 DEF SocketsOwned
      <3> QED
        BY <1>4, <3>1, <3>2, <3>3 DEF EnsureClient
    <2>2. PublishOwns'
      BY <1>0, <1>4 DEF EnsureClient, Deliver, PublishOwns, Waiting
    <2> QED
      BY <2>1, <2>2
  <1>5. CASE SendAll
    BY <1>0, <1>5 DEF SendAll, SocketsOwned, PublishOwns
  <1>6. CASE GivingUp
    BY <1>0, <1>6, GivenUp DEF SocketsOwned, PublishOwns
  <1>7. CASE Receive
    BY <1>0, <1>7, Receiving DEF Receive, SocketsOwned, PublishOwns
  <1>8. CASE TakeLine
    <2>1. pc' = "idle" /\ pc = "read" /\ UNCHANGED <<server, inner_open, client, socket>>
      BY <1>8 DEF TakeLine, Deliver, network
    <2> QED
      BY <1>0, <2>1 DEF SocketsOwned, PublishOwns
  <1>9. ASSUME NEW o \in Observers, Connect(o) PROVE SocketsOwned' /\ PublishOwns'
    <2>1. /\ server /\ socket[o] = "none"
          /\ \A p \in Observers : socket'[p] = IF p = o THEN "backlog" ELSE socket[p]
          /\ UNCHANGED <<server, inner_open, client, buffer, pc>>
      BY <1>9 DEF Connect, TypeOK, connection
    <2> QED
      BY <1>0, <2>1 DEF SocketsOwned, PublishOwns
  <1>10. CASE \E o \in Observers : Reply(o)
    BY <1>0, <1>10 DEF Reply, connection, SocketsOwned, PublishOwns
  <1>11. CASE \E o \in Observers : Volunteer(o)
    BY <1>0, <1>11 DEF Volunteer, connection, SocketsOwned, PublishOwns
  <1>12. CASE \E o \in Observers : Trickle(o) \/ HangUp(o)
    BY <1>0, <1>12 DEF Trickle, HangUp, connection, SocketsOwned, PublishOwns
  <1>13. CASE UNCHANGED vars
    BY <1>0, <1>13 DEF vars, connection, network, SocketsOwned, PublishOwns
  <1> QED
    BY <1>1, <1>2, <1>3, <1>4, <1>5, <1>6, <1>7, <1>8, <1>9, <1>10, <1>11, <1>12, <1>13, Steps

\* Types, and one observer at most, hold in every state.
LEMMA OwnedAlways == Spec => [](TypeOK /\ Owned)
PROOF
  <1>1. Owned => PublishOwns
    BY DEF Owned
  <1> QED
    BY <1>1, TypeInit, TypeStep, OwnedInit, OwnedStep, PTL DEF Spec

\* Whatever observers do, and however a publication ends, at most one of them is
\* attached, its buffer goes with it, and close() leaves no socket behind.
THEOREM OneObserverAttached == Spec => []SocketsOwned
PROOF
  <1>1. Owned => SocketsOwned
    BY DEF Owned
  <1> QED
    BY <1>1, OwnedAlways, PTL

-----------------------------------------------------------------------------
(* A message is replaced only by one it was shown to                       *)

Traced == WireBy /\ BufferBy /\ ReadWasShown /\ AuthorsKnown /\ ReplyFromItsReader

LEMMA TracedInit == Init => Traced
PROOF
  <1> SUFFICES ASSUME Init PROVE Traced
    OBVIOUS
  <1>1. /\ DOMAIN <<>> = {} /\ \A o \in Observers : wire[o] = <<>>
        /\ buffer = <<>> /\ delivered = <<>> /\ pc = "idle"
    BY DEF Init
  <1> QED
    BY <1>1 DEF Traced, WireBy, BufferBy, ReadWasShown, AuthorsKnown, ReplyFromItsReader

\* A publication is never forgotten by those who saw it.
LEMMA ShownGrows ==
  ASSUME TypeOK, Owned, [Next]_vars
  PROVE  \A o \in Observers : \A i \in DOMAIN shown[o] :
           i \in DOMAIN shown'[o] /\ shown'[o][i] = shown[o][i]
PROOF
  <1>1. CASE UNCHANGED shown
    BY <1>1
  <1>2. CASE SendAll
    <2>1. client \in Observers /\ shown \in [Observers -> Seq(Nat)] /\ shown[client] \in Seq(Nat)
      BY <1>2 DEF SendAll, TypeOK, Owned, PublishOwns
    <2>2. Current \in Nat
      BY LenProperties DEF TypeOK, Current
    <2>3. PICK longer : longer = Append(shown[client], Current)
      OBVIOUS
    <2>4. /\ longer \in Seq(Nat) /\ Len(shown[client]) \in Nat
          /\ Len(longer) = Len(shown[client]) + 1
          /\ \A i \in 1..Len(shown[client]) : longer[i] = shown[client][i]
      BY <2>1, <2>2, <2>3, Enqueued
    <2>5. DOMAIN longer = 1..Len(longer) /\ DOMAIN shown[client] = 1..Len(shown[client])
      BY <2>1, <2>4, LenProperties
    <2>6. \A o \in Observers : shown'[o] = IF o = client THEN longer ELSE shown[o]
      BY <1>2, <2>1, <2>3 DEF SendAll
    <2>7. \A i \in DOMAIN shown[client] : i \in DOMAIN longer /\ longer[i] = shown[client][i]
      BY <2>4, <2>5
    <2> QED
      BY <2>1, <2>6, <2>7, Zenon
  <1>3. UNCHANGED shown \/ SendAll
    BY Steps, GivenUp
       DEF Open, Close, Publish, EnsureClient, Receive, TakeLine, Connect, Reply, Volunteer,
           Trickle, HangUp, vars, network
  <1> QED
    BY <1>1, <1>2, <1>3

\* What a step may deliver: the message itself, an exception, or what the first
\* line received says.
LEMMA WhatIsDelivered ==
  ASSUME TypeOK, Owned, [Next]_vars
  PROVE  \/ UNCHANGED delivered
         \/ \E delivery \in Deliveries :
              /\ Deliver(delivery)
              /\ delivery.payload = "replacement" =>
                   /\ TakeLine /\ buffer[1] \in Lines /\ 1 \in DOMAIN buffer
                   /\ delivery.about = buffer[1].about /\ delivery.by = buffer[1].by
PROOF
  <1> USE LineTypes
  <1>1. CASE TakeLine
    <2>1. buffer \in Seq(Lines) /\ buffer # <<>>
      BY <1>1 DEF TakeLine, TypeOK
    <2>2. Head(buffer) = buffer[1] /\ buffer[1] \in Lines /\ 1 \in DOMAIN buffer
      BY <2>1, Dequeued, Indices
    <2>3. CASE Deliver(Delivery("replacement", Head(buffer).about, Head(buffer).by))
      BY <1>1, <2>2, <2>3
    <2>4. CASE Deliver(Original)
      BY <2>4
    <2>5. CASE Deliver(Delivery("exception", 0, 0))
      BY <2>5
    <2> QED
      BY <1>1, <2>3, <2>4, <2>5 DEF TakeLine
  <1>2. CASE EnsureClient
    BY <1>2 DEF EnsureClient
  <1>3. CASE GivingUp
    BY <1>3, GivenUp
  <1>4. UNCHANGED delivered \/ TakeLine \/ EnsureClient \/ GivingUp
    BY Steps
       DEF Open, Close, Publish, SendAll, Receive, Connect, Reply, Volunteer,
           Trickle, HangUp, vars, connection
  <1> QED
    BY <1>1, <1>2, <1>3, <1>4

LEMMA ReaderStep ==
  ASSUME TypeOK, Owned, Traced, [Next]_vars
  PROVE  AuthorsKnown' /\ ReplyFromItsReader'
PROOF
  <1>0. BufferBy /\ ReadWasShown /\ AuthorsKnown /\ ReplyFromItsReader
    BY DEF Traced
  <1>1. CASE UNCHANGED delivered
    BY <1>0, <1>1, ShownGrows DEF AuthorsKnown, ReplyFromItsReader
  <1>2. ASSUME NEW delivery \in Deliveries, Deliver(delivery),
               delivery.payload = "replacement" =>
                 /\ TakeLine /\ buffer[1] \in Lines /\ 1 \in DOMAIN buffer
                 /\ delivery.about = buffer[1].about /\ delivery.by = buffer[1].by,
               NEW n \in DOMAIN delivered', delivered'[n].payload = "replacement"
        PROVE  /\ delivered'[n].by \in Observers
               /\ \E i \in DOMAIN shown'[delivered'[n].by] : shown'[delivered'[n].by][i] = n
    <2>1. /\ DOMAIN delivered = 1..Len(delivered) /\ Len(delivered) \in Nat
          /\ DOMAIN delivered' = 1..(Len(delivered) + 1)
          /\ \A k \in DOMAIN delivered : delivered'[k] = delivered[k]
          /\ delivered'[Len(delivered) + 1] = delivery
      BY <1>2, Delivering
    <2>2. CASE n \in DOMAIN delivered
      <3>1. /\ delivered'[n] = delivered[n] /\ delivered[n].by \in Observers
            /\ \E i \in DOMAIN shown[delivered[n].by] : shown[delivered[n].by][i] = n
        BY <1>0, <1>2, <2>1, <2>2 DEF AuthorsKnown, ReplyFromItsReader
      <3> QED
        BY <3>1, ShownGrows
    <2>3. CASE n = Len(delivered) + 1
      <3>1. TakeLine /\ delivered'[n].by = buffer[1].by /\ buffer[1] \in Lines /\ 1 \in DOMAIN buffer
        BY <1>2, <2>1, <2>3
      <3>2. buffer[1].by = client /\ buffer[1].by \in Observers
        BY <1>0, <3>1 DEF BufferBy, Lines
      <3>3. \E i \in DOMAIN shown[client] : shown[client][i] = n
        BY <1>0, <2>3, <3>1 DEF TakeLine, ReadWasShown, Current
      <3> QED
        BY <3>1, <3>2, <3>3, ShownGrows
    <2> QED
      BY <2>1, <2>2, <2>3
  <1> QED
    BY <1>1, <1>2, WhatIsDelivered DEF AuthorsKnown, ReplyFromItsReader

\* A line put on the wire by observer o is by o.
LEMMA PutByWriter ==
  ASSUME TypeOK, WireBy, NEW o \in Observers, NEW line \in Lines, line.by = o, Put(o, line)
  PROVE  WireBy'
PROOF
  <1>1. /\ wire' \in [Observers -> Seq(Lines)] /\ wire[o] \in Seq(Lines)
        /\ \A p \in Observers : p # o => wire'[p] = wire[p]
        /\ Len(wire[o]) \in Nat /\ Len(wire'[o]) = Len(wire[o]) + 1
        /\ \A i \in 1..Len(wire[o]) : wire'[o][i] = wire[o][i]
        /\ wire'[o][Len(wire[o]) + 1] = line
    BY Putting
  <1>2. DOMAIN wire'[o] = 1..(Len(wire[o]) + 1) /\ DOMAIN wire[o] = 1..Len(wire[o])
    BY <1>1, LenProperties
  <1>3. \A i \in DOMAIN wire'[o] : wire'[o][i].by = o
    BY <1>1, <1>2 DEF WireBy
  <1> QED
    BY <1>1, <1>3 DEF WireBy

LEMMA LinesStep ==
  ASSUME TypeOK, Owned, WireBy, BufferBy, ReadWasShown, [Next]_vars
  PROVE  WireBy' /\ BufferBy' /\ ReadWasShown'
PROOF
  <1>0. DOMAIN <<>> = {}
    OBVIOUS
  <1>1. CASE Open
    BY <1>1 DEF Open, WireBy, BufferBy, ReadWasShown, Current, network
  <1>2. CASE Close
    <2>1. buffer' = <<>> /\ pc' = "idle" /\ \A o \in Observers : wire'[o] = <<>>
      BY <1>2 DEF Close
    <2> QED
      BY <1>0, <2>1 DEF WireBy, BufferBy, ReadWasShown
  <1>3. CASE Publish
    BY <1>3 DEF Publish, WireBy, BufferBy, ReadWasShown, network
  <1>4. CASE EnsureClient
    <2>1. pc' # "read" /\ wire' = wire
      BY <1>4 DEF EnsureClient, Deliver
    <2>2. UNCHANGED <<client, buffer>> \/ buffer' = <<>>
      BY <1>4 DEF EnsureClient
    <2> QED
      BY <1>0, <2>1, <2>2 DEF WireBy, BufferBy, ReadWasShown
  <1>5. CASE SendAll
    <2>1. client \in Observers /\ shown \in [Observers -> Seq(Nat)] /\ shown[client] \in Seq(Nat)
      BY <1>5 DEF SendAll, TypeOK, Owned, PublishOwns
    <2>2. Current \in Nat /\ Current' = Current
      BY <1>5, LenProperties DEF SendAll, TypeOK, Current
    <2>3. shown'[client] = Append(shown[client], Current)
      BY <1>5, <2>1 DEF SendAll
    <2>4. /\ shown'[client] \in Seq(Nat) /\ Len(shown[client]) \in Nat
          /\ Len(shown'[client]) = Len(shown[client]) + 1
          /\ shown'[client][Len(shown[client]) + 1] = Current
      BY <2>1, <2>2, <2>3, Enqueued
    <2>5. Len(shown[client]) + 1 \in DOMAIN shown'[client]
      BY <2>4, LenProperties
    <2>6. UNCHANGED <<client, buffer, wire>>
      BY <1>5 DEF SendAll
    <2> QED
      BY <2>2, <2>4, <2>5, <2>6 DEF WireBy, BufferBy, ReadWasShown
  <1>6. CASE GivingUp
    <2>1. /\ buffer' = <<>> /\ pc' = "idle"
          /\ \A o \in Observers : wire'[o] = IF o = client THEN <<>> ELSE wire[o]
      BY <1>6, GivenUp
    <2> QED
      BY <1>0, <2>1 DEF WireBy, BufferBy, ReadWasShown
  <1>7. CASE Receive
    <2>00. PublishOwns /\ UNCHANGED <<client, pc, shown, delivered>>
      BY <1>7 DEF Receive, Owned
    <2>0. client \in Observers
      BY <1>7, <2>00, Receiving
    <2>1. PICK k \in 0..Len(wire[client]) :
            /\ Len(buffer') = k
            /\ \A i \in 1..k : buffer'[i] = wire[client][i]
            /\ Len(wire'[client]) = Len(wire[client]) - k
            /\ \A i \in 1..(Len(wire[client]) - k) : wire'[client][i] = wire[client][k + i]
      BY <1>7, <2>00, Receiving
    <2>2. /\ wire[client] \in Seq(Lines) /\ wire'[client] \in Seq(Lines) /\ buffer' \in Seq(Lines)
          /\ \A p \in Observers : p # client => wire'[p] = wire[p]
      BY <1>7, <2>00, <2>0, Receiving DEF TypeOK
    <2>3. /\ DOMAIN buffer' = 1..k /\ DOMAIN wire[client] = 1..Len(wire[client])
          /\ DOMAIN wire'[client] = 1..(Len(wire[client]) - k) /\ Len(wire[client]) \in Nat
      BY <2>1, <2>2, LenProperties
    <2>4. \A i \in DOMAIN buffer' : buffer'[i].by = client
      BY <2>0, <2>1, <2>3 DEF WireBy
    <2>5. \A i \in DOMAIN wire'[client] : wire'[client][i].by = client
      BY <2>0, <2>1, <2>3 DEF WireBy
    <2> QED
      BY <2>00, <2>0, <2>2, <2>4, <2>5 DEF WireBy, BufferBy, ReadWasShown, Current
  <1>8. CASE TakeLine
    <2>1. /\ buffer \in Seq(Lines) /\ buffer # <<>> /\ buffer' = Tail(buffer)
          /\ pc' = "idle" /\ UNCHANGED <<client, wire>>
      BY <1>8 DEF TakeLine, Deliver, TypeOK, network
    <2>2. /\ Tail(buffer) \in Seq(Lines)
          /\ \A i \in 1..Len(Tail(buffer)) : i + 1 \in 1..Len(buffer) /\ Tail(buffer)[i] = buffer[i + 1]
      BY <2>1, Dequeued
    <2>3. DOMAIN Tail(buffer) = 1..Len(Tail(buffer)) /\ DOMAIN buffer = 1..Len(buffer)
      BY <2>1, <2>2, LenProperties
    <2>4. \A i \in DOMAIN Tail(buffer) : Tail(buffer)[i].by = client
      BY <2>2, <2>3 DEF BufferBy
    <2> QED
      BY <2>1, <2>4 DEF WireBy, BufferBy, ReadWasShown
  <1>9. CASE \E o \in Observers : Connect(o)
    BY <1>9 DEF Connect, WireBy, BufferBy, ReadWasShown, Current, connection
  <1>10. ASSUME NEW o \in Observers, Reply(o) PROVE WireBy' /\ BufferBy' /\ ReadWasShown'
    <2>1. asked[o] \in Nat
      BY DEF TypeOK
    <2>2. PICK verdict \in Verdicts : Put(o, Line(verdict, asked[o], o))
      BY <1>10 DEF Reply
    <2>3. Line(verdict, asked[o], o) \in Lines /\ Line(verdict, asked[o], o).by = o
      BY <2>1, InterceptionAssumption, LineTypes
    <2>4. WireBy'
      BY <2>2, <2>3, PutByWriter
    <2> QED
      BY <1>10, <2>4 DEF Reply, BufferBy, ReadWasShown, Current, connection
  <1>11. ASSUME NEW o \in Observers, Volunteer(o) PROVE WireBy' /\ BufferBy' /\ ReadWasShown'
    <2>1. Line("replace", 0, o) \in Lines /\ Line("replace", 0, o).by = o
      BY LineTypes DEF AllVerdicts
    <2>2. WireBy'
      BY <1>11, <2>1, PutByWriter DEF Volunteer
    <2> QED
      BY <1>11, <2>2 DEF Volunteer, BufferBy, ReadWasShown, Current, connection
  <1>12. CASE \E o \in Observers : Trickle(o) \/ HangUp(o)
    BY <1>12 DEF Trickle, HangUp, WireBy, BufferBy, ReadWasShown, Current, connection
  <1>13. CASE UNCHANGED vars
    BY <1>13 DEF vars, connection, network, WireBy, BufferBy, ReadWasShown, Current
  <1> QED
    BY <1>1, <1>2, <1>3, <1>4, <1>5, <1>6, <1>7, <1>8, <1>9, <1>10, <1>11, <1>12, <1>13, Steps

LEMMA TracedStep == TypeOK /\ Owned /\ Traced /\ [Next]_vars => Traced'
BY ReaderStep, LinesStep DEF Traced

\* Whatever observers send and however they fail, a message is replaced only by
\* one that it was shown to: nothing that an earlier observer left behind is
\* taken for the answer of the next one.
THEOREM ReplacedByItsReader == Spec => []ReplyFromItsReader
PROOF
  <1>1. Traced => ReplyFromItsReader
    BY DEF Traced
  <1> QED
    BY <1>1, OwnedAlways, TracedInit, TracedStep, PTL DEF Spec

-----------------------------------------------------------------------------
(* A reply lands on the message it answers                                 *)

Answered == OneAnswerEach /\ ReplyAnswersItsMessage

LEMMA AnsweredInit == Init => Answered
BY DEF Init, Answered, OneAnswerEach, OneAnswer, Quiet, ReplyAnswersItsMessage

LEMMA AnswersStep ==
  ASSUME TypeOK, Owned, Traced, Answered, [Next]_vars
  PROVE  ReplyAnswersItsMessage'
PROOF
  <1>0. BufferBy /\ OneAnswerEach /\ ReplyAnswersItsMessage
    BY DEF Traced, Answered
  <1>1. CASE UNCHANGED delivered
    BY <1>0, <1>1 DEF ReplyAnswersItsMessage
  <1>2. ASSUME NEW delivery \in Deliveries, Deliver(delivery),
               delivery.payload = "replacement" =>
                 /\ TakeLine /\ buffer[1] \in Lines /\ 1 \in DOMAIN buffer
                 /\ delivery.about = buffer[1].about /\ delivery.by = buffer[1].by,
               NEW n \in DOMAIN delivered',
               delivered'[n].payload = "replacement", delivered'[n].by \notin Chatty
        PROVE  delivered'[n].about = n
    <2>1. /\ DOMAIN delivered = 1..Len(delivered) /\ Len(delivered) \in Nat
          /\ DOMAIN delivered' = 1..(Len(delivered) + 1)
          /\ \A k \in DOMAIN delivered : delivered'[k] = delivered[k]
          /\ delivered'[Len(delivered) + 1] = delivery
      BY <1>2, Delivering
    <2>2. CASE n \in DOMAIN delivered
      BY <1>0, <1>2, <2>1, <2>2 DEF ReplyAnswersItsMessage
    <2>3. CASE n = Len(delivered) + 1
      <3>1. /\ TakeLine /\ buffer[1] \in Lines /\ 1 \in DOMAIN buffer
            /\ delivered'[n].about = buffer[1].about /\ buffer[1].by \notin Chatty
        BY <1>2, <2>1, <2>3
      <3>2. buffer[1].by = client /\ buffer[1].by \in Observers /\ buffer # <<>>
        BY <1>0, <3>1 DEF BufferBy, Lines, TakeLine
      <3>3. OneAnswer(client)
        BY <1>0, <3>1, <3>2 DEF OneAnswerEach
      <3>4. buffer[1].about = Current
        BY <3>2, <3>3 DEF OneAnswer, Outstanding
      <3> QED
        BY <2>3, <3>1, <3>4 DEF Current
    <2> QED
      BY <2>1, <2>2, <2>3
  <1> QED
    BY <1>1, <1>2, WhatIsDelivered DEF ReplyAnswersItsMessage

\* A received line leaves the wire for the buffer.
LEMMA ReceivesTheAnswer ==
  ASSUME TypeOK, PublishOwns, OneAnswer(client), Receive
  PROVE  OneAnswer(client)'
PROOF
  <1>1. /\ pc = "read" /\ client \in Observers /\ buffer = <<>>
        /\ UNCHANGED <<client, pc, delivered, socket, asked>>
    BY Receiving DEF Receive, NeedsMore
  <1>2. PICK k \in 0..Len(wire[client]) :
          /\ Len(buffer') = k
          /\ \A i \in 1..k : buffer'[i] = wire[client][i]
          /\ Len(wire'[client]) = Len(wire[client]) - k
          /\ \A i \in 1..(Len(wire[client]) - k) : wire'[client][i] = wire[client][k + i]
    BY Receiving
  <1>3. wire[client] \in Seq(Lines) /\ wire'[client] \in Seq(Lines) /\ buffer' \in Seq(Lines)
    BY <1>1, Receiving DEF TypeOK
  <1>4. /\ Len(wire[client]) \in Nat
        /\ wire[client] = <<>> <=> Len(wire[client]) = 0
        /\ wire'[client] = <<>> <=> Len(wire'[client]) = 0
        /\ buffer' = <<>> <=> Len(buffer') = 0
    BY <1>3, EmptySeq, LenProperties
  <1>5. CASE wire[client] = <<>>
    <2>1. wire'[client] = <<>> /\ buffer' = <<>>
      BY <1>2, <1>4, <1>5
    <2> QED
      BY <1>1, <1>5, <2>1 DEF OneAnswer, Outstanding, Quiet, Current
  <1>6. CASE wire[client] # <<>>
    <2>1. /\ socket[client] \notin {"none", "backlog"} /\ asked[client] = 0
          /\ Len(wire[client]) = 1 /\ wire[client][1].about = Current
      BY <1>1, <1>6 DEF OneAnswer, Outstanding, Quiet
    <2>2. Current' = Current
      BY <1>1 DEF Current
    <2>3. CASE k = 0
      <3>1. buffer' = <<>> /\ Len(wire'[client]) = 1 /\ wire'[client][1].about = Current
        BY <1>2, <1>4, <2>1, <2>3
      <3> QED
        BY <1>1, <2>1, <2>2, <3>1 DEF OneAnswer, Outstanding
    <2>4. CASE k = 1
      <3>1. wire'[client] = <<>> /\ Len(buffer') = 1 /\ buffer'[1].about = Current
        BY <1>2, <1>4, <2>1, <2>4
      <3> QED
        BY <1>1, <2>1, <2>2, <3>1 DEF OneAnswer, Outstanding, Quiet
    <2> QED
      BY <1>2, <2>1, <2>3, <2>4
  <1> QED
    BY <1>5, <1>6

\* The observer's reply is the one line on its wire.
LEMMA RepliesOnce ==
  ASSUME TypeOK, Owned, NEW o \in Observers \ Chatty, OneAnswer(o), Reply(o)
  PROVE  OneAnswer(o)'
PROOF
  <1>1. /\ socket[o] \in {"backlog", "accepted"} /\ asked[o] # 0
        /\ UNCHANGED <<client, buffer, pc, delivered, socket>>
        /\ asked'[o] = 0
    BY DEF Reply, Talking, TypeOK, connection
  <1>2. socket[o] = "accepted" /\ o = client
    BY <1>1 DEF OneAnswer, Quiet, Owned, SocketsOwned
  <1>3. pc = "read" /\ asked[o] = Current /\ wire[o] = <<>> /\ buffer = <<>>
    BY <1>1, <1>2 DEF OneAnswer, Outstanding, Quiet
  <1>4. asked[o] \in Nat
    BY DEF TypeOK
  <1>5. PICK verdict \in Verdicts : Put(o, Line(verdict, asked[o], o))
    BY DEF Reply
  <1>6. /\ Line(verdict, asked[o], o) \in Lines
        /\ Line(verdict, asked[o], o).about = asked[o]
    BY <1>4, InterceptionAssumption, LineTypes
  <1>7. /\ Len(wire'[o]) = Len(wire[o]) + 1
        /\ wire'[o][Len(wire[o]) + 1] = Line(verdict, asked[o], o)
    BY <1>5, <1>6, Putting
  <1>8. Len(wire'[o]) = 1 /\ wire'[o][1].about = Current
    BY <1>3, <1>6, <1>7
  <1> QED
    BY <1>1, <1>2, <1>3, <1>8 DEF OneAnswer, Outstanding, Current

LEMMA OneAnswerStep ==
  ASSUME TypeOK, Owned, OneAnswerEach, [Next]_vars,
         NEW o \in Observers \ Chatty
  PROVE  OneAnswer(o)'
PROOF
  <1> USE InterceptionAssumption
  <1>0. /\ OneAnswer(o) /\ SocketsOwned /\ PublishOwns
        /\ socket[o] = "accepted" <=> o = client
    BY DEF OneAnswerEach, Owned, SocketsOwned
  \* Nothing of this observer changes.
  <1>s. ASSUME UNCHANGED <<client, buffer, pc, delivered, socket, wire, asked>>
        PROVE  OneAnswer(o)'
    BY <1>0, <1>s DEF OneAnswer, Outstanding, Quiet, Current
  <1>o. ASSUME o # client', socket'[o] = socket[o], wire'[o] = wire[o], asked'[o] = asked[o]
        PROVE  OneAnswer(o)'
    BY <1>0, <1>o DEF OneAnswer, Quiet
  <1>1. CASE Open
    BY <1>1, <1>s DEF Open, network
  <1>2. CASE Close
    BY <1>0, <1>2 DEF Close, OneAnswer, Quiet
  <1>3. CASE Publish
    BY <1>0, <1>3 DEF Publish, OneAnswer, Quiet, network
  <1>4. CASE EnsureClient
    <2>1. pc = "ensure_client" /\ UNCHANGED <<wire, asked>>
      BY <1>4 DEF EnsureClient
    <2>2. CASE UNCHANGED <<client, buffer, socket>>
      BY <1>0, <2>1, <2>2 DEF OneAnswer, Quiet
    <2>3. ASSUME NEW p \in Waiting, client' = p, buffer' = <<>>,
                 socket' = [socket EXCEPT ![p] = "accepted"]
          PROVE  OneAnswer(o)'
      <3>1. p \in Observers /\ socket[p] = "backlog"
        BY <2>3 DEF Waiting
      <3>2. \A q \in Observers : socket'[q] = IF q = p THEN "accepted" ELSE socket[q]
        BY <2>3 DEF TypeOK
      <3>3. CASE o = p
        BY <1>0, <2>1, <2>3, <3>1, <3>2, <3>3 DEF OneAnswer, Quiet
      <3>4. CASE o # p
        BY <1>o, <2>1, <2>3, <3>2, <3>4
      <3> QED
        BY <3>3, <3>4
    <2> QED
      BY <1>4, <2>2, <2>3 DEF EnsureClient
  <1>5. CASE SendAll
    <2>1. /\ pc = "send" /\ pc' = "read" /\ client \in Observers
          /\ UNCHANGED <<client, buffer, delivered, socket, wire>>
          /\ \A p \in Observers : p # client => asked'[p] = asked[p]
          /\ asked'[client] = asked[client] \/ asked'[client] = Current
      BY <1>0, <1>5 DEF SendAll, PublishOwns, TypeOK
    <2>2. CASE o = client
      <3>1. Quiet(o) /\ buffer = <<>> /\ socket[o] = "accepted"
        BY <1>0, <2>1, <2>2 DEF OneAnswer
      <3> QED
        BY <2>1, <2>2, <3>1 DEF OneAnswer, Outstanding, Quiet, Current
    <2>3. CASE o # client
      BY <1>o, <2>1, <2>3
    <2> QED
      BY <2>2, <2>3
  <1>6. CASE GivingUp
    <2>1. /\ client' = 0 /\ asked' = asked
          /\ socket'[o] = (IF o = client THEN "closed" ELSE socket[o])
          /\ wire'[o] = (IF o = client THEN <<>> ELSE wire[o])
      BY <1>6, GivenUp
    <2> QED
      BY <1>0, <2>1 DEF OneAnswer, Quiet
  <1>7. CASE Receive
    <2>1. CASE o = client
      BY <1>0, <1>7, <2>1, ReceivesTheAnswer DEF Receive
    <2>2. CASE o # client
      <3>1. wire'[o] = wire[o]
        BY <1>0, <1>7, <2>2, Receiving
      <3> QED
        BY <1>7, <1>o, <2>2, <3>1 DEF Receive
    <2> QED
      BY <2>1, <2>2
  <1>8. CASE TakeLine
    <2>1. /\ buffer \in Seq(Lines) /\ buffer # <<>> /\ buffer' = Tail(buffer)
          /\ UNCHANGED <<client, socket, wire, asked>>
      BY <1>8 DEF TakeLine, TypeOK, network
    <2>2. CASE o = client
      <3>1. Quiet(o) /\ Len(buffer) = 1 /\ socket[o] = "accepted"
        BY <1>0, <2>1, <2>2 DEF OneAnswer, Outstanding
      <3>2. Tail(buffer) \in Seq(Lines) /\ Len(Tail(buffer)) = 0
        BY <2>1, <3>1, Dequeued
      <3>3. buffer' = <<>>
        BY <2>1, <3>2, EmptySeq
      <3> QED
        BY <2>1, <3>1, <3>3 DEF OneAnswer, Quiet
    <2>3. CASE o # client
      BY <1>o, <2>1, <2>3
    <2> QED
      BY <2>2, <2>3
  <1>9. ASSUME NEW p \in Observers, Connect(p) PROVE OneAnswer(o)'
    <2>1. /\ socket[p] = "none" /\ UNCHANGED <<client, buffer, pc, delivered, wire, asked>>
          /\ \A q \in Observers : socket'[q] = IF q = p THEN "backlog" ELSE socket[q]
      BY <1>9 DEF Connect, TypeOK, connection
    <2> QED
      BY <1>0, <2>1 DEF OneAnswer, Outstanding, Quiet, Current
  <1>10. ASSUME NEW p \in Observers, Reply(p) PROVE OneAnswer(o)'
    <2>1. CASE p = o
      BY <1>0, <1>10, <2>1, RepliesOnce
    <2>2. CASE p # o
      <3>1. /\ UNCHANGED <<client, buffer, pc, delivered, socket>>
            /\ wire'[o] = wire[o] /\ asked'[o] = asked[o]
        BY <1>10, <2>2 DEF Reply, Put, TypeOK, connection
      <3> QED
        BY <1>0, <3>1 DEF OneAnswer, Outstanding, Quiet, Current
    <2> QED
      BY <2>1, <2>2
  <1>11. ASSUME NEW p \in Observers, Volunteer(p) PROVE OneAnswer(o)'
    <2>1. p # o
      BY <1>11 DEF Volunteer
    <2>2. /\ UNCHANGED <<client, buffer, pc, delivered, socket>>
          /\ wire'[o] = wire[o] /\ asked'[o] = asked[o]
      BY <1>11, <2>1 DEF Volunteer, Put, TypeOK, connection
    <2> QED
      BY <1>0, <2>2 DEF OneAnswer, Outstanding, Quiet, Current
  <1>12. CASE \E p \in Observers : Trickle(p) \/ HangUp(p)
    BY <1>12, <1>s DEF Trickle, HangUp, connection
  <1>13. CASE UNCHANGED vars
    BY <1>13, <1>s DEF vars, connection, network
  <1> QED
    BY <1>1, <1>2, <1>3, <1>4, <1>5, <1>6, <1>7, <1>8, <1>9, <1>10, <1>11, <1>12, <1>13, Steps

LEMMA AnsweredStep == TypeOK /\ Owned /\ Traced /\ Answered /\ [Next]_vars => Answered'
PROOF
  <1> SUFFICES ASSUME TypeOK, Owned, Traced, Answered, [Next]_vars
               PROVE  OneAnswerEach' /\ ReplyAnswersItsMessage'
    BY DEF Answered
  <1>1. OneAnswerEach
    BY DEF Answered
  <1>2. OneAnswerEach'
    BY <1>1, OneAnswerStep DEF OneAnswerEach
  <1> QED
    BY <1>2, AnswersStep

\* An observer that answers each message once can only replace the message it
\* answers: an answer that comes after the time-out, or from an observer that was
\* given up, never lands on a later message.
THEOREM RepliesAnswerTheirMessage == Spec => []ReplyAnswersItsMessage
PROOF
  <1>1. Answered => ReplyAnswersItsMessage
    BY DEF Answered
  <1> QED
    BY <1>1, OwnedAlways, TracedInit, TracedStep, AnsweredInit, AnsweredStep, PTL DEF Spec
=============================================================================
