------------------------- MODULE DoipResponderProofs -------------------------
(***************************************************************************)
(* Proofs about DoipResponder for any set of connections and any number of *)
(* messages: who owns a connection, what start() and stop() promise, and   *)
(* which replies a client receives.                                        *)
(***************************************************************************)
EXTENDS DoipResponder, SequenceTheorems, TLAPS

-----------------------------------------------------------------------------
(* The inductive invariant: ConnectionsOwned, and what the caller's place  *)
(* says of the thread's.                                                   *)

States == {"new", "backlog", "served", "closed"}
Labels == {"down", "bind", "failed", "accept", "receive", "answer", "ended"}

ThreadTypes ==
  /\ caller \in {"idle", "start", "stop"} /\ stop_requested \in BOOLEAN
  /\ pc \in Labels
  /\ conn \in Connections \cup {0}
  /\ state \in [Connections -> States]

\* A thread is on its way up only inside start(); it is asked to stop only
\* inside stop(), but may end by itself, when accept() fails.
CallerKnowsThread ==
  /\ caller = "start" => pc # "down" /\ ~stop_requested
  /\ pc \in {"bind", "failed"} => caller = "start"
  /\ caller = "stop" => stop_requested
  /\ stop_requested => caller = "stop" \/ pc = "down"

DoipInv == ThreadTypes /\ CallerKnowsThread /\ ConnectionsOwned

LEMMA DoipInit == Init => DoipInv
BY DoipAssumption
DEF Init, DoipInv, ThreadTypes, CallerKnowsThread, ConnectionsOwned, Listening, States, Labels

-----------------------------------------------------------------------------
(* What the steps do to the connections                                    *)

owners == <<caller, stop_requested, pc, conn, state>>

\* What ends a connection leaves the thread at accept().
LEMMA ConnectionEnds ==
  ASSUME DoipInv, pc \in {"receive", "answer"}, EndConnection
  PROVE  DoipInv' /\ Listening /\ Listening' /\ caller' = caller
PROOF
  <1>1. /\ conn \in Connections /\ state \in [Connections -> States]
        /\ state' = [state EXCEPT ![conn] = "closed"]
        /\ conn' = 0 /\ pc' = "accept" /\ UNCHANGED <<caller, stop_requested>>
    BY DoipAssumption DEF DoipInv, ThreadTypes, ConnectionsOwned, EndConnection
  <1>2. /\ state' \in [Connections -> States]
        /\ \A c \in Connections : state'[c] = IF c = conn THEN "closed" ELSE state[c]
    BY <1>1 DEF States
  <1>3. \A c \in Connections : state'[c] # "served" /\ c # conn'
    BY <1>1, <1>2, DoipAssumption DEF DoipInv, ConnectionsOwned
  <1>4. ConnectionsOwned'
    BY <1>1, <1>3 DEF ConnectionsOwned, Listening
  <1>5. ThreadTypes' /\ CallerKnowsThread'
    BY <1>1, <1>2 DEF DoipInv, ThreadTypes, CallerKnowsThread, Labels
  <1> QED
    BY <1>1, <1>4, <1>5 DEF DoipInv, Listening

\* Between the messages of a connection nothing but the label changes.
LEMMA ConnectionGoesOn ==
  ASSUME DoipInv, pc \in {"receive", "answer"}, pc' \in {"receive", "answer"},
         UNCHANGED <<caller, stop_requested, conn, state>>
  PROVE  DoipInv' /\ Listening /\ Listening' /\ caller' = caller
BY DEF DoipInv, ThreadTypes, CallerKnowsThread, ConnectionsOwned, Listening, Labels

LEMMA OwnersUnchanged ==
  ASSUME DoipInv, UNCHANGED owners
  PROVE  DoipInv'
BY DEF owners, DoipInv, ThreadTypes, CallerKnowsThread, ConnectionsOwned, Listening

\* Whatever message is handled, the connection goes on or ends.
LEMMA MessageHandled ==
  ASSUME NEW message, HandleMessage(message), pc = "receive"
  PROVE  \/ EndConnection
         \/ /\ pc' \in {"receive", "answer"}
            /\ UNCHANGED <<caller, stop_requested, conn, state>>
BY DEF HandleMessage, Activate, Nack, Ack, Ignore, Reject

LEMMA ServingConnection ==
  ASSUME DoipInv, LeaveOnStop \/ LeaveOnEnd \/ Receive \/ Answer \/ AnswerFails
  PROVE  DoipInv' /\ Listening /\ Listening' /\ caller' = caller
PROOF
  <1>1. CASE LeaveOnStop \/ LeaveOnEnd \/ AnswerFails
    BY <1>1, ConnectionEnds DEF LeaveOnStop, LeaveOnEnd, AnswerFails
  <1>2. CASE Receive
    <2>1. pc = "receive" /\ \E message : HandleMessage(message)
      BY <1>2, Zenon DEF Receive
    <2> QED
      BY <2>1, MessageHandled, ConnectionEnds, ConnectionGoesOn
  <1>3. CASE Answer
    BY <1>3, ConnectionGoesOn DEF Answer
  <1> QED
    BY <1>1, <1>2, <1>3

\* A connection of the backlog becomes the one that is served.
LEMMA Accepted ==
  ASSUME DoipInv, Accept
  PROVE  DoipInv' /\ Listening /\ Listening' /\ caller' = caller
PROOF
  <1>1. PICK c \in Connections :
          /\ state[c] = "backlog" /\ conn' = c
          /\ state' = [state EXCEPT ![c] = "served"]
    BY DEF Accept
  <1>2. pc = "accept" /\ pc' = "receive" /\ UNCHANGED <<caller, stop_requested>>
    BY DEF Accept
  <1>3. /\ state' \in [Connections -> States]
        /\ \A d \in Connections : state'[d] = IF d = c THEN "served" ELSE state[d]
    BY <1>1 DEF DoipInv, ThreadTypes, States
  <1>4. \A d \in Connections : state[d] # "served"
    BY <1>2, DoipAssumption DEF DoipInv, ConnectionsOwned
  <1>5. ConnectionsOwned'
    BY <1>1, <1>2, <1>3, <1>4, DoipAssumption DEF ConnectionsOwned, Listening
  <1>6. ThreadTypes' /\ CallerKnowsThread'
    BY <1>1, <1>2, <1>3 DEF DoipInv, ThreadTypes, CallerKnowsThread, Labels
  <1> QED
    BY <1>2, <1>5, <1>6 DEF DoipInv, Listening

\* What the end of the thread leaves waiting is refused.
LEMMA ServerClosed ==
  ASSUME DoipInv, CloseServer \/ AcceptFails
  PROVE  DoipInv' /\ Listening /\ pc' = "ended" /\ caller' = caller
PROOF
  <1>1. /\ pc = "accept" /\ pc' = "ended"
        /\ state' = [c \in Connections |-> IF state[c] = "backlog" THEN "closed" ELSE state[c]]
        /\ UNCHANGED <<caller, stop_requested, conn>>
    BY DEF CloseServer, AcceptFails, RefuseWaiting
  <1>2. \A c \in Connections : state[c] # "served" /\ c # conn
    BY <1>1, DoipAssumption DEF DoipInv, ConnectionsOwned
  <1>3. /\ state' \in [Connections -> States]
        /\ \A c \in Connections : state'[c] \in {"new", "closed"}
    BY <1>1, <1>2 DEF DoipInv, ThreadTypes, States
  <1>4. ConnectionsOwned'
    BY <1>1, <1>2, <1>3 DEF DoipInv, ConnectionsOwned, Listening
  <1>5. ThreadTypes' /\ CallerKnowsThread'
    BY <1>1, <1>3 DEF DoipInv, ThreadTypes, CallerKnowsThread, Labels
  <1> QED
    BY <1>1, <1>4, <1>5 DEF DoipInv, Listening

LEMMA CallerSteps ==
  ASSUME DoipInv, Caller \/ Bind
  PROVE  DoipInv'
PROOF
  <1>1. UNCHANGED <<conn, state>>
    BY DEF Caller, CallStart, StartReturns, StartRaises, CallStop, StopReturns, Bind, thread
  <1>2. ThreadTypes'
    BY <1>1
    DEF Caller, CallStart, StartReturns, StartRaises, CallStop, StopReturns, Bind, thread,
        DoipInv, ThreadTypes, Labels
  <1>3. CallerKnowsThread'
    BY DEF Caller, CallStart, StartReturns, StartRaises, CallStop, StopReturns, Bind, thread,
           DoipInv, ThreadTypes, CallerKnowsThread, Labels
  <1>4. /\ pc' \in {"receive", "answer"} <=> pc \in {"receive", "answer"}
        /\ Listening => Listening'
    BY DEF Caller, CallStart, StartReturns, StartRaises, CallStop, StopReturns, Bind, thread,
           Listening
  <1>5. ConnectionsOwned'
    BY <1>1, <1>4, Zenon DEF DoipInv, ConnectionsOwned
  <1> QED
    BY <1>2, <1>3, <1>5 DEF DoipInv

LEMMA ClientSteps ==
  ASSUME DoipInv, NEW c \in Connections, Client(c)
  PROVE  DoipInv' /\ UNCHANGED <<caller, pc>>
PROOF
  <1>1. CASE Connect(c)
    <2>1. /\ Listening /\ state[c] = "new" /\ state' = [state EXCEPT ![c] = "backlog"]
          /\ UNCHANGED <<caller, stop_requested, pc, conn>>
      BY <1>1 DEF Connect, thread
    <2>2. /\ state' \in [Connections -> States]
          /\ \A d \in Connections : state'[d] = IF d = c THEN "backlog" ELSE state[d]
      BY <2>1 DEF DoipInv, ThreadTypes, States
    <2>3. ConnectionsOwned'
      BY <2>1, <2>2 DEF DoipInv, ConnectionsOwned, Listening
    <2> QED
      BY <2>1, <2>2, <2>3 DEF DoipInv, ThreadTypes, CallerKnowsThread
  <1>2. CASE SendMessage(c) \/ Disconnect(c)
    <2>1. UNCHANGED owners
      BY <1>2 DEF SendMessage, Disconnect, owners, thread
    <2> QED
      BY <2>1, OwnersUnchanged DEF owners
  <1> QED
    BY <1>1, <1>2 DEF Client

LEMMA DoipStep ==
  ASSUME DoipInv, [Next]_vars
  PROVE  DoipInv'
PROOF
  <1>1. CASE UNCHANGED vars
    BY <1>1, OwnersUnchanged DEF vars, thread, owners
  <1>2. CASE Serve
    BY <1>2, CallerSteps, Accepted, ServerClosed, ServingConnection DEF Serve
  <1> QED
    BY <1>1, <1>2, CallerSteps, ServerClosed, ClientSteps DEF Next

LEMMA DoipInvariant == Spec => []DoipInv
PROOF
  <1>1. DoipInv /\ [Next]_vars => DoipInv'
    BY DoipStep
  <1> QED
    BY DoipInit, <1>1, PTL DEF Spec

-----------------------------------------------------------------------------

\* However many clients connect, whenever they leave and wherever the thread
\* is: a connection has someone to serve or refuse it, and at most one is served.
THEOREM NoConnectionForgotten == Spec => []ConnectionsOwned
PROOF
  <1>1. DoipInv => ConnectionsOwned
    BY DEF DoipInv
  <1> QED
    BY DoipInvariant, <1>1, PTL

LEMMA PromiseCaller ==
  ASSUME DoipInv, Caller \/ Bind
  PROVE  [Promise!Next]_(Promise!vars)
BY DEF Caller, CallStart, StartReturns, StartRaises, CallStop, StopReturns, Bind, thread,
       DoipInv, ThreadTypes, CallerKnowsThread, Listening, Labels, Promise!Next, Promise!InTime,
       Promise!CallStart, Promise!BeginServing, Promise!ReturnStarted, Promise!RaiseNotStarted,
       Promise!CallStop, Promise!ReturnStopped, Promise!Down, Promise!Goes, Promise!vars

\* The end of the thread is the end of a stop(), or a breakdown.
LEMMA PromiseServerClosed ==
  ASSUME DoipInv, CloseServer \/ AcceptFails
  PROVE  [Promise!Next]_(Promise!vars)
PROOF
  <1>1. /\ Listening /\ pc \notin {"down", "ended"} /\ ~Listening' /\ pc' = "ended"
        /\ caller' = caller /\ caller \in {"idle", "start", "stop"}
    BY ServerClosed DEF Listening, DoipInv, ThreadTypes
  <1>2. CASE caller = "stop"
    BY <1>1, <1>2
    DEF Promise!Next, Promise!InTime, Promise!EndServing, Promise!Goes
  <1>3. CASE caller # "stop"
    BY <1>1, <1>3 DEF Promise!Next, Promise!InTime, Promise!BreakDown
  <1> QED
    BY <1>2, <1>3

\* Over DoIP, too, start() and stop() keep the contract of Responder: service
\* begins only inside a start(); it ends inside a stop() or because an accept()
\* failed, after which nothing is served until a stop() and another start();
\* and each call returns with the service in the state it promises, whatever
\* the clients do.
THEOREM KeepsItsPromise == Spec => KeepsPromise
PROOF
  <1>1. Init => Promise!Init
    BY DEF Init, Promise!Init, Listening
  <1>2. DoipInv /\ [Next]_vars => [Promise!Next]_(Promise!vars)
    <2> SUFFICES ASSUME DoipInv, [Next]_vars
                 PROVE  [Promise!Next]_(Promise!vars)
      OBVIOUS
    <2>1. CASE UNCHANGED vars
      BY <2>1 DEF vars, thread, Promise!vars, Listening
    <2>2. CASE Caller \/ Bind
      BY <2>2, PromiseCaller
    <2>3. CASE CloseServer \/ AcceptFails
      BY <2>3, PromiseServerClosed
    <2>4. CASE Serve /\ ~Bind /\ ~CloseServer
      <3>1. Listening /\ Listening' /\ caller' = caller
        BY <2>4, Accepted, ServingConnection DEF Serve
      <3> QED
        BY <3>1 DEF Promise!vars, Listening
    <2>5. ASSUME NEW c \in Connections, Client(c) PROVE [Promise!Next]_(Promise!vars)
      <3>1. UNCHANGED <<caller, pc>>
        BY <2>5, ClientSteps
      <3> QED
        BY <3>1 DEF Promise!vars, Listening
    <2> QED
      BY <2>1, <2>2, <2>3, <2>4, <2>5 DEF Next, Serve
  <1> QED
    BY <1>1, <1>2, DoipInvariant, PTL DEF Spec, KeepsPromise, Promise!Spec

-----------------------------------------------------------------------------
(* What a client may have been answered.                                   *)

Messages == [kind: Kinds, number: 1..MaxSent]

\* What a connection has sent and nobody has looked at, and how many before.
Unhandled(c) == IF c = conn THEN parser \o uplink[c] ELSE uplink[c]
Handled(c) == Len(sent[c]) - Len(Unhandled(c))

\* The messages of an open connection are handled one after the other, each
\* answered if it is answerable, and none before the connection is served.
Progress(c) ==
  /\ Handled(c) >= 0
  /\ state[c] # "served" => Handled(c) = 0
  /\ \A i \in 1..Len(Unhandled(c)) :
       Unhandled(c)[i] = Message(sent[c][Handled(c) + i], Handled(c) + i)
  /\ \A j \in DOMAIN replies[c] : replies[c][j].number <= Handled(c)
  /\ \A i \in 1..Handled(c) : sent[c][i] \in Answerable => Answered(c, i)

\* What the thread knows of the connection that it serves.
ThreadFollows ==
  /\ pc \in {"receive", "answer"} =>
       (activated <=> ActivatedBefore(conn, Handled(conn) + 1))
  /\ pc = "answer" =>
       /\ answering = Handled(conn) /\ answering # 0
       /\ Len(replies[conn]) # 0
       /\ replies[conn][Len(replies[conn])] = Message("ack", answering)

ProgressInv ==
  /\ \A c \in Connections : state[c] # "closed" => Progress(c)
  /\ ThreadFollows

-----------------------------------------------------------------------------
(* Queues                                                                  *)

LEMMA Indices ==
  ASSUME NEW S, NEW s \in Seq(S)
  PROVE  DOMAIN s = 1..Len(s) /\ Len(s) \in Nat /\ \A i \in 1..Len(s) : s[i] \in S
BY LenProperties, ElementOfSeq

LEMMA Dequeued ==
  ASSUME NEW S, NEW s \in Seq(S), s # <<>>
  PROVE  /\ Head(s) \in S /\ Head(s) = s[1]
         /\ Tail(s) \in Seq(S)
         /\ Len(s) \in Nat /\ Len(s) >= 1 /\ Len(Tail(s)) = Len(s) - 1
         /\ \A i \in 1..Len(Tail(s)) : i + 1 \in 1..Len(s) /\ Tail(s)[i] = s[i + 1]
PROOF
  <1>1. Len(s) \in Nat /\ Len(s) >= 1
    BY EmptySeq, LenProperties
  <1> QED
    BY <1>1, HeadTailProperties

\* The first of two queues in a row is served first.
LEMMA DequeuedFromFirst ==
  ASSUME NEW S, NEW s \in Seq(S), NEW t \in Seq(S), s # <<>>
  PROVE  /\ s \o t \in Seq(S) /\ s \o t # <<>>
         /\ Head(s \o t) = Head(s) /\ Tail(s \o t) = Tail(s) \o t
PROOF
  <1>1. /\ s \o t \in Seq(S) /\ Len(s \o t) = Len(s) + Len(t)
        /\ \A i \in 1..(Len(s) + Len(t)) :
             (s \o t)[i] = IF i <= Len(s) THEN s[i] ELSE t[i - Len(s)]
    BY ConcatProperties
  <1>2. /\ Head(s) = s[1] /\ Tail(s) \in Seq(S)
        /\ Len(s) \in Nat /\ Len(s) >= 1 /\ Len(Tail(s)) = Len(s) - 1
        /\ \A i \in 1..Len(Tail(s)) : Tail(s)[i] = s[i + 1]
    BY Dequeued
  <1>3. Len(t) \in Nat
    BY LenProperties
  <1>4. s \o t # <<>>
    BY <1>1, <1>2, <1>3, EmptySeq
  <1>5. /\ Head(s \o t) = (s \o t)[1] /\ Tail(s \o t) \in Seq(S)
        /\ Len(Tail(s \o t)) = Len(s \o t) - 1
        /\ \A i \in 1..Len(Tail(s \o t)) : Tail(s \o t)[i] = (s \o t)[i + 1]
    BY <1>1, <1>4, Dequeued
  <1>6. /\ Tail(s) \o t \in Seq(S) /\ Len(Tail(s) \o t) = Len(Tail(s)) + Len(t)
        /\ \A i \in 1..(Len(Tail(s)) + Len(t)) :
             (Tail(s) \o t)[i] = IF i <= Len(Tail(s)) THEN Tail(s)[i] ELSE t[i - Len(Tail(s))]
    BY <1>2, ConcatProperties
  <1>7. Len(Tail(s \o t)) = Len(Tail(s) \o t)
    BY <1>1, <1>2, <1>5, <1>6
  <1>8. ASSUME NEW i \in 1..Len(Tail(s \o t))
        PROVE  Tail(s \o t)[i] = (Tail(s) \o t)[i]
    <2>1. i \in Nat /\ 1 <= i /\ i + 1 \in 1..(Len(s) + Len(t)) /\ i \in 1..(Len(Tail(s)) + Len(t))
      BY <1>1, <1>2, <1>3, <1>5
    <2>2. Tail(s \o t)[i] = IF i + 1 <= Len(s) THEN s[i + 1] ELSE t[i + 1 - Len(s)]
      BY <1>1, <1>5, <2>1
    <2>3. (Tail(s) \o t)[i] = IF i <= Len(s) - 1 THEN Tail(s)[i] ELSE t[i - (Len(s) - 1)]
      BY <1>2, <1>6, <2>1
    <2>4. i <= Len(s) - 1 => Tail(s)[i] = s[i + 1]
      BY <1>2, <2>1
    <2>5. i + 1 - Len(s) = i - (Len(s) - 1) /\ (i + 1 <= Len(s) <=> i <= Len(s) - 1)
      BY <1>2, <2>1
    <2> QED
      BY <2>2, <2>3, <2>4, <2>5
  <1>9. Tail(s \o t) = Tail(s) \o t
    BY <1>5, <1>6, <1>7, <1>8, SeqEqual
  <1>10. Head(s \o t) = Head(s)
    BY <1>1, <1>2, <1>3, <1>5
  <1> QED
    BY <1>1, <1>4, <1>9, <1>10

LEMMA Rejoined ==
  ASSUME NEW S, NEW s \in Seq(S), NEW t \in Seq(S), NEW v \in Seq(S)
  PROVE  (s \o t) \o v = s \o (t \o v)
BY ConcatAssociative

\* However much of queue u is moved behind queue p, and one taken from there:
\* of the two together the first has been taken.
LEMMA TakenFromBoth ==
  ASSUME NEW S, NEW p \in Seq(S), NEW u \in Seq(S), NEW k \in 0..Len(u),
         p \o SubSeq(u, 1, k) # <<>>
  PROVE  /\ p \o u \in Seq(S) /\ p \o u # <<>>
         /\ Head(p \o SubSeq(u, 1, k)) = Head(p \o u)
         /\ Tail(p \o SubSeq(u, 1, k)) \in Seq(S) /\ SubSeq(u, k + 1, Len(u)) \in Seq(S)
         /\ Tail(p \o SubSeq(u, 1, k)) \o SubSeq(u, k + 1, Len(u)) = Tail(p \o u)
PROOF
  <1>1. PICK f, r : f = SubSeq(u, 1, k) /\ r = SubSeq(u, k + 1, Len(u))
    OBVIOUS
  <1>2. Len(u) \in Nat /\ \A i \in 1..Len(u) : u[i] \in S
    BY Indices
  <1>3. f \in Seq(S) /\ r \in Seq(S)
    <2>1. \A i \in 1..k : u[i] \in S
      BY <1>2
    <2>2. \A i \in (k + 1)..Len(u) : u[i] \in S
      BY <1>2
    <2> QED
      BY <1>1, <1>2, <2>1, <2>2, SubSeqProperties
  <1>4. f \o r = u
    <2>1. 1 \in 1..(Len(u) + 1) /\ k \in (1 - 1)..Len(u) /\ Len(u) \in k..Len(u)
      BY <1>2
    <2>2. SubSeq(u, 1, k) \o SubSeq(u, k + 1, Len(u)) = SubSeq(u, 1, Len(u))
      BY <2>1, ConcatAdjacentSubSeq
    <2> QED
      BY <1>1, <2>2, SubSeqFull
  <1>5. /\ p \o f \in Seq(S) /\ p \o f # <<>> /\ (p \o f) \o r = p \o u
    <2>1. p \o f \in Seq(S)
      BY <1>3, ConcatProperties
    <2>3. (p \o f) \o r = p \o (f \o r)
      BY <1>3, Rejoined
    <2> QED
      BY <1>1, <1>4, <2>1, <2>3
  <1>6. /\ p \o u \in Seq(S) /\ p \o u # <<>>
        /\ Head(p \o u) = Head(p \o f) /\ Tail(p \o u) = Tail(p \o f) \o r
    <2>1. PICK h : h = p \o f
      OBVIOUS
    <2>2. h \in Seq(S) /\ r \in Seq(S) /\ h # <<>>
      BY <1>3, <1>5, <2>1
    <2>4. /\ h \o r \in Seq(S) /\ h \o r # <<>>
          /\ Head(h \o r) = Head(h) /\ Tail(h \o r) = Tail(h) \o r
      BY <2>2, DequeuedFromFirst
    <2>3. h \o r = p \o u
      BY <1>5, <2>1
    <2> QED
      BY <2>1, <2>3, <2>4
  <1>7. Tail(p \o f) \in Seq(S)
    BY <1>5, Dequeued
  <1> QED
    BY <1>1, <1>3, <1>6, <1>7

-----------------------------------------------------------------------------
(* Types                                                                   *)

\* A request is only ever answered after its acknowledgement.
AnsweringKnown == pc = "answer" => answering # 0

RepliesSent == [kind: Replies, number: 1..MaxSent]

ClientTypes ==
  /\ gone \subseteq Connections
  /\ uplink \in [Connections -> Seq(Messages)]
  /\ sent \in [Connections -> Seq(Kinds)]
  /\ replies \in [Connections -> Seq(RepliesSent)]

ParserTypes ==
  /\ activated \in BOOLEAN
  /\ parser \in Seq(Messages)
  /\ answering \in 0..MaxSent

DoipTypes == ParserTypes /\ AnsweringKnown /\ ClientTypes

LEMMA MessageTypes ==
  /\ \A kind \in Kinds, number \in 1..MaxSent :
       /\ Message(kind, number) \in Messages
       /\ Message(kind, number).kind = kind /\ Message(kind, number).number = number
  /\ \A kind \in Replies, number \in 1..MaxSent :
       /\ Message(kind, number) \in RepliesSent
       /\ Message(kind, number).kind = kind /\ Message(kind, number).number = number
  /\ \A message \in Messages :
       /\ message.kind \in Kinds /\ message.number \in 1..MaxSent
       /\ message = Message(message.kind, message.number)
BY DEF Message, Messages, RepliesSent

LEMMA TypesInit == Init => DoipTypes
PROOF
  <1> SUFFICES ASSUME Init PROVE DoipTypes
    OBVIOUS
  <1>1. <<>> \in Seq(Messages) /\ <<>> \in Seq(Kinds) /\ <<>> \in Seq(RepliesSent)
    BY EmptySeq
  <1> QED
    <2>1. ParserTypes /\ AnsweringKnown
      <3>1. 0 \in 0..MaxSent
        BY DoipAssumption
      <3>2. activated \in BOOLEAN /\ parser = <<>> /\ answering = 0 /\ pc # "answer"
        BY DEF Init
      <3> QED
        BY <1>1, <3>1, <3>2 DEF ParserTypes, AnsweringKnown
    <2>2. ClientTypes
      BY <1>1 DEF Init, ClientTypes
    <2> QED
      BY <2>1, <2>2 DEF DoipTypes

\* What a connection has sent and nobody has looked at, and how many before.
LEMMA UnhandledTypes ==
  ASSUME DoipTypes, NEW c \in Connections
  PROVE  /\ Unhandled(c) \in Seq(Messages) /\ Len(Unhandled(c)) \in Nat
         /\ Len(sent[c]) \in Nat /\ Handled(c) \in Int
PROOF
  <1>1. parser \in Seq(Messages) /\ uplink[c] \in Seq(Messages) /\ sent[c] \in Seq(Kinds)
    BY DEF DoipTypes, ParserTypes, ClientTypes
  <1>2. parser \o uplink[c] \in Seq(Messages)
    BY <1>1, ConcatProperties
  <1>3. Unhandled(c) \in Seq(Messages)
    BY <1>1, <1>2 DEF Unhandled
  <1> QED
    BY <1>1, <1>3, LenProperties DEF Handled

\* A reply is added to those of the connection that is served.
LEMMA Sending ==
  ASSUME DoipTypes, conn \in Connections,
         NEW kind \in Replies, NEW number \in 1..MaxSent, Send(kind, number)
  PROVE  /\ replies' \in [Connections -> Seq(RepliesSent)]
         /\ \A c \in Connections : c # conn => replies'[c] = replies[c]
         /\ Len(replies[conn]) \in Nat /\ Len(replies'[conn]) = Len(replies[conn]) + 1
         /\ DOMAIN replies[conn] = 1..Len(replies[conn])
         /\ DOMAIN replies'[conn] = 1..(Len(replies[conn]) + 1)
         /\ \A j \in DOMAIN replies[conn] : replies'[conn][j] = replies[conn][j]
         /\ replies'[conn][Len(replies[conn]) + 1] = Message(kind, number)
PROOF
  <1>1. replies \in [Connections -> Seq(RepliesSent)] /\ replies[conn] \in Seq(RepliesSent)
    BY DEF DoipTypes, ClientTypes
  <1>2. Message(kind, number) \in RepliesSent
    BY MessageTypes
  <1>3. PICK more : more = Append(replies[conn], Message(kind, number))
    OBVIOUS
  <1>4. /\ more \in Seq(RepliesSent) /\ Len(more) = Len(replies[conn]) + 1
        /\ \A j \in 1..Len(replies[conn]) : more[j] = replies[conn][j]
        /\ more[Len(replies[conn]) + 1] = Message(kind, number)
    BY <1>1, <1>2, <1>3, AppendProperties
  <1>5. /\ DOMAIN replies[conn] = 1..Len(replies[conn]) /\ Len(replies[conn]) \in Nat
        /\ DOMAIN more = 1..(Len(replies[conn]) + 1)
    BY <1>1, <1>4, LenProperties
  <1>6. replies' = [replies EXCEPT ![conn] = more]
    BY <1>3 DEF Send
  <1>7. /\ replies' \in [Connections -> Seq(RepliesSent)] /\ replies'[conn] = more
        /\ \A c \in Connections : c # conn => replies'[c] = replies[c]
    BY <1>1, <1>4, <1>6
  <1> QED
    BY <1>4, <1>5, <1>7

\* However the chunks fall: the first unhandled message is handled, the others
\* are left.
LEMMA Receiving ==
  ASSUME DoipInv, DoipTypes, Receive
  PROVE  /\ pc = "receive" /\ conn \in Connections
         /\ Unhandled(conn) # <<>> /\ Head(Unhandled(conn)) \in Messages
         /\ HandleMessage(Head(Unhandled(conn)))
         /\ parser' \in Seq(Messages) /\ uplink' \in [Connections -> Seq(Messages)]
         /\ \A c \in Connections : c # conn => uplink'[c] = uplink[c]
         /\ parser' \o uplink'[conn] = Tail(Unhandled(conn))
         /\ UNCHANGED <<gone, sent>>
PROOF
  <1>1. /\ pc = "receive" /\ conn \in Connections /\ UNCHANGED <<gone, sent>>
    BY DEF Receive, DoipInv, ThreadTypes, ConnectionsOwned
  <1>2. /\ parser \in Seq(Messages) /\ uplink[conn] \in Seq(Messages)
        /\ uplink \in [Connections -> Seq(Messages)]
    BY <1>1 DEF DoipTypes, ParserTypes, ClientTypes
  <1>3. PICK k \in 0..Len(uplink[conn]) :
          /\ uplink' = [uplink EXCEPT ![conn] = SubSeq(uplink[conn], k + 1, Len(uplink[conn]))]
          /\ parser \o SubSeq(uplink[conn], 1, k) # <<>>
          /\ parser' = Tail(parser \o SubSeq(uplink[conn], 1, k))
          /\ HandleMessage(Head(parser \o SubSeq(uplink[conn], 1, k)))
    BY Zenon DEF Receive
  <1>4. PICK p, u, rest, held :
          /\ p = parser /\ u = uplink[conn] /\ rest = SubSeq(u, k + 1, Len(u))
          /\ held = p \o SubSeq(u, 1, k)
    OBVIOUS
  <1>5. p \in Seq(Messages) /\ u \in Seq(Messages) /\ k \in 0..Len(u) /\ p \o SubSeq(u, 1, k) # <<>>
    BY <1>2, <1>3, <1>4
  <1>6. /\ p \o u \in Seq(Messages) /\ p \o u # <<>>
        /\ Head(held) = Head(p \o u)
        /\ Tail(held) \in Seq(Messages) /\ rest \in Seq(Messages)
        /\ Tail(held) \o rest = Tail(p \o u)
    <2>1. /\ p \o u \in Seq(Messages) /\ p \o u # <<>>
          /\ Head(p \o SubSeq(u, 1, k)) = Head(p \o u)
          /\ Tail(p \o SubSeq(u, 1, k)) \in Seq(Messages) /\ SubSeq(u, k + 1, Len(u)) \in Seq(Messages)
          /\ Tail(p \o SubSeq(u, 1, k)) \o SubSeq(u, k + 1, Len(u)) = Tail(p \o u)
      BY <1>5, TakenFromBoth
    <2> QED
      BY <1>4, <2>1, Zenon
  <1>7. Unhandled(conn) = p \o u
    BY <1>4 DEF Unhandled
  <1>8. /\ parser' = Tail(held) /\ HandleMessage(Head(held))
        /\ uplink' = [uplink EXCEPT ![conn] = rest]
    BY <1>3, <1>4, Zenon
  <1>9. /\ uplink' \in [Connections -> Seq(Messages)] /\ uplink'[conn] = rest
        /\ \A c \in Connections : c # conn => uplink'[c] = uplink[c]
    BY <1>1, <1>2, <1>6, <1>8
  <1>10. Head(p \o u) \in Messages
    BY <1>6, Dequeued
  <1>11. HandleMessage(Head(Unhandled(conn)))
    BY <1>6, <1>7, <1>8, Zenon
  <1> QED
    BY <1>1, <1>6, <1>7, <1>8, <1>9, <1>10, <1>11

\* A client puts one more message on the wire.
LEMMA Transmitting ==
  ASSUME DoipTypes, NEW c \in Connections, SendMessage(c)
  PROVE  /\ uplink' \in [Connections -> Seq(Messages)]
         /\ sent' \in [Connections -> Seq(Kinds)]
         /\ \A d \in Connections : d # c => uplink'[d] = uplink[d] /\ sent'[d] = sent[d]
         /\ Len(sent[c]) \in Nat /\ Len(sent'[c]) = Len(sent[c]) + 1
         /\ \A i \in 1..Len(sent[c]) : sent'[c][i] = sent[c][i]
         /\ \E message \in Messages :
              /\ message = Message(sent'[c][Len(sent[c]) + 1], Len(sent[c]) + 1)
              /\ uplink'[c] = Append(uplink[c], message)
PROOF
  <1>1. /\ uplink \in [Connections -> Seq(Messages)] /\ uplink[c] \in Seq(Messages)
        /\ sent \in [Connections -> Seq(Kinds)] /\ sent[c] \in Seq(Kinds)
    BY DEF DoipTypes, ClientTypes
  <1>2. PICK kind \in Kinds :
          /\ sent' = [sent EXCEPT ![c] = Append(sent[c], kind)]
          /\ uplink' = [uplink EXCEPT ![c] = Append(uplink[c], Message(kind, Len(sent[c]) + 1))]
    BY DEF SendMessage
  <1>3. Len(sent[c]) \in Nat /\ Len(sent[c]) < MaxSent
    BY <1>1, LenProperties DEF SendMessage
  <1>4. PICK message : message = Message(kind, Len(sent[c]) + 1)
    OBVIOUS
  <1>5. message \in Messages
    BY <1>3, <1>4, MessageTypes, DoipAssumption
  <1>6. PICK more, queue : more = Append(sent[c], kind) /\ queue = Append(uplink[c], message)
    OBVIOUS
  <1>7. /\ more \in Seq(Kinds) /\ Len(more) = Len(sent[c]) + 1
        /\ \A i \in 1..Len(sent[c]) : more[i] = sent[c][i]
        /\ more[Len(sent[c]) + 1] = kind
    BY <1>1, <1>6, AppendProperties
  <1>8. queue \in Seq(Messages)
    BY <1>1, <1>5, <1>6, AppendProperties
  <1>9. /\ uplink' \in [Connections -> Seq(Messages)] /\ uplink'[c] = queue
        /\ sent' \in [Connections -> Seq(Kinds)] /\ sent'[c] = more
        /\ \A d \in Connections : d # c => uplink'[d] = uplink[d] /\ sent'[d] = sent[d]
    BY <1>1, <1>2, <1>4, <1>6, <1>7, <1>8
  <1> QED
    BY <1>3, <1>4, <1>5, <1>6, <1>7, <1>9

\* Handling a message sends one reply at most, and leaves what the thread knows
\* of the connection well typed.
LEMMA HandlingTypes ==
  ASSUME DoipTypes, conn \in Connections, pc = "receive",
         NEW message \in Messages, HandleMessage(message)
  PROVE  /\ activated' \in BOOLEAN /\ answering' \in 0..MaxSent /\ AnsweringKnown'
         /\ replies' \in [Connections -> Seq(RepliesSent)]
PROOF
  <1>1. message.number \in 1..MaxSent /\ message.number \in 0..MaxSent
    BY MessageTypes, DoipAssumption
  <1>2. activated \in BOOLEAN /\ answering \in 0..MaxSent /\ replies \in [Connections -> Seq(RepliesSent)]
    BY DEF DoipTypes, ParserTypes, ClientTypes
  <1>3. activated' \in BOOLEAN
    BY <1>2 DEF HandleMessage, Activate, Nack, Ack, Ignore, Reject
  <1>4. answering' \in 0..MaxSent /\ AnsweringKnown'
    BY <1>1, <1>2
    DEF HandleMessage, Activate, Nack, Ack, Ignore, Reject, EndConnection, AnsweringKnown
  <1>5. \/ UNCHANGED replies
        \/ \E kind \in Replies : Send(kind, message.number)
    BY DEF HandleMessage, Activate, Nack, Ack, Ignore, Reject, Replies
  <1>6. replies' \in [Connections -> Seq(RepliesSent)]
    BY <1>1, <1>2, <1>5, Sending
  <1> QED
    BY <1>3, <1>4, <1>6

\* The steps that leave alone what was sent and answered.
data == <<activated, parser, answering, gone, uplink, sent, replies>>

LEMMA TypesStep ==
  ASSUME DoipInv, DoipTypes, [Next]_vars
  PROVE  DoipTypes'
PROOF
  <1>0. ParserTypes /\ AnsweringKnown /\ ClientTypes
    BY DEF DoipTypes
  <1>1. CASE UNCHANGED data /\ (pc' = "answer" => pc = "answer")
    BY <1>0, <1>1 DEF data, DoipTypes, ParserTypes, AnsweringKnown, ClientTypes
  <1>2. CASE Accept
    <2>1. <<>> \in Seq(Messages)
      BY EmptySeq
    <2>2. activated' \in BOOLEAN /\ pc' # "answer"
      BY <1>2 DEF Accept
    <2> QED
      BY <1>0, <1>2, <2>1, <2>2
      DEF Accept, clients, DoipTypes, ParserTypes, AnsweringKnown, ClientTypes
  <1>3. CASE Receive
    <2>1. /\ pc = "receive" /\ conn \in Connections
          /\ Head(Unhandled(conn)) \in Messages /\ HandleMessage(Head(Unhandled(conn)))
          /\ parser' \in Seq(Messages) /\ uplink' \in [Connections -> Seq(Messages)]
          /\ UNCHANGED <<gone, sent>>
      BY <1>3, Receiving
    <2>2. /\ activated' \in BOOLEAN /\ answering' \in 0..MaxSent /\ AnsweringKnown'
          /\ replies' \in [Connections -> Seq(RepliesSent)]
      BY <2>1, HandlingTypes
    <2> QED
      BY <1>0, <2>1, <2>2 DEF DoipTypes, ParserTypes, ClientTypes
  <1>4. CASE Answer \/ AnswerFails
    <2>1. conn \in Connections /\ answering \in 1..MaxSent /\ 0 \in 0..MaxSent
      BY <1>0, <1>4, DoipAssumption
      DEF Answer, AnswerFails, DoipInv, ThreadTypes, ConnectionsOwned, ParserTypes, AnsweringKnown
    <2>2. UNCHANGED replies \/ Send("response", answering)
      BY <1>4 DEF Answer, AnswerFails
    <2>3. replies' \in [Connections -> Seq(RepliesSent)]
      BY <1>0, <2>1, <2>2, Sending DEF Replies, ClientTypes
    <2>4. /\ pc' # "answer" /\ answering' = 0
          /\ UNCHANGED <<activated, parser, gone, uplink, sent>>
      BY <1>4 DEF Answer, AnswerFails, EndConnection, clients
    <2> QED
      BY <1>0, <2>1, <2>3, <2>4 DEF DoipTypes, ParserTypes, AnsweringKnown, ClientTypes
  <1>5. ASSUME NEW c \in Connections, SendMessage(c) PROVE DoipTypes'
    <2>1. uplink' \in [Connections -> Seq(Messages)] /\ sent' \in [Connections -> Seq(Kinds)]
      BY <1>5, Transmitting
    <2>2. UNCHANGED <<pc, activated, parser, answering, gone, replies>>
      BY <1>5 DEF SendMessage, thread
    <2> QED
      BY <1>0, <2>1, <2>2 DEF DoipTypes, ParserTypes, AnsweringKnown, ClientTypes
  <1>6. ASSUME NEW c \in Connections, Disconnect(c) PROVE DoipTypes'
    BY <1>0, <1>6 DEF Disconnect, thread, DoipTypes, ParserTypes, AnsweringKnown, ClientTypes
  <1>7. CASE UNCHANGED vars \/ Caller \/ Bind \/ CloseServer \/ AcceptFails \/ LeaveOnStop \/ LeaveOnEnd
             \/ \E c \in Connections : Connect(c)
    BY <1>1, <1>7
    DEF data, vars, thread, clients, Caller, CallStart, StartReturns, StartRaises, CallStop,
        StopReturns, Bind, CloseServer, AcceptFails, LeaveOnStop, LeaveOnEnd, EndConnection, Connect
  <1> QED
    BY <1>2, <1>3, <1>4, <1>5, <1>6, <1>7 DEF Next, Serve, Client

LEMMA TypesInvariant == Spec => [](DoipInv /\ DoipTypes)
PROOF
  <1>1. DoipInv /\ DoipTypes /\ [Next]_vars => DoipTypes'
    BY TypesStep
  <1> QED
    BY DoipInvariant, TypesInit, <1>1, PTL DEF Spec

\* The types of the thread, its parser and the connections, for any number of
\* connections and messages: what the parser holds and what is answered are
\* messages of a client.
THEOREM TypeCorrect == Spec => []TypeOK
PROOF
  <1>1. DoipInv /\ DoipTypes => TypeOK
    BY DEF DoipInv, ThreadTypes, States, Labels, DoipTypes, ParserTypes, ClientTypes, TypeOK,
           Messages, RepliesSent
  <1> QED
    BY TypesInvariant, <1>1, PTL

-----------------------------------------------------------------------------
(* Each message is handled once, in its turn                               *)

Ordered(c) == \A j \in DOMAIN replies[c] : InOrder(c, j)

\* A connection whose messages and replies are left alone.
LEMMA LeftAlone ==
  ASSUME NEW c \in Connections, Progress(c),
         Unhandled(c)' = Unhandled(c), sent'[c] = sent[c], replies'[c] = replies[c],
         state'[c] # "served" => state[c] # "served"
  PROVE  Progress(c)' /\ Handled(c)' = Handled(c)
PROOF
  <1>1. Handled(c)' = Handled(c)
    BY DEF Handled
  <1> QED
    BY <1>1 DEF Progress, Answered

LEMMA OrderLeftAlone ==
  ASSUME NEW c \in Connections, Ordered(c), sent'[c] = sent[c], replies'[c] = replies[c]
  PROVE  Ordered(c)'
BY DEF Ordered, InOrder, MayAnswer, ActivatedBefore, Answered

\* What came before message n + 1, from what came before message n.
LEMMA ActivatedNext ==
  ASSUME NEW c, NEW n \in Nat, n # 0
  PROVE  ActivatedBefore(c, n + 1) <=> ActivatedBefore(c, n) \/ sent[c][n] = "activate"
BY DEF ActivatedBefore

\* Sending more changes nothing of what was said about earlier messages.
LEMMA ActivatedEarlier ==
  ASSUME NEW c \in Connections, NEW n \in Nat, Len(sent[c]) \in Nat,
         \A i \in 1..Len(sent[c]) : sent'[c][i] = sent[c][i],
         NEW i \in 1..(Len(sent[c]) + 1)
  PROVE  ActivatedBefore(c, i)' <=> ActivatedBefore(c, i)
BY DEF ActivatedBefore

\* Numbers of replies are numbers of messages.
LEMMA ReplyNumbers ==
  ASSUME DoipTypes, NEW c \in Connections
  PROVE  /\ DOMAIN replies[c] = 1..Len(replies[c]) /\ Len(replies[c]) \in Nat
         /\ \A j \in DOMAIN replies[c] : replies[c][j].number \in Nat /\ replies[c][j].number # 0
PROOF
  <1>1. replies[c] \in Seq(RepliesSent)
    BY DEF DoipTypes, ClientTypes
  <1>2. /\ DOMAIN replies[c] = 1..Len(replies[c]) /\ Len(replies[c]) \in Nat
        /\ \A j \in 1..Len(replies[c]) : replies[c][j] \in RepliesSent
    BY <1>1, Indices
  <1> QED
    BY <1>2, DoipAssumption DEF RepliesSent

\* The first unhandled message is the one after those handled.
LEMMA NextMessage ==
  ASSUME DoipTypes, NEW c \in Connections, Progress(c), Unhandled(c) # <<>>
  PROVE  /\ Handled(c) \in Nat /\ Handled(c) + 1 \in DOMAIN sent[c]
         /\ Head(Unhandled(c)) = Message(sent[c][Handled(c) + 1], Handled(c) + 1)
         /\ Head(Unhandled(c)).kind = sent[c][Handled(c) + 1]
         /\ Head(Unhandled(c)).number = Handled(c) + 1
PROOF
  <1>1. /\ Unhandled(c) \in Seq(Messages) /\ Len(Unhandled(c)) \in Nat
        /\ Len(sent[c]) \in Nat /\ Handled(c) \in Int
    BY UnhandledTypes
  <1>2. Len(Unhandled(c)) >= 1 /\ Head(Unhandled(c)) = Unhandled(c)[1]
    BY <1>1, Dequeued
  <1>3. Handled(c) \in Nat /\ Handled(c) + 1 \in 1..Len(sent[c])
    BY <1>1, <1>2 DEF Progress, Handled
  <1>4. DOMAIN sent[c] = 1..Len(sent[c])
    BY LenProperties DEF DoipTypes, ClientTypes
  <1>5. Head(Unhandled(c)) = Message(sent[c][Handled(c) + 1], Handled(c) + 1)
    BY <1>1, <1>2 DEF Progress
  <1> QED
    BY <1>3, <1>4, <1>5 DEF Message

\* The message at the head of the queue has been handled.
LEMMA Advancing ==
  ASSUME DoipTypes, NEW c \in Connections, NEW h, h = Handled(c),
         Progress(c), state[c] = "served",
         Unhandled(c) # <<>>, Unhandled(c)' = Tail(Unhandled(c)),
         sent'[c] = sent[c], state'[c] = "served",
         \A j \in DOMAIN replies'[c] : replies'[c][j].number <= h + 1,
         \A i \in 1..h : Answered(c, i) => Answered(c, i)',
         sent[c][h + 1] \in Answerable => Answered(c, h + 1)'
  PROVE  Progress(c)' /\ Handled(c)' = h + 1
PROOF
  <1>1. /\ Unhandled(c) \in Seq(Messages) /\ Len(Unhandled(c)) \in Nat
        /\ Len(sent[c]) \in Nat /\ h \in Nat
    BY UnhandledTypes, NextMessage
  <1>2. /\ Len(Unhandled(c)') = Len(Unhandled(c)) - 1
        /\ \A i \in 1..Len(Unhandled(c)') :
             i + 1 \in 1..Len(Unhandled(c)) /\ Unhandled(c)'[i] = Unhandled(c)[i + 1]
    BY <1>1, Dequeued
  <1>3. Handled(c)' = h + 1
    BY <1>1, <1>2 DEF Handled
  <1>4. ASSUME NEW i \in 1..Len(Unhandled(c)')
        PROVE  Unhandled(c)'[i] = Message(sent[c][h + 1 + i], h + 1 + i)
    <2>1. Unhandled(c)'[i] = Message(sent[c][h + (i + 1)], h + (i + 1))
      BY <1>2 DEF Progress
    <2>2. i \in Int /\ h + (i + 1) = h + 1 + i
      BY <1>1, <1>2
    <2> QED
      BY <2>1, <2>2
  <1>5. ASSUME NEW i \in 1..(h + 1), sent[c][i] \in Answerable
        PROVE  Answered(c, i)'
    <2>1. i \in 1..h \/ i = h + 1
      BY <1>1
    <2>2. i \in 1..h => Answered(c, i)
      BY <1>5 DEF Progress
    <2>3. CASE i \in 1..h
      BY <2>2, <2>3
    <2>4. CASE i = h + 1
      BY <1>5, <2>4
    <2> QED
      BY <2>1, <2>3, <2>4
  <1>6. Handled(c)' >= 0 /\ (state'[c] # "served" => Handled(c)' = 0)
    BY <1>1, <1>3
  <1>7. \A i \in 1..Len(Unhandled(c)') :
          Unhandled(c)'[i] = Message(sent'[c][Handled(c)' + i], Handled(c)' + i)
    BY <1>3, <1>4
  <1>8. \A j \in DOMAIN replies'[c] : replies'[c][j].number <= Handled(c)'
    BY <1>3
  <1>9. \A i \in 1..Handled(c)' : sent'[c][i] \in Answerable => Answered(c, i)'
    BY <1>3, <1>5
  <1> QED
    BY <1>3, <1>6, <1>7, <1>8, <1>9 DEF Progress

\* What has been answered stays answered, and a new reply answers its message.
LEMMA StaysAnswered ==
  ASSUME DoipTypes, NEW c \in Connections, c = conn,
         NEW kind \in Replies, NEW n \in 1..MaxSent, Send(kind, n)
  PROVE  /\ Answered(c, n)'
         /\ \A i : Answered(c, i) => Answered(c, i)'
PROOF
  <1>1. /\ Len(replies[c]) \in Nat
        /\ DOMAIN replies[c] = 1..Len(replies[c])
        /\ DOMAIN replies'[c] = 1..(Len(replies[c]) + 1)
        /\ \A j \in DOMAIN replies[c] : replies'[c][j] = replies[c][j]
        /\ replies'[c][Len(replies[c]) + 1] = Message(kind, n)
    BY Sending
  <1>2. Message(kind, n).number = n
    BY MessageTypes
  <1>3. Len(replies[c]) + 1 \in DOMAIN replies'[c]
    BY <1>1
  <1>4. Answered(c, n)'
    BY <1>1, <1>2, <1>3 DEF Answered
  <1>5. DOMAIN replies[c] \subseteq DOMAIN replies'[c]
    BY <1>1
  <1>6. \A i : Answered(c, i) => Answered(c, i)'
    BY <1>1, <1>5 DEF Answered
  <1> QED
    BY <1>4, <1>6

\* A reply is in order when it is allowed for its message, everything before that
\* message was answered, and it comes later than all replies so far, save that a
\* response comes right after its acknowledgement.
LEMMA NewReply ==
  ASSUME DoipTypes, NEW c \in Connections, c = conn, Ordered(c), sent'[c] = sent[c],
         NEW kind \in Replies, NEW n \in 1..MaxSent, Send(kind, n),
         n \in DOMAIN sent[c], MayAnswer(kind, c, n),
         \A i \in 1..(n - 1) : sent[c][i] \in Answerable => Answered(c, i),
         \/ /\ kind # "response"
            /\ \A j \in DOMAIN replies[c] : replies[c][j].number < n
         \/ /\ kind = "response"
            /\ Len(replies[c]) # 0 /\ replies[c][Len(replies[c])] = Message("ack", n)
            /\ \A j \in DOMAIN replies[c] : replies[c][j].number <= n
  PROVE  Ordered(c)'
PROOF
  <1>1. PICK l \in Nat :
        /\ l = Len(replies[c]) /\ DOMAIN replies[c] = 1..l /\ DOMAIN replies'[c] = 1..(l + 1)
        /\ \A j \in 1..l : replies'[c][j] = replies[c][j]
        /\ replies'[c][l + 1] = Message(kind, n)
    BY Sending
  <1>2. Answered(c, n)' /\ \A i : Answered(c, i) => Answered(c, i)'
    BY StaysAnswered
  <1>3. Message(kind, n).number = n /\ Message(kind, n).kind = kind /\ n \in Nat
    BY MessageTypes, DoipAssumption
  <1>4. \A a, i : MayAnswer(a, c, i)' <=> MayAnswer(a, c, i)
    BY DEF MayAnswer, ActivatedBefore
  <1>5. ASSUME NEW j \in 1..l PROVE InOrder(c, j)'
    <2>1. InOrder(c, j)
      BY <1>1 DEF Ordered
    <2>2. replies'[c][j] = replies[c][j] /\ \A k \in 1..(j - 1) : replies'[c][k] = replies[c][k]
      BY <1>1
    <2>3. j > 1 => replies'[c][j - 1] = replies[c][j - 1]
      BY <1>1
    <2>4. PICK reply : reply = replies[c][j]
      OBVIOUS
    <2>5. MayAnswer(reply.kind, c, reply.number)'
      BY <1>4, <2>1, <2>4 DEF InOrder
    <2>6. \A i \in 1..reply.number : sent'[c][i] \in Answerable => Answered(c, i)'
      BY <1>2, <2>1, <2>4 DEF InOrder
    <2>7. \A k \in 1..(j - 1) :
            \/ replies[c][k].number < reply.number
            \/ reply.kind = "response" /\ replies[c][k] = Message("ack", reply.number)
      BY <2>1, <2>4, Zenon DEF InOrder
    <2>8. \A k \in 1..(j - 1) :
            \/ replies'[c][k].number < reply.number
            \/ reply.kind = "response" /\ replies'[c][k] = Message("ack", reply.number)
      BY <2>2, <2>7, Zenon
    <2>9. reply.number \in DOMAIN sent'[c]
      BY <2>1, <2>4 DEF InOrder
    <2>10. reply.kind = "response" => j > 1 /\ replies'[c][j - 1] = Message("ack", reply.number)
      <3>1. reply.kind = "response" => j > 1 /\ replies[c][j - 1] = Message("ack", reply.number)
        BY <2>1, <2>4, Zenon DEF InOrder
      <3> QED
        BY <2>3, <3>1, Zenon
    <2>11. replies'[c][j] = reply
      BY <2>2, <2>4
    <2> QED
      BY <2>5, <2>6, <2>8, <2>9, <2>10, <2>11, Zenon DEF InOrder
  <1>6. InOrder(c, l + 1)'
    <2>1. replies'[c][l + 1].kind = kind /\ replies'[c][l + 1].number = n /\ n \in DOMAIN sent'[c]
      BY <1>1, <1>3
    <2>2. MayAnswer(kind, c, n)'
      BY <1>4
    <2>3. ASSUME NEW i \in 1..n, sent'[c][i] \in Answerable PROVE Answered(c, i)'
      <3>1. i \in 1..(n - 1) \/ i = n
        BY <1>3
      <3> QED
        BY <1>2, <2>3, <3>1
    <2>4. ASSUME NEW k \in 1..l
          PROVE  \/ replies'[c][k].number < n
                 \/ kind = "response" /\ replies'[c][k] = Message("ack", n)
      <3>1. replies'[c][k] = replies[c][k] /\ k \in DOMAIN replies[c]
        BY <1>1
      <3>2. CASE kind # "response"
        BY <3>1, <3>2
      <3>3. CASE kind = "response"
        <4>1. /\ l # 0 /\ replies[c][l] = Message("ack", n) /\ l \in DOMAIN replies[c]
          BY <1>1, <3>3
        <4>2. InOrder(c, l)
          BY <4>1 DEF Ordered
        <4>3. replies[c][l].kind = "ack" /\ replies[c][l].number = n
          BY <4>1 DEF Message
        <4>4. \A m \in 1..(l - 1) : replies[c][m].number < n
          BY <4>2, <4>3 DEF InOrder
        <4>5. k \in 1..(l - 1) \/ k = l
          BY <1>1
        <4> QED
          BY <3>1, <3>3, <4>1, <4>4, <4>5
      <3> QED
        BY <3>2, <3>3
    <2>5. kind = "response" => l + 1 > 1 /\ replies'[c][l] = Message("ack", n)
      BY <1>1
    <2>6. (l + 1) - 1 = l
      BY <1>1
    <2> QED
      BY <2>1, <2>2, <2>3, <2>4, <2>5, <2>6 DEF InOrder
  <1>7. \A j \in DOMAIN replies'[c] : j \in 1..l \/ j = l + 1
    BY <1>1
  <1> QED
    BY <1>5, <1>6, <1>7 DEF Ordered

-----------------------------------------------------------------------------
(* The steps                                                               *)

OrderInv == ProgressInv /\ AnsweredInOrder

\* An answerable message is handled by the one reply that it may have.
LEMMA HandledByReply ==
  ASSUME DoipTypes, NEW c \in Connections, c = conn, NEW h, h = Handled(c),
         Progress(c), Ordered(c), state[c] = "served", state'[c] = "served",
         Unhandled(c) # <<>>, Unhandled(c)' = Tail(Unhandled(c)), sent'[c] = sent[c],
         NEW kind \in {"activated", "nack", "ack"}, MayAnswer(kind, c, h + 1),
         Send(kind, h + 1)
  PROVE  /\ Progress(c)' /\ Handled(c)' = h + 1 /\ Ordered(c)'
         /\ Len(replies'[c]) # 0 /\ replies'[c][Len(replies'[c])] = Message(kind, h + 1)
PROOF
  <1>1. /\ h \in Nat /\ h + 1 \in DOMAIN sent[c]
        /\ Head(Unhandled(c)).number = h + 1
    BY NextMessage
  <1>2. h + 1 \in 1..MaxSent
    <2>1. Unhandled(c) \in Seq(Messages)
      BY UnhandledTypes
    <2>2. Head(Unhandled(c)) \in Messages
      BY <2>1, Dequeued
    <2> QED
      BY <1>1, <2>2 DEF Messages
  <1>3. kind \in Replies /\ kind # "response"
    BY DEF Replies
  <1>4. PICK n \in 1..MaxSent : n = h + 1
    BY <1>2
  <1>5. Send(kind, n) /\ n \in Nat /\ h = n - 1
    BY <1>1, <1>4
  <1>6. /\ Len(replies[c]) \in Nat /\ Len(replies'[c]) = Len(replies[c]) + 1
        /\ DOMAIN replies[c] = 1..Len(replies[c])
        /\ DOMAIN replies'[c] = 1..(Len(replies[c]) + 1)
        /\ \A j \in DOMAIN replies[c] : replies'[c][j] = replies[c][j]
        /\ replies'[c][Len(replies[c]) + 1] = Message(kind, n)
    BY <1>3, <1>5, Sending
  <1>7. Answered(c, n)' /\ \A i : Answered(c, i) => Answered(c, i)'
    BY <1>3, <1>5, StaysAnswered
  <1>8. \A j \in DOMAIN replies[c] : replies[c][j].number \in Nat /\ replies[c][j].number <= h
    BY ReplyNumbers DEF Progress
  <1>9. Ordered(c)'
    <2>1. \A j \in DOMAIN replies[c] : replies[c][j].number < n
      BY <1>1, <1>4, <1>8
    <2>2. \A i \in 1..(n - 1) : sent[c][i] \in Answerable => Answered(c, i)
      BY <1>5 DEF Progress
    <2>3. MayAnswer(kind, c, n) /\ n \in DOMAIN sent[c]
      BY <1>1, <1>4
    <2> QED
      BY <1>3, <1>5, <2>1, <2>2, <2>3, NewReply
  <1>10. \A j \in DOMAIN replies'[c] : replies'[c][j].number <= h + 1
    <2>1. Message(kind, n).number = n
      BY <1>3, MessageTypes
    <2>2. ASSUME NEW j \in DOMAIN replies'[c]
          PROVE  replies'[c][j].number <= h + 1
      <3>1. j \in DOMAIN replies[c] \/ j = Len(replies[c]) + 1
        BY <1>6
      <3>2. CASE j \in DOMAIN replies[c]
        BY <1>1, <1>6, <1>8, <3>2
      <3>3. CASE j = Len(replies[c]) + 1
        BY <1>4, <1>5, <1>6, <2>1, <3>3
      <3> QED
        BY <3>1, <3>2, <3>3
    <2> QED
      BY <2>2
  <1>11. Progress(c)' /\ Handled(c)' = h + 1
    <2>1. Answered(c, h + 1)'
      BY <1>4, <1>7
    <2> QED
      BY <1>7, <1>10, <2>1, Advancing
  <1> QED
    BY <1>4, <1>6, <1>9, <1>11

\* The thread leaves the connection: no other one is concerned.
LEMMA OrderAfterEnd ==
  ASSUME DoipInv, DoipTypes, OrderInv, conn \in Connections, EndConnection,
         UNCHANGED <<sent, replies>>,
         \A c \in Connections : c # conn => uplink'[c] = uplink[c]
  PROVE  OrderInv'
PROOF
  <1>1. /\ state' = [state EXCEPT ![conn] = "closed"] /\ conn' = 0 /\ pc' = "accept"
        /\ state \in [Connections -> States]
    BY DEF EndConnection, DoipInv, ThreadTypes
  <1>2. state'[conn] = "closed" /\ \A c \in Connections : c # conn => state'[c] = state[c]
    BY <1>1
  <1>3. ASSUME NEW c \in Connections, state'[c] # "closed"
        PROVE  Progress(c)'
    <2>1. c # conn /\ state'[c] = state[c] /\ c # conn'
      BY <1>1, <1>2, <1>3, DoipAssumption
    <2>2. Unhandled(c)' = Unhandled(c)
      BY <2>1 DEF Unhandled
    <2>3. Progress(c)
      BY <1>3, <2>1 DEF OrderInv, ProgressInv
    <2> QED
      BY <2>1, <2>2, <2>3, LeftAlone
  <1>4. AnsweredInOrder'
    BY OrderLeftAlone DEF OrderInv, AnsweredInOrder, Ordered
  <1>5. ThreadFollows'
    BY <1>1 DEF ThreadFollows
  <1> QED
    BY <1>3, <1>4, <1>5 DEF OrderInv, ProgressInv

\* Steps that touch no message: connections may open and close.
LEMMA OrderUntouched ==
  ASSUME OrderInv, UNCHANGED <<conn, activated, parser, answering, uplink, sent, replies>>,
         pc' \in {"receive", "answer"} => pc' = pc,
         \A c \in Connections :
           state'[c] # "closed" => state[c] # "closed" /\ (state'[c] = "served" <=> state[c] = "served")
  PROVE  OrderInv'
PROOF
  <1>1. ASSUME NEW c \in Connections
        PROVE  Unhandled(c)' = Unhandled(c) /\ Handled(c)' = Handled(c)
    BY DEF Unhandled, Handled
  <1>2. ASSUME NEW c \in Connections, state'[c] # "closed"
        PROVE  Progress(c)'
    <2>1. Progress(c) /\ (state'[c] # "served" => state[c] # "served")
      BY <1>2 DEF OrderInv, ProgressInv
    <2> QED
      BY <1>1, <2>1, LeftAlone
  <1>3. AnsweredInOrder'
    BY OrderLeftAlone DEF OrderInv, AnsweredInOrder, Ordered
  <1>4. ThreadFollows'
    <2>1. Handled(conn)' = Handled(conn)
      BY DEF Handled, Unhandled
    <2> QED
      BY <2>1 DEF OrderInv, ProgressInv, ThreadFollows, ActivatedBefore
  <1> QED
    BY <1>2, <1>3, <1>4 DEF OrderInv, ProgressInv

\* A new connection begins with all its messages to be handled.
LEMMA OrderAfterAccept ==
  ASSUME DoipInv, DoipTypes, OrderInv, Accept
  PROVE  OrderInv'
PROOF
  <1>1. PICK c \in Connections :
          state[c] = "backlog" /\ conn' = c /\ state' = [state EXCEPT ![c] = "served"]
    BY DEF Accept
  <1>2. /\ pc = "accept" /\ pc' = "receive" /\ activated' = FALSE /\ parser' = <<>>
        /\ UNCHANGED <<uplink, sent, replies>> /\ state \in [Connections -> States]
    BY DEF Accept, clients, DoipInv, ThreadTypes
  <1>3. conn = 0 /\ \A d \in Connections : d # conn
    BY <1>2, DoipAssumption DEF DoipInv, ThreadTypes, ConnectionsOwned
  <1>4. state'[c] = "served" /\ \A d \in Connections : d # c => state'[d] = state[d]
    BY <1>1, <1>2
  <1>5. ASSUME NEW d \in Connections
        PROVE  Unhandled(d)' = Unhandled(d)
    <2>1. Unhandled(d) = uplink[d]
      BY <1>3 DEF Unhandled
    <2>2. CASE d # c
      BY <1>1, <1>2, <2>1, <2>2 DEF Unhandled
    <2>3. CASE d = c
      <3>1. PICK u : u = uplink[d]
        OBVIOUS
      <3>2. u \in Seq(Messages)
        BY <3>1 DEF DoipTypes, ClientTypes
      <3>3. <<>> \o u = u
        BY <3>2, ConcatEmptySeq
      <3>4. Unhandled(d)' = <<>> \o u
        BY <1>1, <1>2, <2>3, <3>1 DEF Unhandled
      <3> QED
        BY <2>1, <3>1, <3>3, <3>4
    <2> QED
      BY <2>2, <2>3
  <1>6. ASSUME NEW d \in Connections, state'[d] # "closed"
        PROVE  Progress(d)' /\ Handled(d)' = Handled(d)
    <2>1. Progress(d)
      BY <1>1, <1>4, <1>6 DEF OrderInv, ProgressInv
    <2>2. state'[d] # "served" => state[d] # "served"
      BY <1>1, <1>4
    <2> QED
      BY <1>2, <1>5, <2>1, <2>2, LeftAlone
  <1>7. AnsweredInOrder'
    BY <1>2, OrderLeftAlone DEF OrderInv, AnsweredInOrder, Ordered
  <1>8. ThreadFollows'
    <2>1. Handled(c) = 0
      BY <1>1 DEF OrderInv, ProgressInv, Progress
    <2>2. Handled(c)' = 0
      BY <1>4, <1>6, <2>1
    <2>3. ~ActivatedBefore(c, 1)'
      BY DEF ActivatedBefore
    <2>4. ~ActivatedBefore(conn, Handled(conn) + 1)'
      <3>1. (Handled(conn) + 1)' = 1
        BY <1>1, <2>2
      <3> QED
        BY <1>1, <3>1 DEF ActivatedBefore
    <2> QED
      BY <1>2, <2>4 DEF ThreadFollows
  <1> QED
    BY <1>6, <1>7, <1>8 DEF OrderInv, ProgressInv

\* One message of the connection is handled, whatever was received of the others.
LEMMA OrderAfterReceive ==
  ASSUME DoipInv, DoipTypes, OrderInv, Receive
  PROVE  OrderInv'
PROOF
  <1>c. PICK c \in Connections : c = conn
    BY Receiving
  <1>1. PICK h, message : c = conn /\ h = Handled(c) /\ message = Head(Unhandled(c))
    BY <1>c
  <1>2. /\ pc = "receive" /\ Unhandled(c) # <<>> /\ HandleMessage(message)
        /\ \A d \in Connections : d # c => uplink'[d] = uplink[d]
        /\ parser' \o uplink'[c] = Tail(Unhandled(c))
        /\ UNCHANGED <<gone, sent>>
    BY <1>1, Receiving
  <1>3. /\ state[c] = "served" /\ Progress(c) /\ Ordered(c)
        /\ (activated <=> ActivatedBefore(c, h + 1))
    BY <1>1, <1>2
    DEF DoipInv, ConnectionsOwned, OrderInv, ProgressInv, AnsweredInOrder, Ordered, ThreadFollows
  <1>4. /\ h \in Nat /\ h + 1 \in DOMAIN sent[c]
        /\ message.kind = sent[c][h + 1] /\ message.number = h + 1
    BY <1>1, <1>2, <1>3, NextMessage
  <1>5. CASE EndConnection
    <2>1. UNCHANGED replies
      BY <1>5, <1>2
      DEF HandleMessage, Activate, Nack, Ack, Ignore, Reject, EndConnection
    <2> QED
      BY <1>1, <1>2, <1>5, <2>1, OrderAfterEnd
  <1>6. CASE ~EndConnection
    <2>1. UNCHANGED <<conn, state>> /\ pc' \in {"receive", "answer"}
      BY <1>2, <1>6, MessageHandled
    <2>2. Unhandled(c)' = Tail(Unhandled(c)) /\ state'[c] = "served"
      BY <1>1, <1>2, <1>3, <2>1 DEF Unhandled
    <2>3. ASSUME NEW d \in Connections, d # c, state'[d] # "closed"
          PROVE  replies'[d] = replies[d] => Progress(d)'
      <3>1. Unhandled(d)' = Unhandled(d)
        BY <1>1, <1>2, <2>1, <2>3 DEF Unhandled
      <3>2. Progress(d) /\ state'[d] = state[d]
        BY <2>1, <2>3 DEF OrderInv, ProgressInv
      <3> QED
        BY <1>2, <3>1, <3>2, LeftAlone
    <2>4. ASSUME Progress(c)', Handled(c)' = h + 1, Ordered(c)',
                 \A d \in Connections : d # c => replies'[d] = replies[d],
                 activated' <=> ActivatedBefore(c, h + 2),
                 pc' = "answer" =>
                   /\ answering' = h + 1
                   /\ Len(replies'[c]) # 0 /\ replies'[c][Len(replies'[c])] = Message("ack", h + 1)
          PROVE  OrderInv'
      <3>1. \A d \in Connections : state'[d] # "closed" => Progress(d)'
        BY <2>3, <2>4
      <3>2. AnsweredInOrder'
        <4>1. ASSUME NEW d \in Connections PROVE Ordered(d)'
          <5>1. CASE d = c
            BY <2>4, <5>1
          <5>2. CASE d # c
            BY <1>2, <2>4, <5>2, OrderLeftAlone DEF OrderInv, AnsweredInOrder, Ordered
          <5> QED
            BY <5>1, <5>2
        <4> QED
          BY <4>1 DEF AnsweredInOrder, Ordered
      <3>3. ThreadFollows'
        <4>1. Handled(conn)' = h + 1 /\ (Handled(conn) + 1)' = h + 2 /\ conn' = c
          BY <1>1, <1>4, <2>1, <2>4
        <4>2. ActivatedBefore(conn, Handled(conn) + 1)' <=> ActivatedBefore(c, h + 2)
          BY <1>2, <4>1 DEF ActivatedBefore
        <4>3. pc' = "answer" =>
                /\ answering' = Handled(conn)' /\ answering' # 0
                /\ Len(replies'[conn']) # 0
                /\ replies'[conn'][Len(replies'[conn'])] = Message("ack", answering')
          BY <1>4, <2>4, <4>1
        <4> QED
          BY <2>4, <4>2, <4>3, Zenon DEF ThreadFollows
      <3> QED
        BY <3>1, <3>2, <3>3 DEF OrderInv, ProgressInv
    <2>5. ActivatedBefore(c, h + 2) <=> ActivatedBefore(c, h + 1) \/ sent[c][h + 1] = "activate"
      <3>1. h + 1 \in Nat /\ h + 1 # 0 /\ (h + 1) + 1 = h + 2
        BY <1>4
      <3> QED
        BY <3>1, ActivatedNext
    <2>6. ASSUME NEW kind \in {"activated", "nack", "ack"}, Send(kind, h + 1),
                 MayAnswer(kind, c, h + 1)
          PROVE  /\ Progress(c)' /\ Handled(c)' = h + 1 /\ Ordered(c)'
                 /\ Len(replies'[c]) # 0 /\ replies'[c][Len(replies'[c])] = Message(kind, h + 1)
                 /\ \A d \in Connections : d # c => replies'[d] = replies[d]
      <3>1. /\ Progress(c)' /\ Handled(c)' = h + 1 /\ Ordered(c)'
            /\ Len(replies'[c]) # 0 /\ replies'[c][Len(replies'[c])] = Message(kind, h + 1)
        BY <1>1, <1>2, <1>3, <2>2, <2>6, HandledByReply
      <3>2. \A d \in Connections : d # c => replies'[d] = replies[d]
        <4>1. replies \in [Connections -> Seq(RepliesSent)]
          BY DEF DoipTypes, ClientTypes
        <4>2. replies' = [replies EXCEPT ![c] = Append(replies[c], Message(kind, h + 1))]
          BY <1>1, <2>6 DEF Send
        <4> QED
          BY <4>1, <4>2
      <3> QED
        BY <3>1, <3>2
    <2>7. CASE Activate(message)
      <3>1. /\ Send("activated", h + 1) /\ activated' = TRUE /\ pc' # "answer"
            /\ sent[c][h + 1] = "activate"
        BY <1>2, <1>4, <1>6, <2>7 DEF Activate
      <3>2. MayAnswer("activated", c, h + 1)
        BY <3>1 DEF MayAnswer
      <3> QED
        BY <2>4, <2>5, <2>6, <3>1, <3>2
    <2>8. CASE Nack(message)
      <3>1. /\ Send("nack", h + 1) /\ activated' = activated /\ ~activated /\ pc' # "answer"
            /\ sent[c][h + 1] = "request"
        BY <1>2, <1>4, <1>6, <2>8 DEF Nack
      <3>2. MayAnswer("nack", c, h + 1)
        BY <1>3, <3>1 DEF MayAnswer
      <3> QED
        BY <1>3, <2>4, <2>5, <2>6, <3>1, <3>2
    <2>9. CASE Ack(message)
      <3>1. /\ Send("ack", h + 1) /\ activated' = activated /\ activated
            /\ answering' = h + 1 /\ sent[c][h + 1] = "request"
        BY <1>2, <1>4, <1>6, <2>9 DEF Ack
      <3>2. MayAnswer("ack", c, h + 1)
        BY <1>3, <3>1 DEF MayAnswer
      <3> QED
        BY <1>3, <2>4, <2>5, <2>6, <3>1, <3>2
    <2>10. CASE Ignore(message)
      <3>1. UNCHANGED <<activated, replies>> /\ pc' # "answer" /\ sent[c][h + 1] = "other"
        BY <1>2, <1>4, <2>10 DEF Ignore
      <3>2. \A i : Answered(c, i) => Answered(c, i)'
        BY <3>1 DEF Answered
      <3>3. \A j \in DOMAIN replies'[c] : replies'[c][j].number <= h + 1
        BY <1>1, <1>3, <1>4, <3>1, ReplyNumbers DEF Progress
      <3>4. sent[c][h + 1] \notin Answerable
        BY <3>1 DEF Answerable
      <3>5. Progress(c)' /\ Handled(c)' = h + 1
        BY <1>1, <1>2, <1>3, <2>2, <3>2, <3>3, <3>4, Advancing
      <3>6. Ordered(c)'
        BY <1>2, <1>3, <3>1, OrderLeftAlone
      <3> QED
        BY <1>3, <2>4, <2>5, <3>1, <3>5, <3>6
    <2> QED
      BY <1>2, <1>6, <2>7, <2>8, <2>9, <2>10 DEF HandleMessage, Reject
  <1> QED
    BY <1>5, <1>6

\* The response to the last acknowledged request is sent, or is withheld.
LEMMA OrderAfterAnswer ==
  ASSUME DoipInv, DoipTypes, OrderInv, Answer
  PROVE  OrderInv'
PROOF
  <1>1. /\ pc = "answer" /\ pc' = "receive"
        /\ UNCHANGED <<conn, activated, parser, state, uplink, sent>>
        /\ conn \in Connections
    BY DEF Answer, clients, DoipInv, ThreadTypes, ConnectionsOwned
  <1>c. PICK c \in Connections : c = conn
    BY <1>1
  <1>2. PICK n : c = conn /\ n = answering
    BY <1>c
  <1>3. /\ Progress(c) /\ Ordered(c) /\ state[c] = "served"
        /\ n = Handled(c) /\ n \in 1..MaxSent
        /\ Len(replies[c]) # 0 /\ replies[c][Len(replies[c])] = Message("ack", n)
    <2>1. n \in 0..MaxSent /\ n # 0
      BY <1>1, <1>2 DEF DoipTypes, ParserTypes, AnsweringKnown
    <2> QED
      BY <1>1, <1>2, <2>1, DoipAssumption
      DEF DoipInv, ConnectionsOwned, OrderInv, ProgressInv, AnsweredInOrder, Ordered, ThreadFollows
  <1>4. ASSUME NEW d \in Connections
        PROVE  Unhandled(d)' = Unhandled(d) /\ Handled(d)' = Handled(d)
    BY <1>1 DEF Unhandled, Handled
  <1>5. ThreadFollows'
    <2>1. Handled(conn)' = Handled(conn)
      BY <1>1 DEF Handled, Unhandled
    <2> QED
      BY <1>1, <2>1 DEF OrderInv, ProgressInv, ThreadFollows, ActivatedBefore
  <1>6. ASSUME NEW d \in Connections, replies'[d] = replies[d]
        PROVE  Ordered(d)' /\ (state'[d] # "closed" => Progress(d)')
    <2>1. Ordered(d) /\ (state[d] # "closed" => Progress(d))
      BY DEF OrderInv, ProgressInv, AnsweredInOrder, Ordered
    <2> QED
      BY <1>1, <1>4, <1>6, <2>1, LeftAlone, OrderLeftAlone
  <1>7. CASE UNCHANGED replies
    BY <1>5, <1>6, <1>7 DEF OrderInv, ProgressInv, AnsweredInOrder, Ordered
  <1>8. CASE Send("response", n)
    <2>1. "response" \in Replies
      BY DEF Replies
    <2>2. /\ \A d \in Connections : d # c => replies'[d] = replies[d]
          /\ Len(replies[c]) \in Nat
          /\ DOMAIN replies[c] = 1..Len(replies[c])
          /\ DOMAIN replies'[c] = 1..(Len(replies[c]) + 1)
          /\ \A j \in DOMAIN replies[c] : replies'[c][j] = replies[c][j]
          /\ replies'[c][Len(replies[c]) + 1] = Message("response", n)
      BY <1>2, <1>3, <1>8, <2>1, Sending
    <2>3. Message("response", n).number = n /\ Message("ack", n).number = n
          /\ Message("ack", n).kind = "ack" /\ n \in Nat
      BY <1>3, DoipAssumption DEF Message
    <2>4. \A j \in DOMAIN replies[c] : replies[c][j].number <= n
      BY <1>3 DEF Progress
    <2>5. n \in DOMAIN sent[c] /\ MayAnswer("response", c, n)
      <3>1. Len(replies[c]) \in DOMAIN replies[c]
        BY <1>3, <2>2
      <3>2. InOrder(c, Len(replies[c]))
        BY <1>3, <3>1 DEF Ordered
      <3>3. n \in DOMAIN sent[c] /\ MayAnswer("ack", c, n)
        BY <1>3, <2>3, <3>2 DEF InOrder
      <3> QED
        BY <3>3 DEF MayAnswer
    <2>6. \A i \in 1..(n - 1) : sent[c][i] \in Answerable => Answered(c, i)
      BY <1>3, <2>3 DEF Progress
    <2>7. Ordered(c)'
      BY <1>1, <1>2, <1>3, <1>8, <2>1, <2>4, <2>5, <2>6, NewReply
    <2>8. \A i : Answered(c, i) => Answered(c, i)'
      BY <1>2, <1>3, <1>8, <2>1, StaysAnswered
    <2>9. ASSUME NEW j \in DOMAIN replies'[c]
          PROVE  replies'[c][j].number <= n
      <3>1. j \in DOMAIN replies[c] \/ j = Len(replies[c]) + 1
        BY <2>2
      <3> QED
        BY <2>2, <2>3, <2>4, <3>1
    <2>10. Progress(c)'
      <3>1. Handled(c)' = n /\ Unhandled(c)' = Unhandled(c) /\ sent' = sent /\ state' = state
        BY <1>1, <1>3, <1>4
      <3>2. \A i \in 1..n : sent[c][i] \in Answerable => Answered(c, i)'
        BY <1>3, <2>8 DEF Progress
      <3>3. \A i \in 1..Len(Unhandled(c)) :
              Unhandled(c)[i] = Message(sent[c][n + i], n + i)
        BY <1>3 DEF Progress
      <3>4. n >= 0
        BY <2>3
      <3> QED
        BY <1>3, <2>9, <3>1, <3>2, <3>3, <3>4 DEF Progress
    <2>11. ASSUME NEW d \in Connections
           PROVE  Ordered(d)' /\ (state'[d] # "closed" => Progress(d)')
      <3>1. CASE d = c
        BY <2>7, <2>10, <3>1
      <3>2. CASE d # c
        BY <1>6, <2>2, <3>2
      <3> QED
        BY <3>1, <3>2
    <2> QED
      BY <1>5, <2>11 DEF OrderInv, ProgressInv, AnsweredInOrder, Ordered
  <1> QED
    BY <1>2, <1>7, <1>8 DEF Answer

\* A message more is one more to be handled, behind all others.
LEMMA OneMoreUnhandled ==
  ASSUME DoipTypes, NEW c \in Connections, NEW message \in Messages,
         uplink'[c] = Append(uplink[c], message), UNCHANGED <<conn, parser>>
  PROVE  Unhandled(c)' = Append(Unhandled(c), message)
PROOF
  <1>1. PICK p, u, last : p = parser /\ u = uplink[c] /\ last = <<message>>
    OBVIOUS
  <1>2. p \in Seq(Messages) /\ u \in Seq(Messages) /\ last \in Seq(Messages)
    BY <1>1 DEF DoipTypes, ParserTypes, ClientTypes
  <1>3. Append(u, message) = u \o last
    BY <1>1, <1>2, AppendIsConcat
  <1>4. CASE c # conn
    BY <1>4 DEF Unhandled
  <1>5. CASE c = conn
    <2>1. PICK both : both = p \o u
      OBVIOUS
    <2>2. both \in Seq(Messages)
      BY <1>2, <2>1, ConcatProperties
    <2>3. Append(both, message) = both \o last
      BY <1>1, <2>2, AppendIsConcat
    <2>4. (p \o u) \o last = p \o (u \o last)
      BY <1>2, Rejoined
    <2>5. Unhandled(c) = both /\ Unhandled(c)' = p \o (u \o last)
      BY <1>1, <1>3, <1>5, <2>1 DEF Unhandled
    <2> QED
      BY <2>1, <2>3, <2>4, <2>5
  <1> QED
    BY <1>4, <1>5

\* Neither what is handled nor what was answered changes when a client sends more.
LEMMA OrderAfterSending ==
  ASSUME DoipInv, DoipTypes, OrderInv, NEW c \in Connections, SendMessage(c)
  PROVE  OrderInv'
PROOF
  <1>1. /\ UNCHANGED <<conn, pc, activated, parser, answering, state, replies>>
        /\ state[c] # "closed"
    BY DEF SendMessage, Connected, thread
  <1>2. PICK l \in Nat, message \in Messages :
          /\ l = Len(sent[c]) /\ Len(sent'[c]) = l + 1
          /\ \A i \in 1..l : sent'[c][i] = sent[c][i]
          /\ message = Message(sent'[c][l + 1], l + 1)
          /\ uplink'[c] = Append(uplink[c], message)
    BY Transmitting
  <1>3. /\ \A d \in Connections : d # c => uplink'[d] = uplink[d] /\ sent'[d] = sent[d]
        /\ DOMAIN sent[c] = 1..l /\ DOMAIN sent'[c] = 1..(l + 1)
    <2>1. sent[c] \in Seq(Kinds) /\ sent'[c] \in Seq(Kinds)
      BY Transmitting DEF DoipTypes, ClientTypes
    <2> QED
      BY <1>2, <2>1, Transmitting, LenProperties
  <1>4. PICK h, m : h = Handled(c) /\ m = Len(Unhandled(c))
    OBVIOUS
  <1>5. Unhandled(c) \in Seq(Messages) /\ m \in Nat /\ h = l - m
    BY <1>2, <1>4, UnhandledTypes DEF Handled
  <1>6. Unhandled(c)' = Append(Unhandled(c), message)
    BY <1>1, <1>2, OneMoreUnhandled
  <1>7. /\ Len(Unhandled(c)') = m + 1 /\ Unhandled(c)'[m + 1] = message
        /\ \A i \in 1..m : Unhandled(c)'[i] = Unhandled(c)[i]
    BY <1>4, <1>5, <1>6, AppendProperties
  <1>8. Handled(c)' = h
    BY <1>2, <1>5, <1>7 DEF Handled
  <1>9. Progress(c)
    BY <1>1 DEF OrderInv, ProgressInv
  <1>10. h \in Nat
    BY <1>4, <1>5, <1>9 DEF Progress
  <1>11. \A i : Answered(c, i)' <=> Answered(c, i)
    BY <1>1 DEF Answered
  <1>12. Progress(c)'
    <2>1. ASSUME NEW i \in 1..(m + 1)
          PROVE  Unhandled(c)'[i] = Message(sent'[c][h + i], h + i)
      <3>1. CASE i \in 1..m
        <4>1. Unhandled(c)'[i] = Message(sent[c][h + i], h + i)
          BY <1>4, <1>7, <1>9, <3>1 DEF Progress
        <4>2. h + i \in 1..l
          BY <1>5, <1>10, <3>1
        <4> QED
          BY <1>2, <4>1, <4>2
      <3>2. CASE i = m + 1
        <4>1. h + i = l + 1
          BY <1>5, <3>2
        <4> QED
          BY <1>2, <1>7, <3>2, <4>1
      <3> QED
        BY <1>5, <3>1, <3>2
    <2>2. ASSUME NEW i \in 1..h, sent'[c][i] \in Answerable
          PROVE  Answered(c, i)'
      <3>1. i \in 1..l
        BY <1>5, <1>10
      <3>2. sent[c][i] \in Answerable
        BY <1>2, <2>2, <3>1
      <3>3. Answered(c, i)
        BY <1>4, <1>9, <3>2 DEF Progress
      <3> QED
        BY <1>11, <3>3
    <2>3. /\ h >= 0 /\ (state'[c] # "served" => h = 0)
          /\ \A j \in DOMAIN replies'[c] : replies'[c][j].number <= h
      BY <1>1, <1>4, <1>9 DEF Progress
    <2> QED
      BY <1>7, <1>8, <2>1, <2>2, <2>3 DEF Progress
  <1>13. ASSUME NEW d \in Connections, d # c
         PROVE  /\ Unhandled(d)' = Unhandled(d) /\ Handled(d)' = Handled(d)
                /\ Ordered(d)' /\ (state'[d] # "closed" => Progress(d)')
    <2>1. Unhandled(d)' = Unhandled(d) /\ Handled(d)' = Handled(d)
      BY <1>1, <1>3, <1>13 DEF Unhandled, Handled
    <2>2. Ordered(d) /\ (state[d] # "closed" => Progress(d))
      BY DEF OrderInv, ProgressInv, AnsweredInOrder, Ordered
    <2> QED
      BY <1>1, <1>3, <1>13, <2>1, <2>2, LeftAlone, OrderLeftAlone
  <1>14. \A i \in 1..(l + 1) : ActivatedBefore(c, i)' <=> ActivatedBefore(c, i)
    <2>1. Len(sent[c]) \in Nat /\ \A i \in 1..Len(sent[c]) : sent'[c][i] = sent[c][i]
      BY <1>2
    <2> QED
      BY <1>2, <2>1, ActivatedEarlier
  <1>15. ASSUME NEW j \in DOMAIN replies[c]
         PROVE  InOrder(c, j)'
    <2>1. PICK reply : reply = replies[c][j]
      OBVIOUS
    <2>2. InOrder(c, j) /\ reply.number \in Nat
      BY <2>1, ReplyNumbers DEF OrderInv, AnsweredInOrder
    <2>3. reply.number \in 1..l
      BY <1>3, <2>1, <2>2 DEF InOrder
    <2>4. reply.number \in DOMAIN sent'[c] /\ sent'[c][reply.number] = sent[c][reply.number]
      BY <1>2, <1>3, <2>3
    <2>5. MayAnswer(reply.kind, c, reply.number)'
      <3>1. MayAnswer(reply.kind, c, reply.number)
        BY <2>1, <2>2 DEF InOrder
      <3>2. ActivatedBefore(c, reply.number)' <=> ActivatedBefore(c, reply.number)
        BY <1>14, <2>3
      <3> QED
        BY <2>4, <3>1, <3>2 DEF MayAnswer
    <2>6. ASSUME NEW i \in 1..reply.number, sent'[c][i] \in Answerable
          PROVE  Answered(c, i)'
      <3>1. i \in 1..l
        BY <2>3
      <3>2. sent[c][i] \in Answerable
        BY <1>2, <2>6, <3>1
      <3> QED
        BY <1>11, <2>1, <2>2, <3>2 DEF InOrder
    <2>7. /\ \A k \in 1..(j - 1) :
               \/ replies[c][k].number < reply.number
               \/ reply.kind = "response" /\ replies[c][k] = Message("ack", reply.number)
          /\ reply.kind = "response" => j > 1 /\ replies[c][j - 1] = Message("ack", reply.number)
      BY <2>1, <2>2, Zenon DEF InOrder
    <2>8. replies' = replies
      BY <1>1
    <2> QED
      BY <2>1, <2>4, <2>5, <2>6, <2>7, <2>8, Zenon DEF InOrder
  <1>16. AnsweredInOrder'
    <2>1. Ordered(c)'
      BY <1>1, <1>15 DEF Ordered
    <2>2. ASSUME NEW d \in Connections PROVE Ordered(d)'
      <3>1. CASE d = c
        BY <2>1, <3>1
      <3>2. CASE d # c
        BY <1>13, <3>2
      <3> QED
        BY <3>1, <3>2
    <2> QED
      BY <2>2 DEF AnsweredInOrder, Ordered
  <1>17. ThreadFollows'
    <2>1. CASE pc \notin {"receive", "answer"}
      BY <1>1, <2>1 DEF ThreadFollows
    <2>2. CASE pc \in {"receive", "answer"}
      <3>1. conn \in Connections
        BY <2>2 DEF DoipInv, ThreadTypes, ConnectionsOwned
      <3>2. PICK g : g = Handled(conn)
        OBVIOUS
      <3>3. Handled(conn)' = g
        <4>1. CASE conn = c
          BY <1>1, <1>4, <1>8, <3>2, <4>1 DEF Handled, Unhandled
        <4>2. CASE conn # c
          BY <1>1, <1>3, <3>1, <3>2, <4>2 DEF Handled, Unhandled
        <4> QED
          BY <4>1, <4>2
      <3>4. ActivatedBefore(conn, g + 1)' <=> ActivatedBefore(conn, g + 1)
        <4>1. CASE conn = c
          <5>1. g = h
            BY <1>4, <3>2, <4>1
          <5>2. g + 1 \in 1..(l + 1)
            BY <1>5, <1>10, <5>1
          <5> QED
            BY <1>1, <1>14, <4>1, <5>2 DEF ActivatedBefore
        <4>2. CASE conn # c
          BY <1>1, <1>3, <3>1, <4>2 DEF ActivatedBefore
        <4> QED
          BY <4>1, <4>2
      <3>5. ThreadFollows
        BY DEF OrderInv, ProgressInv
      <3>6. ActivatedBefore(conn, Handled(conn) + 1)' <=> ActivatedBefore(conn, g + 1)'
        BY <3>3 DEF ActivatedBefore
      <3> QED
        BY <1>1, <3>2, <3>3, <3>4, <3>5, <3>6 DEF ThreadFollows
    <2> QED
      BY <2>1, <2>2
  <1> QED
    <2>1. ASSUME NEW d \in Connections, state'[d] # "closed" PROVE Progress(d)'
      <3>1. CASE d = c
        BY <1>12, <3>1
      <3>2. CASE d # c
        BY <1>13, <2>1, <3>2
      <3> QED
        BY <3>1, <3>2
    <2> QED
      BY <1>16, <1>17, <2>1 DEF OrderInv, ProgressInv

LEMMA OrderInit == Init => OrderInv
PROOF
  <1> SUFFICES ASSUME Init PROVE OrderInv
    OBVIOUS
  <1>1. ASSUME NEW c \in Connections
        PROVE  Progress(c) /\ DOMAIN replies[c] = {}
    <2>1. uplink[c] = <<>> /\ sent[c] = <<>> /\ replies[c] = <<>> /\ c # conn
      BY DoipAssumption DEF Init
    <2>2. Len(<<>>) = 0 /\ DOMAIN <<>> = {}
      BY EmptySeq
    <2>3. Unhandled(c) = <<>> /\ Handled(c) = 0
      BY <2>1, <2>2 DEF Unhandled, Handled
    <2> QED
      BY <2>1, <2>2, <2>3 DEF Progress
  <1>2. AnsweredInOrder
    BY <1>1 DEF AnsweredInOrder
  <1>3. ThreadFollows
    BY DEF Init, ThreadFollows
  <1> QED
    BY <1>1, <1>2, <1>3 DEF OrderInv, ProgressInv

LEMMA OrderStep ==
  ASSUME DoipInv, DoipTypes, OrderInv, [Next]_vars
  PROVE  OrderInv'
PROOF
  <1>1. CASE Accept
    BY <1>1, OrderAfterAccept
  <1>2. CASE Receive
    BY <1>2, OrderAfterReceive
  <1>3. CASE Answer
    BY <1>3, OrderAfterAnswer
  <1>4. CASE LeaveOnStop \/ LeaveOnEnd \/ AnswerFails
    <2>1. /\ EndConnection /\ UNCHANGED <<sent, replies, uplink>> /\ conn \in Connections
      BY <1>4
      DEF LeaveOnStop, LeaveOnEnd, AnswerFails, clients, DoipInv, ThreadTypes, ConnectionsOwned
    <2> QED
      BY <2>1, OrderAfterEnd
  <1>5. ASSUME NEW c \in Connections, SendMessage(c) PROVE OrderInv'
    BY <1>5, OrderAfterSending
  <1>6. CASE UNCHANGED vars \/ Caller \/ Bind \/ \E c \in Connections : Disconnect(c)
    <2>1. /\ UNCHANGED <<conn, activated, parser, answering, uplink, sent, replies, state>>
          /\ pc' \in {"receive", "answer"} => pc' = pc
      BY <1>6
      DEF vars, thread, clients, Caller, CallStart, StartReturns, StartRaises, CallStop,
          StopReturns, Bind, Disconnect
    <2> QED
      BY <2>1, OrderUntouched
  <1>7. CASE CloseServer \/ AcceptFails
    <2>1. /\ UNCHANGED <<conn, activated, parser, answering, uplink, sent, replies>>
          /\ pc' = "ended"
          /\ \A c \in Connections :
               state'[c] # "closed" => state[c] # "closed" /\ state'[c] = state[c]
      BY <1>7 DEF CloseServer, AcceptFails, RefuseWaiting, clients
    <2> QED
      BY <2>1, OrderUntouched
  <1>8. ASSUME NEW c \in Connections, Connect(c) PROVE OrderInv'
    <2>1. /\ UNCHANGED <<pc, conn, activated, parser, answering, uplink, sent, replies>>
          /\ state[c] = "new" /\ state' = [state EXCEPT ![c] = "backlog"]
          /\ state \in [Connections -> States]
      BY <1>8 DEF Connect, thread, clients, DoipInv, ThreadTypes
    <2>2. ASSUME NEW d \in Connections, state'[d] # "closed"
          PROVE  state[d] # "closed" /\ (state'[d] = "served" <=> state[d] = "served")
      BY <2>1, <2>2
    <2> QED
      BY <2>1, <2>2, OrderUntouched
  <1> QED
    BY <1>1, <1>2, <1>3, <1>4, <1>5, <1>6, <1>7, <1>8 DEF Next, Serve, Client

\* However the stream is cut into chunks, whenever the clients leave, and whatever
\* is asked before routing is active: every client is answered in the order in
\* which it asked, nothing that should be answered is skipped or answered twice,
\* and a request is acknowledged before its response.
THEOREM RepliesInOrder == Spec => []AnsweredInOrder
PROOF
  <1>1. DoipInv /\ DoipTypes /\ OrderInv /\ [Next]_vars => OrderInv'
    BY OrderStep
  <1>2. OrderInv => AnsweredInOrder
    BY DEF OrderInv
  <1> QED
    BY OrderInit, TypesInvariant, <1>1, <1>2, PTL DEF Spec

=============================================================================
