---------------------------- MODULE DoipResponder ----------------------------
(***************************************************************************)
(* The virtual ECU behind DoIP (diag/virtual_ecu/doip_transport.py,        *)
(* DoIPTransport): one serve thread that accepts TCP connections one at a  *)
(* time, and on each takes messages, activates routing and dispatches      *)
(* diagnostic requests; its caller, who starts and stops it; and the       *)
(* clients that connect.                                                   *)
(*                                                                         *)
(* A message is its kind and its position among those of its connection.   *)
(* TCP may deliver any number of messages at once, or part of one.         *)
(***************************************************************************)
EXTENDS Integers, Sequences

CONSTANTS
  Connections,   \* the connections that clients may make
  Kinds,         \* the kinds of message they send
  Patient,       \* those whose client sends only when its last message was answered
  MaxSent        \* bound on the messages of a connection

\* A routing activation, a diagnostic request, another message that doipclient
\* knows, and bytes that its parser rejects.
AllKinds == {"activate", "request", "other", "garbage"}

ASSUME DoipAssumption ==
  /\ 0 \notin Connections       \* 0 stands for no connection
  /\ Kinds \subseteq AllKinds
  /\ Patient \subseteq Connections
  /\ MaxSent \in Nat

VARIABLES
  caller,          \* the caller is idle, or inside start() or stop()
  stop_requested,  \* the Event _stop_requested is set
  pc,              \* where the serve thread is, or "down" when there is none
  conn,            \* the connection being served, 0 for none
  activated,       \* the local variable of _handle_connection
  parser,          \* what its Parser holds
  answering,       \* the request acknowledged and not yet dispatched, or 0
  state,           \* each connection: new, backlog, served or closed
  gone,            \* the connections that their client closed
  uplink,          \* the messages of each client not yet received to their end
  sent,            \* all it sent, by kind
  replies          \* all it was sent

thread == <<pc, conn, activated, parser, answering>>
clients == <<gone, uplink, sent>>
vars == <<caller, stop_requested, thread, state, clients, replies>>

Message(kind, number) == [kind |-> kind, number |-> number]

Init ==
  /\ caller = "idle" /\ stop_requested = FALSE
  /\ pc = "down" /\ conn = 0 /\ activated = FALSE /\ parser = <<>> /\ answering = 0
  /\ state = [c \in Connections |-> "new"]
  /\ gone = {}
  /\ uplink = [c \in Connections |-> <<>>]
  /\ sent = [c \in Connections |-> <<>>]
  /\ replies = [c \in Connections |-> <<>>]

-----------------------------------------------------------------------------
(* The caller.  The timeouts of its waits are left out: EcuLifecycle has   *)
(* them, for the same code of the CAN responder.                           *)

CallStart ==
  /\ caller = "idle" /\ pc = "down"
  /\ caller' = "start" /\ stop_requested' = FALSE
  /\ pc' = "bind"
  /\ UNCHANGED <<conn, activated, parser, answering, state, clients, replies>>

StartReturns ==
  /\ caller = "start" /\ pc \notin {"bind", "failed"}
  /\ caller' = "idle"
  /\ UNCHANGED <<stop_requested, thread, state, clients, replies>>

StartRaises ==
  /\ caller = "start" /\ pc = "failed"
  /\ caller' = "idle" /\ pc' = "down"
  /\ UNCHANGED <<stop_requested, conn, activated, parser, answering, state, clients, replies>>

CallStop ==
  /\ caller = "idle"
  /\ caller' = "stop" /\ stop_requested' = TRUE
  /\ UNCHANGED <<thread, state, clients, replies>>

\* Mutant of StopReturns: stop() does not join the thread.
StopReturnsAtOnce ==
  /\ caller = "stop"
  /\ caller' = "idle"
  /\ UNCHANGED <<stop_requested, thread, state, clients, replies>>

StopReturns ==
  /\ caller = "stop" /\ pc \in {"down", "ended"}
  /\ caller' = "idle" /\ pc' = "down"
  /\ UNCHANGED <<stop_requested, conn, activated, parser, answering, state, clients, replies>>

Caller == CallStart \/ StartReturns \/ StartRaises \/ CallStop \/ StopReturns

-----------------------------------------------------------------------------
(* The serve thread                                                        *)

Listening == pc \in {"accept", "receive", "answer"}

Bind ==
  /\ pc = "bind"
  /\ pc' \in {"accept", "failed"}
  /\ UNCHANGED <<caller, stop_requested, conn, activated, parser, answering,
                 state, clients, replies>>

\* Mutant of Accept: activated is an attribute of the transport.
AcceptStillActivated ==
  /\ pc = "accept" /\ ~stop_requested
  /\ \E c \in Connections :
       /\ state[c] = "backlog"
       /\ conn' = c
       /\ state' = [state EXCEPT ![c] = "served"]
  /\ parser' = <<>>
  /\ pc' = "receive"
  /\ UNCHANGED <<caller, stop_requested, activated, answering, clients, replies>>

\* A new Parser, and routing is not active.
Accept ==
  /\ pc = "accept" /\ ~stop_requested
  /\ \E c \in Connections :
       /\ state[c] = "backlog"
       /\ conn' = c
       /\ state' = [state EXCEPT ![c] = "served"]
  /\ activated' = FALSE /\ parser' = <<>>
  /\ pc' = "receive"
  /\ UNCHANGED <<caller, stop_requested, answering, clients, replies>>

\* Closing the server socket refuses those who wait to be accepted.
RefuseWaiting ==
  state' = [c \in Connections |-> IF state[c] = "backlog" THEN "closed" ELSE state[c]]

CloseServer ==
  /\ pc = "accept" /\ stop_requested
  /\ pc' = "ended"
  /\ RefuseWaiting
  /\ UNCHANGED <<caller, stop_requested, conn, activated, parser, answering,
                 clients, replies>>

\* Mutant of EndConnection: the socket is closed only after a normal return.
EndConnectionUnclosed ==
  /\ state' = IF pc = "receive" THEN [state EXCEPT ![conn] = "closed"] ELSE state
  /\ conn' = 0 /\ pc' = "accept"
  /\ UNCHANGED <<caller, stop_requested>>

\* The end of _handle_connection, by a return or an exception.
EndConnection ==
  /\ state' = [state EXCEPT ![conn] = "closed"]
  /\ conn' = 0 /\ pc' = "accept"
  /\ UNCHANGED <<caller, stop_requested>>

\* Any other failure of accept() (no file descriptor left, a connection aborted)
\* ends the loop too, and the server is closed although nobody called stop().
AcceptFails ==
  /\ pc = "accept" /\ ~stop_requested
  /\ pc' = "ended"
  /\ RefuseWaiting
  /\ UNCHANGED <<caller, stop_requested, conn, activated, parser, answering,
                 clients, replies>>

Send(kind, number) ==
  replies' = [replies EXCEPT ![conn] = Append(@, Message(kind, number))]

\* Mutant of LeaveOnStop: the connection is served until its client closes it.
LeaveOnStopWhenAlone ==
  /\ pc = "receive" /\ stop_requested /\ conn \in gone
  /\ EndConnection
  /\ UNCHANGED <<activated, parser, answering, clients, replies>>

LeaveOnStop ==
  /\ pc = "receive" /\ stop_requested
  /\ EndConnection
  /\ UNCHANGED <<activated, parser, answering, clients, replies>>

LeaveOnEnd ==
  /\ pc = "receive" /\ ~stop_requested
  /\ uplink[conn] = <<>> /\ conn \in gone
  /\ EndConnection
  /\ UNCHANGED <<activated, parser, answering, clients, replies>>

\* Every sendall may fail: the client has closed its end, or it does not take
\* the bytes within the socket's 0.2 s.
Activate(message) ==
  /\ message.kind = "activate"
  /\ activated' = TRUE
  /\ UNCHANGED answering
  /\ \/ /\ Send("activated", message.number)
        /\ UNCHANGED <<caller, stop_requested, pc, conn, state>>
     \/ EndConnection /\ UNCHANGED replies

\* Mutant of Nack: a request before the activation is dropped.
NackSilently(message) ==
  /\ message.kind = "request" /\ ~activated
  /\ UNCHANGED <<caller, stop_requested, pc, conn, activated, answering, state, replies>>

Nack(message) ==
  /\ message.kind = "request" /\ ~activated
  /\ UNCHANGED <<activated, answering>>
  /\ \/ /\ Send("nack", message.number)
        /\ UNCHANGED <<caller, stop_requested, pc, conn, state>>
     \/ EndConnection /\ UNCHANGED replies

Ack(message) ==
  /\ message.kind = "request" /\ activated
  /\ UNCHANGED activated
  /\ \/ /\ Send("ack", message.number)
        /\ answering' = message.number /\ pc' = "answer"
        /\ UNCHANGED <<caller, stop_requested, conn, state>>
     \/ EndConnection /\ UNCHANGED <<answering, replies>>

Ignore(message) ==
  /\ message.kind = "other"
  /\ UNCHANGED <<caller, stop_requested, pc, conn, activated, answering, state, replies>>

\* The parser raises.
Reject(message) ==
  /\ message.kind = "garbage"
  /\ EndConnection
  /\ UNCHANGED <<activated, answering, replies>>

HandleMessage(message) ==
  \/ Activate(message) \/ Nack(message) \/ Ack(message) \/ Ignore(message) \/ Reject(message)

\* Mutant of Receive: the first bytes of a message are taken for one.
ReceiveUnfinished ==
  /\ pc = "receive" /\ ~stop_requested
  /\ uplink[conn] # <<>>
  /\ parser' = Append(parser, Message("unfinished", 0))
  /\ UNCHANGED <<caller, stop_requested, pc, conn, activated, answering,
                 state, clients, replies>>

\* recv() returns any part of what has arrived: the ends of k messages, and
\* perhaps the first bytes of the next one.  read_message then returns at most ONE
\* message of those the parser holds; the others stay there for the next chunk.
\* A chunk that leaves the parser without a whole message changes nothing.
Receive ==
  /\ pc = "receive" /\ ~stop_requested
  /\ uplink[conn] # <<>>
  /\ \E k \in 0..Len(uplink[conn]) :
       LET held == parser \o SubSeq(uplink[conn], 1, k)
       IN  /\ uplink' = [uplink EXCEPT ![conn] = SubSeq(@, k + 1, Len(@))]
           /\ held # <<>> /\ parser' = Tail(held)
           /\ HandleMessage(Head(held))
  /\ UNCHANGED <<gone, sent>>

\* ProtocolState.handle_request (EcuProtocol) answers, or says to be silent or
\* malformed, which here is silence too.
Answer ==
  /\ pc = "answer"
  /\ answering' = 0 /\ pc' = "receive"
  /\ Send("response", answering) \/ UNCHANGED replies
  /\ UNCHANGED <<caller, stop_requested, conn, activated, parser, state, clients>>

\* handle_request raises, or the response cannot be sent.
AnswerFails ==
  /\ pc = "answer"
  /\ answering' = 0
  /\ EndConnection
  /\ UNCHANGED <<activated, parser, clients, replies>>

Serve ==
  \/ Bind \/ Accept \/ CloseServer \/ LeaveOnStop \/ LeaveOnEnd
  \/ Receive \/ Answer \/ AnswerFails

-----------------------------------------------------------------------------
(* The clients                                                             *)

Connect(c) ==
  /\ Listening /\ state[c] = "new"
  /\ state' = [state EXCEPT ![c] = "backlog"]
  /\ UNCHANGED <<caller, stop_requested, thread, clients, replies>>

Connected(c) == state[c] \in {"backlog", "served"} /\ c \notin gone

Answered(c, i) == \E j \in DOMAIN replies[c] : replies[c][j].number = i

SendMessage(c) ==
  /\ Connected(c) /\ Len(sent[c]) < MaxSent
  /\ c \in Patient => \A i \in DOMAIN sent[c] : Answered(c, i)
  /\ \E kind \in Kinds :
       LET message == Message(kind, Len(sent[c]) + 1)
       IN  /\ sent' = [sent EXCEPT ![c] = Append(@, kind)]
           /\ uplink' = [uplink EXCEPT ![c] = Append(@, message)]
  /\ UNCHANGED <<caller, stop_requested, thread, state, gone, replies>>

Disconnect(c) ==
  /\ Connected(c)
  /\ gone' = gone \cup {c}
  /\ UNCHANGED <<caller, stop_requested, thread, state, uplink, sent, replies>>

Client(c) == Connect(c) \/ SendMessage(c) \/ Disconnect(c)

Next == Caller \/ Serve \/ AcceptFails \/ \E c \in Connections : Client(c)

\* The thread is scheduled and what it waits for times out after 0.2 s; a call
\* that was made goes on.  Clients and calls come as they like, and accept()
\* need never fail.
Spec ==
  /\ Init /\ [][Next]_vars
  /\ WF_vars(Serve)
  /\ WF_vars(StartReturns \/ StartRaises \/ StopReturns)

-----------------------------------------------------------------------------
(* Properties                                                              *)

Replies == {"activated", "nack", "ack", "response"}

TypeOK ==
  /\ caller \in {"idle", "start", "stop"} /\ stop_requested \in BOOLEAN
  /\ pc \in {"down", "bind", "failed", "accept", "receive", "answer", "ended"}
  /\ conn \in Connections \cup {0} /\ activated \in BOOLEAN
  /\ parser \in Seq([kind: Kinds, number: 1..MaxSent])
  /\ answering \in 0..MaxSent
  /\ state \in [Connections -> {"new", "backlog", "served", "closed"}]
  /\ gone \subseteq Connections
  /\ uplink \in [Connections -> Seq([kind: Kinds, number: 1..MaxSent])]
  /\ sent \in [Connections -> Seq(Kinds)]
  /\ replies \in [Connections -> Seq([kind: Replies, number: 1..MaxSent])]

\* What message i of connection c may be answered with.
ActivatedBefore(c, i) == \E j \in 1..(i - 1) : sent[c][j] = "activate"

MayAnswer(kind, c, i) ==
  \/ kind = "activated" /\ sent[c][i] = "activate"
  \/ kind = "nack" /\ sent[c][i] = "request" /\ ~ActivatedBefore(c, i)
  \/ kind \in {"ack", "response"} /\ sent[c][i] = "request" /\ ActivatedBefore(c, i)

Answerable == {"activate", "request"}

\* A client can account for everything it receives: the replies are to its own
\* messages, in their order; up to the last one answered none was skipped or
\* answered twice; and a request is served, acknowledged first, exactly when
\* this connection activated routing before it.
InOrder(c, j) ==
  LET reply == replies[c][j]
  IN  /\ reply.number \in DOMAIN sent[c]
      /\ MayAnswer(reply.kind, c, reply.number)
      /\ \A i \in 1..reply.number : sent[c][i] \in Answerable => Answered(c, i)
      /\ \A k \in 1..(j - 1) :
           \/ replies[c][k].number < reply.number
           \/ reply.kind = "response" /\ replies[c][k] = Message("ack", reply.number)
      /\ reply.kind = "response" =>
           j > 1 /\ replies[c][j - 1] = Message("ack", reply.number)

AnsweredInOrder ==
  \A c \in Connections : \A j \in DOMAIN replies[c] : InOrder(c, j)

\* The connections that are neither new nor closed have someone to serve or
\* refuse them: at most one is served, by a thread that is in it, and none is
\* left when the thread has ended.
ConnectionsOwned ==
  /\ \A c \in Connections : state[c] = "served" <=> c = conn
  /\ conn # 0 <=> pc \in {"receive", "answer"}
  /\ ~Listening => \A c \in Connections : state[c] \in {"new", "closed"}

\* A client that waits for the answer to each activation and request gets it,
\* once it is served and whatever the others do: or the connection ends.
ClientsAnswered ==
  \A c \in Patient : \A i \in 1..MaxSent :
    (state[c] = "served" /\ i \in DOMAIN sent[c] /\ sent[c][i] \in Answerable)
      ~> (Answered(c, i) \/ state[c] = "closed")

\* start() and stop() come back, whatever the clients keep sending.
CallsReturn == caller # "idle" ~> caller = "idle"

\* The contract of start() and stop() is that of the CAN responder, but that
\* this one may break down: by an accept() that fails.
Promise == INSTANCE Responder WITH
  call <- (IF caller = "idle" THEN "none" ELSE caller),
  serving <- Listening,
  broken <- (pc = "ended" /\ caller # "stop"),
  gave_up <- FALSE

KeepsPromise == Promise!Spec
=============================================================================
