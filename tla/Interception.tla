---------------------------- MODULE Interception ----------------------------
(***************************************************************************)
(* The interception point of the diagnostic client (diag/interception.py,  *)
(* InterceptingConnection): every request and response is shown to at most *)
(* one observer process over TCP, which may replace it.  The client's      *)
(* thread and the observers run concurrently; an observer may be slow,     *)
(* hang up, or answer late.                                                *)
(*                                                                         *)
(* A payload is the number of its publication, counted from 1.  The bytes  *)
(* of a reply line count as received with its newline; bytes that arrive   *)
(* before it are all alike.                                                *)
(***************************************************************************)
EXTENDS Integers, Sequences

CONSTANTS
  Observers,    \* connections that observers may make
  Verdicts,     \* the kinds of reply line the observers send
  Trickling,    \* those that may send bytes without ever ending a line
  Chatty,       \* those that may send lines that answer nothing
  MaxPublished, \* bound on the number of publications
  MaxWire       \* bound on the lines under way from one observer

\* A reply line, by what _publish does with it: the payload is replaced;
\* passed through ("observe", or a replacement that is not hexadecimal); the
\* line is not JSON; it is not UTF-8, not a JSON object, or its replacement is
\* not a string, none of which is caught.
AllVerdicts == {"replace", "pass", "not_json", "uncaught"}

\* 0 stands for no observer and for no publication.
ASSUME InterceptionAssumption ==
  /\ 0 \notin Observers
  /\ Verdicts \subseteq AllVerdicts
  /\ Trickling \subseteq Observers /\ Chatty \subseteq Observers
  /\ MaxPublished \in Nat /\ MaxWire \in Nat

VARIABLES
  server,      \* _server is not None
  inner_open,  \* the wrapped connection is open
  client,      \* the observer whose socket is _client, 0 for None
  buffer,      \* the whole lines in _client_buffer
  pc,          \* where the client's thread is in _publish, or "idle"
  socket,      \* our end of each observer's connection
  hung_up,     \* the observers that closed theirs
  wire,        \* the lines sent by each observer and not yet received
  partial,     \* the observers with bytes under way that end no line
  asked,       \* the publication each observer has still to answer, or 0
  shown,       \* the publications sent to each observer
  delivered    \* what became of each publication

connection == <<server, inner_open, client, buffer, pc, delivered>>
network == <<socket, hung_up, wire, partial, asked, shown>>
vars == <<connection, network>>

Line(verdict, about, by) == [verdict |-> verdict, about |-> about, by |-> by]

\* The publication in progress.
Current == Len(delivered) + 1

Delivery(payload, about, by) == [payload |-> payload, about |-> about, by |-> by]
Original == Delivery("original", 0, 0)

Init ==
  /\ server = FALSE /\ inner_open = FALSE
  /\ client = 0 /\ buffer = <<>> /\ pc = "idle"
  /\ delivered = <<>>
  /\ socket = [o \in Observers |-> "none"]
  /\ hung_up = {}
  /\ wire = [o \in Observers |-> <<>>] /\ partial = {}
  /\ asked = [o \in Observers |-> 0]
  /\ shown = [o \in Observers |-> <<>>]

-----------------------------------------------------------------------------
(* Opening and closing                                                     *)

\* udsoncan's client calls open() only while is_open() is false.  The inner
\* connection stays open when the observers' port cannot be bound.
Open ==
  /\ pc = "idle" /\ ~(server /\ inner_open)
  /\ inner_open' = TRUE
  /\ server' \in BOOLEAN
  /\ UNCHANGED <<client, buffer, pc, delivered, network>>

\* Mutants of DropClient: the observer is kept for the next publication, and
\* its socket is forgotten without being closed.
KeepClient == UNCHANGED <<client, buffer, socket, wire, partial>>
ForgetClient == client' = 0 /\ buffer' = <<>> /\ UNCHANGED <<socket, wire, partial>>

\* _drop_client: the socket is closed, and what was under way on it is lost.
DropClient ==
  /\ client' = 0 /\ buffer' = <<>>
  /\ socket' = [o \in Observers |-> IF o = client THEN "closed" ELSE socket[o]]
  /\ wire' = [o \in Observers |-> IF o = client THEN <<>> ELSE wire[o]]
  /\ partial' = partial \ {client}

\* The observers that wait for accept() are refused with the server socket.
Close ==
  /\ pc = "idle"
  /\ server' = FALSE /\ inner_open' = FALSE
  /\ client' = 0 /\ buffer' = <<>>
  /\ socket' = [o \in Observers |-> IF socket[o] = "none" THEN "none" ELSE "closed"]
  /\ wire' = [o \in Observers |-> <<>>] /\ partial' = {}
  /\ UNCHANGED <<pc, delivered, hung_up, asked, shown>>

-----------------------------------------------------------------------------
(* _publish, for a request about to be sent to the inner connection or a   *)
(* response that came from it                                              *)

Publish ==
  /\ pc = "idle" /\ server /\ inner_open
  /\ Len(delivered) < MaxPublished
  /\ pc' = "ensure_client"
  /\ UNCHANGED <<server, inner_open, client, buffer, delivered, network>>

\* _publish ends.
Deliver(delivery) == pc' = "idle" /\ delivered' = Append(delivered, delivery)

Waiting == {o \in Observers : socket[o] = "backlog"}

\* Mutant of EnsureClient: a waiting observer takes the place of the current one.
EnsureNewestClient ==
  /\ pc = "ensure_client"
  /\ UNCHANGED <<server, inner_open, hung_up, wire, partial, asked, shown>>
  /\ \/ /\ \E o \in Waiting :
             /\ client' = o
             /\ socket' = [p \in Observers |->
                            IF p = o THEN "accepted"
                            ELSE IF p = client THEN "closed" ELSE socket[p]]
        /\ pc' = "send"
        /\ UNCHANGED <<buffer, delivered>>
     \/ /\ Waiting = {} /\ client # 0
        /\ pc' = "send"
        /\ UNCHANGED <<client, buffer, socket, delivered>>
     \/ /\ Waiting = {} /\ client = 0
        /\ Deliver(Original)
        /\ UNCHANGED <<client, buffer, socket>>

EnsureClient ==
  /\ pc = "ensure_client"
  /\ UNCHANGED <<server, inner_open, hung_up, wire, partial, asked, shown>>
  /\ \/ /\ client # 0
        /\ pc' = "send"
        /\ UNCHANGED <<client, buffer, socket, delivered>>
     \/ /\ client = 0
        /\ \E o \in Waiting :
             /\ client' = o /\ buffer' = <<>>
             /\ socket' = [socket EXCEPT ![o] = "accepted"]
        /\ pc' = "send"
        /\ UNCHANGED delivered
     \/ /\ client = 0 /\ Waiting = {}
        /\ Deliver(Original)
        /\ UNCHANGED <<client, buffer, socket>>

\* Any OSError, a time-out included: drop the observer and pass through.
PassThrough ==
  /\ DropClient
  /\ Deliver(Original)
  /\ UNCHANGED <<server, inner_open, hung_up, asked, shown>>

SendAll ==
  /\ pc = "send"
  /\ pc' = "read"
  /\ shown' = [shown EXCEPT ![client] = Append(@, Current)]
  /\ asked' = IF client \in hung_up THEN asked ELSE [asked EXCEPT ![client] = Current]
  /\ UNCHANGED <<server, inner_open, client, buffer, delivered, socket, hung_up, wire, partial>>

SendFails == pc = "send" /\ PassThrough

NeedsMore == pc = "read" /\ buffer = <<>>

\* recv() returns some of the lines that have arrived, and the bytes that end
\* none or not: as long as it returns anything, its time-out starts again.
Receive ==
  /\ NeedsMore
  /\ \E k \in 0..Len(wire[client]) :
       /\ buffer' = SubSeq(wire[client], 1, k)
       /\ wire' = [wire EXCEPT ![client] = SubSeq(@, k + 1, Len(@))]
       /\ \/ k > 0 /\ UNCHANGED partial
          \/ client \in partial /\ partial' = partial \ {client}
  /\ UNCHANGED <<server, inner_open, client, pc, delivered, socket, hung_up, asked, shown>>

\* Mutant of ReceiveTimesOut: the observer's socket has no time-out.
ReceiveNeverTimesOut == FALSE /\ UNCHANGED vars

\* Nothing within REPLY_TIMEOUT, counted from the previous chunk.
ReceiveTimesOut ==
  /\ NeedsMore
  /\ wire[client] = <<>> /\ client \notin partial \cup hung_up
  /\ PassThrough

\* The end of the stream, or a reset that discards what was under way.
ReceiveEnds == NeedsMore /\ client \in hung_up /\ PassThrough

\* The first line answers this publication; what follows it stays.
TakeLine ==
  /\ pc = "read" /\ buffer # <<>>
  /\ LET line == Head(buffer)
     IN  \/ /\ line.verdict = "replace"
            /\ Deliver(Delivery("replacement", line.about, line.by))
         \/ /\ line.verdict = "pass"
            /\ Deliver(Original)
         \/ /\ line.verdict = "uncaught"
            /\ Deliver(Delivery("exception", 0, 0))
  /\ buffer' = Tail(buffer)
  /\ UNCHANGED <<server, inner_open, client, network>>

TakeMalformed ==
  /\ pc = "read" /\ buffer # <<>>
  /\ Head(buffer).verdict = "not_json"
  /\ PassThrough

InPublish ==
  \/ EnsureClient \/ SendAll \/ SendFails \/ Receive \/ ReceiveTimesOut \/ ReceiveEnds
  \/ TakeLine \/ TakeMalformed

-----------------------------------------------------------------------------
(* The observers, processes of their own                                   *)

Connect(o) ==
  /\ server /\ socket[o] = "none"
  /\ socket' = [socket EXCEPT ![o] = "backlog"]
  /\ UNCHANGED <<connection, hung_up, wire, partial, asked, shown>>

Talking(o) == socket[o] \in {"backlog", "accepted"} /\ o \notin hung_up

Put(o, line) ==
  /\ Len(wire[o]) < MaxWire
  /\ wire' = [wire EXCEPT ![o] = Append(@, line)]

\* One line for each message, however late.
Reply(o) ==
  /\ Talking(o) /\ asked[o] # 0
  /\ \E verdict \in Verdicts : Put(o, Line(verdict, asked[o], o))
  /\ asked' = [asked EXCEPT ![o] = 0]
  /\ UNCHANGED <<connection, socket, hung_up, partial, shown>>

Trickle(o) ==
  /\ o \in Trickling /\ Talking(o)
  /\ partial' = partial \cup {o}
  /\ UNCHANGED <<connection, socket, hung_up, wire, asked, shown>>

\* Of the lines that answer nothing, the one that could do most harm.
Volunteer(o) ==
  /\ o \in Chatty /\ Talking(o)
  /\ Put(o, Line("replace", 0, o))
  /\ UNCHANGED <<connection, socket, hung_up, partial, asked, shown>>

HangUp(o) ==
  /\ Talking(o)
  /\ hung_up' = hung_up \cup {o}
  /\ UNCHANGED <<connection, socket, wire, partial, asked, shown>>

Observer(o) == Connect(o) \/ Reply(o) \/ Trickle(o) \/ Volunteer(o) \/ HangUp(o)

Next ==
  \/ Open \/ Close \/ Publish \/ InPublish
  \/ \E o \in Observers : Observer(o)

\* The client's thread runs, and recv() keeps to its time-out.
Spec == Init /\ [][Next]_vars /\ WF_vars(InPublish)

-----------------------------------------------------------------------------
(* Properties                                                              *)

\* An observer that sends one line per message can only replace the message
\* it answers: an answer that comes after the time-out, or after the observer
\* was replaced by another, never lands on a later message.
ReplyAnswersItsMessage ==
  \A n \in DOMAIN delivered :
    delivered[n].payload = "replacement" /\ delivered[n].by \notin Chatty
      => delivered[n].about = n

\* Whatever observers send, a message is replaced only by one that it was
\* shown to: nothing an earlier observer left behind is taken for the answer of the
\* next one.
ReplyFromItsReader ==
  \A n \in DOMAIN delivered :
    delivered[n].payload = "replacement" =>
      \E i \in DOMAIN shown[delivered[n].by] : shown[delivered[n].by][i] = n

\* At most one observer is attached, and no socket outlives its use: each one
\* accepted is the current one or closed, and close() leaves none, served or
\* waiting.
SocketsOwned ==
  /\ \A o \in Observers : socket[o] = "accepted" <=> o = client
  /\ buffer # <<>> => client # 0
  /\ ~server /\ ~inner_open =>
       \A o \in Observers : socket[o] \in {"none", "closed"}

\* Every request and response gets past the interception point, unless the
\* attached observer trickles: "an unresponsive observer does not block
\* traffic forever".
PublishEnds == pc # "idle" ~> (pc = "idle" \/ client \in Trickling)

-----------------------------------------------------------------------------
(* A claim of the documentation that the code does not keep.               *)

\* "A misbehaving external process must not become a denial-of-service on the
\* diagnostic session": one that trickles does.
NoObserverBlocks == pc # "idle" ~> pc = "idle"
=============================================================================
