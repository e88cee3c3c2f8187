-------------------------- MODULE EcuProtocolProofs --------------------------
(***************************************************************************)
(* Proofs about EcuProtocol for every scenario, every set of requests and  *)
(* conversations of every length.                                          *)
(***************************************************************************)
EXTENDS EcuProtocol, SequenceTheorems, WellFoundedInduction, TLAPS

-----------------------------------------------------------------------------
(* Which failure injection matching_injection may return, for every list   *)
(* of injections                                                           *)

\* Every nonempty set of naturals has a first element.
LEMMA FirstExists ==
  ASSUME NEW S, S \subseteq Nat, S # {}
  PROVE  \E i \in S : IsFirst(i, S)
PROOF
  <1> DEFINE R == {ss \in Nat \X Nat : ss[1] < ss[2]}
  <1>1. IsWellFoundedOn(OpToRel(<, Nat), Nat)
    BY NatLessThanWellFounded
  <1>2. OpToRel(<, Nat) = R
    BY Zenon DEF OpToRel
  <1>3. IsWellFoundedOn(R, Nat)
    BY <1>1, <1>2, Zenon
  <1> HIDE DEF R
  <1>4. PICK x \in S : \A y \in S : ~(<<y, x>> \in R)
    BY <1>3, WFMin, Zenon
  <1>5. ASSUME NEW j \in S PROVE x <= j
    <2>1. ~(<<j, x>> \in R)
      BY <1>4
    <2>2. j \in Nat /\ x \in Nat
      OBVIOUS
    <2> QED
      BY <2>1, <2>2 DEF R
  <1> QED
    BY <1>5 DEF IsFirst

\* Every nonempty set of positions has a last one: mirror it.
LEMMA LastExists ==
  ASSUME NEW n \in Nat, NEW S, S \subseteq 1..n, S # {}
  PROVE  \E i \in S : IsLast(i, S)
PROOF
  <1> DEFINE Mirror == {n - i : i \in S}
  <1>1. Mirror \subseteq Nat
    OBVIOUS
  <1>2. Mirror # {}
    <2>1. PICK i \in S : TRUE
      OBVIOUS
    <2>2. n - i \in Mirror
      OBVIOUS
    <2> QED
      BY <2>2
  <1>3. PICK m \in Mirror : IsFirst(m, Mirror)
    BY <1>1, <1>2, FirstExists, Zenon
  <1>4. PICK i \in S : m = n - i
    OBVIOUS
  <1>5. ASSUME NEW j \in S PROVE j <= i
    <2>1. m <= n - j
      BY <1>3 DEF IsFirst
    <2>2. i \in 1..n /\ j \in 1..n
      OBVIOUS
    <2> QED
      BY <2>1, <2>2, <1>4
  <1> QED
    BY <1>5 DEF IsLast

\* Every list has a match for every request, possibly "none".
LEMMA MatchExists ==
  ASSUME NEW injections \in Seq(FailureInjection), NEW service_id, NEW selector
  PROVE  \E i \in {0} \cup DOMAIN injections : IsMatch(i, injections, service_id, selector)
PROOF
  <1> DEFINE exact == Matches(injections, service_id, selector)
             wildcard == Matches(injections, service_id, None)
             n == Len(injections)
  <1>1. n \in Nat /\ DOMAIN injections = 1..n
    BY LenProperties
  <1>2. exact \subseteq 1..n /\ wildcard \subseteq 1..n
    BY <1>1 DEF Matches
  <1>3. CASE exact # {}
    <2>1. exact \subseteq Nat
      BY <1>1, <1>2
    <2>2. \E i \in exact : IsFirst(i, exact)
      BY <1>3, <2>1, FirstExists, Zenon
    <2> QED
      BY <1>1, <1>2, <2>2 DEF IsMatch
  <1>4. CASE exact = {} /\ wildcard # {}
    <2>1. \E i \in wildcard : IsLast(i, wildcard)
      BY <1>1, <1>2, <1>4, LastExists, Zenon
    <2> QED
      BY <1>1, <1>2, <1>4, <2>1 DEF IsMatch
  <1>5. CASE exact = {} /\ wildcard = {}
    BY <1>5 DEF IsMatch
  <1> QED
    BY <1>3, <1>4, <1>5

\* matching_injection returns a configured injection of the service whose
\* selector is the request's or the wildcard, or none at all: "an injection
\* for one (service, selector) pair must never fire for a different one"
\* (scenario.py, FailureInjection).
THEOREM InjectionIsScoped ==
  ASSUME NEW service_id, NEW selector
  PROVE  LET injection == matching_injection(service_id, selector)
         IN  \/ injection = NoInjection
             \/ /\ \E i \in DOMAIN FailureInjections : injection = FailureInjections[i]
                /\ injection.service_id = service_id
                /\ injection.selector \in {selector, None}
PROOF
  <1> DEFINE Match(i) == IsMatch(i, FailureInjections, service_id, selector)
             m == CHOOSE i \in {0} \cup DOMAIN FailureInjections : Match(i)
  <1>1. m \in {0} \cup DOMAIN FailureInjections /\ Match(m)
    BY ScenarioAssumption, MatchExists
  <1>2. 0 \notin DOMAIN FailureInjections
    BY ScenarioAssumption, LenProperties
  <1>3. CASE m = 0
    BY <1>3 DEF matching_injection
  <1>4. CASE m \in DOMAIN FailureInjections
    <2>1. matching_injection(service_id, selector) = FailureInjections[m]
      BY <1>2, <1>4 DEF matching_injection
    <2>2. \/ m \in Matches(FailureInjections, service_id, selector)
          \/ m \in Matches(FailureInjections, service_id, None)
      BY <1>1, <1>2, <1>4 DEF IsMatch, IsFirst, IsLast
    <2>3. /\ FailureInjections[m].service_id = service_id
          /\ FailureInjections[m].selector \in {selector, None}
      BY <2>2 DEF Matches
    <2> QED
      BY <1>4, <2>1, <2>3
  <1> QED
    BY <1>1, <1>3, <1>4

\* What matching_injection returns has the fields and types of an injection.
LEMMA InjectionType ==
  ASSUME NEW service_id, NEW selector
  PROVE  matching_injection(service_id, selector) \in FailureInjection \cup {NoInjection}
PROOF
  <1>1. \A i \in DOMAIN FailureInjections : FailureInjections[i] \in FailureInjection
    BY ScenarioAssumption, ElementOfSeq, LenProperties
  <1> DEFINE injection == matching_injection(service_id, selector)
  <1>2. injection = NoInjection \/ \E i \in DOMAIN FailureInjections : injection = FailureInjections[i]
    BY InjectionIsScoped
  <1> QED
    BY <1>1, <1>2

-----------------------------------------------------------------------------
(* Bytes                                                                   *)

LEMMA BytesAt ==
  ASSUME NEW data \in Bytes
  PROVE  /\ Len(data) \in Nat
         /\ \A k \in 1..Len(data) : data[k] \in Byte
         /\ data # <<>> => Len(data) >= 1
BY LenProperties, ElementOfSeq, EmptySeq DEF Bytes, Byte

LEMMA RestIsBytes ==
  ASSUME NEW data \in Bytes, NEW from \in 1..(Len(data) + 1)
  PROVE  Rest(data, from) \in Bytes
PROOF
  <1>1. \A i \in from..Len(data) : data[i] \in Byte
    BY BytesAt
  <1> QED
    BY <1>1, BytesAt, SubSeqProperties DEF Rest, Bytes

LEMMA ShortBytes ==
  /\ \A a \in Byte : <<a>> \in Bytes
  /\ \A a, b \in Byte : <<a, b>> \in Bytes
  /\ \A a, b, c \in Byte : <<a, b, c>> \in Bytes
  /\ <<>> \in Bytes
BY DEF Bytes

LEMMA Concat ==
  ASSUME NEW s \in Bytes, NEW t \in Bytes
  PROVE  /\ s \o t \in Bytes
         /\ Len(s \o t) = Len(s) + Len(t)
         /\ \A i \in 1..Len(s) : (s \o t)[i] = s[i]
         /\ \A i \in 1..Len(t) : (s \o t)[Len(s) + i] = t[i]
PROOF
  <1>1. /\ s \o t \in Bytes
        /\ Len(s \o t) = Len(s) + Len(t)
        /\ \A i \in 1..(Len(s) + Len(t)) :
             (s \o t)[i] = IF i <= Len(s) THEN s[i] ELSE t[i - Len(s)]
    BY ConcatProperties DEF Bytes
  <1> QED
    BY <1>1, BytesAt

LEMMA ConcatHead ==
  /\ \A a \in Byte, v \in Bytes :
       /\ (<<a>> \o v)[1] = a
       /\ Len(<<a>> \o v) >= 1
  /\ \A a, b \in Byte, v \in Bytes :
       /\ (<<a, b>> \o v)[1] = a
       /\ (<<a, b>> \o v)[2] = b
       /\ Len(<<a, b>> \o v) = Len(v) + 2
PROOF
  <1>1. ASSUME NEW a \in Byte, NEW v \in Bytes
        PROVE  (<<a>> \o v)[1] = a /\ Len(<<a>> \o v) >= 1
    <2> DEFINE s == <<a>>
    <2>1. s \in Bytes /\ Len(s) = 1 /\ s[1] = a
      BY ShortBytes
    <2> HIDE DEF s
    <2>2. (s \o v)[1] = a /\ Len(s \o v) >= 1
      <3>1. /\ \A i \in 1..Len(s) : (s \o v)[i] = s[i]
            /\ Len(s \o v) = Len(s) + Len(v)
        BY <2>1, Concat
      <3>2. Len(v) \in Nat
        BY BytesAt
      <3> QED
        BY <2>1, <3>1, <3>2
    <2> QED
      BY <2>2 DEF s
  <1>2. ASSUME NEW a \in Byte, NEW b \in Byte, NEW v \in Bytes
        PROVE  (<<a, b>> \o v)[1] = a /\ (<<a, b>> \o v)[2] = b
                 /\ Len(<<a, b>> \o v) = Len(v) + 2
    <2> DEFINE s == <<a, b>>
    <2>1. s \in Bytes /\ Len(s) = 2 /\ s[1] = a /\ s[2] = b
      BY ShortBytes
    <2> HIDE DEF s
    <2>2. (s \o v)[1] = a /\ (s \o v)[2] = b /\ Len(s \o v) = Len(v) + 2
      <3>1. /\ \A i \in 1..Len(s) : (s \o v)[i] = s[i]
            /\ Len(s \o v) = Len(s) + Len(v)
        BY <2>1, Concat
      <3>2. Len(v) \in Nat
        BY BytesAt
      <3> QED
        BY <2>1, <3>1, <3>2
    <2> QED
      BY <2>2 DEF s
  <1> QED
    BY <1>1, <1>2

\* A positive response starts with the service's SID plus 0x40, then comes
\* the payload.
LEMMA PositiveShape ==
  ASSUME NEW sid \in 0..191, NEW payload \in Bytes
  PROVE  /\ Positive(sid, payload) \in Results
         /\ Positive(sid, payload).kind = "response"
         /\ Positive(sid, payload).data[1] = sid + 64
         /\ Len(Positive(sid, payload).data) = Len(payload) + 1
         /\ \A k \in 1..Len(payload) : Positive(sid, payload).data[k + 1] = payload[k]
PROOF
  <1>1. <<sid + 64>> \in Bytes /\ Len(<<sid + 64>>) = 1
    BY DEF Byte, Bytes
  <1> DEFINE data == <<sid + 64>> \o payload
  <1>2. data \in Bytes /\ Len(data) = Len(payload) + 1 /\ data[1] = sid + 64
    BY <1>1, Concat, BytesAt
  <1>3. \A k \in 1..Len(payload) : data[k + 1] = payload[k]
    BY <1>1, Concat, BytesAt
  <1> HIDE DEF data
  <1>4. Positive(sid, payload) = [kind |-> "response", data |-> data, declared_length |-> 0]
    BY DEF data, Positive, Response
  <1> QED
    BY <1>2, <1>3, <1>4 DEF Results

LEMMA NegativeShape ==
  ASSUME NEW sid \in Byte, NEW nrc \in Byte
  PROVE  /\ Negative(sid, nrc) \in Results
         /\ Negative(sid, nrc).kind = "response"
         /\ Negative(sid, nrc).data[1] = 127
PROOF
  <1>1. <<127, sid, nrc>> \in Bytes
    <2>1. 127 \in Byte
      BY DEF Byte
    <2> QED
      BY <2>1, ShortBytes
  <1> QED
    BY <1>1 DEF Negative, Response, Results

LEMMA PaddingIsBytes ==
  ASSUME NEW data \in Bytes
  PROVE  Padding(data) \in Bytes
PROOF
  <1>1. InjectionFor(data) \in FailureInjection \cup {NoInjection}
    BY InjectionType DEF InjectionFor
  <1>2. InjectionFor(data).extra_bytes \in Nat
    BY <1>1 DEF FailureInjection, NoInjection
  <1>3. [i \in 1..InjectionFor(data).extra_bytes |-> 0] \in Bytes
    BY <1>2, IsASeq DEF Bytes, Byte
  <1> QED
    BY <1>3, ShortBytes DEF Padding

LEMMA DtcRecordsIsBytes == DtcRecords \in Bytes
PROOF
  <1>1. Len(Dtcs) \in Nat /\ \A i \in 1..Len(Dtcs) : Dtcs[i] \in DTC
    BY ScenarioAssumption, LenProperties, ElementOfSeq
  <1>2. ASSUME NEW k \in 1..(4 * Len(Dtcs))
        PROVE  DtcRecords[k] \in Byte
    <2> DEFINE q == ((k - 1) \div 4) + 1
               p == ((k - 1) % 4) + 1
    <2>1. q \in 1..Len(Dtcs) /\ p \in 1..4
      BY <1>1
    <2>2. Dtcs[q].status \in Byte /\ (p # 4 => Dtcs[q].code[p] \in Byte)
      BY <1>1, <2>1 DEF DTC
    <2> QED
      BY <2>2 DEF DtcRecords
  <1>3. DtcRecords = [k \in 1..(4 * Len(Dtcs)) |-> DtcRecords[k]]
    BY DEF DtcRecords
  <1> QED
    BY <1>1, <1>2, <1>3, IsASeq DEF Bytes

-----------------------------------------------------------------------------
(* The steps of the ECU                                                    *)

LEMMA Longer ==
  ASSUME NEW entry \in Entries, log \in Seq(Entries), log' = Append(log, entry)
  PROVE  /\ log' \in Seq(Entries)
         /\ Len(log) \in Nat
         /\ Len(log') = Len(log) + 1
         /\ \A i \in 1..Len(log) : log'[i] = log[i]
         /\ log'[Len(log) + 1] = entry
BY AppendProperties, LenProperties

USE DEF NRC_SERVICE_NOT_SUPPORTED, NRC_SUB_FUNCTION_NOT_SUPPORTED, NRC_INCORRECT_LENGTH,
        NRC_CONDITIONS_NOT_CORRECT, NRC_REQUEST_SEQUENCE_ERROR, NRC_REQUEST_OUT_OF_RANGE,
        NRC_INVALID_KEY, SID_DIAGNOSTIC_SESSION_CONTROL, SID_READ_DTC_INFORMATION,
        SID_READ_DATA_BY_IDENTIFIER, SID_SECURITY_ACCESS, SID_WRITE_DATA_BY_IDENTIFIER

\* An exchange that changes nothing: silence, a malformed reply, or a negative
\* response that is not a rejected key.  A right key for the pending level is
\* never answered so.
Quiet(entry) ==
  /\ entry \in Entries
  /\ log' = Append(log, entry)
  /\ UNCHANGED state
  /\ entry.event = "exchange"
  /\ entry.res.kind = "response" => entry.res.data[1] = 127
  /\ ~RejectsKey(entry)
  /\ \A level : BringsKey(entry.req, level) => pending_seed_level # level

\* What a step may do instead.
Effective(data) ==
  \/ Dispatched(data, SID_DIAGNOSTIC_SESSION_CONTROL) /\ EnterSession(data)
  \/ Dispatched(data, SID_READ_DATA_BY_IDENTIFIER) /\ ReturnValue(data)
  \/ Dispatched(data, SID_WRITE_DATA_BY_IDENTIFIER) /\ StoreValue(data)
  \/ Dispatched(data, SID_READ_DTC_INFORMATION) /\ ReportDtcs(data)
  \/ RequestSeed(data)
  \/ /\ Dispatched(data, SID_SECURITY_ACCESS)
     /\ ServesLevel(data)
     /\ ~IsRequestSeed(data[2])
     /\ RejectKey(data, LevelOf(data[2])) \/ AcceptKey(data, LevelOf(data[2]))

LEMMA RefusalIsQuiet ==
  ASSUME NEW data \in Bytes, data # <<>>,
         NEW nrc \in Byte, nrc # 53, Refuse(data, nrc),
         \A level : BringsKey(data, level) => pending_seed_level # level
  PROVE  \E entry \in Entries : Quiet(entry)
PROOF
  <1> DEFINE entry == Exchange(data, Negative(data[1], nrc))
  <1>1. data[1] \in Byte
    BY BytesAt
  <1>2. /\ Negative(data[1], nrc) \in Results
        /\ Negative(data[1], nrc).data[1] = 127
    BY <1>1, NegativeShape
  <1>3. Negative(data[1], nrc) # Negative(39, 53)
    <2>1. Negative(data[1], nrc).data[3] = nrc /\ Negative(39, 53).data[3] = 53
      BY DEF Negative, Response
    <2> QED
      BY <2>1
  <1>4. /\ entry \in Entries
        /\ entry.event = "exchange"
        /\ entry.res = Negative(data[1], nrc)
        /\ entry.req = data
    BY <1>2 DEF Entries, Exchange
  <1>5. log' = Append(log, entry) /\ UNCHANGED state
    BY DEF Refuse, Answer
  <1> HIDE DEF entry
  <1> QED
    BY <1>2, <1>3, <1>4, <1>5 DEF Quiet, RejectsKey

LEMMA InjectionIsQuiet ==
  ASSUME NEW data \in Bytes, InjectedFailure(data)
  PROVE  \E entry \in Entries : Quiet(entry)
PROOF
  <1> DEFINE injection == InjectionFor(data)
             res == InjectedResult(data)
             entry == Exchange(data, res)
  <1>1. injection \in FailureInjection
    BY InjectionType DEF InjectionFor, InjectedFailure, Intercepted, NoInjection
  <1>2. injection.nrc \in Byte /\ injection.declared_length \in Nat
    BY <1>1 DEF FailureInjection
  <1>3. data[1] \in Byte
    BY BytesAt DEF InjectedFailure
  <1>4. res \in Results /\ (res.kind = "response" => res.data[1] = 127)
    <2>1. Silence \in Results /\ Silence.kind = "silence"
      BY ShortBytes DEF Silence, Results
    <2>2. /\ Malformed(injection.declared_length) \in Results
          /\ Malformed(injection.declared_length).kind = "malformed"
      BY <1>2, ShortBytes DEF Malformed, Results
    <2>3. /\ Negative(data[1], injection.nrc) \in Results
          /\ Negative(data[1], injection.nrc).data[1] = 127
      BY <1>2, <1>3, NegativeShape
    <2>4. res \in {Silence, Malformed(injection.declared_length),
                   Negative(data[1], injection.nrc)}
      BY DEF InjectedFailure, Intercepted, InjectedResult
    <2> QED
      BY <2>1, <2>2, <2>3, <2>4
  <1>5. log' = Append(log, entry) /\ UNCHANGED state /\ Intercepted(data)
    BY DEF InjectedFailure, Answer
  <1>6. /\ entry \in Entries
        /\ entry.event = "exchange"
        /\ entry.res = res
        /\ entry.req = data
    BY <1>4 DEF Entries, Exchange
  <1> HIDE DEF entry, res
  <1> QED
    BY <1>4, <1>5, <1>6 DEF Quiet, RejectsKey, BringsKey, Dispatched

LEMMA EmptyIsQuiet ==
  ASSUME NEW data, EmptyRequest(data)
  PROVE  \E entry \in Entries : Quiet(entry)
PROOF
  <1> DEFINE entry == Exchange(<<>>, Silence)
  <1>1. Silence \in Results /\ Silence.kind = "silence"
    BY ShortBytes DEF Silence, Results
  <1>2. /\ entry \in Entries
        /\ entry.event = "exchange"
        /\ entry.res = Silence
        /\ entry.req = <<>>
    BY <1>1, ShortBytes DEF Entries, Exchange
  <1>3. log' = Append(log, entry) /\ UNCHANGED state
    BY DEF EmptyRequest, Answer
  <1>4. Negative(39, 53).kind = "response"
    BY DEF Negative, Response
  <1> HIDE DEF entry
  <1> QED
    BY <1>1, <1>2, <1>3, <1>4 DEF Quiet, RejectsKey, BringsKey, Dispatched

\* Every answered request either changes nothing or is one of the effective
\* ones: no handler touches the state on its way to a refusal.
LEMMA StepCases ==
  ASSUME NEW data \in Requests, handle_request(data)
  PROVE  Effective(data) \/ \E entry \in Entries : Quiet(entry)
PROOF
  <1> DEFINE Refused == \E nrc \in {17, 18, 19, 34, 36, 49} : Refuse(data, nrc)
  <1>1. data \in Bytes
    BY RequestsAssumption
  <1> DEFINE NoKey == \A level : BringsKey(data, level) => pending_seed_level # level
  <1>2. CASE data # <<>> /\ Refused /\ NoKey
    <2>1. {17, 18, 19, 34, 36, 49} \subseteq Byte \ {53}
      BY DEF Byte
    <2> QED
      BY <1>1, <1>2, <2>1, RefusalIsQuiet
  <1>3. CASE EmptyRequest(data)
    BY <1>3, EmptyIsQuiet
  <1>4. CASE InjectedFailure(data)
    BY <1>1, <1>4, InjectionIsQuiet
  <1>5. CASE UnknownService(data)
    BY <1>2, <1>5 DEF UnknownService, BringsKey, Dispatched
  <1>6. CASE SessionControl(data)
    BY <1>2, <1>6 DEF SessionControl, Dispatched, Effective, BringsKey
  <1>7. CASE ReadDid(data)
    BY <1>2, <1>7 DEF ReadDid, Dispatched, Effective, BringsKey
  <1>8. CASE WriteDid(data)
    BY <1>2, <1>8 DEF WriteDid, Dispatched, Effective, BringsKey
  <1>9. CASE ReadDtcInformation(data)
    BY <1>2, <1>9 DEF ReadDtcInformation, Dispatched, Effective, BringsKey
  <1>10. CASE SecurityAccessRefused(data)
    BY <1>2, <1>10 DEF SecurityAccessRefused, Dispatched, BringsKey
  <1>11. CASE RequestSeed(data)
    BY <1>11 DEF Effective
  <1>12. CASE SendKey(data)
    BY <1>2, <1>12 DEF SendKey, Dispatched, Effective, BringsKey
  <1> QED
    BY <1>3, <1>4, <1>5, <1>6, <1>7, <1>8, <1>9, <1>10, <1>11, <1>12 DEF handle_request

\* A positive response, as it appears in the conversation.
LEMMA PositiveEntry ==
  ASSUME NEW data \in Bytes, NEW sid \in {16, 25, 34, 39, 46}, NEW payload \in Bytes,
         Answer(data, Positive(sid, payload))
  PROVE  LET entry == Exchange(data, Positive(sid, payload))
         IN  /\ entry \in Entries
             /\ log' = Append(log, entry)
             /\ entry.event = "exchange"
             /\ entry.req = data
             /\ entry.res.kind = "response"
             /\ entry.res.data \in Bytes
             /\ entry.res.data[1] = sid + 64
             /\ Len(entry.res.data) = Len(payload) + 1
             /\ \A k \in 1..Len(payload) : entry.res.data[k + 1] = payload[k]
             /\ Len(payload) >= 1 => entry.res.data[2] = payload[1]
             /\ Len(payload) >= 2 => entry.res.data[3] = payload[2]
PROOF
  <1> DEFINE res == Positive(sid, payload)
  <1>1. sid \in 0..191
    OBVIOUS
  <1>2. /\ res \in Results
        /\ res.kind = "response"
        /\ res.data[1] = sid + 64
        /\ Len(res.data) = Len(payload) + 1
        /\ \A k \in 1..Len(payload) : res.data[k + 1] = payload[k]
    BY <1>1, PositiveShape
  <1>3. res.data \in Bytes
    BY <1>2 DEF Results
  <1>4. log' = Append(log, Exchange(data, res))
    BY DEF Answer
  <1> HIDE DEF res
  <1>5. /\ Exchange(data, res) \in Entries
        /\ Exchange(data, res).event = "exchange"
        /\ Exchange(data, res).req = data
        /\ Exchange(data, res).res = res
    BY <1>2 DEF Entries, Exchange
  <1>6. /\ Len(payload) >= 1 => res.data[2] = payload[1]
        /\ Len(payload) >= 2 => res.data[3] = payload[2]
    BY <1>2, BytesAt
  <1> QED
    BY <1>2, <1>3, <1>4, <1>5, <1>6 DEF res

-----------------------------------------------------------------------------
(* Types                                                                   *)

LEMMA TypeInit == Init => TypeOK
PROOF
  <1> SUFFICES ASSUME Init PROVE TypeOK
    OBVIOUS
  <1>1. Boot \in Entries
    BY ShortBytes DEF Boot, Entries, Silence, Results
  <1>2. <<Boot>> \in Seq(Entries) /\ Len(<<Boot>>) >= 1
    BY <1>1
  <1> QED
    BY <1>2, ScenarioAssumption DEF Init, TypeOK

LEMMA BootEntry ==
  ASSUME NewProtocolState
  PROVE  Boot \in Entries /\ log' = Append(log, Boot) /\ Boot.event = "boot"
BY ShortBytes DEF NewProtocolState, Boot, Entries, Silence, Results

\* The payload of every positive response is made of bytes.
LEMMA PayloadTypes ==
  ASSUME TypeOK, NEW data \in Bytes, Len(data) >= 2
  PROVE  /\ <<data[2]>> \in Bytes
         /\ Len(data) >= 3 => <<data[2], data[3]>> \in Bytes /\ Rest(data, 4) \in Bytes
         /\ SessionOf(data) \in KNOWN_SESSIONS => <<SessionOf(data), 0, 50, 1, 244>> \in Bytes
         /\ Len(data) >= 3 /\ Word(data) \in DOMAIN dids
              => /\ dids[Word(data)].value \in Bytes
                 /\ dids[Word(data)].value \o Padding(data) \in Bytes
                 /\ <<data[2], data[3]>> \o (dids[Word(data)].value \o Padding(data)) \in Bytes
         /\ <<2, 255>> \o DtcRecords \in Bytes
         /\ ServesLevel(data)
              => <<data[2]>> \o SecurityLevels[LevelOf(data[2])].seed \in Bytes
PROOF
  <1>1. /\ data[2] \in Byte
        /\ Len(data) >= 3 => data[3] \in Byte
    BY BytesAt
  <1>2. <<data[2]>> \in Bytes
    BY <1>1, ShortBytes
  <1>3. ASSUME Len(data) >= 3
        PROVE  <<data[2], data[3]>> \in Bytes /\ Rest(data, 4) \in Bytes
    <2>1. 4 \in 1..(Len(data) + 1)
      BY <1>3, BytesAt
    <2> QED
      BY <1>1, <1>3, <2>1, ShortBytes, RestIsBytes
  <1>4. ASSUME SessionOf(data) \in KNOWN_SESSIONS
        PROVE  <<SessionOf(data), 0, 50, 1, 244>> \in Bytes
    BY <1>4 DEF KNOWN_SESSIONS, Byte, Bytes
  <1>5. ASSUME Len(data) >= 3, Word(data) \in DOMAIN dids
        PROVE  /\ dids[Word(data)].value \in Bytes
               /\ dids[Word(data)].value \o Padding(data) \in Bytes
               /\ <<data[2], data[3]>> \o (dids[Word(data)].value \o Padding(data)) \in Bytes
    <2>1. dids[Word(data)].value \in Bytes
      BY <1>5 DEF TypeOK, DIDConfig
    <2>2. dids[Word(data)].value \o Padding(data) \in Bytes
      BY <2>1, PaddingIsBytes, Concat
    <2> QED
      BY <1>3, <1>5, <2>1, <2>2, Concat
  <1>6. <<2, 255>> \o DtcRecords \in Bytes
    <2>1. <<2, 255>> \in Bytes
      BY DEF Byte, Bytes
    <2> QED
      BY <2>1, DtcRecordsIsBytes, Concat
  <1>7. ASSUME ServesLevel(data)
        PROVE  <<data[2]>> \o SecurityLevels[LevelOf(data[2])].seed \in Bytes
    <2>1. SecurityLevels[LevelOf(data[2])].seed \in Bytes
      BY <1>7, ScenarioAssumption DEF ServesLevel, SecurityLevelConfig
    <2> QED
      BY <1>2, <2>1, Concat
  <1> QED
    BY <1>2, <1>3, <1>4, <1>5, <1>6, <1>7

\* A rejected key, as it appears in the conversation.
LEMMA RejectedEntry ==
  ASSUME NEW data \in Bytes, Answer(data, Negative(39, 53)), ~Intercepted(data)
  PROVE  LET entry == Exchange(data, Negative(39, 53))
         IN  /\ entry \in Entries
             /\ log' = Append(log, entry)
             /\ entry.event = "exchange"
             /\ entry.res.data[1] = 127
             /\ RejectsKey(entry)
PROOF
  <1>1. 39 \in Byte /\ 53 \in Byte
    BY DEF Byte
  <1>2. Negative(39, 53) \in Results /\ Negative(39, 53).data[1] = 127
    BY <1>1, NegativeShape
  <1> QED
    BY <1>2 DEF Answer, Exchange, Entries, RejectsKey

LEMMA TypeStep == TypeOK /\ [Next]_vars => TypeOK'
PROOF
  <1> SUFFICES ASSUME TypeOK, [Next]_vars PROVE TypeOK'
    OBVIOUS
  <1> DEFINE LogOK == log' \in Seq(Entries) /\ Len(log') >= 1
  <1>0. ASSUME NEW entry \in Entries, log' = Append(log, entry)
        PROVE  LogOK
    BY <1>0, Longer DEF TypeOK
  <1>1. CASE UNCHANGED vars
    BY <1>1 DEF vars, TypeOK
  <1>2. CASE NewProtocolState
    <2>1. LogOK
      BY <1>0, <1>2, BootEntry
    <2> QED
      BY <1>2, <2>1 DEF NewProtocolState, TypeOK
  <1>3. ASSUME NEW entry \in Entries, Quiet(entry)
        PROVE  TypeOK'
    <2>1. LogOK
      BY <1>0, <1>3 DEF Quiet
    <2> QED
      BY <1>3, <2>1 DEF Quiet, TypeOK, state
  <1>4. ASSUME NEW data \in Requests, Effective(data)
        PROVE  TypeOK'
    <2>1. data \in Bytes
      BY RequestsAssumption
    <2>2. ASSUME NEW sid \in {16, 25, 34, 39, 46}, NEW payload \in Bytes,
                 Answer(data, Positive(sid, payload))
          PROVE  LogOK
      BY <1>0, <2>1, <2>2, PositiveEntry
    <2>3. CASE EnterSession(data)
      <3>1. LogOK
        BY <2>1, <2>2, <2>3, PayloadTypes DEF EnterSession
      <3> QED
        BY <2>3, <3>1 DEF EnterSession, TypeOK
    <2>4. CASE ReturnValue(data)
      <3>1. LogOK
        <4>1. Len(data) >= 2 /\ Len(data) \in Nat
          BY <2>1, <2>4, BytesAt DEF ReturnValue
        <4> QED
          BY <2>1, <2>2, <2>4, <4>1, PayloadTypes DEF ReturnValue
      <3> QED
        BY <2>4, <3>1 DEF ReturnValue, TypeOK, state
    <2>5. CASE StoreValue(data)
      <3>1. Len(data) >= 2 /\ Len(data) \in Nat
        BY <2>1, <2>5, BytesAt DEF StoreValue
      <3>2. LogOK
        BY <2>1, <2>2, <2>5, <3>1, PayloadTypes DEF StoreValue
      <3>3. Rest(data, 4) \in Bytes
        BY <2>1, <2>5, <3>1, PayloadTypes DEF StoreValue
      <3>4. \A did \in DOMAIN dids : Rewritten(dids[did], Rest(data, 4)) \in DIDConfig
        BY <3>3 DEF TypeOK, DIDConfig, Rewritten
      <3>5. dids' \in [DOMAIN Dids -> DIDConfig]
        BY <2>5, <3>4 DEF TypeOK, StoreValue, Writable
      <3> QED
        BY <2>5, <3>2, <3>5 DEF StoreValue, TypeOK
    <2>6. CASE ReportDtcs(data)
      <3>1. LogOK
        BY <2>1, <2>2, <2>6, PayloadTypes DEF ReportDtcs
      <3> QED
        BY <2>6, <3>1 DEF ReportDtcs, TypeOK, state
    <2>7. CASE RequestSeed(data)
      <3>1. LogOK
        BY <2>1, <2>2, <2>7, PayloadTypes DEF RequestSeed, ServesLevel
      <3> QED
        BY <2>7, <3>1 DEF RequestSeed, ServesLevel, TypeOK
    <2>8. CASE ServesLevel(data) /\ Dispatched(data, 39) /\ RejectKey(data, LevelOf(data[2]))
      <3>1. LogOK
        BY <1>0, <2>1, <2>8, RejectedEntry DEF RejectKey, Dispatched
      <3> QED
        BY <2>8, <3>1 DEF RejectKey, TypeOK
    <2>9. CASE ServesLevel(data) /\ AcceptKey(data, LevelOf(data[2]))
      <3>1. LogOK
        BY <2>1, <2>2, <2>9, PayloadTypes DEF AcceptKey, ServesLevel
      <3> QED
        BY <2>9, <3>1 DEF AcceptKey, ServesLevel, TypeOK
    <2> QED
      BY <1>4, <2>3, <2>4, <2>5, <2>6, <2>7, <2>8, <2>9 DEF Effective
  <1> QED
    BY <1>1, <1>2, <1>3, <1>4, StepCases DEF Next

\* Every state of the ECU is well typed, whatever the scenario and the
\* requests: only configured levels are ever unlocked or pending, and every
\* reply is made of bytes.
THEOREM TypeCorrect == Spec => []TypeOK
PROOF
  <1> QED
    BY TypeInit, TypeStep, PTL DEF Spec

-----------------------------------------------------------------------------
(* Access rules                                                            *)

\* A write replaces the value of a DID that is not read-only and keeps its
\* rules; nothing else touches the table.
LEMMA RulesStep == TypeOK /\ AccessRulesKept /\ [Next]_vars => AccessRulesKept'
PROOF
  <1> SUFFICES ASSUME TypeOK, AccessRulesKept, [Next]_vars PROVE AccessRulesKept'
    OBVIOUS
  <1>1. ASSUME NEW data, StoreValue(data)
        PROVE  AccessRulesKept'
    <2>1. \A did \in DOMAIN Dids :
            dids'[did] = IF did = Word(data) THEN Rewritten(dids[did], Rest(data, 4))
                                             ELSE dids[did]
      BY <1>1 DEF TypeOK, StoreValue
    <2> QED
      BY <1>1, <2>1 DEF AccessRulesKept, Rewritten, StoreValue, Writable
  <1>2. ASSUME UNCHANGED dids
        PROVE  AccessRulesKept'
    BY <1>2 DEF AccessRulesKept
  <1>3. \A data : Effective(data) => UNCHANGED dids \/ StoreValue(data)
    BY DEF Effective, EnterSession, ReturnValue, ReportDtcs, RequestSeed, RejectKey,
           AcceptKey, state
  <1> QED
    BY <1>1, <1>2, <1>3, StepCases DEF Next, NewProtocolState, Quiet, state, vars

\* No conversation ever loosens the session gate or the read-only flag of a
\* DID, nor changes a read-only value.
THEOREM AccessRulesAreKept == Spec => []AccessRulesKept
PROOF
  <1>1. Init => AccessRulesKept
    BY DEF Init, AccessRulesKept
  <1> QED
    BY <1>1, TypeInit, TypeStep, RulesStep, PTL DEF Spec

-----------------------------------------------------------------------------
(* The conversation determines the session and the pending seed            *)

\* How one step looks in the conversation.  The entry it appends announces
\* the new session or leaves it alone, and is a successful read only of a DID
\* whose gate admits the session.
SessionEffect(entry) ==
  /\ AnnouncesAny(entry) => Announces(entry, session')
  /\ ~AnnouncesAny(entry) => session' = session
  /\ \A did \in DOMAIN Dids : ReadsDid(entry, did) => Readable(did)

\* It is an accepted key exactly when it brings the right key for the pending
\* level; it disturbs the seed or leaves it alone.
SecurityEffect(entry) ==
  /\ DisturbsSeed(entry)
       => \A level \in DOMAIN SecurityLevels :
            pending_seed_level' = level <=> GrantsSeed(entry, level)
  /\ ~DisturbsSeed(entry) => pending_seed_level' = pending_seed_level
  /\ \A level \in DOMAIN SecurityLevels :
       /\ AcceptsKey(entry, level)
            <=> BringsKey(entry.req, level) /\ pending_seed_level = level
       /\ level \in unlocked_levels'
            <=> \/ AcceptsKey(entry, level)
                \/ level \in unlocked_levels /\ entry.event # "boot"

Effect(entry) == SessionEffect(entry) /\ SecurityEffect(entry)

USE DEF IsPositive

LEMMA QuietEffect ==
  ASSUME NEW entry \in Entries, Quiet(entry)
  PROVE  Effect(entry)
BY DEF Quiet, Effect, SessionEffect, SecurityEffect, state, AnnouncesAny, ReadsDid,
       DisturbsSeed, GrantsSeed, AcceptsKey

LEMMA BootEffect ==
  ASSUME NewProtocolState
  PROVE  Effect(Boot)
PROOF
  <1>1. Boot.event = "boot" /\ Boot.req = <<>>
    BY DEF Boot
  <1>2. None \notin DOMAIN SecurityLevels
    BY ScenarioAssumption DEF None
  <1> QED
    BY <1>1, <1>2 DEF NewProtocolState, Effect, SessionEffect, SecurityEffect, AnnouncesAny,
       Announces, ReadsDid, DisturbsSeed, GrantsSeed, AcceptsKey, BringsKey, Dispatched

LEMMA EffectiveEffect ==
  ASSUME TypeOK, NEW data \in Bytes, Effective(data)
  PROVE  \E entry \in Entries : log' = Append(log, entry) /\ Effect(entry)
PROOF
  <1>0. None \notin DOMAIN SecurityLevels
    BY ScenarioAssumption DEF None
  <1>1. CASE Dispatched(data, 16) /\ EnterSession(data)
    <2> DEFINE payload == <<SessionOf(data), 0, 50, 1, 244>>
               entry == Exchange(data, Positive(16, payload))
    <2>1. /\ payload \in Bytes /\ Len(payload) >= 1
          /\ payload[1] = SessionOf(data)
          /\ Answer(data, Positive(16, payload))
      <3>1. <<SessionOf(data), 0, 50, 1, 244>> \in Bytes
        BY <1>1, PayloadTypes DEF EnterSession
      <3>2. Len(payload) = 5 /\ payload[1] = SessionOf(data)
        OBVIOUS
      <3> QED
        BY <1>1, <3>1, <3>2 DEF EnterSession
    <2> HIDE DEF payload
    <2>2. /\ entry \in Entries /\ log' = Append(log, entry)
          /\ entry.event = "exchange" /\ entry.req = data
          /\ entry.res.kind = "response" /\ entry.res.data[1] = 80
          /\ entry.res.data[2] = SessionOf(data)
      BY <2>1, PositiveEntry
    <2> HIDE DEF entry
    <2>3. Effect(entry)
      BY <1>1, <2>2 DEF EnterSession, Effect, SessionEffect, SecurityEffect, AnnouncesAny,
         Announces, ReadsDid, DisturbsSeed, GrantsSeed, AcceptsKey, BringsKey, Dispatched,
         RejectsKey, Negative, Response
    <2> QED
      BY <2>2, <2>3
  <1>2. CASE Dispatched(data, 34) /\ ReturnValue(data)
    <2> DEFINE payload == <<data[2], data[3]>> \o (dids[Word(data)].value \o Padding(data))
               entry == Exchange(data, Positive(34, payload))
    <2>1. Len(data) >= 2 /\ Len(data) \in Nat
      BY <1>2, BytesAt DEF ReturnValue
    <2>2. /\ <<data[2], data[3]>> \in Bytes /\ payload \in Bytes
          /\ dids[Word(data)].value \o Padding(data) \in Bytes
      BY <1>2, <2>1, PayloadTypes DEF ReturnValue
    <2>3. /\ payload[1] = data[2] /\ payload[2] = data[3] /\ Len(payload) >= 2
          /\ Answer(data, Positive(34, payload))
      <3>1. data[2] \in Byte /\ data[3] \in Byte
        BY <1>2, BytesAt DEF ReturnValue
      <3>2. Len(dids[Word(data)].value \o Padding(data)) >= 0
        BY <2>2, BytesAt
      <3> QED
        BY <1>2, <2>2, <3>1, <3>2, ConcatHead, BytesAt DEF ReturnValue
    <2> HIDE DEF payload
    <2>4. /\ entry \in Entries /\ log' = Append(log, entry)
          /\ entry.event = "exchange" /\ entry.req = data
          /\ entry.res.kind = "response" /\ entry.res.data[1] = 98
      BY <2>2, <2>3, PositiveEntry
    <2>5. entry.res.data[2] = data[2] /\ entry.res.data[3] = data[3]
      BY <2>2, <2>3, BytesAt, PositiveEntry
    <2> HIDE DEF entry
    <2>6. Effect(entry)
      BY <1>2, <2>4, <2>5 DEF ReturnValue, Effect, SessionEffect, SecurityEffect, AnnouncesAny,
         ReadsDid, Word, DisturbsSeed, GrantsSeed, AcceptsKey, BringsKey, Dispatched,
         RejectsKey, Negative, Response, state
    <2> QED
      BY <2>4, <2>6
  <1>3. CASE Dispatched(data, 46) /\ StoreValue(data)
    <2> DEFINE payload == <<data[2], data[3]>>
               entry == Exchange(data, Positive(46, payload))
    <2>1. Len(data) >= 2 /\ Len(data) \in Nat
      BY <1>3, BytesAt DEF StoreValue
    <2>2. payload \in Bytes
      BY <1>3, <2>1, PayloadTypes DEF StoreValue
    <2>3. /\ entry \in Entries /\ log' = Append(log, entry)
          /\ entry.event = "exchange" /\ entry.req = data
          /\ entry.res.kind = "response" /\ entry.res.data[1] = 110
      BY <1>3, <2>2, PositiveEntry DEF StoreValue
    <2> HIDE DEF entry
    <2>4. Effect(entry)
      BY <1>3, <2>3 DEF StoreValue, Effect, SessionEffect, SecurityEffect, AnnouncesAny,
         ReadsDid, DisturbsSeed, GrantsSeed, AcceptsKey, BringsKey, Dispatched,
         RejectsKey, Negative, Response
    <2> QED
      BY <2>3, <2>4
  <1>4. CASE Dispatched(data, 25) /\ ReportDtcs(data)
    <2> DEFINE payload == <<2, 255>> \o DtcRecords
               entry == Exchange(data, Positive(25, payload))
    <2>1. payload \in Bytes
      BY <1>4, PayloadTypes DEF ReportDtcs
    <2> HIDE DEF payload
    <2>2. /\ entry \in Entries /\ log' = Append(log, entry)
          /\ entry.event = "exchange" /\ entry.req = data
          /\ entry.res.kind = "response" /\ entry.res.data[1] = 89
      BY <1>4, <2>1, PositiveEntry DEF ReportDtcs, payload
    <2> HIDE DEF entry
    <2>3. Effect(entry)
      BY <1>4, <2>2 DEF ReportDtcs, Effect, SessionEffect, SecurityEffect, AnnouncesAny,
         ReadsDid, DisturbsSeed, GrantsSeed, AcceptsKey, BringsKey, Dispatched,
         RejectsKey, Negative, Response, state
    <2> QED
      BY <2>2, <2>3
  <1>5. CASE RequestSeed(data)
    <2> DEFINE payload == <<data[2]>> \o SecurityLevels[LevelOf(data[2])].seed
               entry == Exchange(data, Positive(39, payload))
    <2>1. /\ <<data[2]>> \in Bytes /\ payload \in Bytes
          /\ SecurityLevels[LevelOf(data[2])].seed \in Bytes
      BY <1>5, PayloadTypes, ScenarioAssumption
         DEF RequestSeed, ServesLevel, SecurityLevelConfig
    <2>2. /\ payload[1] = data[2] /\ Len(payload) >= 1
          /\ Answer(data, Positive(39, payload))
      BY <1>5, <2>1, ConcatHead, BytesAt DEF RequestSeed, ServesLevel
    <2> HIDE DEF payload
    <2>3. /\ entry \in Entries /\ log' = Append(log, entry)
          /\ entry.event = "exchange" /\ entry.req = data
          /\ entry.res.kind = "response" /\ entry.res.data[1] = 103
      BY <2>1, <2>2, PositiveEntry
    <2>4. entry.res.data[2] = data[2]
      BY <2>1, <2>2, BytesAt, PositiveEntry
    <2> HIDE DEF entry
    <2>5. Effect(entry)
      BY <1>5, <2>3, <2>4 DEF RequestSeed, Effect, SessionEffect, SecurityEffect, AnnouncesAny,
         ReadsDid, DisturbsSeed, GrantsSeed, AcceptsKey, BringsKey, ServesLevel
    <2> QED
      BY <2>3, <2>5
  <1>6. CASE /\ Dispatched(data, 39) /\ ServesLevel(data) /\ ~IsRequestSeed(data[2])
             /\ RejectKey(data, LevelOf(data[2]))
    <2> DEFINE entry == Exchange(data, Negative(39, 53))
    <2>1. /\ entry \in Entries /\ log' = Append(log, entry)
          /\ entry.event = "exchange" /\ entry.req = data
          /\ entry.res.data[1] = 127 /\ RejectsKey(entry)
      <3>1. entry.req = data
        BY DEF Exchange
      <3> QED
        BY <1>6, <3>1, RejectedEntry DEF RejectKey, Dispatched
    <2> HIDE DEF entry
    <2>2. Effect(entry)
      BY <1>0, <1>6, <2>1 DEF RejectKey, Effect, SessionEffect, SecurityEffect, AnnouncesAny,
         ReadsDid, DisturbsSeed, GrantsSeed, AcceptsKey, BringsKey
    <2> QED
      BY <2>1, <2>2
  <1>7. CASE /\ Dispatched(data, 39) /\ ServesLevel(data) /\ ~IsRequestSeed(data[2])
             /\ AcceptKey(data, LevelOf(data[2]))
    <2> DEFINE payload == <<data[2]>>
               entry == Exchange(data, Positive(39, payload))
    <2>1. /\ payload \in Bytes /\ Len(payload) >= 1 /\ payload[1] = data[2]
          /\ Answer(data, Positive(39, payload))
      <3>1. <<data[2]>> \in Bytes
        BY <1>7, PayloadTypes DEF ServesLevel
      <3>2. Len(payload) = 1 /\ payload[1] = data[2]
        OBVIOUS
      <3> QED
        BY <1>7, <3>1, <3>2 DEF AcceptKey
    <2> HIDE DEF payload
    <2>2. /\ entry \in Entries /\ log' = Append(log, entry)
          /\ entry.event = "exchange" /\ entry.req = data
          /\ entry.res.kind = "response" /\ entry.res.data[1] = 103
          /\ entry.res.data[2] = data[2]
      BY <2>1, PositiveEntry
    <2> HIDE DEF entry
    <2>3. Effect(entry)
      BY <1>0, <1>7, <2>2 DEF AcceptKey, Effect, SessionEffect, SecurityEffect, AnnouncesAny,
         ReadsDid, DisturbsSeed, GrantsSeed, AcceptsKey, BringsKey
    <2> QED
      BY <2>2, <2>3
  <1> QED
    BY <1>1, <1>2, <1>3, <1>4, <1>5, <1>6, <1>7 DEF Effective

LEMMA StepEffect ==
  ASSUME TypeOK, Next
  PROVE  \E entry \in Entries : log' = Append(log, entry) /\ Effect(entry)
PROOF
  <1>1. CASE NewProtocolState
    BY <1>1, BootEntry, BootEffect
  <1>2. ASSUME NEW data \in Requests, handle_request(data)
        PROVE  \E entry \in Entries : log' = Append(log, entry) /\ Effect(entry)
    <2>1. data \in Bytes
      BY RequestsAssumption
    <2>2. CASE Effective(data)
      BY <2>1, <2>2, EffectiveEffect
    <2>3. CASE \E entry \in Entries : Quiet(entry)
      BY <2>3, QuietEffect DEF Quiet
    <2> QED
      BY <1>2, <2>2, <2>3, StepCases
  <1> QED
    BY <1>1, <1>2 DEF Next

-----------------------------------------------------------------------------
(* The inductive invariant: the pending seed, too, is what the conversation *)
(* says it is.                                                              *)

PendingFollowsConversation ==
  \A level \in DOMAIN SecurityLevels :
    pending_seed_level = level <=> SeedOutstanding(level, Len(log))

ConversationInv ==
  /\ TypeOK
  /\ AccessRulesKept
  /\ SessionFollowsConversation
  /\ GatedReads
  /\ PendingFollowsConversation
  /\ KeyAnswersSeed
  /\ UnlockedByKey

LEMMA ConversationInit == Init => ConversationInv
PROOF
  <1> SUFFICES ASSUME Init PROVE ConversationInv
    OBVIOUS
  <1>1. /\ Len(log) = 1 /\ DOMAIN log = {1}
        /\ log[1].event = "boot" /\ log[1].req = <<>>
    BY DEF Init, Boot
  <1>2. SessionFollowsConversation
    BY <1>1 DEF Init, SessionFollowsConversation, SessionAnnounced, Announces
  <1>3. GatedReads /\ KeyAnswersSeed
    BY <1>1 DEF GatedReads, ReadsDid, KeyAnswersSeed, AcceptsKey, BringsKey, Dispatched
  <1>4. PendingFollowsConversation
    <2>1. None \notin DOMAIN SecurityLevels
      BY ScenarioAssumption DEF None
    <2> QED
      BY <1>1, <2>1 DEF Init, PendingFollowsConversation, SeedOutstanding, GrantsSeed
  <1>5. UnlockedByKey
    BY <1>1 DEF Init, UnlockedByKey, AcceptsKey
  <1> QED
    BY <1>2, <1>3, <1>4, <1>5, TypeInit DEF ConversationInv, AccessRulesKept, Init

\* What was outstanding or announced before the last exchange stays so.
LEMMA HistoryKept ==
  ASSUME NEW entry \in Entries, log \in Seq(Entries), log' = Append(log, entry)
  PROVE  /\ \A s : \A n \in 0..Len(log) :
              SessionAnnounced(s, n)' <=> SessionAnnounced(s, n)
         /\ \A level : \A n \in 0..Len(log) :
              SeedOutstanding(level, n)' <=> SeedOutstanding(level, n)
PROOF
  <1>1. Len(log) \in Nat /\ \A i \in 1..Len(log) : log'[i] = log[i]
    BY Longer
  <1>2. ASSUME NEW s, NEW n \in 0..Len(log)
        PROVE  SessionAnnounced(s, n)' <=> SessionAnnounced(s, n)
    <2>1. \A i \in 1..n : log'[i] = log[i]
      BY <1>1
    <2>2. \A j \in 1..n : \A k \in (j + 1)..n : k \in 1..n
      OBVIOUS
    <2> QED
      BY <2>1, <2>2, Zenon DEF SessionAnnounced
  <1>3. ASSUME NEW level, NEW n \in 0..Len(log)
        PROVE  SeedOutstanding(level, n)' <=> SeedOutstanding(level, n)
    <2>1. \A i \in 1..n : log'[i] = log[i]
      BY <1>1
    <2>2. \A j \in 1..n : \A k \in (j + 1)..n : k \in 1..n
      OBVIOUS
    <2> QED
      BY <2>1, <2>2, Zenon DEF SeedOutstanding
  <1> QED
    BY <1>2, <1>3

LEMMA SessionStep ==
  ASSUME TypeOK, NEW entry \in Entries, log' = Append(log, entry), SessionEffect(entry),
         SessionFollowsConversation
  PROVE  SessionFollowsConversation'
PROOF
  <1> DEFINE n == Len(log)
  <1>1. /\ n \in Nat /\ Len(log') = n + 1
        /\ \A i \in 1..n : log'[i] = log[i]
        /\ log'[n + 1] = entry
    BY Longer DEF TypeOK
  <1>2. CASE AnnouncesAny(entry)
    BY <1>1, <1>2 DEF SessionEffect, SessionFollowsConversation, SessionAnnounced
  <1>3. CASE ~AnnouncesAny(entry)
    BY <1>1, <1>3 DEF SessionEffect, SessionFollowsConversation, SessionAnnounced
  <1> QED
    BY <1>2, <1>3

LEMMA GatedReadsStep ==
  ASSUME TypeOK, NEW entry \in Entries, log' = Append(log, entry), SessionEffect(entry),
         AccessRulesKept, SessionFollowsConversation, GatedReads
  PROVE  GatedReads'
PROOF
  <1> DEFINE n == Len(log)
  <1>1. /\ n \in Nat /\ Len(log') = n + 1
        /\ \A i \in 1..n : log'[i] = log[i]
        /\ log'[n + 1] = entry
        /\ DOMAIN log = 1..n /\ DOMAIN log' = 1..(n + 1)
    BY Longer, LenProperties DEF TypeOK
  <1> SUFFICES ASSUME NEW i \in 1..(n + 1), NEW did \in DOMAIN Dids,
                      ReadsDid(log'[i], did), Dids[did].session_gate # None
               PROVE  SessionAnnounced(Dids[did].session_gate, i - 1)'
    BY <1>1 DEF GatedReads
  <1>2. CASE i \in 1..n
    <2>1. SessionAnnounced(Dids[did].session_gate, i - 1)
      BY <1>1, <1>2 DEF GatedReads
    <2>2. i - 1 \in 0..n
      BY <1>1
    <2> QED
      BY <2>1, <2>2, HistoryKept DEF TypeOK
  <1>3. CASE i = n + 1
    <2>1. Dids[did].session_gate = session
      BY <1>1, <1>3 DEF SessionEffect, Readable, AccessRulesKept
    <2>2. SessionAnnounced(Dids[did].session_gate, n)
      BY <2>1 DEF SessionFollowsConversation
    <2>3. n \in 0..n /\ i - 1 = n
      BY <1>1, <1>3
    <2> QED
      BY <2>2, <2>3, HistoryKept DEF TypeOK
  <1> QED
    BY <1>1, <1>2, <1>3

LEMMA PendingStep ==
  ASSUME TypeOK, NEW entry \in Entries, log' = Append(log, entry), SecurityEffect(entry),
         PendingFollowsConversation
  PROVE  PendingFollowsConversation'
PROOF
  <1>0. PICK n \in Nat : n = Len(log)
    BY Longer DEF TypeOK
  <1>1. /\ Len(log) = n /\ Len(log') = n + 1
        /\ \A i \in 1..n : log'[i] = log[i]
        /\ log'[n + 1] = entry
    BY <1>0, Longer DEF TypeOK
  <1> SUFFICES ASSUME NEW level \in DOMAIN SecurityLevels
               PROVE  pending_seed_level' = level <=> SeedOutstanding(level, n + 1)'
    BY <1>1 DEF PendingFollowsConversation
  <1>2. GrantsSeed(entry, level) => DisturbsSeed(entry)
    BY DEF GrantsSeed, DisturbsSeed
  <1>3. SeedOutstanding(level, n + 1)'
          <=> \/ GrantsSeed(entry, level)
              \/ ~DisturbsSeed(entry) /\ SeedOutstanding(level, n)
    <2>1. ASSUME GrantsSeed(entry, level)
          PROVE  SeedOutstanding(level, n + 1)'
      BY <1>1, <2>1 DEF SeedOutstanding
    <2>2. ASSUME ~DisturbsSeed(entry), SeedOutstanding(level, n)
          PROVE  SeedOutstanding(level, n + 1)'
      BY <1>1, <2>2 DEF SeedOutstanding
    <2>3. ASSUME SeedOutstanding(level, n + 1)', ~GrantsSeed(entry, level)
          PROVE  ~DisturbsSeed(entry) /\ SeedOutstanding(level, n)
      BY <1>1, <2>3 DEF SeedOutstanding
    <2> QED
      BY <2>1, <2>2, <2>3
  <1>4. SeedOutstanding(level, n) <=> pending_seed_level = level
    BY <1>1 DEF PendingFollowsConversation
  <1>5. /\ DisturbsSeed(entry) => (pending_seed_level' = level <=> GrantsSeed(entry, level))
        /\ ~DisturbsSeed(entry) => pending_seed_level' = pending_seed_level
    BY DEF SecurityEffect
  <1> QED
    BY <1>2, <1>3, <1>4, <1>5

LEMMA KeyStep ==
  ASSUME TypeOK, NEW entry \in Entries, log' = Append(log, entry), SecurityEffect(entry),
         PendingFollowsConversation, KeyAnswersSeed
  PROVE  KeyAnswersSeed'
PROOF
  <1> DEFINE n == Len(log)
  <1>1. /\ n \in Nat /\ Len(log') = n + 1
        /\ \A i \in 1..n : log'[i] = log[i]
        /\ log'[n + 1] = entry
        /\ DOMAIN log = 1..n /\ DOMAIN log' = 1..(n + 1)
    BY Longer, LenProperties DEF TypeOK
  <1> SUFFICES ASSUME NEW i \in 1..(n + 1), NEW level \in DOMAIN SecurityLevels
               PROVE  AcceptsKey(log'[i], level)
                        <=> BringsKey(log'[i].req, level) /\ SeedOutstanding(level, i - 1)'
    BY <1>1 DEF KeyAnswersSeed
  <1>2. i - 1 \in 0..n
    BY <1>1
  <1>3. SeedOutstanding(level, i - 1)' <=> SeedOutstanding(level, i - 1)
    BY <1>2, HistoryKept DEF TypeOK
  <1>4. CASE i \in 1..n
    BY <1>1, <1>3, <1>4 DEF KeyAnswersSeed
  <1>5. CASE i = n + 1
    <2>1. AcceptsKey(entry, level)
            <=> BringsKey(entry.req, level) /\ SeedOutstanding(level, n)
      BY DEF SecurityEffect, PendingFollowsConversation
    <2>2. i - 1 = n
      BY <1>1, <1>5
    <2> QED
      BY <1>1, <1>3, <1>5, <2>1, <2>2
  <1> QED
    BY <1>1, <1>4, <1>5

\* A key that is accepted unlocks its level until the next boot, and nothing
\* else does.
LEMMA UnlockStep ==
  ASSUME TypeOK, NEW entry \in Entries, log' = Append(log, entry), SecurityEffect(entry),
         UnlockedByKey
  PROVE  UnlockedByKey'
PROOF
  <1>0. PICK n \in Nat : n = Len(log)
    BY Longer DEF TypeOK
  <1>1. /\ Len(log) = n /\ Len(log') = n + 1
        /\ \A i \in 1..n : log'[i] = log[i]
        /\ log'[n + 1] = entry
        /\ DOMAIN log = 1..n /\ DOMAIN log' = 1..(n + 1)
    BY <1>0, Longer, LenProperties DEF TypeOK
  <1> SUFFICES ASSUME NEW level \in DOMAIN SecurityLevels
               PROVE  level \in unlocked_levels'
                        <=> \E i \in 1..(n + 1) :
                              /\ AcceptsKey(log'[i], level)
                              /\ \A k \in (i + 1)..(n + 1) : log'[k].event # "boot"
    BY <1>1 DEF UnlockedByKey
  <1>2. level \in unlocked_levels
          <=> \E i \in 1..n :
                /\ AcceptsKey(log[i], level)
                /\ \A k \in (i + 1)..n : log[k].event # "boot"
    BY <1>1 DEF UnlockedByKey
  <1>3. level \in unlocked_levels'
          <=> AcceptsKey(entry, level) \/ (level \in unlocked_levels /\ entry.event # "boot")
    BY DEF SecurityEffect
  <1>4. ASSUME AcceptsKey(entry, level)
        PROVE  \E i \in 1..(n + 1) :
                 /\ AcceptsKey(log'[i], level)
                 /\ \A k \in (i + 1)..(n + 1) : log'[k].event # "boot"
    <2>1. n + 1 \in 1..(n + 1) /\ AcceptsKey(log'[n + 1], level)
      BY <1>1, <1>4
    <2>2. \A k \in ((n + 1) + 1)..(n + 1) : log'[k].event # "boot"
      OBVIOUS
    <2> QED
      BY <2>1, <2>2
  <1>5. ASSUME NEW i \in 1..n, AcceptsKey(log[i], level), entry.event # "boot",
               \A k \in (i + 1)..n : log[k].event # "boot"
        PROVE  \E j \in 1..(n + 1) :
                 /\ AcceptsKey(log'[j], level)
                 /\ \A k \in (j + 1)..(n + 1) : log'[k].event # "boot"
    <2>1. i \in 1..(n + 1) /\ AcceptsKey(log'[i], level)
      BY <1>1, <1>5
    <2>2. ASSUME NEW k \in (i + 1)..(n + 1)
          PROVE  log'[k].event # "boot"
      <3>1. CASE k = n + 1
        BY <1>1, <1>5, <3>1
      <3>2. CASE k # n + 1
        <4>1. k \in (i + 1)..n /\ k \in 1..n
          BY <3>2
        <4> QED
          BY <1>1, <1>5, <4>1
      <3> QED
        BY <3>1, <3>2
    <2> QED
      BY <2>1, <2>2
  <1>6. ASSUME NEW i \in 1..(n + 1), AcceptsKey(log'[i], level), ~AcceptsKey(entry, level),
               \A k \in (i + 1)..(n + 1) : log'[k].event # "boot"
        PROVE  level \in unlocked_levels /\ entry.event # "boot"
    <2>1. i \in 1..n
      <3>1. i # n + 1
        BY <1>1, <1>6
      <3> QED
        BY <3>1
    <2>2. n + 1 \in (i + 1)..(n + 1)
      BY <2>1
    <2>3. entry.event # "boot"
      BY <1>1, <1>6, <2>2
    <2>4. AcceptsKey(log[i], level)
      BY <1>1, <1>6, <2>1
    <2>5. ASSUME NEW k \in (i + 1)..n
          PROVE  log[k].event # "boot"
      <3>1. k \in 1..n /\ k \in (i + 1)..(n + 1)
        OBVIOUS
      <3> QED
        BY <1>1, <1>6, <3>1
    <2> QED
      BY <1>2, <2>1, <2>3, <2>4, <2>5
  <1> QED
    BY <1>2, <1>3, <1>4, <1>5, <1>6

LEMMA ConversationStep == ConversationInv /\ [Next]_vars => ConversationInv'
PROOF
  <1> SUFFICES ASSUME ConversationInv, [Next]_vars PROVE ConversationInv'
    OBVIOUS
  <1>1. TypeOK' /\ AccessRulesKept'
    BY TypeStep, RulesStep DEF ConversationInv
  <1>2. CASE UNCHANGED vars
    <2>1. /\ SessionFollowsConversation' /\ GatedReads'
      BY <1>2 DEF ConversationInv, vars, SessionFollowsConversation, GatedReads,
         SessionAnnounced
    <2>2. PendingFollowsConversation' /\ KeyAnswersSeed'
      BY <1>2 DEF ConversationInv, vars, PendingFollowsConversation, KeyAnswersSeed,
         SeedOutstanding
    <2>3. UnlockedByKey'
      BY <1>2 DEF ConversationInv, vars, UnlockedByKey
    <2> QED
      BY <1>1, <2>1, <2>2, <2>3 DEF ConversationInv
  <1>3. CASE Next
    <2>1. PICK entry \in Entries : log' = Append(log, entry) /\ Effect(entry)
      BY <1>3, StepEffect DEF ConversationInv
    <2>2. SessionFollowsConversation' /\ GatedReads'
      BY <2>1, SessionStep, GatedReadsStep DEF ConversationInv, Effect
    <2>3. PendingFollowsConversation' /\ KeyAnswersSeed'
      BY <2>1, PendingStep, KeyStep DEF ConversationInv, Effect
    <2>4. UnlockedByKey'
      BY <2>1, UnlockStep DEF ConversationInv, Effect
    <2> QED
      BY <1>1, <2>2, <2>3, <2>4 DEF ConversationInv
  <1> QED
    BY <1>2, <1>3

\* A gated DID is read only in the session its gate names, as the tester was
\* last told, in conversations of every length.
THEOREM ReadsAreGated == Spec => [](SessionFollowsConversation /\ GatedReads)
PROOF
  <1>1. ConversationInv => SessionFollowsConversation /\ GatedReads
    BY DEF ConversationInv
  <1> QED
    BY <1>1, ConversationInit, ConversationStep, PTL DEF Spec

\* The session is the one that was announced last, after every conversation.
THEOREM SessionIsAnnounced == Spec => []SessionFollowsConversation
PROOF
  <1>1. ConversationInv => SessionFollowsConversation
    BY DEF ConversationInv
  <1> QED
    BY <1>1, ConversationInit, ConversationStep, PTL DEF Spec

\* A key is accepted exactly when it is right and answers an outstanding seed
\* of its level: one seed buys one attempt.
THEOREM KeysAnswerSeeds == Spec => []KeyAnswersSeed
PROOF
  <1>1. ConversationInv => KeyAnswersSeed
    BY DEF ConversationInv
  <1> QED
    BY <1>1, ConversationInit, ConversationStep, PTL DEF Spec

\* A level is unlocked exactly when its key was accepted since the last boot,
\* in conversations of every length.
THEOREM LevelsUnlockedByKey == Spec => []UnlockedByKey
PROOF
  <1>1. ConversationInv => UnlockedByKey
    BY DEF ConversationInv
  <1> QED
    BY <1>1, ConversationInit, ConversationStep, PTL DEF Spec

-----------------------------------------------------------------------------
(* What a step does to the values, and what a refusal may change           *)

\* A read returns the stored value and its padding; a write stores the rest of
\* its request, and nothing else changes a value.
DataEffect(entry) ==
  \A did \in DOMAIN Dids :
    /\ ReadsDid(entry, did)
         => Rest(entry.res.data, 4) = dids[did].value \o Padding(entry.req)
    /\ dids'[did].value =
         IF WritesDid(entry, did) THEN Rest(entry.req, 4) ELSE dids[did].value

RefusalEffect(entry) ==
  \/ entry.event = "boot"
  \/ IsPositive(entry, entry.req[1])
  \/ /\ UNCHANGED <<session, unlocked_levels, dids>>
     /\ UNCHANGED pending_seed_level \/ (RejectsKey(entry) /\ pending_seed_level' = None)

Outcome(entry) == DataEffect(entry) /\ RefusalEffect(entry)

LEMMA QuietOutcome ==
  ASSUME NEW entry \in Entries, Quiet(entry)
  PROVE  Outcome(entry)
PROOF
  <1>1. dids' = dids /\ RefusalEffect(entry)
    BY DEF Quiet, RefusalEffect, state
  <1>2. \A did : ~ReadsDid(entry, did) /\ ~WritesDid(entry, did)
    BY DEF Quiet, ReadsDid, WritesDid
  <1> QED
    BY <1>1, <1>2 DEF Outcome, DataEffect

LEMMA BootOutcome ==
  ASSUME NewProtocolState
  PROVE  Outcome(Boot)
PROOF
  <1>1. Boot.event = "boot"
    BY DEF Boot
  <1> QED
    BY <1>1 DEF NewProtocolState, Outcome, DataEffect, RefusalEffect, ReadsDid, WritesDid

\* What follows the echoed identifier in a positive response.
LEMMA RestOfPositive ==
  ASSUME NEW res \in Bytes, NEW payload \in Bytes, NEW a \in Byte, NEW b \in Byte,
         NEW v \in Bytes, payload = <<a, b>> \o v,
         Len(res) = Len(payload) + 1,
         \A k \in 1..Len(payload) : res[k + 1] = payload[k]
  PROVE  Rest(res, 4) = v
PROOF
  <1>1. /\ Len(v) \in Nat /\ Len(payload) = Len(v) + 2
        /\ \A i \in 1..Len(v) : payload[i + 2] = v[i]
    <2>1. <<a, b>> \in Bytes /\ Len(<<a, b>>) = 2
      BY ShortBytes
    <2> DEFINE s == <<a, b>>
    <2>2. s \in Bytes /\ Len(s) = 2
      BY <2>1
    <2> HIDE DEF s
    <2>3. payload = s \o v
      BY DEF s
    <2> QED
      BY <2>2, <2>3, Concat, BytesAt
  <1>2. Len(res) = Len(v) + 3
    BY <1>1
  <1>3. \A i \in 4..Len(res) : res[i] \in Byte
    BY <1>1, <1>2, BytesAt
  <1>4. /\ Rest(res, 4) \in Seq(Byte)
        /\ Len(Rest(res, 4)) = IF 4 <= Len(res) THEN Len(res) - 4 + 1 ELSE 0
        /\ \A i \in 1..(Len(res) - 4 + 1) : Rest(res, 4)[i] = res[4 + i - 1]
    BY <1>1, <1>2, <1>3, SubSeqProperties DEF Rest
  <1>5. Len(Rest(res, 4)) = Len(v)
    BY <1>1, <1>2, <1>4
  <1>6. ASSUME NEW i \in 1..Len(v)
        PROVE  Rest(res, 4)[i] = v[i]
    <2>1. Rest(res, 4)[i] = res[i + 3]
      BY <1>1, <1>2, <1>4
    <2>2. i + 2 \in 1..Len(payload) /\ (i + 2) + 1 = i + 3
      BY <1>1
    <2>3. res[i + 3] = payload[i + 2]
      BY <2>2
    <2> QED
      BY <1>1, <2>1, <2>3
  <1>7. v \in Seq(Byte)
    BY DEF Bytes
  <1> QED
    BY <1>4, <1>5, <1>6, <1>7, SeqEqual

LEMMA EffectiveOutcome ==
  ASSUME TypeOK, NEW data \in Bytes, Effective(data)
  PROVE  \E entry \in Entries : log' = Append(log, entry) /\ Outcome(entry)
PROOF
  <1>1. ASSUME NEW sid \in {16, 25, 39}, NEW payload \in Bytes,
               data[1] = sid, Answer(data, Positive(sid, payload)), UNCHANGED dids
        PROVE  \E entry \in Entries : log' = Append(log, entry) /\ Outcome(entry)
    <2> DEFINE entry == Exchange(data, Positive(sid, payload))
    <2>1. /\ entry \in Entries /\ log' = Append(log, entry)
          /\ entry.event = "exchange" /\ entry.req = data
          /\ entry.res.kind = "response" /\ entry.res.data[1] = sid + 64
      BY <1>1, PositiveEntry
    <2> HIDE DEF entry
    <2>2. RefusalEffect(entry)
      BY <1>1, <2>1 DEF RefusalEffect
    <2>3. \A did : ~ReadsDid(entry, did) /\ ~WritesDid(entry, did)
      BY <2>1 DEF ReadsDid, WritesDid
    <2> QED
      BY <1>1, <2>1, <2>2, <2>3 DEF Outcome, DataEffect
  <1>2. CASE Dispatched(data, 16) /\ EnterSession(data)
    <2>1. <<SessionOf(data), 0, 50, 1, 244>> \in Bytes
      BY <1>2, PayloadTypes DEF EnterSession
    <2> QED
      BY <1>1, <1>2, <2>1 DEF EnterSession, Dispatched
  <1>3. CASE Dispatched(data, 34) /\ ReturnValue(data)
    <2> DEFINE value == dids[Word(data)].value \o Padding(data)
               payload == <<data[2], data[3]>> \o value
               entry == Exchange(data, Positive(34, payload))
    <2>1. Len(data) >= 2 /\ data[2] \in Byte /\ data[3] \in Byte
      BY <1>3, BytesAt DEF ReturnValue
    <2>2. value \in Bytes /\ payload \in Bytes
      BY <1>3, <2>1, PayloadTypes DEF ReturnValue
    <2>3. Answer(data, Positive(34, payload)) /\ UNCHANGED state
      BY <1>3 DEF ReturnValue
    <2>4. payload = <<data[2], data[3]>> \o value
      OBVIOUS
    <2>5. value = dids[Word(data)].value \o Padding(data)
      OBVIOUS
    <2> HIDE DEF value, payload
    <2>6. Len(payload) >= 2 /\ payload[1] = data[2] /\ payload[2] = data[3]
      BY <2>1, <2>2, <2>4, ConcatHead, BytesAt
    <2>7. /\ entry \in Entries /\ log' = Append(log, entry)
          /\ entry.event = "exchange" /\ entry.req = data
          /\ entry.res.kind = "response" /\ entry.res.data \in Bytes
          /\ entry.res.data[1] = 98
          /\ Len(entry.res.data) = Len(payload) + 1
          /\ \A k \in 1..Len(payload) : entry.res.data[k + 1] = payload[k]
          /\ entry.res.data[2] = data[2] /\ entry.res.data[3] = data[3]
      BY <2>2, <2>3, <2>6, PositiveEntry
    <2> HIDE DEF entry
    <2>8. Rest(entry.res.data, 4) = value
      BY <2>1, <2>2, <2>4, <2>7, RestOfPositive
    <2>9. Word(entry.res.data) = Word(data)
      BY <2>7 DEF Word
    <2>10. DataEffect(entry)
      BY <2>3, <2>5, <2>7, <2>8, <2>9 DEF DataEffect, ReadsDid, WritesDid, state
    <2>11. RefusalEffect(entry)
      BY <1>3, <2>7 DEF RefusalEffect, Dispatched
    <2> QED
      BY <2>7, <2>10, <2>11 DEF Outcome
  <1>4. CASE Dispatched(data, 46) /\ StoreValue(data)
    <2> DEFINE payload == <<data[2], data[3]>>
               entry == Exchange(data, Positive(46, payload))
    <2>1. Len(data) >= 2 /\ data[2] \in Byte /\ data[3] \in Byte
      BY <1>4, BytesAt DEF StoreValue
    <2>2. payload \in Bytes /\ Len(payload) = 2 /\ payload[1] = data[2] /\ payload[2] = data[3]
      BY <2>1, ShortBytes
    <2>3. Answer(data, Positive(46, payload))
      BY <1>4 DEF StoreValue
    <2> HIDE DEF payload
    <2>4. /\ entry \in Entries /\ log' = Append(log, entry)
          /\ entry.event = "exchange" /\ entry.req = data
          /\ entry.res.kind = "response" /\ entry.res.data[1] = 110
          /\ entry.res.data[2] = data[2] /\ entry.res.data[3] = data[3]
      BY <2>2, <2>3, PositiveEntry
    <2> HIDE DEF entry
    <2>5. Word(entry.res.data) = Word(data)
      BY <2>4 DEF Word
    <2>6. \A did \in DOMAIN Dids :
            dids'[did] = IF did = Word(data) THEN Rewritten(dids[did], Rest(data, 4))
                                             ELSE dids[did]
      BY <1>4 DEF TypeOK, StoreValue
    <2>7. \A did \in DOMAIN Dids :
            dids'[did].value = IF did = Word(data) THEN Rest(data, 4) ELSE dids[did].value
      <3>1. \A config, v : Rewritten(config, v).value = v
        BY DEF Rewritten
      <3> QED
        BY <2>6, <3>1
    <2>8. DataEffect(entry)
      BY <2>4, <2>5, <2>7 DEF DataEffect, ReadsDid, WritesDid
    <2>9. RefusalEffect(entry)
      BY <1>4, <2>4 DEF RefusalEffect, Dispatched
    <2> QED
      BY <2>4, <2>8, <2>9 DEF Outcome
  <1>5. CASE Dispatched(data, 25) /\ ReportDtcs(data)
    <2>1. <<2, 255>> \o DtcRecords \in Bytes
      BY <1>5, PayloadTypes DEF ReportDtcs
    <2> QED
      BY <1>1, <1>5, <2>1 DEF ReportDtcs, Dispatched, state
  <1>6. CASE RequestSeed(data)
    <2>1. <<data[2]>> \o SecurityLevels[LevelOf(data[2])].seed \in Bytes
      BY <1>6, PayloadTypes DEF RequestSeed, ServesLevel
    <2> QED
      BY <1>1, <1>6, <2>1 DEF RequestSeed, Dispatched
  <1>7. CASE Dispatched(data, 39) /\ RejectKey(data, LevelOf(data[2]))
    <2> DEFINE entry == Exchange(data, Negative(39, 53))
    <2>1. /\ entry \in Entries /\ log' = Append(log, entry)
          /\ entry.event = "exchange" /\ entry.res.data[1] = 127 /\ RejectsKey(entry)
      BY <1>7, RejectedEntry DEF RejectKey, Dispatched
    <2> HIDE DEF entry
    <2>2. dids' = dids /\ RefusalEffect(entry)
      BY <1>7, <2>1 DEF RejectKey, RefusalEffect
    <2>3. \A did : ~ReadsDid(entry, did) /\ ~WritesDid(entry, did)
      BY <2>1 DEF ReadsDid, WritesDid
    <2> QED
      BY <2>1, <2>2, <2>3 DEF Outcome, DataEffect
  <1>8. CASE Dispatched(data, 39) /\ ServesLevel(data) /\ AcceptKey(data, LevelOf(data[2]))
    <2>1. <<data[2]>> \in Bytes
      BY <1>8, PayloadTypes DEF ServesLevel
    <2> QED
      BY <1>1, <1>8, <2>1 DEF AcceptKey, Dispatched
  <1> QED
    BY <1>2, <1>3, <1>4, <1>5, <1>6, <1>7, <1>8 DEF Effective

LEMMA StepOutcome ==
  ASSUME TypeOK, Next
  PROVE  \E entry \in Entries : log' = Append(log, entry) /\ Outcome(entry)
PROOF
  <1>1. CASE NewProtocolState
    BY <1>1, BootEntry, BootOutcome
  <1>2. ASSUME NEW data \in Requests, handle_request(data)
        PROVE  \E entry \in Entries : log' = Append(log, entry) /\ Outcome(entry)
    <2>1. data \in Bytes
      BY RequestsAssumption
    <2>2. CASE Effective(data)
      BY <2>1, <2>2, EffectiveOutcome
    <2>3. CASE \E entry \in Entries : Quiet(entry)
      BY <2>3, QuietOutcome DEF Quiet
    <2> QED
      BY <1>2, <2>2, <2>3, StepCases
  <1> QED
    BY <1>1, <1>2 DEF Next

\* The values follow the conversation: each is that of the last acknowledged
\* write, or the configured one.
ValueAfter(did, j) == IF j = 1 THEN Dids[did].value ELSE Rest(log[j].req, 4)

LastWrite(did, j, n) ==
  /\ j \in 1..n
  /\ j = 1 \/ WritesDid(log[j], did)
  /\ \A k \in (j + 1)..n : ~WritesDid(log[k], did)

ValuesFollowConversation ==
  \A did \in DOMAIN Dids :
    \E j \in 1..Len(log) : LastWrite(did, j, Len(log)) /\ dids[did].value = ValueAfter(did, j)

ValuesInv == TypeOK /\ ValuesFollowConversation /\ ReadsReturnLastWrite

LEMMA LastWriteKept ==
  ASSUME NEW entry \in Entries, log \in Seq(Entries), log' = Append(log, entry),
         NEW did, NEW n \in 0..Len(log), NEW j \in 1..n, LastWrite(did, j, n)
  PROVE  LastWrite(did, j, n)' /\ ValueAfter(did, j)' = ValueAfter(did, j)
PROOF
  <1>1. Len(log) \in Nat /\ \A i \in 1..Len(log) : log'[i] = log[i]
    BY Longer
  <1>2. \A k \in (j + 1)..n : k \in 1..Len(log)
    BY <1>1
  <1>3. j \in 1..Len(log)
    BY <1>1
  <1>4. log'[j] = log[j] /\ \A k \in (j + 1)..n : log'[k] = log[k]
    BY <1>1, <1>2, <1>3
  <1> QED
    BY <1>4, Zenon DEF LastWrite, ValueAfter

LEMMA ValuesStep ==
  ASSUME TypeOK, ValuesFollowConversation, NEW entry \in Entries, log' = Append(log, entry),
         DataEffect(entry)
  PROVE  ValuesFollowConversation'
PROOF
  <1>0. PICK n \in Nat : n = Len(log)
    BY Longer DEF TypeOK
  <1>1. /\ Len(log) = n /\ Len(log') = n + 1 /\ n >= 1
        /\ \A i \in 1..n : log'[i] = log[i]
        /\ log'[n + 1] = entry
    BY <1>0, Longer DEF TypeOK
  <1> SUFFICES ASSUME NEW did \in DOMAIN Dids
               PROVE  \E j \in 1..(n + 1) : /\ LastWrite(did, j, n + 1)'
                                           /\ dids'[did].value = ValueAfter(did, j)'
    BY <1>1 DEF ValuesFollowConversation
  <1>2. CASE WritesDid(entry, did)
    <2>1. n + 1 \in 1..(n + 1) /\ \A k \in ((n + 1) + 1)..(n + 1) : FALSE
      OBVIOUS
    <2>2. LastWrite(did, n + 1, n + 1)'
      BY <1>1, <1>2, <2>1 DEF LastWrite
    <2>3. ValueAfter(did, n + 1)' = Rest(entry.req, 4)
      BY <1>1 DEF ValueAfter
    <2>4. dids'[did].value = Rest(entry.req, 4)
      BY <1>2 DEF DataEffect
    <2> QED
      BY <2>1, <2>2, <2>3, <2>4
  <1>3. CASE ~WritesDid(entry, did)
    <2>1. PICK j \in 1..n : LastWrite(did, j, n) /\ dids[did].value = ValueAfter(did, j)
      BY <1>1 DEF ValuesFollowConversation
    <2>2. LastWrite(did, j, n)' /\ ValueAfter(did, j)' = ValueAfter(did, j)
      <3>1. n \in 0..Len(log)
        BY <1>1
      <3> QED
        BY <2>1, <3>1, LastWriteKept DEF TypeOK
    <2>3. \A k \in (j + 1)..(n + 1) : k \in (j + 1)..n \/ k = n + 1
      OBVIOUS
    <2>4. LastWrite(did, j, n + 1)'
      BY <1>1, <1>3, <2>2, <2>3 DEF LastWrite
    <2>5. dids'[did].value = dids[did].value
      BY <1>3 DEF DataEffect
    <2> QED
      BY <2>1, <2>2, <2>4, <2>5
  <1> QED
    BY <1>2, <1>3

\* A read appended to the conversation returns what the last write before it
\* stored, and the reads before it are not affected.
LEMMA ReadsStep ==
  ASSUME ValuesInv, NEW entry \in Entries, log' = Append(log, entry), DataEffect(entry)
  PROVE  ReadsReturnLastWrite'
PROOF
  <1>0. PICK n \in Nat : n = Len(log)
    BY Longer DEF ValuesInv, TypeOK
  <1>1. /\ Len(log) = n /\ Len(log') = n + 1
        /\ \A i \in 1..n : log'[i] = log[i]
        /\ log'[n + 1] = entry
        /\ DOMAIN log = 1..n /\ DOMAIN log' = 1..(n + 1)
    BY <1>0, Longer, LenProperties DEF ValuesInv, TypeOK
  <1>2. ReadsReturnLastWrite
          <=> \A i \in DOMAIN log, did \in DOMAIN Dids :
                ReadsDid(log[i], did) =>
                  \E j \in 1..(i - 1) :
                    /\ LastWrite(did, j, i - 1)
                    /\ Rest(log[i].res.data, 4) = ValueAfter(did, j) \o Padding(log[i].req)
    BY DEF ReadsReturnLastWrite, LastWrite, ValueAfter
  <1>3. ReadsReturnLastWrite'
          <=> \A i \in DOMAIN log', did \in DOMAIN Dids :
                ReadsDid(log'[i], did) =>
                  \E j \in 1..(i - 1) :
                    /\ LastWrite(did, j, i - 1)'
                    /\ Rest(log'[i].res.data, 4) = ValueAfter(did, j)' \o Padding(log'[i].req)
    BY DEF ReadsReturnLastWrite, LastWrite, ValueAfter
  <1>4. ASSUME NEW i \in 1..(n + 1), NEW did \in DOMAIN Dids, ReadsDid(log'[i], did)
        PROVE  \E j \in 1..(i - 1) :
                 /\ LastWrite(did, j, i - 1)
                 /\ Rest(log'[i].res.data, 4) = ValueAfter(did, j) \o Padding(log'[i].req)
    <2>1. CASE i = n + 1
      <3>1. PICK j \in 1..n : LastWrite(did, j, n) /\ dids[did].value = ValueAfter(did, j)
        BY <1>1 DEF ValuesInv, ValuesFollowConversation
      <3>2. log'[i] = entry /\ i - 1 = n
        BY <1>1, <2>1
      <3>3. Rest(entry.res.data, 4) = dids[did].value \o Padding(entry.req)
        BY <1>4, <3>2 DEF DataEffect
      <3> QED
        BY <3>1, <3>2, <3>3
    <2>2. CASE i # n + 1
      <3>1. i \in 1..n /\ log'[i] = log[i]
        BY <1>1, <2>2
      <3>2. ReadsReturnLastWrite
        BY DEF ValuesInv
      <3> QED
        BY <1>1, <1>2, <1>4, <3>1, <3>2
    <2> QED
      BY <2>1, <2>2
  <1>5. ASSUME NEW i \in 1..(n + 1), NEW did \in DOMAIN Dids, NEW j \in 1..(i - 1),
               LastWrite(did, j, i - 1)
        PROVE  LastWrite(did, j, i - 1)' /\ ValueAfter(did, j)' = ValueAfter(did, j)
    <2>1. i - 1 \in 0..Len(log)
      BY <1>1
    <2> QED
      BY <1>5, <2>1, LastWriteKept DEF ValuesInv, TypeOK
  <1>6. ASSUME NEW i \in 1..(n + 1), NEW did \in DOMAIN Dids, ReadsDid(log'[i], did)
        PROVE  \E j \in 1..(i - 1) :
                 /\ LastWrite(did, j, i - 1)'
                 /\ Rest(log'[i].res.data, 4) = ValueAfter(did, j)' \o Padding(log'[i].req)
    <2>1. PICK j \in 1..(i - 1) :
            /\ LastWrite(did, j, i - 1)
            /\ Rest(log'[i].res.data, 4) = ValueAfter(did, j) \o Padding(log'[i].req)
      BY <1>4, <1>6
    <2> QED
      BY <1>5, <2>1
  <1> QED
    BY <1>1, <1>3, <1>6

LEMMA ValuesInit == Init => ValuesInv
PROOF
  <1> SUFFICES ASSUME Init PROVE ValuesInv
    OBVIOUS
  <1>1. Len(log) = 1 /\ DOMAIN log = {1} /\ log[1].event = "boot"
    BY DEF Init, Boot
  <1>2. ValuesFollowConversation
    <2>1. \A did \in DOMAIN Dids : LastWrite(did, 1, 1) /\ dids[did].value = ValueAfter(did, 1)
      BY DEF Init, LastWrite, ValueAfter
    <2> QED
      BY <1>1, <2>1 DEF ValuesFollowConversation
  <1>3. ReadsReturnLastWrite
    BY <1>1 DEF ReadsReturnLastWrite, ReadsDid
  <1> QED
    BY <1>2, <1>3, TypeInit DEF ValuesInv

LEMMA ValuesInvStep == ValuesInv /\ [Next]_vars => ValuesInv'
PROOF
  <1> SUFFICES ASSUME ValuesInv, [Next]_vars PROVE ValuesInv'
    OBVIOUS
  <1>1. TypeOK'
    BY TypeStep DEF ValuesInv
  <1>2. CASE UNCHANGED vars
    <2>1. dids' = dids /\ log' = log
      BY <1>2 DEF vars
    <2>2. ValuesFollowConversation'
      BY <2>1, Zenon DEF ValuesInv, ValuesFollowConversation, LastWrite, ValueAfter
    <2>3. ReadsReturnLastWrite'
      BY <2>1, Zenon DEF ValuesInv, ReadsReturnLastWrite
    <2> QED
      BY <1>1, <2>2, <2>3 DEF ValuesInv
  <1>3. CASE Next
    <2>1. PICK entry \in Entries : log' = Append(log, entry) /\ DataEffect(entry)
      BY <1>3, StepOutcome DEF ValuesInv, Outcome
    <2>2. ValuesFollowConversation'
      BY <2>1, ValuesStep DEF ValuesInv
    <2>3. ReadsReturnLastWrite'
      BY <2>1, ReadsStep
    <2> QED
      BY <1>1, <2>2, <2>3 DEF ValuesInv
  <1> QED
    BY <1>2, <1>3

\* A read returns the last acknowledged write, or the configured value, plus
\* the padding that was injected into this read alone, across restarts and in
\* conversations of every length.
THEOREM ReadsSeeLastWrite == Spec => []ReadsReturnLastWrite
PROOF
  <1>1. ValuesInv => ReadsReturnLastWrite
    BY DEF ValuesInv
  <1> QED
    BY <1>1, ValuesInit, ValuesInvStep, PTL DEF Spec

LEMMA RefusalStep ==
  TypeOK /\ [Next]_vars =>
    [ \/ LastEntry'.event = "boot"
      \/ IsPositive(LastEntry', LastEntry'.req[1])
      \/ /\ UNCHANGED <<session, unlocked_levels, dids>>
         /\ \/ UNCHANGED pending_seed_level
            \/ RejectsKey(LastEntry') /\ pending_seed_level' = None ]_vars
PROOF
  <1> SUFFICES ASSUME TypeOK, Next
               PROVE  RefusalEffect(LastEntry')
    BY DEF RefusalEffect
  <1>1. PICK entry \in Entries : log' = Append(log, entry) /\ RefusalEffect(entry)
    BY StepOutcome DEF Outcome
  <1>2. LastEntry' = entry
    BY <1>1, Longer DEF TypeOK, LastEntry
  <1> QED
    BY <1>1, <1>2

\* A request that is not answered positively changes nothing, except that a
\* wrong key uses up the seed, whatever came before it.
THEOREM RefusalsAreQuiet == Spec => RefusalsChangeNothing
PROOF
  <1> QED
    BY TypeInit, TypeStep, RefusalStep, PTL DEF Spec, RefusalsChangeNothing
=============================================================================
