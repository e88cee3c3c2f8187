----------------------------- MODULE EcuProtocol -----------------------------
(***************************************************************************)
(* The virtual ECU's UDS state machine (diag/virtual_ecu/protocol.py): one *)
(* ProtocolState answering requests, one action per branch of              *)
(* handle_request, over real request and reply bytes.  ProtocolStates are  *)
(* created one after the other over the SAME Scenario object, which is     *)
(* what restarting a VirtualEcu from its scenario does.                    *)
(*                                                                         *)
(* log records the conversation.  The properties below are stated over it: *)
(* what a tester on the bus can rely on, not what a field happens to hold. *)
(***************************************************************************)
EXTENDS Scenario

CONSTANTS
  Requests,       \* the byte strings a client may send
  MaxExchanges    \* bound on Len(log)

ASSUME RequestsAssumption ==
  /\ Requests \subseteq Bytes
  /\ MaxExchanges \in Nat

VARIABLES
  session,              \* ProtocolState.session
  unlocked_levels,      \* ProtocolState.unlocked_levels
  pending_seed_level,   \* ProtocolState._pending_seed_level, or None
  dids,                 \* ProtocolState.scenario.dids: the shared dict
  log                   \* the conversation so far, boots included

state == <<session, unlocked_levels, pending_seed_level, dids>>
vars == <<session, unlocked_levels, pending_seed_level, dids, log>>

NRC_SERVICE_NOT_SUPPORTED == 17
NRC_SUB_FUNCTION_NOT_SUPPORTED == 18
NRC_INCORRECT_LENGTH == 19
NRC_CONDITIONS_NOT_CORRECT == 34
NRC_REQUEST_SEQUENCE_ERROR == 36
NRC_REQUEST_OUT_OF_RANGE == 49
NRC_INVALID_KEY == 53

SID_DIAGNOSTIC_SESSION_CONTROL == 16
SID_READ_DTC_INFORMATION == 25
SID_READ_DATA_BY_IDENTIFIER == 34
SID_SECURITY_ACCESS == 39
SID_WRITE_DATA_BY_IDENTIFIER == 46

KNOWN_SESSIONS == {1, 2, 3, 4}

-----------------------------------------------------------------------------
(* ProtocolResult                                                          *)

Silence == [kind |-> "silence", data |-> <<>>, declared_length |-> 0]
Response(data) == [kind |-> "response", data |-> data, declared_length |-> 0]
Malformed(length) ==
  [kind |-> "malformed", data |-> <<>>, declared_length |-> length]

Negative(sid, nrc) == Response(<<127, sid, nrc>>)
Positive(sid, payload) == Response(<<sid + 64>> \o payload)

Results ==
  [kind: {"response", "silence", "malformed"}, data: Bytes, declared_length: Nat]

Boot == [event |-> "boot", req |-> <<>>, res |-> Silence]
Exchange(data, res) == [event |-> "exchange", req |-> data, res |-> res]
Entries == [event: {"boot", "exchange"}, req: Bytes, res: Results]

-----------------------------------------------------------------------------
(* Reading a request                                                       *)

\* Sequences count from 1: data[k] here is data[k - 1] in the code.
Word(data) == 256 * data[2] + data[3]
Rest(data, from) == SubSeq(data, from, Len(data))

SelectorFor(data) ==
  IF data[1] \in {SID_READ_DATA_BY_IDENTIFIER, SID_WRITE_DATA_BY_IDENTIFIER}
    THEN IF Len(data) >= 3 THEN Word(data) ELSE None
    ELSE IF Len(data) >= 2 THEN data[2] ELSE None

InjectionFor(data) == matching_injection(data[1], SelectorFor(data))

IsRequestSeed(subfunction) == subfunction % 2 = 1
LevelOf(subfunction) ==
  IF IsRequestSeed(subfunction) THEN (subfunction + 1) \div 2 ELSE subfunction \div 2

Padding(data) ==
  LET injection == InjectionFor(data)
  IN  IF injection.kind = "oversized"
        THEN [i \in 1..injection.extra_bytes |-> 0]
        ELSE <<>>

\* Every DTC's three code bytes and its status, one after the other.
DtcRecords ==
  [k \in 1..(4 * Len(Dtcs)) |->
     LET dtc == Dtcs[((k - 1) \div 4) + 1]
         p == ((k - 1) % 4) + 1
     IN  IF p = 4 THEN dtc.status ELSE dtc.code[p]]

-----------------------------------------------------------------------------
(* A fresh ProtocolState over the scenario as configured.                  *)

Init ==
  /\ session = InitialSession
  /\ unlocked_levels = {}
  /\ pending_seed_level = None
  /\ dids = Dids
  /\ log = <<Boot>>

\* Mutant of NewProtocolState: unlocked_levels is one set for all instances.
NewProtocolStateSharingLevels ==
  /\ session' = InitialSession
  /\ pending_seed_level' = None
  /\ log' = Append(log, Boot)
  /\ UNCHANGED <<unlocked_levels, dids>>

\* Mutant of NewProtocolState: the session outlives the ProtocolState.
NewProtocolStateKeepingSession ==
  /\ unlocked_levels' = {}
  /\ pending_seed_level' = None
  /\ log' = Append(log, Boot)
  /\ UNCHANGED <<session, dids>>

\* Another ProtocolState is created over the same Scenario: its own fields
\* start afresh, the shared dids dict is as the previous one left it.
NewProtocolState ==
  /\ session' = InitialSession
  /\ unlocked_levels' = {}
  /\ pending_seed_level' = None
  /\ log' = Append(log, Boot)
  /\ UNCHANGED dids

\* handle_request returns res for data.
Answer(data, res) == log' = Append(log, Exchange(data, res))

\* No SID to answer to.
EmptyRequest(data) ==
  /\ data = <<>>
  /\ Answer(data, Silence)
  /\ UNCHANGED state

\* The kinds that answer in place of the handler; "oversized" does not.
Intercepted(data) == InjectionFor(data).kind \in {"timeout", "nrc", "truncated"}

InjectedResult(data) ==
  LET injection == InjectionFor(data)
  IN  CASE injection.kind = "timeout" -> Silence
        [] injection.kind = "nrc" -> Negative(data[1], injection.nrc)
        [] injection.kind = "truncated" -> Malformed(injection.declared_length)

InjectedFailure(data) ==
  /\ data # <<>>
  /\ Intercepted(data)
  /\ Answer(data, InjectedResult(data))
  /\ UNCHANGED state

\* The request reaches the handler of service sid.
Dispatched(data, sid) == data # <<>> /\ data[1] = sid /\ ~Intercepted(data)

Refuse(data, nrc) == Answer(data, Negative(data[1], nrc)) /\ UNCHANGED state

UnknownService(data) ==
  /\ data # <<>> /\ ~Intercepted(data)
  /\ data[1] \notin {SID_DIAGNOSTIC_SESSION_CONTROL, SID_READ_DTC_INFORMATION,
                     SID_READ_DATA_BY_IDENTIFIER, SID_SECURITY_ACCESS,
                     SID_WRITE_DATA_BY_IDENTIFIER}
  /\ Refuse(data, NRC_SERVICE_NOT_SUPPORTED)

\* DiagnosticSessionControl.  Neither the unlocked levels nor a pending seed
\* are touched by a change of session.
SessionOf(data) == data[2] % 128

\* Mutant of EnterSession: the suppress bit is stored with the session.
EnterSessionUnmasked(data) ==
  /\ Len(data) >= 2
  /\ SessionOf(data) \in KNOWN_SESSIONS
  /\ session' = data[2]
  /\ Answer(data, Positive(SID_DIAGNOSTIC_SESSION_CONTROL,
                           <<SessionOf(data), 0, 50, 1, 244>>))
  /\ UNCHANGED <<unlocked_levels, pending_seed_level, dids>>

EnterSession(data) ==
  /\ Len(data) >= 2
  /\ SessionOf(data) \in KNOWN_SESSIONS
  /\ session' = SessionOf(data)
  /\ Answer(data, Positive(SID_DIAGNOSTIC_SESSION_CONTROL,
                           <<SessionOf(data), 0, 50, 1, 244>>))
  /\ UNCHANGED <<unlocked_levels, pending_seed_level, dids>>

SessionControl(data) ==
  /\ Dispatched(data, SID_DIAGNOSTIC_SESSION_CONTROL)
  /\ \/ /\ Len(data) < 2
        /\ Refuse(data, NRC_INCORRECT_LENGTH)
     \/ /\ Len(data) >= 2
        /\ SessionOf(data) \notin KNOWN_SESSIONS
        /\ Refuse(data, NRC_SUB_FUNCTION_NOT_SUPPORTED)
     \/ EnterSession(data)

\* Mutant of Readable: any session but the default one opens the gate.
ReadableOutsideDefault(did) == dids[did].session_gate = None \/ session # 1

\* ReadDataByIdentifier.
Readable(did) == dids[did].session_gate \in {None, session}

ReturnValue(data) ==
  /\ Len(data) >= 3
  /\ Word(data) \in DOMAIN dids
  /\ Readable(Word(data))
  /\ Answer(data, Positive(SID_READ_DATA_BY_IDENTIFIER,
       <<data[2], data[3]>> \o (dids[Word(data)].value \o Padding(data))))
  /\ UNCHANGED state

ReadDid(data) ==
  /\ Dispatched(data, SID_READ_DATA_BY_IDENTIFIER)
  /\ \/ /\ Len(data) < 3
        /\ Refuse(data, NRC_INCORRECT_LENGTH)
     \/ /\ Len(data) >= 3
        /\ Word(data) \notin DOMAIN dids
        /\ Refuse(data, NRC_REQUEST_OUT_OF_RANGE)
     \/ /\ Len(data) >= 3
        /\ Word(data) \in DOMAIN dids
        /\ ~Readable(Word(data))
        /\ Refuse(data, NRC_CONDITIONS_NOT_CORRECT)
     \/ ReturnValue(data)

\* WriteDataByIdentifier: no check of the session.
Writable(did) == did \in DOMAIN dids /\ ~dids[did].read_only

Rewritten(config, value) ==
  [value |-> value, session_gate |-> config.session_gate, read_only |-> config.read_only]

\* Mutant of StoreValue: an oversized injection pads what is stored.
StoreValuePadded(data) ==
  /\ Len(data) >= 3
  /\ Writable(Word(data))
  /\ dids' = [dids EXCEPT ![Word(data)] = Rewritten(@, Rest(data, 4) \o Padding(data))]
  /\ Answer(data, Positive(SID_WRITE_DATA_BY_IDENTIFIER, <<data[2], data[3]>>))
  /\ UNCHANGED <<session, unlocked_levels, pending_seed_level>>

StoreValue(data) ==
  /\ Len(data) >= 3
  /\ Writable(Word(data))
  /\ dids' = [dids EXCEPT ![Word(data)] = Rewritten(@, Rest(data, 4))]
  /\ Answer(data, Positive(SID_WRITE_DATA_BY_IDENTIFIER, <<data[2], data[3]>>))
  /\ UNCHANGED <<session, unlocked_levels, pending_seed_level>>

WriteDid(data) ==
  /\ Dispatched(data, SID_WRITE_DATA_BY_IDENTIFIER)
  /\ \/ /\ Len(data) < 3
        /\ Refuse(data, NRC_INCORRECT_LENGTH)
     \/ /\ Len(data) >= 3
        /\ ~Writable(Word(data))
        /\ Refuse(data, NRC_REQUEST_OUT_OF_RANGE)
     \/ StoreValue(data)

\* ReadDTCInformation, reportDTCByStatusMask only.
ReportDtcs(data) ==
  /\ Len(data) >= 2
  /\ data[2] = 2
  /\ Answer(data, Positive(SID_READ_DTC_INFORMATION, <<2, 255>> \o DtcRecords))
  /\ UNCHANGED state

ReadDtcInformation(data) ==
  /\ Dispatched(data, SID_READ_DTC_INFORMATION)
  /\ \/ /\ Len(data) < 2
        /\ Refuse(data, NRC_INCORRECT_LENGTH)
     \/ /\ Len(data) >= 2
        /\ data[2] # 2
        /\ Refuse(data, NRC_SUB_FUNCTION_NOT_SUPPORTED)
     \/ ReportDtcs(data)

\* SecurityAccess.  The sub-function is valid and its level is configured.
ServesLevel(data) ==
  /\ Len(data) >= 2
  /\ data[2] \notin {0, 127}
  /\ LevelOf(data[2]) \in DOMAIN SecurityLevels

SecurityAccessRefused(data) ==
  /\ Dispatched(data, SID_SECURITY_ACCESS)
  /\ ~ServesLevel(data)
  /\ Refuse(data, IF Len(data) < 2 THEN NRC_INCORRECT_LENGTH
                                   ELSE NRC_SUB_FUNCTION_NOT_SUPPORTED)

RequestSeed(data) ==
  /\ Dispatched(data, SID_SECURITY_ACCESS)
  /\ ServesLevel(data)
  /\ IsRequestSeed(data[2])
  /\ pending_seed_level' = LevelOf(data[2])
  /\ Answer(data, Positive(SID_SECURITY_ACCESS,
                           <<data[2]>> \o SecurityLevels[LevelOf(data[2])].seed))
  /\ UNCHANGED <<session, unlocked_levels, dids>>

\* Mutant of RejectKey: the seed survives a wrong key.
RejectKeyKeepingSeed(data, level) ==
  /\ pending_seed_level = level
  /\ Rest(data, 3) # SecurityLevels[level].key
  /\ Answer(data, Negative(SID_SECURITY_ACCESS, NRC_INVALID_KEY))
  /\ UNCHANGED state

RejectKey(data, level) ==
  /\ pending_seed_level = level
  /\ Rest(data, 3) # SecurityLevels[level].key
  /\ pending_seed_level' = None
  /\ Answer(data, Negative(SID_SECURITY_ACCESS, NRC_INVALID_KEY))
  /\ UNCHANGED <<session, unlocked_levels, dids>>

AcceptKey(data, level) ==
  /\ pending_seed_level = level
  /\ Rest(data, 3) = SecurityLevels[level].key
  /\ pending_seed_level' = None
  /\ unlocked_levels' = unlocked_levels \cup {level}
  /\ Answer(data, Positive(SID_SECURITY_ACCESS, <<data[2]>>))
  /\ UNCHANGED <<session, dids>>

\* Mutant of SendKey: the seed is consumed before the level is compared.
SendKeyDroppingSeed(data) ==
  /\ Dispatched(data, SID_SECURITY_ACCESS)
  /\ ServesLevel(data)
  /\ ~IsRequestSeed(data[2])
  /\ \/ /\ pending_seed_level # LevelOf(data[2])
        /\ pending_seed_level' = None
        /\ Answer(data, Negative(data[1], NRC_REQUEST_SEQUENCE_ERROR))
        /\ UNCHANGED <<session, unlocked_levels, dids>>
     \/ RejectKey(data, LevelOf(data[2]))
     \/ AcceptKey(data, LevelOf(data[2]))

\* Any key for the pending level consumes the seed, the wrong one too.
SendKey(data) ==
  /\ Dispatched(data, SID_SECURITY_ACCESS)
  /\ ServesLevel(data)
  /\ ~IsRequestSeed(data[2])
  /\ \/ /\ pending_seed_level # LevelOf(data[2])
        /\ Refuse(data, NRC_REQUEST_SEQUENCE_ERROR)
     \/ RejectKey(data, LevelOf(data[2]))
     \/ AcceptKey(data, LevelOf(data[2]))

handle_request(data) ==
  \/ EmptyRequest(data)
  \/ InjectedFailure(data)
  \/ UnknownService(data)
  \/ SessionControl(data)
  \/ ReadDid(data)
  \/ WriteDid(data)
  \/ ReadDtcInformation(data)
  \/ SecurityAccessRefused(data)
  \/ RequestSeed(data)
  \/ SendKey(data)

Next ==
  /\ Len(log) < MaxExchanges
  /\ \/ \E data \in Requests : handle_request(data)
     \/ NewProtocolState

Spec == Init /\ [][Next]_vars

-----------------------------------------------------------------------------
(* Reading the conversation: what an entry of the log tells a tester.      *)

IsPositive(entry, sid) ==
  entry.event = "exchange" /\ entry.res.kind = "response" /\ entry.res.data[1] = sid + 64

\* The session the ECU announced: by a positive reply, or by booting.
Announces(entry, s) ==
  \/ entry.event = "boot" /\ s = InitialSession
  \/ IsPositive(entry, SID_DIAGNOSTIC_SESSION_CONTROL) /\ s = entry.res.data[2]

AnnouncesAny(entry) ==
  entry.event = "boot" \/ IsPositive(entry, SID_DIAGNOSTIC_SESSION_CONTROL)

ReadsDid(entry, did) ==
  IsPositive(entry, SID_READ_DATA_BY_IDENTIFIER) /\ Word(entry.res.data) = did

WritesDid(entry, did) ==
  IsPositive(entry, SID_WRITE_DATA_BY_IDENTIFIER) /\ Word(entry.res.data) = did

GrantsSeed(entry, level) ==
  /\ IsPositive(entry, SID_SECURITY_ACCESS)
  /\ IsRequestSeed(entry.res.data[2])
  /\ LevelOf(entry.res.data[2]) = level

AcceptsKey(entry, level) ==
  /\ IsPositive(entry, SID_SECURITY_ACCESS)
  /\ ~IsRequestSeed(entry.res.data[2])
  /\ LevelOf(entry.res.data[2]) = level

\* A wrong key that reached the handler (an injected failure is not a try).
RejectsKey(entry) ==
  /\ entry.event = "exchange"
  /\ entry.res = Negative(SID_SECURITY_ACCESS, NRC_INVALID_KEY)
  /\ ~Intercepted(entry.req)

\* What leaves no seed outstanding, or another one.
DisturbsSeed(entry) ==
  \/ entry.event = "boot"
  \/ IsPositive(entry, SID_SECURITY_ACCESS)
  \/ RejectsKey(entry)

-----------------------------------------------------------------------------
(* Properties                                                              *)

\* The session is one of the four known ones (or the configured initial one),
\* only configured levels are unlocked or pending, and everything answered is
\* made of bytes.
TypeOK ==
  /\ session \in KNOWN_SESSIONS \cup {InitialSession}
  /\ unlocked_levels \subseteq DOMAIN SecurityLevels
  /\ pending_seed_level \in DOMAIN SecurityLevels \cup {None}
  /\ dids \in [DOMAIN Dids -> DIDConfig]
  /\ log \in Seq(Entries)
  /\ Len(log) >= 1

\* The ECU is in the session it last announced: the tester that follows the
\* positive DiagnosticSessionControl replies always knows it.
SessionAnnounced(s, n) ==
  \E j \in 1..n :
    /\ Announces(log[j], s)
    /\ \A k \in (j + 1)..n : ~AnnouncesAny(log[k])

SessionFollowsConversation == SessionAnnounced(session, Len(log))

\* A gated DID is read successfully only while the session last announced to
\* the tester is its gate, whatever was refused, injected or restarted since.
GatedReads ==
  \A i \in DOMAIN log, did \in DOMAIN Dids :
    ReadsDid(log[i], did) /\ Dids[did].session_gate # None
      => SessionAnnounced(Dids[did].session_gate, i - 1)

\* A successful read returns the bytes of the last acknowledged write of that
\* DID (the configured value before the first), plus the padding of an
\* oversized injection and nothing else: a padded or refused exchange never
\* leaks into the stored value, and a new ECU on the scenario sees the writes.
ReadsReturnLastWrite ==
  \A i \in DOMAIN log, did \in DOMAIN Dids :
    ReadsDid(log[i], did) =>
      \E j \in 1..(i - 1) :
        /\ j = 1 \/ WritesDid(log[j], did)
        /\ \A k \in (j + 1)..(i - 1) : ~WritesDid(log[k], did)
        /\ Rest(log[i].res.data, 4) =
             (IF j = 1 THEN Dids[did].value ELSE Rest(log[j].req, 4))
               \o Padding(log[i].req)

\* The seed for level that was granted by exchange j \in 1..n is still unused.
SeedOutstanding(level, n) ==
  \E j \in 1..n :
    /\ GrantsSeed(log[j], level)
    /\ \A k \in (j + 1)..n : ~DisturbsSeed(log[k])

\* data brings the configured key of the level to the security handler.
BringsKey(data, level) ==
  /\ Dispatched(data, SID_SECURITY_ACCESS)
  /\ ServesLevel(data)
  /\ ~IsRequestSeed(data[2])
  /\ LevelOf(data[2]) = level
  /\ Rest(data, 3) = SecurityLevels[level].key

\* A key is accepted exactly when it is the right one and answers a seed that
\* was granted for this level and not used, replaced or lost in a restart
\* since: one seed buys one attempt, and session changes, reads, writes and
\* injected failures between seed and key neither waste it nor stand in for it.
KeyAnswersSeed ==
  \A i \in DOMAIN log, level \in DOMAIN SecurityLevels :
    AcceptsKey(log[i], level)
      <=> /\ BringsKey(log[i].req, level)
          /\ SeedOutstanding(level, i - 1)

\* A level is unlocked exactly when its key was accepted since the last boot.
UnlockedByKey ==
  \A level \in DOMAIN SecurityLevels :
    level \in unlocked_levels
      <=> \E i \in DOMAIN log :
            /\ AcceptsKey(log[i], level)
            /\ \A k \in (i + 1)..Len(log) : log[k].event # "boot"

\* Writing never loosens a DID: its session gate and read-only flag stay as
\* configured, and the value of a read-only one never changes.
AccessRulesKept ==
  \A did \in DOMAIN Dids :
    /\ dids[did].session_gate = Dids[did].session_gate
    /\ dids[did].read_only = Dids[did].read_only
    /\ Dids[did].read_only => dids[did].value = Dids[did].value

\* A request that is not answered positively changes nothing, except that a
\* wrong key uses up the seed: no handler acts before it refuses, and an
\* injected failure stands in for the handler without running it.
LastEntry == log[Len(log)]

RefusalsChangeNothing ==
  [][ \/ LastEntry'.event = "boot"
      \/ IsPositive(LastEntry', LastEntry'.req[1])
      \/ /\ UNCHANGED <<session, unlocked_levels, dids>>
         /\ \/ UNCHANGED pending_seed_level
            \/ RejectsKey(LastEntry') /\ pending_seed_level' = None ]_vars
=============================================================================
