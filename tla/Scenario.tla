------------------------------ MODULE Scenario ------------------------------
(***************************************************************************)
(* The data a virtual ECU is configured with (diag/virtual_ecu/            *)
(* scenario.py): its identifiers (DIDs), security levels, trouble codes    *)
(* and injected failures.  A scenario is a parameter of every module that  *)
(* models the responder.                                                   *)
(***************************************************************************)
EXTENDS Integers, Sequences

CONSTANTS
  InitialSession,     \* Scenario.initial_session
  Dids,               \* Scenario.dids: DID -> DIDConfig, as configured
  SecurityLevels,     \* Scenario.security_levels: level -> seed and key
  Dtcs,               \* Scenario.dtcs
  FailureInjections   \* Scenario.failure_injections, in list order

\* Python's None where an integer is expected; no selector, session or level
\* of the code is negative.
None == -1

Byte == 0..255
Bytes == Seq(Byte)

DIDConfig == [value: Bytes, session_gate: Nat \cup {None}, read_only: BOOLEAN]
SecurityLevelConfig == [seed: Bytes, key: Bytes]
DTC == [code: [1..3 -> Byte], status: Byte]   \* "3-byte DTC code"

FailureKind == {"nrc", "timeout", "truncated", "oversized"}
FailureInjection ==
  [service_id: Byte, selector: Nat \cup {None}, kind: FailureKind,
   nrc: Byte, declared_length: Nat, extra_bytes: Nat]

ASSUME ScenarioAssumption ==
  /\ InitialSession \in Nat
  /\ DOMAIN Dids \subseteq Nat
  /\ Dids \in [DOMAIN Dids -> DIDConfig]
  /\ DOMAIN SecurityLevels \subseteq Nat
  /\ SecurityLevels \in [DOMAIN SecurityLevels -> SecurityLevelConfig]
  /\ Dtcs \in Seq(DTC)
  /\ FailureInjections \in Seq(FailureInjection)

-----------------------------------------------------------------------------
(* Which injection applies to a request.  InjectionMatch models the loop   *)
(* of matching_injection step by step and shows that it computes this.     *)

\* The positions of the injections for exactly this service and selector.
Matches(injections, service_id, selector) ==
  {i \in DOMAIN injections :
     /\ injections[i].service_id = service_id
     /\ injections[i].selector = selector}

IsFirst(i, S) == i \in S /\ \A j \in S : i <= j
IsLast(i, S) == i \in S /\ \A j \in S : j <= i

\* i is the position of the first exact match, failing that of the LAST
\* wildcard; 0 when there is neither.  For a request without a selector the
\* wildcards are the exact matches.
IsMatch(i, injections, service_id, selector) ==
  LET exact == Matches(injections, service_id, selector)
      wildcard == Matches(injections, service_id, None)
  IN  \/ IsFirst(i, exact)
      \/ exact = {} /\ IsLast(i, wildcard)
      \/ exact = {} /\ wildcard = {} /\ i = 0

\* matching_injection returned None.
NoInjection ==
  [service_id |-> None, selector |-> None, kind |-> "none",
   nrc |-> 0, declared_length |-> 0, extra_bytes |-> 0]

matching_injection(service_id, selector) ==
  LET i == CHOOSE i \in {0} \cup DOMAIN FailureInjections :
             IsMatch(i, FailureInjections, service_id, selector)
  IN  IF i = 0 THEN NoInjection ELSE FailureInjections[i]
=============================================================================
