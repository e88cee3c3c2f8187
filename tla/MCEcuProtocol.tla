---------------------------- MODULE MCEcuProtocol ----------------------------
(***************************************************************************)
(* A small scenario for EcuProtocol, and the requests a client sends: what *)
(* changes the ECU, what it refuses, what an injected failure answers and  *)
(* what is too short to be understood.  The bytes are those of the         *)
(* repository's own tests where they have them.                            *)
(***************************************************************************)
EXTENDS EcuProtocol, TLC

\* 1 is gated to the extended session, 2 is read-only.
MCDids ==
  1 :> [value |-> <<7>>, session_gate |-> 3, read_only |-> FALSE]
  @@ 2 :> [value |-> <<8>>, session_gate |-> None, read_only |-> TRUE]

MCLevels == [l \in {1, 2} |-> [seed |-> <<l>>, key |-> <<16 + l>>]]

MCDtcs == <<[code |-> <<1, 35, 69>>, status |-> 9]>>

\* Reads of 2 and every write are padded; one session change is answered
\* malformed, one security sub-function with invalidKey and one not at all.
Injection(sid, sel, kind) ==
  [service_id |-> sid, selector |-> sel, kind |-> kind, nrc |-> NRC_INVALID_KEY,
   declared_length |-> 100, extra_bytes |-> 2]

MCInjections ==
  <<Injection(34, 2, "oversized"), Injection(16, 1, "truncated"),
    Injection(46, None, "oversized"),
    Injection(39, 5, "nrc"), Injection(39, 6, "timeout")>>

SessionRequests == {<<16>>, <<16, 3>>, <<16, 130>>, <<16, 1>>, <<16, 5>>}
DidRequests ==
  {<<34, 0>>, <<34, 0, 1>>, <<34, 0, 2>>, <<34, 0, 3>>,
   <<46, 0>>, <<46, 0, 1>>, <<46, 0, 1, 9>>, <<46, 0, 2, 9>>}
SecurityRequests ==
  {<<39>>, <<39, 1>>, <<39, 2, 17>>, <<39, 2, 18>>, <<39, 3>>, <<39, 4, 18>>,
   <<39, 5>>, <<39, 6>>, <<39, 127>>}
OtherRequests == {<<>>, <<25>>, <<25, 1>>, <<25, 2>>, <<62, 0>>}

MCRequests == SessionRequests \cup DidRequests \cup SecurityRequests \cup OtherRequests
=============================================================================
