------------------------------- MODULE Exchange -------------------------------
(***************************************************************************)
(* What calls that send a request and wait for an answer may expect of the *)
(* layers below them.  A request may be lost, and so may its answer, which *)
(* may also come too late and be taken for that of a later call.  But no   *)
(* answer is returned twice, none before its request was sent, and those   *)
(* that are returned come in the order of their requests.                  *)
(*                                                                         *)
(* Calls are numbered from 1, and requests and answers by their call.      *)
(***************************************************************************)
EXTENDS Naturals, Sequences

VARIABLES
  phase,     \* of the caller: "idle", "asking" or, once the request was sent, "waiting"
  open,      \* the calls whose answer may yet be returned
  returned   \* the answer that each call returned, 0 for a call that failed

vars == <<phase, open, returned>>

Current == Len(returned) + 1

Init == phase = "idle" /\ open = {} /\ returned = <<>>

Call == phase = "idle" /\ phase' = "asking" /\ UNCHANGED <<open, returned>>

Refuse ==
  /\ phase = "idle"
  /\ returned' = Append(returned, 0)
  /\ UNCHANGED <<phase, open>>

Ask ==
  /\ phase = "asking"
  /\ phase' = "waiting" /\ open' = open \cup {Current}
  /\ UNCHANGED returned

Return ==
  /\ phase = "waiting"
  /\ \E answer \in open :
       /\ returned' = Append(returned, answer)
       /\ open' = {later \in open : later > answer}
  /\ phase' = "idle"

Fail ==
  /\ phase # "idle"
  /\ returned' = Append(returned, 0)
  /\ phase' = "idle" /\ open' \subseteq open

Lose == open' \subseteq open /\ UNCHANGED <<phase, returned>>

Next == Call \/ Refuse \/ Ask \/ Return \/ Fail \/ Lose

Spec == Init /\ [][Next]_vars

\* What a caller can rely on: an answer is to its own call or an earlier one, and
\* later than every answer before it.
InOrder ==
  \A n \in DOMAIN returned :
    returned[n] # 0 =>
      returned[n] <= n /\ \A k \in 1..(n - 1) : returned[k] < returned[n]
=============================================================================
