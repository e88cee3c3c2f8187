---------------------------- MODULE InjectionMatch ----------------------------
(***************************************************************************)
(* The loop of Scenario.matching_injection (diag/virtual_ecu/scenario.py), *)
(* one action per iteration.                                               *)
(***************************************************************************)
EXTENDS Scenario

CONSTANTS
  Lists,      \* the lists of failure injections to search
  Services,   \* the service IDs asked for
  Selectors   \* the selectors asked for

ASSUME QueryAssumption ==
  /\ Lists \subseteq Seq(FailureInjection)
  /\ Services \subseteq Byte
  /\ Selectors \subseteq Nat \cup {None}

VARIABLES
  injections, service_id, selector,   \* the call's arguments
  i,          \* the position the for loop looks at
  wildcard,   \* position of the wildcard remembered so far, 0 for None
  result,     \* position of the injection returned, 0 for None
  pc          \* "loop", or "returned"

arguments == <<injections, service_id, selector>>
vars == <<injections, service_id, selector, i, wildcard, result, pc>>

Init ==
  /\ injections \in Lists
  /\ service_id \in Services
  /\ selector \in Selectors
  /\ i = 1 /\ wildcard = 0 /\ result = 0
  /\ pc = "loop"

Return(position) == pc' = "returned" /\ result' = position /\ UNCHANGED <<i, wildcard>>

OtherService ==
  /\ injections[i].service_id # service_id
  /\ i' = i + 1
  /\ UNCHANGED <<wildcard, result, pc>>

\* Mutant of ExactMatch: a wildcard ends the search as an exact match does.
ExactMatchOrWildcard ==
  /\ injections[i].service_id = service_id
  /\ injections[i].selector \in {selector, None}
  /\ Return(i)

ExactMatch ==
  /\ injections[i].service_id = service_id
  /\ injections[i].selector = selector
  /\ Return(i)

\* A wildcard replaces the one remembered before it.
NoExactMatch ==
  /\ injections[i].service_id = service_id
  /\ injections[i].selector # selector
  /\ wildcard' = IF injections[i].selector = None THEN i ELSE wildcard
  /\ i' = i + 1
  /\ UNCHANGED <<result, pc>>

Iterate ==
  /\ pc = "loop" /\ i <= Len(injections)
  /\ OtherService \/ ExactMatch \/ NoExactMatch
  /\ UNCHANGED arguments

EndOfLoop ==
  /\ pc = "loop" /\ i > Len(injections)
  /\ Return(wildcard)
  /\ UNCHANGED arguments

Next == Iterate \/ EndOfLoop

Spec == Init /\ [][Next]_vars

-----------------------------------------------------------------------------
(* Properties                                                              *)

\* The loop returns the first injection for exactly this service and selector
\* wherever wildcards stand in the list; without one, the last wildcard; and
\* nothing only when the service has neither ("Exact matches take priority
\* over wildcard ones").
ReturnsMatch == pc = "returned" => IsMatch(result, injections, service_id, selector)

\* The inductive invariant: no exact match has been passed, and wildcard is
\* the last one passed.
Passed(S) == S \cap 1..(i - 1)

LoopInv ==
  /\ injections \in Seq(FailureInjection)
  /\ i \in 1..(Len(injections) + 1)
  /\ pc \in {"loop", "returned"}
  /\ wildcard \in Nat
  /\ pc = "loop" =>
       /\ Passed(Matches(injections, service_id, selector)) = {}
       /\ LET passed == Passed(Matches(injections, service_id, None))
          IN  IsLast(wildcard, passed) \/ (passed = {} /\ wildcard = 0)
  /\ ReturnsMatch
=============================================================================
