------------------------- MODULE InjectionMatchProofs -------------------------
(***************************************************************************)
(* The search loop returns the documented match for every list.            *)
(***************************************************************************)
EXTENDS InjectionMatch, SequenceTheorems, TLAPS

LEMMA LoopInit == Init => LoopInv
PROOF
  <1> SUFFICES ASSUME Init PROVE LoopInv
    OBVIOUS
  <1>1. injections \in Seq(FailureInjection) /\ Len(injections) \in Nat
    BY QueryAssumption, LenProperties DEF Init
  <1> QED
    BY <1>1 DEF Init, LoopInv, Passed, ReturnsMatch

LEMMA LoopStep == LoopInv /\ [Next]_vars => LoopInv'
PROOF
  <1> SUFFICES ASSUME LoopInv, [Next]_vars PROVE LoopInv'
    OBVIOUS
  <1> DEFINE exact == Matches(injections, service_id, selector)
             wild == Matches(injections, service_id, None)
  <1>0. /\ Len(injections) \in Nat /\ DOMAIN injections = 1..Len(injections)
        /\ exact \subseteq 1..Len(injections) /\ wild \subseteq 1..Len(injections)
    BY LenProperties DEF LoopInv, Matches
  <1>1. CASE UNCHANGED vars
    BY <1>1 DEF LoopInv, ReturnsMatch, vars, Passed
  <1>2. CASE EndOfLoop
    <2>1. exact = {}
      BY <1>0, <1>2 DEF EndOfLoop, LoopInv, Passed
    <2>2. (wild = {} /\ wildcard = 0) \/ IsLast(wildcard, wild)
      <3>1. Passed(wild) = wild
        BY <1>0, <1>2 DEF EndOfLoop, LoopInv, Passed
      <3> QED
        BY <1>2, <3>1 DEF EndOfLoop, LoopInv
    <2>3. IsMatch(wildcard, injections, service_id, selector)
      BY <2>1, <2>2 DEF IsMatch
    <2> QED
      BY <1>2, <2>3 DEF EndOfLoop, Return, arguments, LoopInv, ReturnsMatch
  <1>3. CASE Iterate /\ ExactMatch
    <2>1. i \in exact
      BY <1>0, <1>3 DEF Iterate, ExactMatch, Matches, LoopInv
    <2>2. IsFirst(i, exact)
      BY <1>0, <1>3, <2>1 DEF IsFirst, Iterate, LoopInv, Passed
    <2>3. IsMatch(i, injections, service_id, selector)
      BY <2>2 DEF IsMatch
    <2> QED
      BY <1>3, <2>3 DEF Iterate, ExactMatch, Return, arguments, LoopInv, ReturnsMatch
  <1>4. CASE Iterate /\ (OtherService \/ NoExactMatch)
    <2>1. /\ pc = "loop" /\ pc' = "loop" /\ i' = i + 1
          /\ i \in 1..Len(injections)
          /\ UNCHANGED <<injections, service_id, selector, result>>
      BY <1>0, <1>4 DEF Iterate, OtherService, NoExactMatch, arguments, LoopInv
    <2>2. i \notin exact
      BY <1>4 DEF OtherService, NoExactMatch, Matches
    <2>3. (exact \cap 1..i) = {}
      BY <1>0, <2>1, <2>2 DEF LoopInv, Passed
    <2> DEFINE before == wild \cap 1..(i - 1)
               after == wild \cap 1..i
    <2>4. IsLast(wildcard, before) \/ (before = {} /\ wildcard = 0)
      BY <2>1 DEF LoopInv, Passed
    <2>5. /\ IsLast(wildcard', after) \/ (after = {} /\ wildcard' = 0)
          /\ wildcard' \in Nat
      <3>1. CASE i \in wild
        <4>1. wildcard' = i
          BY <1>4, <2>2, <3>1 DEF OtherService, NoExactMatch, Matches
        <4>2. IsLast(i, after)
          BY <2>1, <3>1 DEF IsLast
        <4> QED
          BY <2>1, <4>1, <4>2
      <3>2. CASE i \notin wild
        <4>1. wildcard' = wildcard
          BY <1>0, <1>4, <2>1, <3>2 DEF OtherService, NoExactMatch, Matches
        <4>2. after = before
          BY <1>0, <2>1, <3>2
        <4> QED
          BY <2>4, <4>1, <4>2 DEF LoopInv
      <3> QED
        BY <3>1, <3>2
    <2>6. /\ Passed(exact)' = exact \cap 1..i
          /\ Passed(wild)' = after
      BY <2>1 DEF Passed
    <2>7. i' \in 1..(Len(injections) + 1)
      BY <1>0, <2>1
    <2> HIDE DEF after, before
    <2> QED
      BY <2>1, <2>3, <2>5, <2>6, <2>7 DEF LoopInv, ReturnsMatch
  <1> QED
    BY <1>1, <1>2, <1>3, <1>4 DEF Next, Iterate

\* For every list of injections and every request, matching_injection returns
\* the first exact match, failing that the last wildcard, failing that none.
THEOREM LoopReturnsMatch == Spec => []ReturnsMatch
PROOF
  <1>1. LoopInv => ReturnsMatch
    BY DEF LoopInv
  <1> QED
    BY <1>1, LoopInit, LoopStep, PTL DEF Spec
=============================================================================
