--------------------------- MODULE MCInjectionMatch ---------------------------
(***************************************************************************)
(* Every list of up to three injections over two services and two          *)
(* selectors (or the wildcard), searched with and without a selector.      *)
(***************************************************************************)
EXTENDS InjectionMatch

Sample(sid, sel) ==
  [service_id |-> sid, selector |-> sel, kind |-> "nrc", nrc |-> 16,
   declared_length |-> 100, extra_bytes |-> 100]
Samples == {Sample(sid, sel) : sid \in {34, 39}, sel \in {1, 2, None}}

MCLists == UNION {[1..n -> Samples] : n \in 0..3}
NoList == <<>>
MCSelectors == {1, None}
NoDids == [d \in {} |-> 0]
NoLevels == [l \in {} |-> 0]
=============================================================================
