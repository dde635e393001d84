--------------------------------- MODULE Lists ---------------------------------
(***************************************************************************)
(* std::stable_partition on a list, by the set of the elements that        *)
(* satisfy its predicate, and the sum of a list of numbers.                *)
(***************************************************************************)
EXTENDS Integers, Sequences

\* the elements of s that are in S, in their order
Filter(s, S) ==
  LET kept[n \in 0..Len(s)] ==
        IF n = 0 THEN <<>>
        ELSE IF s[n] \in S THEN Append(kept[n - 1], s[n]) ELSE kept[n - 1]
  IN kept[Len(s)]

Total(s) ==
  LET sum[n \in 0..Len(s)] == IF n = 0 THEN 0 ELSE sum[n - 1] + s[n]
  IN sum[Len(s)]
===============================================================================
