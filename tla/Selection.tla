----------------------------- MODULE Selection ------------------------------
(***************************************************************************)
(* Iterator::filter, by position: the elements of a sequence at the        *)
(* positions of a set, in their order.                                     *)
(***************************************************************************)
EXTENDS Integers, Sequences

Select(s, positions) ==
    LET taken[n \in 0..Len(s)] ==
          IF n = 0 THEN <<>>
          ELSE IF n \in positions THEN Append(taken[n - 1], s[n])
          ELSE taken[n - 1] IN
    taken[Len(s)]
=============================================================================
