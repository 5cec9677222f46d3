----------------------------- MODULE Subsequences -----------------------------
(***************************************************************************)
(* The loops over a slice that append what they keep, or append slices one *)
(* after the other, as recursive functions: what they return is proved in  *)
(* InductionLemmas.                                                        *)
(***************************************************************************)
EXTENDS Integers, Sequences

(* The elements of s at the indices in is, in their order. *)
Picked(s, is) ==
    LET picked[n \in 0..Len(s)] ==
            IF n = 0 THEN << >>
            ELSE IF n \in is THEN Append(picked[n - 1], s[n]) ELSE picked[n - 1]
    IN  picked[Len(s)]

(* The sequences in ss, one after the other. *)
Concat(ss) ==
    LET concat[n \in 0..Len(ss)] == IF n = 0 THEN << >> ELSE concat[n - 1] \o ss[n]
    IN  concat[Len(ss)]

=============================================================================
