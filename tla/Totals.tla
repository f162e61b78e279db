------------------------------- MODULE Totals -------------------------------
(* Sums, with which the allocators' statistics are compared.               *)
EXTENDS Integers, Sequences

(* The sum of a sequence of numbers. *)
SumOf(s) ==
  LET sum[k \in 0 .. Len(s)] == IF k = 0 THEN 0 ELSE sum[k - 1] + s[k]
  IN sum[Len(s)]
=============================================================================
