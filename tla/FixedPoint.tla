----------------------------- MODULE FixedPoint -----------------------------
(***************************************************************************)
(* The arithmetic that the two programs share: saturating u64 subtraction, *)
(* minima, and sums over the first n entries of a function whose domain    *)
(* starts at 0.  The programs keep running totals (a pool, a weighted      *)
(* pool, a vault balance) that ought to equal a sum over positions or over *)
(* sides; SumUpTo is the vocabulary in which those equalities are stated.  *)
(* It is a recursive FUNCTION, so that the lemmas of FixedPointTheorems    *)
(* can be proved about it.                                                 *)
(***************************************************************************)
EXTENDS Integers

LesserOf(a, b) == IF a <= b THEN a ELSE b
SatSub(a, b)   == IF a >= b THEN a - b ELSE 0     \* u64::saturating_sub
Distance(a, b) == IF a >= b THEN a - b ELSE b - a

(* PartialSums(f, n)[i] is f[0] + ... + f[i-1]. *)
PartialSums(f, n) ==
    LET s[i \in 0..n] == IF i = 0 THEN 0 ELSE s[i - 1] + f[i - 1]
    IN  s

(* f[0] + ... + f[n-1]. *)
SumUpTo(f, n) == PartialSums(f, n)[n]
=============================================================================
