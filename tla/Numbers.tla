------------------------------ MODULE Numbers ------------------------------
(***************************************************************************)
(* Powers of two and sums, for the modules that have bytes and numbers.    *)
(***************************************************************************)
EXTENDS Integers

Pow2[n \in Nat] == IF n = 0 THEN 1 ELSE 2 * Pow2[n - 1]

\* f[1] + ... + f[n]
Total(f, n) ==
  LET sum[i \in Nat] == IF i = 0 THEN 0 ELSE sum[i - 1] + f[i] IN sum[n]
=============================================================================
