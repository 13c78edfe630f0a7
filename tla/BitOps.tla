-------------------------------- MODULE BitOps -------------------------------
(* The operators &, | and ^ of C on words of w bits, by a recursive         *)
(* function over the bits from the lowest up.                              *)
EXTENDS Integers

Bit(v, i) == (v \div 2 ^ i) % 2

(* The word with a 1 where the bits of a and b are one of the pairs. *)
Combine(w, pairs, a, b) ==
  LET value[n \in 0..w] ==
        IF n = 0 THEN 0
        ELSE value[n - 1] + IF <<Bit(a, n - 1), Bit(b, n - 1)>> \in pairs THEN 2 ^ (n - 1) ELSE 0
  IN  value[w]

And(w, a, b) == Combine(w, {<<1, 1>>}, a, b)
Or(w, a, b)  == Combine(w, {<<0, 1>>, <<1, 0>>, <<1, 1>>}, a, b)
Xor(w, a, b) == Combine(w, {<<0, 1>>, <<1, 0>>}, a, b)
=============================================================================
