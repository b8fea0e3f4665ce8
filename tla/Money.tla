-------------------------------- MODULE Money --------------------------------
(***************************************************************************)
(* The arithmetic every calculation here uses: amounts are whole cents.    *)
(***************************************************************************)
EXTENDS Integers, FiniteSetsExt

Least(a, b) == IF a <= b THEN a ELSE b
Greatest(a, b) == IF a >= b THEN a ELSE b

\* The quotient to the nearest whole, halves up, as Math.round has them.
Rounded(a, b) == (2 * a + b) \div (2 * b)

SumOver(f, S) == MapThenSumSet(LAMBDA x : f[x], S)
=============================================================================
