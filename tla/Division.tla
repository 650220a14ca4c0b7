------------------------------ MODULE Division ------------------------------
(* Division of integers that truncates towards zero, as C's and RISC-V's. *)
EXTENDS Integers

Magnitude(n) == IF n < 0 THEN -n ELSE n
Quotient(a, b) ==
    LET q == Magnitude(a) \div Magnitude(b) IN IF (a < 0) = (b < 0) THEN q ELSE -q
Remainder(a, b) == a - b * Quotient(a, b)
=============================================================================
