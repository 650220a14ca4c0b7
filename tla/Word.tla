-------------------------------- MODULE Word --------------------------------
(***************************************************************************)
(* Machine words: the numbers below WordSize, and the operations on them   *)
(* that LLVM IR and RISC-V define.  Both share everything but division,    *)
(* which RISC-V defines for a zero divisor and for the one quotient that   *)
(* does not fit, and LLVM IR does not.                                     *)
(***************************************************************************)
EXTENDS Division

CONSTANT WordBits
ASSUME WordAssumption == WordBits \in Nat \ {0}

Power[n \in Nat] == IF n = 0 THEN 1 ELSE 2 * Power[n - 1]  \* 2 ^ n
WordSize == Power[WordBits]
Word == 0 .. WordSize - 1
Wrap(n) == n % WordSize
Signed(w) == IF w < WordSize \div 2 THEN w ELSE w - WordSize
Flag(b) == IF b THEN 1 ELSE 0

Bit(w, i) == (w \div Power[i]) % 2
\* The word with a 1 where the bits of a and b are one of pairs.
Bitwise(pairs, a, b) ==
    LET low[n \in 0 .. WordBits] ==  \* its lower n bits
          IF n = 0 THEN 0
          ELSE low[n - 1]
               + Power[n - 1] * Flag(<<Bit(a, n - 1), Bit(b, n - 1)>> \in pairs)
    IN low[WordBits]
And(a, b) == Bitwise({<<1, 1>>}, a, b)
Or(a, b) == Bitwise({<<0, 1>>, <<1, 0>>, <<1, 1>>}, a, b)
Xor(a, b) == Bitwise({<<0, 1>>, <<1, 0>>}, a, b)
=============================================================================
