--------------------------- MODULE RefinementProofs ---------------------------
(***************************************************************************)
(* The emitted code implements the IR, for programs, words and stacks of   *)
(* any size: every step of the core is a step of IRMachine or one that     *)
(* IRMachine does not see.  The core's arithmetic is the IR's; each line   *)
(* of the code is a part of one line of the IR (CompilerProofs); and while *)
(* the core runs the code of a line it holds in t0, t1 and t2 what it has  *)
(* computed so far.                                                        *)
(***************************************************************************)
EXTENDS CompilerProofs

-----------------------------------------------------------------------------
(* Words *)

\* What the recursive function in Bitwise adds up.
SumsTo(c, g, n) == g = [i \in 0 .. n |-> IF i = 0 THEN 0 ELSE g[i - 1] + c[i]]
LEMMA SumsExist == ASSUME NEW c PROVE \A n \in Nat : \E g : SumsTo(c, g, n)
<1> DEFINE G == {n \in Nat : \E g : SumsTo(c, g, n)}
<1>1. 0 \in G
  <2> DEFINE g == [i \in 0 .. 0 |-> 0]
  <2>1. g = [i \in 0 .. 0 |-> IF i = 0 THEN 0 ELSE g[i - 1] + c[i]]
    OBVIOUS
  <2> HIDE DEF g
  <2> QED
    BY <2>1 DEF SumsTo
<1>2. ASSUME NEW n \in Nat, n \in G PROVE n + 1 \in G
  <2>1. PICK g : SumsTo(c, g, n)
    BY <1>2
  <2>2. \A i \in 0 .. n : g[i] = IF i = 0 THEN 0 ELSE g[i - 1] + c[i]
    <3> DEFINE e == [i \in 0 .. n |-> IF i = 0 THEN 0 ELSE g[i - 1] + c[i]]
    <3>1. g = e
      BY <2>1 DEF SumsTo
    <3>2. \A i \in 0 .. n : e[i] = IF i = 0 THEN 0 ELSE g[i - 1] + c[i]
      OBVIOUS
    <3> HIDE DEF e
    <3> QED
      BY <3>1, <3>2
  <2> DEFINE h == [i \in 0 .. n + 1 |-> IF i <= n THEN g[i] ELSE g[n] + c[i]]
  <2>3. ASSUME NEW i \in 0 .. n + 1 PROVE h[i] = IF i = 0 THEN 0 ELSE h[i - 1] + c[i]
    <3>1. CASE i <= n
      <4>1. h[i] = g[i] /\ (i # 0 => h[i - 1] = g[i - 1])
        BY <3>1
      <4>2. g[i] = IF i = 0 THEN 0 ELSE g[i - 1] + c[i]
        BY <2>2, <3>1
      <4> HIDE DEF h
      <4> QED
        BY <4>1, <4>2
    <3>2. CASE i = n + 1
      <4>1. h[i] = g[n] + c[i] /\ h[i - 1] = g[n] /\ i # 0
        BY <3>2
      <4> HIDE DEF h
      <4> QED
        BY <4>1
    <3> QED
      BY <3>1, <3>2
  <2>4. h = [i \in 0 .. n + 1 |-> h[i]]
    OBVIOUS
  <2> HIDE DEF h
  <2>5. SumsTo(c, h, n + 1)
    BY <2>3, <2>4 DEF SumsTo
  <2> QED
    BY <2>5
<1> HIDE DEF G
<1>3. Nat \subseteq G
  BY <1>1, <1>2, SetInduction
<1> QED
  BY <1>3 DEF G

\* What bit n contributes.
Part(pairs, a, b, n) == Power[n] * Flag(<<Bit(a, n), Bit(b, n)>> \in pairs)
LEMMA BitwiseSums ==
    ASSUME NEW pairs, NEW a, NEW b
    PROVE  \E g : /\ Bitwise(pairs, a, b) = g[WordBits] /\ g[0] = 0
                  /\ \A n \in 0 .. WordBits - 1 : g[n + 1] = g[n] + Part(pairs, a, b, n)
<1> DEFINE c == [i \in 1 .. WordBits |-> Part(pairs, a, b, i - 1)]
           Low(g) == g = [n \in 0 .. WordBits |->
                            IF n = 0 THEN 0
                            ELSE g[n - 1]
                                 + Power[n - 1] * Flag(<<Bit(a, n - 1), Bit(b, n - 1)>> \in pairs)]
           low == CHOOSE g : Low(g)
<1>1. WordBits \in Nat
  BY WordAssumption
<1>2. PICK g : SumsTo(c, g, WordBits)
  BY <1>1, SumsExist
<1>3. Low(g)
  <2> DEFINE e == [i \in 0 .. WordBits |-> IF i = 0 THEN 0 ELSE g[i - 1] + c[i]]
             d == [n \in 0 .. WordBits |->
                     IF n = 0 THEN 0
                     ELSE g[n - 1] + Power[n - 1] * Flag(<<Bit(a, n - 1), Bit(b, n - 1)>> \in pairs)]
  <2>1. ASSUME NEW n \in 0 .. WordBits PROVE e[n] = d[n]
    <3>1. CASE n = 0
      BY <3>1
    <3>2. CASE n # 0
      <4>1. n \in 1 .. WordBits
        BY <1>1, <3>2
      <4>2. c[n] = Power[n - 1] * Flag(<<Bit(a, n - 1), Bit(b, n - 1)>> \in pairs)
        BY <4>1 DEF Part
      <4>3. e[n] = g[n - 1] + c[n]
        BY <3>2
      <4>4. d[n] = g[n - 1] + Power[n - 1] * Flag(<<Bit(a, n - 1), Bit(b, n - 1)>> \in pairs)
        BY <3>2
      <4> HIDE DEF c, e, d
      <4> QED
        BY <4>2, <4>3, <4>4
    <3> QED
      BY <3>1, <3>2
  <2>2. e = d
    <3>1. e = [n \in 0 .. WordBits |-> e[n]] /\ d = [n \in 0 .. WordBits |-> d[n]]
      OBVIOUS
    <3> HIDE DEF e, d
    <3> QED
      BY <2>1, <3>1
  <2>3. g = e
    BY <1>2 DEF SumsTo
  <2>4. g = d
    BY <2>2, <2>3
  <2> QED
    BY <2>4
<1>4. Low(low)
  BY <1>3
<1>5. Bitwise(pairs, a, b) = low[WordBits]
  BY DEF Bitwise
<1> HIDE DEF low
<1>6. ASSUME NEW n \in 0 .. WordBits
      PROVE  low[n] = IF n = 0 THEN 0
                      ELSE low[n - 1]
                           + Power[n - 1] * Flag(<<Bit(a, n - 1), Bit(b, n - 1)>> \in pairs)
  BY <1>4
<1>7. low[0] = 0
  <2>1. 0 \in 0 .. WordBits
    BY <1>1
  <2> HIDE DEF Low
  <2> QED
    BY <1>6, <2>1, Zenon
<1>8. ASSUME NEW n \in 0 .. WordBits - 1 PROVE low[n + 1] = low[n] + Part(pairs, a, b, n)
  <2>1. n + 1 \in 0 .. WordBits /\ n + 1 # 0 /\ (n + 1) - 1 = n
    BY <1>1
  <2> QED
    BY <1>6, <2>1 DEF Part
<1> QED
  BY <1>5, <1>7, <1>8

LEMMA PartFacts ==
    ASSUME NEW pairs, NEW a, NEW b, NEW n \in Nat
    PROVE  Part(pairs, a, b, n) \in 0 .. Power[n]
<1>1. Power[n] \in Nat /\ Flag(<<Bit(a, n), Bit(b, n)>> \in pairs) \in {0, 1}
  BY PowerFacts DEF Flag
<1> QED
  BY <1>1 DEF Part

\* The bits make a word.
LEMMA BitwiseIsWord ==
    ASSUME NEW pairs, NEW a, NEW b
    PROVE  Bitwise(pairs, a, b) \in Word
<1>1. PICK g : /\ Bitwise(pairs, a, b) = g[WordBits] /\ g[0] = 0
               /\ \A n \in 0 .. WordBits - 1 : g[n + 1] = g[n] + Part(pairs, a, b, n)
  BY BitwiseSums
<1>2. WordBits \in Nat
  BY WordAssumption
<1> DEFINE S == {n \in Nat : n <= WordBits => g[n] \in 0 .. Power[n] - 1}
<1>3. 0 \in S
  BY <1>1, PowerFacts
<1>4. ASSUME NEW n \in Nat, n \in S PROVE n + 1 \in S
  <2>1. SUFFICES ASSUME n + 1 <= WordBits PROVE g[n + 1] \in 0 .. Power[n + 1] - 1
    OBVIOUS
  <2>2. g[n] \in 0 .. Power[n] - 1 /\ g[n + 1] = g[n] + Part(pairs, a, b, n)
    BY <1>1, <1>2, <1>4, <2>1
  <2>3. Part(pairs, a, b, n) \in 0 .. Power[n] /\ Power[n] \in Nat /\ Power[n + 1] = 2 * Power[n]
    BY PartFacts, PowerFacts
  <2> QED
    BY <2>2, <2>3
<1> HIDE DEF S
<1>5. WordBits \in S
  BY <1>2, <1>3, <1>4, SetInduction
<1> QED
  BY <1>1, <1>2, <1>5 DEF S, Word, WordSize

\* `xori` with 1 turns a truth value around.
LEMMA XorFlips == Xor(0, 1) = 1 /\ Xor(1, 1) = 0
<1>1. ASSUME NEW a \in {0, 1} PROVE Xor(a, 1) = 1 - a
  <2> DEFINE pairs == {<<0, 1>>, <<1, 0>>}
  <2>1. PICK g : /\ Bitwise(pairs, a, 1) = g[WordBits] /\ g[0] = 0
                 /\ \A n \in 0 .. WordBits - 1 : g[n + 1] = g[n] + Part(pairs, a, 1, n)
    BY BitwiseSums
  <2>2. WordBits \in Nat /\ WordBits # 0
    BY WordAssumption
  <2>3. Part(pairs, a, 1, 0) = 1 - a
    <3>1. Bit(a, 0) = a /\ Bit(1, 0) = 1
      BY PowerFacts DEF Bit
    <3>2. Flag(<<a, 1>> \in pairs) = 1 - a
      BY DEF Flag
    <3> QED
      BY <3>1, <3>2, PowerFacts DEF Part
  <2>4. ASSUME NEW n \in Nat, n # 0 PROVE Part(pairs, a, 1, n) = 0
    <3>1. Power[n] \in Nat /\ Power[n] >= 2
      <4> DEFINE Q == {i \in Nat : Power[i + 1] >= 2}
      <4>1. 0 \in Q
        BY PowerFacts
      <4>2. ASSUME NEW i \in Nat, i \in Q PROVE i + 1 \in Q
        BY <4>2, PowerFacts
      <4> HIDE DEF Q
      <4>3. Nat \subseteq Q
        BY <4>1, <4>2, SetInduction
      <4>4. n - 1 \in Nat /\ (n - 1) + 1 = n
        BY <2>4
      <4>5. Power[(n - 1) + 1] >= 2
        BY <4>3, <4>4 DEF Q
      <4> QED
        BY <4>4, <4>5, PowerFacts
    <3>2. ASSUME NEW p \in Nat, p >= 2 PROVE a \div p = 0 /\ 1 \div p = 0
      BY <3>2
    <3>3. Bit(a, n) = 0 /\ Bit(1, n) = 0
      BY <3>1, <3>2 DEF Bit
    <3>4. Flag(<<0, 0>> \in pairs) = 0
      BY DEF Flag
    <3> QED
      BY <3>1, <3>3, <3>4 DEF Part
  <2> DEFINE S == {n \in Nat : n + 1 <= WordBits => g[n + 1] = 1 - a}
  <2>5. 0 \in S
    <3>1. g[0 + 1] = g[0] + Part(pairs, a, 1, 0)
      BY <2>1, <2>2
    <3> HIDE DEF pairs
    <3> QED
      BY <2>1, <2>3, <3>1
  <2>6. ASSUME NEW n \in Nat, n \in S PROVE n + 1 \in S
    <3>1. SUFFICES ASSUME (n + 1) + 1 <= WordBits PROVE g[(n + 1) + 1] = 1 - a
      OBVIOUS
    <3>2. g[(n + 1) + 1] = g[n + 1] + Part(pairs, a, 1, n + 1)
      BY <2>1, <2>2, <3>1
    <3>3. g[n + 1] = 1 - a /\ Part(pairs, a, 1, n + 1) = 0
      BY <2>2, <2>4, <2>6, <3>1
    <3> QED
      BY <3>2, <3>3
  <2> HIDE DEF S
  <2>7. WordBits - 1 \in Nat /\ (WordBits - 1) + 1 = WordBits
    BY <2>2
  <2>8. WordBits - 1 \in S
    BY <2>5, <2>6, <2>7, SetInduction
  <2>9. g[WordBits] = 1 - a
    BY <2>2, <2>7, <2>8 DEF S
  <2> QED
    BY <2>1, <2>9 DEF Xor
<1> QED
  BY <1>1

-----------------------------------------------------------------------------
(* What the core computes is what the IR means                             *)

\* The words of IRMachine are the core's.
LEMMA SameWords ==
    /\ IR!WordSize = WordSize /\ IR!Word = Word
    /\ \A n : IR!Wrap(n) = Wrap(n) /\ IR!Signed(n) = Signed(n) /\ IR!Flag(n) = Flag(n)
    /\ \A a, b : /\ IR!Quotient(a, b) = Quotient(a, b) /\ IR!Remainder(a, b) = Remainder(a, b)
                 /\ IR!And(a, b) = And(a, b) /\ IR!Or(a, b) = Or(a, b) /\ IR!Xor(a, b) = Xor(a, b)
<1>1. IR!Power = Power
  BY DEF IR!Power, Power
<1>2. IR!WordSize = WordSize
  BY <1>1 DEF IR!WordSize, WordSize
<1>3. IR!Word = Word
  BY <1>2 DEF IR!Word, Word
<1>4. ASSUME NEW n PROVE IR!Wrap(n) = Wrap(n) /\ IR!Signed(n) = Signed(n) /\ IR!Flag(n) = Flag(n)
  BY <1>2 DEF IR!Wrap, Wrap, IR!Signed, Signed, IR!Flag, Flag
<1>5. ASSUME NEW a, NEW b
      PROVE  IR!Quotient(a, b) = Quotient(a, b) /\ IR!Remainder(a, b) = Remainder(a, b)
  BY DEF IR!Quotient, Quotient, IR!Remainder, Remainder, IR!Magnitude, Magnitude
<1>6. ASSUME NEW pairs, NEW a, NEW b PROVE IR!Bitwise(pairs, a, b) = Bitwise(pairs, a, b)
  BY DEF IR!Bitwise, Bitwise, IR!Bit, Bit, IR!Flag, Flag, IR!Power, Power
<1>7. ASSUME NEW a, NEW b
      PROVE  IR!And(a, b) = And(a, b) /\ IR!Or(a, b) = Or(a, b) /\ IR!Xor(a, b) = Xor(a, b)
  BY <1>6 DEF IR!And, And, IR!Or, Or, IR!Xor, Xor
<1> QED
  BY <1>2, <1>3, <1>4, <1>5, <1>7

LEMMA WrapFacts ==
    /\ WordSize \in Nat /\ WordSize >= 2
    /\ \A n \in Int : Wrap(n) \in Word
    /\ \A w \in Word : w \in Nat /\ w < WordSize /\ Wrap(w) = w
    /\ \A n : n \in Nat /\ n < WordSize => n \in Word
    /\ \A a, b \in Word : Wrap(a - b) \in Word /\ (Wrap(a - b) = 0 <=> a = b)
<1>1. WordSize \in Nat /\ WordSize >= 2
  BY WordSizeIsNat
<1> DEFINE W == WordSize
<1> HIDE DEF W
<1>2. W \in Nat /\ W >= 2
  BY <1>1 DEF W
<1>3. \A n \in Int : n % W \in 0 .. W - 1
  BY <1>2
<1>4. \A w \in 0 .. W - 1 : w % W = w
  BY <1>2
<1>5. ASSUME NEW a \in 0 .. W - 1, NEW b \in 0 .. W - 1 PROVE (a - b) % W = 0 <=> a = b
  <2>1. CASE a >= b
    <3>1. a - b \in 0 .. W - 1
      BY <1>2, <2>1
    <3>2. (a - b) % W = a - b
      BY <1>4, <3>1
    <3> QED
      BY <1>2, <3>2
  <2>2. CASE a < b
    <3>1. (a - b) + W \in 1 .. W - 1
      BY <1>2, <2>2
    <3>2. (a - b) % W = (a - b) + W
      BY <1>2, <3>1
    <3> QED
      BY <1>2, <2>2, <3>1, <3>2
  <2> QED
    BY <1>2, <2>1, <2>2
<1>6. Word = 0 .. W - 1 /\ \A n : Wrap(n) = n % W
  BY DEF Word, Wrap, W
<1>7. \A w \in Word : w \in Nat /\ w < W /\ Wrap(w) = w
  BY <1>2, <1>4, <1>6
<1>8. \A n \in Int : Wrap(n) \in Word
  BY <1>3, <1>6
<1>9. \A a, b \in Word : Wrap(a - b) \in Word /\ (Wrap(a - b) = 0 <=> a = b)
  <2>1. \A a, b \in Word : a - b \in Int
    BY <1>7
  <2> QED
    BY <1>5, <1>6, <1>8, <2>1
<1>10. \A n : n \in Nat /\ n < W => n \in Word
  BY <1>2, <1>6
<1> QED
  BY <1>1, <1>7, <1>8, <1>9, <1>10 DEF W

LEMMA SignedFacts ==
    ASSUME NEW w \in Word
    PROVE  Signed(w) \in Int /\ (w # 0 => Signed(w) # 0)
<1>1. WordSize \in Nat /\ WordSize >= 2 /\ w \in Nat /\ w < WordSize
  BY WrapFacts
<1>2. WordSize \div 2 \in Nat
  BY <1>1
<1> QED
  BY <1>1, <1>2 DEF Signed

LEMMA DivisionFacts ==
    ASSUME NEW a \in Int, NEW b \in Int, b # 0
    PROVE  Quotient(a, b) \in Int /\ Remainder(a, b) \in Int
<1>1. Magnitude(a) \in Nat /\ Magnitude(b) \in Nat /\ Magnitude(b) > 0
  BY DEF Magnitude
<1>2. \A m, n \in Nat : n > 0 => m \div n \in Nat
  OBVIOUS
<1>3. Magnitude(a) \div Magnitude(b) \in Nat
  BY <1>1, <1>2
<1>4. Quotient(a, b) \in Int
  BY <1>3 DEF Quotient
<1>5. \A q \in Int : a - b * q \in Int
  OBVIOUS
<1> QED
  BY <1>4, <1>5 DEF Remainder

LEMMA NaturalDivision ==
    ASSUME NEW a \in Word, NEW b \in Word, b # 0
    PROVE  a \div b \in Word /\ a % b \in Word
<1>1. a \in Nat /\ b \in Nat /\ b > 0 /\ a < WordSize /\ WordSize \in Nat
  BY WrapFacts
<1>2. a \div b \in Nat /\ a \div b <= a
  BY <1>1
<1>3. a % b \in Nat /\ a % b <= a
  BY <1>1
<1> QED
  BY <1>1, <1>2, <1>3, WrapFacts

\* The operation the emitter selects yields an outcome of the instruction, which
\* is a word.
LEMMA ALUImplements ==
    ASSUME NEW instr, instr.opcode \in DOMAIN Operation, NEW a \in Word, NEW b \in Word
    PROVE  /\ ALU(Operation[instr.opcode], a, b) \in Word
           /\ ALU(Operation[instr.opcode], a, b) \in IR!Outcomes(instr, a, b)
<1> DEFINE op == instr.opcode
           w == ALU(Operation[op], a, b)
           sa == Signed(a)
           sb == Signed(b)
           overflow == sa = -(WordSize \div 2) /\ sb = -1
<1>1. /\ WordSize \in Nat /\ WordSize >= 2 /\ WordSize - 1 \in Word
      /\ a \in Int /\ b \in Int
      /\ \A n \in Int : Wrap(n) \in Word
  BY WrapFacts
<1>2. sa \in Int /\ sb \in Int /\ (b # 0 => sb # 0)
  BY SignedFacts
<1>3. b # 0 => Wrap(Quotient(sa, sb)) \in Word /\ Wrap(Remainder(sa, sb)) \in Word
  BY <1>1, <1>2, DivisionFacts
<1>4. b # 0 => a \div b \in Word /\ a % b \in Word
  BY NaturalDivision
<1>5. And(a, b) \in Word /\ Or(a, b) \in Word /\ Xor(a, b) \in Word
  BY BitwiseIsWord DEF And, Or, Xor
<1>6. a + b \in Int /\ a - b \in Int /\ a * b \in Int
  BY <1>1
<1> HIDE DEF sa, sb
<1>7. /\ op = "ADD" => IR!Outcomes(instr, a, b) = {Wrap(a + b)}
      /\ op = "SUB" => IR!Outcomes(instr, a, b) = {Wrap(a - b)}
      /\ op = "MUL" => IR!Outcomes(instr, a, b) = {Wrap(a * b)}
      /\ op = "AND" => IR!Outcomes(instr, a, b) = {And(a, b)}
      /\ op = "OR" => IR!Outcomes(instr, a, b) = {Or(a, b)}
      /\ op = "XOR" => IR!Outcomes(instr, a, b) = {Xor(a, b)}
  BY SameWords DEF IR!Outcomes, IR!Divisions
<1>8. /\ op \in {"UDIV", "UREM", "SDIV", "SREM"} /\ b = 0 => IR!Outcomes(instr, a, b) = Word
      /\ op = "UDIV" /\ b # 0 => IR!Outcomes(instr, a, b) = {a \div b}
      /\ op = "UREM" /\ b # 0 => IR!Outcomes(instr, a, b) = {a % b}
  BY SameWords DEF IR!Outcomes, IR!Divisions
<1>9. /\ op \in {"SDIV", "SREM"} /\ b # 0 /\ overflow => IR!Outcomes(instr, a, b) = Word
      /\ op = "SDIV" /\ b # 0 /\ ~overflow => IR!Outcomes(instr, a, b) = {Wrap(Quotient(sa, sb))}
      /\ op = "SREM" /\ b # 0 /\ ~overflow => IR!Outcomes(instr, a, b) = {Wrap(Remainder(sa, sb))}
  BY SameWords DEF IR!Outcomes, IR!Divisions, sa, sb
<1> HIDE DEF overflow
<1>10. /\ op = "ADD" => w = Wrap(a + b)
       /\ op = "SUB" => w = Wrap(a - b)
       /\ op = "MUL" => w = Wrap(a * b)
       /\ op = "AND" => w = And(a, b)
       /\ op = "OR" => w = Or(a, b)
       /\ op = "XOR" => w = Xor(a, b)
  BY DEF ALU, Operation
<1>11. /\ op = "UDIV" => w = IF b = 0 THEN WordSize - 1 ELSE a \div b
       /\ op = "UREM" => w = IF b = 0 THEN a ELSE a % b
       /\ op = "SDIV" => w = IF b = 0 THEN WordSize - 1 ELSE Wrap(Quotient(sa, sb))
       /\ op = "SREM" => w = IF b = 0 THEN a ELSE Wrap(Remainder(sa, sb))
  BY DEF ALU, Operation, sa, sb
<1>12. op \in {"ADD", "SUB", "MUL", "AND", "OR", "XOR", "UDIV", "UREM", "SDIV", "SREM"}
  BY DEF Operation
<1> HIDE DEF op, w
<1>13. CASE op \in {"ADD", "SUB", "MUL", "AND", "OR", "XOR"}
  BY <1>1, <1>5, <1>6, <1>7, <1>10, <1>13 DEF op, w
<1>14. CASE op \in {"UDIV", "UREM", "SDIV", "SREM"}
  <2>1. CASE b = 0
    <3>1. w \in Word
      BY <1>1, <1>11, <1>14, <2>1
    <3> QED
      BY <1>8, <1>14, <2>1, <3>1 DEF op, w
  <2>2. CASE b # 0
    <3>1. /\ op = "UDIV" => w = a \div b
          /\ op = "UREM" => w = a % b
          /\ op = "SDIV" => w = Wrap(Quotient(sa, sb))
          /\ op = "SREM" => w = Wrap(Remainder(sa, sb))
      BY <1>11, <2>2
    <3>2. w \in Word
      BY <1>3, <1>4, <1>14, <2>2, <3>1
    <3>3. CASE op \in {"UDIV", "UREM"}
      BY <1>8, <2>2, <3>1, <3>2, <3>3 DEF op, w
    <3>4. CASE op \in {"SDIV", "SREM"} /\ overflow
      BY <1>9, <2>2, <3>2, <3>4 DEF op, w
    <3>5. CASE op \in {"SDIV", "SREM"} /\ ~overflow
      BY <1>9, <2>2, <3>1, <3>2, <3>5 DEF op, w
    <3> QED
      BY <1>14, <3>3, <3>4, <3>5
  <2> QED
    BY <2>1, <2>2
<1> QED
  BY <1>12, <1>13, <1>14 DEF op, w

\* The first line of a comparison computes this of its operands.
Compared(cond, a, b) ==
    IF Swapped(cond) THEN ALU(ComparisonOp(cond), b, a) ELSE ALU(ComparisonOp(cond), a, b)
\* What the core computes for a comparison is the outcome of the instruction.
LEMMA ComparisonImplements ==
    ASSUME NEW instr, instr.opcode = "ICMP", instr.cond \in LLVMCmpCond,
           NEW a \in Word, NEW b \in Word
    PROVE  LET cond == instr.cond
               half == Compared(cond, a, b)
               result == CASE cond = "EQ" -> Flag(half = 0)
                           [] cond = "NE" -> Flag(half # 0)
                           [] cond \in {"UGE", "SGE", "SLE"} -> Xor(half, Wrap(1))
                           [] OTHER -> half
           IN result \in Word /\ result \in IR!Outcomes(instr, a, b)
<1> DEFINE cond == instr.cond
           half == Compared(cond, a, b)
           sa == Signed(a)
           sb == Signed(b)
           result == CASE cond = "EQ" -> Flag(half = 0)
                       [] cond = "NE" -> Flag(half # 0)
                       [] cond \in {"UGE", "SGE", "SLE"} -> Xor(half, Wrap(1))
                       [] OTHER -> half
           holds == IR!Holds(cond, a, b)
<1>1. IR!Outcomes(instr, a, b) = {Flag(holds)}
  BY SameWords DEF IR!Outcomes, IR!Divisions
<1>2. /\ a \in Int /\ b \in Int /\ sa \in Int /\ sb \in Int
      /\ Wrap(1) = 1 /\ 0 \in Word /\ 1 \in Word
  BY WrapFacts, SignedFacts
<1>3. /\ cond = "EQ" => holds = (a = b)
      /\ cond = "NE" => holds = (a # b)
      /\ cond = "UGT" => holds = (a > b)
      /\ cond = "UGE" => holds = (a >= b)
      /\ cond = "ULT" => holds = (a < b)
      /\ cond = "SGT" => holds = (sa > sb)
      /\ cond = "SGE" => holds = (sa >= sb)
      /\ cond = "SLT" => holds = (sa < sb)
      /\ cond = "SLE" => holds = (sa <= sb)
  BY SameWords DEF IR!Holds
<1>4. /\ cond \in {"EQ", "NE"} => half = Wrap(a - b)
      /\ cond = "UGT" => half = Flag(b < a)
      /\ cond \in {"UGE", "ULT"} => half = Flag(a < b)
      /\ cond \in {"SGT", "SLE"} => half = Flag(sb < sa)
      /\ cond \in {"SGE", "SLT"} => half = Flag(sa < sb)
  BY DEF Compared, ComparisonOp, Swapped, ALU
<1>5. cond \in {"EQ", "NE", "UGT", "UGE", "ULT", "SGT", "SGE", "SLT", "SLE"}
  BY DEF LLVMCmpCond
<1>6. Wrap(a - b) = 0 <=> a = b
  BY WrapFacts
<1>7. \A x, y \in Int : /\ x < y => Xor(Flag(x < y), 1) = Flag(x >= y)
                        /\ x >= y => Xor(Flag(x < y), 1) = Flag(x >= y)
  <2>1. SUFFICES ASSUME NEW x \in Int, NEW y \in Int PROVE Xor(Flag(x < y), 1) = Flag(x >= y)
    OBVIOUS
  <2>2. CASE x < y
    <3>1. Flag(x < y) = 1 /\ Flag(x >= y) = 0
      BY <2>2 DEF Flag
    <3> QED
      BY <3>1, XorFlips
  <2>3. CASE ~(x < y)
    <3>1. Flag(x < y) = 0 /\ Flag(x >= y) = 1
      BY <2>3 DEF Flag
    <3> QED
      BY <3>1, XorFlips
  <2> QED
    BY <2>2, <2>3
<1> HIDE DEF half, sa, sb, holds
<1>8. /\ cond = "EQ" => result = Flag(half = 0)
      /\ cond = "NE" => result = Flag(half # 0)
      /\ cond \in {"UGE", "SGE", "SLE"} => result = Xor(half, 1)
      /\ cond \in {"UGT", "ULT", "SGT", "SLT"} => result = half
  BY <1>2
<1> HIDE DEF result, cond
<1>9. result = Flag(holds)
  <2>1. CASE cond = "EQ"
    BY <1>3, <1>4, <1>6, <1>8, <2>1 DEF Flag
  <2>2. CASE cond = "NE"
    BY <1>3, <1>4, <1>6, <1>8, <2>2 DEF Flag
  <2>3. CASE cond = "UGT"
    BY <1>2, <1>3, <1>4, <1>8, <2>3 DEF Flag
  <2>4. CASE cond = "UGE"
    <3>1. half = Flag(a < b) /\ holds = (a >= b)
      BY <1>3, <1>4, <2>4
    <3>2. Flag(holds) = Flag(a >= b)
      BY <1>2, <3>1 DEF Flag
    <3>3. Xor(Flag(a < b), 1) = Flag(a >= b)
      BY <1>2, <1>7
    <3> QED
      BY <1>8, <2>4, <3>1, <3>2, <3>3
  <2>5. CASE cond = "ULT"
    BY <1>2, <1>3, <1>4, <1>8, <2>5 DEF Flag
  <2>6. CASE cond = "SGT"
    BY <1>2, <1>3, <1>4, <1>8, <2>6 DEF Flag
  <2>7. CASE cond = "SGE"
    <3>1. half = Flag(sa < sb) /\ holds = (sa >= sb)
      BY <1>3, <1>4, <2>7
    <3>2. Flag(holds) = Flag(sa >= sb)
      BY <1>2, <3>1 DEF Flag
    <3>3. Xor(Flag(sa < sb), 1) = Flag(sa >= sb)
      BY <1>2, <1>7
    <3> QED
      BY <1>8, <2>7, <3>1, <3>2, <3>3
  <2>8. CASE cond = "SLT"
    BY <1>2, <1>3, <1>4, <1>8, <2>8 DEF Flag
  <2>9. CASE cond = "SLE"
    <3>1. half = Flag(sb < sa) /\ holds = (sa <= sb)
      BY <1>3, <1>4, <2>9
    <3>2. Flag(holds) = Flag(sb >= sa)
      BY <1>2, <3>1 DEF Flag
    <3>3. Xor(Flag(sb < sa), 1) = Flag(sb >= sa)
      BY <1>2, <1>7
    <3> QED
      BY <1>8, <2>9, <3>1, <3>2, <3>3
  <2> QED
    BY <1>5, <2>1, <2>2, <2>3, <2>4, <2>5, <2>6, <2>7, <2>8, <2>9
<1>10. Flag(holds) \in Word
  BY <1>2 DEF Flag
<1> QED
  BY <1>1, <1>9, <1>10 DEF result, cond, half

-----------------------------------------------------------------------------
(* What a line of the code does                                            *)

\* The core writes a word to a register and goes on with the next line.
Writes(reg, word) == regs' = [regs EXCEPT ![reg] = word] /\ mem' = mem /\ pc' = pc + 1

LEMMA StepExact ==
    ASSUME pc # 0, Step
    PROVE  /\ UNCHANGED <<func, params, code, lines, lineOf>>
           /\ Here.op \in BinaryOps =>
                Writes(Arg(1), ALU(Here.op, regs[Arg(2)], regs[Arg(3)]))
           /\ Here.op = "mv" => Writes(Arg(1), regs[Arg(2)])
           /\ Here.op = "seqz" => Writes(Arg(1), Flag(regs[Arg(2)] = 0))
           /\ Here.op = "snez" => Writes(Arg(1), Flag(regs[Arg(2)] # 0))
           /\ Here.op = "xori" => Writes(Arg(1), Xor(regs[Arg(2)], Wrap(Arg(3))))
           /\ Here.op = "addi" => Writes(Arg(1), Wrap(regs[Arg(2)] + Arg(3)))
           /\ Here.op = "li" => Writes(Arg(1), Wrap(Arg(2)))
           /\ Here.op = "la" => Writes(Arg(1), GlobalAddress(Arg(2)))
           /\ Here.op = "lw" => Writes(Arg(1), mem[EffectiveAddress])
           /\ Here.op = "sw" =>
                /\ mem' = [mem EXCEPT ![EffectiveAddress] = regs[Arg(1)]]
                /\ regs' = regs /\ pc' = pc + 1
           /\ Here.op = "j" => mem' = mem /\ regs' = regs /\ pc' \in Labels(Arg(1))
           /\ Here.op = "bnez" =>
                /\ mem' = mem /\ regs' = regs
                /\ regs[Arg(1)] # 0 => pc' \in Labels(Arg(2))
                /\ regs[Arg(1)] = 0 => pc' = pc + 1
           /\ Here.op \in {"label", "nop"} => mem' = mem /\ regs' = regs /\ pc' = pc + 1
           /\ Here.op = "ret" => mem' = mem /\ regs' = regs /\ pc' = 0
<1>1. CASE ComputeBinary
  <2>1. /\ Here.op \in BinaryOps
        /\ Writes(Arg(1), ALU(Here.op, regs[Arg(2)], regs[Arg(3)]))
        /\ UNCHANGED <<func, params, code, lines, lineOf>>
    BY <1>1 DEF ComputeBinary, Write, Writes, Advance, Keep
  <2>2. Here.op \notin {"mv", "seqz", "snez", "xori", "la", "li", "addi", "lw", "sw", "label",
                        "nop", "j", "bnez", "ret"}
    BY <2>1 DEF BinaryOps
  <2> QED
    BY <2>1, <2>2
<1>2. CASE ComputeUnary
  <2> DEFINE operand == regs[Arg(2)]
             word == CASE Here.op = "mv"   -> operand
                       [] Here.op = "seqz" -> Flag(operand = 0)
                       [] Here.op = "snez" -> Flag(operand # 0)
                       [] Here.op = "addi" -> Wrap(operand + Arg(3))
                       [] Here.op = "xori" -> Xor(operand, Wrap(Arg(3)))
  <2>1. /\ Here.op \in UnaryOps /\ Writes(Arg(1), word)
        /\ UNCHANGED <<func, params, code, lines, lineOf>>
    BY <1>2 DEF ComputeUnary, Write, Writes, Advance, Keep
  <2>2. Here.op = "mv" => word = regs[Arg(2)]
    OBVIOUS
  <2>3. Here.op = "seqz" => word = Flag(regs[Arg(2)] = 0)
    OBVIOUS
  <2>4. Here.op = "snez" => word = Flag(regs[Arg(2)] # 0)
    OBVIOUS
  <2>5. Here.op = "addi" => word = Wrap(regs[Arg(2)] + Arg(3))
    OBVIOUS
  <2>6. Here.op = "xori" => word = Xor(regs[Arg(2)], Wrap(Arg(3)))
    OBVIOUS
  <2>7. /\ Here.op \notin BinaryOps
        /\ Here.op \notin {"la", "li", "lw", "sw", "label", "nop", "j", "bnez", "ret"}
    BY <2>1 DEF UnaryOps, BinaryOps
  <2> HIDE DEF word
  <2> QED
    BY <2>1, <2>2, <2>3, <2>4, <2>5, <2>6, <2>7
<1>3. CASE LoadImmediate
  <2> DEFINE word == IF Here.op = "li" THEN Wrap(Arg(2)) ELSE GlobalAddress(Arg(2))
  <2>1. /\ Here.op \in {"li", "la"} /\ Writes(Arg(1), word)
        /\ UNCHANGED <<func, params, code, lines, lineOf>>
    BY <1>3 DEF LoadImmediate, Write, Writes, Advance, Keep
  <2>2. /\ Here.op = "li" => word = Wrap(Arg(2))
        /\ Here.op = "la" => word = GlobalAddress(Arg(2))
        /\ Here.op \notin BinaryOps
    BY <2>1 DEF BinaryOps
  <2> HIDE DEF word
  <2> QED
    BY <2>1, <2>2
<1>4. CASE LoadWord
  <2>1. /\ Here.op = "lw" /\ Writes(Arg(1), mem[EffectiveAddress]) /\ Here.op \notin BinaryOps
        /\ UNCHANGED <<func, params, code, lines, lineOf>>
    BY <1>4 DEF LoadWord, Write, Writes, Advance, Keep, BinaryOps
  <2> QED
    BY <2>1
<1>5. CASE StoreWord
  <2>1. Here.op = "sw" /\ Here.op \notin BinaryOps
    BY <1>5 DEF StoreWord, BinaryOps
  <2> QED
    BY <1>5, <2>1 DEF StoreWord, Advance, Keep
<1>6. CASE Jump \/ BranchIfNotZero \/ Skip \/ ReturnToCaller
  <2>1. Here.op \in {"j", "bnez", "label", "nop", "ret"} /\ Here.op \notin BinaryOps
    BY <1>6 DEF Jump, BranchIfNotZero, Skip, ReturnToCaller, BinaryOps
  <2> QED
    BY <1>6, <2>1 DEF Jump, BranchIfNotZero, Skip, ReturnToCaller, Advance, Keep
<1> QED
  BY <1>1, <1>2, <1>3, <1>4, <1>5, <1>6 DEF Step

-----------------------------------------------------------------------------
(* What the core holds, in terms of the IR                                 *)

Values == [id \in ToSet(lines) |-> mem[SlotAddress(id)]]
Memory == [a \in Variables(func) |-> mem[a]]
Result == IF Line = Over THEN regs["a0"] ELSE NPos

\* What an operand is, by its kind.
LEMMA OperandMeaning ==
    ASSUME NEW v, IsOperand(v)
    PROVE  /\ v.kind = "PARAM" => IR!Operand(v) = params[v.id + 1]
           /\ v.kind = "CONST" => IR!Operand(v) = Wrap(func.consts[v.id + 1])
           /\ v.kind = "GLOBAL" => IR!Operand(v) = GlobalAddress(v.id)
           /\ v.kind = "INSTR" /\ v.id \in Allocas(func) => IR!Operand(v) = SlotAddress(v.id)
           /\ v.kind = "INSTR" /\ v.id \in ToSet(lines) \ Allocas(func) =>
                IR!Operand(v) = mem[SlotAddress(v.id)]
<1>1. IR!Allocas(func) = Allocas(func)
  BY DEF IR!Allocas, Allocas, IR!InstrIDs, InstrIDs, IR!LastInstr, LastInstr, IR!Instr, Instr
<1>2. CASE v.kind = "PARAM"
  BY <1>2 DEF IR!Operand
<1>3. CASE v.kind = "CONST"
  BY <1>3, SameWords DEF IR!Operand
<1>4. CASE v.kind = "GLOBAL"
  BY <1>4 DEF IR!Operand
<1>5. CASE v.kind = "INSTR"
  <2>1. IR!Operand(v) = IF v.id \in Allocas(func) THEN SlotAddress(v.id) ELSE Values[v.id]
    BY <1>1, <1>5 DEF IR!Operand, Values
  <2>2. v.id \in ToSet(lines) => Values[v.id] = mem[SlotAddress(v.id)]
    BY DEF Values
  <2> QED
    BY <1>5, <2>1, <2>2
<1> QED
  BY <1>2, <1>3, <1>4, <1>5 DEF IsOperand

-----------------------------------------------------------------------------
(* What the core does, in terms of the IR                                  *)

\* The layout of IRMachine is the emitter's.
LEMMA SameLayout ==
    /\ IR!NPos = NPos /\ IR!NoFunction = NoFunction
    /\ \A f : /\ IR!InstrIDs(f) = InstrIDs(f) /\ IR!Allocas(f) = Allocas(f)
              /\ IR!Lines(f) = Lines(f)
    /\ \A f, id : IR!Instr(f, id) = Instr(f, id)
    /\ \A f, b : IR!Start(f, b) = Start(f, b)
<1>1. IR!NPos = NPos /\ IR!NoFunction = NoFunction
  BY DEF IR!NPos, NPos, IR!NoFunction, NoFunction, IR!NoFunctionName, NoFunctionName
<1>2. ASSUME NEW f, NEW id PROVE IR!Instr(f, id) = Instr(f, id)
  BY DEF IR!Instr, Instr
<1>3. ASSUME NEW f PROVE IR!InstrIDs(f) = InstrIDs(f) /\ IR!Allocas(f) = Allocas(f)
  BY <1>2 DEF IR!Allocas, Allocas, IR!InstrIDs, InstrIDs, IR!LastInstr, LastInstr
<1>4. ASSUME NEW s PROVE IR!FlattenSeq(s) = FlattenSeq(s)
  BY DEF IR!FlattenSeq, FlattenSeq
<1>5. ASSUME NEW f, NEW block PROVE IR!LinesOf(f, block) = LinesOf(f, block)
  BY <1>2, <1>4 DEF IR!LinesOf, LinesOf
<1>6. ASSUME NEW f, NEW blocks PROVE IR!ListedIn(f, blocks) = ListedIn(f, blocks)
  BY <1>4, <1>5 DEF IR!ListedIn, ListedIn
<1>7. ASSUME NEW f PROVE IR!Lines(f) = Lines(f)
  BY <1>6 DEF IR!Lines, Lines
<1>8. ASSUME NEW f, NEW b PROVE IR!Start(f, b) = Start(f, b)
  BY <1>6 DEF IR!Start, Start
<1> QED
  BY <1>1, <1>2, <1>3, <1>7, <1>8

\* A step of the core that the IR does not see.
LEMMA Stutters ==
    ASSUME UNCHANGED <<func, params, lines, Line, Values, Memory, Result>>
    PROVE  UNCHANGED IR!vars
BY DEF IR!vars, Values, Memory, Result, Variables

\* A step of the core that ends line Line of the IR.
Proceeds(l) == Line' = l /\ (l # Over => UNCHANGED Result)
AtLine(id) ==
    /\ func # NoFunction /\ id \in InstrIDs(func)
    /\ Line \in DOMAIN lines /\ id = lines[Line]

LEMMA IRExecutes ==
    ASSUME NEW id, AtLine(id),
           IR!Compute(id) \/ IR!Load(id) \/ IR!Store(id) \/ IR!Branch(id) \/ IR!Ret(id)
    PROVE  IR!Next
<1>1. IR!Executing(id) /\ id \in IR!InstrIDs(func)
  BY SameLayout DEF AtLine, IR!Executing
<1> QED
  BY <1>1 DEF IR!Next

LEMMA ComputeMapped ==
    ASSUME NEW id, AtLine(id), NEW w,
           Instr(func, id).opcode \notin {"LOAD", "STORE", "BR", "RET"},
           w \in IR!Outcomes(Instr(func, id), IR!Operand(Instr(func, id).operands[1]),
                                              IR!Operand(Instr(func, id).operands[2])),
           Values' = [Values EXCEPT ![id] = w],
           UNCHANGED <<func, params, lines, Memory>>, Proceeds(Line + 1)
    PROVE  IR!Next
<1>1. IR!Compute(id)
  BY SameLayout DEF IR!Compute, IR!Proceed, IR!call, IR!Over, Over, Proceeds, Values, Memory, Result,
                    Variables
<1> QED
  BY <1>1, IRExecutes

LEMMA LoadMapped ==
    ASSUME NEW id, AtLine(id), Instr(func, id).opcode = "LOAD",
           Values' = [Values EXCEPT ![id] = Memory[IR!Operand(Instr(func, id).operands[1])]],
           UNCHANGED <<func, params, lines, Memory>>, Proceeds(Line + 1)
    PROVE  IR!Next
<1>1. IR!Load(id)
  BY SameLayout DEF IR!Load, IR!Proceed, IR!call, IR!Over, Over, Proceeds, Values, Memory, Result,
                    Variables
<1> QED
  BY <1>1, IRExecutes

LEMMA StoreMapped ==
    ASSUME NEW id, AtLine(id), Instr(func, id).opcode = "STORE",
           Memory' = [Memory EXCEPT ![IR!Operand(Instr(func, id).operands[2])] =
                        IR!Operand(Instr(func, id).operands[1])],
           UNCHANGED <<func, params, lines, Values>>, Proceeds(Line + 1)
    PROVE  IR!Next
<1>1. IR!Store(id)
  BY SameLayout DEF IR!Store, IR!Proceed, IR!call, IR!Over, Over, Proceeds, Values, Memory, Result,
                    Variables
<1> QED
  BY <1>1, IRExecutes

LEMMA BranchMapped ==
    ASSUME NEW id, AtLine(id), Instr(func, id).opcode = "BR", NEW k,
           LET ops == Instr(func, id).operands
           IN k = IF Len(ops) = 1 THEN 1 ELSE IF IR!Operand(ops[1]) # 0 THEN 2 ELSE 3,
           UNCHANGED <<func, params, lines, Values, Memory>>,
           Proceeds(Start(func, Instr(func, id).operands[k].id))
    PROVE  IR!Next
<1>1. IR!Branch(id)
  BY SameLayout DEF IR!Branch, IR!Proceed, IR!call, IR!Over, Over, Proceeds, Values, Memory, Result,
                    Variables
<1> QED
  BY <1>1, IRExecutes

LEMMA RetMapped ==
    ASSUME NEW id, AtLine(id), Instr(func, id).opcode = "RET",
           Result' = IR!Operand(Instr(func, id).operands[1]), Line' = Over,
           UNCHANGED <<func, params, lines, Values, Memory>>
    PROVE  IR!Next
<1>1. IR!Ret(id)
  BY SameLayout DEF IR!Ret, IR!call, IR!Over, Over, Values, Memory, Result, Variables
<1> QED
  BY <1>1, IRExecutes

LEMMA EnterMapped ==
    ASSUME func # NoFunction, Line = 0, Proceeds(0) \/ Proceeds(1),
           \A a \in GlobalAddresses : mem'[a] = mem[a],
           UNCHANGED <<func, params, lines>>
    PROVE  IR!Next
<1>1. \A i \in GlobalIDs : GlobalAddress(i) \in GlobalAddresses
  BY DEF GlobalAddresses
<1>2. \A i \in GlobalIDs : Memory[GlobalAddress(i)] = mem[GlobalAddress(i)]
  BY <1>1 DEF Memory, Variables
<1>3. \A i \in GlobalIDs : Memory'[GlobalAddress(i)] = mem'[GlobalAddress(i)]
  BY <1>1 DEF Memory, Variables
<1>4. IR!Globals = [i \in GlobalIDs |-> mem[GlobalAddress(i)]]
  BY <1>2 DEF IR!Globals, Memory, Variables
<1>5. IR!Globals' = [i \in GlobalIDs |-> mem'[GlobalAddress(i)]]
  BY <1>3 DEF IR!Globals, Memory, Variables
<1>6. IR!Globals' = IR!Globals
  BY <1>1, <1>4, <1>5
<1>7. IR!Enter
  BY <1>6, SameLayout DEF IR!Enter, IR!Proceed, IR!call, IR!Over, Over, Proceeds, Result
<1> QED
  BY <1>7 DEF IR!Next

LEMMA CallMapped ==
    ASSUME pc = 0, func' # NoFunction, lines' = Lines(func'), Line' = 0, mem' = mem
    PROVE  IR!Next
<1>1. \A i \in GlobalIDs : GlobalAddress(i) \in GlobalAddresses
  BY DEF GlobalAddresses
<1>2. \A i \in GlobalIDs : Memory[GlobalAddress(i)] = mem[GlobalAddress(i)]
  BY <1>1 DEF Memory, Variables
<1>3. \A i \in GlobalIDs : Memory'[GlobalAddress(i)] = mem'[GlobalAddress(i)]
  BY <1>1 DEF Memory, Variables
<1>4. IR!Globals = [i \in GlobalIDs |-> mem[GlobalAddress(i)]]
  BY <1>2 DEF IR!Globals, Memory, Variables
<1>5. IR!Globals' = [i \in GlobalIDs |-> mem'[GlobalAddress(i)]]
  BY <1>3 DEF IR!Globals, Memory, Variables
<1>6. IR!Globals' = IR!Globals
  BY <1>4, <1>5
<1>7. Line = Over
  BY DEF Line
<1>8. IR!Call
  BY <1>6, <1>7, SameLayout DEF IR!Call, IR!Over, Over
<1> QED
  BY <1>8 DEF IR!Next

LEMMA InitMapped ==
    ASSUME MachineInit
    PROVE  IR!Init
<1>1. \A i \in GlobalIDs : GlobalAddress(i) \in GlobalAddresses /\ GlobalAddress(i) \in Addresses
  BY MachineAssumption DEF GlobalAddresses
<1>2. \A i \in GlobalIDs : Memory[GlobalAddress(i)] = 0
  BY <1>1 DEF Memory, Variables, MachineInit
<1>3. IR!Globals = [i \in GlobalIDs |-> 0]
  BY <1>2 DEF IR!Globals, Memory, Variables
<1> QED
  BY <1>3, SameLayout DEF IR!Init, MachineInit

-----------------------------------------------------------------------------
(* Lines that load an operand                                              *)

\* Every register and every word of memory that the code reads is a word.
Following ==
    /\ func # NoFunction /\ Followable(func) /\ FitsInMemory(func) /\ Wired
    /\ lines = Lines(func) /\ code = emitFunction(func)
    /\ params \in [DOMAIN func.params -> Word]
    /\ mem \in [Addresses -> Word]
ArgsHold == \A i \in Passed(params) : regs[ArgReg(i - 1)] = params[i]
IsHere(l) == Here.op = l.op /\ Here.args = l.args

LEMMA FollowingFacts ==
    ASSUME Simple, Following
    PROVE  /\ func \in FunctionType /\ Orderly(func)
           /\ \A id \in InstrIDs(func) : SlotAddress(id) \in Addresses
           /\ Addresses \subseteq Word /\ GlobalAddresses \subseteq Addresses
           /\ Variables(func) \subseteq Addresses
           /\ \A id \in ToSet(lines) : id \in InstrIDs(func) \ Allocas(func)
           /\ \A id \in InstrIDs(func) : id \in Allocas(func) <=> Instr(func, id).opcode = "ALLOCA"
           /\ \A a \in Addresses : mem[a] \in Word
<1>1. Orderly(func) /\ func \in FunctionType
  BY FollowableFacts DEF Following, Orderly
<1>2. \A id \in InstrIDs(func) : SlotAddress(id) \in Addresses
  BY <1>1, FramePlaced DEF Following
<1>3. \A id \in InstrIDs(func) : id \in Allocas(func) <=> Instr(func, id).opcode = "ALLOCA"
  BY DEF Allocas
<1>4. Addresses \subseteq Word /\ GlobalAddresses \subseteq Addresses
  BY MachineAssumption DEF Addresses
<1>5. Variables(func) \subseteq Addresses
  BY <1>2, <1>4 DEF Variables, Allocas
<1>6. ASSUME NEW id \in ToSet(lines) PROVE id \in InstrIDs(func) \ Allocas(func)
  <2>1. PICK n \in DOMAIN lines : lines[n] = id
    BY DEF ToSet
  <2>2. lines = Lines(func) /\ Increasing(lines)
    BY <1>1, LinesInOrder DEF Following
  <2>3. n \in 1 .. Len(lines)
    BY <2>2, SequenceFacts DEF Increasing
  <2>4. id \in InstrIDs(func) /\ Instr(func, id).opcode # "ALLOCA"
    BY <1>1, <2>1, <2>2, <2>3, LinesInOrder
  <2> QED
    BY <1>3, <2>4
<1>7. \A a \in Addresses : mem[a] \in Word
  BY DEF Following
<1> QED
  BY <1>1, <1>2, <1>3, <1>4, <1>5, <1>6, <1>7

LEMMA OperandIsWord ==
    ASSUME Simple, Following, NEW v, Reaches(func, v)
    PROVE  IR!Operand(v) \in Word
<1>1. IsOperand(v)
  BY DEF Reaches
<1>2. CASE v.kind = "PARAM"
  <2>1. v.id + 1 \in DOMAIN func.params
    BY <1>2 DEF Reaches
  <2>2. params[v.id + 1] \in Word
    BY <2>1 DEF Following
  <2> QED
    BY <1>1, <1>2, <2>2, OperandMeaning
<1>3. CASE v.kind = "CONST"
  <2>1. v.id + 1 \in DOMAIN func.consts
    BY <1>3 DEF Reaches
  <2>2. func.consts \in Seq(Literals \cup {0}) /\ Literals \subseteq Int
    BY FollowingFacts, FunctionFields, LiteralsAssumption
  <2>3. func.consts[v.id + 1] \in Int
    <3> DEFINE S == Literals \cup {0}
               s == func.consts
    <3>1. s \in Seq(S) /\ S \subseteq Int
      BY <2>2
    <3> HIDE DEF S
    <3>2. s[v.id + 1] \in S
      BY <2>1, <3>1
    <3> QED
      BY <3>1, <3>2
  <2> QED
    BY <1>1, <1>3, <2>3, WrapFacts, OperandMeaning
<1>4. CASE v.kind = "GLOBAL"
  <2>1. GlobalAddress(v.id) \in Word
    BY <1>4, FollowingFacts DEF Reaches, GlobalAddresses
  <2> QED
    BY <1>1, <1>4, <2>1, OperandMeaning
<1>5. CASE v.kind = "INSTR" /\ v.id \in Allocas(func)
  <2>1. SlotAddress(v.id) \in Word
    BY <1>5, FollowingFacts DEF Allocas
  <2> QED
    BY <1>1, <1>5, <2>1, OperandMeaning
<1>6. CASE v.kind = "INSTR" /\ v.id \notin Allocas(func)
  <2>1. v.id \in InstrIDs(func) /\ v.id \in ToSet(lines)
    BY <1>6, FollowingFacts DEF Reaches, Following
  <2>2. mem[SlotAddress(v.id)] \in Word
    BY <2>1, FollowingFacts
  <2> QED
    BY <1>1, <1>6, <2>1, <2>2, OperandMeaning
<1> QED
  BY <1>1, <1>2, <1>3, <1>4, <1>5, <1>6 DEF IsOperand

LEMMA Fetched ==
    ASSUME Simple, Following, pc # 0, Step, regs["s0"] = StackTop, ArgsHold,
           NEW v, Reaches(func, v), NEW reg, IsHere(Fetch(func, v, reg))
    PROVE  Writes(reg, IR!Operand(v))
<1> DEFINE l == Fetch(func, v, reg)
<1>1. IsOperand(v)
  BY DEF Reaches
<1>2. /\ v.kind = "PARAM" => l = Asm("mv", <<reg, ArgReg(v.id)>>)
      /\ v.kind = "CONST" => l = Asm("li", <<reg, func.consts[v.id + 1]>>)
      /\ v.kind = "GLOBAL" => l = Asm("la", <<reg, v.id>>)
      /\ v.kind = "INSTR" /\ Instr(func, v.id).opcode = "ALLOCA" =>
           l = Asm("addi", <<reg, "s0", -getSlotOffset(v.id)>>)
      /\ v.kind = "INSTR" /\ Instr(func, v.id).opcode # "ALLOCA" =>
           l = Asm("lw", SlotArgs(reg, v.id))
      /\ Here.op = l.op /\ Here.args = l.args
  BY <1>1, FetchFacts DEF IsHere
<1> HIDE DEF l
<1>3. CASE v.kind = "PARAM"
  <2>1. Here.op = "mv" /\ Here.args = <<reg, ArgReg(v.id)>>
    BY <1>3, <1>2, AsmFields
  <2>2. Arg(1) = reg /\ Arg(2) = ArgReg(v.id)
    BY <2>1 DEF Arg
  <2>3. v.id \in 0 .. 7 /\ v.id + 1 \in DOMAIN params
    BY <1>3 DEF Reaches, Following
  <2>4. v.id + 1 \in Passed(params) /\ (v.id + 1) - 1 = v.id
    BY <2>3 DEF Passed
  <2>5. regs[ArgReg(v.id)] = params[v.id + 1]
    BY <2>4 DEF ArgsHold
  <2>6. Writes(Arg(1), regs[Arg(2)])
    BY <2>1, StepExact
  <2> QED
    BY <1>1, <1>3, <2>2, <2>5, <2>6, OperandMeaning
<1>4. CASE v.kind = "CONST"
  <2>1. Here.op = "li" /\ Here.args = <<reg, func.consts[v.id + 1]>>
    BY <1>4, <1>2, AsmFields
  <2>2. Arg(1) = reg /\ Arg(2) = func.consts[v.id + 1]
    BY <2>1 DEF Arg
  <2>3. Writes(Arg(1), Wrap(Arg(2)))
    BY <2>1, StepExact
  <2> QED
    BY <1>1, <1>4, <2>2, <2>3, OperandMeaning
<1>5. CASE v.kind = "GLOBAL"
  <2>1. Here.op = "la" /\ Here.args = <<reg, v.id>>
    BY <1>5, <1>2, AsmFields
  <2>2. Arg(1) = reg /\ Arg(2) = v.id
    BY <2>1 DEF Arg
  <2>3. Writes(Arg(1), GlobalAddress(Arg(2)))
    BY <2>1, StepExact
  <2> QED
    BY <1>1, <1>5, <2>2, <2>3, OperandMeaning
<1>6. ASSUME v.kind = "INSTR"
      PROVE  /\ v.id \in InstrIDs(func)
             /\ v.id \in Allocas(func) <=> Instr(func, v.id).opcode = "ALLOCA"
             /\ v.id \in Allocas(func) \/ v.id \in ToSet(lines)
  BY <1>6, FollowingFacts DEF Reaches, Following
<1>7. func \in FunctionType /\ FitsInMemory(func)
  BY FollowingFacts DEF Following
<1>8. CASE v.kind = "INSTR" /\ v.id \in Allocas(func)
  <2>1. Here.op = "addi" /\ Here.args = <<reg, "s0", -getSlotOffset(v.id)>>
    BY <1>6, <1>8, <1>2, AsmFields
  <2>2. Arg(1) = reg
    BY <2>1 DEF Arg
  <2>3. Wrap(regs[Arg(2)] + Arg(3)) = SlotAddress(v.id)
    BY <1>6, <1>7, <1>8, <2>1, <2>2, SlotOperand
  <2>4. Writes(Arg(1), Wrap(regs[Arg(2)] + Arg(3)))
    BY <2>1, StepExact
  <2> QED
    BY <1>1, <1>8, <2>2, <2>3, <2>4, OperandMeaning
<1>9. CASE v.kind = "INSTR" /\ v.id \notin Allocas(func)
  <2>1. Here.op = "lw" /\ Here.args = SlotArgs(reg, v.id)
    BY <1>6, <1>9, <1>2, AsmFields
  <2>2. Arg(1) = reg
    BY <2>1 DEF Arg, SlotArgs
  <2>3. EffectiveAddress = SlotAddress(v.id)
    BY <1>6, <1>7, <1>9, <2>1, <2>2, SlotOperand
  <2>4. Writes(Arg(1), mem[EffectiveAddress])
    BY <2>1, StepExact
  <2> QED
    BY <1>1, <1>6, <1>9, <2>2, <2>3, <2>4, OperandMeaning
<1> QED
  BY <1>1, <1>3, <1>4, <1>5, <1>8, <1>9 DEF IsOperand

-----------------------------------------------------------------------------
(* The code of an instruction, line by line                                *)

\* What j lines of the code of an instruction have done: a and b are the values
\* of its operands, r the registers, m the variables.
Midway(instr, j, a, b, r, m) ==
    LET opcode == instr.opcode
    IN /\ j >= 1 /\ opcode # "RET" => r["t0"] = a
       /\ j >= 1 /\ opcode = "RET" => r["a0"] = a
       /\ j >= 2 /\ opcode \in LLVM!Operation => r["t1"] = b
       /\ j >= 2 /\ opcode = "LOAD" => r["t1"] = m[a] /\ m[a] \in Word
       /\ j >= 2 /\ opcode = "BR" => a = 0
       /\ j = 3 /\ opcode = "ICMP" /\ instr.cond \in TwoStep =>
            r["t2"] = Compared(instr.cond, a, b)
       /\ \/ j = 3 /\ opcode \in DOMAIN Operation
          \/ j = 3 /\ opcode = "ICMP" /\ instr.cond \notin TwoStep
          \/ j = 4 /\ opcode = "ICMP"
          => r["t2"] \in Word /\ r["t2"] \in IR!Outcomes(instr, a, b)

\* The core is about to run line j + 1 of the code of line n + 1 of the IR.
AtPlace(n, j) ==
    LET instr == Instr(func, lines[n + 1])
        ops == instr.operands
    IN /\ j = 0 \/ instr.opcode # "RET" => ArgsHold
       /\ Midway(instr, j, IR!Operand(ops[1]), IR!Operand(ops[2]), regs, Memory)
Within(n, j) ==
    /\ Following /\ pc # 0 /\ regs["s0"] = StackTop
    /\ n \in Nat /\ j \in Nat /\ Belongs(func, Here, n, j)
    /\ \E A, B : LineOK(func, Here, A, B) /\ Holds(func, A, regs, mem)

LEMMA Addressed ==
    ASSUME NEW n, NEW j, Within(n, j)
    PROVE  /\ Here.op = "lw" /\ Here.args = <<"t1", 0, "t0">> => regs["t0"] \in Variables(func)
           /\ Here.op = "sw" /\ Here.args = <<"t0", 0, "t1">> => regs["t1"] \in Variables(func)
<1>1. PICK A, B : LineOK(func, Here, A, B) /\ Holds(func, A, regs, mem)
  BY DEF Within
<1>2. ASSUME Here.op = "lw", Here.args = <<"t1", 0, "t0">>
      PROVE  HasAddress("t0") \in A
  <2>1. Here.args[1] = "t1" /\ Here.args[2] = 0 /\ Here.args[3] = "t0"
    BY <1>2
  <2>2. \A id : Here.args # SlotArgs(Here.args[1], id)
    BY <2>1 DEF SlotArgs
  <2>3. ~PutsAddress(func, Here, A)
    BY <1>2, <2>2 DEF PutsAddress
  <2>4. LoadsFrom(Here, A)
    BY <1>1, <1>2, <2>3 DEF LineOK, StoresResult
  <2> QED
    BY <1>2, <2>1, <2>4 DEF LoadsFrom
<1>3. ASSUME Here.op = "sw", Here.args = <<"t0", 0, "t1">>
      PROVE  HasAddress("t1") \in A
  <2>1. Here.args[1] = "t0" /\ Here.args[2] = 0 /\ Here.args[3] = "t1"
    BY <1>3
  <2>2. \A id : Here.args # SlotArgs(Here.args[1], id)
    BY <2>1 DEF SlotArgs
  <2>3. ~PutsAddress(func, Here, A) /\ Here.op \notin RegisterOps
    BY <1>3 DEF PutsAddress, RegisterOps, BinaryOps, UnaryOps
  <2>4. HasAddress(Here.args[3]) \in A
    BY <1>1, <1>3, <2>2, <2>3 DEF LineOK, StoresResult
  <2> QED
    BY <2>1, <2>4
<1> QED
  BY <1>1, <1>2, <1>3 DEF Holds

\* An operand does not change while memory does not.
LEMMA SameOperand ==
    ASSUME UNCHANGED <<func, params, lines, mem>>
    PROVE  /\ \A v : IR!Operand(v)' = IR!Operand(v)
           /\ Memory' = Memory /\ Values' = Values
BY DEF IR!Operand, IR!Allocas, IR!Wrap, Memory, Values, Variables, IR!InstrIDs, IR!LastInstr, IR!Instr,
       Allocas, InstrIDs, LastInstr, Instr, IR!WordSize, IR!Power

\* A write to a register.
LEMMA WriteFacts ==
    ASSUME Wired, NEW reg \in Scratch, NEW word, Writes(reg, word), UNCHANGED params
    PROVE  /\ Wired' /\ regs'[reg] = word /\ \A r : r # reg => regs'[r] = regs[r]
           /\ reg # "a0" /\ ArgsHold => ArgsHold'
<1>1. /\ regs' = [regs EXCEPT ![reg] = word] /\ mem' = mem /\ reg \in Registers
  BY ScratchIsWired DEF Writes
<1>2. /\ regs' = [r \in Registers |-> regs'[r]] /\ regs'[reg] = word
      /\ \A r : r # reg => regs'[r] = regs[r]
  BY <1>1 DEF Wired
<1>3. Wired'
  BY <1>1, <1>2 DEF Wired
<1>4. ASSUME reg # "a0", ArgsHold PROVE ArgsHold'
  <2>1. ASSUME NEW i \in Passed(params) PROVE regs'[ArgReg(i - 1)] = params[i]
    <3>1. i \in 1 .. 8
      BY DEF Passed
    <3>2. ArgReg(i - 1) = <<"a0", "a1", "a2", "a3", "a4", "a5", "a6", "a7">>[(i - 1) + 1]
      BY DEF ArgReg
    <3>3. i \in {1, 2, 3, 4, 5, 6, 7, 8} /\ (i - 1) + 1 = i
      BY <3>1
    <3>4. ArgReg(i - 1) \notin {"t0", "t1", "t2"}
      BY <3>2, <3>3
    <3>5. ArgReg(i - 1) # reg
      BY <1>4, <3>4 DEF Scratch
    <3> QED
      BY <1>2, <1>4, <3>5 DEF ArgsHold
  <2> QED
    BY <2>1 DEF ArgsHold
<1> QED
  BY <1>2, <1>3, <1>4

LEMMA WithinFacts ==
    ASSUME Simple, NEW n, NEW j, Within(n, j)
    PROVE  LET id == lines[n + 1]
               c == CodeAt(func, n)
           IN /\ n \in Nat /\ j \in Nat /\ DOMAIN lines = 1 .. Len(lines) /\ Len(lines) \in Nat
              /\ n + 1 \in 1 .. Len(lines) /\ id \in InstrIDs(func) /\ id \in ToSet(lines)
              /\ Instr(func, id).opcode \in LLVMOpcode \ {"ALLOCA"}
              /\ Instr(func, id).cond \in LLVMCmpCond
              /\ Supplied(func, id) /\ CodeLines(func, id, c)
              /\ j + 1 \in 1 .. Len(c) /\ Here = c[j + 1]
<1> DEFINE id == lines[n + 1]
           c == CodeAt(func, n)
<1>1. /\ n \in Nat /\ j \in Nat /\ lines = Lines(func) /\ Followable(func)
      /\ n + 1 \in 1 .. Len(lines) /\ j + 1 \in 1 .. Len(c) /\ Here = c[j + 1]
  BY DEF Within, Following, Belongs
<1>2. /\ id \in InstrIDs(func) /\ id \in ToSet(lines) /\ Instr(func, id).opcode # "ALLOCA"
      /\ Fed(func, id) /\ Supplied(func, id) /\ CodeLines(func, id, c)
  BY <1>1, BelongsFacts
<1>3. IsSequence(lines)
  BY <1>1, FollowableFacts, LinesInOrder DEF Increasing
<1>4. DOMAIN lines = 1 .. Len(lines) /\ Len(lines) \in Nat
  BY <1>3, SequenceFacts DEF IsSequence
<1> HIDE DEF c, id
<1>5. Instr(func, id).opcode \in LLVMOpcode \ {"ALLOCA"} /\ Instr(func, id).cond \in LLVMCmpCond
  BY <1>2 DEF Fed
<1> QED
  BY <1>1, <1>2, <1>4, <1>5 DEF c, id

\* The values of an instruction's operands.
LEMMA OperandValues ==
    ASSUME Simple, NEW n, NEW j, Within(n, j)
    PROVE  LET instr == Instr(func, lines[n + 1])
               ops == instr.operands
           IN /\ instr.opcode \in LLVM!Operation =>
                   /\ Reaches(func, ops[1]) /\ IR!Operand(ops[1]) \in Word
                   /\ Reaches(func, ops[2]) /\ IR!Operand(ops[2]) \in Word
              /\ instr.opcode \in {"LOAD", "RET"} =>
                   Reaches(func, ops[1]) /\ IR!Operand(ops[1]) \in Word
              /\ instr.opcode = "BR" /\ Len(ops) # 1 =>
                   Reaches(func, ops[1]) /\ IR!Operand(ops[1]) \in Word
<1>1. Supplied(func, lines[n + 1])
  BY WithinFacts
<1>2. \A v : Reaches(func, v) => IR!Operand(v) \in Word
  BY OperandIsWord DEF Within
<1> QED
  BY <1>1, <1>2 DEF Supplied

\* The core has run line j + 1, which is not the last.
NextPlace(n, j) == pc' = pc + 1 /\ mem' = mem /\ Wired' /\ AtPlace(n, j + 1)'

\* A line that writes to a register and is not the last.
LEMMA StepsOn ==
    ASSUME Simple, NEW n, NEW j, Within(n, j), AtPlace(n, j), Step,
           NEW instr, instr = Instr(func, lines[n + 1]),
           NEW reg \in Scratch, NEW word, Writes(reg, word),
           reg # "a0" \/ instr.opcode = "RET",
           Midway(instr, j + 1, IR!Operand(instr.operands[1]), IR!Operand(instr.operands[2]),
                  regs', Memory)
    PROVE  NextPlace(n, j)
<1>1. pc' = pc + 1 /\ mem' = mem
  BY DEF Writes
<1>2. UNCHANGED <<func, params, code, lines, lineOf>> /\ Wired
  BY StepExact DEF Within, Following
<1>3. /\ \A v : IR!Operand(v)' = IR!Operand(v)
      /\ Memory' = Memory
  BY <1>1, <1>2, SameOperand
<1>4. Wired' /\ (reg # "a0" /\ ArgsHold => ArgsHold')
  BY <1>2, WriteFacts
<1>5. Instr(func', lines'[n + 1]) = instr
  BY <1>2
<1>6. instr.opcode # "RET" => ArgsHold'
  BY <1>4 DEF AtPlace
<1>7. j + 1 # 0
  BY DEF Within
<1>8. AtPlace(n, j + 1)'
  BY <1>3, <1>5, <1>6, <1>7 DEF AtPlace
<1> QED
  BY <1>1, <1>4, <1>8 DEF NextPlace

LEMMA FirstOperand ==
    ASSUME Simple, NEW n, Within(n, 0), AtPlace(n, 0), Step,
           LET instr == Instr(func, lines[n + 1])
           IN instr.opcode # "BR" \/ Len(instr.operands) # 1
    PROVE  NextPlace(n, 0)
<1> DEFINE id == lines[n + 1]
           instr == Instr(func, id)
           ops == instr.operands
           c == CodeAt(func, n)
           reg == IF instr.opcode = "RET" THEN "a0" ELSE "t0"
           a == IR!Operand(ops[1])
           b == IR!Operand(ops[2])
<1>1. /\ instr.opcode \in LLVMOpcode \ {"ALLOCA"} /\ CodeLines(func, id, c) /\ Here = c[1]
  BY WithinFacts
<1>2. instr.opcode \in LLVM!Operation \cup {"LOAD", "RET"}
        \/ (instr.opcode = "BR" /\ Len(ops) # 1)
  BY <1>1, Opcodes DEF LLVMOpcode, Operation
<1>3. Reaches(func, ops[1])
  BY <1>2, OperandValues
<1>4. Loads(func, Here, id, 1, reg)
  <2>1. instr.opcode \in DOMAIN Operation \cup {"ICMP", "STORE", "LOAD", "BR"}
          => Loads(func, c[1], id, 1, "t0") /\ instr.opcode # "RET"
    BY <1>1, <1>2 DEF CodeLines, Operation, LLVM!Operation
  <2>2. instr.opcode = "RET" => Loads(func, c[1], id, 1, "a0")
    BY <1>1 DEF CodeLines
  <2> QED
    BY <1>1, <1>2, <2>1, <2>2, Opcodes
<1>5. IsHere(Fetch(func, ops[1], reg))
  BY <1>4 DEF Loads, IsLine, IsHere
<1> HIDE DEF reg, a, b, c, id, ops
<1>6. ArgsHold /\ Following /\ pc # 0 /\ regs["s0"] = StackTop
  BY DEF AtPlace, Within
<1>7. Writes(reg, IR!Operand(ops[1]))
  BY <1>3, <1>5, <1>6, Fetched
<1>8. reg \in Scratch /\ (reg # "a0" \/ instr.opcode = "RET")
  BY DEF reg, Scratch
<1>9. regs'[reg] = a
  BY <1>6, <1>7, <1>8, WriteFacts, StepExact DEF a, Following
<1>10. Midway(instr, 1, a, b, regs', Memory)
  BY <1>9 DEF Midway, reg
<1>11. Midway(instr, 0 + 1, IR!Operand(ops[1]), IR!Operand(ops[2]), regs', Memory)
  BY <1>10 DEF a, b
<1> QED
  BY <1>7, <1>8, <1>11, StepsOn DEF id, ops

LEMMA SecondOperand ==
    ASSUME Simple, NEW n, Within(n, 1), AtPlace(n, 1), Step,
           Instr(func, lines[n + 1]).opcode \in LLVM!Operation
    PROVE  NextPlace(n, 1)
<1> DEFINE id == lines[n + 1]
           instr == Instr(func, id)
           ops == instr.operands
           c == CodeAt(func, n)
           a == IR!Operand(ops[1])
           b == IR!Operand(ops[2])
<1>1. CodeLines(func, id, c) /\ Here = c[2]
  BY WithinFacts
<1>2. Reaches(func, ops[2])
  BY OperandValues
<1>3. Loads(func, Here, id, 2, "t1")
  BY <1>1, Opcodes DEF CodeLines
<1>4. IsHere(Fetch(func, ops[2], "t1"))
  BY <1>3 DEF Loads, IsLine, IsHere
<1>5. instr.opcode \notin {"RET", "LOAD", "BR"}
  BY DEF LLVM!Operation
<1>6. ArgsHold /\ Following /\ pc # 0 /\ regs["s0"] = StackTop
      /\ Midway(instr, 1, a, b, regs, Memory)
  BY <1>5 DEF AtPlace, Within
<1> HIDE DEF a, b, c, id, ops
<1>7. Writes("t1", IR!Operand(ops[2])) /\ "t1" \in Scratch
  BY <1>2, <1>4, <1>6, Fetched DEF Scratch
<1>8. regs'["t1"] = b /\ regs'["t0"] = regs["t0"]
  BY <1>6, <1>7, WriteFacts, StepExact DEF b, Following
<1>9. regs["t0"] = a
  BY <1>5, <1>6 DEF Midway
<1>10. Midway(instr, 2, a, b, regs', Memory)
  BY <1>5, <1>8, <1>9 DEF Midway
<1>11. Midway(instr, 1 + 1, IR!Operand(ops[1]), IR!Operand(ops[2]), regs', Memory)
  BY <1>10 DEF a, b
<1> QED
  BY <1>7, <1>11, StepsOn DEF id, ops

LEMMA Arithmetic ==
    ASSUME Simple, NEW n, Within(n, 2), AtPlace(n, 2), Step,
           Instr(func, lines[n + 1]).opcode \in DOMAIN Operation
    PROVE  NextPlace(n, 2)
<1> DEFINE id == lines[n + 1]
           instr == Instr(func, id)
           ops == instr.operands
           c == CodeAt(func, n)
           a == IR!Operand(ops[1])
           b == IR!Operand(ops[2])
           op == Operation[instr.opcode]
           w == ALU(op, a, b)
<1>1. CodeLines(func, id, c) /\ Here = c[3] /\ instr.opcode \in LLVM!Operation
  BY WithinFacts, Opcodes
<1>2. Here.op = op /\ Here.args = <<"t2", "t0", "t1">>
  BY <1>1 DEF CodeLines, IsLine
<1>3. instr.opcode \notin {"RET", "LOAD", "BR", "ICMP"}
  BY DEF Operation
<1>4. op \in BinaryOps
  BY DEF Operation, BinaryOps
<1>5. /\ Following /\ pc # 0 /\ Midway(instr, 2, a, b, regs, Memory)
  BY DEF AtPlace, Within
<1>6. a \in Word /\ b \in Word
  BY <1>1, OperandValues
<1> HIDE DEF a, b, c, id, ops, op
<1>7. regs["t0"] = a /\ regs["t1"] = b
  BY <1>1, <1>3, <1>5 DEF Midway
<1>8. w \in Word /\ w \in IR!Outcomes(instr, a, b)
  BY <1>6, ALUImplements DEF op, id
<1>9. Writes("t2", w) /\ "t2" \in Scratch
  <2>1. Arg(1) = "t2" /\ Arg(2) = "t0" /\ Arg(3) = "t1"
    BY <1>2 DEF Arg
  <2>2. Writes(Arg(1), ALU(Here.op, regs[Arg(2)], regs[Arg(3)]))
    BY <1>2, <1>4, <1>5, StepExact
  <2> QED
    BY <1>2, <1>7, <2>1, <2>2 DEF Scratch
<1> HIDE DEF w
<1>10. regs'["t2"] = w /\ regs'["t0"] = a /\ regs'["t1"] = b
  BY <1>5, <1>7, <1>9, WriteFacts, StepExact DEF Following
<1>11. Midway(instr, 3, a, b, regs', Memory)
  BY <1>3, <1>8, <1>10 DEF Midway
<1>12. Midway(instr, 2 + 1, IR!Operand(ops[1]), IR!Operand(ops[2]), regs', Memory)
  BY <1>11 DEF a, b
<1> QED
  BY <1>9, <1>12, StepsOn DEF id, ops

\* The first line of a comparison.
LEMMA Comparing ==
    ASSUME Simple, NEW n, Within(n, 2), AtPlace(n, 2), Step,
           Instr(func, lines[n + 1]).opcode = "ICMP"
    PROVE  NextPlace(n, 2)
<1> DEFINE id == lines[n + 1]
           instr == Instr(func, id)
           cond == instr.cond
           ops == instr.operands
           c == CodeAt(func, n)
           a == IR!Operand(ops[1])
           b == IR!Operand(ops[2])
           op == ComparisonOp(cond)
           w == Compared(cond, a, b)
<1>1. /\ CodeLines(func, id, c) /\ Here = c[3] /\ instr.opcode \in LLVM!Operation
      /\ cond \in LLVMCmpCond
  BY WithinFacts, Opcodes
<1>2. /\ Here.op = op
      /\ Here.args = IF Swapped(cond) THEN <<"t2", "t1", "t0">> ELSE <<"t2", "t0", "t1">>
  BY <1>1 DEF CodeLines, IsLine
<1>3. /\ instr.opcode = "ICMP" /\ instr.opcode \notin {"RET", "LOAD", "BR"}
      /\ instr.opcode \notin DOMAIN Operation
  BY DEF Operation
<1>4. op \in BinaryOps
  BY DEF ComparisonOp, BinaryOps
<1>5. /\ Following /\ pc # 0 /\ Midway(instr, 2, a, b, regs, Memory)
  BY DEF AtPlace, Within
<1>6. a \in Word /\ b \in Word
  BY <1>1, OperandValues
<1> HIDE DEF a, b, c, id, ops, op
<1>7. regs["t0"] = a /\ regs["t1"] = b
  BY <1>1, <1>3, <1>5 DEF Midway
<1>8. Writes("t2", w) /\ "t2" \in Scratch
  <2>1. Writes(Arg(1), ALU(Here.op, regs[Arg(2)], regs[Arg(3)]))
    BY <1>2, <1>4, <1>5, StepExact
  <2>2. CASE Swapped(cond)
    <3>1. Arg(1) = "t2" /\ Arg(2) = "t1" /\ Arg(3) = "t0"
      BY <1>2, <2>2 DEF Arg
    <3> QED
      BY <1>2, <1>7, <2>1, <2>2, <3>1 DEF Scratch, Compared, op
  <2>3. CASE ~Swapped(cond)
    <3>1. Arg(1) = "t2" /\ Arg(2) = "t0" /\ Arg(3) = "t1"
      BY <1>2, <2>3 DEF Arg
    <3> QED
      BY <1>2, <1>7, <2>1, <2>3, <3>1 DEF Scratch, Compared, op
  <2> QED
    BY <2>2, <2>3
<1>9. cond \notin TwoStep => w \in Word /\ w \in IR!Outcomes(instr, a, b)
  <2>1. SUFFICES ASSUME cond \notin TwoStep PROVE w \in Word /\ w \in IR!Outcomes(instr, a, b)
    OBVIOUS
  <2> DEFINE result == CASE cond = "EQ" -> Flag(w = 0)
                         [] cond = "NE" -> Flag(w # 0)
                         [] cond \in {"UGE", "SGE", "SLE"} -> Xor(w, Wrap(1))
                         [] OTHER -> w
  <2>2. result \in Word /\ result \in IR!Outcomes(instr, a, b)
    BY <1>1, <1>3, <1>6, ComparisonImplements
  <2>3. result = w
    BY <2>1 DEF TwoStep
  <2> HIDE DEF result
  <2> QED
    BY <2>2, <2>3
<1> HIDE DEF w
<1>10. regs'["t2"] = w /\ regs'["t0"] = a /\ regs'["t1"] = b
  BY <1>5, <1>7, <1>8, WriteFacts, StepExact DEF Following
<1>11. Midway(instr, 3, a, b, regs', Memory)
  BY <1>3, <1>9, <1>10 DEF Midway, w
<1>12. Midway(instr, 2 + 1, IR!Operand(ops[1]), IR!Operand(ops[2]), regs', Memory)
  BY <1>11 DEF a, b
<1> QED
  BY <1>8, <1>12, StepsOn DEF id, ops

\* The second line of a comparison.
LEMMA Deciding ==
    ASSUME Simple, NEW n, Within(n, 3), AtPlace(n, 3), Step,
           Instr(func, lines[n + 1]).opcode = "ICMP",
           Instr(func, lines[n + 1]).cond \in TwoStep
    PROVE  NextPlace(n, 3)
<1> DEFINE id == lines[n + 1]
           instr == Instr(func, id)
           cond == instr.cond
           ops == instr.operands
           c == CodeAt(func, n)
           a == IR!Operand(ops[1])
           b == IR!Operand(ops[2])
           half == Compared(cond, a, b)
           w == CASE cond = "EQ" -> Flag(half = 0)
                  [] cond = "NE" -> Flag(half # 0)
                  [] cond \in {"UGE", "SGE", "SLE"} -> Xor(half, Wrap(1))
                  [] OTHER -> half
<1>1. /\ CodeLines(func, id, c) /\ Here = c[4] /\ instr.opcode \in LLVM!Operation
      /\ cond \in LLVMCmpCond
  BY WithinFacts, Opcodes
<1>2. Here.op = SecondLine(cond).op /\ Here.args = SecondLine(cond).args
  BY <1>1 DEF CodeLines, IsLine
<1>3. /\ instr.opcode = "ICMP" /\ instr.opcode \notin {"RET", "LOAD", "BR"}
      /\ instr.opcode \notin DOMAIN Operation /\ cond \in TwoStep
  BY DEF Operation
<1>4. /\ Following /\ pc # 0 /\ Midway(instr, 3, a, b, regs, Memory)
  BY DEF AtPlace, Within
<1>5. a \in Word /\ b \in Word
  BY <1>1, OperandValues
<1>6. w \in Word /\ w \in IR!Outcomes(instr, a, b)
  BY <1>1, <1>5, ComparisonImplements
<1> HIDE DEF a, b, c, id, ops, half
<1>7. regs["t0"] = a /\ regs["t1"] = b /\ regs["t2"] = half
  BY <1>1, <1>3, <1>4 DEF Midway, half
<1>8. Writes("t2", w) /\ "t2" \in Scratch
  <2>1. CASE cond = "EQ"
    <3>1. Here.op = "seqz" /\ Here.args = <<"t2", "t2">>
      BY <1>2, <2>1 DEF SecondLine, Asm
    <3>2. Arg(1) = "t2" /\ Arg(2) = "t2"
      BY <3>1 DEF Arg
    <3>3. Writes(Arg(1), Flag(regs[Arg(2)] = 0))
      BY <1>4, <3>1, StepExact
    <3> QED
      BY <1>7, <2>1, <3>2, <3>3 DEF Scratch
  <2>2. CASE cond = "NE"
    <3>1. Here.op = "snez" /\ Here.args = <<"t2", "t2">>
      BY <1>2, <2>2 DEF SecondLine, Asm
    <3>2. Arg(1) = "t2" /\ Arg(2) = "t2"
      BY <3>1 DEF Arg
    <3>3. Writes(Arg(1), Flag(regs[Arg(2)] # 0))
      BY <1>4, <3>1, StepExact
    <3> QED
      BY <1>7, <2>2, <3>2, <3>3 DEF Scratch
  <2>3. CASE cond \in {"UGE", "SGE", "SLE"}
    <3>1. Here.op = "xori" /\ Here.args = <<"t2", "t2", 1>>
      BY <1>2, <2>3 DEF SecondLine, Asm
    <3>2. Arg(1) = "t2" /\ Arg(2) = "t2" /\ Arg(3) = 1
      BY <3>1 DEF Arg
    <3>3. Writes(Arg(1), Xor(regs[Arg(2)], Wrap(Arg(3))))
      BY <1>4, <3>1, StepExact
    <3>4. w = Xor(half, Wrap(1))
      BY <2>3
    <3> QED
      BY <1>7, <3>2, <3>3, <3>4 DEF Scratch
  <2> QED
    BY <1>3, <2>1, <2>2, <2>3 DEF TwoStep
<1> HIDE DEF w
<1>9. regs'["t2"] = w /\ regs'["t0"] = a /\ regs'["t1"] = b
  BY <1>4, <1>7, <1>8, WriteFacts, StepExact DEF Following
<1>10. Midway(instr, 4, a, b, regs', Memory)
  BY <1>3, <1>6, <1>9 DEF Midway
<1>11. Midway(instr, 3 + 1, IR!Operand(ops[1]), IR!Operand(ops[2]), regs', Memory)
  BY <1>10 DEF a, b
<1> QED
  BY <1>8, <1>11, StepsOn DEF id, ops

\* The line that loads from a variable.
LEMMA Loading ==
    ASSUME Simple, NEW n, Within(n, 1), AtPlace(n, 1), Step,
           Instr(func, lines[n + 1]).opcode = "LOAD"
    PROVE  NextPlace(n, 1)
<1> DEFINE id == lines[n + 1]
           instr == Instr(func, id)
           ops == instr.operands
           c == CodeAt(func, n)
           a == IR!Operand(ops[1])
           b == IR!Operand(ops[2])
<1>1. CodeLines(func, id, c) /\ Here = c[2]
  BY WithinFacts
<1>2. Here.op = "lw" /\ Here.args = <<"t1", 0, "t0">>
  BY <1>1 DEF CodeLines, IsLine
<1>3. /\ Following /\ pc # 0 /\ instr.opcode = "LOAD" /\ Midway(instr, 1, a, b, regs, Memory)
  BY DEF AtPlace, Within
<1>4. a \in Word
  BY OperandValues
<1> HIDE DEF a, b, c, id, ops
<1>5. regs["t0"] = a
  BY <1>3 DEF Midway
<1>6. a \in Variables(func)
  BY <1>2, <1>5, Addressed
<1>7. Memory[a] = mem[a] /\ Memory[a] \in Word
  <2>1. Memory[a] = mem[a]
    BY <1>6 DEF Memory
  <2>2. mem[a] \in Word
    BY <1>3, <1>6, FollowingFacts
  <2> QED
    BY <2>1, <2>2
<1>8. Writes("t1", Memory[a]) /\ "t1" \in Scratch
  <2>1. Arg(1) = "t1" /\ Arg(2) = 0 /\ Arg(3) = "t0"
    BY <1>2 DEF Arg
  <2>2. EffectiveAddress = a
    <3>1. a \in Nat /\ Wrap(a) = a
      BY <1>4, WrapFacts
    <3>2. a + 0 = a
      BY <3>1
    <3> QED
      BY <1>5, <2>1, <3>1, <3>2 DEF EffectiveAddress
  <2>3. Writes(Arg(1), mem[EffectiveAddress])
    BY <1>2, <1>3, StepExact
  <2> QED
    BY <1>7, <2>1, <2>2, <2>3 DEF Scratch
<1>9. regs'["t1"] = Memory[a] /\ regs'["t0"] = a
  BY <1>3, <1>5, <1>8, WriteFacts, StepExact DEF Following
<1>10. Midway(instr, 2, a, b, regs', Memory)
  BY <1>3, <1>7, <1>9 DEF Midway, LLVM!Operation
<1>11. Midway(instr, 1 + 1, IR!Operand(ops[1]), IR!Operand(ops[2]), regs', Memory)
  BY <1>10 DEF a, b
<1> QED
  BY <1>8, <1>11, StepsOn DEF id, ops

\* The branch that is not taken.
LEMMA NotTaken ==
    ASSUME Simple, NEW n, Within(n, 1), AtPlace(n, 1), Step, regs["t0"] = 0,
           LET instr == Instr(func, lines[n + 1])
           IN instr.opcode = "BR" /\ Len(instr.operands) # 1
    PROVE  NextPlace(n, 1)
<1> DEFINE id == lines[n + 1]
           instr == Instr(func, id)
           ops == instr.operands
           c == CodeAt(func, n)
           a == IR!Operand(ops[1])
           b == IR!Operand(ops[2])
<1>1. CodeLines(func, id, c) /\ Here = c[2]
  BY WithinFacts
<1>2. Here.op = "bnez" /\ Here.args = <<"t0", BlockLabel(func, ops[2])>>
  BY <1>1 DEF CodeLines, IsLine
<1>3. /\ Following /\ pc # 0 /\ ArgsHold /\ Midway(instr, 1, a, b, regs, Memory)
      /\ instr.opcode = "BR" /\ regs["t0"] = 0
  BY DEF AtPlace, Within
<1> HIDE DEF c, id
<1>4. a = 0
  BY <1>3 DEF Midway
<1>5. mem' = mem /\ regs' = regs /\ pc' = pc + 1
  <2>1. Arg(1) = "t0"
    BY <1>2 DEF Arg
  <2> QED
    BY <1>2, <1>3, <2>1, StepExact
<1>6. UNCHANGED <<func, params, code, lines, lineOf>>
  BY <1>3, StepExact
<1>7. /\ \A v : IR!Operand(v)' = IR!Operand(v)
      /\ Memory' = Memory
  BY <1>5, <1>6, SameOperand
<1>8. Wired' /\ ArgsHold'
  BY <1>3, <1>5, <1>6 DEF Wired, ArgsHold, Following
<1>9. Midway(instr, 2, a, b, regs', Memory)
  <2> HIDE DEF a, b
  <2> QED
    BY <1>3, <1>4, <1>5 DEF Midway, LLVM!Operation, Operation
<1>10. AtPlace(n, 2)'
  <2>1. Instr(func', lines'[n + 1]) = instr
    BY <1>6 DEF id
  <2> QED
    BY <1>7, <1>8, <1>9, <2>1 DEF AtPlace
<1> QED
  BY <1>5, <1>8, <1>10 DEF NextPlace

LEMMA NextLine ==
    ASSUME Simple, NEW n, NEW j, Within(n, j), AtPlace(n, j), Step,
           j + 1 < Len(CodeAt(func, n)),
           Instr(func, lines[n + 1]).opcode # "BR" \/ j # 1 \/ regs["t0"] = 0
    PROVE  NextPlace(n, j)
<1> DEFINE id == lines[n + 1]
           instr == Instr(func, id)
           c == CodeAt(func, n)
<1>1. /\ CodeLines(func, id, c) /\ instr.opcode \in LLVMOpcode \ {"ALLOCA"}
      /\ instr.cond \in LLVMCmpCond /\ j \in Nat
  BY WithinFacts
<1>2. instr.opcode \in DOMAIN Operation \cup {"ICMP", "LOAD", "STORE", "BR", "RET"}
  BY <1>1 DEF LLVMOpcode, Operation
<1>3. DOMAIN Operation \cup {"ICMP", "STORE"} = LLVM!Operation
  BY Opcodes
<1>4. instr.opcode \in DOMAIN Operation => instr.opcode \notin {"ICMP", "LOAD", "STORE", "BR", "RET"}
  BY DEF Operation
<1>5. CASE j = 0
  <2>1. instr.opcode # "BR" \/ Len(instr.operands) # 1
    BY <1>1, <1>5 DEF CodeLines
  <2> QED
    BY <1>5, <2>1, FirstOperand
<1>6. CASE j = 1
  <2>1. CASE instr.opcode \in LLVM!Operation
    BY <1>6, <2>1, SecondOperand
  <2>2. CASE instr.opcode = "LOAD"
    BY <1>6, <2>2, Loading
  <2>3. CASE instr.opcode = "BR"
    <3>1. Len(instr.operands) # 1
      BY <1>1, <1>6, <2>3 DEF CodeLines
    <3> QED
      BY <1>6, <2>3, <3>1, NotTaken
  <2>4. CASE instr.opcode = "RET"
    BY <1>1, <1>6, <2>4 DEF CodeLines
  <2> QED
    BY <1>2, <1>3, <2>1, <2>2, <2>3, <2>4
<1>7. CASE j >= 2
  <2> DEFINE m == Len(c)
  <2>1. /\ instr.opcode \in DOMAIN Operation => m = 4
        /\ instr.opcode = "ICMP" /\ instr.cond \notin TwoStep => m = 4
        /\ instr.opcode = "ICMP" /\ instr.cond \in TwoStep => m = 5
    BY <1>1 DEF CodeLines
  <2>2. instr.opcode \in {"LOAD", "STORE", "BR", "RET"} => m \in {1, 2, 3}
    BY <1>1 DEF CodeLines
  <2>3. j + 1 < m
    OBVIOUS
  <2> HIDE DEF m
  <2>4. CASE instr.opcode \in DOMAIN Operation
    <3>1. m = 4
      BY <2>1, <2>4
    <3>2. j = 2
      BY <1>1, <1>7, <2>3, <3>1
    <3> QED
      BY <2>4, <3>2, Arithmetic
  <2>5. CASE instr.opcode = "ICMP"
    <3>1. m = 4 \/ (m = 5 /\ instr.cond \in TwoStep)
      BY <2>1, <2>5
    <3>2. j = 2 \/ (j = 3 /\ instr.cond \in TwoStep)
      BY <1>1, <1>7, <2>3, <3>1
    <3>3. CASE j = 2
      BY <2>5, <3>3, Comparing
    <3>4. CASE j = 3 /\ instr.cond \in TwoStep
      BY <2>5, <3>4, Deciding
    <3> QED
      BY <3>2, <3>3, <3>4
  <2>6. CASE instr.opcode \in {"LOAD", "STORE", "BR", "RET"}
    <3>1. m \in {1, 2, 3}
      BY <2>2, <2>6
    <3> QED
      BY <1>1, <1>7, <2>3, <3>1
  <2> QED
    BY <1>2, <2>4, <2>5, <2>6
<1> QED
  BY <1>1, <1>5, <1>6, <1>7

-----------------------------------------------------------------------------
(* The last line of an instruction                                         *)

LEMMA LineProceeds ==
    ASSUME NEW l, Line \in 1 .. Len(lines), lines' = lines, Line' = l
    PROVE  Proceeds(l)
<1>1. Over' = Over /\ Line # Over
  BY DEF Over
<1>2. l # Over => Result' = Result
  BY <1>1 DEF Result
<1> QED
  BY <1>2 DEF Proceeds

\* A store to the slot of an instruction.
LEMMA SlotStored ==
    ASSUME Simple, NEW n, NEW j, Within(n, j), Step,
           NEW reg, Here.op = "sw", Here.args = SlotArgs(reg, lines[n + 1]), regs[reg] \in Word
    PROVE  /\ pc' = pc + 1 /\ regs' = regs /\ mem' \in [Addresses -> Word] /\ Wired'
           /\ Values' = [Values EXCEPT ![lines[n + 1]] = regs[reg]] /\ Memory' = Memory
<1> DEFINE id == lines[n + 1]
           a == SlotAddress(id)
           word == regs[reg]
<1>1. /\ Following /\ pc # 0 /\ regs["s0"] = StackTop
  BY DEF Within
<1>2. id \in InstrIDs(func) /\ id \in ToSet(lines)
  BY WithinFacts
<1>3. /\ func \in FunctionType /\ FitsInMemory(func) /\ Wired /\ mem \in [Addresses -> Word]
      /\ \A i \in ToSet(lines) : i \in InstrIDs(func) \ Allocas(func)
      /\ a \in Addresses /\ Variables(func) \subseteq Addresses
  BY <1>1, <1>2, FollowingFacts DEF Following
<1>4. UNCHANGED <<func, params, code, lines, lineOf>>
  BY <1>1, StepExact
<1>5. Arg(1) = reg
  BY DEF Arg, SlotArgs
<1>6. EffectiveAddress = a
  BY <1>1, <1>2, <1>3, <1>5, SlotOperand
<1>7. mem' = [mem EXCEPT ![a] = word] /\ regs' = regs /\ pc' = pc + 1
  BY <1>1, <1>5, <1>6, StepExact
<1>8. \A i \in ToSet(lines) : SlotAddress(i) = a => i = id
  BY <1>2, <1>3, SlotsApart
<1>9. \A x \in Variables(func) : x # a
  BY <1>2, <1>3, VariablesPlaced
<1>10. \A i \in InstrIDs(func) : SlotAddress(i) \in Addresses
  BY <1>1, FollowingFacts
<1> HIDE DEF a, id, word
<1>11. mem' \in [Addresses -> Word]
  <2>1. word \in Word
    BY DEF word
  <2> QED
    BY <1>3, <1>7, <2>1
<1>12. mem'[a] = word /\ \A x : x # a => mem'[x] = mem[x]
  BY <1>3, <1>7
<1>13. Wired'
  BY <1>3, <1>7, <1>11 DEF Wired
<1>14. Memory' = Memory
  BY <1>4, <1>9, <1>12 DEF Memory, Variables
<1>15. Values' = [Values EXCEPT ![id] = word]
  <2>1. Values' = [i \in ToSet(lines) |-> mem'[SlotAddress(i)]]
    BY <1>4 DEF Values
  <2>2. \A i \in ToSet(lines) : mem'[SlotAddress(i)] = IF i = id THEN word ELSE mem[SlotAddress(i)]
    BY <1>8, <1>12 DEF a
  <2>3. Values = [i \in ToSet(lines) |-> mem[SlotAddress(i)]]
    BY DEF Values
  <2>4. [Values EXCEPT ![id] = word]
          = [i \in ToSet(lines) |-> IF i = id THEN word ELSE mem[SlotAddress(i)]]
    BY <2>3
  <2> HIDE DEF Values
  <2> QED
    BY <2>1, <2>2, <2>4
<1> QED
  BY <1>7, <1>11, <1>13, <1>14, <1>15 DEF id, word

\* The core has run the last line of the code of line n + 1, and goes on with the
\* next one, to block b or to the epilogue.
LineOver(n) ==
    /\ pc' = pc + 1 /\ mem' \in [Addresses -> Word] /\ Wired' /\ ArgsHold'
    /\ Line = n + 1 /\ Line' = n + 2 => IR!Next
JumpsTo(n, b) ==
    /\ b \in BlockIDs(func) /\ pc' \in Labels(Block(func, b).label)
    /\ mem' = mem /\ regs' = regs /\ Wired' /\ ArgsHold'
    /\ Line = n + 1 /\ Line' = Start(func, b) => IR!Next
LeavesFrom(n) ==
    /\ pc' \in Labels(Epilogue) /\ mem' = mem /\ regs' = regs /\ Wired'
    /\ Line = n + 1 /\ Line' = Over => IR!Next

LEMMA ResultStored ==
    ASSUME Simple, NEW n, NEW j, Within(n, j), AtPlace(n, j), Step,
           j + 1 = Len(CodeAt(func, n)),
           Instr(func, lines[n + 1]).opcode \in DOMAIN Operation \cup {"ICMP", "LOAD"}
    PROVE  LineOver(n)
<1> DEFINE id == lines[n + 1]
           instr == Instr(func, id)
           ops == instr.operands
           c == CodeAt(func, n)
           a == IR!Operand(ops[1])
           b == IR!Operand(ops[2])
           reg == IF instr.opcode = "LOAD" THEN "t1" ELSE "t2"
           w == regs[reg]
<1>1. /\ n \in Nat /\ j \in Nat /\ DOMAIN lines = 1 .. Len(lines) /\ Len(lines) \in Nat
      /\ n + 1 \in 1 .. Len(lines) /\ id \in InstrIDs(func) /\ CodeLines(func, id, c)
      /\ Here = c[j + 1] /\ j + 1 = Len(c)
  BY WithinFacts
<1>2. instr.opcode \in DOMAIN Operation => instr.opcode \notin {"LOAD", "STORE", "BR", "RET", "ICMP"}
  BY DEF Operation
<1>3. instr.opcode \in DOMAIN Operation \cup {"ICMP", "LOAD"}
  OBVIOUS
<1>4. /\ Following /\ Midway(instr, j, a, b, regs, Memory) /\ ArgsHold
  BY <1>2 DEF AtPlace, Within
<1> HIDE DEF a, b, id, ops
<1>5. /\ instr.opcode \in DOMAIN Operation => Len(c) = 4 /\ IsLine(c[4], "sw", SlotArgs("t2", id), id)
      /\ instr.opcode = "ICMP" /\ instr.cond \notin TwoStep =>
           Len(c) = 4 /\ IsLine(c[4], "sw", SlotArgs("t2", id), id)
      /\ instr.opcode = "ICMP" /\ instr.cond \in TwoStep =>
           Len(c) = 5 /\ IsLine(c[5], "sw", SlotArgs("t2", id), id)
      /\ instr.opcode = "LOAD" => Len(c) = 3 /\ IsLine(c[3], "sw", SlotArgs("t1", id), id)
  BY <1>1 DEF CodeLines
<1> HIDE DEF c
<1>6. /\ Here.op = "sw" /\ Here.args = SlotArgs(reg, id)
      /\ instr.opcode \in DOMAIN Operation => j = 3
      /\ instr.opcode = "ICMP" /\ instr.cond \notin TwoStep => j = 3
      /\ instr.opcode = "ICMP" /\ instr.cond \in TwoStep => j = 4
      /\ instr.opcode = "LOAD" => j = 2
  BY <1>1, <1>2, <1>3, <1>5 DEF IsLine
<1>7. instr.opcode = "LOAD" => w = Memory[a] /\ w \in Word
  BY <1>4, <1>6 DEF Midway
<1>8. instr.opcode # "LOAD" => w \in Word /\ w \in IR!Outcomes(instr, a, b)
  BY <1>3, <1>4, <1>6 DEF Midway
<1>9. w \in Word
  BY <1>7, <1>8
<1> HIDE DEF reg
<1>10. /\ pc' = pc + 1 /\ regs' = regs /\ mem' \in [Addresses -> Word] /\ Wired'
       /\ Values' = [Values EXCEPT ![id] = w] /\ Memory' = Memory
  BY <1>6, <1>9, SlotStored DEF id
<1>11. UNCHANGED <<func, params, code, lines, lineOf>>
  BY StepExact DEF Within
<1>12. ArgsHold'
  BY <1>4, <1>10, <1>11 DEF ArgsHold
<1>13. ASSUME Line = n + 1, Line' = n + 2 PROVE IR!Next
  <2>1. AtLine(id)
    BY <1>1, <1>4, <1>13 DEF AtLine, id, Following
  <2>2. Proceeds(Line + 1)
    <3>1. n + 2 = Line + 1 /\ Line \in 1 .. Len(lines)
      BY <1>1, <1>13
    <3> QED
      BY <1>11, <1>13, <3>1, LineProceeds
  <2>3. CASE instr.opcode = "LOAD"
    <3>1. Values' = [Values EXCEPT ![id] = Memory[IR!Operand(Instr(func, id).operands[1])]]
      BY <1>7, <1>10, <2>3 DEF a, ops
    <3>2. Instr(func, id).opcode = "LOAD"
      BY <2>3
    <3> HIDE DEF instr
    <3> QED
      BY <1>10, <1>11, <2>1, <2>2, <3>1, <3>2, LoadMapped
  <2>4. CASE instr.opcode # "LOAD"
    <3>1. instr.opcode \notin {"LOAD", "STORE", "BR", "RET"}
      BY <1>2, <1>3, <2>4
    <3>2. w \in IR!Outcomes(Instr(func, id), IR!Operand(Instr(func, id).operands[1]),
                                             IR!Operand(Instr(func, id).operands[2]))
      BY <1>8, <2>4 DEF a, b, ops
    <3>3. Instr(func, id).opcode \notin {"LOAD", "STORE", "BR", "RET"}
      BY <3>1
    <3> HIDE DEF instr, w
    <3> QED
      BY <1>10, <1>11, <2>1, <2>2, <3>2, <3>3, ComputeMapped
  <2> QED
    BY <2>3, <2>4
<1> QED
  BY <1>10, <1>12, <1>13 DEF LineOver

LEMMA VariableStored ==
    ASSUME Simple, NEW n, NEW j, Within(n, j), AtPlace(n, j), Step,
           j + 1 = Len(CodeAt(func, n)), Instr(func, lines[n + 1]).opcode = "STORE"
    PROVE  LineOver(n)
<1> DEFINE id == lines[n + 1]
           instr == Instr(func, id)
           ops == instr.operands
           c == CodeAt(func, n)
           a == IR!Operand(ops[1])
           b == IR!Operand(ops[2])
<1>1. /\ n \in Nat /\ j \in Nat /\ DOMAIN lines = 1 .. Len(lines) /\ Len(lines) \in Nat
      /\ n + 1 \in 1 .. Len(lines) /\ id \in InstrIDs(func) /\ CodeLines(func, id, c)
      /\ Here = c[j + 1] /\ j + 1 = Len(c)
  BY WithinFacts
<1>2. instr.opcode = "STORE" /\ instr.opcode \in LLVM!Operation
  BY DEF LLVM!Operation
<1>3. a \in Word /\ b \in Word
  BY <1>2, OperandValues
<1>4. /\ Following /\ pc # 0 /\ Midway(instr, j, a, b, regs, Memory) /\ ArgsHold
  BY <1>2 DEF AtPlace, Within
<1> HIDE DEF a, b, id, ops
<1>5. Len(c) = 3 /\ IsLine(c[3], "sw", <<"t0", 0, "t1">>, id)
  BY <1>1, <1>2 DEF CodeLines
<1> HIDE DEF c
<1>6. Here.op = "sw" /\ Here.args = <<"t0", 0, "t1">> /\ j = 2
  BY <1>1, <1>5 DEF IsLine
<1>7. regs["t0"] = a /\ regs["t1"] = b
  BY <1>2, <1>4, <1>6 DEF Midway
<1>8. b \in Variables(func)
  BY <1>6, <1>7, Addressed
<1>9. EffectiveAddress = b /\ Arg(1) = "t0"
  <2>1. Arg(1) = "t0" /\ Arg(2) = 0 /\ Arg(3) = "t1"
    BY <1>6 DEF Arg
  <2>2. b \in Nat /\ Wrap(b) = b
    BY <1>3, WrapFacts
  <2>3. b + 0 = b
    BY <2>2
  <2> QED
    BY <1>7, <2>1, <2>2, <2>3 DEF EffectiveAddress
<1>10. mem' = [mem EXCEPT ![b] = a] /\ regs' = regs /\ pc' = pc + 1
  BY <1>4, <1>6, <1>7, <1>9, StepExact
<1>11. UNCHANGED <<func, params, code, lines, lineOf>>
  BY <1>4, StepExact
<1>12. /\ func \in FunctionType /\ FitsInMemory(func) /\ Wired /\ mem \in [Addresses -> Word]
       /\ \A i \in ToSet(lines) : i \in InstrIDs(func) \ Allocas(func)
       /\ Variables(func) \subseteq Addresses
  BY <1>4, FollowingFacts DEF Following
<1>13. mem' \in [Addresses -> Word]
  BY <1>3, <1>10, <1>12
<1>14. Wired' /\ ArgsHold'
  BY <1>4, <1>10, <1>11, <1>12, <1>13 DEF Wired, ArgsHold
<1>15. mem'[b] = a /\ \A x : x # b => mem'[x] = mem[x]
  BY <1>8, <1>10, <1>12
<1>16. Memory' = [Memory EXCEPT ![b] = a]
  <2>1. Memory' = [x \in Variables(func) |-> mem'[x]]
    BY <1>11 DEF Memory, Variables
  <2>2. \A x \in Variables(func) : mem'[x] = IF x = b THEN a ELSE mem[x]
    BY <1>15
  <2>3. Memory = [x \in Variables(func) |-> mem[x]]
    BY DEF Memory
  <2>4. [Memory EXCEPT ![b] = a] = [x \in Variables(func) |-> IF x = b THEN a ELSE mem[x]]
    BY <2>3
  <2> HIDE DEF Memory
  <2> QED
    BY <2>1, <2>2, <2>4
<1>17. Values' = Values
  <2>1. \A i \in InstrIDs(func) \ Allocas(func) : SlotAddress(i) # b
    BY <1>8, <1>12, VariablesPlaced
  <2>2. \A i \in ToSet(lines) : mem'[SlotAddress(i)] = mem[SlotAddress(i)]
    BY <1>12, <1>15, <2>1
  <2> QED
    BY <1>11, <2>2 DEF Values
<1>18. ASSUME Line = n + 1, Line' = n + 2 PROVE IR!Next
  <2>1. AtLine(id)
    BY <1>1, <1>4, <1>18 DEF AtLine, id, Following
  <2>2. Proceeds(Line + 1)
    <3>1. n + 2 = Line + 1 /\ Line \in 1 .. Len(lines)
      BY <1>1, <1>18
    <3> QED
      BY <1>11, <1>18, <3>1, LineProceeds
  <2>3. Memory' = [Memory EXCEPT ![IR!Operand(Instr(func, id).operands[2])] =
                     IR!Operand(Instr(func, id).operands[1])]
    BY <1>16 DEF a, b, ops
  <2> QED
    BY <1>2, <1>11, <1>17, <2>1, <2>2, <2>3, StoreMapped
<1> QED
  BY <1>10, <1>13, <1>14, <1>18 DEF LineOver

LEMMA BranchJumps ==
    ASSUME Simple, NEW n, NEW j, Within(n, j), AtPlace(n, j), Step,
           Instr(func, lines[n + 1]).opcode = "BR",
           j + 1 = Len(CodeAt(func, n)) \/ (j = 1 /\ regs["t0"] # 0)
    PROVE  \E b : JumpsTo(n, b)
<1> DEFINE id == lines[n + 1]
           instr == Instr(func, id)
           ops == instr.operands
           c == CodeAt(func, n)
           a == IR!Operand(ops[1])
           b == IR!Operand(ops[2])
           k == IF Len(ops) = 1 THEN 1 ELSE IF IR!Operand(ops[1]) # 0 THEN 2 ELSE 3
           block == ops[k].id
<1>1. /\ n \in Nat /\ j \in Nat /\ DOMAIN lines = 1 .. Len(lines) /\ Len(lines) \in Nat
      /\ n + 1 \in 1 .. Len(lines) /\ id \in InstrIDs(func) /\ CodeLines(func, id, c)
      /\ Here = c[j + 1] /\ j + 1 \in 1 .. Len(c) /\ Supplied(func, id)
  BY WithinFacts
<1>2. /\ Following /\ pc # 0 /\ Midway(instr, j, a, b, regs, Memory) /\ ArgsHold
      /\ instr.opcode = "BR"
  BY DEF AtPlace, Within
<1> HIDE DEF a, b
<1>3. UNCHANGED <<func, params, code, lines, lineOf>>
  BY <1>2, StepExact
<1>4. /\ block \in BlockIDs(func) /\ pc' \in Labels(Block(func, block).label)
      /\ mem' = mem /\ regs' = regs
  <2>1. CASE Len(ops) = 1
    <3>1. Len(c) = 1 /\ IsLine(c[1], "j", <<BlockLabel(func, ops[1])>>, id)
      BY <1>1, <1>2, <2>1 DEF CodeLines
    <3>2. j = 0
      BY <1>1, <3>1
    <3>3. Here.op = "j" /\ Here.args = <<BlockLabel(func, ops[1])>>
      BY <1>1, <3>1, <3>2 DEF IsLine
    <3>4. Arg(1) = Block(func, ops[1].id).label
      BY <3>3 DEF Arg, BlockLabel
    <3>5. ops[1].id \in BlockIDs(func)
      BY <1>1, <1>2, <2>1 DEF Supplied
    <3>6. k = 1
      BY <2>1
    <3> HIDE DEF k
    <3> QED
      BY <1>2, <3>3, <3>4, <3>5, <3>6, StepExact
  <2>2. CASE Len(ops) # 1
    <3>1. /\ Len(c) = 3 /\ IsLine(c[2], "bnez", <<"t0", BlockLabel(func, ops[2])>>, id)
          /\ IsLine(c[3], "j", <<BlockLabel(func, ops[3])>>, id)
      BY <1>1, <1>2, <2>2 DEF CodeLines
    <3>2. ops[2].id \in BlockIDs(func) /\ ops[3].id \in BlockIDs(func)
      BY <1>1, <1>2, <2>2 DEF Supplied
    <3>3. CASE j = 1 /\ regs["t0"] # 0
      <4>1. a # 0
        BY <1>2, <3>3 DEF Midway
      <4>2. k = 2
        BY <2>2, <4>1 DEF a
      <4>3. Here.op = "bnez" /\ Here.args = <<"t0", BlockLabel(func, ops[2])>>
        BY <1>1, <3>1, <3>3 DEF IsLine
      <4>4. Arg(1) = "t0" /\ Arg(2) = Block(func, ops[2].id).label
        BY <4>3 DEF Arg, BlockLabel
      <4> HIDE DEF k
      <4> QED
        BY <1>2, <3>2, <3>3, <4>2, <4>3, <4>4, StepExact
    <3>4. CASE j = 2
      <4>1. a = 0
        BY <1>2, <3>4 DEF Midway
      <4>2. k = 3
        BY <2>2, <4>1 DEF a
      <4>3. Here.op = "j" /\ Here.args = <<BlockLabel(func, ops[3])>>
        BY <1>1, <3>1, <3>4 DEF IsLine
      <4>4. Arg(1) = Block(func, ops[3].id).label
        BY <4>3 DEF Arg, BlockLabel
      <4> HIDE DEF k
      <4> QED
        BY <1>2, <3>2, <3>4, <4>2, <4>3, <4>4, StepExact
    <3> QED
      BY <1>1, <3>1, <3>3, <3>4
  <2> QED
    BY <2>1, <2>2
<1>5. Wired' /\ ArgsHold'
  BY <1>2, <1>3, <1>4 DEF Wired, ArgsHold, Following
<1>6. ASSUME Line = n + 1, Line' = Start(func, block) PROVE IR!Next
  <2>1. AtLine(id)
    BY <1>1, <1>2, <1>6 DEF AtLine, Following
  <2>2. Proceeds(Start(func, block))
    <3>1. Line \in 1 .. Len(lines)
      BY <1>1, <1>6
    <3> QED
      BY <1>3, <1>6, <3>1, LineProceeds
  <2>3. UNCHANGED <<Values, Memory>>
    BY <1>3, <1>4, SameOperand
  <2>4. Instr(func, id).opcode = "BR"
    BY <1>2
  <2> HIDE DEF id
  <2> QED
    BY <1>3, <2>1, <2>2, <2>3, <2>4, BranchMapped
<1> HIDE DEF block
<1> QED
  BY <1>4, <1>5, <1>6 DEF JumpsTo

LEMMA RetLeaves ==
    ASSUME Simple, NEW n, NEW j, Within(n, j), AtPlace(n, j), Step,
           Instr(func, lines[n + 1]).opcode = "RET", j + 1 = Len(CodeAt(func, n))
    PROVE  LeavesFrom(n)
<1> DEFINE id == lines[n + 1]
           instr == Instr(func, id)
           ops == instr.operands
           c == CodeAt(func, n)
           a == IR!Operand(ops[1])
           b == IR!Operand(ops[2])
<1>1. /\ n \in Nat /\ j \in Nat /\ DOMAIN lines = 1 .. Len(lines) /\ Len(lines) \in Nat
      /\ n + 1 \in 1 .. Len(lines) /\ id \in InstrIDs(func) /\ CodeLines(func, id, c)
      /\ Here = c[j + 1]
  BY WithinFacts
<1>2. /\ Following /\ pc # 0 /\ Midway(instr, j, a, b, regs, Memory) /\ instr.opcode = "RET"
  BY DEF AtPlace, Within
<1> HIDE DEF a, b
<1>3. UNCHANGED <<func, params, code, lines, lineOf>>
  BY <1>2, StepExact
<1>4. Len(c) = 2 /\ IsLine(c[2], "j", <<Epilogue>>, id)
  BY <1>1, <1>2 DEF CodeLines
<1> HIDE DEF c
<1>5. j = 1
  BY <1>1, <1>4 DEF c
<1>6. regs["a0"] = a
  BY <1>2, <1>5 DEF Midway
<1>7. Here.op = "j" /\ Here.args = <<Epilogue>>
  BY <1>1, <1>4, <1>5 DEF IsLine
<1>8. Arg(1) = Epilogue
  BY <1>7 DEF Arg
<1>9. mem' = mem /\ regs' = regs /\ pc' \in Labels(Epilogue)
  BY <1>2, <1>7, <1>8, StepExact
<1>10. Wired'
  BY <1>2, <1>9 DEF Wired, Following
<1>11. ASSUME Line = n + 1, Line' = Over PROVE IR!Next
  <2>1. AtLine(id)
    BY <1>1, <1>2, <1>11 DEF AtLine, Following
  <2>2. UNCHANGED <<Values, Memory>>
    BY <1>3, <1>9, SameOperand
  <2>3. Over' = Over
    BY <1>3 DEF Over
  <2>4. Result' = IR!Operand(Instr(func, id).operands[1])
    BY <1>6, <1>9, <1>11, <2>3 DEF Result, a
  <2>5. Instr(func, id).opcode = "RET"
    BY <1>2
  <2> HIDE DEF id
  <2> QED
    BY <1>3, <1>11, <2>1, <2>2, <2>4, <2>5, RetMapped
<1> QED
  BY <1>9, <1>10, <1>11 DEF LeavesFrom

-----------------------------------------------------------------------------
(* Where a jump goes                                                       *)

\* The code of an instruction holds no label.
LEMMA NoLabel ==
    ASSUME NEW f, NEW id, Fed(f, id), NEW c, CodeLines(f, id, c),
           Instr(f, id).opcode # "ALLOCA", NEW k \in 1 .. Len(c)
    PROVE  c[k].op # "label"
<1> DEFINE instr == Instr(f, id)
           ops == instr.operands
           cond == instr.cond
           n == Len(c)
<1>1. instr.opcode \in DOMAIN Operation \cup {"ICMP", "LOAD", "STORE", "BR", "RET"}
      /\ cond \in LLVMCmpCond
  BY DEF Fed, LLVMOpcode, Operation
<1>2. ASSUME NEW v, IsOperand(v), NEW reg PROVE Fetch(f, v, reg).op # "label"
  <2> DEFINE l == Fetch(f, v, reg)
  <2>1. /\ v.kind = "PARAM" => l = Asm("mv", <<reg, ArgReg(v.id)>>)
        /\ v.kind = "CONST" => l = Asm("li", <<reg, f.consts[v.id + 1]>>)
        /\ v.kind = "GLOBAL" => l = Asm("la", <<reg, v.id>>)
        /\ v.kind = "INSTR" /\ Instr(f, v.id).opcode = "ALLOCA" =>
             l = Asm("addi", <<reg, "s0", -getSlotOffset(v.id)>>)
        /\ v.kind = "INSTR" /\ Instr(f, v.id).opcode # "ALLOCA" =>
             l = Asm("lw", SlotArgs(reg, v.id))
    BY <1>2, FetchFacts
  <2> HIDE DEF l
  <2>2. l.op \in {"mv", "li", "la", "addi", "lw"}
    BY <1>2, <2>1, AsmFields DEF IsOperand
  <2> QED
    BY <2>2 DEF l
<1>3. ASSUME NEW i, NEW l, NEW reg, Loads(f, l, id, i, reg), IsOperand(ops[i])
      PROVE  l.op # "label"
  BY <1>2, <1>3 DEF Loads, IsLine
<1>4. /\ instr.opcode \in LLVM!Operation \cup {"LOAD", "RET"} => IsOperand(ops[1])
      /\ instr.opcode \in LLVM!Operation => IsOperand(ops[2])
      /\ instr.opcode = "BR" /\ Len(ops) # 1 => IsOperand(ops[1])
  BY DEF Fed
<1>5. CASE instr.opcode \in DOMAIN Operation
  <2>1. /\ n = 4 /\ Loads(f, c[1], id, 1, "t0") /\ Loads(f, c[2], id, 2, "t1")
        /\ c[3].op = Operation[instr.opcode] /\ c[4].op = "sw"
    BY <1>5 DEF CodeLines, IsLine
  <2>2. instr.opcode \in LLVM!Operation
    BY <1>5, Opcodes
  <2>3. Operation[instr.opcode] # "label"
    BY <1>5 DEF Operation
  <2>4. k \in {1, 2, 3, 4}
    BY <2>1
  <2> QED
    BY <1>3, <1>4, <2>1, <2>2, <2>3, <2>4
<1>6. CASE instr.opcode = "ICMP"
  <2>1. /\ Loads(f, c[1], id, 1, "t0") /\ Loads(f, c[2], id, 2, "t1")
        /\ c[3].op = ComparisonOp(cond)
        /\ cond \in TwoStep => n = 5 /\ c[4].op = SecondLine(cond).op /\ c[5].op = "sw"
        /\ cond \notin TwoStep => n = 4 /\ c[4].op = "sw"
    BY <1>6 DEF CodeLines, IsLine
  <2>2. instr.opcode \in LLVM!Operation
    BY <1>6 DEF LLVM!Operation
  <2>3. ComparisonOp(cond) # "label"
    BY DEF ComparisonOp
  <2>4. cond \in TwoStep => SecondLine(cond).op # "label"
    BY DEF SecondLine, TwoStep, Asm
  <2>5. \/ cond \in TwoStep /\ k \in {1, 2, 3, 4, 5}
        \/ cond \notin TwoStep /\ k \in {1, 2, 3, 4}
    <3>1. k \in 1 .. n /\ (n = 4 \/ n = 5) /\ (n = 5 <=> cond \in TwoStep)
      BY <2>1
    <3> HIDE DEF n
    <3> QED
      BY <3>1
  <2> QED
    BY <1>3, <1>4, <2>1, <2>2, <2>3, <2>4, <2>5
<1>7. CASE instr.opcode = "LOAD"
  <2>1. n = 3 /\ Loads(f, c[1], id, 1, "t0") /\ c[2].op = "lw" /\ c[3].op = "sw"
    BY <1>7 DEF CodeLines, IsLine
  <2>2. k \in {1, 2, 3}
    BY <2>1
  <2> QED
    BY <1>3, <1>4, <1>7, <2>1, <2>2
<1>8. CASE instr.opcode = "STORE"
  <2>1. n = 3 /\ Loads(f, c[1], id, 1, "t0") /\ Loads(f, c[2], id, 2, "t1") /\ c[3].op = "sw"
    BY <1>8 DEF CodeLines, IsLine
  <2>2. k \in {1, 2, 3} /\ instr.opcode \in LLVM!Operation
    BY <1>8, <2>1 DEF LLVM!Operation
  <2> QED
    BY <1>3, <1>4, <1>8, <2>1, <2>2
<1>9. CASE instr.opcode = "BR"
  <2>1. CASE Len(ops) = 1
    <3>1. n = 1 /\ c[1].op = "j"
      BY <1>9, <2>1 DEF CodeLines, IsLine
    <3>2. k = 1
      BY <3>1
    <3> QED
      BY <3>1, <3>2
  <2>2. CASE Len(ops) # 1
    <3>1. n = 3 /\ Loads(f, c[1], id, 1, "t0") /\ c[2].op = "bnez" /\ c[3].op = "j"
      BY <1>9, <2>2 DEF CodeLines, IsLine
    <3>2. k \in {1, 2, 3}
      BY <3>1
    <3> QED
      BY <1>3, <1>4, <1>9, <2>2, <3>1, <3>2
  <2> QED
    BY <2>1, <2>2
<1>10. CASE instr.opcode = "RET"
  <2>1. n = 2 /\ Loads(f, c[1], id, 1, "a0") /\ c[2].op = "j"
    BY <1>10 DEF CodeLines, IsLine
  <2>2. k \in {1, 2}
    BY <2>1
  <2> QED
    BY <1>3, <1>4, <1>10, <2>1, <2>2
<1> QED
  BY <1>1, <1>5, <1>6, <1>7, <1>8, <1>9, <1>10

\* A label of the body is a block's.
LEMMA LabelPlace ==
    ASSUME Simple, NEW f, Followable(f), NEW k \in 5 .. BodyEnd(f),
           emitFunction(f)[k].op = "label"
    PROVE  LET P == Places(f)[k - 4]
           IN /\ P \in Nat \X Nat /\ P[2] = 0
              /\ \E b \in BlockIDs(f) : /\ emitFunction(f)[k].args = <<Block(f, b).label>>
                                        /\ P[1] + 1 = Start(f, b)
<1> DEFINE P == Places(f)[k - 4]
           Q == Places(f)[k - 3]
           l == emitFunction(f)[k]
           n == P[1]
           j == P[2]
           c == CodeAt(f, n)
<1>1. P \in Nat \X Nat /\ Steps(f, l, P, Q)
  BY PlacesFacts
<1> HIDE DEF P, Q, l
<1>2. ~Belongs(f, l, n, j)
  <2>1. SUFFICES ASSUME Belongs(f, l, n, j) PROVE FALSE
    OBVIOUS
  <2>2. n \in Nat /\ n + 1 \in 1 .. Len(Lines(f)) /\ j + 1 \in 1 .. Len(c) /\ l = c[j + 1]
    BY <1>1, <2>1 DEF Belongs
  <2> DEFINE id == Lines(f)[n + 1]
  <2>3. Fed(f, id) /\ CodeLines(f, id, c) /\ Instr(f, id).opcode # "ALLOCA"
    BY <2>2, BelongsFacts
  <2> HIDE DEF id, c
  <2>4. c[j + 1].op # "label"
    BY <2>2, <2>3, NoLabel
  <2> QED
    BY <2>2, <2>4 DEF l
<1>3. Marks(f, l, n) /\ j = 0
  BY <1>1, <1>2 DEF Steps
<1>4. \E b \in BlockIDs(f) : l.args = <<Block(f, b).label>> /\ n + 1 = Start(f, b)
  BY <1>3 DEF Marks, l
<1> QED
  BY <1>1, <1>3, <1>4 DEF P, l

LEMMA BlockTarget ==
    ASSUME Simple, Running, Following, NEW b \in BlockIDs(func),
           NEW k \in Labels(Block(func, b).label)
    PROVE  /\ k \in 5 .. BodyEnd(func)
           /\ Places(func)[k - 4] \in Nat \X Nat /\ Places(func)[k - 4][2] = 0
           /\ Places(func)[k - 4][1] + 1 = Start(func, b)
<1> DEFINE end == BodyEnd(func)
           label == Block(func, b).label
<1>1. /\ Followable(func) /\ CodeReady(func) /\ func \in FunctionType /\ code = emitFunction(func)
      /\ LabelsDiffer(func)
  BY FollowingFacts DEF Following, Followable
<1>2. k \in 5 .. end + 1 /\ end \in Nat
  BY <1>1, JumpTarget, CodeBody
<1>3. code[k].op = "label" /\ code[k].args[1] = label
  BY DEF Labels
<1>4. label \in Label
  BY <1>1, BlockFields
<1> HIDE DEF label, end
<1>5. label # Epilogue
  BY <1>4 DEF Label, LabelRole, Epilogue
<1>6. code[end + 1].args[1] = Epilogue
  <2>1. code[end + 1].args = <<Epilogue>>
    BY <1>1, CodeBody DEF end
  <2> QED
    BY <2>1
<1>7. k \in 5 .. end
  BY <1>2, <1>3, <1>5, <1>6
<1> DEFINE P == Places(func)[k - 4]
<1>8. /\ P \in Nat \X Nat /\ P[2] = 0
      /\ \E c \in BlockIDs(func) : code[k].args = <<Block(func, c).label>>
                                   /\ P[1] + 1 = Start(func, c)
  <2>1. k \in 5 .. BodyEnd(func) /\ emitFunction(func)[k].op = "label"
    BY <1>1, <1>3, <1>7 DEF end
  <2> QED
    BY <1>1, <2>1, LabelPlace
<1> HIDE DEF P
<1>9. PICK c \in BlockIDs(func) : code[k].args = <<Block(func, c).label>> /\ P[1] + 1 = Start(func, c)
  BY <1>8
<1>10. Block(func, c).label = label
  BY <1>3, <1>9
<1>11. c = b
  BY <1>1, <1>10 DEF LabelsDiffer, label
<1> QED
  BY <1>7, <1>8, <1>9, <1>11 DEF end, P

LEMMA EpilogueTarget ==
    ASSUME Simple, Running, Following, NEW k \in Labels(Epilogue)
    PROVE  k = BodyEnd(func) + 1
<1> DEFINE end == BodyEnd(func)
<1>1. /\ Followable(func) /\ CodeReady(func) /\ func \in FunctionType /\ code = emitFunction(func)
  BY FollowingFacts DEF Following, Followable
<1>2. k \in 5 .. end + 1 /\ end \in Nat
  BY <1>1, JumpTarget, CodeBody
<1>3. code[k].op = "label" /\ code[k].args[1] = Epilogue
  BY DEF Labels
<1>4. SUFFICES ASSUME k \in 5 .. end PROVE FALSE
  BY <1>2
<1>5. \E c \in BlockIDs(func) : code[k].args = <<Block(func, c).label>>
  BY <1>1, <1>3, <1>4, LabelPlace
<1>6. PICK c \in BlockIDs(func) : code[k].args = <<Block(func, c).label>>
  BY <1>5
<1>7. Block(func, c).label = Epilogue
  BY <1>3, <1>6
<1>8. Block(func, c).label \in Label
  BY <1>1, BlockFields
<1> QED
  BY <1>7, <1>8 DEF Label, LabelRole, Epilogue

-----------------------------------------------------------------------------
(* Where the core is in the IR                                             *)

NumbersLines == lineOf = [k \in DOMAIN code |-> LineAt(lines, code, k)]
\* Where the core is, and what it has done of the line it is at.
Tracks ==
    /\ Following /\ NumbersLines
    /\ pc \in 1 .. 3 => regs["s0"] = CallerFP
    /\ pc \in 1 .. 4 => ArgsHold
    /\ pc \in 5 .. BodyEnd(func) =>
         AtPlace(Places(func)[pc - 4][1], Places(func)[pc - 4][2])
RefInv ==
    /\ mem \in [Addresses -> Word]
    /\ IF func = NoFunction THEN pc = 0 ELSE Tracks

LEMMA LineNumbers ==
    ASSUME Simple, Following, NumbersLines, NEW k
    PROVE  LET end == BodyEnd(func)
           IN /\ end \in Nat /\ 4 <= end /\ Over = Len(lines) + 1 /\ Len(lines) \in Nat
              /\ Places(func)[1] = <<0, 0>> /\ Places(func)[end - 3] = <<Len(lines), 0>>
              /\ k \in 1 .. 4 => lineOf[k] = 0
              /\ k \in 5 .. end + 1 => lineOf[k] = Places(func)[k - 4][1] + 1
              /\ k \in end + 1 .. end + 5 => lineOf[k] = Over
<1> DEFINE end == BodyEnd(func)
           T == Places(func)
<1>1. /\ Followable(func) /\ CodeReady(func) /\ lines = Lines(func) /\ code = emitFunction(func)
  BY DEF Following, Followable
<1>2. end \in Nat /\ 4 <= end /\ DOMAIN code = 1 .. end + 5
  BY <1>1, CodeBody
<1>3. T[1] = <<0, 0>> /\ T[end - 3] = <<Len(lines), 0>>
  BY <1>1, PlacesFacts
<1>4. Len(lines) \in Nat
  <2>1. IsSequence(lines)
    BY <1>1, FollowableFacts, LinesInOrder DEF Increasing
  <2> QED
    BY <2>1 DEF IsSequence
<1>5. ASSUME k \in 1 .. end + 5
      PROVE  /\ k \in 1 .. 4 => lineOf[k] = 0
             /\ k \in 5 .. end => lineOf[k] = T[k - 4][1] + 1
             /\ k \in end + 1 .. end + 5 => lineOf[k] = Len(lines) + 1
  <2>1. k \in DOMAIN code
    BY <1>2, <1>5
  <2>2. lineOf[k] = LineAt(lines, code, k)
    BY <2>1 DEF NumbersLines
  <2> QED
    BY <1>1, <1>5, <2>2, LinesOfCode
<1> HIDE DEF end, T
<1>6. Over = Len(lines) + 1
  BY DEF Over
<1>7. k = end + 1 => lineOf[k] = T[k - 4][1] + 1
  <2>1. SUFFICES ASSUME k = end + 1 PROVE lineOf[k] = T[k - 4][1] + 1
    OBVIOUS
  <2>2. k \in 1 .. end + 5 /\ k \in end + 1 .. end + 5 /\ k - 4 = end - 3
    BY <1>2, <2>1
  <2>3. lineOf[k] = Len(lines) + 1
    BY <1>5, <2>2
  <2>4. T[k - 4][1] = Len(lines)
    BY <1>3, <2>2
  <2> QED
    BY <2>3, <2>4
<1>8. k \in 1 .. 4 => lineOf[k] = 0
  <2>1. k \in 1 .. 4 => k \in 1 .. end + 5
    BY <1>2
  <2> QED
    BY <1>5, <2>1
<1>9. k \in 5 .. end + 1 => lineOf[k] = T[k - 4][1] + 1
  <2>1. k \in 5 .. end + 1 => k = end + 1 \/ (k \in 5 .. end /\ k \in 1 .. end + 5)
    BY <1>2
  <2> QED
    BY <1>5, <1>7, <2>1
<1>10. k \in end + 1 .. end + 5 => lineOf[k] = Over
  <2>1. k \in end + 1 .. end + 5 => k \in 1 .. end + 5
    BY <1>2
  <2> QED
    BY <1>5, <1>6, <2>1
<1> QED
  BY <1>2, <1>3, <1>4, <1>6, <1>8, <1>9, <1>10 DEF end, T

LEMMA LineNow ==
    ASSUME Simple, Following, NumbersLines
    PROVE  LET end == BodyEnd(func)
           IN /\ pc = 0 => Line = Over
              /\ pc \in 1 .. 4 => Line = 0
              /\ pc \in 5 .. end + 1 => Line = Places(func)[pc - 4][1] + 1
              /\ pc \in end + 1 .. end + 5 => Line = Over
<1> DEFINE end == BodyEnd(func)
<1>1. /\ end \in Nat /\ 4 <= end
      /\ pc \in 1 .. 4 => lineOf[pc] = 0
      /\ pc \in 5 .. end + 1 => lineOf[pc] = Places(func)[pc - 4][1] + 1
      /\ pc \in end + 1 .. end + 5 => lineOf[pc] = Over
  BY LineNumbers
<1>2. pc \in 1 .. 4 \/ pc \in 5 .. end + 1 \/ pc \in end + 1 .. end + 5 => Line = lineOf[pc]
  BY <1>1 DEF Line
<1> HIDE DEF end
<1>3. pc = 0 => Line = Over
  BY DEF Line
<1> QED
  BY <1>1, <1>2, <1>3 DEF end

\* The same after a step.
LEMMA LineAfter ==
    ASSUME Simple, Following, NumbersLines, UNCHANGED <<func, code, lines, lineOf>>
    PROVE  LET end == BodyEnd(func)
           IN /\ pc' = 0 => Line' = Over
              /\ pc' \in 1 .. 4 => Line' = 0
              /\ pc' \in 5 .. end + 1 => Line' = Places(func)[pc' - 4][1] + 1
              /\ pc' \in end + 1 .. end + 5 => Line' = Over
<1> DEFINE end == BodyEnd(func)
<1>1. /\ end \in Nat /\ 4 <= end
      /\ pc' \in 1 .. 4 => lineOf[pc'] = 0
      /\ pc' \in 5 .. end + 1 => lineOf[pc'] = Places(func)[pc' - 4][1] + 1
      /\ pc' \in end + 1 .. end + 5 => lineOf[pc'] = Over
  BY LineNumbers
<1>2. pc' \in 1 .. 4 \/ pc' \in 5 .. end + 1 \/ pc' \in end + 1 .. end + 5 => Line' = lineOf[pc']
  BY <1>1 DEF Line
<1> HIDE DEF end
<1>3. pc' = 0 => Line' = Over
  BY DEF Line, Over
<1> QED
  BY <1>1, <1>2, <1>3 DEF end

LEMMA StillFollowing ==
    ASSUME Following, NumbersLines, UNCHANGED <<func, params, code, lines, lineOf>>,
           mem' \in [Addresses -> Word], Wired'
    PROVE  Following' /\ NumbersLines'
BY DEF Following, NumbersLines, Followable, FitsInMemory, GlobalAddresses, Addresses

\* Nothing is done of a line the core has just come to.
LEMMA FreshPlace ==
    ASSUME NEW n, ArgsHold'
    PROVE  AtPlace(n, 0)'
BY DEF AtPlace, Midway

\* What the core keeps track of when it comes to a place of the body.
ComesTo(n, j) == Places(func)[pc' - 4][1] = n /\ Places(func)[pc' - 4][2] = j
LEMMA TracksBody ==
    ASSUME Following, NumbersLines, UNCHANGED <<func, params, code, lines, lineOf>>,
           mem' \in [Addresses -> Word], Wired',
           pc' \in 5 .. BodyEnd(func) + 1, BodyEnd(func) \in Nat,
           NEW n, NEW j, pc' \in 5 .. BodyEnd(func) => ComesTo(n, j) /\ AtPlace(n, j)'
    PROVE  Tracks'
<1>1. Following' /\ NumbersLines'
  BY StillFollowing
<1>2. pc' \notin 1 .. 3 /\ pc' \notin 1 .. 4
  OBVIOUS
<1>3. func' = func
  OBVIOUS
<1>4. ASSUME pc' \in 5 .. BodyEnd(func')
      PROVE  AtPlace(Places(func)[pc - 4][1], Places(func)[pc - 4][2])'
  <2>1. Places(func')[pc' - 4][1] = n /\ Places(func')[pc' - 4][2] = j /\ AtPlace(n, j)'
    BY <1>3, <1>4 DEF ComesTo
  <2> QED
    BY <2>1
<1> QED
  BY <1>1, <1>2, <1>4 DEF Tracks

\* A line of the body.
LEMMA BodyFollows ==
    ASSUME Simple, Running, Tracks, pc \in 5 .. BodyEnd(func), Step
    PROVE  Tracks' /\ (IR!Next \/ UNCHANGED IR!vars)
<1> DEFINE end == BodyEnd(func)
           T == Places(func)
           P == T[pc - 4]
           Q == T[pc - 3]
<1>1. /\ Following /\ NumbersLines /\ AtPlace(P[1], P[2]) /\ mem \in [Addresses -> Word]
      /\ Followable(func) /\ code = emitFunction(func) /\ lines = Lines(func) /\ Wired
  BY DEF Tracks, Following
<1>2. /\ end \in Nat /\ 4 <= end /\ Over = Len(lines) + 1 /\ Len(lines) \in Nat
      /\ T[1] = <<0, 0>> /\ T[end - 3] = <<Len(lines), 0>>
  BY <1>1, LineNumbers
<1>3. pc \in 5 .. end /\ pc # 0 /\ pc \in Int /\ (pc + 1) - 4 = pc - 3 /\ pc + 1 \in 5 .. end + 1
      /\ pc \in 5 .. end + 1
  BY <1>2
<1>4. P \in Nat \X Nat /\ Steps(func, Here, P, Q)
  BY <1>1, <1>3, PlacesFacts DEF Here
<1>5. PICK n \in Nat, j \in Nat : P = <<n, j>>
  BY <1>4
<1>6. UNCHANGED <<func, params, code, lines, lineOf>>
  BY <1>3, StepExact
<1>7. Line = n + 1 /\ AtPlace(n, j)
  <2>1. P[1] = n /\ P[2] = j
    BY <1>5
  <2>2. Line = P[1] + 1
    BY <1>1, <1>3, LineNow
  <2> HIDE DEF P
  <2> QED
    BY <1>1, <2>1, <2>2
<1>8. /\ pc' \in 5 .. end + 1 => Line' = T[pc' - 4][1] + 1
      /\ pc' = end + 1 => Line' = Over
  <2>1. /\ pc' \in 5 .. end + 1 => Line' = T[pc' - 4][1] + 1
        /\ pc' \in end + 1 .. end + 5 => Line' = Over
    BY <1>1, <1>6, LineAfter
  <2>2. pc' = end + 1 => pc' \in end + 1 .. end + 5
    BY <1>2
  <2> QED
    BY <2>1, <2>2
<1>9. ASSUME mem' \in [Addresses -> Word], Wired', pc' \in 5 .. end + 1,
             NEW m, NEW i, pc' \in 5 .. end => ComesTo(m, i) /\ AtPlace(m, i)'
      PROVE  Tracks'
  BY <1>1, <1>2, <1>6, <1>9, TracksBody
<1>10. ASSUME mem' = mem, Line' = Line, Line # Over \/ regs' = regs PROVE UNCHANGED IR!vars
  <2>1. Result' = Result
    BY <1>6, <1>10 DEF Result, Over
  <2>2. Memory' = Memory /\ Values' = Values
    BY <1>6, <1>10, SameOperand
  <2> QED
    BY <1>6, <1>10, <2>1, <2>2, Stutters
<1> HIDE DEF end, T, P, Q
<1>11. \A m, i : T[pc' - 4] = <<m, i>> => ComesTo(m, i)
  BY DEF T, ComesTo
<1>12. CASE Marks(func, Here, n) /\ j = 0 /\ Q = P
  <2>1. Here.op \in {"label", "nop"}
    BY <1>12 DEF Marks
  <2>2. mem' = mem /\ regs' = regs /\ pc' = pc + 1
    BY <1>3, <2>1, StepExact
  <2>3. Wired' /\ ArgsHold'
    BY <1>1, <1>6, <1>7, <1>12, <2>2 DEF Wired, ArgsHold, AtPlace
  <2>4. T[pc' - 4] = <<n, 0>>
    BY <1>3, <1>5, <1>12, <2>2 DEF P, Q
  <2>5. AtPlace(n, 0)'
    BY <2>3, FreshPlace
  <2>6. Tracks'
    BY <1>1, <1>3, <1>9, <1>11, <2>2, <2>3, <2>4, <2>5
  <2>7. Line' = Line
    BY <1>3, <1>7, <1>8, <2>2, <2>4
  <2> QED
    BY <1>10, <2>2, <2>6, <2>7
<1>13. ASSUME Belongs(func, Here, n, j),
              Q = IF j + 1 < Len(CodeAt(func, n)) THEN <<n, j + 1>> ELSE <<n + 1, 0>>
       PROVE  Tracks' /\ (IR!Next \/ UNCHANGED IR!vars)
  <2> DEFINE instr == Instr(func, lines[n + 1])
             m == Len(CodeAt(func, n))
  <2>1. Within(n, j)
    <3>1. regs["s0"] = StackTop
      BY <1>3 DEF Running, end
    <3>2. Holds(func, Notes(func)[pc - 4], regs, mem)
      BY <1>3 DEF Running, end
    <3>3. LineOK(func, Here, Notes(func)[pc - 4], Notes(func)[pc - 3])
      BY <1>1, <1>3, CodeShape DEF Followable, Here, end
    <3> QED
      BY <1>1, <1>3, <1>13, <3>1, <3>2, <3>3 DEF Within
  <2>2. /\ n + 1 \in 1 .. Len(lines) /\ j + 1 \in 1 .. m /\ instr.opcode \in LLVMOpcode \ {"ALLOCA"}
    BY <2>1, WithinFacts
  <2>3. Line # Over
    BY <1>2, <1>7, <2>2
  <2>4. m \in Nat
    <3>1. m \in 1 .. m
      BY <2>2
    <3> QED
      BY <2>2
  <2>5. m \in Nat /\ j + 1 <= m
    BY <2>2, <2>4
  <2>6. j + 1 < m => Q = <<n, j + 1>>
    BY <1>13
  <2>7. j + 1 = m => Q = <<n + 1, 0>>
    BY <1>13, <2>5
  <2>8. T[pc - 3] = Q /\ (pc' = pc + 1 => T[pc' - 4] = Q)
    BY <1>3 DEF Q
  <2>9. Simple /\ Within(n, j) /\ AtPlace(n, j) /\ Step /\ Running /\ Following
    BY <1>1, <1>7, <2>1
  <2> HIDE DEF m
  <2>10. CASE j + 1 < m /\ (instr.opcode # "BR" \/ j # 1 \/ regs["t0"] = 0)
    <3>1. NextPlace(n, j)
      BY <2>9, <2>10, NextLine DEF m
    <3>2. pc' = pc + 1 /\ mem' = mem /\ Wired' /\ AtPlace(n, j + 1)'
      BY <3>1 DEF NextPlace
    <3>3. T[pc' - 4] = <<n, j + 1>>
      BY <2>6, <2>8, <2>10, <3>2
    <3>4. ComesTo(n, j + 1) /\ pc' \in 5 .. end + 1
      BY <1>3, <1>11, <3>2, <3>3
    <3>5. mem' \in [Addresses -> Word]
      BY <1>1, <3>2
    <3>6. Tracks'
      BY <1>9, <3>2, <3>4, <3>5
    <3>7. Line' = Line
      BY <1>7, <1>8, <3>3, <3>4
    <3> QED
      BY <1>10, <2>3, <3>2, <3>6, <3>7
  <2>11. CASE instr.opcode = "BR" /\ (j + 1 = m \/ (j = 1 /\ regs["t0"] # 0))
    <3>1. PICK b : JumpsTo(n, b)
      BY <2>9, <2>11, BranchJumps DEF m
    <3>2. /\ b \in BlockIDs(func) /\ pc' \in Labels(Block(func, b).label)
          /\ mem' = mem /\ Wired' /\ ArgsHold'
          /\ Line = n + 1 /\ Line' = Start(func, b) => IR!Next
      BY <3>1 DEF JumpsTo
    <3> DEFINE R == T[pc' - 4]
    <3>3. /\ pc' \in 5 .. end /\ R \in Nat \X Nat /\ R[2] = 0 /\ R[1] + 1 = Start(func, b)
      BY <2>9, <3>2, BlockTarget DEF end, T
    <3>4. Line' = Start(func, b)
      <4>1. pc' \in 5 .. end + 1
        BY <1>2, <3>3
      <4>2. Line' = R[1] + 1
        BY <1>8, <4>1
      <4> QED
        BY <3>3, <4>2
    <3>5. IR!Next
      BY <1>7, <3>2, <3>4
    <3>6. R = <<Start(func, b) - 1, 0>>
      <4> HIDE DEF R
      <4> QED
        BY <3>3
    <3>7. ComesTo(Start(func, b) - 1, 0)
      BY <1>11, <3>6
    <3> HIDE DEF R
    <3>8. AtPlace(Start(func, b) - 1, 0)'
      BY <3>2 DEF AtPlace, Midway
    <3>9. Start(func, b)' = Start(func, b)
      BY <1>6
    <3> QED
      BY <1>1, <1>2, <1>9, <3>2, <3>3, <3>5, <3>7, <3>8, <3>9
  <2>12. CASE instr.opcode = "RET" /\ j + 1 = m
    <3>1. LeavesFrom(n)
      BY <2>9, <2>12, RetLeaves DEF m
    <3>2. /\ pc' \in Labels(Epilogue) /\ mem' = mem /\ Wired'
          /\ Line = n + 1 /\ Line' = Over => IR!Next
      BY <3>1 DEF LeavesFrom
    <3>3. pc' = end + 1
      BY <2>9, <3>2, EpilogueTarget DEF end
    <3>4. IR!Next
      BY <1>7, <1>8, <3>2, <3>3
    <3>5. pc' \in 5 .. end + 1 /\ ~(pc' \in 5 .. end)
      BY <1>2, <3>3
    <3>6. mem' \in [Addresses -> Word]
      BY <1>1, <3>2
    <3>7. Tracks'
      BY <1>9, <3>2, <3>5, <3>6
    <3> QED
      BY <3>4, <3>7
  <2>13. CASE instr.opcode \in DOMAIN Operation \cup {"ICMP", "LOAD", "STORE"} /\ j + 1 = m
    <3>1. LineOver(n)
      BY <2>9, <2>13, ResultStored, VariableStored DEF m
    <3>2. /\ pc' = pc + 1 /\ mem' \in [Addresses -> Word] /\ Wired' /\ ArgsHold'
          /\ Line = n + 1 /\ Line' = n + 2 => IR!Next
      BY <3>1 DEF LineOver
    <3>3. T[pc' - 4] = <<n + 1, 0>>
      BY <2>7, <2>8, <2>13, <3>2
    <3>4. ComesTo(n + 1, 0) /\ pc' \in 5 .. end + 1
      BY <1>3, <1>11, <3>2, <3>3
    <3>5. Line' = n + 2
      <4>1. T[pc' - 4][1] = n + 1
        BY <3>3
      <4>2. Line' = T[pc' - 4][1] + 1
        BY <1>8, <3>4
      <4> HIDE DEF T
      <4> QED
        BY <4>1, <4>2
    <3>6. AtPlace(n + 1, 0)'
      BY <3>2, FreshPlace
    <3>7. Tracks'
      BY <1>9, <3>2, <3>4, <3>6
    <3> QED
      BY <1>7, <3>2, <3>5, <3>7
  <2>14. instr.opcode \in DOMAIN Operation \cup {"ICMP", "LOAD", "STORE", "BR", "RET"}
    BY <2>2 DEF LLVMOpcode, Operation
  <2> HIDE DEF instr
  <2> QED
    BY <2>5, <2>10, <2>11, <2>12, <2>13, <2>14
<1> QED
  BY <1>4, <1>5, <1>12, <1>13 DEF Steps

-----------------------------------------------------------------------------
(* The frame                                                               *)

\* The saved registers go below the frame pointer, above all globals.
LEMMA SavedPlaces ==
    ASSUME Running, func \in FunctionType
    PROVE  LET size == FrameSize(func)
           IN /\ Wrap((StackTop - size) + (size - SavedRA)) = StackTop - 4
              /\ Wrap((StackTop - size) + (size - SavedFP)) = StackTop - 8
              /\ {StackTop - 4, StackTop - 8} \cap GlobalAddresses = {}
<1> DEFINE size == FrameSize(func)
           W == WordSize
<1>1. /\ StackTop \in Nat /\ size \in Nat /\ 8 <= size /\ size <= StackTop /\ StackTop < W
      /\ W \in Nat /\ \A a \in GlobalAddresses : a \in Nat /\ a < StackTop - size
  BY FramePlaced DEF Running
<1> HIDE DEF size, W
<1>2. \A n \in 0 .. W - 1 : n % W = n
  BY <1>1
<1>3. /\ (StackTop - size) + (size - SavedRA) = StackTop - 4
      /\ (StackTop - size) + (size - SavedFP) = StackTop - 8
  BY <1>1 DEF SavedRA, SavedFP
<1>4. {StackTop - 4, StackTop - 8} \subseteq 0 .. W - 1
  BY <1>1
<1>5. StackTop - 4 \notin GlobalAddresses /\ StackTop - 8 \notin GlobalAddresses
  BY <1>1
<1> QED
  BY <1>2, <1>3, <1>4, <1>5 DEF Wrap, W, size

\* The arguments stay in their registers when only those of the frame change.
LEMMA ArgsUntouched ==
    ASSUME ArgsHold, UNCHANGED params,
           \A r : r \notin {"sp", "s0", "ra"} => regs'[r] = regs[r]
    PROVE  ArgsHold'
<1>1. ASSUME NEW i \in Passed(params) PROVE regs'[ArgReg(i - 1)] = params[i]
  <2>1. i \in 1 .. 8
    BY DEF Passed
  <2>2. ArgReg(i - 1) = <<"a0", "a1", "a2", "a3", "a4", "a5", "a6", "a7">>[(i - 1) + 1]
    BY DEF ArgReg
  <2>3. i \in {1, 2, 3, 4, 5, 6, 7, 8} /\ (i - 1) + 1 = i
    BY <2>1
  <2>4. ArgReg(i - 1) \notin {"sp", "s0", "ra"}
    BY <2>2, <2>3
  <2> QED
    BY <2>4 DEF ArgsHold
<1> QED
  BY <1>1 DEF ArgsHold

\* What the prologue does to the caller's registers and to memory.
LEMMA PrologueWrites ==
    ASSUME Simple, Running, Tracks, pc \in 1 .. 4, Step
    PROVE  /\ pc' = pc + 1 /\ mem' \in [Addresses -> Word] /\ ArgsHold'
           /\ \A a \in GlobalAddresses : mem'[a] = mem[a]
           /\ pc \in 1 .. 2 => regs'["s0"] = CallerFP
<1> DEFINE end == BodyEnd(func)
           size == FrameSize(func)
<1>1. /\ CodeReady(func) /\ code = emitFunction(func) /\ func \in FunctionType
      /\ regs["ra"] = CallerRA /\ Wired /\ mem \in [Addresses -> Word]
      /\ ArgsHold /\ (pc \in 1 .. 3 => regs["s0"] = CallerFP)
  BY DEF Running, CodeReady, Tracks, Following
<1>2. /\ end \in Nat /\ 4 <= end
      /\ code[1].op = "addi" /\ code[1].args = <<"sp", "sp", -size>>
      /\ code[2].op = "sw" /\ code[2].args = <<"ra", size - SavedRA, "sp">>
      /\ code[3].op = "sw" /\ code[3].args = <<"s0", size - SavedFP, "sp">>
      /\ code[4].op = "addi" /\ code[4].args = <<"s0", "sp", size>>
  BY <1>1, CodeShape
<1>3. /\ Wrap((StackTop - size) + (size - SavedRA)) = StackTop - 4
      /\ Wrap((StackTop - size) + (size - SavedFP)) = StackTop - 8
      /\ {StackTop - 4, StackTop - 8} \cap GlobalAddresses = {}
  BY <1>1, SavedPlaces
<1>4. pc \in 2 .. end + 4 => regs["sp"] = StackTop - size
  BY DEF Running
<1>5. UNCHANGED params /\ pc # 0
  BY StepExact
<1>6. CallerRA \in Word /\ CallerFP \in Word
  BY MachineAssumption
<1>7. "sp" \in Registers /\ "s0" \in Registers
  BY ScratchIsWired
<1> HIDE DEF end, size
<1>8. ASSUME NEW reg \in {"sp", "s0"}, NEW word, Writes(reg, word)
      PROVE  /\ mem' \in [Addresses -> Word] /\ ArgsHold' /\ pc' = pc + 1 /\ mem' = mem
             /\ reg # "s0" => regs'["s0"] = regs["s0"]
  <2>1. \A r : r # reg => regs'[r] = regs[r]
    BY <1>1, <1>7, <1>8 DEF Writes, Wired
  <2>2. ArgsHold'
    BY <1>1, <1>5, <1>8, <2>1, ArgsUntouched
  <2> QED
    BY <1>1, <1>8, <2>1, <2>2 DEF Writes
<1>9. ASSUME NEW a \in {StackTop - 4, StackTop - 8}, NEW word \in Word,
             mem' = [mem EXCEPT ![a] = word], regs' = regs
      PROVE  /\ mem' \in [Addresses -> Word] /\ ArgsHold'
             /\ \A x \in GlobalAddresses : mem'[x] = mem[x]
  <2>1. \A x : x # a => mem'[x] = mem[x]
    BY <1>1, <1>9
  <2>2. mem' \in [Addresses -> Word]
    BY <1>1, <1>9
  <2>3. ArgsHold'
    BY <1>1, <1>5, <1>9 DEF ArgsHold
  <2> QED
    BY <1>3, <1>9, <2>1, <2>2, <2>3
<1>10. CASE pc = 1
  <2>1. Here.op = "addi" /\ Arg(1) = "sp"
    BY <1>2, <1>10 DEF Here, Arg
  <2>2. \E word : Writes("sp", word)
    BY <1>5, <2>1, StepExact
  <2> QED
    BY <1>1, <1>8, <1>10, <2>2
<1>11. CASE pc = 4
  <2>1. Here.op = "addi" /\ Arg(1) = "s0"
    BY <1>2, <1>11 DEF Here, Arg
  <2>2. \E word : Writes("s0", word)
    BY <1>5, <2>1, StepExact
  <2> QED
    BY <1>8, <1>11, <2>2
<1>12. CASE pc = 2
  <2>1. Here.op = "sw" /\ Arg(1) = "ra" /\ Arg(2) = size - SavedRA /\ Arg(3) = "sp"
    BY <1>2, <1>12 DEF Here, Arg
  <2>2. EffectiveAddress = StackTop - 4
    BY <1>2, <1>3, <1>4, <1>12, <2>1 DEF EffectiveAddress
  <2>3. mem' = [mem EXCEPT ![StackTop - 4] = CallerRA] /\ regs' = regs /\ pc' = pc + 1
    BY <1>1, <1>5, <2>1, <2>2, StepExact
  <2>4. mem' \in [Addresses -> Word] /\ ArgsHold' /\ \A x \in GlobalAddresses : mem'[x] = mem[x]
    BY <1>6, <1>9, <2>3
  <2>5. regs'["s0"] = CallerFP
    BY <1>1, <1>12, <2>3
  <2> QED
    BY <2>3, <2>4, <2>5
<1>13. CASE pc = 3
  <2>1. Here.op = "sw" /\ Arg(1) = "s0" /\ Arg(2) = size - SavedFP /\ Arg(3) = "sp"
    BY <1>2, <1>13 DEF Here, Arg
  <2>2. EffectiveAddress = StackTop - 8
    BY <1>2, <1>3, <1>4, <1>13, <2>1 DEF EffectiveAddress
  <2>3. mem' = [mem EXCEPT ![StackTop - 8] = CallerFP] /\ regs' = regs /\ pc' = pc + 1
    BY <1>1, <1>5, <1>13, <2>1, <2>2, StepExact
  <2>4. mem' \in [Addresses -> Word] /\ ArgsHold' /\ \A x \in GlobalAddresses : mem'[x] = mem[x]
    BY <1>6, <1>9, <2>3
  <2>5. regs'["s0"] = CallerFP
    BY <1>1, <1>13, <2>3
  <2> QED
    BY <2>3, <2>4, <2>5
<1> QED
  BY <1>10, <1>11, <1>12, <1>13

\* The prologue is how the IR enters a function.
LEMMA PrologueFollows ==
    ASSUME Simple, Running, Tracks, pc \in 1 .. 4, Step, Wired'
    PROVE  Tracks' /\ IR!Next
<1> DEFINE end == BodyEnd(func)
<1>1. /\ Following /\ NumbersLines /\ func # NoFunction
  BY DEF Tracks, Following
<1>2. /\ end \in Nat /\ 4 <= end /\ Over = Len(lines) + 1 /\ Len(lines) \in Nat
      /\ Places(func)[1] = <<0, 0>>
  BY <1>1, LineNumbers
<1>3. /\ pc' = pc + 1 /\ mem' \in [Addresses -> Word] /\ ArgsHold'
      /\ \A a \in GlobalAddresses : mem'[a] = mem[a]
      /\ pc \in 1 .. 2 => regs'["s0"] = CallerFP
  BY PrologueWrites
<1>4. UNCHANGED <<func, params, code, lines, lineOf>>
  BY StepExact
<1>5. pc' \in 2 .. 5 /\ (pc' = 5 => pc' \in 5 .. end + 1) /\ (pc' # 5 => pc' \in 1 .. 4)
  BY <1>2, <1>3
<1>6. Line = 0 /\ Line' \in {0, 1}
  <2>1. Line = 0
    BY <1>1, LineNow
  <2>2. /\ pc' \in 1 .. 4 => Line' = 0
        /\ pc' \in 5 .. end + 1 => Line' = Places(func)[pc' - 4][1] + 1
    BY <1>1, <1>4, LineAfter
  <2>3. pc' = 5 => Line' = 1
    BY <1>2, <1>5, <2>2
  <2> QED
    BY <1>5, <2>1, <2>2, <2>3
<1>7. Line # Over /\ Over' = Over
  BY <1>2, <1>4, <1>6 DEF Over
<1>8. Proceeds(0) \/ Proceeds(1)
  BY <1>6, <1>7 DEF Proceeds, Result
<1>9. IR!Next
  BY <1>1, <1>3, <1>4, <1>6, <1>8, EnterMapped
<1>10. CASE pc' = 5
  <2>1. ComesTo(0, 0)
    BY <1>2, <1>10 DEF ComesTo
  <2>2. AtPlace(0, 0)'
    BY <1>3, FreshPlace
  <2>3. pc' \in 5 .. end + 1
    BY <1>5, <1>10
  <2>4. Tracks'
    BY <1>1, <1>2, <1>3, <1>4, <2>1, <2>2, <2>3, TracksBody
  <2> QED
    BY <1>9, <2>4
<1>11. CASE pc' # 5
  <2>1. Following' /\ NumbersLines'
    BY <1>1, <1>3, <1>4, StillFollowing
  <2>2. pc' \notin 5 .. BodyEnd(func')
    BY <1>2, <1>3, <1>4, <1>5, <1>11
  <2>3. pc' \in 1 .. 3 => regs'["s0"] = CallerFP
    BY <1>3
  <2> QED
    BY <1>3, <1>9, <2>1, <2>2, <2>3 DEF Tracks
<1> QED
  BY <1>10, <1>11

\* The IR does not see the epilogue.
LEMMA EpilogueFollows ==
    ASSUME Simple, Running, Tracks, pc # 0, pc \notin 1 .. 4, pc \notin 5 .. BodyEnd(func),
           Step, Wired'
    PROVE  Tracks' /\ UNCHANGED IR!vars
<1> DEFINE end == BodyEnd(func)
<1>1. /\ Following /\ NumbersLines /\ Wired /\ CodeReady(func) /\ code = emitFunction(func)
      /\ mem \in [Addresses -> Word]
  BY DEF Tracks, Following, Followable
<1>2. /\ end \in Nat /\ 4 <= end
      /\ code[end + 1].op = "label"
      /\ code[end + 2].op = "lw" /\ code[end + 2].args[1] = "ra"
      /\ code[end + 3].op = "lw" /\ code[end + 3].args[1] = "s0"
      /\ code[end + 4].op = "addi" /\ code[end + 4].args[1] = "sp"
      /\ code[end + 5].op = "ret"
  BY <1>1, CodeShape
<1>3. pc \in end + 1 .. end + 5
  BY <1>2 DEF Running
<1>4. UNCHANGED <<func, params, code, lines, lineOf>>
  BY StepExact
<1> HIDE DEF end
<1>5. pc' \in (end + 2 .. end + 5) \cup {0} /\ mem' = mem /\ regs'["a0"] = regs["a0"]
  <2>1. CASE pc = end + 1
    <3>1. Here.op = "label"
      BY <1>2, <2>1 DEF Here
    <3> QED
      BY <1>2, <2>1, <3>1, StepExact
  <2>2. CASE pc = end + 5
    <3>1. Here.op = "ret"
      BY <1>2, <2>2 DEF Here
    <3> QED
      BY <3>1, StepExact
  <2>3. CASE pc \in end + 2 .. end + 4
    <3>1. pc = end + 2 \/ pc = end + 3 \/ pc = end + 4
      BY <1>2, <2>3
    <3>2. Here.op \in {"lw", "addi"} /\ Arg(1) \in {"ra", "s0", "sp"}
      BY <1>2, <3>1 DEF Here, Arg
    <3>3. PICK word : Writes(Arg(1), word)
      BY <3>2, StepExact
    <3>4. Arg(1) \in Registers
      BY <3>2, ScratchIsWired
    <3>5. regs'["a0"] = regs["a0"]
      BY <1>1, <3>2, <3>3, <3>4 DEF Writes, Wired
    <3> QED
      BY <1>2, <2>3, <3>3, <3>5 DEF Writes
  <2> QED
    BY <1>2, <1>3, <2>1, <2>2, <2>3
<1>6. Line = Over
  BY <1>1, <1>3, LineNow DEF end
<1>7. Line' = Over
  <2>1. pc' = 0 \/ pc' \in end + 1 .. end + 5
    BY <1>2, <1>5
  <2> QED
    BY <1>1, <1>4, <2>1, LineAfter DEF end
<1>8. Result' = Result
  <2>1. Over' = Over
    BY <1>4 DEF Over
  <2> QED
    BY <1>5, <1>6, <1>7, <2>1 DEF Result
<1>9. UNCHANGED IR!vars
  <2>1. Values' = Values /\ Memory' = Memory
    BY <1>4, <1>5, SameOperand
  <2> QED
    BY <1>4, <1>6, <1>7, <1>8, <2>1, Stutters
<1>10. Following' /\ NumbersLines'
  BY <1>1, <1>4, <1>5, StillFollowing
<1>11. pc' \notin 1 .. 3 /\ pc' \notin 1 .. 4 /\ pc' \notin 5 .. BodyEnd(func')
  <2>1. pc' \notin 1 .. 3 /\ pc' \notin 1 .. 4 /\ pc' \notin 5 .. end
    BY <1>2, <1>5
  <2> QED
    BY <1>4, <2>1 DEF end
<1> QED
  BY <1>9, <1>10, <1>11 DEF Tracks

-----------------------------------------------------------------------------
(* The program                                                             *)

\* A finished function of a linked program can be followed line by line.
LEMMA FinishedIsFollowable ==
    ASSUME IRInv, Zeros, NEW f \in Functions, Emittable(f, module.globals),
           0 .. Len(module.globals) - 1 \subseteq GlobalIDs
    PROVE  Followable(f) /\ f # NoFunction
<1>1. CodeReady(f)
  BY FinishedIsReady
<1>2. LabelsDiffer(f)
  <2>1. f \in AllFunctions /\ IndInv /\ ShapeInv
    BY DEF AllFunctions, IRInv
  <2> QED
    BY <2>1, AllWell DEF Well, ShapeOK, Core
<1>3. f.consts # <<>>
  BY DEF Zeros, ZeroFirst, Functions
<1>4. f # NoFunction
  BY <1>3 DEF NoFunction
<1> QED
  BY <1>1, <1>2, <1>3, <1>4 DEF Followable

\* A call starts a function of the IR with the caller's arguments.
LEMMA CallFollows ==
    ASSUME Simple, IRInv, Zeros, EmitterInv, Wired, RefInv, CallCompiled
    PROVE  RefInv' /\ IR!Next
<1>1. PICK i \in DOMAIN asm :
        \E arguments \in [DOMAIN module.functions[i].params -> Arguments] :
          CallFunction(module.functions[i], asm[i], arguments)
  BY DEF CallCompiled
<1> DEFINE f == module.functions[i]
<1>2. PICK arguments \in [DOMAIN f.params -> Arguments] : CallFunction(f, asm[i], arguments)
  BY <1>1
<1>3. f \in Functions /\ asm[i] = emitFunction(f) /\ Emittable(f, module.globals)
  <2>1. /\ module.functions \in Seq(FunctionType) /\ Len(asm) \in Nat
        /\ Len(asm) <= Len(module.functions) /\ DOMAIN asm = 1 .. Len(asm)
    BY DEF IRInv, IndInv, TypeOK, EmitterInv
  <2>2. i \in DOMAIN module.functions
    BY <2>1
  <2> QED
    BY <2>2 DEF Functions, EmitterInv
<1>4. arguments \in [DOMAIN f.params -> Word]
  BY <1>2, ArgumentsAssumption
<1>5. CallFunction(f, asm[i], arguments)
  BY <1>2
<1> HIDE DEF f
<1>6. Followable(f) /\ f # NoFunction
  BY <1>3, FinishedIsFollowable DEF CallCompiled, Executable
<1>7. /\ pc = 0 /\ FitsInMemory(f) /\ func' = f /\ params' = arguments /\ code' = emitFunction(f)
      /\ pc' = 1 /\ lines' = Lines(f) /\ mem' = mem
      /\ lineOf' = [k \in DOMAIN emitFunction(f) |-> LineAt(Lines(f), emitFunction(f), k)]
  BY <1>3, <1>5 DEF CallFunction
<1>8. /\ regs' = [r \in Registers |-> regs'[r]] /\ regs'["s0"] = CallerFP
      /\ \A k \in Passed(arguments) : regs'[ArgReg(k - 1)] = arguments[k]
  BY <1>5, CallRegisters
<1>9. Wired'
  BY <1>7, <1>8 DEF Wired
<1>10. ArgsHold'
  BY <1>7, <1>8 DEF ArgsHold
<1>11. mem' \in [Addresses -> Word]
  BY <1>7 DEF RefInv
<1>12. Following'
  BY <1>4, <1>6, <1>7, <1>9, <1>11 DEF Following
<1>13. NumbersLines'
  BY <1>7 DEF NumbersLines
<1>14. Line' = 0 /\ 1 \notin 5 .. BodyEnd(f)
  <2>1. BodyEnd(f) \in Nat /\ 1 \in 1 .. BodyEnd(f) + 5 /\ DOMAIN emitFunction(f) = 1 .. BodyEnd(f) + 5
    BY <1>6, CodeBody DEF Followable
  <2>2. LineAt(Lines(f), emitFunction(f), 1) = 0
    BY <1>6, <2>1, LinesOfCode
  <2> QED
    BY <1>7, <2>1, <2>2 DEF Line
<1>15. Tracks'
  BY <1>7, <1>8, <1>10, <1>12, <1>13, <1>14 DEF Tracks
<1>16. IR!Next
  BY <1>6, <1>7, <1>14, CallMapped
<1> QED
  BY <1>11, <1>15, <1>16 DEF RefInv, Tracks, Following

LEMMA IRStutters ==
    ASSUME UNCHANGED machineVars
    PROVE  (RefInv => RefInv') /\ UNCHANGED IR!vars
<1>1. UNCHANGED <<func, params, code, lines, lineOf, pc, regs, mem>>
  BY DEF machineVars
<1>2. Line' = Line /\ Over' = Over
  BY <1>1 DEF Line, Over
<1>3. Result' = Result
  BY <1>1, <1>2 DEF Result
<1>4. Values' = Values /\ Memory' = Memory /\ \A v : IR!Operand(v)' = IR!Operand(v)
  BY <1>1, SameOperand
<1>5. UNCHANGED IR!vars
  BY <1>1, <1>2, <1>3, <1>4, Stutters
<1>6. ASSUME NEW n, NEW j, AtPlace(n, j) PROVE AtPlace(n, j)'
  BY <1>1, <1>4, <1>6 DEF AtPlace, ArgsHold
<1>7. ASSUME Tracks PROVE Tracks'
  <2>1. Following' /\ NumbersLines' /\ (ArgsHold => ArgsHold')
    BY <1>1, <1>7 DEF Tracks, Following, NumbersLines, Wired, ArgsHold, FitsInMemory, Followable
  <2>2. ASSUME pc' \in 5 .. BodyEnd(func')
        PROVE  AtPlace(Places(func)[pc - 4][1], Places(func)[pc - 4][2])'
    <3>1. PICK n, j : n = Places(func)[pc - 4][1] /\ j = Places(func)[pc - 4][2]
      OBVIOUS
    <3>2. AtPlace(n, j)
      BY <1>1, <1>7, <2>2, <3>1 DEF Tracks
    <3>3. AtPlace(n, j)'
      BY <1>6, <3>2
    <3>4. Places(func')[pc' - 4][1] = n /\ Places(func')[pc' - 4][2] = j
      BY <1>1, <3>1
    <3> QED
      BY <3>3, <3>4
  <2> QED
    BY <1>1, <1>7, <2>1, <2>2 DEF Tracks
<1>8. ASSUME RefInv PROVE RefInv'
  BY <1>1, <1>7, <1>8 DEF RefInv
<1> QED
  BY <1>5, <1>8

\* Every step of the program is a step of the IR or one it does not see.
LEMMA ProgramFollows ==
    ASSUME Simple, IRInv, Zeros, EmitterInv, MachineInv, RefInv, [CompilerNext]_compilerVars
    PROVE  RefInv' /\ [IR!Next]_(IR!vars)
<1>1. CASE Execute
  <2>1. Step /\ pc # 0
    BY <1>1 DEF Execute, Step, InCode, ComputeBinary, ComputeUnary, LoadImmediate, LoadWord,
                StoreWord, Jump, BranchIfNotZero, Skip, ReturnToCaller
  <2>2. Wired /\ Running
    BY <2>1 DEF MachineInv
  <2>3. func # NoFunction
    BY <2>1 DEF RefInv
  <2>4. Tracks
    BY <2>1, <2>3 DEF RefInv
  <2>5. Wired'
    BY <2>1, <2>2, RunBody, RunFrame
  <2>6. Tracks' /\ (IR!Next \/ UNCHANGED IR!vars)
    BY <2>1, <2>2, <2>4, <2>5, BodyFollows, PrologueFollows, EpilogueFollows
  <2>7. RefInv'
    BY <2>6 DEF RefInv, Tracks, Following
  <2> QED
    BY <2>6, <2>7
<1>2. CASE CallCompiled
  BY <1>2, CallFollows DEF MachineInv
<1>3. CASE UNCHANGED machineVars
  BY <1>3, IRStutters
<1> QED
  BY <1>1, <1>2, <1>3 DEF CompilerNext, GenerateIR, EmitFunction, EmitterThrows, compilerVars

\* In a program of expressions that have handlers, without pointers or
\* assignments within an expression, the emitted code does what the IR says: line
\* by line, jump by jump, with the values the IR computes in the slots of its
\* instructions and what it returns in a0.  Each line of the code is a part of one
\* line of the IR that the IR does not see, or its end.
THEOREM Refines ==
    ASSUME Simple
    PROVE  CompilerSpec => Implements
<1>1. CompilerInit => IR!Init /\ RefInv
  <2> SUFFICES ASSUME CompilerInit PROVE IR!Init /\ RefInv
    OBVIOUS
  <2>1. MachineInit
    BY DEF CompilerInit
  <2>2. IR!Init
    BY <2>1, InitMapped
  <2>3. 0 \in Word
    BY WordSizeIsNat DEF Word
  <2> QED
    BY <2>1, <2>2, <2>3 DEF RefInv, MachineInit
<1>2. IRInv /\ EmitterInv /\ Zeros /\ MachineInv /\ RefInv /\ [CompilerNext]_compilerVars
        => RefInv' /\ [IR!Next]_(IR!vars)
  BY ProgramFollows
<1> QED
  BY <1>1, <1>2, MachineInvariant, PTL DEF CompilerSpec, Implements, IR!Spec
===============================================================================
