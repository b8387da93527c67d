----------------------- MODULE FingerprintString_proofs -----------------------
(***************************************************************************)
(* What holds of FingerprintString for fingerprints and batches of every   *)
(* length, and for every major and average.                                *)
(***************************************************************************)
EXTENDS FingerprintString, TLAPS, WellFoundedInduction, SequenceTheorems

-----------------------------------------------------------------------------
(* Numbers as text *)

\* The ten digits are different characters, and none is a separator.
LEMMA DigitFacts ==
  /\ \A v \in 0..9 : Digit[v + 1] \in ToSet(Digit)
  /\ \A c \in ToSet(Digit) : \E v \in 0..9 : Digit[v + 1] = c
  /\ \A v, w \in 0..9 : Digit[v + 1] = Digit[w + 1] => v = w
  /\ "-" \notin ToSet(Digit)
<1>1. DOMAIN Digit = 1..10
  BY DEF Digit
<1>2. \A v \in 0..9 : v + 1 \in 1..10
  OBVIOUS
<1>3. \A v \in 0..9 : Digit[v + 1] \in ToSet(Digit)
  BY <1>1, <1>2 DEF ToSet
<1>4. \A c \in ToSet(Digit) : \E v \in 0..9 : Digit[v + 1] = c
  <2> TAKE c \in ToSet(Digit)
  <2>1. PICK d \in 1..10 : c = Digit[d]
    BY <1>1 DEF ToSet
  <2>2. d - 1 \in 0..9 /\ Digit[(d - 1) + 1] = c
    BY <2>1
  <2>3. QED BY <2>2
<1>5. \A d, e \in 1..10 : Digit[d] = Digit[e] => d = e
  BY DEF Digit
<1>6. \A v, w \in 0..9 : Digit[v + 1] = Digit[w + 1] => v = w
  <2> SUFFICES ASSUME NEW v \in 0..9, NEW w \in 0..9, Digit[v + 1] = Digit[w + 1] PROVE v = w
    OBVIOUS
  <2>1. v + 1 = w + 1
    BY <1>2, <1>5
  <2>2. QED BY <2>1
<1>7. \A d \in 1..10 : Digit[d] # "-"
  BY DEF Digit
<1>8. QED BY <1>1, <1>3, <1>4, <1>6, <1>7 DEF ToSet

\* A number of at most five digits has a width.
LEMMA WidthType ==
  ASSUME NEW n \in Nat, n < 100000
  PROVE  /\ Width(n) \in 1..5
         /\ n < Power[Width(n) + 1] /\ (Width(n) = 1 \/ n >= Power[Width(n)])
<1>1. \E w \in 1..5 : n < Power[w + 1] /\ (w = 1 \/ n >= Power[w])
  <2>1. CASE n < 10
    <3>1. 1 \in 1..5 /\ n < Power[1 + 1]
      BY <2>1 DEF Power
    <3>2. QED BY <3>1
  <2>2. CASE 10 <= n /\ n < 100
    <3>1. 2 \in 1..5 /\ n < Power[2 + 1] /\ n >= Power[2]
      BY <2>2 DEF Power
    <3>2. QED BY <3>1
  <2>3. CASE 100 <= n /\ n < 1000
    <3>1. 3 \in 1..5 /\ n < Power[3 + 1] /\ n >= Power[3]
      BY <2>3 DEF Power
    <3>2. QED BY <3>1
  <2>4. CASE 1000 <= n /\ n < 10000
    <3>1. 4 \in 1..5 /\ n < Power[4 + 1] /\ n >= Power[4]
      BY <2>4 DEF Power
    <3>2. QED BY <3>1
  <2>5. CASE 10000 <= n
    <3>1. 5 \in 1..5 /\ n < Power[5 + 1] /\ n >= Power[5]
      BY <2>5 DEF Power
    <3>2. QED BY <3>1
  <2>6. QED BY <2>1, <2>2, <2>3, <2>4, <2>5
<1>2. QED BY <1>1 DEF Width

\* A number of two digits has width 2.
LEMMA WidthTwo ==
  ASSUME NEW n \in Nat, 10 <= n, n < 100
  PROVE  Width(n) = 2
<1>1. Width(n) \in 1..5 /\ n < Power[Width(n) + 1] /\ (Width(n) = 1 \/ n >= Power[Width(n)])
  BY WidthType
<1>2. CASE Width(n) = 1
  BY <1>1, <1>2 DEF Power
<1>3. CASE Width(n) \in 3..5
  BY <1>1, <1>3 DEF Power
<1>4. QED BY <1>1, <1>2, <1>3

DigitAt(n, p) == Digit[((n \div Power[p]) % 10) + 1]

\* A digit of a number is a digit.
LEMMA DigitAtType ==
  ASSUME NEW n \in Nat, n < 100000, NEW p \in 1..6
  PROVE  (n \div Power[p]) % 10 \in 0..9 /\ DigitAt(n, p) \in ToSet(Digit)
<1>1. Power[p] \in Nat \ {0}
  BY DEF Power
<1>2. n \div Power[p] \in Int
  BY <1>1
<1>3. (n \div Power[p]) % 10 \in 0..9
  BY <1>2
<1>4. QED BY <1>3, DigitFacts DEF DigitAt

\* A function on 1..n is a text of n characters.
LEMMA FunctionText ==
  ASSUME NEW S, NEW n \in Nat, NEW f \in [1..n -> S]
  PROVE  f \in Seq(S) /\ Len(f) = n
OBVIOUS

\* The text of a natural number: its digits.
LEMMA DecimalDigits ==
  ASSUME NEW n \in Nat, n < 100000
  PROVE  Decimal(n) = [d \in 1..Width(n) |-> DigitAt(n, Width(n) - d + 1)]
<1>1. ~(n < 0)
  OBVIOUS
<1>2. QED BY <1>1 DEF Decimal, DigitAt

LEMMA DecimalType ==
  ASSUME NEW n \in Nat, n < 100000
  PROVE  Decimal(n) \in Seq(ToSet(Digit)) /\ Len(Decimal(n)) = Width(n)
<1>1. Width(n) \in 1..5
  BY WidthType
<1>2. \A d \in 1..Width(n) : Width(n) - d + 1 \in 1..6
  BY <1>1
<1>3. Decimal(n) \in [1..Width(n) -> ToSet(Digit)]
  BY <1>2, DecimalDigits, DigitAtType
<1>4. QED BY <1>1, <1>3, FunctionText

\* One character is a text.
LEMMA CharacterText ==
  /\ \A c \in Character : <<c>> \in Seq(Character) /\ Len(<<c>>) = 1 /\ <<c>>[1] = c
  /\ ToSet(Digit) \subseteq Character /\ "-" \in Character /\ ":" \in Character /\ "," \in Character
<1>1. ToSet(Digit) \subseteq Character /\ "-" \in Character /\ ":" \in Character /\ "," \in Character
  BY DEF Character
<1>2. \A c \in Character : <<c>> \in Seq(Character) /\ Len(<<c>>) = 1 /\ <<c>>[1] = c
  OBVIOUS
<1>3. QED BY <1>1, <1>2

\* Where the characters of two texts are in their concatenation.
LEMMA JoinTexts ==
  ASSUME NEW S, NEW s \in Seq(S), NEW t \in Seq(S)
  PROVE  /\ s \o t \in Seq(S) /\ Len(s \o t) = Len(s) + Len(t)
         /\ Len(s) \in Nat /\ Len(t) \in Nat
         /\ \A d \in 1..Len(s) : (s \o t)[d] = s[d]
         /\ \A d \in 1..Len(t) : (s \o t)[Len(s) + d] = t[d]
OBVIOUS

\* The text of an average: a sign and two digits.
LEMMA DecimalAverage ==
  ASSUME NEW n \in Int, -99 <= n, n <= -10
  PROVE  /\ Decimal(n) \in Seq(Character) /\ Len(Decimal(n)) = 3
         /\ Decimal(n)[1] = "-"
         /\ Decimal(n)[2] = Digit[((-n) \div 10) + 1]
         /\ Decimal(n)[3] = Digit[((-n) % 10) + 1]
<1> DEFINE size == -n
           digits == [d \in 1..2 |-> Digit[((size \div Power[2 - d + 1]) % 10) + 1]]
<1>1. size \in Nat /\ 10 <= size /\ size < 100 /\ n < 0
  OBVIOUS
<1>2. Width(size) = 2
  BY <1>1, WidthTwo
<1>3. Decimal(n) = <<"-">> \o digits
  BY <1>1, <1>2 DEF Decimal
<1>4. Power[2] = 10 /\ Power[1] = 1
  BY DEF Power
<1>5. (size \div 10) % 10 = size \div 10 /\ size \div 1 = size
  BY <1>1
<1>6. digits[1] = Digit[(size \div 10) + 1] /\ digits[2] = Digit[(size % 10) + 1]
  <2>1. 2 - 1 + 1 = 2 /\ 2 - 2 + 1 = 1
    OBVIOUS
  <2>2. QED BY <1>4, <1>5, <2>1
<1>7. size \div 10 \in 0..9 /\ size % 10 \in 0..9
  BY <1>1
<1>8. digits[1] \in ToSet(Digit) /\ digits[2] \in ToSet(Digit)
  BY <1>6, <1>7, DigitFacts
<1> HIDE DEF size
<1>9. digits = [d \in 1..2 |-> digits[d]]
  OBVIOUS
<1> HIDE DEF digits
<1>10. digits \in Seq(Character) /\ Len(digits) = 2
  <2>1. digits[1] \in Character /\ digits[2] \in Character
    BY <1>8, CharacterText
  <2>2. digits \in [1..2 -> Character]
    BY <1>9, <2>1
  <2>3. QED BY <2>2, FunctionText
<1>11. /\ Decimal(n) \in Seq(Character) /\ Len(Decimal(n)) = 3
       /\ \A d \in 1..1 : Decimal(n)[d] = <<"-">>[d]
       /\ \A d \in 1..2 : Decimal(n)[1 + d] = digits[d]
  <2>1. <<"-">> \in Seq(Character) /\ Len(<<"-">>) = 1
    BY CharacterText
  <2>2. QED BY <1>3, <1>10, <2>1, JoinTexts
<1>12. Decimal(n)[1] = "-" /\ Decimal(n)[2] = digits[1] /\ Decimal(n)[3] = digits[2]
  BY <1>11
<1>13. QED BY <1>6, <1>11, <1>12 DEF size

-----------------------------------------------------------------------------
(* Values computed along a sequence *)

\* A set of natural numbers has a least element.
LEMMA LeastNumber ==
  ASSUME NEW T, T \subseteq Nat, T # {}
  PROVE  \E x \in T : \A y \in T : x <= y
<1>1. PICK x \in T : \A y \in T : <<y, x>> \notin OpToRel(<, Nat)
  BY NatLessThanWellFounded, WFMin
<1>2. \A y \in T : ~(y < x)
  BY <1>1 DEF OpToRel
<1>3. QED BY <1>2

\* Induction up to n: a set that holds 0 and with k - 1 also k holds all of 0..n.
LEMMA UpTo ==
  ASSUME NEW n \in Nat, NEW P, 0 \in P, \A k \in 1..n : k - 1 \in P => k \in P
  PROVE  0..n \subseteq P
<1> DEFINE Bad == {m \in 0..n : m \notin P}
<1>1. SUFFICES ASSUME Bad # {} PROVE FALSE
  OBVIOUS
<1>2. PICK m \in Bad : \A y \in Bad : m <= y
  <2>1. Bad \subseteq Nat
    OBVIOUS
  <2> HIDE DEF Bad
  <2>2. QED BY <1>1, <2>1, LeastNumber
<1>3. m \in 1..n /\ m \notin P
  OBVIOUS
<1>4. m - 1 \in 0..n /\ m - 1 \notin Bad
  BY <1>2, <1>3
<1>5. QED BY <1>3, <1>4

\* s starts at 0 and goes on with the given steps.
Computes(s, n, step) ==
  /\ s \in [0..n -> Int] /\ s[0] = 0
  /\ \A k \in 1..n : s[k] = step[k][s[k - 1]]

\* There are such values, for as many steps as are given.
LEMMA ComputesExists ==
  ASSUME NEW n \in Nat, NEW step \in [1..n -> [Int -> Int]]
  PROVE  \E s : Computes(s, n, step)
<1> DEFINE Has(m) == \E s : Computes(s, m, step)
           P == {m \in 0..n : Has(m)}
<1> HIDE DEF Has
<1>1. 0 \in P
  <2>1. Computes([k \in 0..0 |-> 0], 0, step)
    BY DEF Computes
  <2>2. Has(0)
    BY <2>1 DEF Has
  <2>3. QED BY <2>2
<1>2. ASSUME NEW m \in 1..n, m - 1 \in P PROVE m \in P
  <2>1. PICK s : Computes(s, m - 1, step)
    BY <1>2 DEF Has
  <2> DEFINE t == [k \in 0..m |-> IF k = m THEN step[m][s[m - 1]] ELSE s[k]]
  <2>2. s \in [0..(m - 1) -> Int] /\ step[m] \in [Int -> Int]
    BY <2>1 DEF Computes
  <2>3. step[m][s[m - 1]] \in Int
    BY <2>2
  <2>4. \A k \in 0..m : k = m \/ k \in 0..(m - 1)
    OBVIOUS
  <2>5. t \in [0..m -> Int]
    BY <2>2, <2>3, <2>4
  <2>6. t[0] = 0
    BY <2>1 DEF Computes
  <2>7. \A k \in 1..m : t[k] = step[k][t[k - 1]]
    <3> TAKE k \in 1..m
    <3>1. k - 1 \in 0..m /\ k - 1 # m /\ k \in 0..m
      OBVIOUS
    <3>2. t[k - 1] = s[k - 1]
      BY <3>1
    <3>3. CASE k = m
      BY <3>1, <3>2, <3>3
    <3>4. CASE k # m
      <4>1. k \in 1..(m - 1)
        BY <3>4
      <4>2. s[k] = step[k][s[k - 1]]
        BY <2>1, <4>1 DEF Computes
      <4>3. QED BY <3>1, <3>2, <3>4, <4>2
    <3>5. QED BY <3>3, <3>4
  <2> HIDE DEF t
  <2>8. Computes(t, m, step)
    BY <2>5, <2>6, <2>7 DEF Computes
  <2>9. Has(m)
    BY <2>8 DEF Has
  <2>10. QED BY <2>9
<1>3. n \in P
  <2> HIDE DEF P
  <2>1. 0..n \subseteq P
    BY <1>1, <1>2, UpTo
  <2>2. QED BY <2>1
<1>4. QED BY <1>3 DEF Has

\* The recursive sum of the columns is what its definition says.
LEMMA TotalComputes ==
  ASSUME NEW f \in [1..Columns -> Nat]
  PROVE  \E s : /\ s \in [0..Columns -> Nat] /\ s[0] = 0
                /\ \A k \in 1..Columns : s[k] = s[k - 1] + f[k]
                /\ Total(f) = s[Columns]
<1> DEFINE Sum(s) == s = [n \in 0..Columns |-> IF n = 0 THEN 0 ELSE s[n - 1] + f[n]]
           step == [k \in 1..Columns |-> [x \in Int |-> x + f[k]]]
<1>0. Columns \in Nat
  BY StringAssumption
<1>1. \E s : Sum(s)
  <2>1. step \in [1..Columns -> [Int -> Int]]
    OBVIOUS
  <2>2. PICK s : Computes(s, Columns, step)
    BY <1>0, <2>1, ComputesExists
  <2>3. s \in [0..Columns -> Int] /\ s[0] = 0
    BY <2>2 DEF Computes
  <2>4. \A k \in 1..Columns : s[k] = s[k - 1] + f[k]
    <3> TAKE k \in 1..Columns
    <3>1. k - 1 \in 0..Columns
      BY <1>0
    <3>2. s[k - 1] \in Int
      BY <2>3, <3>1
    <3>3. step[k][s[k - 1]] = s[k - 1] + f[k]
      BY <3>2
    <3> HIDE DEF step
    <3>4. s[k] = step[k][s[k - 1]]
      BY <2>2 DEF Computes
    <3>5. QED BY <3>3, <3>4
  <2>5. \A k \in 0..Columns : s[k] = IF k = 0 THEN 0 ELSE s[k - 1] + f[k]
    BY <1>0, <2>3, <2>4
  <2>6. Sum(s)
    BY <2>3, <2>5
  <2>7. QED BY <2>6
<1> DEFINE total == CHOOSE s : Sum(s)
<1>2. Total(f) = total[Columns]
  BY DEF Total
<1>3. Sum(total)
  BY <1>1
<1> HIDE DEF total
<1>4. total[0] = 0 /\ \A k \in 1..Columns : total[k] = total[k - 1] + f[k]
  BY <1>0, <1>3
<1>5. total = [n \in 0..Columns |-> total[n]]
  BY <1>3
<1> HIDE DEF Sum, step
<1>6. 0..Columns \subseteq {k \in 0..Columns : total[k] \in Nat}
  <2> DEFINE P == {k \in 0..Columns : total[k] \in Nat}
  <2>1. 0 \in P
    BY <1>0, <1>4
  <2>2. \A k \in 1..Columns : k - 1 \in P => k \in P
    BY <1>0, <1>4
  <2> HIDE DEF P
  <2>3. 0..Columns \subseteq P
    BY <1>0, <2>1, <2>2, UpTo
  <2>4. QED BY <2>3 DEF P
<1>7. total \in [0..Columns -> Nat]
  BY <1>5, <1>6
<1>8. QED BY <1>2, <1>4, <1>7

\* Nothing counted is a sum of 0.
LEMMA TotalZero ==
  ASSUME NEW f \in [1..Columns -> Nat], \A k \in 1..Columns : f[k] = 0
  PROVE  Total(f) = 0
<1>0. Columns \in Nat
  BY StringAssumption
<1>1. PICK s : /\ s \in [0..Columns -> Nat] /\ s[0] = 0
               /\ \A k \in 1..Columns : s[k] = s[k - 1] + f[k]
               /\ Total(f) = s[Columns]
  BY TotalComputes
<1> DEFINE P == {k \in 0..Columns : s[k] = 0}
<1>2. 0 \in P
  BY <1>0, <1>1
<1>3. \A k \in 1..Columns : k - 1 \in P => k \in P
  BY <1>0, <1>1
<1>4. Columns \in P
  <2> HIDE DEF P
  <2>1. 0..Columns \subseteq P
    BY <1>0, <1>2, <1>3, UpTo
  <2>2. QED BY <1>0, <2>1
<1>5. QED BY <1>1, <1>4

\* A column that was 0 adds what is written to it.
LEMMA TotalUpdate ==
  ASSUME NEW f \in [1..Columns -> Nat], NEW j \in 1..Columns, f[j] = 0, NEW x \in Nat
  PROVE  Total([f EXCEPT ![j] = x]) = Total(f) + x
<1> DEFINE g == [f EXCEPT ![j] = x]
<1>0. Columns \in Nat
  BY StringAssumption
<1>1. g \in [1..Columns -> Nat] /\ g[j] = x /\ \A k \in 1..Columns : k # j => g[k] = f[k]
  OBVIOUS
<1> HIDE DEF g
<1>2. PICK s : /\ s \in [0..Columns -> Nat] /\ s[0] = 0
               /\ \A k \in 1..Columns : s[k] = s[k - 1] + f[k]
               /\ Total(f) = s[Columns]
  BY TotalComputes
<1>3. PICK t : /\ t \in [0..Columns -> Nat] /\ t[0] = 0
               /\ \A k \in 1..Columns : t[k] = t[k - 1] + g[k]
               /\ Total(g) = t[Columns]
  BY <1>1, TotalComputes
<1> DEFINE P == {k \in 0..Columns : t[k] = s[k] + (IF k < j THEN 0 ELSE x)}
<1>4. 0 \in P
  BY <1>0, <1>2, <1>3
<1>5. ASSUME NEW k \in 1..Columns, k - 1 \in P PROVE k \in P
  <2>1. /\ t[k] = t[k - 1] + g[k] /\ s[k] = s[k - 1] + f[k]
        /\ t[k - 1] = s[k - 1] + (IF k - 1 < j THEN 0 ELSE x)
        /\ s[k - 1] \in Nat /\ f[k] \in Nat
    BY <1>0, <1>2, <1>3, <1>5
  <2>2. CASE k = j
    BY <1>1, <2>1, <2>2
  <2>3. CASE k # j
    BY <1>1, <2>1, <2>3
  <2>4. QED BY <2>2, <2>3
<1>6. Columns \in P
  <2> HIDE DEF P
  <2>1. 0..Columns \subseteq P
    BY <1>0, <1>4, <1>5, UpTo
  <2>2. QED BY <1>0, <2>1
<1>7. Total(g) = Total(f) + x
  BY <1>2, <1>3, <1>6
<1>8. QED BY <1>7 DEF g

-----------------------------------------------------------------------------
(* Reading a number *)

\* A text of digits, or a sign and digits, reads as an integer.
LEMMA NumberType ==
  ASSUME NEW t \in Seq(Character)
  PROVE  Number(t) \in Int
<1> DEFINE negative == t # <<>> /\ t[1] = "-"
           digits == IF negative THEN Tail(t) ELSE t
           Prefix(w) == /\ \A d \in 1..w : digits[d] \in ToSet(Digit)
                        /\ w < Len(digits) => digits[w + 1] \notin ToSet(Digit)
           width == CHOOSE w \in 0..Len(digits) : Prefix(w)
           Code(c) == CHOOSE v \in 0..9 : Digit[v + 1] = c
           Value(s) == s = [w \in 0..width |->
                              IF w = 0 THEN 0 ELSE 10 * s[w - 1] + Code(digits[w])]
           value == CHOOSE s : Value(s)
<1>1. Number(t) = IF negative THEN -value[width] ELSE value[width]
  BY DEF Number
<1>2. digits \in Seq(Character)
  OBVIOUS
<1> HIDE DEF digits, negative
<1>3. width \in 0..Len(digits) /\ Prefix(width)
  <2> DEFINE T == {w \in 0..Len(digits) : w = Len(digits) \/ digits[w + 1] \notin ToSet(Digit)}
  <2>1. Len(digits) \in Nat
    BY <1>2
  <2>2. PICK w \in T : \A y \in T : w <= y
    <3>1. T \subseteq Nat /\ Len(digits) \in T
      BY <2>1
    <3> HIDE DEF T
    <3>2. QED BY <3>1, LeastNumber
  <2>3. ASSUME NEW d \in 1..w PROVE digits[d] \in ToSet(Digit)
    <3>1. d - 1 \in 0..Len(digits) /\ ~(w <= d - 1) /\ (d - 1) + 1 = d /\ d - 1 # Len(digits)
      BY <2>1, <2>2
    <3>2. d - 1 \notin T
      BY <2>2, <3>1
    <3>3. QED BY <3>1, <3>2
  <2>4. w \in 0..Len(digits) /\ Prefix(w)
    BY <2>1, <2>2, <2>3
  <2>5. QED BY <2>4
<1> HIDE DEF width
<1>4. \A w \in 1..width : Code(digits[w]) \in 0..9
  BY <1>3, DigitFacts
<1>5. width \in Nat
  BY <1>2, <1>3
<1> HIDE DEF Prefix, Code
<1> DEFINE step == [w \in 1..width |-> [x \in Int |-> 10 * x + Code(digits[w])]]
<1>6. \E s : Value(s) /\ s \in [0..width -> Int]
  <2>1. step \in [1..width -> [Int -> Int]]
    BY <1>4
  <2>2. PICK s : Computes(s, width, step)
    BY <1>5, <2>1, ComputesExists
  <2>3. s \in [0..width -> Int] /\ s[0] = 0
    BY <2>2 DEF Computes
  <2>4. ASSUME NEW w \in 1..width PROVE s[w] = 10 * s[w - 1] + Code(digits[w])
    <3>1. w - 1 \in 0..width
      BY <1>5
    <3>2. s[w - 1] \in Int
      BY <2>3, <3>1
    <3>3. step[w][s[w - 1]] = 10 * s[w - 1] + Code(digits[w])
      BY <3>2
    <3> HIDE DEF step
    <3>4. s[w] = step[w][s[w - 1]]
      BY <2>2 DEF Computes
    <3>5. QED BY <3>3, <3>4
  <2>5. \A w \in 0..width : s[w] = IF w = 0 THEN 0 ELSE 10 * s[w - 1] + Code(digits[w])
    BY <1>5, <2>3, <2>4
  <2>6. Value(s)
    BY <2>3, <2>5
  <2>7. QED BY <2>3, <2>6
<1>7. Value(value)
  BY <1>6
<1> HIDE DEF value
<1>8. value[width] \in Int
  <2> DEFINE P == {w \in 0..width : value[w] \in Int}
  <2>1. 0 \in P
    BY <1>5, <1>7
  <2>2. ASSUME NEW w \in 1..width, w - 1 \in P PROVE w \in P
    <3>1. value[w] = 10 * value[w - 1] + Code(digits[w])
      BY <1>5, <1>7
    <3>2. value[w - 1] \in Int /\ Code(digits[w]) \in Int
      BY <1>4, <2>2
    <3>3. QED BY <1>5, <3>1, <3>2
  <2>3. width \in P
    <3> HIDE DEF P
    <3>1. 0..width \subseteq P
      BY <1>5, <2>1, <2>2, UpTo
    <3>2. QED BY <1>5, <3>1
  <2>4. QED BY <2>3
<1>9. QED BY <1>1, <1>8

\* A sign and two digits are read as the number they stand for.
LEMMA NumberTwoDigits ==
  ASSUME NEW t \in Seq(Character), Len(t) = 3, t[1] = "-",
         NEW tens \in 0..9, NEW units \in 0..9,
         t[2] = Digit[tens + 1], t[3] = Digit[units + 1]
  PROVE  Number(t) = -(10 * tens + units)
<1> DEFINE negative == t # <<>> /\ t[1] = "-"
           digits == IF negative THEN Tail(t) ELSE t
           Prefix(w) == /\ \A d \in 1..w : digits[d] \in ToSet(Digit)
                        /\ w < Len(digits) => digits[w + 1] \notin ToSet(Digit)
           width == CHOOSE w \in 0..Len(digits) : Prefix(w)
           Code(c) == CHOOSE v \in 0..9 : Digit[v + 1] = c
           Value(s) == s = [w \in 0..width |->
                              IF w = 0 THEN 0 ELSE 10 * s[w - 1] + Code(digits[w])]
           value == CHOOSE s : Value(s)
<1>3. negative
  OBVIOUS
<1>4. Number(t) = IF negative THEN -value[width] ELSE value[width]
  BY DEF Number
<1>5. Len(digits) = 2 /\ digits[1] = Digit[tens + 1] /\ digits[2] = Digit[units + 1]
  <2>1. Len(Tail(t)) = 2 /\ Tail(t)[1] = t[2] /\ Tail(t)[2] = t[3]
    OBVIOUS
  <2> HIDE DEF negative
  <2>2. digits = Tail(t)
    BY <1>3
  <2> HIDE DEF digits
  <2>3. QED BY <2>1, <2>2
<1> HIDE DEF digits, negative
<1>6. width = 2
  <2>1. \A d \in 1..2 : digits[d] \in ToSet(Digit)
    BY <1>5, DigitFacts
  <2>2. Prefix(2)
    BY <1>5, <2>1
  <2>3. \A w \in 0..2 : Prefix(w) => w = 2
    BY <1>5, <2>1
  <2> HIDE DEF Prefix
  <2>4. QED BY <1>5, <2>2, <2>3
<1>7. Code(digits[1]) = tens /\ Code(digits[2]) = units
  BY <1>5, DigitFacts
<1> HIDE DEF width, Code
<1>8. \E s : Value(s)
  <2> DEFINE s == [w \in 0..2 |-> IF w = 0 THEN 0 ELSE IF w = 1 THEN Code(digits[1])
                                  ELSE 10 * Code(digits[1]) + Code(digits[2])]
  <2>1. \A w \in 0..2 : s[w] = IF w = 0 THEN 0 ELSE 10 * s[w - 1] + Code(digits[w])
    BY <1>7
  <2>2. s = [w \in 0..2 |-> s[w]]
    OBVIOUS
  <2> HIDE DEF s
  <2>3. Value(s)
    BY <1>6, <2>1, <2>2
  <2>4. QED BY <2>3
<1>9. Value(value)
  BY <1>8
<1> HIDE DEF value
<1>10. value[0] = 0 /\ value[1] = 10 * value[0] + tens /\ value[2] = 10 * value[1] + units
  BY <1>6, <1>7, <1>9
<1>11. value[2] = 10 * tens + units
  BY <1>10
<1>12. QED BY <1>3, <1>4, <1>6, <1>11

\* An average is read back as it was written.
LEMMA NumberAverage ==
  ASSUME NEW n \in Int, -99 <= n, n <= -10
  PROVE  Number(Decimal(n)) = n
<1> DEFINE tens == (-n) \div 10
           units == (-n) % 10
<1>1. tens \in 0..9 /\ units \in 0..9 /\ -(10 * tens + units) = n
  OBVIOUS
<1>2. Decimal(n)[2] = Digit[tens + 1] /\ Decimal(n)[3] = Digit[units + 1]
  BY DecimalAverage
<1> HIDE DEF tens, units
<1>3. Number(Decimal(n)) = -(10 * tens + units)
  BY <1>1, <1>2, DecimalAverage, NumberTwoDigits
<1>4. QED BY <1>1, <1>3

-----------------------------------------------------------------------------
(* Slots *)

\* Beacons are a sequence of records, with different majors.
LEMMA BeaconsType ==
  ASSUME NEW n \in Nat, NEW values, NEW s \in Beacons(n, values)
  PROVE  /\ s \in Seq([major : Majors, rssi : values])
         /\ Len(s) \in 0..n /\ DOMAIN s = 1..Len(s)
         /\ \A j, k \in 1..Len(s) : s[j].major = s[k].major => j = k
<1> DEFINE R == [major : Majors, rssi : values]
<1>1. s \in BoundedSeq([major : Majors, rssi : values], n)
  BY DEF Beacons
<1> HIDE DEF R
<1>2. PICK m \in 0..n : s \in [1..m -> R]
  BY <1>1 DEF BoundedSeq, SeqOf, R
<1>3. s \in Seq(R) /\ Len(s) = m
  BY <1>2, FunctionText
<1>4. \A j, k \in DOMAIN s : s[j].major = s[k].major => j = k
  BY DEF Beacons
<1>5. DOMAIN s = 1..Len(s)
  BY <1>3
<1>6. QED BY <1>3, <1>4, <1>5 DEF R

\* A text of some characters is a text of more characters.
LEMMA WiderText ==
  ASSUME NEW S, NEW T, S \subseteq T, NEW s \in Seq(S)
  PROVE  s \in Seq(T)
OBVIOUS

\* A major fits in 16 bits.
LEMMA MajorBound ==
  ASSUME NEW m \in Majors
  PROVE  m \in Nat /\ m < 100000
BY StringAssumption

\* A major is written with its digits.
LEMMA MajorDecimal ==
  ASSUME NEW m \in Majors
  PROVE  Decimal(m) \in Seq(Character) /\ Len(Decimal(m)) = Width(m) /\ Width(m) \in 1..5
<1>1. m \in Nat /\ m < 100000
  BY MajorBound
<1>2. Decimal(m) \in Seq(ToSet(Digit)) /\ Len(Decimal(m)) = Width(m)
  BY <1>1, DecimalType
<1>3. Decimal(m) \in Seq(Character)
  BY <1>2, CharacterText, WiderText
<1>4. QED BY <1>1, <1>2, <1>3, WidthType

\* An average is written with a sign and two digits.
LEMMA AverageDecimal ==
  ASSUME NEW a \in Averages
  PROVE  /\ a \in Int /\ Decimal(a) \in Seq(Character) /\ Len(Decimal(a)) = 3
         /\ Number(Decimal(a)) = a
<1>1. a \in Int /\ -99 <= a /\ a <= -10
  BY StringAssumption
<1>2. QED BY <1>1, DecimalAverage, NumberAverage

\* A character or an average at the end of a text.
LEMMA JoinCharacter ==
  ASSUME NEW s \in Seq(Character), NEW b \in Seq(Character)
  PROVE  Len(b) = 1 =>
           /\ s \o b \in Seq(Character) /\ Len(s \o b) = Len(s) + 1 /\ Len(s) \in Nat
           /\ \A c \in 1..Len(s) : (s \o b)[c] = s[c]
<1>1. /\ s \o b \in Seq(Character) /\ Len(s \o b) = Len(s) + Len(b) /\ Len(s) \in Nat
      /\ \A c \in 1..Len(s) : (s \o b)[c] = s[c]
  BY JoinTexts
<1>2. QED BY <1>1

LEMMA JoinAverage ==
  ASSUME NEW s \in Seq(Character), NEW a \in Seq(Character)
  PROVE  Len(a) = 3 =>
           /\ s \o a \in Seq(Character) /\ Len(s \o a) = Len(s) + 3 /\ Len(s) \in Nat
           /\ \A c \in 1..Len(s) : (s \o a)[c] = s[c]
           /\ \A c \in 1..3 : (s \o a)[Len(s) + c] = a[c]
<1>1. /\ s \o a \in Seq(Character) /\ Len(s \o a) = Len(s) + Len(a) /\ Len(s) \in Nat
      /\ \A c \in 1..Len(s) : (s \o a)[c] = s[c]
      /\ \A c \in 1..Len(a) : (s \o a)[Len(s) + c] = a[c]
  BY JoinTexts
<1>2. QED BY <1>1

\* Where a slot holds the major and the average.
LEMMA SlotTextParts ==
  ASSUME NEW slot \in [major : Majors, rssi : Averages]
  PROVE  /\ SlotText(slot) \in Seq(Character)
         /\ Len(SlotText(slot)) = Width(slot.major) + 5
         /\ \A c \in 1..Width(slot.major) : SlotText(slot)[c] = Decimal(slot.major)[c]
         /\ \A c \in 1..3 : SlotText(slot)[Width(slot.major) + 1 + c] = Decimal(slot.rssi)[c]
<1> DEFINE m == Decimal(slot.major)
           a == Decimal(slot.rssi)
           u == m \o <<":">>
           v == u \o a
           t == v \o <<",">>
<1>1. m \in Seq(Character) /\ Len(m) = Width(slot.major)
  BY MajorDecimal
<1>2. a \in Seq(Character) /\ Len(a) = 3
  BY AverageDecimal
<1>3. SlotText(slot) = t
  BY DEF SlotText
<1> HIDE DEF m, a
<1>4. /\ <<":">> \in Seq(Character) /\ Len(<<":">>) = 1
      /\ <<",">> \in Seq(Character) /\ Len(<<",">>) = 1
  BY CharacterText
<1>5. /\ u \in Seq(Character) /\ Len(u) = Len(m) + 1 /\ Len(m) \in Nat
      /\ \A c \in 1..Len(m) : u[c] = m[c]
  BY <1>1, <1>4, JoinCharacter
<1> HIDE DEF u
<1>6. /\ v \in Seq(Character) /\ Len(v) = Len(u) + 3
      /\ \A c \in 1..Len(u) : v[c] = u[c]
      /\ \A c \in 1..3 : v[Len(u) + c] = a[c]
  BY <1>2, <1>5, JoinAverage
<1> HIDE DEF v
<1>7. /\ t \in Seq(Character) /\ Len(t) = Len(v) + 1
      /\ \A c \in 1..Len(v) : t[c] = v[c]
  BY <1>4, <1>6, JoinCharacter
<1> HIDE DEF t
<1>8. \A c \in 1..Len(m) : t[c] = m[c]
  BY <1>5, <1>6, <1>7
<1>9. \A c \in 1..3 : t[Len(m) + 1 + c] = a[c]
  BY <1>5, <1>6, <1>7
<1>10. Len(t) = Len(m) + 5
  BY <1>5, <1>6, <1>7
<1>11. QED BY <1>1, <1>3, <1>7, <1>8, <1>9, <1>10 DEF m, a

\* Two numbers with the same text are the same, when it has five digits.
LEMMA DecimalInjective ==
  ASSUME NEW m \in Majors, NEW n \in Majors, Width(m) = 5, Decimal(m) = Decimal(n)
  PROVE  m = n
<1>1. m \in Nat /\ n \in Nat /\ m < 100000 /\ n < 100000
  BY MajorBound
<1>2. Width(n) = 5
  BY MajorDecimal
<1>3. \A d \in 1..5 : Decimal(m)[d] = DigitAt(m, 5 - d + 1) /\ Decimal(n)[d] = DigitAt(n, 5 - d + 1)
  BY <1>1, <1>2, DecimalDigits
<1>4. \A p \in 1..5 : DigitAt(m, p) = DigitAt(n, p)
  <2> TAKE p \in 1..5
  <2>1. 6 - p \in 1..5 /\ 5 - (6 - p) + 1 = p
    OBVIOUS
  <2>2. QED BY <1>3, <2>1
<1>5. \A p \in 1..5 : (m \div Power[p]) % 10 = (n \div Power[p]) % 10
  <2> TAKE p \in 1..5
  <2>1. (m \div Power[p]) % 10 \in 0..9 /\ (n \div Power[p]) % 10 \in 0..9
    BY <1>1, DigitAtType
  <2>2. DigitAt(m, p) = DigitAt(n, p)
    BY <1>4
  <2>3. QED BY <2>1, <2>2, DigitFacts DEF DigitAt
<1>6. /\ (m \div 1) % 10 = (n \div 1) % 10 /\ (m \div 10) % 10 = (n \div 10) % 10
      /\ (m \div 100) % 10 = (n \div 100) % 10 /\ (m \div 1000) % 10 = (n \div 1000) % 10
      /\ (m \div 10000) % 10 = (n \div 10000) % 10
  BY <1>5 DEF Power
<1>7. QED BY <1>1, <1>6

\* What the reader cuts off a text that holds a slot.
LEMMA CutText ==
  ASSUME NEW t \in Seq(Character), Len(t) >= 10
  PROVE  /\ MajorText(t) \in Seq(Character) /\ Len(MajorText(t)) = 5
         /\ \A c \in 1..5 : MajorText(t)[c] = t[c]
         /\ ReadingText(t) \in Seq(Character) /\ Len(ReadingText(t)) = 3
         /\ \A c \in 1..3 : ReadingText(t)[c] = t[6 + c]
         /\ SubSeq(t, 11, Len(t)) \in Seq(Character)
         /\ Len(SubSeq(t, 11, Len(t))) = Len(t) - 10
         /\ \A c \in 1..(Len(t) - 10) : SubSeq(t, 11, Len(t))[c] = t[10 + c]
<1>1. MajorText(t) \in Seq(Character) /\ Len(MajorText(t)) = 5
  BY DEF MajorText
<1>2. \A c \in 1..5 : MajorText(t)[c] = t[c]
  BY DEF MajorText
<1>3. ReadingText(t) \in Seq(Character) /\ Len(ReadingText(t)) = 3
  BY DEF ReadingText
<1>4. \A c \in 1..3 : ReadingText(t)[c] = t[6 + c]
  BY DEF ReadingText
<1>5. SubSeq(t, 11, Len(t)) \in Seq(Character) /\ Len(SubSeq(t, 11, Len(t))) = Len(t) - 10
  <2>1. Len(t) \in Nat /\ 11 \in Int
    OBVIOUS
  <2>2. \A c \in 11..Len(t) : t[c] \in Character
    BY <2>1
  <2>3. SubSeq(t, 11, Len(t)) \in Seq(Character)
    BY <2>1, <2>2, SubSeqProperties
  <2>4. Len(SubSeq(t, 11, Len(t))) = IF 11 <= Len(t) THEN Len(t) - 11 + 1 ELSE 0
    BY <2>1, <2>2, SubSeqProperties
  <2>5. Len(SubSeq(t, 11, Len(t))) = Len(t) - 10
    <3>1. \A k \in Nat : k >= 10 => (IF 11 <= k THEN k - 11 + 1 ELSE 0) = k - 10
      OBVIOUS
    <3>2. (IF 11 <= Len(t) THEN Len(t) - 11 + 1 ELSE 0) = Len(t) - 10
      BY <2>1, <3>1
    <3>3. QED BY <2>4, <3>2
  <2>6. QED BY <2>3, <2>5
<1>6. \A c \in 1..(Len(t) - 10) : SubSeq(t, 11, Len(t))[c] = t[10 + c]
  OBVIOUS
<1>7. QED BY <1>1, <1>2, <1>3, <1>4, <1>5, <1>6

\* A difference is a natural number.
LEMMA DifferenceType ==
  ASSUME NEW read \in Int, NEW rssi \in Ranged
  PROVE  Difference(read, rssi) \in Nat
<1>1. rssi \in Int /\ Proofreading \in Int
  BY StringAssumption
<1>2. QED BY <1>1 DEF Difference

-----------------------------------------------------------------------------
(* Type correctness *)

\* An element of a sequence.
LEMMA ElementOf ==
  ASSUME NEW S, NEW s \in Seq(S)
  PROVE  \A n \in 1..Len(s) : s[n] \in S
OBVIOUS

\* What TypeOK says of the fingerprint and the batch.
LEMMA SlotsTyped ==
  ASSUME TypeOK
  PROVE  /\ stored \in Seq([major : Majors, rssi : Averages])
         /\ Len(stored) \in Nat /\ DOMAIN stored = 1..Len(stored)
         /\ \A n \in 1..Len(stored) : /\ stored[n] \in [major : Majors, rssi : Averages]
                                      /\ stored[n].major \in Majors /\ stored[n].rssi \in Averages
         /\ \A j, k \in 1..Len(stored) : stored[j].major = stored[k].major => j = k
         /\ Len(batch) \in 0..Columns /\ DOMAIN batch = 1..Len(batch)
         /\ \A n \in 1..Len(batch) : batch[n].major \in Majors /\ batch[n].rssi \in Ranged
<1>1. Columns \in Nat /\ MaxSlots \in Nat
  BY StringAssumption
<1>2. stored \in Beacons(MaxSlots, Averages) /\ batch \in Beacons(Columns, Ranged)
  BY DEF TypeOK
<1>3. /\ stored \in Seq([major : Majors, rssi : Averages])
      /\ Len(stored) \in Nat /\ DOMAIN stored = 1..Len(stored)
      /\ \A j, k \in 1..Len(stored) : stored[j].major = stored[k].major => j = k
  BY <1>1, <1>2, BeaconsType
<1>4. /\ batch \in Seq([major : Majors, rssi : Ranged])
      /\ Len(batch) \in 0..Columns /\ DOMAIN batch = 1..Len(batch)
  BY <1>1, <1>2, BeaconsType
<1>5. \A n \in 1..Len(stored) : stored[n] \in [major : Majors, rssi : Averages]
  BY <1>3, ElementOf
<1>6. \A n \in 1..Len(batch) : batch[n] \in [major : Majors, rssi : Ranged]
  BY <1>4, ElementOf
<1>7. QED BY <1>3, <1>4, <1>5, <1>6

\* Every variable keeps its type, whatever the fingerprint and the batch: a number
\* is read even from a text that was cut in the wrong place.
THEOREM TypeCorrect == Spec => []TypeOK
<1>0. Columns \in Nat
  BY StringAssumption
<1>1. Init => TypeOK
  <2> SUFFICES ASSUME Init PROVE TypeOK
    OBVIOUS
  <2>1. flagLong \in [1..Columns -> Nat] /\ rssiAbs \in Nat /\ i \in Nat \ {0} /\ rssiInt \in Int
    BY DEF Init
  <2>2. text \in Seq(Character) /\ major \in Seq(Character)
    BY DEF Init
  <2>3. QED BY <2>1, <2>2 DEF Init, TypeOK
<1>2. TypeOK /\ [Next]_vars => TypeOK'
  <2> SUFFICES ASSUME TypeOK, [Next]_vars PROVE TypeOK'
    OBVIOUS
  <2> USE DEF TypeOK
  <2>1. CASE WriteSlot
    <3>1. i \in 1..Len(stored)
      BY <2>1 DEF WriteSlot
    <3> HIDE DEF TypeOK
    <3>2. SlotText(stored[i]) \in Seq(Character)
      BY <3>1, SlotsTyped, SlotTextParts
    <3>3. text' \in Seq(Character)
      BY <2>1, <3>2, JoinTexts DEF WriteSlot, TypeOK
    <3>4. QED BY <2>1, <3>3 DEF WriteSlot, TypeOK
  <2>2. CASE EndWrite
    BY <2>2 DEF EndWrite
  <2>3. CASE CutSlot
    <3>1. CASE Len(text) < 10
      BY <2>3, <3>1 DEF CutSlot
    <3>2. CASE ~(Len(text) < 10)
      <4>1. text \in Seq(Character) /\ Len(text) >= 10
        BY <3>2
      <4>2. /\ MajorText(text) \in Seq(Character) /\ ReadingText(text) \in Seq(Character)
            /\ SubSeq(text, 11, Len(text)) \in Seq(Character)
        BY <4>1, CutText
      <4>3. Number(ReadingText(text)) \in Int
        BY <4>2, NumberType
      <4>4. /\ major' = MajorText(text) /\ rssiInt' = Number(ReadingText(text))
            /\ text' = SubSeq(text, 11, Len(text)) /\ phase' = "match" /\ i' = 1
            /\ UNCHANGED <<stored, batch, flagLong, rssiAbs>>
        BY <2>3, <3>2 DEF CutSlot
      <4>5. QED BY <4>2, <4>3, <4>4
    <3>3. QED BY <3>1, <3>2
  <2>4. CASE MatchBeacon
    <3>1. i \in 1..Len(batch)
      BY <2>4 DEF MatchBeacon
    <3>2. Len(batch) \in 0..Columns /\ batch[i].rssi \in Ranged
      BY <3>1, SlotsTyped
    <3>3. Difference(rssiInt, batch[i].rssi) \in Nat
      BY <3>2, DifferenceType
    <3>4. i \in 1..Columns
      BY <1>0, <3>1, <3>2
    <3> DEFINE d == Difference(rssiInt, batch[i].rssi)
    <3>5. CASE Decimal(batch[i].major) = major
      <4>1. flagLong' = [flagLong EXCEPT ![i] = d] /\ rssiAbs' = rssiAbs + d
        BY <2>4, <3>5 DEF MatchBeacon
      <4> HIDE DEF d
      <4>2. d \in Nat
        BY <3>3 DEF d
      <4>3. flagLong' \in [1..Columns -> Nat] /\ rssiAbs' \in Nat
        BY <3>4, <4>1, <4>2
      <4>4. QED BY <2>4, <4>3 DEF MatchBeacon
    <3>6. CASE Decimal(batch[i].major) # major
      BY <2>4, <3>6 DEF MatchBeacon
    <3>7. QED BY <3>5, <3>6
  <2>5. CASE EndMatch
    BY <2>5 DEF EndMatch
  <2>6. CASE EndRead
    BY <2>6 DEF EndRead
  <2>7. CASE UNCHANGED vars
    BY <2>7 DEF vars
  <2>8. QED BY <2>1, <2>2, <2>3, <2>4, <2>5, <2>6, <2>7 DEF Next
<1>3. QED BY <1>1, <1>2, PTL DEF Spec

-----------------------------------------------------------------------------
(* The invariant *)

\* The text t is the slots of s after the first a, up to the b-th.
Slots(s, t, a, b) ==
  /\ Len(t) = 10 * (b - a)
  /\ \A n \in (a + 1)..b : \A c \in 1..10 :
       t[10 * (n - a - 1) + c] = SlotText(s[n])[c]

\* The n-th slot and the j-th beacon of the batch have the same major.
Same(s, beacons, n, j) == j \in DOMAIN beacons /\ s[n].major = beacons[j].major

\* What the first r slots say of the j-th beacon of the batch.
Says(s, beacons, r, j, v) ==
  \/ \E n \in 1..r : Same(s, beacons, n, j) /\ v = Difference(s[n].rssi, beacons[j].rssi)
  \/ v = 0 /\ \A n \in 1..r : ~Same(s, beacons, n, j)

Written ==
  /\ i <= Len(stored) + 1 /\ Slots(stored, text, 0, i - 1)
  /\ \A j \in 1..Columns : flagLong[j] = 0

ReadUpTo(r) ==
  /\ Slots(stored, text, r, Len(stored))
  /\ \A j \in 1..Columns : Says(stored, batch, r, j, flagLong[j])

\* The r-th slot has been cut and compared with the beacons before the i-th.
MatchUpTo(r) ==
  /\ Slots(stored, text, r, Len(stored))
  /\ i <= Len(batch) + 1
  /\ major = Decimal(stored[r].major) /\ rssiInt = stored[r].rssi
  /\ \A j \in 1..Columns : j < i => Says(stored, batch, r, j, flagLong[j])
  /\ \A j \in 1..Columns : j >= i => Says(stored, batch, r - 1, j, flagLong[j])

\* With majors of five digits the text is always whole slots; one is gone from it
\* when the columns hold what it says.
StringInv ==
  FiveDigits =>
    /\ phase # "raised"
    /\ rssiAbs = Total(flagLong)
    /\ phase = "write" => Written
    /\ phase = "read" => \E r \in 0..Len(stored) : ReadUpTo(r)
    /\ phase = "match" => \E r \in 1..Len(stored) : MatchUpTo(r)
    /\ phase = "done" => ReadUpTo(Len(stored))

\* Texts with the same characters are the same text.
LEMMA SameText ==
  ASSUME NEW s \in Seq(Character), NEW t \in Seq(Character), Len(s) = Len(t),
         \A c \in 1..Len(s) : s[c] = t[c]
  PROVE  s = t
BY SeqEqual

\* A slot of five digits is ten characters.
LEMMA SlotTen ==
  ASSUME NEW slot \in [major : Majors, rssi : Averages], Width(slot.major) = 5
  PROVE  /\ SlotText(slot) \in Seq(Character) /\ Len(SlotText(slot)) = 10
         /\ \A c \in 1..5 : SlotText(slot)[c] = Decimal(slot.major)[c]
         /\ \A c \in 1..3 : SlotText(slot)[6 + c] = Decimal(slot.rssi)[c]
<1>1. /\ SlotText(slot) \in Seq(Character)
      /\ Len(SlotText(slot)) = Width(slot.major) + 5
      /\ \A c \in 1..Width(slot.major) : SlotText(slot)[c] = Decimal(slot.major)[c]
      /\ \A c \in 1..3 : SlotText(slot)[Width(slot.major) + 1 + c] = Decimal(slot.rssi)[c]
  BY SlotTextParts
<1>2. QED BY <1>1

\* The writer adds a slot.
LEMMA SlotAdded ==
  ASSUME NEW s, NEW n \in Nat \ {0}, NEW t \in Seq(Character), NEW u \in Seq(Character),
         u = SlotText(s[n]), Slots(s, t, 0, n - 1)
  PROVE  Len(u) = 10 => Slots(s, t \o u, 0, n)
<1>1. /\ Len(t \o u) = Len(t) + Len(u)
      /\ \A d \in 1..Len(t) : (t \o u)[d] = t[d]
      /\ \A d \in 1..Len(u) : (t \o u)[Len(t) + d] = u[d]
  BY JoinTexts
<1>2. /\ Len(t) = 10 * (n - 1)
      /\ \A m \in 1..(n - 1) : \A c \in 1..10 : t[10 * (m - 1) + c] = SlotText(s[m])[c]
  BY DEF Slots
<1>3. SUFFICES ASSUME Len(u) = 10 PROVE Slots(s, t \o u, 0, n)
  OBVIOUS
<1>4. Len(t \o u) = 10 * n
  BY <1>1, <1>2, <1>3
<1>5. ASSUME NEW m \in (0 + 1)..n, NEW c \in 1..10
      PROVE  (t \o u)[10 * (m - 0 - 1) + c] = SlotText(s[m])[c]
  <2> DEFINE d == 10 * (m - 0 - 1) + c
  <2>1. m \in 1..n /\ d = 10 * (m - 1) + c
    OBVIOUS
  <2>2. CASE m < n
    <3>1. m \in 1..(n - 1) /\ d \in 1..(10 * (n - 1))
      BY <2>2
    <3>2. d \in 1..Len(t)
      BY <1>2, <3>1
    <3>3. t[d] = SlotText(s[m])[c]
      BY <1>2, <2>1, <3>1
    <3> HIDE DEF d
    <3>4. (t \o u)[d] = SlotText(s[m])[c]
      BY <1>1, <3>2, <3>3
    <3>5. QED BY <3>4 DEF d
  <2>3. CASE m = n
    <3>1. d = 10 * (n - 1) + c
      BY <2>3
    <3>2. d = Len(t) + c /\ c \in 1..Len(u)
      BY <1>2, <1>3, <3>1
    <3> HIDE DEF d
    <3>3. (t \o u)[d] = u[c]
      BY <1>1, <3>2
    <3>4. QED BY <2>3, <3>3 DEF d
  <2>4. m < n \/ m = n
    BY <2>1
  <2> HIDE DEF d
  <2>5. (t \o u)[d] = SlotText(s[m])[c]
    BY <2>2, <2>3, <2>4 DEF d
  <2>6. QED BY <2>5 DEF d
<1>6. Len(t \o u) = 10 * (n - 0)
  BY <1>4
<1>7. QED BY <1>5, <1>6 DEF Slots

\* The reader takes a slot off the text, and reads what is written there.
LEMMA SlotCut ==
  ASSUME NEW s \in Seq([major : Majors, rssi : Averages]),
         \A n \in 1..Len(s) : Width(s[n].major) = 5,
         NEW r \in 0..Len(s), NEW t \in Seq(Character), t # <<>>, Slots(s, t, r, Len(s))
  PROVE  /\ r + 1 \in 1..Len(s) /\ Len(t) >= 10
         /\ MajorText(t) = Decimal(s[r + 1].major)
         /\ Number(ReadingText(t)) = s[r + 1].rssi
         /\ Slots(s, SubSeq(t, 11, Len(t)), r + 1, Len(s))
<1> DEFINE rest == SubSeq(t, 11, Len(t))
           slot == s[r + 1]
<1>1. Len(t) \in Nat /\ Len(t) # 0 /\ Len(s) \in Nat
  OBVIOUS
<1>2. /\ Len(t) = 10 * (Len(s) - r)
      /\ \A n \in (r + 1)..Len(s) : \A c \in 1..10 : t[10 * (n - r - 1) + c] = SlotText(s[n])[c]
  BY DEF Slots
<1>3. r + 1 \in 1..Len(s) /\ Len(t) >= 10
  BY <1>1, <1>2
<1>4. slot \in [major : Majors, rssi : Averages] /\ Width(slot.major) = 5
  BY <1>3, ElementOf
<1>5. /\ MajorText(t) \in Seq(Character) /\ Len(MajorText(t)) = 5
      /\ \A c \in 1..5 : MajorText(t)[c] = t[c]
      /\ ReadingText(t) \in Seq(Character) /\ Len(ReadingText(t)) = 3
      /\ \A c \in 1..3 : ReadingText(t)[c] = t[6 + c]
      /\ Len(rest) = Len(t) - 10
      /\ \A c \in 1..(Len(t) - 10) : rest[c] = t[10 + c]
  BY <1>3, CutText
<1> HIDE DEF rest
<1>6. \A c \in 1..10 : t[c] = SlotText(slot)[c]
  <2> TAKE c \in 1..10
  <2>1. 10 * ((r + 1) - r - 1) + c = c /\ r + 1 \in (r + 1)..Len(s)
    BY <1>3
  <2>2. t[10 * ((r + 1) - r - 1) + c] = SlotText(s[r + 1])[c]
    BY <1>2, <2>1
  <2>3. QED BY <2>1, <2>2
<1>7. /\ slot.major \in Majors /\ slot.rssi \in Averages
      /\ \A c \in 1..5 : SlotText(slot)[c] = Decimal(slot.major)[c]
      /\ \A c \in 1..3 : SlotText(slot)[6 + c] = Decimal(slot.rssi)[c]
  BY <1>4, SlotTen
<1> HIDE DEF slot
<1>8. MajorText(t) = Decimal(slot.major)
  <2>1. Decimal(slot.major) \in Seq(Character) /\ Len(Decimal(slot.major)) = 5
    BY <1>4, <1>7, MajorDecimal
  <2>2. \A c \in 1..5 : MajorText(t)[c] = Decimal(slot.major)[c]
    BY <1>5, <1>6, <1>7
  <2>3. QED BY <1>5, <2>1, <2>2, SameText
<1>9. Number(ReadingText(t)) = slot.rssi
  <2>1. /\ Decimal(slot.rssi) \in Seq(Character) /\ Len(Decimal(slot.rssi)) = 3
        /\ Number(Decimal(slot.rssi)) = slot.rssi
    BY <1>7, AverageDecimal
  <2>2. \A c \in 1..3 : ReadingText(t)[c] = Decimal(slot.rssi)[c]
    <3> TAKE c \in 1..3
    <3>1. 6 + c \in 1..10
      OBVIOUS
    <3>2. QED BY <1>5, <1>6, <1>7, <3>1
  <2>3. ReadingText(t) = Decimal(slot.rssi)
    BY <1>5, <2>1, <2>2, SameText
  <2>4. QED BY <2>1, <2>3
<1>10. Slots(s, rest, r + 1, Len(s))
  <2>1. Len(rest) = 10 * (Len(s) - (r + 1))
    BY <1>1, <1>2, <1>5
  <2>2. ASSUME NEW n \in (r + 1 + 1)..Len(s), NEW c \in 1..10
        PROVE  rest[10 * (n - (r + 1) - 1) + c] = SlotText(s[n])[c]
    <3> DEFINE d == 10 * (n - (r + 1) - 1) + c
    <3>1. d \in 1..(Len(t) - 10) /\ 10 + d = 10 * (n - r - 1) + c /\ n \in (r + 1)..Len(s)
      BY <1>1, <1>2
    <3>2. rest[d] = t[10 + d]
      BY <1>5, <3>1
    <3>3. t[10 * (n - r - 1) + c] = SlotText(s[n])[c]
      BY <1>2, <3>1
    <3>4. QED BY <3>1, <3>2, <3>3
  <2>3. QED BY <2>1, <2>2 DEF Slots
<1>11. QED BY <1>3, <1>8, <1>9, <1>10 DEF slot, rest
\* What one more slot says of the beacons with another major: nothing new.
LEMMA SaysMore ==
  ASSUME NEW s, NEW beacons, NEW r \in Nat \ {0}, NEW j, NEW v,
         Says(s, beacons, r - 1, j, v), ~Same(s, beacons, r, j)
  PROVE  Says(s, beacons, r, j, v)
<1>1. \A n \in 1..r : n = r \/ n \in 1..(r - 1)
  OBVIOUS
<1>2. \A n \in 1..(r - 1) : n \in 1..r
  OBVIOUS
<1>3. CASE \E n \in 1..(r - 1) : /\ Same(s, beacons, n, j)
                                 /\ v = Difference(s[n].rssi, beacons[j].rssi)
  BY <1>2, <1>3 DEF Says
<1>4. CASE v = 0 /\ \A n \in 1..(r - 1) : ~Same(s, beacons, n, j)
  BY <1>1, <1>4 DEF Says
<1>5. QED BY <1>3, <1>4 DEF Says

\* When every slot has been read, the columns are what the fingerprint says.
LEMMA SaysExpected ==
  ASSUME TypeOK, NEW j, Says(stored, batch, Len(stored), j, flagLong[j])
  PROVE  flagLong[j] = Expected(j)
<1>1. /\ DOMAIN stored = 1..Len(stored)
      /\ \A m, n \in 1..Len(stored) : stored[m].major = stored[n].major => m = n
  BY SlotsTyped
<1>2. CASE \E n \in 1..Len(stored) :
             Same(stored, batch, n, j) /\ flagLong[j] = Difference(stored[n].rssi, batch[j].rssi)
  <2>1. PICK n \in 1..Len(stored) :
          Same(stored, batch, n, j) /\ flagLong[j] = Difference(stored[n].rssi, batch[j].rssi)
    BY <1>2
  <2>2. j \in DOMAIN batch /\ n \in DOMAIN stored /\ stored[n].major = batch[j].major
    BY <1>1, <2>1 DEF Same
  <2> DEFINE m == CHOOSE m \in DOMAIN stored : stored[m].major = batch[j].major
  <2>3. m \in DOMAIN stored /\ stored[m].major = batch[j].major
    BY <2>2
  <2>4. Expected(j) = Difference(stored[m].rssi, batch[j].rssi)
    BY <2>2 DEF Expected
  <2> HIDE DEF m
  <2>5. m = n
    BY <1>1, <2>2, <2>3
  <2>6. QED BY <2>1, <2>4, <2>5
<1>3. CASE flagLong[j] = 0 /\ \A n \in 1..Len(stored) : ~Same(stored, batch, n, j)
  <2>1. ~(j \in DOMAIN batch /\ \E n \in DOMAIN stored : stored[n].major = batch[j].major)
    BY <1>1, <1>3 DEF Same
  <2>2. QED BY <1>3, <2>1 DEF Expected
<1>4. QED BY <1>2, <1>3 DEF Says

-----------------------------------------------------------------------------
(* The steps *)

LEMMA StringInit ==
  Init => StringInv
<1> SUFFICES ASSUME Init, FiveDigits PROVE StringInv
  BY DEF StringInv
<1>1. phase = "write" /\ i = 1 /\ text = <<>> /\ rssiAbs = 0
  BY DEF Init
<1>2. flagLong \in [1..Columns -> Nat] /\ \A j \in 1..Columns : flagLong[j] = 0
  BY DEF Init
<1>3. Total(flagLong) = 0
  BY <1>2, TotalZero
<1>4. Len(stored) \in Nat
  <2>1. stored \in Beacons(MaxSlots, Averages) /\ MaxSlots \in Nat
    BY StringAssumption DEF Init
  <2>2. QED BY <2>1, BeaconsType
<1>5. Slots(stored, text, 0, 0)
  BY <1>1 DEF Slots
<1>6. Written
  <2>1. i - 1 = 0 /\ i <= Len(stored) + 1
    BY <1>1, <1>4
  <2>2. QED BY <1>2, <1>5, <2>1 DEF Written
<1>7. QED BY <1>1, <1>3, <1>6 DEF StringInv

LEMMA WriteSlotKeeps ==
  ASSUME TypeOK, StringInv, FiveDigits, WriteSlot
  PROVE  StringInv'
<1>1. /\ phase = "write" /\ i <= Len(stored) /\ text' = text \o SlotText(stored[i]) /\ i' = i + 1
      /\ stored' = stored /\ phase' = phase /\ flagLong' = flagLong /\ rssiAbs' = rssiAbs
  BY DEF WriteSlot
<1>2. i \in Nat \ {0} /\ text \in Seq(Character)
  BY DEF TypeOK
<1>3. i \in 1..Len(stored)
  BY <1>1, <1>2
<1>4. Written
  BY <1>1 DEF StringInv
<1>5. stored[i] \in [major : Majors, rssi : Averages] /\ Width(stored[i].major) = 5
  BY <1>3, SlotsTyped DEF FiveDigits
<1>6. SlotText(stored[i]) \in Seq(Character) /\ Len(SlotText(stored[i])) = 10
  BY <1>5, SlotTen
<1>7. Slots(stored, text, 0, i - 1)
  BY <1>4 DEF Written
<1>8. Slots(stored, text', 0, i)
  BY <1>1, <1>2, <1>6, <1>7, SlotAdded
<1>9. i' - 1 = i /\ i' <= Len(stored) + 1
  BY <1>1, <1>2, <1>3
<1>10. \A j \in 1..Columns : flagLong[j] = 0
  BY <1>4 DEF Written
<1>11. Written'
  BY <1>1, <1>8, <1>9, <1>10 DEF Written
<1>12. rssiAbs = Total(flagLong)
  BY DEF StringInv
<1>13. rssiAbs' = Total(flagLong')
  BY <1>1, <1>12
<1>14. QED BY <1>1, <1>11, <1>13 DEF StringInv, Total

LEMMA EndWriteKeeps ==
  ASSUME TypeOK, StringInv, FiveDigits, EndWrite
  PROVE  StringInv'
<1>1. /\ phase = "write" /\ i > Len(stored) /\ phase' = "read"
      /\ UNCHANGED <<stored, batch, i, text, flagLong, rssiAbs>>
  BY DEF EndWrite
<1>2. i \in Nat \ {0} /\ Len(stored) \in Nat
  BY SlotsTyped DEF TypeOK
<1>3. Written /\ rssiAbs = Total(flagLong)
  BY <1>1 DEF StringInv
<1>4. i - 1 = Len(stored)
  BY <1>1, <1>2, <1>3 DEF Written
<1>5. Slots(stored, text, 0, Len(stored))
  BY <1>3, <1>4 DEF Written
<1>6. \A j \in 1..Columns : Says(stored, batch, 0, j, flagLong[j])
  BY <1>3 DEF Written, Says
<1>7. ReadUpTo(0)
  BY <1>5, <1>6 DEF ReadUpTo
<1>8. ReadUpTo(0)'
  BY <1>1, <1>7 DEF ReadUpTo
<1>9. \E r \in 0..Len(stored') : ReadUpTo(r)'
  BY <1>1, <1>2, <1>8
<1>10. rssiAbs' = Total(flagLong')
  BY <1>1, <1>3
<1>11. QED BY <1>1, <1>9, <1>10 DEF StringInv, Total

LEMMA CutSlotKeeps ==
  ASSUME TypeOK, StringInv, FiveDigits, CutSlot
  PROVE  StringInv'
<1>1. phase = "read" /\ text # <<>> /\ UNCHANGED <<stored, batch, flagLong, rssiAbs>>
  BY DEF CutSlot
<1>2. PICK r \in 0..Len(stored) : ReadUpTo(r)
  BY <1>1 DEF StringInv
<1>3. text \in Seq(Character) /\ stored \in Seq([major : Majors, rssi : Averages])
  BY SlotsTyped DEF TypeOK
<1>4. \A n \in 1..Len(stored) : Width(stored[n].major) = 5
  BY SlotsTyped DEF FiveDigits
<1>5. /\ r + 1 \in 1..Len(stored) /\ Len(text) >= 10
      /\ MajorText(text) = Decimal(stored[r + 1].major)
      /\ Number(ReadingText(text)) = stored[r + 1].rssi
      /\ Slots(stored, SubSeq(text, 11, Len(text)), r + 1, Len(stored))
  BY <1>1, <1>2, <1>3, <1>4, SlotCut DEF ReadUpTo
<1>6. ~(Len(text) < 10)
  BY <1>3, <1>5
<1>7. /\ major' = MajorText(text) /\ rssiInt' = Number(ReadingText(text))
      /\ text' = SubSeq(text, 11, Len(text)) /\ phase' = "match" /\ i' = 1
  BY <1>6 DEF CutSlot
<1>8. Len(batch) \in Nat
  BY SlotsTyped, StringAssumption
<1>9. MatchUpTo(r + 1)'
  <2>1. i' <= Len(batch') + 1
    BY <1>1, <1>7, <1>8
  <2>2. \A j \in 1..Columns : ~(j < i')
    BY <1>7
  <2>3. (r + 1) - 1 = r
    OBVIOUS
  <2>4. \A j \in 1..Columns : Says(stored', batch', (r + 1) - 1, j, flagLong'[j])
    BY <1>1, <1>2, <2>3 DEF ReadUpTo
  <2>5. Slots(stored', text', r + 1, Len(stored'))
    BY <1>1, <1>5, <1>7
  <2>6. major' = Decimal(stored'[r + 1].major) /\ rssiInt' = stored'[r + 1].rssi
    BY <1>1, <1>5, <1>7
  <2>7. QED BY <2>1, <2>2, <2>4, <2>5, <2>6 DEF MatchUpTo
<1>10. \E q \in 1..Len(stored') : MatchUpTo(q)'
  BY <1>1, <1>5, <1>9
<1>11. rssiAbs' = Total(flagLong')
  BY <1>1 DEF StringInv
<1>12. QED BY <1>7, <1>10, <1>11 DEF StringInv, Total

LEMMA EndMatchKeeps ==
  ASSUME TypeOK, StringInv, FiveDigits, EndMatch
  PROVE  StringInv'
<1>1. /\ phase = "match" /\ i > Len(batch) /\ phase' = "read"
      /\ UNCHANGED <<stored, batch, text, flagLong, rssiAbs>>
  BY DEF EndMatch
<1>2. PICK r \in 1..Len(stored) : MatchUpTo(r)
  BY <1>1 DEF StringInv
<1>3. /\ i \in Nat \ {0} /\ Len(batch) \in Nat /\ DOMAIN batch = 1..Len(batch) /\ Len(stored) \in Nat
  BY SlotsTyped, StringAssumption DEF TypeOK
<1>4. \A j \in 1..Columns : Says(stored, batch, r, j, flagLong[j])
  <2> TAKE j \in 1..Columns
  <2>1. CASE j < i
    BY <1>2, <2>1 DEF MatchUpTo
  <2>2. CASE j >= i
    <3>1. ~Same(stored, batch, r, j)
      BY <1>1, <1>3, <2>2 DEF Same
    <3>2. Says(stored, batch, r - 1, j, flagLong[j])
      BY <1>2, <2>2 DEF MatchUpTo
    <3>3. r \in Nat \ {0}
      BY <1>3
    <3>4. QED BY <3>1, <3>2, <3>3, SaysMore
  <2>3. QED BY <1>3, <2>1, <2>2
<1>5. ReadUpTo(r)
  BY <1>2, <1>4 DEF MatchUpTo, ReadUpTo
<1>6. ReadUpTo(r)'
  BY <1>1, <1>5 DEF ReadUpTo
<1>7. \E q \in 0..Len(stored') : ReadUpTo(q)'
  BY <1>1, <1>3, <1>6
<1>8. rssiAbs' = Total(flagLong')
  BY <1>1 DEF StringInv
<1>9. QED BY <1>1, <1>7, <1>8 DEF StringInv, Total

LEMMA EndReadKeeps ==
  ASSUME TypeOK, StringInv, FiveDigits, EndRead
  PROVE  StringInv'
<1>1. /\ phase = "read" /\ text = <<>> /\ phase' = "done"
      /\ UNCHANGED <<stored, batch, text, flagLong, rssiAbs>>
  BY DEF EndRead
<1>2. PICK r \in 0..Len(stored) : ReadUpTo(r)
  BY <1>1 DEF StringInv
<1>3. Len(stored) \in Nat /\ Len(text) = 0
  BY <1>1, SlotsTyped
<1>4. Len(text) = 10 * (Len(stored) - r)
  BY <1>2 DEF ReadUpTo, Slots
<1>5. r = Len(stored)
  BY <1>3, <1>4
<1>6. ReadUpTo(Len(stored))'
  BY <1>1, <1>2, <1>5 DEF ReadUpTo
<1>7. rssiAbs' = Total(flagLong')
  BY <1>1 DEF StringInv
<1>8. QED BY <1>1, <1>6, <1>7 DEF StringInv, Total

LEMMA MatchBeaconKeeps ==
  ASSUME TypeOK, StringInv, FiveDigits, MatchBeacon
  PROVE  StringInv'
<1>1. /\ phase = "match" /\ i <= Len(batch) /\ i' = i + 1
      /\ UNCHANGED <<stored, batch, phase, text, major, rssiInt>>
  BY DEF MatchBeacon
<1>2. PICK r \in 1..Len(stored) : MatchUpTo(r)
  BY <1>1 DEF StringInv
<1>3. /\ i \in Nat \ {0} /\ Len(batch) \in 0..Columns /\ DOMAIN batch = 1..Len(batch)
      /\ Len(stored) \in Nat /\ Columns \in Nat
      /\ flagLong \in [1..Columns -> Nat] /\ rssiAbs \in Nat /\ rssiInt \in Int
  BY SlotsTyped, StringAssumption DEF TypeOK
<1>4. i \in DOMAIN batch /\ i \in 1..Columns /\ r \in Nat \ {0} /\ i \in 1..Len(batch)
  BY <1>1, <1>3
<1>5. /\ stored[r].major \in Majors /\ Width(stored[r].major) = 5
      /\ batch[i].major \in Majors /\ batch[i].rssi \in Ranged
      /\ \A n \in 1..Len(stored) : stored[n].major = stored[r].major => n = r
  BY <1>2, <1>4, SlotsTyped DEF FiveDigits
<1>6. major = Decimal(stored[r].major) /\ rssiInt = stored[r].rssi
  BY <1>2 DEF MatchUpTo
<1>7. Decimal(batch[i].major) = major <=> Same(stored, batch, r, i)
  <2>1. Decimal(batch[i].major) = major => stored[r].major = batch[i].major
    BY <1>5, <1>6, DecimalInjective
  <2>2. QED BY <1>4, <1>6, <2>1 DEF Same
<1>8. /\ \A j \in 1..Columns : j < i => Says(stored, batch, r, j, flagLong[j])
      /\ \A j \in 1..Columns : j >= i => Says(stored, batch, r - 1, j, flagLong[j])
  BY <1>2 DEF MatchUpTo
<1>9. rssiAbs = Total(flagLong)
  BY DEF StringInv
<1>10. /\ Says(stored, batch, r, i, flagLong'[i])
       /\ \A j \in 1..Columns : j # i => flagLong'[j] = flagLong[j]
       /\ rssiAbs' = Total(flagLong')
  <2>1. CASE Same(stored, batch, r, i)
    <3> DEFINE d == Difference(rssiInt, batch[i].rssi)
    <3>1. flagLong' = [flagLong EXCEPT ![i] = d] /\ rssiAbs' = rssiAbs + d
      BY <1>7, <2>1 DEF MatchBeacon
    <3>2. d \in Nat
      BY <1>3, <1>5, DifferenceType
    <3>3. d = Difference(stored[r].rssi, batch[i].rssi)
      BY <1>6
    <3> HIDE DEF d
    <3>4. flagLong[i] = 0
      <4>1. Says(stored, batch, r - 1, i, flagLong[i])
        BY <1>3, <1>4, <1>8
      <4>2. ASSUME NEW n \in 1..(r - 1), Same(stored, batch, n, i) PROVE FALSE
        <5>1. n \in 1..Len(stored) /\ n # r
          BY <1>3
        <5>2. stored[n].major = stored[r].major
          BY <2>1, <4>2 DEF Same
        <5>3. QED BY <1>5, <5>1, <5>2
      <4>3. QED BY <4>1, <4>2 DEF Says
    <3>5. Total(flagLong') = Total(flagLong) + d
      BY <1>3, <1>4, <3>1, <3>2, <3>4, TotalUpdate
    <3>6. flagLong'[i] = d /\ \A j \in 1..Columns : j # i => flagLong'[j] = flagLong[j]
      BY <1>3, <1>4, <3>1
    <3>7. Says(stored, batch, r, i, flagLong'[i])
      <4>1. r \in 1..r
        BY <1>4
      <4>2. QED BY <2>1, <3>3, <3>6, <4>1 DEF Says
    <3>8. QED BY <1>9, <3>1, <3>5, <3>6, <3>7
  <2>2. CASE ~Same(stored, batch, r, i)
    <3>1. flagLong' = flagLong /\ rssiAbs' = rssiAbs
      BY <1>7, <2>2 DEF MatchBeacon
    <3>2. Says(stored, batch, r - 1, i, flagLong[i])
      BY <1>3, <1>4, <1>8
    <3>3. Says(stored, batch, r, i, flagLong[i])
      BY <1>4, <2>2, <3>2, SaysMore
    <3>4. QED BY <1>9, <3>1, <3>3
  <2>3. QED BY <2>1, <2>2
<1>11. MatchUpTo(r)'
  <2>1. Slots(stored', text', r, Len(stored')) /\ i' <= Len(batch') + 1
    BY <1>1, <1>2, <1>3 DEF MatchUpTo
  <2>2. major' = Decimal(stored'[r].major) /\ rssiInt' = stored'[r].rssi
    BY <1>1, <1>6
  <2>3. ASSUME NEW j \in 1..Columns, j < i' PROVE Says(stored', batch', r, j, flagLong'[j])
    <3>1. j = i \/ j < i
      BY <1>1, <1>3, <2>3
    <3>2. CASE j = i
      BY <1>1, <1>10, <3>2
    <3>3. CASE j < i
      <4>1. j # i
        BY <1>3, <3>3
      <4>2. QED BY <1>1, <1>8, <1>10, <3>3, <4>1
    <3>4. QED BY <3>1, <3>2, <3>3
  <2>4. ASSUME NEW j \in 1..Columns, j >= i' PROVE Says(stored', batch', r - 1, j, flagLong'[j])
    <3>1. j >= i /\ j # i
      BY <1>1, <1>3, <2>4
    <3>2. QED BY <1>1, <1>8, <1>10, <3>1
  <2>5. QED BY <2>1, <2>2, <2>3, <2>4 DEF MatchUpTo
<1>12. \E q \in 1..Len(stored') : MatchUpTo(q)'
  BY <1>1, <1>11
<1>13. rssiAbs' = Total(flagLong)'
  BY <1>10 DEF Total
<1>14. QED BY <1>1, <1>12, <1>13 DEF StringInv

LEMMA StringInvHolds == Spec => []StringInv
<1>1. TypeOK /\ StringInv /\ [Next]_vars => StringInv'
  <2> SUFFICES ASSUME TypeOK, StringInv, [Next]_vars, FiveDigits' PROVE StringInv'
    BY DEF StringInv
  <2>1. stored' = stored
    BY DEF Next, vars, WriteSlot, EndWrite, CutSlot, MatchBeacon, EndMatch, EndRead
  <2>2. FiveDigits
    BY <2>1 DEF FiveDigits
  <2>3. CASE UNCHANGED vars
    BY <2>2, <2>3
       DEF vars, StringInv, Written, ReadUpTo, MatchUpTo, Total
  <2>4. QED BY <2>2, <2>3, WriteSlotKeeps, EndWriteKeeps, CutSlotKeeps, MatchBeaconKeeps,
               EndMatchKeeps, EndReadKeeps DEF Next
<1>2. QED BY <1>1, StringInit, TypeCorrect, PTL DEF Spec

\* A fingerprint whose majors have five digits is read back as it was written: no
\* exception, and every column is the difference that the slot of that beacon says.
THEOREM ReadBack == Spec => []RoundTrip
<1>1. TypeOK /\ StringInv => RoundTrip
  <2> SUFFICES ASSUME TypeOK, StringInv, FiveDigits PROVE RoundTrip
    BY DEF RoundTrip
  <2>1. phase # "raised" /\ rssiAbs = Total(flagLong)
    BY DEF StringInv
  <2>2. DOMAIN flagLong = 1..Columns
    BY DEF TypeOK
  <2>3. ASSUME phase = "done", NEW j \in DOMAIN flagLong PROVE flagLong[j] = Expected(j)
    <3>1. Says(stored, batch, Len(stored), j, flagLong[j])
      BY <2>2, <2>3 DEF StringInv, ReadUpTo
    <3>2. QED BY <3>1, SaysExpected
  <2>4. QED BY <2>1, <2>3 DEF RoundTrip
<1>2. QED BY <1>1, StringInvHolds, TypeCorrect, PTL

===============================================================================
