--------------------------- MODULE ConsoleProofs ----------------------------
(***************************************************************************)
(* Proofs about Console: the serial log is readable whatever interrupts    *)
(* kmain, the screen shows the last letters announced, and the timer gets  *)
(* the divisor it is to have, for every frequency it can be asked for.     *)
(***************************************************************************)
EXTENDS Console, SequenceTheorems, WellFoundedInduction, TLAPS

-----------------------------------------------------------------------------
(* Numerals. *)

\* Every set of numbers has a least one.
LEMMA LeastNumber ==
    ASSUME NEW T, T \subseteq Nat, T # {}
    PROVE  \E m \in T : \A k \in T : m <= k
<1> DEFINE R == OpToRel(<, Nat)
<1>1. \A x, y \in Nat : <<y, x>> \in R <=> y < x
  BY DEF OpToRel
<1>2. IsWellFoundedOn(R, Nat)
  BY NatLessThanWellFounded
<1> HIDE DEF R
<1>3. PICK x \in T : \A y \in T : ~ (<<y, x>> \in R)
  BY <1>2, WFMin
<1>4. \A y \in T : y \in Nat /\ x \in Nat
  OBVIOUS
<1>5. \A y \in T : ~ (y < x)
  BY <1>1, <1>3, <1>4
<1> QED BY <1>4, <1>5

\* Induction, for a set of numbers.
LEMMA Induction ==
    ASSUME NEW T, 0 \in T, \A n \in Nat : n \in T => n + 1 \in T
    PROVE  \A n \in Nat : n \in T
<1> DEFINE U == {n \in Nat : n \notin T}
<1> SUFFICES ASSUME U # {} PROVE FALSE
  OBVIOUS
<1>1. PICK m \in U : \A k \in U : m <= k
  BY LeastNumber
<1>2. m \in Nat /\ m # 0 /\ m \notin T
  OBVIOUS
<1>3. m - 1 \in Nat /\ m - 1 \notin U /\ (m - 1) + 1 = m
  BY <1>1, <1>2
<1> QED BY <1>2, <1>3

\* The equation that defines the powers of a base, up to a length and for all.
PowersTo(p, base, n) ==
    /\ p[0] = 1
    /\ \A i \in Nat : i < n => p[i + 1] = base * p[i]

IsPower(p, base) == p = [n \in Nat |-> IF n = 0 THEN 1 ELSE base * p[n - 1]]

LEMMA PowersExist ==
    ASSUME NEW base \in Nat, NEW n \in Nat
    PROVE  \E p \in [Nat -> Nat] : PowersTo(p, base, n)
<1> DEFINE T == {m \in Nat : \E p \in [Nat -> Nat] : PowersTo(p, base, m)}
<1>1. 0 \in T
  <2>1. [i \in Nat |-> 1] \in [Nat -> Nat] /\ PowersTo([i \in Nat |-> 1], base, 0)
    BY DEF PowersTo
  <2> QED BY <2>1
<1>2. ASSUME NEW m \in Nat, m \in T PROVE m + 1 \in T
  <2>1. PICK p \in [Nat -> Nat] : PowersTo(p, base, m)
    BY <1>2
  <2> DEFINE q == [p EXCEPT ![m + 1] = base * p[m]]
  <2>2. q \in [Nat -> Nat]
    <3>1. base * p[m] \in Nat
      OBVIOUS
    <3> QED BY <3>1
  <2>3. q[m + 1] = base * p[m] /\ \A i \in Nat : i # m + 1 => q[i] = p[i]
    OBVIOUS
  <2> HIDE DEF q
  <2>4. ASSUME NEW i \in Nat, i < m + 1 PROVE q[i + 1] = base * q[i]
    <3>1. q[i] = p[i]
      BY <2>3, <2>4
    <3>2. CASE i = m
      BY <2>3, <3>1, <3>2
    <3>3. CASE i # m
      <4>1. i < m /\ i + 1 \in Nat /\ i + 1 # m + 1
        BY <2>4, <3>3
      <4>2. q[i + 1] = p[i + 1]
        BY <2>3, <4>1
      <4>3. p[i + 1] = base * p[i]
        BY <2>1, <4>1 DEF PowersTo
      <4> QED BY <3>1, <4>2, <4>3
    <3> QED BY <3>2, <3>3
  <2>5. q[0] = 1
    BY <2>1, <2>3 DEF PowersTo
  <2>6. PowersTo(q, base, m + 1)
    BY <2>4, <2>5 DEF PowersTo
  <2> QED BY <2>2, <2>6
<1>3. \A k \in Nat : k \in T
  <2> HIDE DEF T
  <2> QED BY <1>1, <1>2, Induction
<1> QED BY <1>3

LEMMA PowersAgree ==
    ASSUME NEW base, NEW n \in Nat, NEW m \in Nat, NEW p, NEW q,
           PowersTo(p, base, n), PowersTo(q, base, m), n <= m
    PROVE  p[n] = q[n]
<1> DEFINE T == {i \in Nat : i <= n => p[i] = q[i]}
<1>1. 0 \in T
  BY DEF PowersTo
<1>2. ASSUME NEW i \in Nat, i \in T PROVE i + 1 \in T
  <2> SUFFICES ASSUME i + 1 <= n PROVE p[i + 1] = q[i + 1]
    OBVIOUS
  <2>1. i < n /\ i < m /\ i <= n
    OBVIOUS
  <2>2. p[i] = q[i]
    BY <1>2, <2>1
  <2>3. p[i + 1] = base * p[i] /\ q[i + 1] = base * q[i]
    BY <2>1 DEF PowersTo
  <2> QED BY <2>2, <2>3
<1>3. \A k \in Nat : k \in T
  <2> HIDE DEF T
  <2> QED BY <1>1, <1>2, Induction
<1> QED BY <1>3

\* The recursive definition has a solution, and so Power is one.
LEMMA PowerIs ==
    ASSUME NEW base \in Nat
    PROVE  IsPower(Power(base), base) /\ Power(base) \in [Nat -> Nat]
<1> DEFINE sol(n) == CHOOSE p \in [Nat -> Nat] : PowersTo(p, base, n)
           f == [n \in Nat |-> sol(n)[n]]
<1>1. ASSUME NEW n \in Nat PROVE sol(n) \in [Nat -> Nat] /\ PowersTo(sol(n), base, n)
  BY PowersExist
<1> HIDE DEF sol
<1>2. f \in [Nat -> Nat]
  BY <1>1
<1>3. f[0] = 1
  BY <1>1 DEF PowersTo
<1>4. ASSUME NEW n \in Nat PROVE f[n + 1] = base * f[n]
  <2>1. n + 1 \in Nat /\ n < n + 1 /\ n <= n + 1
    OBVIOUS
  <2>2. sol(n)[n] = sol(n + 1)[n]
    BY <1>1, <2>1, PowersAgree
  <2>3. sol(n + 1)[n + 1] = base * sol(n + 1)[n]
    BY <1>1, <2>1 DEF PowersTo
  <2> QED BY <2>1, <2>2, <2>3
<1> HIDE DEF f
<1>5. ASSUME NEW n \in Nat PROVE f[n] = IF n = 0 THEN 1 ELSE base * f[n - 1]
  <2>1. CASE n = 0
    BY <1>3, <2>1
  <2>2. CASE n # 0
    <3>1. n - 1 \in Nat /\ (n - 1) + 1 = n
      BY <2>2
    <3> QED BY <1>4, <2>2, <3>1
  <2> QED BY <2>1, <2>2
<1>6. IsPower(f, base)
  BY <1>2, <1>5 DEF IsPower
<1> DEFINE g == CHOOSE p : IsPower(p, base)
<1>7. IsPower(g, base)
  BY <1>6, Zenon
<1>8. Power(base) = g
  BY Zenon DEF Power, IsPower
<1> HIDE DEF g
<1>9. g[0] = 1 /\ \A n \in Nat : g[n + 1] = base * g[n]
  <2>1. g[0] = 1
    BY <1>7 DEF IsPower
  <2>2. ASSUME NEW n \in Nat PROVE g[n + 1] = base * g[n]
    <3>1. n + 1 \in Nat /\ n + 1 # 0 /\ (n + 1) - 1 = n
      OBVIOUS
    <3> QED BY <1>7, <3>1 DEF IsPower
  <2> QED BY <2>1, <2>2
<1>10. ASSUME NEW n \in Nat PROVE g[n] \in Nat
  <2>1. PowersTo(g, base, n) /\ PowersTo(f, base, n)
    BY <1>3, <1>4, <1>9 DEF PowersTo
  <2>2. g[n] = f[n]
    BY <2>1, PowersAgree
  <2> QED BY <1>2, <2>2
<1>11. g = [n \in Nat |-> g[n]]
  BY <1>7, Zenon DEF IsPower
<1>12. g \in [Nat -> Nat]
  BY <1>10, <1>11
<1> QED BY <1>7, <1>8, <1>12

LEMMA PowerFacts ==
    ASSUME NEW base \in Nat
    PROVE  /\ Power(base)[0] = 1
           /\ \A n \in Nat : Power(base)[n] \in Nat /\ Power(base)[n + 1] = base * Power(base)[n]
<1>1. IsPower(Power(base), base) /\ Power(base) \in [Nat -> Nat]
  BY PowerIs
<1>2. Power(base)[0] = 1
  BY <1>1 DEF IsPower
<1>3. ASSUME NEW n \in Nat PROVE Power(base)[n + 1] = base * Power(base)[n]
  <2>1. n + 1 \in Nat /\ n + 1 # 0 /\ (n + 1) - 1 = n
    OBVIOUS
  <2> QED BY <1>1, <2>1 DEF IsPower
<1> QED BY <1>1, <1>2, <1>3

\* Powers grow with the exponent.
LEMMA PowerGrows ==
    ASSUME NEW base \in Nat, base >= 2
    PROVE  \A n \in Nat :
               Power(base)[n] > n /\ \A m \in Nat : m <= n => Power(base)[m] <= Power(base)[n]
<1> DEFINE P == Power(base)
           T == {n \in Nat : P[n] > n /\ \A m \in Nat : m <= n => P[m] <= P[n]}
<1>1. P[0] = 1 /\ \A n \in Nat : P[n] \in Nat /\ P[n + 1] = base * P[n]
  BY PowerFacts
<1> HIDE DEF P
<1>2. 0 \in T
  <2>1. ASSUME NEW m \in Nat, m <= 0 PROVE m = 0
    BY <2>1
  <2> QED BY <1>1, <2>1
<1>3. ASSUME NEW n \in Nat, n \in T PROVE n + 1 \in T
  <2>1. PICK q : q = P[n]
    OBVIOUS
  <2>2. q \in Nat /\ q > n /\ P[n + 1] = base * q /\ P[n + 1] \in Nat
    BY <1>1, <1>3, <2>1
  <2>3. base * q >= 2 * q
    BY <2>2
  <2>4. base * q > n + 1 /\ base * q >= q
    BY <2>2, <2>3
  <2>5. ASSUME NEW m \in Nat, m <= n + 1 PROVE P[m] <= P[n + 1]
    <3>1. CASE m = n + 1
      BY <2>2, <3>1
    <3>2. CASE m # n + 1
      <4>1. m <= n
        BY <2>5, <3>2
      <4>2. P[m] <= q /\ P[m] \in Nat
        BY <1>1, <1>3, <2>1, <4>1
      <4> QED BY <2>2, <2>4, <4>2
    <3> QED BY <3>1, <3>2
  <2> QED BY <2>2, <2>4, <2>5
<1>4. \A n \in Nat : n \in T
  <2> HIDE DEF T
  <2> QED BY <1>2, <1>3, Induction
<1> QED BY <1>4 DEF P

\* n digits are as many as v has.
IsLength(n, v, base) == v < Power(base)[n] /\ (n = 0 \/ v >= Power(base)[n - 1])

LEMMA LengthIs ==
    ASSUME NEW base \in Nat, base >= 2, NEW v \in Nat
    PROVE  Length(v, base) \in Nat /\ IsLength(Length(v, base), v, base)
<1> DEFINE T == {n \in Nat : v < Power(base)[n]}
<1>1. v \in T
  BY PowerGrows
<1>2. PICK m \in T : \A k \in T : m <= k
  BY <1>1, LeastNumber
<1>3. m \in 0 .. v
  BY <1>1, <1>2
<1>4. IsLength(m, v, base)
  <2>1. CASE m = 0
    BY <2>1 DEF IsLength
  <2>2. CASE m # 0
    <3>1. m - 1 \in Nat /\ m - 1 \notin T
      BY <1>2, <1>3, <2>2
    <3>2. Power(base)[m - 1] \in Nat
      BY <3>1, PowerFacts
    <3>3. v >= Power(base)[m - 1]
      BY <3>1, <3>2
    <3> QED BY <1>2, <3>3 DEF IsLength
  <2> QED BY <2>1, <2>2
<1>5. Length(v, base) = CHOOSE n \in 0 .. v : IsLength(n, v, base)
  BY Zenon DEF Length, IsLength
<1>6. Length(v, base) \in 0 .. v /\ IsLength(Length(v, base), v, base)
  BY <1>3, <1>4, <1>5, Zenon
<1> QED BY <1>6

LEMMA LengthUnique ==
    ASSUME NEW base \in Nat, base >= 2, NEW v \in Nat, NEW n \in Nat, NEW m \in Nat,
           IsLength(n, v, base), IsLength(m, v, base)
    PROVE  n = m
<1>1. ASSUME NEW a \in Nat, NEW b \in Nat, IsLength(a, v, base), IsLength(b, v, base), a < b
      PROVE  FALSE
  <2>1. b - 1 \in Nat /\ a <= b - 1 /\ b # 0
    BY <1>1
  <2>2. Power(base)[a] <= Power(base)[b - 1] /\ Power(base)[a] \in Nat /\ Power(base)[b - 1] \in Nat
    BY <2>1, PowerGrows, PowerFacts
  <2>3. v < Power(base)[a] /\ v >= Power(base)[b - 1]
    BY <1>1, <2>1 DEF IsLength
  <2> QED BY <2>2, <2>3
<1> QED BY <1>1

\* A number below 2^n has at most n digits.
LEMMA LengthBound ==
    ASSUME NEW base \in Nat, base >= 2, NEW v \in Nat, NEW n \in Nat, v < Power(2)[n]
    PROVE  Length(v, base) <= n
<1> DEFINE T == {m \in Nat : Power(2)[m] <= Power(base)[m]}
<1>1. 0 \in T
  BY PowerFacts
<1>2. ASSUME NEW m \in Nat, m \in T PROVE m + 1 \in T
  <2>1. PICK p, q : p = Power(2)[m] /\ q = Power(base)[m]
    OBVIOUS
  <2>2. p \in Nat /\ q \in Nat /\ p <= q
    BY <1>2, <2>1, PowerFacts
  <2>3. Power(2)[m + 1] = 2 * p /\ Power(base)[m + 1] = base * q
    BY <2>1, PowerFacts
  <2>4. base * q >= 2 * q
    BY <2>2
  <2> QED BY <2>2, <2>3, <2>4
<1>3. \A m \in Nat : m \in T
  <2> HIDE DEF T
  <2> QED BY <1>1, <1>2, Induction
<1>4. v < Power(base)[n]
  <2>1. Power(2)[n] <= Power(base)[n] /\ Power(2)[n] \in Nat /\ Power(base)[n] \in Nat
    BY <1>3, PowerFacts
  <2> QED BY <2>1
<1>5. PICK l : l = Length(v, base)
  OBVIOUS
<1>6. l \in Nat /\ IsLength(l, v, base)
  BY <1>5, LengthIs
<1>7. CASE l <= n
  BY <1>5, <1>7
<1>8. CASE ~(l <= n)
  <2>1. l - 1 \in Nat /\ n <= l - 1 /\ l # 0
    BY <1>6, <1>8
  <2>2. Power(base)[n] <= Power(base)[l - 1] /\ Power(base)[l - 1] \in Nat /\ Power(base)[n] \in Nat
    BY <2>1, PowerGrows, PowerFacts
  <2>3. v >= Power(base)[l - 1]
    BY <1>6, <2>1 DEF IsLength
  <2> QED BY <1>4, <2>2, <2>3
<1> QED BY <1>7, <1>8

LEMMA Quotient ==
    ASSUME NEW a \in Nat, NEW b \in Nat \ {0}
    PROVE  /\ a \div b \in Nat /\ a % b \in 0 .. (b - 1)
           /\ a = b * (a \div b) + (a % b)
BY Z3

LEMMA QuotientUnique ==
    ASSUME NEW a \in Nat, NEW b \in Nat \ {0}, NEW q \in Nat, NEW r \in 0 .. (b - 1),
           a = b * q + r
    PROVE  a \div b = q /\ a % b = r
<1>1. PICK p, s : p = a \div b /\ s = a % b
  OBVIOUS
<1>2. p \in Nat /\ s \in 0 .. (b - 1) /\ a = b * p + s
  BY <1>1, Quotient
<1>3. b * (p - q) = r - s /\ b * (q - p) = s - r
  BY <1>2
<1>4. ~ (p - q >= 1)
  <2> SUFFICES ASSUME p - q >= 1 PROVE FALSE
    OBVIOUS
  <2>1. b * (p - q) >= b * 1
    BY <1>2
  <2> QED BY <1>2, <1>3, <2>1
<1>5. ~ (q - p >= 1)
  <2> SUFFICES ASSUME q - p >= 1 PROVE FALSE
    OBVIOUS
  <2>1. b * (q - p) >= b * 1
    BY <1>2
  <2> QED BY <1>2, <1>3, <2>1
<1>6. p = q
  BY <1>2, <1>4, <1>5
<1> QED BY <1>1, <1>2, <1>6

\* Dividing by a base and by a power of it is dividing by the next power.
LEMMA QuotientTwice ==
    ASSUME NEW v \in Nat, NEW b \in Nat \ {0}, NEW c \in Nat \ {0}
    PROVE  v \div (b * c) = (v \div b) \div c
<1>1. PICK q, r : q = v \div b /\ r = v % b
  OBVIOUS
<1>2. q \in Nat /\ r \in 0 .. (b - 1) /\ v = b * q + r
  BY <1>1, Quotient
<1>3. PICK p, s : p = q \div c /\ s = q % c
  OBVIOUS
<1>4. p \in Nat /\ s \in 0 .. (c - 1) /\ q = c * p + s
  BY <1>2, <1>3, Quotient
<1>5. PICK d : d = b * c
  OBVIOUS
<1>6. d \in Nat \ {0}
  BY <1>5
<1>7. b * s + r \in 0 .. (d - 1)
  <2>1. b * s <= b * (c - 1)
    BY <1>4
  <2>2. b * (c - 1) = d - b
    BY <1>5
  <2>3. b * s \in Nat
    BY <1>4
  <2> QED BY <1>2, <1>6, <2>1, <2>2, <2>3
<1>8. v = d * p + (b * s + r)
  <2>1. b * (c * p + s) = b * (c * p) + b * s
    BY <1>4
  <2>2. b * (c * p) = d * p
    BY <1>4, <1>5
  <2>3. v = b * (c * p + s) + r
    BY <1>2, <1>4
  <2>4. /\ b * (c * p) \in Nat /\ b * s \in Nat /\ d * p \in Nat
    BY <1>4, <1>6
  <2> QED BY <1>2, <2>1, <2>2, <2>3, <2>4
<1>9. v \div d = p
  BY <1>4, <1>6, <1>7, <1>8, QuotientUnique
<1> QED BY <1>1, <1>3, <1>5, <1>9
-----------------------------------------------------------------------------
(* Characters. *)

Chars == {Letter, LineEnd} \cup ({"digit"} \X Nat)

LEMMA DigitChar == ASSUME NEW d \in Nat PROVE Digit(d) \in Chars
BY DEF Chars, Digit

\* The digit of v that counts the k-th power of the base.
DigitAt(v, base, k) == Digit((v \div Power(base)[k]) % base)

LEMMA NumeralIs ==
    ASSUME NEW base \in Nat, base >= 2, NEW v \in Nat
    PROVE  /\ Length(v, base) \in Nat
           /\ Numeral(v, base) \in Seq(Chars) /\ Len(Numeral(v, base)) = Length(v, base)
           /\ \A i \in 1 .. Length(v, base) :
                Numeral(v, base)[i] = DigitAt(v, base, Length(v, base) - i)
<1>1. PICK n : n = Length(v, base)
  OBVIOUS
<1>2. n \in Nat
  BY <1>1, LengthIs
<1> DEFINE d(i) == (v \div Power(base)[n - i]) % base
<1>3. Numeral(v, base) = [i \in 1 .. n |-> Digit(d(i))]
  BY <1>1 DEF Numeral
<1>4. ASSUME NEW i \in 1 .. n PROVE d(i) \in Nat
  <2>1. n - i \in Nat
    BY <1>2
  <2>2. PICK p : p = Power(base)[n - i]
    OBVIOUS
  <2>3. p \in Nat \ {0}
    BY <2>1, <2>2, PowerFacts, PowerGrows
  <2>4. PICK q : q = v \div p
    OBVIOUS
  <2>5. q \in Nat
    BY <2>3, <2>4, Quotient
  <2>6. q % base \in Nat
    BY <2>5, Quotient
  <2> QED BY <2>2, <2>4, <2>6
<1>5. \A i \in 1 .. n : Digit(d(i)) \in Chars
  BY <1>4, DigitChar
<1> HIDE DEF d
<1>6. Numeral(v, base) \in Seq(Chars) /\ Len(Numeral(v, base)) = n
  BY <1>2, <1>3, <1>5
<1>7. \A i \in 1 .. n : Numeral(v, base)[i] = Digit(d(i))
  BY <1>3
<1>8. \A i \in 1 .. n : Numeral(v, base)[i] = DigitAt(v, base, n - i)
  BY <1>7 DEF d, DigitAt
<1> QED BY <1>1, <1>2, <1>6, <1>8

LEMMA NumeralZero ==
    ASSUME NEW base \in Nat, base >= 2
    PROVE  Length(0, base) = 0 /\ Numeral(0, base) = <<>>
<1>1. IsLength(0, 0, base)
  BY PowerFacts DEF IsLength
<1>2. Length(0, base) = 0
  BY <1>1, LengthIs, LengthUnique
<1>3. Numeral(0, base) \in Seq(Chars) /\ Len(Numeral(0, base)) = 0
  BY <1>2, NumeralIs
<1> QED BY <1>2, <1>3

\* The last digit is the remainder, those before it are the quotient's.
LEMMA NumeralStep ==
    ASSUME NEW base \in Nat, base >= 2, NEW v \in Nat, v > 0
    PROVE  /\ v \div base \in Nat /\ v % base \in 0 .. (base - 1)
           /\ Length(v, base) = Length(v \div base, base) + 1
           /\ Numeral(v, base) = Append(Numeral(v \div base, base), Digit(v % base))
<1>1. PICK u, r : u = v \div base /\ r = v % base
  OBVIOUS
<1>2. u \in Nat /\ r \in 0 .. (base - 1) /\ v = base * u + r
  <2>1. base \in Nat \ {0}
    OBVIOUS
  <2> QED BY <1>1, <2>1, Quotient
<1>3. PICK n : n = Length(u, base)
  OBVIOUS
<1>4. n \in Nat /\ IsLength(n, u, base)
  BY <1>2, <1>3, LengthIs
<1>5. IsLength(n + 1, v, base)
  <2>1. PICK p : p = Power(base)[n]
    OBVIOUS
  <2>2. p \in Nat /\ Power(base)[n + 1] = base * p
    BY <1>4, <2>1, PowerFacts
  <2>3. u < p
    BY <1>4, <2>1 DEF IsLength
  <2>4. base * (u + 1) <= base * p
    BY <1>2, <2>2, <2>3
  <2>5. base * (u + 1) = base * u + base
    BY <1>2
  <2>6. v < base * p
    <3>1. base * u \in Nat /\ base * p \in Nat
      BY <1>2, <2>2
    <3> QED BY <1>2, <2>4, <2>5, <3>1
  <2>7. v >= p
    <3>1. CASE n = 0
      <4>1. p = 1
        BY <2>1, <3>1, PowerFacts
      <4> QED BY <4>1
    <3>2. CASE n # 0
      <4>1. n - 1 \in Nat /\ (n - 1) + 1 = n
        BY <1>4, <3>2
      <4>2. PICK q : q = Power(base)[n - 1]
        OBVIOUS
      <4>3. q \in Nat /\ p = base * q
        <5>1. /\ Power(base)[n - 1] \in Nat
              /\ Power(base)[(n - 1) + 1] = base * Power(base)[n - 1]
          BY <4>1, PowerFacts
        <5> QED BY <2>1, <4>1, <4>2, <5>1
      <4>4. u >= q
        BY <1>4, <3>2, <4>2 DEF IsLength
      <4>5. base * u >= base * q
        BY <1>2, <4>3, <4>4
      <4>6. base * u \in Nat /\ base * q \in Nat
        BY <1>2, <4>3
      <4> QED BY <1>2, <4>3, <4>5, <4>6
    <3> QED BY <3>1, <3>2
  <2> QED BY <1>4, <2>1, <2>2, <2>6, <2>7 DEF IsLength
<1>6. Length(v, base) = n + 1
  BY <1>4, <1>5, LengthIs, LengthUnique
<1>7. PICK s, t : s = Numeral(v, base) /\ t = Numeral(u, base)
  OBVIOUS
<1>8. /\ s \in Seq(Chars) /\ Len(s) = n + 1
      /\ t \in Seq(Chars) /\ Len(t) = n
  BY <1>2, <1>3, <1>6, <1>7, NumeralIs
<1>9. ASSUME NEW i \in 1 .. n PROVE s[i] = t[i]
  <2>1. n - i \in Nat /\ (n + 1) - i = (n - i) + 1 /\ i \in 1 .. (n + 1)
    BY <1>4
  <2>2. PICK p : p = Power(base)[n - i]
    OBVIOUS
  <2>3. p \in Nat \ {0} /\ Power(base)[(n - i) + 1] = base * p
    BY <2>1, <2>2, PowerFacts, PowerGrows
  <2>4. t[i] = DigitAt(u, base, n - i)
    BY <1>2, <1>3, <1>7, NumeralIs
  <2>5. s[i] = DigitAt(v, base, (n + 1) - i)
    BY <1>6, <1>7, <2>1, NumeralIs
  <2>6. t[i] = Digit((u \div p) % base)
    BY <2>2, <2>4 DEF DigitAt
  <2>7. s[i] = Digit((v \div (base * p)) % base)
    BY <2>1, <2>3, <2>5 DEF DigitAt
  <2>8. v \div (base * p) = u \div p
    <3>1. base \in Nat \ {0}
      OBVIOUS
    <3>2. v \div (base * p) = (v \div base) \div p
      BY <2>3, <3>1, QuotientTwice
    <3> QED BY <1>1, <3>2
  <2> QED BY <2>6, <2>7, <2>8
<1>10. s[n + 1] = Digit(r)
  <2>1. n + 1 \in 1 .. (n + 1) 
    BY <1>4
  <2>2. s[n + 1] = DigitAt(v, base, 0)
    <3>1. PICK l : l = n + 1
      OBVIOUS
    <3>2. \A j \in 1 .. l : s[j] = DigitAt(v, base, l - j)
      <4>1. l = Length(v, base)
        BY <1>6, <3>1
      <4>2. \A j \in 1 .. Length(v, base) :
                Numeral(v, base)[j] = DigitAt(v, base, Length(v, base) - j)
        BY NumeralIs
      <4> QED BY <1>7, <4>1, <4>2, Zenon
    <3>3. l \in 1 .. l /\ l - l = 0
      BY <2>1, <3>1
    <3>4. s[l] = DigitAt(v, base, l - l)
      BY <3>2, <3>3
    <3> QED BY <3>1, <3>3, <3>4
  <2>3. v \div 1 = v
    OBVIOUS
  <2>4. Power(base)[0] = 1
    BY PowerFacts
  <2> QED BY <1>1, <2>2, <2>3, <2>4 DEF DigitAt
<1>11. Digit(r) \in Chars
  BY <1>2, DigitChar
<1>12. s = Append(t, Digit(r))
  <2>1. /\ Append(t, Digit(r)) \in Seq(Chars) /\ Len(Append(t, Digit(r))) = n + 1
        /\ Append(t, Digit(r))[n + 1] = Digit(r)
        /\ \A i \in 1 .. n : Append(t, Digit(r))[i] = t[i]
    BY <1>8, <1>11
  <2>2. \A i \in 1 .. (n + 1) : i \in 1 .. n \/ i = n + 1
    BY <1>4
  <2>3. \A i \in 1 .. (n + 1) : s[i] = Append(t, Digit(r))[i]
    BY <1>9, <1>10, <2>1, <2>2
  <2> QED BY <1>8, <2>1, <2>3
<1> QED BY <1>1, <1>2, <1>3, <1>6, <1>7, <1>12
-----------------------------------------------------------------------------
(* One call of kprintf. *)

Texts == {Text(Letter), Text(LineEnd)}
Format == Texts \cup {Decimal, Hex, LongHex}

JobType ==
    [items : Seq(Format), item : Format, value : Nat, digits : Nat, text : Seq(Chars),
     phase : {"format", "push", "poll", "out", "pop", "read"}]

Digits == [0 .. (STACK - 1) -> 0 .. 15]

\* The n lowest elements of the digit array as they are read back.
OnStack(s, n) == [i \in 1 .. n |-> Digit(s[n - i])]

\* What print_hex puts before n digits.
Zeros(item, n) == [i \in 1 .. (Bits(item) \div 4 - n) |-> Digit(0)]
Prefix(item, n) == IF item.kind = "dec" THEN <<>> ELSE <<Digit(0), Letter>> \o Zeros(item, n)

\* The digits that a number still has to bring to the stack.
Coming(j) == Length(j.value, Base(j.item))

\* What a call has still to write, the digits in s included.
Left(j, s) ==
    IF j.phase = "push"
    THEN (Prefix(j.item, j.digits + Coming(j)) \o Numeral(j.value, Base(j.item)))
         \o OnStack(s, j.digits)
    ELSE j.text \o OnStack(s, j.digits)

\* A call owes exactly that, and it knows how many digits are on the stack.
JobShape(j) ==
    /\ j \in JobType
    /\ j.phase \in {"poll", "out"} <=> j.text # <<>>
    /\ j.phase = "format" => j.digits = 0
    /\ j.phase \in {"pop", "read"} => j.digits > 0
    /\ j.digits < STACK
    /\ j.phase = "push" =>
            /\ j.item.kind # "text"
            /\ j.digits + Coming(j) < STACK
            /\ j.item.kind = "dec" => j.value > 0 \/ j.digits > 0

JobOK(j, o, s) == JobShape(j) /\ o = Left(j, s)

LEMMA ItemKinds ==
    ASSUME NEW item \in Format
    PROVE  /\ item.kind \in {"text", "dec", "hex", "longhex"}
           /\ item.kind = "text" => item.ch \in Chars
           /\ item \in Texts <=> item.kind = "text"
           /\ Base(item) \in {10, 16}
           /\ Bits(item) \in Nat /\ Bits(item) \div 4 \in Nat
<1>1. /\ item.kind \in {"text", "dec", "hex", "longhex"}
      /\ item.kind = "text" => item.ch \in {Letter, LineEnd}
      /\ item \in Texts <=> item.kind = "text"
  BY DEF Format, Texts, Text, Decimal, Hex, LongHex
<1>2. Base(item) \in {10, 16}
  BY DEF Base
<1>3. Bits(item) \in Nat
  BY ConsoleAssumption DEF Bits
<1>4. Bits(item) \div 4 \in Nat
  BY <1>3
<1> QED BY <1>1, <1>2, <1>3, <1>4 DEF Chars

\* Sequences of a constant length.
LEMMA OnStackIs ==
    ASSUME NEW s \in Digits, NEW n \in Nat, n <= STACK
    PROVE  /\ OnStack(s, n) \in Seq(Chars) /\ Len(OnStack(s, n)) = n
           /\ \A i \in 1 .. n : OnStack(s, n)[i] = Digit(s[n - i])
           /\ n = 0 => OnStack(s, n) = <<>>
<1>1. ASSUME NEW i \in 1 .. n PROVE Digit(s[n - i]) \in Chars
  <2>1. n - i \in 0 .. (STACK - 1)
    BY ConsoleAssumption
  <2>2. s[n - i] \in 0 .. 15
    BY <2>1 DEF Digits
  <2>3. s[n - i] \in Nat
    BY <2>2
  <2> QED BY <2>3, DigitChar
<1>2. OnStack(s, n) \in Seq(Chars) /\ Len(OnStack(s, n)) = n
  BY <1>1 DEF OnStack
<1>3. \A i \in 1 .. n : OnStack(s, n)[i] = Digit(s[n - i])
  BY DEF OnStack
<1>4. n = 0 => OnStack(s, n) = <<>>
  BY <1>2
<1> QED BY <1>2, <1>3, <1>4

LEMMA ZerosIs ==
    ASSUME NEW item \in Format, NEW n \in Nat
    PROVE  Zeros(item, n) \in Seq(Chars)
<1>1. PICK m : m = Bits(item) \div 4 - n
  OBVIOUS
<1>2. m \in Int
  BY <1>1, ItemKinds
<1>3. Digit(0) \in Chars
  BY DigitChar
<1>4. CASE m >= 0
  BY <1>1, <1>2, <1>3, <1>4 DEF Zeros
<1>5. CASE m < 0
  <2>1. 1 .. m = 1 .. 0
    BY <1>2, <1>5
  <2>2. Zeros(item, n) = [i \in 1 .. 0 |-> Digit(0)]
    BY <1>1, <2>1 DEF Zeros
  <2> QED BY <1>3, <2>2
<1> QED BY <1>2, <1>4, <1>5

LEMMA PrefixIs ==
    ASSUME NEW item \in Format, NEW n \in Nat
    PROVE  /\ Prefix(item, n) \in Seq(Chars)
           /\ Prefix(item, n) = <<>> <=> item.kind = "dec"
<1>1. <<Digit(0), Letter>> \in Seq(Chars) /\ Len(<<Digit(0), Letter>>) = 2
  <2>1. Digit(0) \in Chars /\ Letter \in Chars
    BY DigitChar DEF Chars
  <2> QED BY <2>1
<1>2. PICK a, b : a = <<Digit(0), Letter>> /\ b = Zeros(item, n)
  OBVIOUS
<1>3. a \in Seq(Chars) /\ b \in Seq(Chars) /\ Len(a) = 2
  BY <1>1, <1>2, ZerosIs
<1>4. a \o b \in Seq(Chars) /\ Len(a \o b) # 0
  <2>1. a \o b \in Seq(Chars) /\ Len(a \o b) = Len(a) + Len(b)
    BY <1>3, ConcatProperties, Zenon
  <2>2. Len(b) \in Nat
    BY <1>3
  <2> QED BY <1>3, <2>1, <2>2
<1>5. a \o b # <<>>
  BY <1>4
<1> QED BY <1>2, <1>4, <1>5 DEF Prefix

\* What is still to write is a sequence of characters.
LEMMA LeftIs ==
    ASSUME NEW j, NEW s \in Digits, JobShape(j)
    PROVE  Left(j, s) \in Seq(Chars)
<1>1. /\ j.digits \in Nat /\ j.digits <= STACK /\ j.value \in Nat
      /\ j.item \in Format /\ j.text \in Seq(Chars)
  BY ConsoleAssumption DEF JobShape, JobType
<1>2. OnStack(s, j.digits) \in Seq(Chars)
  BY <1>1, OnStackIs
<1>3. Base(j.item) \in Nat /\ Base(j.item) >= 2
  BY <1>1, ItemKinds
<1>4. Coming(j) \in Nat /\ Numeral(j.value, Base(j.item)) \in Seq(Chars)
  BY <1>1, <1>3, NumeralIs DEF Coming
<1>5. Prefix(j.item, j.digits + Coming(j)) \in Seq(Chars)
  <2>1. j.digits + Coming(j) \in Nat
    BY <1>1, <1>4
  <2> QED BY <1>1, <2>1, PrefixIs
<1>6. Prefix(j.item, j.digits + Coming(j)) \o Numeral(j.value, Base(j.item)) \in Seq(Chars)
  BY <1>4, <1>5, ConcatProperties
<1> QED BY <1>1, <1>2, <1>6, ConcatProperties DEF Left

\* A call that has no digits on the stack does not see it.
LEMMA StackUnseen ==
    ASSUME NEW j, NEW o, NEW s \in Digits, NEW t \in Digits, JobOK(j, o, s), j.digits = 0
    PROVE  JobOK(j, o, t)
<1>1. 0 \in Nat /\ 0 <= STACK
  BY ConsoleAssumption
<1>2. OnStack(s, j.digits) = OnStack(t, j.digits)
  BY <1>1, OnStackIs
<1> QED BY <1>2 DEF JobOK, Left

\* A call at its end, or between two items, owes nothing.
LEMMA NothingOwed ==
    ASSUME NEW j, NEW o, NEW s \in Digits, JobOK(j, o, s), j.phase = "format"
    PROVE  o = <<>> /\ j.digits = 0 /\ j.text = <<>>
<1>1. j.digits = 0 /\ j.text = <<>>
  BY DEF JobOK, JobShape
<1>2. OnStack(s, 0) = <<>>
  BY ConsoleAssumption, OnStackIs
<1>3. o = <<>> \o <<>>
  BY <1>1, <1>2 DEF JobOK, Left
<1> QED BY <1>1, <1>3

\* A new call.
LEMMA NewJob ==
    ASSUME NEW items \in Seq(Format), NEW s \in Digits
    PROVE  JobOK([NoJob EXCEPT !.items = items], <<>>, s)
<1>1. PICK j : j = [NoJob EXCEPT !.items = items]
  OBVIOUS
<1>2. /\ j \in JobType /\ j.phase = "format" /\ j.digits = 0 /\ j.text = <<>>
  <2>1. Text(Letter) \in Format /\ <<>> \in Seq(Chars)
    BY DEF Format, Texts
  <2>2. j = [items |-> items, item |-> Text(Letter), value |-> 0, digits |-> 0,
             text |-> <<>>, phase |-> "format"]
    BY <1>1 DEF NoJob
  <2> QED BY <2>1, <2>2 DEF JobType
<1>3. JobShape(j)
  BY <1>2, ConsoleAssumption DEF JobShape
<1>4. OnStack(s, 0) = <<>>
  BY ConsoleAssumption, OnStackIs
<1>5. Left(j, s) = <<>>
  BY <1>2, <1>4 DEF Left
<1> QED BY <1>1, <1>3, <1>5 DEF JobOK

LEMMA OneChar ==
    ASSUME NEW c \in Chars
    PROVE  <<c>> \in Seq(Chars) /\ <<c>> # <<>>
OBVIOUS

\* kprintf turns to a text, or print_dec to 0: one character.
LEMMA TextStep ==
    ASSUME NEW j, NEW o, NEW s \in Digits, JobOK(j, o, s), j.phase = "format", j.items # <<>>,
           NEW v \in Nat, NEW k, NEW r, r = Rendering(Head(j.items), v),
           Head(j.items).kind = "text" \/ (Head(j.items).kind = "dec" /\ v = 0),
           k = [j EXCEPT !.items = Tail(@), !.item = Head(j.items), !.phase = "poll", !.text = r]
    PROVE  JobOK(k, o \o r, s)
<1>1. j \in JobType /\ o = <<>> /\ j.digits = 0
  BY NothingOwed DEF JobOK, JobShape
<1>2. Head(j.items) \in Format /\ Tail(j.items) \in Seq(Format)
  BY <1>1 DEF JobType
<1>3. r \in Seq(Chars) /\ r # <<>>
  <2>1. CASE Head(j.items).kind = "text"
    <3>1. r = <<Head(j.items).ch>>
      BY <2>1 DEF Rendering
    <3>2. Head(j.items).ch \in Chars
      BY <1>2, <2>1, ItemKinds
    <3> QED BY <3>1, <3>2, OneChar, Zenon
  <2>2. CASE Head(j.items).kind = "dec" /\ v = 0
    <3>1. r = <<Digit(0)>>
      BY <2>2 DEF Rendering
    <3>2. Digit(0) \in Chars
      BY DigitChar
    <3> QED BY <3>1, <3>2, OneChar, Zenon
  <2> QED BY <2>1, <2>2
<1>4. k \in JobType /\ k.phase = "poll" /\ k.text = r /\ k.digits = 0
  BY <1>1, <1>2, <1>3 DEF JobType
<1>5. JobShape(k)
  BY <1>3, <1>4, ConsoleAssumption DEF JobShape
<1>6. OnStack(s, 0) = <<>>
  BY ConsoleAssumption, OnStackIs
<1>7. Left(k, s) = r \o <<>>
  BY <1>4, <1>6 DEF Left
<1>8. o \o r = r \o <<>>
  BY <1>1, <1>3, ConcatEmptySeq
<1> QED BY <1>5, <1>7, <1>8 DEF JobOK

\* A number's rendering is its prefix and its numeral.
LEMMA RenderingIs ==
    ASSUME NEW item \in Format, NEW v \in Nat, item.kind # "text", ~(item.kind = "dec" /\ v = 0)
    PROVE  Rendering(item, v) = Prefix(item, Length(v, Base(item))) \o Numeral(v, Base(item))
<1>1. PICK t : t = Numeral(v, Base(item))
  OBVIOUS
<1>2. t \in Seq(Chars) /\ Len(t) = Length(v, Base(item))
  <2>1. Base(item) \in Nat /\ Base(item) >= 2
    BY ItemKinds
  <2> QED BY <1>1, <2>1, NumeralIs
<1>3. CASE item.kind = "dec"
  <2>1. Rendering(item, v) = t /\ Prefix(item, Length(v, Base(item))) = <<>>
    BY <1>1, <1>3 DEF Rendering, Prefix, Base
  <2> QED BY <1>1, <1>2, <2>1, ConcatEmptySeq
<1>4. CASE item.kind # "dec"
  <2>1. Base(item) = 16
    BY <1>4 DEF Base
  <2>2. Rendering(item, v) = (<<Digit(0), Letter>> \o Zeros(item, Len(t))) \o t
    BY <1>1, <1>4, <2>1 DEF Rendering, Zeros
  <2>3. Prefix(item, Length(v, Base(item))) = <<Digit(0), Letter>> \o Zeros(item, Len(t))
    BY <1>2, <1>4 DEF Prefix
  <2> QED BY <1>1, <2>2, <2>3
<1> QED BY <1>3, <1>4

\* kprintf turns to a number.
LEMMA NumberStep ==
    ASSUME NEW j, NEW o, NEW s \in Digits, JobOK(j, o, s), j.phase = "format", j.items # <<>>,
           NEW v \in Values, NEW k, NEW r, r = Rendering(Head(j.items), v),
           Head(j.items).kind # "text", ~(Head(j.items).kind = "dec" /\ v = 0),
           k = [j EXCEPT !.items = Tail(@), !.item = Head(j.items), !.phase = "push",
                         !.value = v, !.digits = 0]
    PROVE  JobOK(k, o \o r, s)
<1>1. j \in JobType /\ o = <<>> /\ j.digits = 0 /\ j.text = <<>>
  BY NothingOwed DEF JobOK, JobShape
<1>2. Head(j.items) \in Format /\ Tail(j.items) \in Seq(Format)
  BY <1>1 DEF JobType
<1>3. PICK item, b : item = Head(j.items) /\ b = Base(item)
  OBVIOUS
<1>4. item \in Format /\ b \in Nat /\ b >= 2
  BY <1>2, <1>3, ItemKinds
<1>5. v \in Nat /\ Length(v, b) \in Nat /\ Length(v, b) < STACK
  <2>1. BITS \in Nat /\ STACK \in Nat /\ BITS < STACK
    BY ConsoleAssumption
  <2>2. Power(2)[BITS] \in Nat
    BY <2>1, PowerFacts
  <2>3. v \in 0 .. (Power(2)[BITS] - 1)
    BY ConsoleAssumption
  <2>4. v \in Nat /\ v < Power(2)[BITS]
    BY <2>2, <2>3
  <2>5. Length(v, b) <= BITS
    BY <1>4, <2>1, <2>4, LengthBound
  <2>6. Length(v, b) \in Nat
    BY <1>4, <2>4, LengthIs
  <2> QED BY <2>1, <2>4, <2>5, <2>6
<1>6. /\ k \in JobType /\ k.phase = "push" /\ k.text = <<>> /\ k.digits = 0
      /\ k.item = item /\ k.value = v
  BY <1>1, <1>2, <1>3, <1>5 DEF JobType
<1>7. Coming(k) = Length(v, b) /\ Base(k.item) = b
  BY <1>3, <1>6 DEF Coming
<1>8. 0 + Length(v, b) = Length(v, b)
  BY <1>5
<1>9. item.kind = "dec" => v > 0
  BY <1>3, <1>5
<1>10. JobShape(k)
  BY <1>3, <1>5, <1>6, <1>7, <1>8, <1>9, ConsoleAssumption DEF JobShape
<1>11. r = Prefix(item, Length(v, b)) \o Numeral(v, b)
  BY <1>3, <1>4, <1>5, RenderingIs
<1>12. OnStack(s, 0) = <<>>
  BY ConsoleAssumption, OnStackIs
<1>13. Left(k, s) = r \o <<>>
  BY <1>6, <1>7, <1>8, <1>11, <1>12 DEF Left
<1>14. r \in Seq(Chars)
  <2>1. Prefix(item, Length(v, b)) \in Seq(Chars) /\ Numeral(v, b) \in Seq(Chars)
    BY <1>4, <1>5, PrefixIs, NumeralIs
  <2> QED BY <1>11, <2>1, ConcatProperties
<1>15. o \o r = r \o <<>>
  BY <1>1, <1>14, ConcatEmptySeq
<1> QED BY <1>10, <1>13, <1>15 DEF JobOK

LEMMA Regrouped ==
    ASSUME NEW a \in Seq(Chars), NEW b \in Seq(Chars), NEW c \in Seq(Chars)
    PROVE  a \o (b \o c) = (a \o b) \o c /\ a \o b \in Seq(Chars)
<1>1. a \o b \in Seq(Chars)
  BY ConcatProperties
<1>2. (a \o b) \o c = a \o (b \o c)
  BY ConcatAssociative
<1> QED BY <1>1, <1>2

\* A digit is pushed.
LEMMA PushStep ==
    ASSUME NEW j, NEW o, NEW s \in Digits, JobOK(j, o, s), j.phase = "push", j.value > 0,
           NEW k, NEW t,
           t = [s EXCEPT ![j.digits] = j.value % Base(j.item)],
           k \in JobType, k.phase = "push", k.text = j.text, k.item = j.item,
           k.value = j.value \div Base(j.item), k.digits = j.digits + 1
    PROVE  t \in Digits /\ JobOK(k, o, t) /\ j.digits + 1 < STACK
<1>1. /\ j \in JobType /\ j.digits \in Nat /\ j.digits < STACK /\ j.value \in Nat
      /\ j.item \in Format /\ j.text = <<>> /\ j.item.kind # "text"
  BY DEF JobOK, JobShape, JobType
<1>2. PICK b, d, v : b = Base(j.item) /\ d = j.digits /\ v = j.value
  OBVIOUS
<1>3. b \in {10, 16} /\ b \in Nat /\ b >= 2
  BY <1>1, <1>2, ItemKinds
<1>4. PICK u, c : u = v \div b /\ c = v % b
  OBVIOUS
<1>5. /\ u \in Nat /\ c \in 0 .. (b - 1)
      /\ Length(v, b) = Length(u, b) + 1
      /\ Numeral(v, b) = Append(Numeral(u, b), Digit(c))
  BY <1>1, <1>2, <1>3, <1>4, NumeralStep
<1>6. c \in 0 .. 15 /\ c \in Nat
  BY <1>3, <1>5
<1>7. Length(u, b) \in Nat /\ Numeral(u, b) \in Seq(Chars) /\ Digit(c) \in Chars
  BY <1>3, <1>5, <1>6, NumeralIs, DigitChar
<1>8. /\ k \in JobType /\ k.phase = "push" /\ k.text = <<>> /\ k.digits = d + 1
      /\ k.item = j.item /\ k.value = u
  BY <1>1, <1>2, <1>4, Zenon
<1>9. Coming(k) = Length(u, b) /\ Coming(j) = Length(v, b)
  BY <1>2, <1>8 DEF Coming
<1>10. (d + 1) + Length(u, b) = d + Length(v, b) /\ d + Length(v, b) < STACK
  <2>1. j.digits + Coming(j) < STACK
    BY DEF JobOK, JobShape
  <2>2. PICK m : m = Length(u, b)
    OBVIOUS
  <2>3. m \in Nat /\ Length(v, b) = m + 1 /\ d \in Nat
    BY <1>1, <1>2, <1>5, <1>7, <2>2, Zenon
  <2>4. d + Length(v, b) < STACK
    BY <1>2, <1>9, <2>1, Zenon
  <2>5. (d + 1) + m = d + (m + 1)
    BY <2>3
  <2> QED BY <2>2, <2>3, <2>4, <2>5, Zenon
<1>11. d + 1 < STACK /\ d + 1 > 0
  BY <1>1, <1>2, <1>5, <1>7, <1>10, ConsoleAssumption
<1>12. JobShape(k)
  BY <1>1, <1>8, <1>9, <1>10, <1>11 DEF JobShape
<1>13. t \in Digits
  BY <1>2, <1>4, <1>6 DEF Digits
<1>14. d \in 0 .. (STACK - 1) /\ t[d] = c /\ \A i \in 0 .. (STACK - 1) : i # d => t[i] = s[i]
  <2>1. d \in 0 .. (STACK - 1)
    BY <1>1, <1>2, ConsoleAssumption
  <2> QED BY <1>2, <1>4, <2>1 DEF Digits
<1>15. OnStack(t, d + 1) = <<Digit(c)>> \o OnStack(s, d)
  <2>1. PICK x, y, z : x = OnStack(t, d + 1) /\ y = OnStack(s, d) /\ z = <<Digit(c)>>
    OBVIOUS
  <2>2. d \in Nat /\ d + 1 \in Nat /\ d <= STACK /\ d + 1 <= STACK
    BY <1>1, <1>2, <1>11, ConsoleAssumption
  <2>3. /\ x \in Seq(Chars) /\ Len(x) = d + 1
        /\ \A i \in 1 .. (d + 1) : x[i] = Digit(t[(d + 1) - i])
    BY <1>13, <2>1, <2>2, OnStackIs
  <2>4. /\ y \in Seq(Chars) /\ Len(y) = d /\ \A i \in 1 .. d : y[i] = Digit(s[d - i])
    BY <2>1, <2>2, OnStackIs
  <2>5. z \in Seq(Chars) /\ Len(z) = 1 /\ z[1] = Digit(c)
    BY <1>7, <2>1
  <2>6. /\ z \o y \in Seq(Chars) /\ Len(z \o y) = Len(z) + Len(y)
        /\ \A i \in 1 .. (Len(z) + Len(y)) :
                (z \o y)[i] = IF i <= Len(z) THEN z[i] ELSE y[i - Len(z)]
    BY <2>4, <2>5, ConcatProperties, Zenon
  <2>7. Len(z \o y) = d + 1
    BY <2>2, <2>4, <2>5, <2>6
  <2>8. ASSUME NEW i \in 1 .. (d + 1) PROVE x[i] = (z \o y)[i]
    <3>1. i \in 1 .. (Len(z) + Len(y)) /\ i \in Nat
      BY <2>2, <2>4, <2>5
    <3>2. CASE i = 1
      <4>1. (d + 1) - i = d
        BY <2>2, <3>2
      <4>2. x[i] = Digit(c)
        BY <1>14, <2>3, <4>1
      <4>3. (z \o y)[i] = z[1]
        BY <2>5, <2>6, <3>1, <3>2
      <4> QED BY <2>5, <4>2, <4>3
    <3>3. CASE i # 1
      <4>1. /\ (d + 1) - i = d - (i - 1) /\ i - 1 \in 1 .. d /\ ~(i <= 1)
            /\ d - (i - 1) \in 0 .. (STACK - 1) /\ d - (i - 1) # d
        BY <2>2, <3>3, ConsoleAssumption
      <4>2. x[i] = Digit(t[d - (i - 1)])
        BY <2>3, <4>1
      <4>3. x[i] = Digit(s[d - (i - 1)])
        BY <1>14, <4>1, <4>2
      <4>4. (z \o y)[i] = y[i - 1]
        BY <2>5, <2>6, <3>1, <4>1
      <4> QED BY <2>4, <4>1, <4>3, <4>4
    <3> QED BY <3>2, <3>3
  <2>9. x = z \o y
    BY <2>3, <2>6, <2>7, <2>8, SeqEqual
  <2> QED BY <2>1, <2>9
<1>16. Left(k, t) = Left(j, s)
  <2>1. PICK p, n, y, z : /\ p = Prefix(j.item, d + Length(v, b)) /\ n = Numeral(u, b)
                          /\ y = OnStack(s, d) /\ z = <<Digit(c)>>
    OBVIOUS
  <2>2. d + Length(v, b) \in Nat /\ d \in Nat /\ d <= STACK
    BY <1>1, <1>2, <1>5, <1>7, ConsoleAssumption
  <2>3. p \in Seq(Chars) /\ n \in Seq(Chars) /\ y \in Seq(Chars) /\ z \in Seq(Chars)
    BY <1>1, <1>7, <2>1, <2>2, PrefixIs, OnStackIs
  <2>4. Left(j, s) = (p \o Append(n, Digit(c))) \o y
    BY <1>2, <1>5, <1>9, <2>1 DEF Left
  <2>5. Left(k, t) = (p \o n) \o (z \o y)
    BY <1>2, <1>8, <1>9, <1>10, <1>15, <2>1 DEF Left
  <2>6. Append(n, Digit(c)) = n \o z
    BY <1>7, <2>1, <2>3, AppendIsConcat
  <2>7. p \o (n \o z) = (p \o n) \o z /\ p \o n \in Seq(Chars)
    BY <2>3, Regrouped
  <2>8. ((p \o n) \o z) \o y = (p \o n) \o (z \o y)
    BY <2>3, <2>7, Regrouped
  <2> QED BY <2>4, <2>5, <2>6, <2>7, <2>8
<1> QED BY <1>2, <1>11, <1>12, <1>13, <1>16 DEF JobOK

\* All digits are on the stack.
LEMMA PushedStep ==
    ASSUME NEW j, NEW o, NEW s \in Digits, JobOK(j, o, s), j.phase = "push", j.value = 0,
           NEW k, k \in JobType, k.digits = j.digits,
           k.text = Prefix(j.item, j.digits),
           k.phase = IF k.text = <<>> THEN "pop" ELSE "poll"
    PROVE  JobOK(k, o, s)
<1>1. /\ j \in JobType /\ j.digits \in Nat /\ j.digits < STACK
      /\ j.item \in Format
      /\ j.item.kind = "dec" => j.value > 0 \/ j.digits > 0
  BY DEF JobOK, JobShape, JobType
<1>2. PICK b, d, p : b = Base(j.item) /\ d = j.digits /\ p = Prefix(j.item, j.digits)
  OBVIOUS
<1>3. b \in Nat /\ b >= 2
  BY <1>1, <1>2, ItemKinds
<1>4. Coming(j) = 0 /\ Numeral(j.value, b) = <<>>
  BY <1>2, <1>3, NumeralZero DEF Coming
<1>5. d + 0 = d /\ d \in Nat /\ d <= STACK
  BY <1>1, <1>2, ConsoleAssumption
<1>6. p \in Seq(Chars) /\ (p = <<>> <=> j.item.kind = "dec")
  BY <1>1, <1>2, <1>5, PrefixIs
<1>7. o = (p \o <<>>) \o OnStack(s, d)
  BY <1>2, <1>4, <1>5 DEF JobOK, Left
<1>8. p \o <<>> = p
  BY <1>6, ConcatEmptySeq
<1>9. k.text = p /\ k.digits = d /\ k.phase = IF p = <<>> THEN "pop" ELSE "poll"
  BY <1>2
<1>10. Left(k, s) = o
  BY <1>7, <1>8, <1>9 DEF Left
<1>11. p = <<>> => d > 0
  BY <1>1, <1>2, <1>6
<1>12. JobShape(k)
  BY <1>1, <1>2, <1>9, <1>11 DEF JobShape
<1> QED BY <1>10, <1>12 DEF JobOK

\* The index is moved back, or the transmitter was seen empty: nothing written.
LEMMA PhaseStep ==
    ASSUME NEW j, NEW o, NEW s \in Digits, JobOK(j, o, s), NEW k, k \in JobType,
           k.digits = j.digits, k.text = j.text,
           \/ j.phase = "pop" /\ k.phase = "read"
           \/ j.phase = "poll" /\ k.phase = "out"
    PROVE  JobOK(k, o, s)
<1>1. JobShape(k)
  BY DEF JobOK, JobShape
<1>2. Left(k, s) = Left(j, s)
  BY DEF Left
<1> QED BY <1>1, <1>2 DEF JobOK

\* The top of the stack is read.
LEMMA ReadStep ==
    ASSUME NEW j, NEW o, NEW s \in Digits, JobOK(j, o, s), j.phase = "read",
           NEW k, k \in JobType, k.phase = "poll", k.digits = j.digits - 1,
           k.text = <<Digit(s[j.digits - 1])>>
    PROVE  JobOK(k, o, s)
<1>1. j.digits \in Nat /\ j.digits > 0 /\ j.digits < STACK /\ j.text = <<>>
  BY DEF JobOK, JobShape, JobType
<1>2. PICK d, z : d = j.digits - 1 /\ z = <<Digit(s[j.digits - 1])>>
  OBVIOUS
<1>3. /\ d \in Nat /\ d < STACK /\ d <= STACK /\ d \in 0 .. (STACK - 1)
      /\ d + 1 = j.digits /\ d + 1 <= STACK
  BY <1>1, <1>2, ConsoleAssumption
<1>4. s[d] \in Nat
  <2>1. s[d] \in 0 .. 15
    BY <1>3 DEF Digits
  <2> QED BY <2>1
<1>5. z = <<Digit(s[d])>> /\ Digit(s[d]) \in Chars
  BY <1>2, <1>4, DigitChar
<1>6. z \in Seq(Chars) /\ Len(z) = 1 /\ z[1] = Digit(s[d]) /\ z # <<>>
  BY <1>5
<1>7. PICK x, y : x = OnStack(s, d + 1) /\ y = OnStack(s, d)
  OBVIOUS
<1>8. /\ x \in Seq(Chars) /\ Len(x) = d + 1 /\ \A i \in 1 .. (d + 1) : x[i] = Digit(s[(d + 1) - i])
  <2>1. d + 1 \in Nat
    BY <1>3
  <2> QED BY <1>3, <1>7, <2>1, OnStackIs
<1>9. /\ y \in Seq(Chars) /\ Len(y) = d /\ \A i \in 1 .. d : y[i] = Digit(s[d - i])
  BY <1>3, <1>7, OnStackIs
<1>10. x = z \o y
  <2>1. /\ z \o y \in Seq(Chars) /\ Len(z \o y) = Len(z) + Len(y)
        /\ \A i \in 1 .. (Len(z) + Len(y)) :
                (z \o y)[i] = IF i <= Len(z) THEN z[i] ELSE y[i - Len(z)]
    BY <1>6, <1>9, ConcatProperties, Zenon
  <2>2. Len(z \o y) = d + 1
    BY <1>3, <1>6, <1>9, <2>1
  <2>3. ASSUME NEW i \in 1 .. (d + 1) PROVE x[i] = (z \o y)[i]
    <3>1. i \in 1 .. (Len(z) + Len(y)) /\ i \in Nat
      BY <1>3, <1>6, <1>9
    <3>2. CASE i = 1
      <4>1. (d + 1) - i = d
        BY <1>3, <3>2
      <4>2. x[i] = Digit(s[d])
        BY <1>8, <4>1
      <4>3. (z \o y)[i] = z[1]
        BY <1>6, <2>1, <3>1, <3>2
      <4> QED BY <1>6, <4>2, <4>3
    <3>3. CASE i # 1
      <4>1. (d + 1) - i = d - (i - 1) /\ i - 1 \in 1 .. d /\ ~(i <= 1)
        BY <1>3, <3>3
      <4>2. x[i] = Digit(s[d - (i - 1)])
        BY <1>8, <4>1
      <4>3. (z \o y)[i] = y[i - 1]
        BY <1>6, <2>1, <3>1, <4>1
      <4> QED BY <1>9, <4>1, <4>2, <4>3
    <3> QED BY <3>2, <3>3
  <2> QED BY <1>8, <2>1, <2>2, <2>3, SeqEqual
<1>11. Left(k, s) = z \o y
  BY <1>2, <1>7 DEF Left
<1>12. o = <<>> \o x
  BY <1>1, <1>3, <1>7 DEF JobOK, Left
<1>13. o = Left(k, s)
  BY <1>8, <1>10, <1>11, <1>12, ConcatEmptySeq
<1>14. JobShape(k)
  BY <1>2, <1>3, <1>6 DEF JobShape
<1> QED BY <1>13, <1>14 DEF JobOK

\* A character is written, and it is the next one that is owed.
LEMMA SendStep ==
    ASSUME NEW j, NEW o, NEW s \in Digits, JobOK(j, o, s), j.phase = "out",
           NEW k, k \in JobType, k.text = Tail(j.text), k.digits = j.digits,
           k.phase = IF k.text # <<>> THEN "poll" ELSE IF j.digits > 0 THEN "pop" ELSE "format"
    PROVE  o # <<>> /\ Head(o) = Head(j.text) /\ JobOK(k, Tail(o), s)
<1>1. /\ j.text \in Seq(Chars) /\ j.text # <<>> /\ j.digits \in Nat /\ j.digits < STACK
      /\ j.digits <= STACK
  BY ConsoleAssumption DEF JobOK, JobShape, JobType
<1>2. PICK t, y : t = j.text /\ y = OnStack(s, j.digits)
  OBVIOUS
<1>3. t \in Seq(Chars) /\ t # <<>> /\ y \in Seq(Chars)
  BY <1>1, <1>2, OnStackIs
<1>4. o = t \o y /\ Left(k, s) = Tail(t) \o y
  BY <1>2 DEF JobOK, Left
<1>5. t \o y # <<>> /\ Head(t \o y) = Head(t) /\ Tail(t \o y) = Tail(t) \o y
  BY <1>3
<1>6. JobShape(k)
  BY <1>1 DEF JobShape
<1> QED BY <1>2, <1>4, <1>5, <1>6 DEF JobOK
-----------------------------------------------------------------------------
(* The inductive invariant. *)

\* What kmain has to do: no announcement without a letter, and programs are let
\* in by its last step.
Command ==
    [op : {"log", "announce", "screen", "sti", "pit", "keyboard", "enable_scheduling"},
     items : Seq(Format), letters : Nat]

ScriptOK(sc) ==
    /\ sc \in Seq(Command)
    /\ \A i \in 1 .. Len(sc) :
        /\ sc[i].op = "announce" => sc[i].letters > 0
        /\ sc[i].op = "screen" => i = 1
        /\ sc[i].op = "enable_scheduling" => i = Len(sc)

ScriptInv == ScriptOK(script) /\ (_init => script = <<>> /\ Idle("boot"))

\* A handler of the keyboard's interrupt prints no numbers, the others come when
\* kmain has nothing more to print.
TextOnly(j) == j.items \in Seq(Texts) /\ j.phase \in {"format", "poll", "out"} /\ j.digits = 0

HandlerInv ==
    /\ serving \in {"none", "keyboard", "syscall", "fault"}
    /\ sti \in BOOLEAN /\ _init \in BOOLEAN
    /\ serving = "none" => Idle("handler")
    /\ serving \in {"syscall", "fault"} => _init
    /\ serving = "keyboard" => TextOnly(job["handler"])

\* Every call owes what it still has to write, and the index of the digit array
\* is the number of the digits it holds.
Depth(j) == IF j.phase = "read" THEN j.digits - 1 ELSE j.digits

SerialInv ==
    /\ stack \in Digits
    /\ job \in [Jobs -> JobType] /\ owed \in [Jobs -> Seq(Chars)]
    /\ \A w \in Jobs : JobOK(job[w], owed[w], stack)
    /\ garbled = FALSE
    /\ stack_idx = Depth(job["boot"]) + Depth(job["handler"])

\* Of the characters in the FIFO at most one was written since boot saw it empty,
\* none since a handler did.
UartInv ==
    /\ uart \in [_init : BOOLEAN, depth : {1, FIFO}, fifo : 0 .. FIFO]
    /\ uart.depth = IF uart._init THEN FIFO ELSE 1
    /\ ~uart._init => uart.fifo = 0
    /\ \A w \in Jobs : job[w].phase = "out" => uart._init
    /\ job["boot"].phase = "out" => uart.fifo <= 1
    /\ job["handler"].phase = "out" => uart.fifo = 0

LogInv == ScriptInv /\ HandlerInv /\ SerialInv /\ UartInv
-----------------------------------------------------------------------------
(* It holds in the beginning. *)

Ordinary == {c \in Command : c.op \notin {"screen", "enable_scheduling"}
                             /\ (c.op = "announce" => c.letters > 0)}

LEMMA LogOrdinary ==
    ASSUME NEW items \in Seq(Format)
    PROVE  Line(items) \in Seq(Format) /\ Log(items) \in Ordinary
<1>1. <<Text(Letter)>> \in Seq(Format) /\ <<Text(LineEnd)>> \in Seq(Format)
  BY DEF Format, Texts
<1>2. <<Text(Letter)>> \o items \in Seq(Format)
  BY <1>1, ConcatProperties
<1>3. Line(items) \in Seq(Format)
  BY <1>1, <1>2, ConcatProperties DEF Line
<1> QED BY <1>3 DEF Log, Ordinary, Command

LEMMA AnnounceOrdinary ==
    ASSUME NEW n \in Nat, n > 0
    PROVE  Announce(n) \in Ordinary
<1>1. Text(Letter) \in Format /\ Text(LineEnd) \in Format
  BY DEF Format, Texts
<1>2. \A i \in 1 .. (n + 1) : Text(IF i <= n THEN Letter ELSE LineEnd) \in Format
  BY <1>1
<1>3. [i \in 1 .. (n + 1) |-> Text(IF i <= n THEN Letter ELSE LineEnd)] \in Seq(Format)
  BY <1>2
<1>4. PICK items : items = [i \in 1 .. (n + 1) |-> Text(IF i <= n THEN Letter ELSE LineEnd)]
  OBVIOUS
<1>5. Announce(n) = [op |-> "announce", letters |-> n, items |-> items] /\ items \in Seq(Format)
  BY <1>3, <1>4 DEF Announce
<1> QED BY <1>5 DEF Ordinary, Command

LEMMA StepOrdinary ==
    ASSUME NEW op \in {"sti", "pit", "keyboard"}
    PROVE  Step(op) \in Ordinary
BY DEF Step, Ordinary, Command

LEMMA Formats ==
    /\ <<>> \in Seq(Format) /\ <<Hex>> \in Seq(Format) /\ <<LongHex>> \in Seq(Format)
    /\ <<Decimal>> \in Seq(Format) /\ <<Hex, LongHex>> \in Seq(Format)
    /\ <<Hex, Decimal, Decimal>> \in Seq(Format) /\ <<Hex, Hex>> \in Seq(Format)
<1>1. Hex \in Format /\ LongHex \in Format /\ Decimal \in Format
  BY DEF Format
<1> QED BY <1>1

\* An ordinary beginning and enable_scheduling make a script.
LEMMA ScriptsMade ==
    ASSUME NEW sc \in Seq(Ordinary)
    PROVE  ScriptOK(sc) /\ ScriptOK(sc \o <<Step("enable_scheduling")>>)
<1>1. Ordinary \subseteq Command
  BY DEF Ordinary
<1>2. sc \in Seq(Command) /\ Len(sc) \in Nat
  BY <1>1
<1>3. \A i \in 1 .. Len(sc) : sc[i] \in Ordinary
  OBVIOUS
<1>4. ScriptOK(sc)
  BY <1>2, <1>3 DEF ScriptOK, Ordinary
<1>5. PICK e : e = Step("enable_scheduling")
  OBVIOUS
<1>6. e \in Command /\ e.op = "enable_scheduling"
  BY <1>5 DEF Step, Command
<1>7. PICK t : t = sc \o <<e>>
  OBVIOUS
<1>8. /\ t \in Seq(Command) /\ Len(t) = Len(sc) + 1 /\ t[Len(sc) + 1] = e
      /\ \A i \in 1 .. Len(sc) : t[i] = sc[i]
  BY <1>2, <1>6, <1>7
<1>9. \A i \in 1 .. Len(t) : i \in 1 .. Len(sc) \/ i = Len(t)
  BY <1>2, <1>8
<1>10. ScriptOK(t)
  BY <1>3, <1>6, <1>8, <1>9 DEF ScriptOK, Ordinary
<1> QED BY <1>4, <1>5, <1>7, <1>10

LEMMA KmainOK == ScriptOK(Kmain) /\ ScriptOK(KmainBadMagic)
<1> DEFINE S == Seq(Ordinary)
<1>1. \A a, b \in S : a \o b \in S
  BY ConcatProperties
<1>2. /\ Log(<<>>) \in Ordinary /\ Log(<<Hex>>) \in Ordinary /\ Log(<<LongHex>>) \in Ordinary
      /\ Log(<<Decimal>>) \in Ordinary /\ Log(<<Hex, LongHex>>) \in Ordinary
      /\ Log(<<Hex, Decimal, Decimal>>) \in Ordinary /\ Log(<<Hex, Hex>>) \in Ordinary
  BY Formats, LogOrdinary
<1>3. /\ Announce(1) \in Ordinary /\ Announce(2) \in Ordinary /\ Announce(3) \in Ordinary
      /\ Announce(4) \in Ordinary
  BY AnnounceOrdinary
<1>4. Step("sti") \in Ordinary /\ Step("pit") \in Ordinary /\ Step("keyboard") \in Ordinary
  BY StepOrdinary
<1>5. gdt_init \in S
  BY <1>2 DEF gdt_init
<1>6. idt_init \in S
  BY <1>2, <1>4 DEF idt_init
<1>7. PMM_init \in S
  BY <1>2 DEF PMM_init
<1>8. load_initrd \in S
  <2>1. Elf32_load \in S /\ <<Log(<<>>)>> \in S
    BY <1>2 DEF Elf32_load
  <2> QED BY <1>1, <2>1 DEF load_initrd
<1>9. /\ <<Announce(2)>> \in S
      /\ <<Announce(3), Step("pit"), Announce(4), Step("keyboard"), Announce(1)>> \in S
  BY <1>3, <1>4
<1>10. KmainBadMagic \in S
  BY <1>2 DEF KmainBadMagic
<1> HIDE DEF S
<1>11. gdt_init \o <<Announce(2)>> \o idt_init \in S
  BY <1>1, <1>5, <1>6, <1>9
<1>12. gdt_init \o <<Announce(2)>> \o idt_init \o <<Announce(2)>> \o PMM_init \in S
  BY <1>1, <1>7, <1>9, <1>11
<1>13. gdt_init \o <<Announce(2)>> \o idt_init \o <<Announce(2)>> \o PMM_init
         \o <<Announce(3), Step("pit"), Announce(4), Step("keyboard"), Announce(1)>>
         \o load_initrd \in S
  BY <1>1, <1>8, <1>9, <1>12
<1>14. PICK a : a = gdt_init \o <<Announce(2)>> \o idt_init \o <<Announce(2)>> \o PMM_init
         \o <<Announce(3), Step("pit"), Announce(4), Step("keyboard"), Announce(1)>>
         \o load_initrd
  OBVIOUS
<1>15. a \in S /\ Kmain = a \o <<Step("enable_scheduling")>>
  BY <1>13, <1>14, Zenon DEF Kmain
<1> QED BY <1>10, <1>15, ScriptsMade DEF S

LEMMA LogInit == Init => LogInv
<1> SUFFICES ASSUME Init PROVE LogInv
  OBVIOUS
<1>1. stack \in Digits
  BY ConsoleAssumption DEF Init, Digits
<1>2. NoJob = [NoJob EXCEPT !.items = <<>>]
  BY DEF NoJob
<1>3. JobOK(NoJob, <<>>, stack)
  <2>1. JobOK([NoJob EXCEPT !.items = <<>>], <<>>, stack)
    BY <1>1, Formats, NewJob
  <2> QED BY <1>2, <2>1, Zenon
<1>4. NoJob \in JobType
  BY <1>3 DEF JobOK, JobShape
<1>5. job["boot"] = NoJob /\ job["handler"] = NoJob
  BY DEF Init, Jobs
<1>6. SerialInv
  <2>1. job \in [Jobs -> JobType] /\ owed \in [Jobs -> Seq(Chars)]
    BY <1>4 DEF Init
  <2>2. \A w \in Jobs : JobOK(job[w], owed[w], stack)
    BY <1>3 DEF Init
  <2>3. Depth(NoJob) = 0
    BY DEF Depth, NoJob
  <2>4. stack_idx = Depth(job["boot"]) + Depth(job["handler"])
    BY <1>5, <2>3 DEF Init
  <2> QED BY <1>1, <2>1, <2>2, <2>4 DEF Init, SerialInv
<1>7. Idle("boot") /\ Idle("handler")
  BY <1>5 DEF Idle, NoJob
<1>8. ScriptInv
  BY KmainOK DEF Init, ScriptInv
<1>9. HandlerInv
  BY <1>7 DEF Init, HandlerInv
<1>10. UartInv
  <2>1. \A w \in Jobs : job[w].phase = "format"
    BY DEF Init, NoJob
  <2>2. uart \in [_init : BOOLEAN, depth : {1, FIFO}, fifo : 0 .. FIFO]
    BY ConsoleAssumption DEF Init
  <2> QED BY <2>1, <2>2 DEF Init, UartInv, Jobs
<1> QED BY <1>6, <1>8, <1>9, <1>10 DEF LogInv
-----------------------------------------------------------------------------
(* The steps of kprintf keep it. *)

LEMMA DepthIs ==
    ASSUME NEW j, JobShape(j)
    PROVE  Depth(j) \in Nat
BY DEF Depth, JobShape, JobType

\* A running call that deals with digits is alone on the stack.
LEMMA AloneOnStack ==
    ASSUME LogInv, NEW w \in Jobs, w = Running,
           ~(serving = "keyboard" /\ w = "handler" /\ job[w].digits = 0)
    PROVE  /\ \A u \in Jobs : u # w => job[u].digits = 0
           /\ stack_idx = Depth(job[w])
<1>1. \A u \in Jobs : JobShape(job[u])
  BY DEF LogInv, SerialInv, JobOK
<1>2. \A u \in Jobs : Idle(u) => job[u].digits = 0 /\ Depth(job[u]) = 0
  BY <1>1 DEF Idle, JobShape, Depth
<1>3. Depth(job["boot"]) \in Nat /\ Depth(job["handler"]) \in Nat
  BY <1>1, DepthIs DEF Jobs
<1>4. stack_idx = Depth(job["boot"]) + Depth(job["handler"])
  BY DEF LogInv, SerialInv
<1>5. CASE w = "boot"
  <2>1. Idle("handler")
    BY <1>5 DEF Running, LogInv, HandlerInv
  <2>2. job["handler"].digits = 0 /\ Depth(job["handler"]) = 0
    BY <1>2, <2>1 DEF Jobs
  <2> QED BY <1>3, <1>4, <1>5, <2>2 DEF Jobs
<1>6. CASE w = "handler"
  <2>1. serving \in {"syscall", "fault"}
    BY <1>6 DEF Running, LogInv, HandlerInv, TextOnly
  <2>2. Idle("boot")
    BY <2>1 DEF LogInv, HandlerInv, ScriptInv
  <2>3. job["boot"].digits = 0 /\ Depth(job["boot"]) = 0
    BY <1>2, <2>2 DEF Jobs
  <2> QED BY <1>3, <1>4, <1>6, <2>3 DEF Jobs
<1> QED BY <1>5, <1>6 DEF Jobs

\* A call goes on from job[w] to k, owing p, with t on the stack.
LEMMA JobMoves ==
    ASSUME LogInv, NEW w \in Jobs, NEW k, NEW p, NEW t, t \in Digits,
           JobOK(k, p, t),
           job' = [job EXCEPT ![w] = k], owed' = [owed EXCEPT ![w] = p], stack' = t,
           t = stack \/ \A u \in Jobs : u # w => job[u].digits = 0,
           stack_idx' = (stack_idx - Depth(job[w])) + Depth(k),
           garbled' = FALSE
    PROVE  /\ SerialInv'
           /\ job'[w] = k /\ \A u \in Jobs : u # w => job'[u] = job[u]
<1>1. k \in JobType /\ p \in Seq(Chars)
  BY LeftIs DEF JobOK, JobShape
<1>2. job \in [Jobs -> JobType] /\ owed \in [Jobs -> Seq(Chars)]
  BY DEF LogInv, SerialInv
<1>3. /\ job'[w] = k /\ \A u \in Jobs : u # w => job'[u] = job[u]
      /\ owed'[w] = p /\ \A u \in Jobs : u # w => owed'[u] = owed[u]
  BY <1>2
<1>4. job' \in [Jobs -> JobType] /\ owed' \in [Jobs -> Seq(Chars)]
  BY <1>1, <1>2
<1>5. ASSUME NEW u \in Jobs PROVE JobOK(job'[u], owed'[u], stack')
  <2>1. CASE u = w
    BY <1>3, <2>1
  <2>2. CASE u # w
    <3>1. JobOK(job[u], owed[u], stack) /\ stack \in Digits
      BY DEF LogInv, SerialInv
    <3>2. JobOK(job[u], owed[u], t)
      BY <2>2, <3>1, StackUnseen
    <3> QED BY <1>3, <2>2, <3>2
  <2> QED BY <2>1, <2>2
<1>6. stack_idx' = Depth(job'["boot"]) + Depth(job'["handler"])
  <2>1. PICK a, b, c : a = Depth(job["boot"]) /\ b = Depth(job["handler"]) /\ c = Depth(k)
    OBVIOUS
  <2>2. a \in Nat /\ b \in Nat /\ c \in Nat
    BY <2>1, DepthIs DEF LogInv, SerialInv, JobOK, Jobs
  <2>3. stack_idx = a + b
    BY <2>1 DEF LogInv, SerialInv
  <2>4. CASE w = "boot"
    <3>1. stack_idx' = ((a + b) - a) + c
      BY <2>1, <2>3, <2>4
    <3>2. job'["boot"] = k /\ job'["handler"] = job["handler"]
      BY <1>3, <2>4 DEF Jobs
    <3> QED BY <2>1, <2>2, <3>1, <3>2
  <2>5. CASE w = "handler"
    <3>1. stack_idx' = ((a + b) - b) + c
      BY <2>1, <2>3, <2>5
    <3>2. job'["handler"] = k /\ job'["boot"] = job["boot"]
      BY <1>3, <2>5 DEF Jobs
    <3> QED BY <2>1, <2>2, <3>1, <3>2
  <2> QED BY <2>4, <2>5 DEF Jobs
<1>7. SerialInv'
  BY <1>4, <1>5, <1>6 DEF SerialInv
<1> QED BY <1>3, <1>7

\* The control around a call that goes on.
LEMMA ControlMoves ==
    ASSUME LogInv, NEW w \in Jobs, w = Running, ~Idle(w), NEW k,
           job'[w] = k, \A u \in Jobs : u # w => job'[u] = job[u],
           serving = "keyboard" /\ w = "handler" => TextOnly(k),
           UNCHANGED <<script, serving, sti, _init>>
    PROVE  ScriptInv' /\ HandlerInv'
<1>1. _init => w # "boot"
  BY DEF LogInv, ScriptInv
<1>2. _init => Idle("boot")'
  BY <1>1 DEF LogInv, ScriptInv, Idle, Jobs
<1>3. ScriptInv'
  BY <1>2 DEF LogInv, ScriptInv
<1>4. serving = "none" => w = "boot"
  BY DEF Running
<1>5. serving = "none" => Idle("handler")'
  BY <1>4 DEF LogInv, HandlerInv, Idle, Jobs
<1>6. serving = "keyboard" => w = "handler"
  BY DEF Running
<1>7. HandlerInv'
  BY <1>5, <1>6 DEF LogInv, HandlerInv
<1> QED BY <1>3, <1>7

\* A step within a call that neither polls nor writes leaves the UART.
LEMMA UartMoves ==
    ASSUME LogInv, NEW w \in Jobs, NEW k,
           job'[w] = k, \A u \in Jobs : u # w => job'[u] = job[u],
           k.phase # "out", UNCHANGED uart
    PROVE  UartInv'
BY DEF LogInv, UartInv, Jobs

LEMMA JobKnown ==
    ASSUME LogInv, NEW w \in Jobs
    PROVE  /\ JobOK(job[w], owed[w], stack) /\ stack \in Digits /\ job[w] \in JobType
           /\ owed = [owed EXCEPT ![w] = owed[w]] /\ garbled = FALSE /\ stack_idx \in Int
<1>1. /\ JobOK(job[w], owed[w], stack) /\ stack \in Digits /\ job[w] \in JobType
      /\ owed \in [Jobs -> Seq(Chars)] /\ garbled = FALSE
      /\ stack_idx = Depth(job["boot"]) + Depth(job["handler"])
  BY DEF LogInv, SerialInv
<1>2. Depth(job["boot"]) \in Nat /\ Depth(job["handler"]) \in Nat
  BY DepthIs DEF LogInv, SerialInv, JobOK, Jobs
<1>3. owed = [owed EXCEPT ![w] = owed[w]]
  BY <1>1
<1> QED BY <1>1, <1>2, <1>3

LEMMA KprintfKeeps ==
    ASSUME LogInv, NEW w \in Jobs, kprintf(w)
    PROVE  LogInv'
<1>1. PICK j, item : j = job[w] /\ item = Head(j.items)
  OBVIOUS
<1>2. /\ JobOK(j, owed[w], stack) /\ stack \in Digits /\ j \in JobType
      /\ garbled = FALSE /\ stack_idx \in Int
  BY <1>1, JobKnown
<1>3. /\ w = Running /\ j.phase = "format" /\ j.items # <<>> /\ ~Idle(w)
      /\ UNCHANGED <<uart, stack, stack_idx, garbled>>
      /\ UNCHANGED <<script, serving, sti, _init>>
  BY <1>1 DEF kprintf, SerialOnly, Idle
<1>4. PICK v \in Values :
        /\ owed' = [owed EXCEPT ![w] = @ \o Rendering(item, v)]
        /\ Steps(w, IF item.kind = "text" \/ (item.kind = "dec" /\ v = 0)
                    THEN [j EXCEPT !.items = Tail(@), !.item = item, !.phase = "poll",
                                   !.text = Rendering(item, v)]
                    ELSE [j EXCEPT !.items = Tail(@), !.item = item, !.phase = "push",
                                   !.value = v, !.digits = 0])
  BY <1>1 DEF kprintf
<1>5. v \in Nat
  <2>1. Power(2)[BITS] \in Nat
    BY ConsoleAssumption, PowerFacts
  <2>2. v \in 0 .. (Power(2)[BITS] - 1)
    BY ConsoleAssumption
  <2> QED BY <2>1, <2>2
<1>6. PICK r, p : r = Rendering(item, v) /\ p = owed[w] \o r
  OBVIOUS
<1>7. owed' = [owed EXCEPT ![w] = p]
  BY <1>4, <1>6, Zenon
<1>8. item \in Format /\ Tail(j.items) \in Seq(Format) /\ j.digits = 0
  <2>1. j.items \in Seq(Format)
    BY <1>2 DEF JobType
  <2>2. j.digits = 0
    BY <1>2, <1>3, NothingOwed
  <2> QED BY <1>1, <1>3, <2>1, <2>2
<1>9. serving = "keyboard" /\ w = "handler" =>
        item.kind = "text" /\ Tail(j.items) \in Seq(Texts)
  <2> SUFFICES ASSUME serving = "keyboard", w = "handler"
               PROVE  item.kind = "text" /\ Tail(j.items) \in Seq(Texts)
    OBVIOUS
  <2>1. j.items \in Seq(Texts)
    BY <1>1 DEF LogInv, HandlerInv, TextOnly
  <2>2. item \in Texts /\ Tail(j.items) \in Seq(Texts)
    BY <1>1, <1>3, <2>1
  <2> QED BY <1>8, <2>2, ItemKinds
<1>10. CASE item.kind = "text" \/ (item.kind = "dec" /\ v = 0)
  <2>1. PICK k : k = [j EXCEPT !.items = Tail(@), !.item = item, !.phase = "poll", !.text = r]
    OBVIOUS
  <2>2. job' = [job EXCEPT ![w] = k]
    BY <1>4, <1>6, <1>10, <2>1, Zenon DEF Steps
  <2>3. JobOK(k, p, stack)
    BY <1>1, <1>2, <1>3, <1>5, <1>6, <1>10, <2>1, TextStep
  <2>4. k.phase = "poll" /\ k.digits = 0 /\ k.items = Tail(j.items)
    BY <1>2, <1>8, <2>1 DEF JobType
  <2>5. Depth(k) = 0 /\ Depth(job[w]) = 0
    BY <1>1, <1>3, <1>8, <2>4 DEF Depth
  <2>6. stack_idx' = (stack_idx - Depth(job[w])) + Depth(k)
    BY <1>2, <1>3, <2>5
  <2>7. SerialInv' /\ job'[w] = k /\ \A u \in Jobs : u # w => job'[u] = job[u]
    BY <1>2, <1>3, <1>7, <2>2, <2>3, <2>6, JobMoves
  <2>8. serving = "keyboard" /\ w = "handler" => TextOnly(k)
    BY <1>9, <2>4 DEF TextOnly
  <2>9. ScriptInv' /\ HandlerInv'
    BY <1>3, <2>7, <2>8, ControlMoves
  <2>10. UartInv'
    BY <1>3, <2>4, <2>7, UartMoves
  <2> QED BY <2>7, <2>9, <2>10 DEF LogInv
<1>11. CASE ~(item.kind = "text" \/ (item.kind = "dec" /\ v = 0))
  <2>1. PICK k : k = [j EXCEPT !.items = Tail(@), !.item = item, !.phase = "push",
                               !.value = v, !.digits = 0]
    OBVIOUS
  <2>2. job' = [job EXCEPT ![w] = k]
    BY <1>4, <1>11, <2>1, Zenon DEF Steps
  <2>3. JobOK(k, p, stack)
    BY <1>1, <1>2, <1>3, <1>6, <1>11, <2>1, NumberStep
  <2>4. k.phase = "push" /\ k.digits = 0
    BY <1>2, <1>8, <2>1 DEF JobType
  <2>5. Depth(k) = 0 /\ Depth(job[w]) = 0
    BY <1>1, <1>3, <1>8, <2>4 DEF Depth
  <2>6. stack_idx' = (stack_idx - Depth(job[w])) + Depth(k)
    BY <1>2, <1>3, <2>5
  <2>7. SerialInv' /\ job'[w] = k /\ \A u \in Jobs : u # w => job'[u] = job[u]
    BY <1>2, <1>3, <1>7, <2>2, <2>3, <2>6, JobMoves
  <2>8. ~(serving = "keyboard" /\ w = "handler")
    BY <1>9, <1>11
  <2>9. ScriptInv' /\ HandlerInv'
    BY <1>3, <2>7, <2>8, ControlMoves
  <2>10. UartInv'
    BY <1>3, <2>4, <2>7, UartMoves
  <2> QED BY <2>7, <2>9, <2>10 DEF LogInv
<1> QED BY <1>10, <1>11

\* A call in the midst of a number is no keyboard handler's.
LEMMA NumberAlone ==
    ASSUME LogInv, NEW w \in Jobs, w = Running, job[w].phase \in {"push", "pop", "read"}
    PROVE  /\ ~Idle(w) /\ ~(serving = "keyboard" /\ w = "handler")
           /\ \A u \in Jobs : u # w => job[u].digits = 0
           /\ stack_idx = Depth(job[w])
<1>1. ~Idle(w) /\ ~(serving = "keyboard" /\ w = "handler")
  BY DEF Idle, LogInv, HandlerInv, TextOnly
<1> QED BY <1>1, AloneOnStack

LEMMA PushKeeps ==
    ASSUME LogInv, NEW w \in Jobs, push_digit(w)
    PROVE  LogInv'
<1>1. PICK j : j = job[w]
  OBVIOUS
<1>2. /\ JobOK(j, owed[w], stack) /\ stack \in Digits /\ j \in JobType /\ garbled = FALSE
      /\ owed = [owed EXCEPT ![w] = owed[w]]
  BY <1>1, JobKnown
<1>3. /\ w = Running /\ j.phase = "push" /\ j.value > 0
      /\ UNCHANGED <<uart, owed, garbled>>
      /\ UNCHANGED <<script, serving, sti, _init>>
      /\ stack_idx' = stack_idx + 1
  BY <1>1 DEF push_digit, SerialOnly
<1>4. /\ ~Idle(w) /\ ~(serving = "keyboard" /\ w = "handler")
      /\ \A u \in Jobs : u # w => job[u].digits = 0
      /\ stack_idx = Depth(j)
  BY <1>1, <1>3, NumberAlone
<1>5. stack_idx = j.digits /\ j.digits \in Nat
  BY <1>2, <1>3, <1>4 DEF Depth, JobType
<1>6. PICK t : t = [stack EXCEPT ![j.digits] = j.value % Base(j.item)]
  OBVIOUS
<1>7. stack' = t
  BY <1>1, <1>5, <1>6, Zenon DEF push_digit
<1>8. PICK k : k = [j EXCEPT !.value = @ \div Base(j.item), !.digits = @ + 1]
  OBVIOUS
<1>9. job' = [job EXCEPT ![w] = k]
  BY <1>1, <1>8, Zenon DEF push_digit, Steps
<1>10. /\ k \in JobType /\ k.phase = "push" /\ k.text = j.text /\ k.item = j.item
       /\ k.value = j.value \div Base(j.item) /\ k.digits = j.digits + 1
  <2>1. PICK u, n : u = j.value \div Base(j.item) /\ n = j.digits + 1
    OBVIOUS
  <2>2. u \in Nat /\ n \in Nat
    <3>1. j.value \in Nat /\ j.item \in Format
      BY <1>2 DEF JobType
    <3>2. Base(j.item) \in Nat \ {0}
      BY <3>1, ItemKinds
    <3>3. j.value \div Base(j.item) \in Nat
      BY <3>1, <3>2, Quotient
    <3>4. j.digits + 1 \in Nat
      BY <1>5
    <3> QED BY <2>1, <3>3, <3>4, Zenon
  <2>3. k = [j EXCEPT !.value = u, !.digits = n]
    BY <1>8, <2>1, Zenon
  <2>4. /\ k \in JobType /\ k.phase = "push" /\ k.text = j.text /\ k.item = j.item
        /\ k.value = u /\ k.digits = n
    BY <1>2, <1>3, <2>2, <2>3 DEF JobType
  <2> QED BY <2>1, <2>4, Zenon
<1>11. t \in Digits /\ JobOK(k, owed[w], t) /\ j.digits + 1 < STACK
  BY <1>2, <1>3, <1>6, <1>10, PushStep
<1>12. stack_idx' = (stack_idx - Depth(job[w])) + Depth(k)
  <2>1. Depth(k) = j.digits + 1 /\ Depth(job[w]) = j.digits
    BY <1>1, <1>3, <1>10 DEF Depth
  <2> QED BY <1>3, <1>5, <2>1
<1>13. SerialInv' /\ job'[w] = k /\ \A u \in Jobs : u # w => job'[u] = job[u]
  <2>1. owed' = [owed EXCEPT ![w] = owed[w]] /\ garbled' = FALSE
    BY <1>2, <1>3
  <2> QED BY <1>4, <1>7, <1>9, <1>11, <1>12, <2>1, JobMoves
<1>14. ScriptInv' /\ HandlerInv'
  BY <1>3, <1>4, <1>13, ControlMoves
<1>15. UartInv'
  BY <1>3, <1>10, <1>13, UartMoves
<1> QED BY <1>13, <1>14, <1>15 DEF LogInv

LEMMA PushedKeeps ==
    ASSUME LogInv, NEW w \in Jobs, pushed(w)
    PROVE  LogInv'
<1>1. PICK j : j = job[w]
  OBVIOUS
<1>2. /\ JobOK(j, owed[w], stack) /\ stack \in Digits /\ j \in JobType /\ garbled = FALSE
      /\ owed = [owed EXCEPT ![w] = owed[w]] /\ stack_idx \in Int
  BY <1>1, JobKnown
<1>3. /\ w = Running /\ j.phase = "push" /\ j.value = 0
      /\ UNCHANGED <<uart, stack, stack_idx, owed, garbled>>
      /\ UNCHANGED <<script, serving, sti, _init>>
  BY <1>1 DEF pushed, SerialOnly
<1>4. ~Idle(w) /\ ~(serving = "keyboard" /\ w = "handler")
  BY <1>1, <1>3, NumberAlone
<1>5. PICK p : p = Prefix(j.item, j.digits)
  OBVIOUS
<1>6. PICK k : k = [j EXCEPT !.text = p, !.phase = IF p = <<>> THEN "pop" ELSE "poll"]
  OBVIOUS
<1>7. job' = [job EXCEPT ![w] = k]
  BY <1>1, <1>5, <1>6, Zenon DEF pushed, Steps, Prefix, Zeros
<1>8. p \in Seq(Chars)
  BY <1>2, <1>5, PrefixIs DEF JobType
<1>9. /\ k \in JobType /\ k.digits = j.digits /\ k.text = p
      /\ k.phase = IF p = <<>> THEN "pop" ELSE "poll"
  BY <1>2, <1>6, <1>8 DEF JobType
<1>10. JobOK(k, owed[w], stack)
  BY <1>2, <1>3, <1>5, <1>9, PushedStep
<1>11. stack_idx' = (stack_idx - Depth(job[w])) + Depth(k)
  <2>1. Depth(k) = j.digits /\ Depth(job[w]) = j.digits /\ j.digits \in Nat
    BY <1>1, <1>2, <1>3, <1>9 DEF Depth, JobType
  <2> QED BY <1>2, <1>3, <2>1
<1>12. SerialInv' /\ job'[w] = k /\ \A u \in Jobs : u # w => job'[u] = job[u]
  <2>1. owed' = [owed EXCEPT ![w] = owed[w]] /\ garbled' = FALSE /\ stack' = stack
    BY <1>2, <1>3
  <2> QED BY <1>2, <1>7, <1>10, <1>11, <2>1, JobMoves
<1>13. ScriptInv' /\ HandlerInv'
  BY <1>3, <1>4, <1>12, ControlMoves
<1>14. UartInv'
  BY <1>3, <1>9, <1>12, UartMoves
<1> QED BY <1>12, <1>13, <1>14 DEF LogInv

LEMMA PopKeeps ==
    ASSUME LogInv, NEW w \in Jobs, pop_digit(w)
    PROVE  LogInv'
<1>1. PICK j : j = job[w]
  OBVIOUS
<1>2. /\ JobOK(j, owed[w], stack) /\ stack \in Digits /\ j \in JobType /\ garbled = FALSE
      /\ owed = [owed EXCEPT ![w] = owed[w]] /\ stack_idx \in Int
  BY <1>1, JobKnown
<1>3. /\ w = Running /\ j.phase = "pop"
      /\ UNCHANGED <<uart, stack, owed, garbled>>
      /\ UNCHANGED <<script, serving, sti, _init>>
      /\ stack_idx' = stack_idx - 1
  BY <1>1 DEF pop_digit, SerialOnly
<1>4. ~Idle(w) /\ ~(serving = "keyboard" /\ w = "handler")
  BY <1>1, <1>3, NumberAlone
<1>5. PICK k : k = [j EXCEPT !.phase = "read"]
  OBVIOUS
<1>6. job' = [job EXCEPT ![w] = k]
  BY <1>1, <1>5, Zenon DEF pop_digit, Steps
<1>7. k \in JobType /\ k.digits = j.digits /\ k.text = j.text /\ k.phase = "read"
  BY <1>2, <1>5 DEF JobType
<1>8. JobOK(k, owed[w], stack)
  BY <1>2, <1>3, <1>7, PhaseStep
<1>9. stack_idx' = (stack_idx - Depth(job[w])) + Depth(k)
  <2>1. Depth(k) = j.digits - 1 /\ Depth(job[w]) = j.digits /\ j.digits \in Nat
    BY <1>1, <1>2, <1>3, <1>7 DEF Depth, JobType
  <2> QED BY <1>2, <1>3, <2>1
<1>10. SerialInv' /\ job'[w] = k /\ \A u \in Jobs : u # w => job'[u] = job[u]
  <2>1. owed' = [owed EXCEPT ![w] = owed[w]] /\ garbled' = FALSE /\ stack' = stack
    BY <1>2, <1>3
  <2> QED BY <1>2, <1>6, <1>8, <1>9, <2>1, JobMoves
<1>11. ScriptInv' /\ HandlerInv'
  BY <1>3, <1>4, <1>10, ControlMoves
<1>12. UartInv'
  BY <1>3, <1>7, <1>10, UartMoves
<1> QED BY <1>10, <1>11, <1>12 DEF LogInv

LEMMA ReadKeeps ==
    ASSUME LogInv, NEW w \in Jobs, read_digit(w)
    PROVE  LogInv'
<1>1. PICK j : j = job[w]
  OBVIOUS
<1>2. /\ JobOK(j, owed[w], stack) /\ stack \in Digits /\ j \in JobType /\ garbled = FALSE
      /\ owed = [owed EXCEPT ![w] = owed[w]] /\ stack_idx \in Int
  BY <1>1, JobKnown
<1>3. /\ w = Running /\ j.phase = "read"
      /\ UNCHANGED <<uart, stack, stack_idx, owed, garbled>>
      /\ UNCHANGED <<script, serving, sti, _init>>
  BY <1>1 DEF read_digit, SerialOnly
<1>4. /\ ~Idle(w) /\ ~(serving = "keyboard" /\ w = "handler")
      /\ stack_idx = Depth(j)
  BY <1>1, <1>3, NumberAlone
<1>5. j.digits \in Nat /\ j.digits > 0 /\ j.digits < STACK /\ stack_idx = j.digits - 1
  BY <1>2, <1>3, <1>4 DEF JobOK, JobShape, JobType, Depth
<1>6. PICK z : z = <<Digit(stack[j.digits - 1])>>
  OBVIOUS
<1>7. PICK k : k = [j EXCEPT !.phase = "poll", !.digits = @ - 1, !.text = z]
  OBVIOUS
<1>8. job' = [job EXCEPT ![w] = k]
  BY <1>1, <1>5, <1>6, <1>7, Zenon DEF read_digit, Steps
<1>9. z \in Seq(Chars)
  <2>1. j.digits - 1 \in 0 .. (STACK - 1)
    BY <1>5, ConsoleAssumption
  <2>2. stack[j.digits - 1] \in 0 .. 15
    BY <1>2, <2>1 DEF Digits
  <2>3. stack[j.digits - 1] \in Nat
    BY <2>2
  <2>4. Digit(stack[j.digits - 1]) \in Chars
    BY <2>3, DigitChar
  <2> QED BY <1>6, <2>4, OneChar, Zenon
<1>10. k \in JobType /\ k.digits = j.digits - 1 /\ k.text = z /\ k.phase = "poll"
  <2>1. j.digits - 1 \in Nat
    BY <1>5
  <2> QED BY <1>2, <1>7, <1>9, <2>1 DEF JobType
<1>11. JobOK(k, owed[w], stack)
  BY <1>2, <1>3, <1>6, <1>10, ReadStep
<1>12. stack_idx' = (stack_idx - Depth(job[w])) + Depth(k)
  <2>1. Depth(k) = j.digits - 1 /\ Depth(job[w]) = j.digits - 1
    BY <1>1, <1>3, <1>10 DEF Depth
  <2> QED BY <1>3, <1>5, <2>1
<1>13. SerialInv' /\ job'[w] = k /\ \A u \in Jobs : u # w => job'[u] = job[u]
  <2>1. owed' = [owed EXCEPT ![w] = owed[w]] /\ garbled' = FALSE /\ stack' = stack
    BY <1>2, <1>3
  <2> QED BY <1>2, <1>8, <1>11, <1>12, <2>1, JobMoves
<1>14. ScriptInv' /\ HandlerInv'
  BY <1>3, <1>4, <1>13, ControlMoves
<1>15. UartInv'
  BY <1>3, <1>10, <1>13, UartMoves
<1> QED BY <1>13, <1>14, <1>15 DEF LogInv

LEMMA PollKeeps ==
    ASSUME LogInv, NEW w \in Jobs, write_char_polls(w)
    PROVE  LogInv'
<1>1. PICK j : j = job[w]
  OBVIOUS
<1>2. /\ JobOK(j, owed[w], stack) /\ stack \in Digits /\ j \in JobType /\ garbled = FALSE
      /\ owed = [owed EXCEPT ![w] = owed[w]] /\ stack_idx \in Int
  BY <1>1, JobKnown
<1>3. /\ w = Running /\ j.phase = "poll" /\ ~Idle(w)
      /\ UNCHANGED <<stack, stack_idx, owed, garbled>>
      /\ UNCHANGED <<script, serving, sti, _init>>
      /\ uart.fifo = 0
      /\ uart' = IF uart._init THEN uart ELSE init_serial(uart)
  BY <1>1 DEF write_char_polls, SerialOnly, Idle, is_transmit_empty, init_serial
<1>4. PICK k : k = [j EXCEPT !.phase = "out"]
  OBVIOUS
<1>5. job' = [job EXCEPT ![w] = k]
  BY <1>1, <1>4, Zenon DEF write_char_polls, Steps
<1>6. /\ k \in JobType /\ k.phase = "out"
      /\ k.digits = j.digits /\ k.text = j.text /\ k.items = j.items
  BY <1>2, <1>4 DEF JobType
<1>7. JobOK(k, owed[w], stack)
  BY <1>2, <1>3, <1>6, PhaseStep
<1>8. stack_idx' = (stack_idx - Depth(job[w])) + Depth(k)
  <2>1. Depth(k) = j.digits /\ Depth(job[w]) = j.digits /\ j.digits \in Nat
    BY <1>1, <1>2, <1>3, <1>6 DEF Depth, JobType
  <2> QED BY <1>2, <1>3, <2>1
<1>9. SerialInv' /\ job'[w] = k /\ \A u \in Jobs : u # w => job'[u] = job[u]
  <2>1. owed' = [owed EXCEPT ![w] = owed[w]] /\ garbled' = FALSE /\ stack' = stack
    BY <1>2, <1>3
  <2> QED BY <1>2, <1>5, <1>7, <1>8, <2>1, JobMoves
<1>10. serving = "keyboard" /\ w = "handler" => TextOnly(k)
  BY <1>1, <1>6 DEF LogInv, HandlerInv, TextOnly
<1>11. ScriptInv' /\ HandlerInv'
  BY <1>3, <1>9, <1>10, ControlMoves
<1>12. /\ uart' \in [_init : BOOLEAN, depth : {1, FIFO}, fifo : 0 .. FIFO]
       /\ uart'._init = TRUE /\ uart'.depth = FIFO /\ uart'.fifo = 0
  <2>1. uart \in [_init : BOOLEAN, depth : {1, FIFO}, fifo : 0 .. FIFO]
        /\ uart.depth = IF uart._init THEN FIFO ELSE 1
    BY DEF LogInv, UartInv
  <2>2. CASE uart._init
    BY <1>3, <2>1, <2>2
  <2>3. CASE ~uart._init
    BY <1>3, <2>1, <2>3 DEF init_serial
  <2> QED BY <2>2, <2>3
<1>13. UartInv'
  BY <1>12 DEF UartInv
<1> QED BY <1>9, <1>11, <1>13 DEF LogInv

LEMMA SendKeeps ==
    ASSUME LogInv, NEW w \in Jobs, write_char_sends(w)
    PROVE  LogInv'
<1>1. PICK j, o : j = job[w] /\ o = owed[w]
  OBVIOUS
<1>2. /\ JobOK(j, o, stack) /\ stack \in Digits /\ j \in JobType /\ garbled = FALSE
      /\ stack_idx \in Int
  BY <1>1, JobKnown
<1>3. /\ w = Running /\ j.phase = "out" /\ ~Idle(w)
      /\ UNCHANGED <<stack, stack_idx>>
      /\ UNCHANGED <<script, serving, sti, _init>>
  BY <1>1 DEF write_char_sends, SerialOnly, Idle
<1>4. PICK t : t = Tail(j.text)
  OBVIOUS
<1>5. PICK k : k = [j EXCEPT !.text = t,
                             !.phase = IF t # <<>> THEN "poll"
                                       ELSE IF j.digits > 0 THEN "pop" ELSE "format"]
  OBVIOUS
<1>6. job' = [job EXCEPT ![w] = k]
  BY <1>1, <1>4, <1>5, Zenon DEF write_char_sends, Steps
<1>7. t \in Seq(Chars)
  <2>1. j.text \in Seq(Chars) /\ j.text # <<>>
    BY <1>2, <1>3 DEF JobOK, JobShape, JobType
  <2> QED BY <1>4, <2>1
<1>8. /\ k \in JobType /\ k.digits = j.digits /\ k.text = t /\ k.items = j.items
      /\ k.phase = IF t # <<>> THEN "poll" ELSE IF j.digits > 0 THEN "pop" ELSE "format"
  <2>1. PICK f : f = IF t # <<>> THEN "poll" ELSE IF j.digits > 0 THEN "pop" ELSE "format"
    OBVIOUS
  <2>2. f \in {"poll", "pop", "format"}
    BY <2>1
  <2>3. k = [j EXCEPT !.text = t, !.phase = f]
    BY <1>5, <2>1
  <2>4. k \in JobType /\ k.digits = j.digits /\ k.text = t /\ k.items = j.items /\ k.phase = f
    BY <1>2, <1>7, <2>2, <2>3 DEF JobType
  <2> QED BY <2>1, <2>4
<1>9. o # <<>> /\ Head(o) = Head(j.text) /\ JobOK(k, Tail(o), stack)
  BY <1>2, <1>3, <1>4, <1>8, SendStep
<1>10. uart.fifo < uart.depth /\ uart.fifo \in 0 .. 1 /\ uart.fifo + 1 \in 0 .. FIFO
  <2>1. uart.depth = FIFO
    BY <1>1, <1>3 DEF LogInv, UartInv
  <2>2. uart.fifo <= 1 /\ uart.fifo \in 0 .. FIFO
    BY <1>1, <1>3 DEF LogInv, UartInv, Jobs
  <2>3. FIFO \in Nat /\ FIFO > 1
    BY ConsoleAssumption
  <2> QED BY <2>1, <2>2, <2>3
<1>11. /\ uart' = [uart EXCEPT !.fifo = @ + 1]
       /\ garbled' = FALSE /\ owed' = [owed EXCEPT ![w] = Tail(o)]
  BY <1>1, <1>2, <1>9, <1>10, Zenon DEF write_char_sends
<1>12. stack_idx' = (stack_idx - Depth(job[w])) + Depth(k)
  <2>1. Depth(k) = j.digits /\ Depth(job[w]) = j.digits /\ j.digits \in Nat
    BY <1>1, <1>2, <1>3, <1>8 DEF Depth, JobType
  <2> QED BY <1>2, <1>3, <2>1
<1>13. SerialInv' /\ job'[w] = k /\ \A u \in Jobs : u # w => job'[u] = job[u]
  <2>1. stack' = stack
    BY <1>3
  <2> QED BY <1>2, <1>6, <1>9, <1>11, <1>12, <2>1, JobMoves
<1>14. serving = "keyboard" /\ w = "handler" => TextOnly(k)
  <2>1. serving = "keyboard" /\ w = "handler" => j.digits = 0 /\ j.items \in Seq(Texts)
    BY <1>1 DEF LogInv, HandlerInv, TextOnly
  <2>2. j.digits = 0 => k.phase \in {"poll", "format"}
    BY <1>8
  <2> QED BY <1>8, <2>1, <2>2 DEF TextOnly
<1>15. ScriptInv' /\ HandlerInv'
  BY <1>3, <1>13, <1>14, ControlMoves
<1>16. /\ uart' \in [_init : BOOLEAN, depth : {1, FIFO}, fifo : 0 .. FIFO]
       /\ uart'._init = uart._init /\ uart'.depth = uart.depth /\ uart'.fifo = uart.fifo + 1
  <2>1. uart \in [_init : BOOLEAN, depth : {1, FIFO}, fifo : 0 .. FIFO]
    BY DEF LogInv, UartInv
  <2> QED BY <1>10, <1>11, <2>1
<1>17. UartInv'
  <2>1. k.phase # "out"
    BY <1>8
  <2>2. uart._init /\ uart.depth = FIFO
    BY <1>1, <1>3 DEF LogInv, UartInv
  <2>3. job'["handler"].phase # "out"
    <3>1. CASE w = "handler"
      BY <1>13, <2>1, <3>1
    <3>2. CASE w = "boot"
      <4>1. Idle("handler")
        BY <1>3, <3>2 DEF Running, LogInv, HandlerInv
      <4> QED BY <1>13, <3>2, <4>1 DEF Idle, Jobs
    <3> QED BY <3>1, <3>2 DEF Jobs
  <2>4. job'["boot"].phase = "out" => uart.fifo = 0
    <3>1. CASE w = "handler"
      BY <1>1, <1>3, <3>1 DEF LogInv, UartInv
    <3>2. CASE w = "boot"
      BY <1>13, <2>1, <3>2
    <3> QED BY <3>1, <3>2 DEF Jobs
  <2>5. job'["boot"].phase = "out" => uart'.fifo <= 1
    BY <1>16, <2>4
  <2> QED BY <1>16, <2>2, <2>3, <2>5 DEF UartInv
<1> QED BY <1>13, <1>15, <1>17 DEF LogInv

LEMMA DrainKeeps ==
    ASSUME LogInv, Drain
    PROVE  LogInv'
<1>1. /\ uart.fifo > 0 /\ uart' = [uart EXCEPT !.fifo = @ - 1]
      /\ UNCHANGED <<stack, stack_idx, job, owed, garbled>>
      /\ UNCHANGED <<script, serving, sti, _init>>
  BY DEF Drain, SerialOnly
<1>2. uart \in [_init : BOOLEAN, depth : {1, FIFO}, fifo : 0 .. FIFO]
  BY DEF LogInv, UartInv
<1>3. uart.fifo - 1 \in 0 .. FIFO /\ uart.fifo \in Nat
  BY <1>1, <1>2, ConsoleAssumption
<1>4. /\ uart' \in [_init : BOOLEAN, depth : {1, FIFO}, fifo : 0 .. FIFO]
      /\ uart'._init = uart._init /\ uart'.depth = uart.depth /\ uart'.fifo = uart.fifo - 1
  BY <1>1, <1>2, <1>3
<1>5. /\ ~uart._init => uart'.fifo = 0
      /\ job["boot"].phase = "out" => uart'.fifo <= 1
      /\ job["handler"].phase = "out" => uart'.fifo = 0
  BY <1>1, <1>3, <1>4 DEF LogInv, UartInv
<1>6. UartInv'
  BY <1>1, <1>4, <1>5 DEF LogInv, UartInv
<1>7. SerialInv'
  BY <1>1 DEF LogInv, SerialInv
<1>8. ScriptInv' /\ HandlerInv'
  BY <1>1 DEF LogInv, ScriptInv, HandlerInv, Idle
<1> QED BY <1>6, <1>7, <1>8 DEF LogInv
-----------------------------------------------------------------------------
(* So do the steps of kmain and of the interrupts. *)

LEMMA ScriptShorter ==
    ASSUME NEW sc, ScriptOK(sc), sc # <<>>
    PROVE  /\ Head(sc) \in Command /\ Head(sc) = sc[1] /\ ScriptOK(Tail(sc))
           /\ Head(sc).op = "enable_scheduling" => Tail(sc) = <<>>
<1>1. sc \in Seq(Command) /\ Len(sc) \in Nat /\ Len(sc) > 0
  BY DEF ScriptOK
<1>2. PICK h, u : h = Head(sc) /\ u = Tail(sc)
  OBVIOUS
<1>3. /\ h \in Command /\ h = sc[1] /\ u \in Seq(Command) /\ Len(u) = Len(sc) - 1
      /\ \A i \in 1 .. Len(u) : u[i] = sc[i + 1]
  BY <1>1, <1>2
<1>4. ASSUME NEW i \in 1 .. Len(u)
      PROVE  /\ u[i].op = "announce" => u[i].letters > 0
             /\ u[i].op = "screen" => i = 1
             /\ u[i].op = "enable_scheduling" => i = Len(u)
  <2>1. PICK n : n = i + 1
    OBVIOUS
  <2>2. n \in 1 .. Len(sc) /\ n # 1 /\ (n = Len(sc) => i = Len(u))
    BY <1>1, <1>3, <2>1
  <2>3. u[i] = sc[n]
    BY <1>3, <2>1
  <2>4. /\ sc[n].op = "announce" => sc[n].letters > 0
        /\ sc[n].op = "screen" => n = 1
        /\ sc[n].op = "enable_scheduling" => n = Len(sc)
    BY <2>2 DEF ScriptOK
  <2> QED BY <2>2, <2>3, <2>4
<1>5. ScriptOK(u)
  BY <1>3, <1>4 DEF ScriptOK
<1>6. h.op = "enable_scheduling" => u = <<>>
  <2> SUFFICES ASSUME h.op = "enable_scheduling" PROVE u = <<>>
    OBVIOUS
  <2>1. 1 \in 1 .. Len(sc)
    BY <1>1
  <2>2. sc[1].op = "enable_scheduling" => 1 = Len(sc)
    BY <2>1 DEF ScriptOK
  <2>3. Len(u) = 0
    BY <1>3, <2>2
  <2> QED BY <1>3, <2>3
<1> QED BY <1>2, <1>3, <1>5, <1>6

\* The first step is replaced by a turn at the screen.
LEMMA ScriptScreen ==
    ASSUME NEW sc, ScriptOK(sc), sc # <<>>, NEW c \in Command, c.op = "screen"
    PROVE  ScriptOK(<<c>> \o Tail(sc))
<1>1. sc \in Seq(Command) /\ Len(sc) \in Nat /\ Len(sc) > 0
  BY DEF ScriptOK
<1>2. PICK t : t = <<c>> \o Tail(sc)
  OBVIOUS
<1>3. /\ Tail(sc) \in Seq(Command) /\ Len(Tail(sc)) = Len(sc) - 1
      /\ \A i \in 1 .. Len(Tail(sc)) : Tail(sc)[i] = sc[i + 1]
  BY <1>1
<1>4. /\ t \in Seq(Command) /\ Len(t) = Len(sc) /\ t[1] = c
      /\ \A i \in 1 .. Len(sc) : i # 1 => t[i] = sc[i]
  <2>1. PICK u : u = Tail(sc)
    OBVIOUS
  <2>2. t \in Seq(Command) /\ Len(t) = 1 + Len(u) /\ t[1] = c
        /\ \A i \in 1 .. Len(u) : t[i + 1] = u[i]
    BY <1>2, <1>3, <2>1
  <2>3. ASSUME NEW i \in 1 .. Len(sc), i # 1 PROVE t[i] = sc[i]
    <3>1. i - 1 \in 1 .. Len(u) /\ (i - 1) + 1 = i
      BY <1>1, <1>3, <2>1, <2>3
    <3> QED BY <1>3, <2>1, <2>2, <3>1
  <2> QED BY <1>1, <1>3, <2>1, <2>2, <2>3
<1>5. ScriptOK(t)
  BY <1>4 DEF ScriptOK
<1> QED BY <1>2, <1>5

\* A step of kmain that prints nothing.
LEMMA BootSteps ==
    ASSUME LogInv, UNCHANGED <<uart, stack, stack_idx, job, owed, garbled, serving>>,
           ScriptOK(script'), sti' \in BOOLEAN, _init' \in BOOLEAN,
           _init' => script' = <<>> /\ Idle("boot"),
           serving = "none"
    PROVE  LogInv'
<1>1. UartInv' /\ SerialInv'
  BY DEF LogInv, UartInv, SerialInv
<1>2. ScriptInv' /\ HandlerInv'
  BY DEF LogInv, ScriptInv, HandlerInv, Idle
<1> QED BY <1>1, <1>2 DEF LogInv

LEMMA BootReadyIs ==
    ASSUME LogInv, NEW op, BootReady(op)
    PROVE  /\ serving = "none" /\ Idle("boot") /\ script # <<>> /\ Head(script).op = op
           /\ _init = FALSE /\ ScriptOK(script) /\ Head(script) \in Command
           /\ ScriptOK(Tail(script))
           /\ op = "enable_scheduling" => Tail(script) = <<>>
<1>1. serving = "none" /\ Idle("boot") /\ script # <<>> /\ Head(script).op = op
  BY DEF BootReady
<1>2. _init = FALSE /\ ScriptOK(script)
  BY <1>1 DEF LogInv, ScriptInv, HandlerInv
<1> QED BY <1>1, <1>2, ScriptShorter

LEMMA BeginLineKeeps ==
    ASSUME LogInv, NEW op \in {"log", "announce"}, BeginLine(op)
    PROVE  LogInv'
<1>1. /\ serving = "none" /\ Idle("boot") /\ script # <<>> /\ Head(script).op = op
      /\ _init = FALSE /\ ScriptOK(script) /\ Head(script) \in Command
      /\ ScriptOK(Tail(script))
  BY BootReadyIs DEF BeginLine
<1>2. /\ UNCHANGED <<uart, stack, stack_idx, owed, garbled>>
      /\ UNCHANGED <<serving, sti, _init>>
  BY DEF BeginLine, SerialIdle
<1>3. "boot" \in Jobs
  BY DEF Jobs
<1>4. /\ JobOK(job["boot"], owed["boot"], stack) /\ stack \in Digits /\ job["boot"] \in JobType
      /\ owed = [owed EXCEPT !["boot"] = owed["boot"]] /\ garbled = FALSE /\ stack_idx \in Int
  BY <1>3, JobKnown
<1>5. owed["boot"] = <<>> /\ job["boot"].digits = 0 /\ job["boot"].phase = "format"
  BY <1>1, <1>4, NothingOwed DEF Idle
<1>6. PICK items : items = Head(script).items
  OBVIOUS
<1>7. items \in Seq(Format)
  BY <1>1, <1>6 DEF Command
<1>8. PICK k : k = [NoJob EXCEPT !.items = items]
  OBVIOUS
<1>9. JobOK(k, owed["boot"], stack)
  BY <1>4, <1>5, <1>7, <1>8, NewJob
<1>10. job' = [job EXCEPT !["boot"] = k]
  BY <1>6, <1>8, Zenon DEF BeginLine, Steps
<1>11. k.phase = "format" /\ k.digits = 0
  BY <1>8 DEF NoJob
<1>12. stack_idx' = (stack_idx - Depth(job["boot"])) + Depth(k)
  <2>1. Depth(k) = 0 /\ Depth(job["boot"]) = 0
    BY <1>5, <1>11 DEF Depth
  <2> QED BY <1>2, <1>4, <2>1
<1>13. SerialInv' /\ job'["boot"] = k /\ \A u \in Jobs : u # "boot" => job'[u] = job[u]
  <2>1. owed' = [owed EXCEPT !["boot"] = owed["boot"]] /\ garbled' = FALSE /\ stack' = stack
    BY <1>2, <1>4
  <2> QED BY <1>3, <1>4, <1>9, <1>10, <1>12, <2>1, JobMoves
<1>14. ScriptOK(script')
  <2>1. CASE op = "log"
    <3>1. script' = Tail(script)
      BY <2>1 DEF BeginLine
    <3> QED BY <1>1, <3>1
  <2>2. CASE op = "announce"
    <3>1. PICK c : c = [Head(script) EXCEPT !.op = "screen"]
      OBVIOUS
    <3>2. script' = <<c>> \o Tail(script)
      BY <2>2, <3>1, Zenon DEF BeginLine
    <3>3. c \in Command /\ c.op = "screen"
      BY <1>1, <3>1 DEF Command
    <3> QED BY <1>1, <3>2, <3>3, ScriptScreen
  <2> QED BY <2>1, <2>2
<1>15. ScriptInv'
  BY <1>1, <1>2, <1>14 DEF ScriptInv
<1>16. HandlerInv'
  <2>1. Idle("handler")'
    BY <1>1, <1>13 DEF LogInv, HandlerInv, Idle, Jobs
  <2> QED BY <1>1, <1>2, <2>1 DEF LogInv, HandlerInv
<1>17. UartInv'
  BY <1>2, <1>3, <1>11, <1>13, UartMoves
<1> QED BY <1>13, <1>15, <1>16, <1>17 DEF LogInv

LEMMA BootsKeep ==
    ASSUME LogInv, Boots
    PROVE  LogInv'
<1>1. CASE log
  BY <1>1, BeginLineKeeps DEF log
<1>2. CASE announce
  BY <1>2, BeginLineKeeps DEF announce
<1>3. sti \in BOOLEAN /\ _init \in BOOLEAN
  BY DEF LogInv, HandlerInv
<1>4. CASE announce_screen
  <2>1. /\ serving = "none" /\ Idle("boot") /\ script # <<>> /\ Head(script).op = "screen"
        /\ _init = FALSE /\ ScriptOK(script) /\ Head(script) \in Command
        /\ ScriptOK(Tail(script))
    BY <1>4, BootReadyIs DEF announce_screen
  <2>2. /\ UNCHANGED <<uart, stack, stack_idx, job, owed, garbled, serving>>
        /\ UNCHANGED <<sti, _init>>
    BY <1>4 DEF announce_screen, SerialIdle
  <2>3. PICK n : n = Head(script).letters
    OBVIOUS
  <2>4. n \in Nat
    BY <2>1, <2>3 DEF Command
  <2>5. ScriptOK(script')
    <3>1. \/ n > 0 /\ script' = <<[Head(script) EXCEPT !.letters = n - 1]>> \o Tail(script)
          \/ script' = Tail(script)
      BY <1>4, <2>3, Zenon DEF announce_screen
    <3>2. CASE script' = Tail(script)
      BY <2>1, <3>2
    <3>3. CASE n > 0 /\ script' = <<[Head(script) EXCEPT !.letters = n - 1]>> \o Tail(script)
      <4>1. PICK c : c = [Head(script) EXCEPT !.letters = n - 1]
        OBVIOUS
      <4>2. n - 1 \in Nat
        BY <2>4, <3>3
      <4>3. c \in Command /\ c.op = "screen"
        BY <2>1, <4>1, <4>2 DEF Command
      <4> QED BY <2>1, <3>3, <4>1, <4>3, ScriptScreen
    <3> QED BY <3>1, <3>2, <3>3
  <2> QED BY <1>3, <2>1, <2>2, <2>5, BootSteps
<1>5. CASE enable_interrupts
  <2>1. serving = "none" /\ _init = FALSE /\ ScriptOK(Tail(script))
    BY <1>5, BootReadyIs DEF enable_interrupts
  <2>2. /\ UNCHANGED <<uart, stack, stack_idx, job, owed, garbled, serving>>
        /\ sti' = TRUE /\ _init' = _init /\ script' = Tail(script)
    BY <1>5 DEF enable_interrupts, SerialIdle
  <2> QED BY <2>1, <2>2, BootSteps
<1>6. CASE program_pit
  <2>1. serving = "none" /\ _init = FALSE /\ ScriptOK(Tail(script)) /\ ScriptOK(script)
    BY <1>6, BootReadyIs DEF program_pit
  <2>2. /\ UNCHANGED <<uart, stack, stack_idx, job, owed, garbled, serving>>
        /\ sti' = sti /\ _init' = _init
    BY <1>6 DEF program_pit, SerialIdle
  <2>3. script' = Tail(script) \/ script' = script
    BY <1>6, Zenon DEF program_pit
  <2> QED BY <1>3, <2>1, <2>2, <2>3, BootSteps
<1>7. CASE keyboard
  <2>1. serving = "none" /\ _init = FALSE /\ ScriptOK(Tail(script))
    BY <1>7, BootReadyIs DEF keyboard
  <2>2. /\ UNCHANGED <<uart, stack, stack_idx, job, owed, garbled, serving>>
        /\ sti' = sti /\ _init' = _init /\ script' = Tail(script)
    BY <1>7 DEF keyboard, SerialIdle
  <2> QED BY <1>3, <2>1, <2>2, BootSteps
<1>8. CASE enable_scheduling
  <2>1. /\ serving = "none" /\ Idle("boot") /\ ScriptOK(Tail(script)) /\ Tail(script) = <<>>
    BY <1>8, BootReadyIs DEF enable_scheduling
  <2>2. /\ UNCHANGED <<uart, stack, stack_idx, job, owed, garbled, serving>>
        /\ sti' = sti /\ _init' = TRUE /\ script' = Tail(script)
    BY <1>8 DEF enable_scheduling, SerialIdle
  <2> QED BY <1>3, <2>1, <2>2, BootSteps
<1> QED BY <1>1, <1>2, <1>4, <1>5, <1>6, <1>7, <1>8 DEF Boots

LEMMA TextsOfHandlers ==
    /\ KeyboardText \in Seq(Texts) /\ KeyboardText \in Seq(Format)
    /\ SyscallText \in Seq(Format) /\ FaultText \in Seq(Format)
<1>1. <<Text(Letter)>> \in Seq(Texts) /\ <<>> \in Seq(Texts) /\ <<Text(LineEnd)>> \in Seq(Texts)
  BY DEF Texts
<1>2. <<Text(Letter)>> \o <<>> \in Seq(Texts)
  BY <1>1, ConcatProperties
<1>3. KeyboardText \in Seq(Texts)
  BY <1>1, <1>2, ConcatProperties DEF KeyboardText, Line
<1>4. /\ Line(<<>>) \in Seq(Format) /\ Line(<<Decimal>>) \in Seq(Format)
      /\ Line(<<Hex>>) \in Seq(Format)
  BY Formats, LogOrdinary
<1>5. SyscallText \in Seq(Format)
  BY <1>4, ConcatProperties DEF SyscallText
<1>6. Line(<<>>) \o Line(<<Hex>>) \in Seq(Format)
  BY <1>4, ConcatProperties
<1>7. FaultText \in Seq(Format)
  BY <1>4, <1>6, ConcatProperties DEF FaultText
<1> QED BY <1>3, <1>4, <1>5, <1>7 DEF KeyboardText

LEMMA InterruptedKeeps ==
    ASSUME LogInv, NEW what \in {"keyboard", "syscall", "fault"}, NEW text \in Seq(Format),
           Interrupted(what, text),
           IF what = "keyboard" THEN text \in Seq(Texts) ELSE _init
    PROVE  LogInv'
<1>1. /\ UNCHANGED <<uart, stack, stack_idx, owed, garbled>>
      /\ UNCHANGED <<script, sti, _init>> /\ serving' = what /\ serving = "none"
  BY DEF Interrupted, SerialIdle
<1>2. "handler" \in Jobs
  BY DEF Jobs
<1>3. /\ JobOK(job["handler"], owed["handler"], stack) /\ stack \in Digits
      /\ owed = [owed EXCEPT !["handler"] = owed["handler"]] /\ garbled = FALSE
      /\ stack_idx \in Int
  BY <1>2, JobKnown
<1>4. Idle("handler")
  BY <1>1 DEF LogInv, HandlerInv
<1>5. owed["handler"] = <<>> /\ job["handler"].digits = 0 /\ job["handler"].phase = "format"
  BY <1>3, <1>4, NothingOwed DEF Idle
<1>6. PICK k : k = [NoJob EXCEPT !.items = text]
  OBVIOUS
<1>7. JobOK(k, owed["handler"], stack)
  BY <1>3, <1>5, <1>6, NewJob
<1>8. job' = [job EXCEPT !["handler"] = k]
  BY <1>6, Zenon DEF Interrupted, Steps
<1>9. k.phase = "format" /\ k.digits = 0 /\ k.items = text
  BY <1>6 DEF NoJob
<1>10. stack_idx' = (stack_idx - Depth(job["handler"])) + Depth(k)
  <2>1. Depth(k) = 0 /\ Depth(job["handler"]) = 0
    BY <1>5, <1>9 DEF Depth
  <2> QED BY <1>1, <1>3, <2>1
<1>11. SerialInv' /\ job'["handler"] = k /\ \A u \in Jobs : u # "handler" => job'[u] = job[u]
  <2>1. owed' = [owed EXCEPT !["handler"] = owed["handler"]] /\ garbled' = FALSE /\ stack' = stack
    BY <1>1, <1>3
  <2> QED BY <1>2, <1>3, <1>7, <1>8, <1>10, <2>1, JobMoves
<1>12. job'["boot"] = job["boot"]
  BY <1>11 DEF Jobs
<1>13. ScriptInv'
  BY <1>1, <1>12 DEF LogInv, ScriptInv, Idle
<1>14. what = "keyboard" => TextOnly(k)
  BY <1>9 DEF TextOnly
<1>15. HandlerInv'
  BY <1>1, <1>11, <1>14 DEF LogInv, HandlerInv
<1>16. UartInv'
  BY <1>1, <1>2, <1>9, <1>11, UartMoves
<1> QED BY <1>11, <1>13, <1>15, <1>16 DEF LogInv

LEMMA LogNext == LogInv /\ [Next]_vars => LogInv'
<1> SUFFICES ASSUME LogInv, [Next]_vars PROVE LogInv'
  OBVIOUS
<1>1. ASSUME NEW w \in Jobs, Prints(w) PROVE LogInv'
  BY <1>1, KprintfKeeps, PushKeeps, PushedKeeps, PopKeeps, ReadKeeps, PollKeeps, SendKeeps
     DEF Prints
<1>2. CASE Drain
  BY <1>2, DrainKeeps
<1>3. CASE Boots
  BY <1>3, BootsKeep
<1>4. CASE keyboard_interrupt
  BY <1>4, TextsOfHandlers, InterruptedKeeps DEF keyboard_interrupt
<1>5. CASE syscall
  BY <1>5, TextsOfHandlers, InterruptedKeeps DEF syscall
<1>6. CASE fault
  BY <1>6, TextsOfHandlers, InterruptedKeeps DEF fault
<1>7. CASE HandlerReturns
  <2>1. /\ UNCHANGED <<uart, stack, stack_idx, owed, garbled, job, script, sti, _init>>
        /\ serving' = "none" /\ Idle("handler")
    BY <1>7 DEF HandlerReturns, SerialIdle
  <2>2. UartInv' /\ SerialInv' /\ ScriptInv'
    BY <2>1 DEF LogInv, UartInv, SerialInv, ScriptInv, Idle
  <2>3. HandlerInv'
    BY <2>1 DEF LogInv, HandlerInv, Idle
  <2> QED BY <2>2, <2>3 DEF LogInv
<1>8. CASE UNCHANGED vars
  <2>1. UartInv' /\ SerialInv' /\ ScriptInv' /\ HandlerInv'
    BY <1>8 DEF vars, LogInv, UartInv, SerialInv, ScriptInv, HandlerInv, Idle
  <2> QED BY <2>1 DEF LogInv
<1> QED BY <1>1, <1>2, <1>3, <1>4, <1>5, <1>6, <1>7, <1>8 DEF Next

LEMMA SpecLog == Spec => []LogInv
BY LogInit, LogNext, PTL DEF Spec

LEMMA LogGivesType == LogInv => TypeOK
<1> SUFFICES ASSUME LogInv PROVE TypeOK
  OBVIOUS
<1>1. stack_idx \in 0 .. (STACK - 1)
  <2>1. ASSUME NEW w \in Jobs PROVE Depth(job[w]) \in Nat /\ Depth(job[w]) < STACK
    <3>1. JobShape(job[w])
      BY DEF LogInv, SerialInv, JobOK
    <3>2. Depth(job[w]) \in Nat
      BY <3>1, DepthIs
    <3>3. job[w].digits \in Nat /\ job[w].digits < STACK /\ STACK \in Nat
      BY <3>1, ConsoleAssumption DEF JobShape, JobType
    <3> QED BY <3>2, <3>3 DEF Depth
  <2>2. stack_idx = Depth(job["boot"]) + Depth(job["handler"])
    BY DEF LogInv, SerialInv
  <2>3. Depth(job["boot"]) = 0 \/ Depth(job["handler"]) = 0
    <3>1. \A w \in Jobs : JobShape(job[w])
      BY DEF LogInv, SerialInv, JobOK
    <3>2. CASE Idle("boot")
      BY <3>1, <3>2 DEF Idle, JobShape, Depth, Jobs
    <3>3. CASE ~Idle("boot")
      <4>1. serving \in {"none", "keyboard"}
        BY <3>3 DEF LogInv, HandlerInv, ScriptInv
      <4>2. CASE serving = "none"
        <5>1. Idle("handler")
          BY <4>2 DEF LogInv, HandlerInv
        <5> QED BY <3>1, <5>1 DEF Idle, JobShape, Depth, Jobs
      <4>3. CASE serving = "keyboard"
        <5>1. TextOnly(job["handler"])
          BY <4>3 DEF LogInv, HandlerInv
        <5> QED BY <5>1 DEF TextOnly, Depth
      <4> QED BY <4>1, <4>2, <4>3
    <3> QED BY <3>2, <3>3
  <2>4. STACK \in Nat
    BY ConsoleAssumption
  <2> QED BY <2>1, <2>2, <2>3, <2>4 DEF Jobs
<1>2. stack \in [0 .. (STACK - 1) -> 0 .. 15]
  BY DEF LogInv, SerialInv, Digits
<1>3. \A w \in Jobs : job[w].phase \in {"format", "push", "poll", "out", "pop", "read"}
  BY DEF LogInv, SerialInv, JobType
<1>4. uart.fifo <= uart.depth /\ uart \in [_init : BOOLEAN, depth : {1, FIFO}, fifo : 0 .. FIFO]
  <2>1. uart \in [_init : BOOLEAN, depth : {1, FIFO}, fifo : 0 .. FIFO]
    BY DEF LogInv, UartInv
  <2>2. uart.fifo \in 0 .. FIFO /\ FIFO \in Nat
    BY <2>1, ConsoleAssumption
  <2>3. CASE uart._init
    BY <2>1, <2>2, <2>3 DEF LogInv, UartInv
  <2>4. CASE ~uart._init
    BY <2>1, <2>2, <2>4 DEF LogInv, UartInv
  <2> QED BY <2>1, <2>3, <2>4
<1>5. garbled \in BOOLEAN /\ sti \in BOOLEAN /\ _init \in BOOLEAN
      /\ serving \in {"none", "keyboard", "syscall", "fault"}
  BY DEF LogInv, SerialInv, HandlerInv
<1> QED BY <1>1, <1>2, <1>3, <1>4, <1>5 DEF TypeOK

\* The state of the output keeps its types for numbers of any width, and the
\* index of the shared digit array never leaves it: print_dec and print_hex pop
\* what they push, and no two of their calls ever overlap.
THEOREM TypeCorrect == Spec => []TypeOK
BY SpecLog, LogGivesType, PTL

\* Whatever is printed and whenever handlers interrupt kmain, no character is
\* lost or altered on its way to the serial line, and every number comes out in
\* positional notation.
THEOREM LogReadableHolds == Spec => []LogReadable
<1>1. LogInv => LogReadable
  <2> SUFFICES ASSUME LogInv PROVE LogReadable
    OBVIOUS
  <2>1. ASSUME NEW w \in Jobs, Idle(w) PROVE owed[w] = <<>>
    BY <2>1, JobKnown, NothingOwed DEF Idle
  <2>2. ~garbled
    BY DEF LogInv, SerialInv
  <2> QED BY <2>1, <2>2 DEF LogReadable
<1> QED BY <1>1, SpecLog, PTL
-----------------------------------------------------------------------------
(* The screen. *)

VgaType == [init : BOOLEAN, x : 0 .. (WIDTH - 1), y : 0 .. HEIGHT, fault : BOOLEAN,
            cells : [Cells -> Nat]]

\* Of p letters, the last ones are on the screen.
ShowsLast(v, p) ==
    \E k \in 1 .. (p + 1) :
        /\ p > 0 => k <= p
        /\ Shown(v) = {Character(n) : n \in k .. p}

\* No letter stands behind the cursor, which is below the screen only at the
\* beginning of a line.
ScreenOK(v, p) ==
    /\ v \in VgaType /\ v.fault = FALSE
    /\ v.y = HEIGHT => v.x = 0
    /\ ~v.init => v.x = 0 /\ v.y = 0
    /\ ShowsLast(v, p)
    /\ InReadingOrder(v)
    /\ \A c \in Showing(v) : c <= WIDTH * v.y + v.x

\* A line that is being written and has no letter left had one: the cursor is on
\* the screen when it ends.
ScreenInv ==
    /\ printed \in Nat /\ ScreenOK(vga, printed)
    /\ script # <<>> /\ Head(script).op = "screen" /\ Head(script).letters = 0
           => vga.y < HEIGHT

LEMMA Measures ==
    /\ WIDTH \in Nat /\ WIDTH > 1 /\ HEIGHT \in Nat /\ HEIGHT > 0 /\ PAGE_CELLS \in Nat
    /\ WIDTH * HEIGHT \in Nat /\ PAGE_CELLS >= WIDTH * HEIGHT
    /\ Screen \subseteq Cells
<1>1. /\ WIDTH \in Nat /\ WIDTH > 1 /\ HEIGHT \in Nat /\ HEIGHT > 0 /\ PAGE_CELLS \in Nat
      /\ PAGE_CELLS >= WIDTH * HEIGHT
  BY VgaAssumption
<1>2. PICK a : a = WIDTH * HEIGHT
  OBVIOUS
<1>3. a \in Nat
  BY <1>1, <1>2
<1>4. Screen \subseteq Cells
  BY <1>1, <1>2, <1>3 DEF Screen, Cells
<1> QED BY <1>1, <1>2, <1>3, <1>4

\* The cells of line y; those of the next one follow.
LEMMA CellOf ==
    ASSUME NEW y \in 0 .. (HEIGHT - 1), NEW x \in 0 .. (WIDTH - 1)
    PROVE  /\ WIDTH * y \in Nat /\ WIDTH * (y + 1) = WIDTH * y + WIDTH
           /\ WIDTH * y + x \in Screen /\ WIDTH * y + x \in Cells
<1>1. WIDTH \in Nat /\ HEIGHT \in Nat /\ y \in Nat /\ x \in Nat /\ x < WIDTH
  BY Measures
<1>2. PICK d : d = HEIGHT - (y + 1)
  OBVIOUS
<1>3. d \in Nat /\ HEIGHT = y + 1 + d
  BY <1>1, <1>2
<1>4. PICK a, b, e : a = WIDTH * y /\ b = WIDTH * d /\ e = WIDTH * HEIGHT
  OBVIOUS
<1>5. a \in Nat /\ b \in Nat
  BY <1>1, <1>3, <1>4
<1>6. WIDTH * (y + 1) = a + WIDTH
  BY <1>1, <1>4
<1>7. e = a + WIDTH + b
  <2>1. WIDTH * (y + 1 + d) = WIDTH * y + WIDTH + WIDTH * d
    BY <1>1, <1>3
  <2> QED BY <1>3, <1>4, <2>1
<1>8. a + x \in 0 .. (e - 1)
  BY <1>1, <1>5, <1>7
<1> QED BY <1>4, <1>5, <1>6, <1>8, Measures DEF Screen

\* The letter p + 1 is put at q, behind all others, which stay or move up by d
\* cells; the first d are lost.
LEMMA LetterPlaced ==
    ASSUME NEW p \in Nat, NEW v, NEW u, NEW q \in Screen, NEW d \in Nat,
           v.cells \in [Cells -> Nat], ShowsLast(v, p), InReadingOrder(v),
           u.cells \in [Cells -> Nat], u.cells[q] = Character(p + 1),
           \A c \in Showing(u) : c # q => c < q /\ c + d \in Showing(v)
                                          /\ u.cells[c] = v.cells[c + d],
           \A c \in Showing(v) : c >= d => c - d \in Screen /\ c - d < q
                                          /\ u.cells[c - d] = v.cells[c]
    PROVE  ShowsLast(u, p + 1) /\ InReadingOrder(u) /\ \A c \in Showing(u) : c <= q
<1> Screen \subseteq Nat
  BY Measures DEF Screen
<1>1. PICK k \in 1 .. (p + 1) : Shown(v) = {Character(n) : n \in k .. p}
  BY DEF ShowsLast
<1>2. \A c \in Showing(v) : \E n \in k .. p : v.cells[c] = Character(n)
  BY <1>1 DEF Shown
<1>3. \A n \in k .. p : \E c \in Showing(v) : v.cells[c] = Character(n)
  BY <1>1 DEF Shown
<1>4. \A c \in Showing(v) : c \in Screen /\ v.cells[c] \notin {Blank, Firmware}
  BY DEF Showing
<1>5. \A c \in Showing(v) : c >= d => c - d \in Showing(u)
  BY <1>4 DEF Showing
<1>6. q \in Showing(u)
  BY DEF Showing, Character, Blank, Firmware
<1>7. \A c \in Showing(u) : c <= q /\ c \in Nat
  BY DEF Showing
<1>8. InReadingOrder(u)
  <2> SUFFICES ASSUME NEW a \in Showing(u), NEW b \in Showing(u), a < b
               PROVE  u.cells[a] < u.cells[b]
    BY DEF InReadingOrder
  <2>1. a < q /\ a + d \in Showing(v) /\ u.cells[a] = v.cells[a + d]
    BY <1>7
  <2>2. CASE b = q
    <3>1. PICK n \in k .. p : v.cells[a + d] = Character(n)
      BY <1>2, <2>1
    <3> QED BY <2>1, <2>2, <3>1 DEF Character
  <2>3. CASE b # q
    <3>1. b + d \in Showing(v) /\ u.cells[b] = v.cells[b + d]
      BY <2>3
    <3>2. a + d < b + d
      BY <1>7
    <3> QED BY <2>1, <3>1, <3>2 DEF InReadingOrder
  <2> QED BY <2>2, <2>3
<1>9. ShowsLast(u, p + 1)
  <2> DEFINE Stays(n) == \E c \in Showing(v) : c >= d /\ v.cells[c] = Character(n)
             S == {n \in k .. (p + 1) : n = p + 1 \/ (n <= p /\ Stays(n))}
  <2>1. S \subseteq Nat /\ p + 1 \in S
    OBVIOUS
  <2>2. PICK l \in S : \A n \in S : l <= n
    BY <2>1, LeastNumber
  <2>3. l \in 1 .. (p + 1) /\ l >= k
    OBVIOUS
  <2>4. ASSUME NEW c \in Showing(u) PROVE \E n \in l .. (p + 1) : u.cells[c] = Character(n)
    <3>1. CASE c = q
      BY <2>3, <3>1
    <3>2. CASE c # q
      <4>1. c + d \in Showing(v) /\ u.cells[c] = v.cells[c + d] /\ c \in Nat
        BY <1>7, <3>2
      <4>2. PICK n \in k .. p : v.cells[c + d] = Character(n)
        BY <1>2, <4>1
      <4>3. c + d >= d
        BY <4>1
      <4>4. n \in S
        BY <4>1, <4>2, <4>3
      <4>5. l <= n
        BY <2>2, <4>4
      <4> HIDE DEF S
      <4> QED BY <2>3, <4>1, <4>2, <4>5
    <3> QED BY <3>1, <3>2
  <2>5. ASSUME NEW n \in l .. (p + 1) PROVE \E c \in Showing(u) : u.cells[c] = Character(n)
    <3>1. CASE n = p + 1
      BY <1>6, <3>1
    <3>2. CASE n # p + 1
      <4>1. n \in k .. p /\ l \in k .. p /\ l <= n
        BY <2>3, <3>2
      <4>2. PICK c \in Showing(v) : v.cells[c] = Character(n)
        BY <1>3, <4>1
      <4>3. PICK e \in Showing(v) : e >= d /\ v.cells[e] = Character(l)
        BY <2>2, <4>1
      <4>4. c \in Nat /\ e \in Nat
        BY <1>4
      <4>5. ~(c < e)
        <5> HIDE DEF S
        <5> SUFFICES ASSUME c < e PROVE FALSE
          OBVIOUS
        <5>1. v.cells[c] < v.cells[e]
          BY DEF InReadingOrder
        <5> QED BY <4>1, <4>2, <4>3, <5>1 DEF Character
      <4>6. c >= d
        BY <4>3, <4>4, <4>5
      <4>7. c - d \in Showing(u) /\ u.cells[c - d] = v.cells[c]
        BY <1>5, <4>6
      <4> QED BY <4>2, <4>7
    <3> QED BY <3>1, <3>2
  <2> HIDE DEF S
  <2>6. Shown(u) = {Character(n) : n \in l .. (p + 1)}
    BY <2>4, <2>5 DEF Shown
  <2> QED BY <2>3, <2>6 DEF ShowsLast
<1> QED BY <1>7, <1>8, <1>9

\* u is v with ch put into line b, column a, behind all letters, which stay or have
\* moved up by d cells.
Placed(v, u, ch, a, b, d) ==
    /\ a \in 0 .. (WIDTH - 1) /\ b \in 0 .. (HEIGHT - 1) /\ d \in Nat
    /\ u \in VgaType /\ u.init = TRUE /\ u.x = a /\ u.y = b /\ u.fault = FALSE
    /\ u.cells[WIDTH * b + a] = ch
    /\ \A c \in Showing(u) : c # WIDTH * b + a =>
           c < WIDTH * b + a /\ c + d \in Showing(v) /\ u.cells[c] = v.cells[c + d]
    /\ \A c \in Showing(v) : c >= d =>
           c - d \in Screen /\ c - d < WIDTH * b + a /\ u.cells[c - d] = v.cells[c]

Ready(r, a, b) ==
    /\ a \in 0 .. (WIDTH - 1) /\ b \in 0 .. (HEIGHT - 1)
    /\ r \in VgaType /\ r.init = TRUE /\ r.x = a /\ r.y = b /\ r.fault = FALSE

LEMMA Inserted ==
    ASSUME NEW r, NEW a, NEW b, Ready(r, a, b), NEW ch \in Nat,
           NEW u, u = insert_char(r, ch, a, b)
    PROVE  /\ WIDTH * b + a \in Screen
           /\ Ready(u, a, b) /\ u.cells[WIDTH * b + a] = ch
           /\ \A c \in Cells : c # WIDTH * b + a => u.cells[c] = r.cells[c]
<1>1. PICK q : q = WIDTH * b + a
  OBVIOUS
<1>2. q \in Screen /\ q \in Cells
  BY <1>1, CellOf DEF Ready
<1>3. u = [r EXCEPT !.cells[q] = ch]
  BY <1>1, <1>2 DEF insert_char
<1>4. r.cells \in [Cells -> Nat]
  BY DEF Ready, VgaType
<1>5. PICK f : f = [r.cells EXCEPT ![q] = ch]
  OBVIOUS
<1>6. f \in [Cells -> Nat] /\ f[q] = ch /\ \A c \in Cells : c # q => f[c] = r.cells[c]
  BY <1>2, <1>4, <1>5
<1>7. u = [r EXCEPT !.cells = f]
  BY <1>3, <1>5
<1>8. Ready(u, a, b) /\ u.cells = f
  BY <1>6, <1>7 DEF Ready, VgaType
<1> QED BY <1>1, <1>2, <1>6, <1>8

\* Without a scroll, the cell is the next one or begins the next line.
LEMMA PlacedBehind ==
    ASSUME NEW v, NEW r, NEW a, NEW b, Ready(r, a, b), r.cells = v.cells,
           NEW ch \in Nat, NEW u, u = insert_char(r, ch, a, b),
           NEW o \in Nat, \A c \in Showing(v) : c <= o, o < WIDTH * b + a
    PROVE  Placed(v, u, ch, a, b, 0)
<1>1. PICK q : q = WIDTH * b + a
  OBVIOUS
<1>2. /\ q \in Screen /\ Ready(u, a, b) /\ u.cells[q] = ch
      /\ \A c \in Cells : c # q => u.cells[c] = v.cells[c]
  <2>1. /\ WIDTH * b + a \in Screen
        /\ Ready(u, a, b) /\ u.cells[WIDTH * b + a] = ch
        /\ \A c \in Cells : c # WIDTH * b + a => u.cells[c] = r.cells[c]
    BY Inserted
  <2> QED BY <1>1, <2>1
<1>3. Screen \subseteq Cells /\ Screen \subseteq Nat
  BY Measures DEF Screen
<1>4. \A c \in Showing(v) : c < q /\ c \in Screen /\ c \in Nat
  BY <1>1, <1>2, <1>3 DEF Showing
<1>5. \A c \in Showing(u) : c # q => c \in Showing(v)
  BY <1>2, <1>3 DEF Showing
<1>6. \A c \in Showing(v) : u.cells[c] = v.cells[c] /\ c + 0 = c /\ c - 0 = c
  BY <1>2, <1>3, <1>4
<1>7. \A c \in Showing(u) : c # q =>
          c < q /\ c + 0 \in Showing(v) /\ u.cells[c] = v.cells[c + 0]
  BY <1>4, <1>5, <1>6, Zenon
<1>8. \A c \in Showing(v) : c >= 0 =>
          c - 0 \in Screen /\ c - 0 < q /\ u.cells[c - 0] = v.cells[c]
  BY <1>4, <1>6, Zenon
<1>9. 0 \in Nat
  OBVIOUS
<1> QED BY <1>1, <1>2, <1>7, <1>8, <1>9, Zenon DEF Placed, Ready

\* A scroll frees the last line.
LEMMA PlacedBelow ==
    ASSUME NEW v, NEW m, m \in VgaType, m.init = TRUE, m.fault = FALSE, m.y = HEIGHT,
           m.cells = v.cells, NEW ch \in Nat,
           NEW u, u = insert_char(scroll_screen(m), ch, 0, HEIGHT - 1)
    PROVE  /\ Placed(v, u, ch, 0, HEIGHT - 1, WIDTH)
           /\ scroll_screen(m).x = 0 /\ scroll_screen(m).y = HEIGHT - 1
<1>1. PICK r, h : r = scroll_screen(m) /\ h = HEIGHT - 1
  OBVIOUS
<1>2. /\ WIDTH \in Nat /\ WIDTH > 1 /\ HEIGHT \in Nat /\ HEIGHT > 0
      /\ Screen \subseteq Cells /\ Screen \subseteq Nat
  BY Measures DEF Screen
<1>3. PICK e, z : e = WIDTH * h /\ z = WIDTH * HEIGHT
  OBVIOUS
<1>4. h \in 0 .. (HEIGHT - 1) /\ 0 \in 0 .. (WIDTH - 1) /\ h + 1 = HEIGHT
  BY <1>1, <1>2
<1>5. e \in Nat /\ z = e + WIDTH /\ WIDTH * h + 0 = e
  <2>1. WIDTH * h \in Nat /\ WIDTH * (h + 1) = WIDTH * h + WIDTH
    BY <1>4, CellOf
  <2> QED BY <1>3, <1>4, <2>1
<1>6. v.cells \in [Cells -> Nat]
  BY DEF VgaType
<1>7. PICK up : up = [c \in Cells |-> IF c < e THEN v.cells[c + WIDTH]
                                      ELSE IF c < z THEN Blank ELSE v.cells[c]]
  OBVIOUS
<1>8. r = [m EXCEPT !.cells = up, !.y = HEIGHT - 1, !.x = 0]
  BY <1>1, <1>3, <1>7 DEF scroll_screen
<1>9. \A c \in Screen : c < z /\ c \in Cells /\ c \in Nat
  BY <1>2, <1>3, <1>5 DEF Screen
<1>10. \A c \in Cells : c < e => c + WIDTH \in Screen
  BY <1>2, <1>3, <1>5 DEF Cells, Screen
<1>11. up \in [Cells -> Nat]
  BY <1>2, <1>6, <1>7, <1>10 DEF Blank
<1>12. Ready(r, 0, h) /\ r.cells = up
  <2>1. r = [m EXCEPT !.cells = up, !.y = h, !.x = 0] /\ h \in 0 .. HEIGHT
    BY <1>1, <1>2, <1>4, <1>8
  <2>2. /\ r.cells = up /\ r.x = 0 /\ r.y = h /\ r.init = TRUE /\ r.fault = FALSE
        /\ r \in VgaType
    BY <1>4, <1>11, <2>1 DEF VgaType
  <2> QED BY <1>4, <2>2 DEF Ready
<1>13. u = insert_char(r, ch, 0, h)
  BY <1>1
<1>14. /\ e \in Screen /\ Ready(u, 0, h) /\ u.cells[e] = ch
       /\ \A c \in Cells : c # e => u.cells[c] = up[c]
  <2>1. /\ WIDTH * h + 0 \in Screen
        /\ Ready(u, 0, h) /\ u.cells[WIDTH * h + 0] = ch
        /\ \A c \in Cells : c # WIDTH * h + 0 => u.cells[c] = r.cells[c]
    BY <1>12, <1>13, Inserted
  <2> QED BY <1>5, <1>12, <2>1
<1>15. \A c \in Screen : c < e => u.cells[c] = v.cells[c + WIDTH] /\ c + WIDTH \in Screen
  <2> SUFFICES ASSUME NEW c \in Screen, c < e
               PROVE  u.cells[c] = v.cells[c + WIDTH] /\ c + WIDTH \in Screen
    OBVIOUS
  <2>1. c \in Cells /\ c # e
    BY <1>5, <1>9
  <2>2. u.cells[c] = up[c] /\ up[c] = v.cells[c + WIDTH]
    BY <1>7, <1>14, <2>1
  <2> QED BY <1>10, <2>1, <2>2
<1>16. \A c \in Screen : c > e => u.cells[c] = Blank
  <2> SUFFICES ASSUME NEW c \in Screen, c > e PROVE u.cells[c] = Blank
    OBVIOUS
  <2>1. c \in Cells /\ c # e /\ ~(c < e) /\ c < z
    BY <1>5, <1>9
  <2> QED BY <1>7, <1>14, <2>1
<1>17. ASSUME NEW c \in Showing(u), c # e
       PROVE  c < e /\ c + WIDTH \in Showing(v) /\ u.cells[c] = v.cells[c + WIDTH]
  <2>1. c \in Screen /\ u.cells[c] # Blank /\ u.cells[c] \notin {Blank, Firmware}
    BY DEF Showing
  <2>2. c < e
    BY <1>5, <1>9, <1>16, <1>17, <2>1
  <2>3. c + WIDTH \in Screen /\ u.cells[c] = v.cells[c + WIDTH]
    BY <1>15, <2>1, <2>2
  <2> QED BY <2>1, <2>2, <2>3 DEF Showing
<1>18. ASSUME NEW c \in Showing(v), c >= WIDTH
       PROVE  c - WIDTH \in Screen /\ c - WIDTH < e /\ u.cells[c - WIDTH] = v.cells[c]
  <2>1. c \in Screen /\ c \in Nat /\ c < z
    BY <1>9 DEF Showing
  <2>2. c - WIDTH \in Nat /\ c - WIDTH < e /\ (c - WIDTH) + WIDTH = c /\ c - WIDTH < z
    BY <1>2, <1>5, <1>18, <2>1
  <2>3. c - WIDTH \in Screen
    BY <1>3, <1>5, <2>2 DEF Screen
  <2> QED BY <1>15, <2>2, <2>3
<1>19. r.x = 0 /\ r.y = h
  BY <1>12 DEF Ready
<1>20. Placed(v, u, ch, 0, h, WIDTH)
  BY <1>2, <1>5, <1>14, <1>17, <1>18, Zenon DEF Placed, Ready
<1> QED BY <1>1, <1>19, <1>20

LEMMA LetterWritten ==
    ASSUME NEW p \in Nat, NEW v, ScreenOK(v, p)
    PROVE  /\ ScreenOK(write_char(v, Character(p + 1)), p + 1)
           /\ write_char(v, Character(p + 1)).y < HEIGHT
<1>1. PICK ch, u : ch = Character(p + 1) /\ u = write_char(v, ch)
  OBVIOUS
<1>2. WIDTH \in Nat /\ WIDTH > 1 /\ HEIGHT \in Nat /\ HEIGHT > 0
  BY Measures
<1>3. ch \in Nat /\ ch # NewLine
  BY <1>1 DEF Character, NewLine
<1>4. PICK x, y : x = v.x /\ y = v.y
  OBVIOUS
<1>5. /\ v \in VgaType /\ v.fault = FALSE /\ v.cells \in [Cells -> Nat]
      /\ x \in 0 .. (WIDTH - 1) /\ y \in 0 .. HEIGHT
      /\ ShowsLast(v, p) /\ InReadingOrder(v)
      /\ \A c \in Showing(v) : c <= WIDTH * y + x
  BY <1>4 DEF ScreenOK, VgaType
<1>6. y = HEIGHT => x = 0
  BY <1>4 DEF ScreenOK
<1>7. ~v.init => x = 0 /\ y = 0
  BY <1>4 DEF ScreenOK
<1>8. PICK s : s = IF v.init THEN v ELSE init_vga(v)
  OBVIOUS
<1>9. /\ s \in VgaType /\ s.init = TRUE /\ s.x = x /\ s.y = y /\ s.fault = FALSE
      /\ s.cells = v.cells
  BY <1>4, <1>5, <1>7, <1>8, <1>2 DEF init_vga, VgaType
<1>10. PICK m : m = IF s.x + 1 >= WIDTH THEN [s EXCEPT !.x = 0, !.y = @ + 1]
                    ELSE [s EXCEPT !.x = @ + 1]
  OBVIOUS
<1>11. PICK r : r = IF m.y >= HEIGHT THEN scroll_screen(m) ELSE m
  OBVIOUS
<1>12. u = insert_char(r, ch, r.x, r.y)
  BY <1>1, <1>3, <1>8, <1>10, <1>11 DEF write_char
<1>13. /\ m \in VgaType /\ m.init = TRUE /\ m.fault = FALSE /\ m.cells = v.cells
       /\ x + 1 >= WIDTH => m.x = 0 /\ m.y = y + 1
       /\ x + 1 < WIDTH => m.x = x + 1 /\ m.y = y
  <2>1. CASE x + 1 >= WIDTH
    <3>1. m = [s EXCEPT !.x = 0, !.y = y + 1] /\ y + 1 \in 0 .. HEIGHT /\ 0 \in 0 .. (WIDTH - 1)
      BY <1>2, <1>5, <1>6, <1>9, <1>10, <2>1
    <3>2. ~(x + 1 < WIDTH)
      BY <1>2, <1>5, <2>1
    <3>3. /\ m \in VgaType /\ m.init = TRUE /\ m.fault = FALSE /\ m.cells = v.cells
          /\ m.x = 0 /\ m.y = y + 1
      BY <1>9, <3>1 DEF VgaType
    <3> QED BY <3>2, <3>3
  <2>2. CASE ~(x + 1 >= WIDTH)
    <3>1. m = [s EXCEPT !.x = x + 1] /\ x + 1 \in 0 .. (WIDTH - 1)
      BY <1>2, <1>5, <1>9, <1>10, <2>2
    <3>2. x + 1 < WIDTH
      BY <1>2, <1>5, <2>2
    <3>3. /\ m \in VgaType /\ m.init = TRUE /\ m.fault = FALSE /\ m.cells = v.cells
          /\ m.x = x + 1 /\ m.y = y
      BY <1>9, <3>1 DEF VgaType
    <3> QED BY <2>2, <3>3
  <2> QED BY <2>1, <2>2
<1>14. m.y \in 0 .. HEIGHT
  BY <1>13 DEF VgaType
<1>15. \E a, b, d : Placed(v, u, ch, a, b, d)
  <2>1. CASE m.y < HEIGHT /\ x + 1 < WIDTH
    <3>1. r = m /\ m.x = x + 1 /\ m.y = y /\ y \in 0 .. (HEIGHT - 1) /\ x + 1 \in 0 .. (WIDTH - 1)
      BY <1>2, <1>5, <1>11, <1>13, <2>1
    <3>2. Ready(r, x + 1, y) /\ r.cells = v.cells /\ u = insert_char(r, ch, x + 1, y)
      BY <1>12, <1>13, <3>1 DEF Ready
    <3>3. WIDTH * y \in Nat
      BY <1>5, <3>1, CellOf
    <3>4. WIDTH * y + x < WIDTH * y + (x + 1) /\ WIDTH * y + x \in Nat
      BY <1>5, <3>3
    <3>5. Placed(v, u, ch, x + 1, y, 0)
      BY <1>3, <1>5, <3>2, <3>4, PlacedBehind
    <3> QED BY <3>5, Zenon
  <2>2. CASE m.y < HEIGHT /\ x + 1 >= WIDTH
    <3>1. /\ r = m /\ m.x = 0 /\ m.y = y + 1 /\ 0 \in 0 .. (WIDTH - 1)
          /\ y \in 0 .. (HEIGHT - 1) /\ y + 1 \in 0 .. (HEIGHT - 1)
      BY <1>2, <1>5, <1>11, <1>13, <2>2
    <3>2. Ready(r, 0, y + 1) /\ r.cells = v.cells /\ u = insert_char(r, ch, 0, y + 1)
      BY <1>12, <1>13, <3>1 DEF Ready
    <3>3. WIDTH * y \in Nat /\ WIDTH * (y + 1) = WIDTH * y + WIDTH
      BY <1>5, <3>1, CellOf
    <3>4. WIDTH * y + x < WIDTH * (y + 1) + 0 /\ WIDTH * y + x \in Nat
      BY <1>2, <1>5, <3>3
    <3>5. Placed(v, u, ch, 0, y + 1, 0)
      BY <1>3, <1>5, <3>2, <3>4, PlacedBehind
    <3> QED BY <3>5, Zenon
  <2>3. CASE m.y >= HEIGHT
    <3>1. m.y = HEIGHT /\ r = scroll_screen(m)
      BY <1>2, <1>11, <1>14, <2>3
    <3>2. PICK t : t = insert_char(scroll_screen(m), ch, 0, HEIGHT - 1)
      OBVIOUS
    <3>3. /\ Placed(v, t, ch, 0, HEIGHT - 1, WIDTH)
          /\ scroll_screen(m).x = 0 /\ scroll_screen(m).y = HEIGHT - 1
      BY <1>3, <1>13, <3>1, <3>2, PlacedBelow
    <3>4. t = u
      BY <1>12, <3>1, <3>2, <3>3
    <3> QED BY <3>3, <3>4, Zenon
  <2> QED BY <1>2, <1>5, <1>14, <2>1, <2>2, <2>3
<1>16. PICK a, b, d : Placed(v, u, ch, a, b, d)
  BY <1>15
<1>17. PICK q : q = WIDTH * b + a
  OBVIOUS
<1>18. q \in Screen
  BY <1>16, <1>17, CellOf DEF Placed
<1>19. ShowsLast(u, p + 1) /\ InReadingOrder(u) /\ \A c \in Showing(u) : c <= q
  <2>1. d \in Nat /\ u.cells \in [Cells -> Nat] /\ u.cells[q] = Character(p + 1)
    BY <1>1, <1>16, <1>17 DEF VgaType, Placed
  <2>2. /\ \A c \in Showing(u) : c # q =>
                c < q /\ c + d \in Showing(v) /\ u.cells[c] = v.cells[c + d]
        /\ \A c \in Showing(v) : c >= d =>
                c - d \in Screen /\ c - d < q /\ u.cells[c - d] = v.cells[c]
    BY <1>16, <1>17, Zenon DEF Placed
  <2> QED BY <1>5, <1>18, <2>1, <2>2, LetterPlaced
<1>20. /\ u \in VgaType /\ u.init = TRUE /\ u.x = a /\ u.y = b /\ u.fault = FALSE
       /\ b < HEIGHT /\ b # HEIGHT
  BY <1>2, <1>16 DEF Placed
<1>21. ScreenOK(u, p + 1)
  BY <1>17, <1>19, <1>20, Zenon DEF ScreenOK
<1> QED BY <1>1, <1>20, <1>21

\* A new line; the cursor was on the screen.
LEMMA LineEnded ==
    ASSUME NEW p \in Nat, NEW v, ScreenOK(v, p), v.y < HEIGHT
    PROVE  ScreenOK(write_char(v, NewLine), p)
<1>1. PICK u, x, y : u = write_char(v, NewLine) /\ x = v.x /\ y = v.y
  OBVIOUS
<1>2. WIDTH \in Nat /\ WIDTH > 1 /\ HEIGHT \in Nat /\ HEIGHT > 0
  BY Measures
<1>3. /\ v \in VgaType /\ v.fault = FALSE /\ x \in 0 .. (WIDTH - 1) /\ y \in 0 .. (HEIGHT - 1)
      /\ ShowsLast(v, p) /\ InReadingOrder(v)
      /\ \A c \in Showing(v) : c <= WIDTH * y + x
  BY <1>1, <1>2 DEF ScreenOK, VgaType
<1>4. ~v.init => x = 0 /\ y = 0
  BY <1>1 DEF ScreenOK
<1>5. PICK s : s = IF v.init THEN v ELSE init_vga(v)
  OBVIOUS
<1>6. /\ s \in VgaType /\ s.init = TRUE /\ s.x = x /\ s.y = y /\ s.fault = FALSE
      /\ s.cells = v.cells
  BY <1>1, <1>2, <1>3, <1>4, <1>5 DEF init_vga, VgaType
<1>7. u = [s EXCEPT !.x = 0, !.y = y + 1]
  BY <1>1, <1>5, <1>6 DEF write_char
<1>8. y + 1 \in 0 .. HEIGHT /\ 0 \in 0 .. (WIDTH - 1)
  BY <1>2, <1>3
<1>9. /\ u \in VgaType /\ u.init = TRUE /\ u.x = 0 /\ u.y = y + 1 /\ u.fault = FALSE
      /\ u.cells = v.cells
  BY <1>6, <1>7, <1>8 DEF VgaType
<1>10. Showing(u) = Showing(v) /\ Shown(u) = Shown(v)
  BY <1>9 DEF Showing, Shown
<1>11. ShowsLast(u, p) /\ InReadingOrder(u)
  BY <1>3, <1>9, <1>10 DEF ShowsLast, InReadingOrder
<1>12. \A c \in Showing(u) : c <= WIDTH * (y + 1) + 0
  <2>1. PICK o : o = WIDTH * y
    OBVIOUS
  <2>2. o \in Nat /\ WIDTH * (y + 1) = o + WIDTH
    BY <1>3, <2>1, CellOf
  <2>3. \A c \in Showing(v) : c \in Nat /\ c <= o + x
    BY <1>3, <2>1, Measures DEF Showing, Screen
  <2> QED BY <1>2, <1>3, <1>10, <2>2, <2>3
<1>13. ScreenOK(u, p)
  BY <1>9, <1>11, <1>12 DEF ScreenOK
<1> QED BY <1>1, <1>13

LEMMA ScreenInit == Init => ScreenInv
<1> SUFFICES ASSUME Init PROVE ScreenInv
  OBVIOUS
<1>1. vga = OffScreen /\ printed = 0
  BY DEF Init
<1>2. PICK f : f = [c \in Cells |-> Firmware]
  OBVIOUS
<1>3. f \in [Cells -> Nat] /\ \A c \in Cells : f[c] = Firmware
  BY <1>2 DEF Firmware
<1>4. vga = [init |-> FALSE, x |-> 0, y |-> 0, fault |-> FALSE, cells |-> f]
  BY <1>1, <1>2 DEF OffScreen
<1>5. 0 \in 0 .. (WIDTH - 1) /\ 0 \in 0 .. HEIGHT /\ HEIGHT # 0 /\ 0 < HEIGHT
  BY Measures
<1>6. /\ vga \in VgaType /\ vga.fault = FALSE /\ vga.x = 0 /\ vga.y = 0
      /\ vga.cells = f
  BY <1>3, <1>4, <1>5 DEF VgaType
<1>7. Showing(vga) = {} /\ Shown(vga) = {}
  BY <1>3, <1>6, Measures DEF Showing, Shown
<1>8. ShowsLast(vga, 0)
  <2>1. 1 \in 1 .. (0 + 1) /\ 1 .. 0 = {}
    OBVIOUS
  <2>2. {Character(n) : n \in 1 .. 0} = {}
    BY <2>1
  <2> QED BY <1>7, <2>1, <2>2 DEF ShowsLast
<1>9. InReadingOrder(vga) /\ \A c \in Showing(vga) : c <= WIDTH * vga.y + vga.x
  BY <1>7 DEF InReadingOrder
<1>10. ScreenOK(vga, 0)
  BY <1>6, <1>8, <1>9 DEF ScreenOK
<1> QED BY <1>1, <1>5, <1>6, <1>10 DEF ScreenInv

\* The first step of a list that was put together.
LEMMA FirstOf ==
    ASSUME NEW c \in Command, NEW t \in Seq(Command)
    PROVE  Head(<<c>> \o t) = c
OBVIOUS

\* Steps that write nothing to the screen leave it; the next step is no line
\* without letters then.
LEMMA ScreenLeft ==
    ASSUME ScreenInv, UNCHANGED <<vga, printed>>,
           script' = script \/ script' = <<>> \/ Head(script').op # "screen"
               \/ Head(script').letters # 0
    PROVE  ScreenInv'
BY DEF ScreenInv

\* In what is left of the script no line is being written.
LEMMA RestIsWhole ==
    ASSUME NEW sc, ScriptOK(sc), sc # <<>>
    PROVE  Tail(sc) = <<>> \/ Head(Tail(sc)).op # "screen"
<1> SUFFICES ASSUME Tail(sc) # <<>> PROVE Head(Tail(sc)).op # "screen"
  OBVIOUS
<1>1. sc \in Seq(Command) /\ Len(sc) \in Nat
  BY DEF ScriptOK
<1>2. PICK t : t = Tail(sc)
  OBVIOUS
<1>3. t \in Seq(Command) /\ Len(t) = Len(sc) - 1 /\ Len(t) > 0 /\ t[1] = sc[2]
  BY <1>1, <1>2
<1>4. Head(t) = sc[2] /\ 2 \in 1 .. Len(sc)
  BY <1>1, <1>3
<1>5. sc[2].op # "screen"
  BY <1>4 DEF ScriptOK
<1> QED BY <1>2, <1>4, <1>5

LEMMA BeginLineLeaves ==
    ASSUME LogInv, ScreenInv, NEW op \in {"log", "announce"}, BeginLine(op)
    PROVE  ScreenInv'
<1>1. BootReady(op) /\ UNCHANGED <<vga, printed>>
  BY DEF BeginLine
<1>2. script # <<>> /\ Head(script).op = op /\ ScriptOK(script) /\ Head(script) \in Command
  BY <1>1, BootReadyIs
<1>3. CASE op = "log"
  <2>1. script' = Tail(script)
    BY <1>3 DEF BeginLine
  <2> QED BY <1>1, <1>2, <2>1, RestIsWhole, ScreenLeft
<1>4. CASE op = "announce"
  <2>1. PICK h, c, t : h = Head(script) /\ c = [h EXCEPT !.op = "screen"] /\ t = Tail(script)
    OBVIOUS
  <2>2. script' = <<c>> \o t
    BY <1>4, <2>1 DEF BeginLine
  <2>3. c \in Command /\ c.letters = h.letters /\ t \in Seq(Command)
    BY <1>2, <2>1, ScriptShorter DEF Command, ScriptOK
  <2>4. h.letters > 0
    <3>1. script \in Seq(Command) /\ 1 \in 1 .. Len(script)
      BY <1>2 DEF ScriptOK
    <3>2. h = script[1]
      BY <1>2, <2>1, ScriptShorter
    <3>3. script[1].op = "announce" => script[1].letters > 0
      BY <1>2, <3>1 DEF ScriptOK
    <3> QED BY <1>2, <1>4, <2>1, <3>2, <3>3
  <2>5. Head(script') = c
    BY <2>2, <2>3, FirstOf
  <2>6. h.letters \in Nat
    BY <1>2, <2>1 DEF Command
  <2> QED BY <1>1, <2>3, <2>4, <2>5, <2>6, ScreenLeft
<1> QED BY <1>3, <1>4

LEMMA AnnounceScreenKeeps ==
    ASSUME LogInv, ScreenInv, announce_screen
    PROVE  ScreenInv'
<1>1. BootReady("screen")
  BY DEF announce_screen
<1>2. script # <<>> /\ Head(script).op = "screen" /\ ScriptOK(script) /\ Head(script) \in Command
  BY <1>1, BootReadyIs
<1>3. PICK h, t : h = Head(script) /\ t = Tail(script)
  OBVIOUS
<1>4. h.letters \in Nat /\ t \in Seq(Command) /\ printed \in Nat /\ ScreenOK(vga, printed)
  BY <1>2, <1>3, ScriptShorter DEF Command, ScriptOK, ScreenInv
<1>5. CASE h.letters > 0
  <2>1. /\ vga' = write_char(vga, Character(printed + 1)) /\ printed' = printed + 1
    BY <1>3, <1>4, <1>5 DEF announce_screen
  <2>2. ScreenOK(vga', printed') /\ vga'.y < HEIGHT /\ printed' \in Nat
    BY <1>4, <2>1, LetterWritten
  <2> QED BY <2>2 DEF ScreenInv
<1>6. CASE h.letters = 0
  <2>1. /\ vga' = write_char(vga, NewLine) /\ printed' = printed /\ script' = t
    BY <1>3, <1>4, <1>6 DEF announce_screen
  <2>2. vga.y < HEIGHT
    BY <1>2, <1>3, <1>6 DEF ScreenInv
  <2>3. ScreenOK(vga', printed')
    BY <1>4, <2>1, <2>2, LineEnded
  <2>4. script' = <<>> \/ Head(script').op # "screen"
    BY <1>2, <1>3, <2>1, RestIsWhole
  <2> QED BY <1>4, <2>1, <2>3, <2>4 DEF ScreenInv
<1> QED BY <1>4, <1>5, <1>6

LEMMA ScreenNext == LogInv /\ ScreenInv /\ [Next]_vars => ScreenInv'
<1> SUFFICES ASSUME LogInv, ScreenInv, [Next]_vars PROVE ScreenInv'
  OBVIOUS
<1>1. ASSUME NEW w \in Jobs, Prints(w) PROVE ScreenInv'
  <2>1. UNCHANGED <<vga, printed, script>>
    BY <1>1 DEF Prints, kprintf, push_digit, pushed, pop_digit, read_digit,
                write_char_polls, write_char_sends, SerialOnly
  <2> QED BY <2>1, ScreenLeft
<1>2. CASE Drain
  BY <1>2, ScreenLeft DEF Drain, SerialOnly
<1>3. CASE log \/ announce
  BY <1>3, BeginLineLeaves DEF log, announce
<1>4. CASE announce_screen
  BY <1>4, AnnounceScreenKeeps
<1>5. CASE enable_interrupts \/ program_pit \/ keyboard \/ enable_scheduling
  <2>1. /\ UNCHANGED <<vga, printed>> /\ (script' = script \/ script' = Tail(script))
        /\ \E op \in {"sti", "pit", "keyboard", "enable_scheduling"} : BootReady(op)
    BY <1>5 DEF enable_interrupts, program_pit, keyboard, enable_scheduling
  <2>2. ScriptOK(script) /\ script # <<>>
    BY <2>1, BootReadyIs
  <2>3. Tail(script) = <<>> \/ Head(Tail(script)).op # "screen"
    BY <2>2, RestIsWhole
  <2> QED BY <2>1, <2>3, ScreenLeft
<1>6. CASE keyboard_interrupt \/ syscall \/ fault \/ HandlerReturns
  <2>1. UNCHANGED <<vga, printed, script>>
    BY <1>6 DEF keyboard_interrupt, syscall, fault, HandlerReturns, Interrupted
  <2> QED BY <2>1, ScreenLeft
<1>7. CASE UNCHANGED vars
  <2>1. UNCHANGED <<vga, printed, script>>
    BY <1>7 DEF vars
  <2> QED BY <2>1, ScreenLeft
<1> QED BY <1>1, <1>2, <1>3, <1>4, <1>5, <1>6, <1>7 DEF Next, Boots

\* The screen shows the last letters that kmain announced, for every width and
\* height: vga::VGA scrolls in time, loses letters only at the top, and writes
\* none past the page, because every line that kmain ends had a letter.
THEOREM ScreenShowsTailHolds == Spec => []ScreenShowsTail
<1>1. ScreenInv => ScreenShowsTail
  <2> SUFFICES ASSUME ScreenInv PROVE ScreenShowsTail
    OBVIOUS
  <2>1. printed \in Nat /\ vga.fault = FALSE /\ InReadingOrder(vga)
    BY DEF ScreenInv, ScreenOK
  <2>2. PICK k \in 1 .. (printed + 1) :
          /\ printed > 0 => k <= printed
          /\ Shown(vga) = {Character(n) : n \in k .. printed}
    BY DEF ScreenInv, ScreenOK, ShowsLast
  <2>3. printed > 0 => k \in 1 .. printed
    BY <2>1, <2>2
  <2> QED BY <2>1, <2>2, <2>3 DEF ScreenShowsTail
<1> QED BY <1>1, SpecLog, ScreenInit, ScreenNext, PTL DEF Spec
-----------------------------------------------------------------------------
(* The timer: its inductive invariant. *)

\* What has been sent is the beginning of what the constructor sends for one
\* and the same frequency, although kmain is interrupted between the writes.
TimerInv ==
    /\ Len(pit.writes) \in Nat
    /\ Len(pit.writes) > 0 => pit.freq \in Frequencies
    /\ \A i \in 1 .. 3 : i <= Len(pit.writes) => pit.writes[i] = PIT_Writes(pit.freq)[i]
-----------------------------------------------------------------------------
(* The divisor. *)

\* A divisor of 16 bits is the sum of its two bytes; of a longer one some
\* multiples of 2^16 are missing.
LEMMA TwoBytes ==
    ASSUME NEW d \in Nat
    PROVE  /\ d % 256 \in 0 .. 255 /\ (d \div 256) % 256 \in 0 .. 255
           /\ (d % 256) + 256 * ((d \div 256) % 256) <= d
           /\ d <= 65535 => (d % 256) + 256 * ((d \div 256) % 256) = d
           /\ d > 0 /\ (d % 256) + 256 * ((d \div 256) % 256) = 0 => d >= 65536
BY SMT

\* A quotient of at least 1.
LEMMA Division ==
    ASSUME NEW a \in Nat, NEW b \in Nat \ {0}, b <= a
    PROVE  a \div b \in Nat \ {0}
<1>1. a \div b \in Nat /\ a % b < b /\ a = b * (a \div b) + (a % b)
  BY Z3
<1>2. CASE a \div b = 0
  BY <1>1, <1>2, Z3
<1> QED BY <1>1, <1>2

\* Frequencies have divisors other than 0.
LEMMA Divisor ==
    ASSUME NEW f \in Frequencies
    PROVE  f \in Nat /\ CLOCK \div f \in Nat \ {0}
<1>1. CLOCK \in Nat
  BY SMT DEF CLOCK
<1>2. f \in 1 .. CLOCK
  BY ConsoleAssumption
<1>3. f \in Nat \ {0} /\ f <= CLOCK
  BY <1>1, <1>2
<1> QED BY <1>1, <1>3, Division

LEMMA WritesValue ==
    ASSUME NEW f \in Frequencies
    PROVE  /\ PIT_Writes(f)[2].value = (CLOCK \div f) % 256
           /\ PIT_Writes(f)[3].value = ((CLOCK \div f) \div 256) % 256
<1>1. /\ (CLOCK \div f) % 256 \in Nat /\ ((CLOCK \div f) \div 256) % 256 \in Nat
  BY Divisor, TwoBytes
<1> QED BY <1>1 DEF PIT_Writes, Outb
-----------------------------------------------------------------------------
LEMMA InitTimerInv == Init => TimerInv
BY DEF Init, TimerInv

LEMMA ProgramPitTimerInv ==
    ASSUME TimerInv, program_pit
    PROVE  TimerInv'
<1>1. PICK f \in Frequencies :
        /\ Len(pit.writes) + 1 > 1 => f = pit.freq
        /\ pit' = [freq |-> f, writes |-> SubSeq(PIT_Writes(f), 1, Len(pit.writes) + 1)]
  BY DEF program_pit
<1> DEFINE n == Len(pit.writes) + 1
<1>2. n \in Nat \ {0}
  BY DEF TimerInv
<1>3. /\ Len(SubSeq(PIT_Writes(f), 1, n)) = n
      /\ \A i \in 1 .. n : SubSeq(PIT_Writes(f), 1, n)[i] = PIT_Writes(f)[i]
  BY <1>2
<1>4. pit'.freq = f /\ pit'.writes = SubSeq(PIT_Writes(f), 1, n)
  BY <1>1
<1>5. \A i \in 1 .. 3 : i <= n => i \in 1 .. n
  BY <1>2
<1> HIDE DEF n
<1> QED BY <1>2, <1>3, <1>4, <1>5 DEF TimerInv

\* Nothing but the constructor writes to the timer.
LEMMA OthersLeavePit == [Next]_vars => program_pit \/ UNCHANGED pit
<1> SUFFICES ASSUME [Next]_vars, ~program_pit PROVE UNCHANGED pit
  OBVIOUS
<1>1. ASSUME NEW w \in Jobs, Prints(w) PROVE UNCHANGED pit
  BY <1>1 DEF Prints, kprintf, push_digit, pushed, pop_digit, read_digit,
              write_char_polls, write_char_sends, SerialOnly
<1>2. CASE Drain
  BY <1>2 DEF Drain, SerialOnly
<1>3. CASE Boots
  BY <1>3 DEF Boots, log, announce, BeginLine, announce_screen, enable_interrupts,
              keyboard, enable_scheduling
<1>4. CASE keyboard_interrupt \/ syscall \/ fault
  BY <1>4 DEF keyboard_interrupt, syscall, fault, Interrupted
<1>5. CASE HandlerReturns
  BY <1>5 DEF HandlerReturns
<1>6. CASE UNCHANGED vars
  BY <1>6 DEF vars
<1> QED BY <1>1, <1>2, <1>3, <1>4, <1>5, <1>6 DEF Next

LEMMA InvTickRate == TimerInv => TickRate
<1> SUFFICES ASSUME TimerInv, Len(pit.writes) = 3
             PROVE  LET asked == CLOCK \div pit.freq IN
                    /\ Period(pit.writes) <= asked
                    /\ asked <= 65535 => Period(pit.writes) = asked
  BY DEF TickRate
<1> DEFINE d == CLOCK \div pit.freq
           count == (d % 256) + 256 * ((d \div 256) % 256)
<1>1. pit.freq \in Frequencies
  BY DEF TimerInv
<1>2. d \in Nat \ {0}
  BY <1>1, Divisor
<1>3. pit.writes[2] = PIT_Writes(pit.freq)[2] /\ pit.writes[3] = PIT_Writes(pit.freq)[3]
  BY DEF TimerInv
<1>4. pit.writes[2].value = d % 256 /\ pit.writes[3].value = (d \div 256) % 256
  BY <1>1, <1>3, WritesValue
<1>5. Period(pit.writes) = IF count = 0 THEN 65536 ELSE count
  BY <1>4, SMT DEF Period
<1> HIDE DEF d
<1>6. /\ count \in Nat /\ count <= d
      /\ d <= 65535 => count = d
      /\ count = 0 => d >= 65536
  BY <1>2, TwoBytes, SMT
<1> HIDE DEF count
<1>7. Period(pit.writes) <= d /\ (d <= 65535 => Period(pit.writes) = d)
  BY <1>2, <1>5, <1>6, SMT
<1> QED BY <1>7, SMT DEF d

\* The timer never ticks more slowly than it was asked to, whatever the
\* frequency, and exactly as asked if the divisor has 16 bits: timer::PIT
\* sends the bytes in the order its command announces, and an interrupt
\* between two of them does no harm.
THEOREM TickRateHolds == Spec => []TickRate
<1>1. TimerInv /\ [Next]_vars => TimerInv'
  <2>1. TimerInv /\ UNCHANGED pit => TimerInv'
    BY DEF TimerInv
  <2> QED BY <2>1, OthersLeavePit, ProgramPitTimerInv
<1> QED BY <1>1, InitTimerInv, InvTickRate, PTL DEF Spec
=============================================================================
