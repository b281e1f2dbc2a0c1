---- MODULE Text_proofs ----
(***************************************************************************)
(* The proofs about printing and walking: what a formatter writes is the   *)
(* text it stands for, whatever the integers, strings and formats are;     *)
(* sprint fills the block that it has counted, print hands over the whole  *)
(* text, and a walk over a text meets every character with its code point. *)
(***************************************************************************)
EXTENDS Text, SequenceTheorems, FiniteSetTheorems, NaturalsInduction, WellFoundedInduction, TLAPS

----------------------------------------------------------------------------
(***************************************************************************)
(* Recursive functions of a number.                                        *)
(***************************************************************************)

\* Numbers that are not none have a least one.
LEMMA LeastNumber ==
    ASSUME NEW S, S \subseteq Nat, S # {}
    PROVE  \E x \in S : \A y \in S : x <= y
<1> DEFINE Below == {ss \in Nat \X Nat : ss[1] < ss[2]}
<1>1. IsWellFoundedOn(Below, Nat)
  BY NatLessThanWellFounded DEF OpToRel
<1> HIDE DEF Below
<1>2. PICK x \in S : \A y \in S : ~(<<y, x>> \in Below)
  BY <1>1, WFMin
<1>3. ASSUME NEW y \in S
      PROVE  x <= y
  <2>1. x \in Nat /\ y \in Nat
    OBVIOUS
  <2>2. y < x => <<y, x>> \in Below
    BY <2>1 DEF Below
  <2> QED BY <1>2, <2>1, <2>2
<1> QED BY <1>3

\* A set with 0, and with the next number of every one it has, has them all.
LEMMA AllNumbers ==
    ASSUME NEW S, 0 \in S, \A n \in Nat : n \in S => n + 1 \in S
    PROVE  Nat \subseteq S
<1> SUFFICES ASSUME Nat \ S # {}
             PROVE  FALSE
  OBVIOUS
<1>1. PICK x \in Nat \ S : \A y \in Nat \ S : x <= y
  BY LeastNumber
<1>2. x # 0 /\ x - 1 \in Nat
  BY <1>1
<1>3. x - 1 \notin Nat \ S
  BY <1>1, <1>2
<1> QED BY <1>1, <1>2, <1>3

\* The same for a set that has a number whenever it has those before it.
LEMMA AllBefore ==
    ASSUME NEW S, \A n \in Nat : (\A m \in 0 .. n - 1 : m \in S) => n \in S
    PROVE  Nat \subseteq S
<1> SUFFICES ASSUME Nat \ S # {}
             PROVE  FALSE
  OBVIOUS
<1>1. PICK x \in Nat \ S : \A y \in Nat \ S : x <= y
  BY LeastNumber
<1>2. \A m \in 0 .. x - 1 : m \in S
  BY <1>1
<1> QED BY <1>1, <1>2

\* Two functions that begin alike, and go on alike wherever they are, are alike.
GoAlike(f, h, n) == f[0] = h[0] /\ \A m \in 1 .. n : f[m - 1] = h[m - 1] => f[m] = h[m]

LEMMA Alike ==
    ASSUME NEW f, NEW h, NEW n \in Nat, GoAlike(f, h, n)
    PROVE  \A m \in 0 .. n : f[m] = h[m]
<1> DEFINE Same == {m \in Nat : m <= n => f[m] = h[m]}
<1>1. 0 \in Same
  BY DEF GoAlike
<1>2. ASSUME NEW m \in Nat, m \in Same PROVE m + 1 \in Same
  <2>1. CASE m + 1 <= n
    <3>1. f[m] = h[m] /\ m + 1 \in 1 .. n /\ (m + 1) - 1 = m
      BY <1>2, <2>1
    <3>2. f[m + 1] = h[m + 1]
      BY <3>1 DEF GoAlike
    <3> QED BY <3>2
  <2>2. CASE ~(m + 1 <= n)
    BY <2>2
  <2> QED BY <2>1, <2>2
<1>3. Nat \subseteq Same
  <2> HIDE DEF Same
  <2> QED BY <1>1, <1>2, AllNumbers
<1> QED BY <1>3

\* There is a function for every first value and every step.
Follows(f, a, g, n) ==
    \A m \in 0 .. n : f[m] = IF m = 0 THEN a ELSE g[<<m, f[m - 1]>>]

LEMMA Recursion ==
    ASSUME NEW S, NEW a \in S, NEW g \in [Nat \X S -> S], NEW n \in Nat
    PROVE  \E f \in [0 .. n -> S] : Follows(f, a, g, n)
<1> DEFINE Ends == {k \in Nat : \E f \in [0 .. k -> S] : Follows(f, a, g, k)}
<1>1. 0 \in Ends
  <2> DEFINE f == [m \in 0 .. 0 |-> a]
  <2>1. f \in [0 .. 0 -> S] /\ Follows(f, a, g, 0)
    BY DEF Follows
  <2> QED BY <2>1
<1>2. ASSUME NEW k \in Nat, k \in Ends PROVE k + 1 \in Ends
  <2>1. PICK f \in [0 .. k -> S] : Follows(f, a, g, k)
    BY <1>2
  <2> DEFINE h == [m \in 0 .. k + 1 |-> IF m = k + 1 THEN g[<<k + 1, f[k]>>] ELSE f[m]]
  <2>2. h \in [0 .. k + 1 -> S]
    <3>1. f[k] \in S /\ <<k + 1, f[k]>> \in Nat \X S
      OBVIOUS
    <3>2. g[<<k + 1, f[k]>>] \in S
      BY <3>1
    <3> QED BY <3>2
  <2>3. ASSUME NEW m \in 0 .. k + 1 PROVE h[m] = IF m = 0 THEN a ELSE g[<<m, h[m - 1]>>]
    <3>1. CASE m = k + 1
      <4>1. h[m] = g[<<k + 1, f[k]>>] /\ h[m - 1] = f[k] /\ m # 0
        BY <3>1
      <4> QED BY <3>1, <4>1
    <3>2. CASE m # k + 1
      <4>1. m \in 0 .. k
        BY <3>2
      <4>2. h[m] = f[m] /\ (m # 0 => h[m - 1] = f[m - 1])
        BY <4>1
      <4> QED BY <2>1, <4>1, <4>2 DEF Follows
    <3> QED BY <3>1, <3>2
  <2>4. Follows(h, a, g, k + 1)
    BY <2>3 DEF Follows
  <2> QED BY <2>2, <2>4
<1>3. Nat \subseteq Ends
  <2> HIDE DEF Ends
  <2> QED BY <1>1, <1>2, AllNumbers
<1> QED BY <1>3

----------------------------------------------------------------------------
(***************************************************************************)
(* Powers, and what is left of a number that is divided again and again.   *)
(***************************************************************************)

IsPower(f, base, n) == f = [m \in 0 .. n |-> IF m = 0 THEN 1 ELSE base * f[m - 1]]

LEMMA PowerFunction ==
    ASSUME NEW base \in Nat, NEW n \in Nat
    PROVE  \E f \in [0 .. n -> Nat] : IsPower(f, base, n) /\ Power(base, n) = f[n]
<1> DEFINE g == [x \in Nat \X Nat |-> base * x[2]]
           p == CHOOSE f : IsPower(f, base, n)
<1>1. PICK f \in [0 .. n -> Nat] : Follows(f, 1, g, n)
  <2>1. g \in [Nat \X Nat -> Nat]
    OBVIOUS
  <2> HIDE DEF g
  <2> QED BY <2>1, Recursion
<1>2. \A m \in 0 .. n : f[m] = IF m = 0 THEN 1 ELSE base * f[m - 1]
  <2> SUFFICES ASSUME NEW m \in 0 .. n, m # 0 PROVE f[m] = base * f[m - 1]
    BY <1>1 DEF Follows
  <2>1. <<m, f[m - 1]>> \in Nat \X Nat
    OBVIOUS
  <2>2. f[m] = g[<<m, f[m - 1]>>]
    BY <1>1 DEF Follows
  <2> QED BY <2>1, <2>2
<1>3. IsPower(f, base, n)
  BY <1>2 DEF IsPower
<1>4. IsPower(p, base, n)
  BY Zenon, <1>3
<1>5. Power(base, n) = p[n]
  BY Zenon DEF Power, IsPower
<1> HIDE DEF p
<1>6. GoAlike(p, f, n)
  BY <1>3, <1>4 DEF IsPower, GoAlike
<1>7. \A m \in 0 .. n : p[m] = f[m]
  BY <1>6, Alike
<1> QED BY <1>3, <1>5, <1>7

\* The powers, one after the other.
LEMMA PowerSteps ==
    ASSUME NEW base \in Nat, NEW n \in Nat
    PROVE  /\ Power(base, n) \in Nat
           /\ Power(base, 0) = 1
           /\ Power(base, n + 1) = base * Power(base, n)
<1>1. PICK f \in [0 .. n -> Nat] : IsPower(f, base, n) /\ Power(base, n) = f[n]
  BY PowerFunction
<1>2. PICK h \in [0 .. n + 1 -> Nat] : IsPower(h, base, n + 1) /\ Power(base, n + 1) = h[n + 1]
  <2>1. n + 1 \in Nat
    OBVIOUS
  <2> QED BY Zenon, <2>1, PowerFunction
<1>3. Power(base, 0) = 1
  <2>1. PICK z \in [0 .. 0 -> Nat] : IsPower(z, base, 0) /\ Power(base, 0) = z[0]
    BY PowerFunction
  <2> QED BY <2>1 DEF IsPower
<1>4. GoAlike(f, h, n)
  BY <1>1, <1>2 DEF GoAlike, IsPower
<1>5. f[n] = h[n]
  BY <1>4, Alike
<1>6. h[n + 1] = base * h[n]
  BY <1>2 DEF IsPower
<1> QED BY <1>1, <1>2, <1>3, <1>5, <1>6

\* Powers of numbers that are not 0 are not 0.
LEMMA PowerPositive ==
    ASSUME NEW base \in Nat \ {0}, NEW n \in Nat
    PROVE  Power(base, n) \in Nat \ {0}
<1> DEFINE Positive == {m \in Nat : Power(base, m) \in Nat \ {0}}
<1>1. 0 \in Positive
  BY PowerSteps
<1>2. ASSUME NEW m \in Nat, m \in Positive PROVE m + 1 \in Positive
  <2>1. Power(base, m + 1) = base * Power(base, m)
    BY PowerSteps
  <2>2. \A x, y \in Nat \ {0} : x * y \in Nat \ {0}
    BY SMT
  <2> QED BY <1>2, <2>1, <2>2
<1>3. Nat \subseteq Positive
  <2> HIDE DEF Positive
  <2> QED BY <1>1, <1>2, AllNumbers
<1> QED BY <1>3

\* Four powers of 2 are one of 16.
LEMMA PowerOfSixteen ==
    ASSUME NEW n \in Nat
    PROVE  Power(2, 4 * n) = Power(16, n)
<1> DEFINE Same == {m \in Nat : Power(2, 4 * m) = Power(16, m)}
<1>1. 0 \in Same
  <2>1. Power(2, 0) = 1 /\ Power(16, 0) = 1
    BY PowerSteps
  <2> QED BY <2>1
<1>2. ASSUME NEW m \in Nat, m \in Same PROVE m + 1 \in Same
  <2> DEFINE k == 4 * m
  <2>1. k \in Nat /\ 4 * (m + 1) = k + 4
    OBVIOUS
  <2> HIDE DEF k
  <2>2. /\ Power(2, k + 1) = 2 * Power(2, k)
        /\ Power(2, (k + 1) + 1) = 2 * Power(2, k + 1)
        /\ Power(2, ((k + 1) + 1) + 1) = 2 * Power(2, (k + 1) + 1)
        /\ Power(2, (((k + 1) + 1) + 1) + 1) = 2 * Power(2, ((k + 1) + 1) + 1)
        /\ Power(2, k) \in Nat
    BY <2>1, PowerSteps
  <2>3. (((k + 1) + 1) + 1) + 1 = 4 * (m + 1)
    BY <2>1
  <2>4. Power(2, 4 * (m + 1)) = 16 * Power(2, k)
    BY <2>2, <2>3
  <2>5. Power(16, m + 1) = 16 * Power(16, m)
    BY PowerSteps
  <2> QED BY <1>2, <2>4, <2>5 DEF k
<1>3. Nat \subseteq Same
  <2> HIDE DEF Same
  <2> QED BY <1>1, <1>2, AllNumbers
<1> QED BY <1>3

IsLeft(f, number, base, turns) == f = [n \in 0 .. turns |-> IF n = 0 THEN number ELSE f[n - 1] \div base]

LEMMA LeftFunction ==
    ASSUME NEW number \in Nat, NEW base \in Nat \ {0}, NEW turns \in Nat
    PROVE  \E f \in [0 .. turns -> Nat] : IsLeft(f, number, base, turns) /\ Left(number, base, turns) = f[turns]
<1> DEFINE g == [x \in Nat \X Nat |-> x[2] \div base]
           p == CHOOSE f : IsLeft(f, number, base, turns)
<1>1. PICK f \in [0 .. turns -> Nat] : Follows(f, number, g, turns)
  <2>1. g \in [Nat \X Nat -> Nat]
    OBVIOUS
  <2> HIDE DEF g
  <2> QED BY <2>1, Recursion
<1>2. \A n \in 0 .. turns : f[n] = IF n = 0 THEN number ELSE f[n - 1] \div base
  <2> SUFFICES ASSUME NEW n \in 0 .. turns, n # 0 PROVE f[n] = f[n - 1] \div base
    BY <1>1 DEF Follows
  <2>1. <<n, f[n - 1]>> \in Nat \X Nat
    OBVIOUS
  <2>2. f[n] = g[<<n, f[n - 1]>>]
    BY <1>1 DEF Follows
  <2> QED BY <2>1, <2>2
<1>3. IsLeft(f, number, base, turns)
  BY <1>2 DEF IsLeft
<1>4. IsLeft(p, number, base, turns)
  BY Zenon, <1>3
<1>5. Left(number, base, turns) = p[turns]
  BY Zenon DEF Left, IsLeft
<1> HIDE DEF p
<1>6. GoAlike(p, f, turns)
  BY <1>3, <1>4 DEF IsLeft, GoAlike
<1>7. \A n \in 0 .. turns : p[n] = f[n]
  BY <1>6, Alike
<1> QED BY <1>3, <1>5, <1>7

\* Turn after turn.
LEMMA LeftSteps ==
    ASSUME NEW number \in Nat, NEW base \in Nat \ {0}, NEW n \in Nat
    PROVE  /\ Left(number, base, n) \in Nat
           /\ Left(number, base, 0) = number
           /\ Left(number, base, n + 1) = Left(number, base, n) \div base
<1>1. PICK f \in [0 .. n -> Nat] : IsLeft(f, number, base, n) /\ Left(number, base, n) = f[n]
  BY LeftFunction
<1>2. PICK h \in [0 .. n + 1 -> Nat] :
         IsLeft(h, number, base, n + 1) /\ Left(number, base, n + 1) = h[n + 1]
  <2>1. n + 1 \in Nat
    OBVIOUS
  <2> QED BY Zenon, <2>1, LeftFunction
<1>3. Left(number, base, 0) = number
  <2>1. PICK z \in [0 .. 0 -> Nat] : IsLeft(z, number, base, 0) /\ Left(number, base, 0) = z[0]
    BY LeftFunction
  <2> QED BY <2>1 DEF IsLeft
<1>4. GoAlike(f, h, n)
  BY <1>1, <1>2 DEF GoAlike, IsLeft
<1>5. f[n] = h[n]
  BY <1>4, Alike
<1>6. h[n + 1] = h[n] \div base
  BY <1>2 DEF IsLeft
<1> QED BY <1>1, <1>2, <1>3, <1>5, <1>6

\* The first turn can be taken before the others.
LEMMA LeftAhead ==
    ASSUME NEW number \in Nat, NEW base \in Nat \ {0}, NEW n \in Nat
    PROVE  Left(number, base, n + 1) = Left(number \div base, base, n)
<1> DEFINE less == number \div base
           Same == {m \in Nat : Left(number, base, m + 1) = Left(less, base, m)}
<1>0. less \in Nat
  OBVIOUS
<1> HIDE DEF less
<1>1. 0 \in Same
  <2>1. /\ Left(number, base, 0 + 1) = Left(number, base, 0) \div base
        /\ Left(number, base, 0) = number
        /\ Left(less, base, 0) = less
    BY <1>0, LeftSteps
  <2> QED BY <2>1 DEF less
<1>2. ASSUME NEW m \in Nat, m \in Same PROVE m + 1 \in Same
  <2>1. /\ Left(number, base, (m + 1) + 1) = Left(number, base, m + 1) \div base
        /\ Left(less, base, m + 1) = Left(less, base, m) \div base
    BY <1>0, LeftSteps
  <2> QED BY <1>2, <2>1
<1>3. Nat \subseteq Same
  <2> HIDE DEF Same
  <2> QED BY <1>1, <1>2, AllNumbers
<1> QED BY <1>3 DEF less

----------------------------------------------------------------------------
(***************************************************************************)
(* The digits that the loops write are the numeral of the number.          *)
(***************************************************************************)

Bases == {10, 16}

\* What division does to a number.
LEMMA Quotient ==
    ASSUME NEW n \in Nat, NEW base \in Bases
    PROVE  /\ n \div base \in Nat
           /\ n % base \in 0 .. base - 1
           /\ n = (n \div base) * base + (n % base)
           /\ n < base => n \div base = 0 /\ n % base = n
           /\ n >= base => n \div base \in 0 .. n - 1
<1>1. /\ n \div 10 \in Nat
      /\ n % 10 \in 0 .. 10 - 1
      /\ n = (n \div 10) * 10 + (n % 10)
      /\ n < 10 => n \div 10 = 0 /\ n % 10 = n
      /\ n >= 10 => n \div 10 < n
  <2>1. n \div 10 \in Nat /\ n % 10 \in 0 .. 10 - 1 /\ n = (n \div 10) * 10 + (n % 10)
    BY SMT
  <2>2. \A q \in Nat, r \in 0 .. 10 - 1 : n = q * 10 + r =>
           (n < 10 => q = 0 /\ r = n) /\ (n >= 10 => q < n)
    BY SMT
  <2> QED BY Zenon, <2>1, <2>2
<1>2. /\ n \div 16 \in Nat
      /\ n % 16 \in 0 .. 16 - 1
      /\ n = (n \div 16) * 16 + (n % 16)
      /\ n < 16 => n \div 16 = 0 /\ n % 16 = n
      /\ n >= 16 => n \div 16 < n
  <2>1. n \div 16 \in Nat /\ n % 16 \in 0 .. 16 - 1 /\ n = (n \div 16) * 16 + (n % 16)
    BY SMT
  <2>2. \A q \in Nat, r \in 0 .. 16 - 1 : n = q * 16 + r =>
           (n < 16 => q = 0 /\ r = n) /\ (n >= 16 => q < n)
    BY SMT
  <2> QED BY Zenon, <2>1, <2>2
<1>0. \A q \in Nat : q < n => q \in 0 .. n - 1
  OBVIOUS
<1>3. CASE base = 10
  BY Zenon, <1>0, <1>1, <1>3
<1>4. CASE base = 16
  BY Zenon, <1>0, <1>2, <1>4
<1> QED BY Zenon, <1>3, <1>4 DEF Bases

LEMMA BaseIsNumber ==
    ASSUME NEW base \in Bases
    PROVE  base \in Nat \ {0}
  BY DEF Bases

LEMMA HexDigitType ==
    ASSUME NEW n \in Nat
    PROVE  HexDigit(n) \in Int
  BY DEF HexDigit, Zero

IsNumeral(f, number, base) ==
    f = [n \in 0 .. number |->
            IF n < base THEN <<HexDigit(n)>> ELSE Append(f[n \div base], HexDigit(n % base))]

LEMMA NumeralExists ==
    ASSUME NEW base \in Bases, NEW number \in Nat
    PROVE  \E f \in [0 .. number -> Seq(Int)] : IsNumeral(f, number, base)
<1> DEFINE Has == {k \in Nat : \E f \in [0 .. k -> Seq(Int)] : IsNumeral(f, k, base)}
<1>0. \A n \in Nat : HexDigit(n) \in Int /\ <<HexDigit(n)>> \in Seq(Int)
  BY HexDigitType
<1>1. 0 \in Has
  <2> DEFINE f == [n \in 0 .. 0 |-> <<HexDigit(n)>>]
  <2>1. f \in [0 .. 0 -> Seq(Int)]
    BY <1>0
  <2>2. f = [n \in 0 .. 0 |->
                IF n < base THEN <<HexDigit(n)>> ELSE Append(f[n \div base], HexDigit(n % base))]
    BY BaseIsNumber
  <2> HIDE DEF f
  <2> QED BY <2>1, <2>2 DEF IsNumeral
<1>2. ASSUME NEW k \in Nat, k \in Has PROVE k + 1 \in Has
  <2>1. PICK f \in [0 .. k -> Seq(Int)] : IsNumeral(f, k, base)
    BY <1>2
  <2> DEFINE Digits(n, g) ==
                IF n < base THEN <<HexDigit(n)>> ELSE Append(g[n \div base], HexDigit(n % base))
             h == [n \in 0 .. k + 1 |-> IF n = k + 1 THEN Digits(n, f) ELSE f[n]]
  <2>2. \A n \in 0 .. k + 1 : n >= base => n \div base \in 0 .. k /\ n \div base # k + 1
    <3> SUFFICES ASSUME NEW n \in 0 .. k + 1, n >= base
                 PROVE  n \div base \in 0 .. k /\ n \div base # k + 1
      OBVIOUS
    <3>1. n \in Nat
      OBVIOUS
    <3>2. n \div base \in 0 .. n - 1
      BY Zenon, <3>1, Quotient
    <3> HIDE DEF Bases
    <3> DEFINE q == n \div base
    <3>3. q \in 0 .. n - 1
      BY <3>2
    <3> HIDE DEF q
    <3>4. q \in 0 .. k /\ q # k + 1
      BY <3>3
    <3> QED BY <3>4 DEF q
  <2>3. \A n \in 0 .. k + 1 : Digits(n, f) \in Seq(Int)
    <3> SUFFICES ASSUME NEW n \in 0 .. k + 1 PROVE Digits(n, f) \in Seq(Int)
      OBVIOUS
    <3>1. CASE n < base
      BY <1>0, <3>1
    <3>2. CASE ~(n < base)
      <4>1. f[n \div base] \in Seq(Int)
        BY <2>2, <3>2, BaseIsNumber
      <4>2. HexDigit(n % base) \in Int
        <5>1. n % base \in Nat
          <6>1. n \in Nat
            OBVIOUS
          <6>2. n % base \in 0 .. base - 1
            BY Zenon, <6>1, Quotient
          <6>3. \A x : x \in 0 .. base - 1 => x \in Nat
            BY BaseIsNumber
          <6> QED BY Zenon, <6>2, <6>3
        <5> QED BY Zenon, <5>1, <1>0
      <4> QED BY <3>2, <4>1, <4>2
    <3> QED BY <3>1, <3>2
  <2>4. h \in [0 .. k + 1 -> Seq(Int)]
    <3> HIDE DEF Digits
    <3> QED BY <2>3
  <2>5. \A n \in 0 .. k + 1 : Digits(n, h) = Digits(n, f)
    <3> SUFFICES ASSUME NEW n \in 0 .. k + 1 PROVE Digits(n, h) = Digits(n, f)
      OBVIOUS
    <3>1. n >= base => h[n \div base] = f[n \div base]
      <4> HIDE DEF Digits
      <4> QED BY <2>2
    <3> HIDE DEF h
    <3> QED BY <3>1, BaseIsNumber
  <2>6. \A n \in 0 .. k : f[n] = Digits(n, f)
    BY <2>1 DEF IsNumeral
  <2>7. \A n \in 0 .. k + 1 : h[n] = Digits(n, h)
    <3> HIDE DEF Digits
    <3> SUFFICES ASSUME NEW n \in 0 .. k + 1 PROVE h[n] = Digits(n, h)
      OBVIOUS
    <3>1. h[n] = Digits(n, f)
      <4>1. CASE n = k + 1
        BY <4>1
      <4>2. CASE n # k + 1
        <5>1. n \in 0 .. k
          BY <4>2
        <5> QED BY <2>6, <4>2, <5>1
      <4> QED BY <4>1, <4>2
    <3> HIDE DEF h
    <3> QED BY <2>5, <3>1
  <2>8. h = [n \in 0 .. k + 1 |-> Digits(n, h)]
    <3> HIDE DEF Digits
    <3> QED BY <2>4, <2>7
  <2>9. IsNumeral(h, k + 1, base)
    <3> HIDE DEF h
    <3> QED BY Zenon, <2>8 DEF IsNumeral
  <2> HIDE DEF h
  <2> QED BY <2>4, <2>9
<1>3. Nat \subseteq Has
  <2> HIDE DEF Has
  <2> QED BY <1>1, <1>2, AllNumbers
<1> QED BY <1>3

\* What such functions say of the numbers that both have.
AreNumerals(f, h, number, other, base, last) ==
    /\ base \in Bases /\ number \in Nat /\ other \in Nat
    /\ IsNumeral(f, number, base) /\ IsNumeral(h, other, base)
    /\ last \in Nat /\ last <= number /\ last <= other

AgreeAt(f, h, last) == f[last] = h[last]

LEMMA NumeralsAlike ==
    ASSUME NEW f, NEW h, NEW number, NEW other, NEW base, NEW last,
           AreNumerals(f, h, number, other, base, last)
    PROVE  AgreeAt(f, h, last)
<1> DEFINE Same == {n \in Nat : n <= number /\ n <= other => f[n] = h[n]}
<1>0. /\ base \in Bases /\ number \in Nat /\ other \in Nat
      /\ IsNumeral(f, number, base) /\ IsNumeral(h, other, base)
      /\ last \in Nat /\ last <= number /\ last <= other
  BY DEF AreNumerals
<1>1. ASSUME NEW n \in Nat, \A m \in 0 .. n - 1 : m \in Same PROVE n \in Same
  <2> SUFFICES ASSUME n <= number, n <= other PROVE f[n] = h[n]
    OBVIOUS
  <2>1. /\ f[n] = IF n < base THEN <<HexDigit(n)>> ELSE Append(f[n \div base], HexDigit(n % base))
        /\ h[n] = IF n < base THEN <<HexDigit(n)>> ELSE Append(h[n \div base], HexDigit(n % base))
    <3>1. n \in 0 .. number /\ n \in 0 .. other
      BY <1>0
    <3> QED BY Zenon, <1>0, <3>1 DEF IsNumeral
  <2>2. ~(n < base) => f[n \div base] = h[n \div base]
    <3>1. ~(n < base) => n \div base \in 0 .. n - 1
      BY <1>0, Quotient, BaseIsNumber
    <3> QED BY <1>0, <1>1, <3>1
  <2> QED BY <2>1, <2>2
<1>2. Nat \subseteq Same
  <2> HIDE DEF Same
  <2> QED BY <1>1, AllBefore
<1> QED BY <1>0, <1>2 DEF AgreeAt

LEMMA NumeralFunction ==
    ASSUME NEW base \in Bases, NEW number \in Nat
    PROVE  \E f \in [0 .. number -> Seq(Int)] : IsNumeral(f, number, base) /\ Numeral(number, base) = f[number]
<1> DEFINE p == CHOOSE f : IsNumeral(f, number, base)
<1>1. PICK f \in [0 .. number -> Seq(Int)] : IsNumeral(f, number, base)
  BY NumeralExists
<1>2. IsNumeral(p, number, base)
  BY Zenon, <1>1
<1>3. Numeral(number, base) = p[number]
  BY Zenon DEF Numeral, IsNumeral
<1> HIDE DEF p
<1>4. p[number] = f[number]
  <2>1. AreNumerals(p, f, number, number, base, number)
    BY <1>1, <1>2 DEF AreNumerals
  <2>2. AgreeAt(p, f, number)
    BY Zenon, <2>1, NumeralsAlike
  <2> QED BY <2>2 DEF AgreeAt
<1> QED BY <1>1, <1>3, <1>4

\* Digit after digit.
LEMMA NumeralSteps ==
    ASSUME NEW base \in Bases, NEW n \in Nat
    PROVE  /\ Numeral(n, base) \in Seq(Int)
           /\ n < base => Numeral(n, base) = <<HexDigit(n)>>
           /\ n >= base => Numeral(n, base) = Append(Numeral(n \div base, base), HexDigit(n % base))
<1>1. PICK f \in [0 .. n -> Seq(Int)] : IsNumeral(f, n, base) /\ Numeral(n, base) = f[n]
  BY NumeralFunction
<1>2. n \in 0 .. n
  OBVIOUS
<1>3. f[n] = IF n < base THEN <<HexDigit(n)>> ELSE Append(f[n \div base], HexDigit(n % base))
  BY Zenon, <1>1, <1>2 DEF IsNumeral
<1>4. ASSUME n >= base PROVE Numeral(n \div base, base) = f[n \div base]
  <2>1. n \div base \in Nat /\ n \div base <= n
    BY <1>4, Quotient, BaseIsNumber
  <2>2. PICK h \in [0 .. n \div base -> Seq(Int)] :
           IsNumeral(h, n \div base, base) /\ Numeral(n \div base, base) = h[n \div base]
    BY Zenon, <2>1, NumeralFunction
  <2> DEFINE less == n \div base
  <2>3. less \in Nat /\ less <= n /\ IsNumeral(h, less, base)
    BY <2>1, <2>2
  <2> HIDE DEF less
  <2>4. f[less] = h[less]
    <3>1. AreNumerals(f, h, n, less, base, less)
      BY <1>1, <2>3 DEF AreNumerals
    <3>2. AgreeAt(f, h, less)
      BY Zenon, <3>1, NumeralsAlike
    <3> QED BY <3>2 DEF AgreeAt
  <2> QED BY <2>2, <2>4 DEF less
<1>5. ~(n < base) <=> n >= base
  BY BaseIsNumber
<1>6. f[n] \in Seq(Int)
  BY <1>2
<1> QED BY Zenon, <1>1, <1>3, <1>4, <1>5, <1>6

ZerosOf(n) == [m \in 1 .. n |-> Zero]

LEMMA ZeroDigits ==
    /\ \A n \in Nat : ZerosOf(n) \in Seq(Int) /\ Len(ZerosOf(n)) = n
    /\ \A n \in Nat : Append(ZerosOf(n), Zero) = ZerosOf(n + 1)
<1>1. ASSUME NEW n \in Nat
      PROVE  ZerosOf(n) \in Seq(Int) /\ Len(ZerosOf(n)) = n
  BY DEF ZerosOf, Zero
<1>2. ASSUME NEW n \in Nat
      PROVE  Append(ZerosOf(n), Zero) = ZerosOf(n + 1)
  BY DEF ZerosOf, Zero
<1> QED BY <1>1, <1>2

\* The loop writes the last digit, and with the rest of the number those before it.
LEMMA DigitsSteps ==
    ASSUME NEW base \in Bases, NEW number \in Nat, NEW n \in Nat
    PROVE  /\ DigitsOf(number, base, n) \in Seq(Int)
           /\ Len(DigitsOf(number, base, n)) = n
           /\ DigitsOf(number, base, n + 1)
                = Append(DigitsOf(number \div base, base, n), HexDigit(number % base))
<1> DEFINE less == number \div base
           last == number % base
           Digit(x, k, m) == HexDigit(Left(x, base, k - m) % base)
<1>0. base \in Nat \ {0} /\ less \in Nat /\ last \in Nat
  <2>1. \A x : x \in 0 .. base - 1 => x \in Nat
    BY BaseIsNumber
  <2> QED BY Zenon, <2>1, Quotient, BaseIsNumber
<1>1. ASSUME NEW x \in Nat, NEW k \in Nat, NEW m \in 1 .. k
      PROVE  Digit(x, k, m) \in Int
  <2>1. k - m \in Nat
    OBVIOUS
  <2>2. Left(x, base, k - m) \in Nat
    BY Zenon, <1>0, <2>1, LeftSteps
  <2>3. Left(x, base, k - m) % base \in 0 .. base - 1
    BY Zenon, <2>2, Quotient
  <2>4. \A d : d \in 0 .. base - 1 => d \in Nat
    BY <1>0
  <2> QED BY Zenon, <2>3, <2>4, HexDigitType
<1>2. ASSUME NEW m \in 1 .. n
      PROVE  Digit(number, n + 1, m) = Digit(less, n, m)
  <2> DEFINE k == n - m
  <2>1. k \in Nat /\ (n + 1) - m = k + 1
    OBVIOUS
  <2> HIDE DEF k
  <2>2. Left(number, base, k + 1) = Left(less, base, k)
    BY Zenon, <1>0, <2>1, LeftAhead
  <2> QED BY Zenon, <2>1, <2>2 DEF k
<1>3. Digit(number, n + 1, n + 1) = HexDigit(last)
  <2>1. (n + 1) - (n + 1) = 0
    OBVIOUS
  <2>2. Left(number, base, 0) = number
    <3>1. 0 \in Nat
      OBVIOUS
    <3> QED BY Zenon, <1>0, <3>1, LeftSteps
  <2> QED BY Zenon, <2>1, <2>2
<1>4. HexDigit(last) \in Int
  BY <1>0, HexDigitType
<1> HIDE DEF less, last
<1>5. /\ DigitsOf(number, base, n) = [m \in 1 .. n |-> Digit(number, n, m)]
      /\ DigitsOf(less, base, n) = [m \in 1 .. n |-> Digit(less, n, m)]
      /\ DigitsOf(number, base, n + 1) = [m \in 1 .. n + 1 |-> Digit(number, n + 1, m)]
  BY Zenon DEF DigitsOf
<1> HIDE DEF Digit
<1>6. DigitsOf(number, base, n) \in Seq(Int) /\ Len(DigitsOf(number, base, n)) = n
  BY <1>1, <1>5
<1>7. DigitsOf(less, base, n) \in Seq(Int) /\ Len(DigitsOf(less, base, n)) = n
  BY <1>0, <1>1, <1>5
<1>8. DigitsOf(number, base, n + 1) \in Seq(Int) /\ Len(DigitsOf(number, base, n + 1)) = n + 1
  <2>1. \A m \in 1 .. n + 1 : Digit(number, n + 1, m) \in Int
    BY <1>1
  <2> QED BY <1>5, <2>1
<1> DEFINE s == DigitsOf(number, base, n + 1)
           t == DigitsOf(less, base, n)
<1>9. /\ \A m \in 1 .. n : s[m] = t[m]
      /\ s[n + 1] = HexDigit(last)
  BY <1>2, <1>3, <1>5
<1> HIDE DEF s, t
<1>10. s = Append(t, HexDigit(last))
  BY <1>4, <1>7, <1>8, <1>9 DEF s, t
<1> QED BY <1>6, <1>10 DEF s, t, less, last

\* The digits of 0.
LEMMA DigitsOfZero ==
    ASSUME NEW base \in Bases, NEW n \in Nat
    PROVE  DigitsOf(0, base, n) = ZerosOf(n)
<1> DEFINE Same == {m \in Nat : DigitsOf(0, base, m) = ZerosOf(m)}
<1>1. 0 \in Same
  BY DEF DigitsOf, ZerosOf
<1>2. ASSUME NEW m \in Nat, m \in Same PROVE m + 1 \in Same
  <2>1. 0 \div base = 0 /\ 0 % base = 0
    <3>1. 0 \in Nat /\ 0 < base
      BY BaseIsNumber
    <3> QED BY Zenon, <3>1, Quotient
  <2>2. HexDigit(0) = Zero
    BY DEF HexDigit, Zero
  <2>3. DigitsOf(0, base, m + 1) = Append(DigitsOf(0 \div base, base, m), HexDigit(0 % base))
    <3>1. 0 \in Nat
      OBVIOUS
    <3> QED BY Zenon, <3>1, DigitsSteps
  <2>4. DigitsOf(0, base, m) = ZerosOf(m)
    BY <1>2
  <2>5. DigitsOf(0, base, m + 1) = Append(ZerosOf(m), Zero)
    BY Zenon, <2>1, <2>2, <2>3, <2>4
  <2>6. Append(ZerosOf(m), Zero) = ZerosOf(m + 1)
    BY Zenon, ZeroDigits
  <2> QED BY <2>5, <2>6
<1>3. Nat \subseteq Same
  <2> HIDE DEF Same
  <2> QED BY <1>1, <1>2, AllNumbers
<1> QED BY <1>3

LEMMA PaddedSteps ==
    ASSUME NEW s \in Seq(Int), NEW d \in Int, NEW n \in Nat
    PROVE  /\ Padded(Append(s, d), n + 1) = Append(Padded(s, n), d)
           /\ Padded(<<d>>, n + 1) = Append(ZerosOf(n), d)
<1>1. Padded(Append(s, d), n + 1) = Append(Padded(s, n), d)
  <2> DEFINE z == [m \in 1 .. n - Len(s) |-> Zero]
  <2>1. Len(Append(s, d)) = Len(s) + 1 /\ (n + 1) - (Len(s) + 1) = n - Len(s)
    OBVIOUS
  <2>2. Padded(Append(s, d), n + 1) = z \o Append(s, d)
    BY Zenon, <2>1 DEF Padded
  <2>3. Padded(s, n) = z \o s
    BY DEF Padded
  <2>4. z \in Seq(Int)
    <3>1. CASE n - Len(s) \in Nat
      BY <3>1 DEF Zero
    <3>2. CASE n - Len(s) \notin Nat
      <4>1. 1 .. n - Len(s) = {}
        BY <3>2
      <4>2. z = [m \in {} |-> Zero]
        BY Zenon, <4>1
      <4>3. [m \in {} |-> Zero] \in Seq(Int)
        OBVIOUS
      <4> QED BY Zenon, <4>2, <4>3
    <3> QED BY <3>1, <3>2
  <2> HIDE DEF z
  <2>5. z \o Append(s, d) = Append(z \o s, d)
    BY <2>4
  <2> QED BY Zenon, <2>2, <2>3, <2>5
<1>2. Padded(<<d>>, n + 1) = Append(ZerosOf(n), d)
  <2>1. Len(<<d>>) = 1 /\ (n + 1) - 1 = n
    OBVIOUS
  <2>2. Padded(<<d>>, n + 1) = ZerosOf(n) \o <<d>>
    BY Zenon, <2>1 DEF Padded, ZerosOf
  <2>3. ZerosOf(n) \in Seq(Int)
    BY ZeroDigits
  <2> QED BY <2>2, <2>3
<1> QED BY <1>1, <1>2

\* A number that so many digits can have.
LEMMA DigitsArePadded ==
    ASSUME NEW base \in Bases, NEW n \in Nat, NEW number \in Nat, number < Power(base, n + 1)
    PROVE  DigitsOf(number, base, n + 1) = Padded(Numeral(number, base), n + 1)
<1> DEFINE Known == {m \in Nat : \A x \in Nat : x < Power(base, m + 1) =>
                                    DigitsOf(x, base, m + 1) = Padded(Numeral(x, base), m + 1)}
<1>0. base \in Nat \ {0}
  BY BaseIsNumber
<1>1. ASSUME NEW m \in Nat, NEW x \in Nat, x < base
      PROVE  DigitsOf(x, base, m + 1) = Padded(Numeral(x, base), m + 1)
  <2>1. x \div base = 0 /\ x % base = x
    BY Zenon, <1>1, Quotient
  <2>2. DigitsOf(x, base, m + 1) = Append(DigitsOf(x \div base, base, m), HexDigit(x % base))
    BY Zenon, DigitsSteps
  <2>3. DigitsOf(0, base, m) = ZerosOf(m)
    BY DigitsOfZero
  <2>4. Numeral(x, base) = <<HexDigit(x)>>
    BY Zenon, <1>1, NumeralSteps
  <2>5. Padded(<<HexDigit(x)>>, m + 1) = Append(ZerosOf(m), HexDigit(x))
    <3>1. << >> \in Seq(Int) /\ HexDigit(x) \in Int
      BY HexDigitType
    <3> QED BY Zenon, <3>1, PaddedSteps
  <2> QED BY Zenon, <2>1, <2>2, <2>3, <2>4, <2>5
<1>2. 0 \in Known
  <2>1. Power(base, 0 + 1) = base
    <3>1. Power(base, 0 + 1) = base * Power(base, 0) /\ Power(base, 0) = 1
      BY <1>0, PowerSteps
    <3> QED BY <1>0, <3>1
  <2> QED BY <1>1, <2>1
<1>3. ASSUME NEW m \in Nat, m \in Known PROVE m + 1 \in Known
  <2> SUFFICES ASSUME NEW x \in Nat, x < Power(base, (m + 1) + 1)
               PROVE  DigitsOf(x, base, (m + 1) + 1) = Padded(Numeral(x, base), (m + 1) + 1)
    OBVIOUS
  <2>0. m + 1 \in Nat
    OBVIOUS
  <2>1. CASE x < base
    BY Zenon, <1>1, <2>0, <2>1
  <2>2. CASE x >= base
    <3> DEFINE less == x \div base
               last == x % base
               p == Power(base, m + 1)
    <3>1. less \in Nat /\ last \in 0 .. base - 1 /\ x = less * base + last
      BY Zenon, Quotient
    <3>2. p \in Nat /\ Power(base, (m + 1) + 1) = base * p
      BY <1>0, <2>0, PowerSteps
    <3> HIDE DEF less, last, p
    <3>3. less < p
      <4>1. less * base + last < base * p
        BY <3>1, <3>2
      <4>2. ASSUME NEW b \in Nat \ {0}, NEW k \in Nat, NEW l \in Nat, NEW q \in Nat, k * b + l < b * q
            PROVE  k < q
        <5>1. ASSUME q <= k PROVE FALSE
          <6>1. q * b <= k * b
            BY <5>1
          <6> QED BY <4>2, <6>1
        <5> QED BY <5>1
      <4>3. last \in Nat
        BY <1>0, <3>1
      <4> QED BY <1>0, <3>1, <3>2, <4>1, <4>2, <4>3
    <3>4. DigitsOf(less, base, m + 1) = Padded(Numeral(less, base), m + 1)
      BY <1>3, <3>1, <3>3 DEF p
    <3>5. DigitsOf(x, base, (m + 1) + 1) = Append(DigitsOf(less, base, m + 1), HexDigit(last))
      BY Zenon, <2>0, DigitsSteps DEF less, last
    <3>6. Numeral(x, base) = Append(Numeral(less, base), HexDigit(last))
      BY Zenon, <2>2, NumeralSteps DEF less, last
    <3>7. Numeral(less, base) \in Seq(Int)
      BY Zenon, <3>1, NumeralSteps
    <3>8. HexDigit(last) \in Int
      <4>1. last \in Nat
        BY <1>0, <3>1
      <4> QED BY <4>1, HexDigitType
    <3>9. Padded(Append(Numeral(less, base), HexDigit(last)), (m + 1) + 1)
            = Append(Padded(Numeral(less, base), m + 1), HexDigit(last))
      BY Zenon, <2>0, <3>7, <3>8, PaddedSteps
    <3> QED BY Zenon, <3>4, <3>5, <3>6, <3>9
  <2>3. x < base \/ x >= base
    BY <1>0
  <2> QED BY Zenon, <2>1, <2>2, <2>3
<1>4. Nat \subseteq Known
  <2> HIDE DEF Known
  <2> QED BY <1>2, <1>3, AllNumbers
<1> QED BY <1>4

\* After them nothing is left.
LEMMA NothingLeft ==
    ASSUME NEW n \in Nat, NEW number \in Nat, number < Power(10, n)
    PROVE  Left(number, 10, n) = 0
<1> DEFINE Known == {m \in Nat : \A x \in Nat : x < Power(10, m) => Left(x, 10, m) = 0}
<1>1. 0 \in Known
  <2>1. Power(10, 0) = 1 /\ \A x \in Nat : Left(x, 10, 0) = x
    BY PowerSteps, LeftSteps
  <2> QED BY <2>1
<1>2. ASSUME NEW m \in Nat, m \in Known PROVE m + 1 \in Known
  <2> SUFFICES ASSUME NEW x \in Nat, x < Power(10, m + 1) PROVE Left(x, 10, m + 1) = 0
    OBVIOUS
  <2>1. Power(10, m) \in Nat /\ Power(10, m + 1) = 10 * Power(10, m)
    BY PowerSteps
  <2>2. x \div 10 \in Nat /\ x \div 10 < Power(10, m)
    <3>1. \A p \in Nat : x < 10 * p => x \div 10 \in Nat /\ x \div 10 < p
      BY SMT
    <3> QED BY <2>1, <3>1
  <2>3. Left(x, 10, m + 1) = Left(x \div 10, 10, m)
    <3>1. 10 \in Nat \ {0}
      OBVIOUS
    <3> QED BY Zenon, <3>1, LeftAhead
  <2> QED BY <1>2, <2>2, <2>3
<1>3. Nat \subseteq Known
  <2> HIDE DEF Known
  <2> QED BY <1>1, <1>2, AllNumbers
<1> QED BY <1>3

\* A number that fewer digits cannot have.
LEMMA NumeralIsLong ==
    ASSUME NEW n \in Nat, NEW number \in Nat, number >= Power(10, n)
    PROVE  Len(Numeral(number, 10)) >= n + 1
<1> DEFINE Known == {m \in Nat : \A x \in Nat : x >= Power(10, m) => Len(Numeral(x, 10)) >= m + 1}
<1>0. 10 \in Bases
  BY DEF Bases
<1>1. 0 \in Known
  <2> SUFFICES ASSUME NEW x \in Nat PROVE Len(Numeral(x, 10)) >= 1
    OBVIOUS
  <2>1. CASE x < 10
    <3>1. Numeral(x, 10) = <<HexDigit(x)>>
      BY Zenon, <1>0, <2>1, NumeralSteps
    <3> QED BY <3>1
  <2>2. CASE x >= 10
    <3>1. x \div 10 \in Nat
      OBVIOUS
    <3>2. Numeral(x, 10) = Append(Numeral(x \div 10, 10), HexDigit(x % 10))
      BY Zenon, <1>0, <2>2, NumeralSteps
    <3>3. Numeral(x \div 10, 10) \in Seq(Int)
      BY Zenon, <1>0, <3>1, NumeralSteps
    <3> QED BY <3>2, <3>3
  <2> QED BY <2>1, <2>2
<1>2. ASSUME NEW m \in Nat, m \in Known PROVE m + 1 \in Known
  <2> SUFFICES ASSUME NEW x \in Nat, x >= Power(10, m + 1) PROVE Len(Numeral(x, 10)) >= (m + 1) + 1
    OBVIOUS
  <2>1. Power(10, m) \in Nat \ {0} /\ Power(10, m + 1) = 10 * Power(10, m)
    <3>1. 10 \in Nat \ {0} /\ 10 \in Nat
      OBVIOUS
    <3> QED BY Zenon, <3>1, PowerSteps, PowerPositive
  <2>2. x \div 10 \in Nat /\ x \div 10 >= Power(10, m) /\ x >= 10
    <3>1. \A p \in Nat \ {0} : x >= 10 * p => x \div 10 \in Nat /\ x \div 10 >= p /\ x >= 10
      BY SMT
    <3> QED BY <2>1, <3>1
  <2>3. Numeral(x, 10) = Append(Numeral(x \div 10, 10), HexDigit(x % 10))
    BY Zenon, <1>0, <2>2, NumeralSteps
  <2>4. Numeral(x \div 10, 10) \in Seq(Int)
    BY Zenon, <1>0, <2>2, NumeralSteps
  <2>5. Len(Numeral(x \div 10, 10)) >= m + 1
    BY <1>2, <2>2
  <2>6. Len(Numeral(x, 10)) = Len(Numeral(x \div 10, 10)) + 1 /\ Len(Numeral(x \div 10, 10)) \in Nat
    BY <2>3, <2>4
  <2> QED BY <2>5, <2>6
<1>3. Nat \subseteq Known
  <2> HIDE DEF Known
  <2> QED BY <1>1, <1>2, AllNumbers
<1> QED BY <1>3

----------------------------------------------------------------------------
(***************************************************************************)
(* What a formatter writes.                                                *)
(***************************************************************************)

LEMMA TenAndTwo == 2 \in Nat \ {0} /\ 10 \in Nat \ {0} /\ 16 \in Nat \ {0} /\ 10 \in Nat /\ 0 \in Nat /\ 2 \in Nat
  OBVIOUS

\* An integer of so many bits.
LEMMA SignedBounds ==
    ASSUME NEW value \in Signed
    PROVE  /\ value \in Int
           /\ AbsOf(value) \in Nat
           /\ AbsOf(value) < Power(10, MaxDigits)
<1> DEFINE p == Power(2, Width - 1)
           q == Power(10, MaxDigits)
<1>1. p \in Nat /\ q \in Nat /\ p < q
  <2>1. Width - 1 \in Nat /\ MaxDigits \in Nat
    BY PrintAssumption
  <2> QED BY Zenon, <2>1, PowerSteps, PrintAssumption, TenAndTwo
<1>2. Signed = -p .. p - 1
  BY DEF Signed
<1> HIDE DEF p, q
<1> QED BY <1>1, <1>2 DEF AbsOf, q

\* How many digits an integer has.
LEMMA DigitsCountFits ==
    ASSUME NEW value \in Signed
    PROVE  /\ DigitsCount(value) \in Nat \ {0}
           /\ AbsOf(value) < Power(10, DigitsCount(value))
           /\ DigitsCount(value) # 1 => AbsOf(value) >= Power(10, DigitsCount(value) - 1)
<1> DEFINE a == AbsOf(value)
           enough == {n \in 1 .. MaxDigits - 1 : a < Power(10, n)}
           c == DigitsCount(value)
<1>1. a \in Nat /\ a < Power(10, MaxDigits)
  BY SignedBounds
<1>2. MaxDigits \in Nat \ {0}
  BY PrintAssumption
<1>3. \A n \in Nat : Power(10, n) \in Nat
  BY TenAndTwo, PowerSteps
<1>4. c = IF enough = {} THEN MaxDigits ELSE Min(enough)
  BY Zenon DEF DigitsCount
<1>5. CASE enough = {}
  <2>1. c = MaxDigits
    BY Zenon, <1>4, <1>5
  <2>2. c # 1 => c - 1 \in 1 .. MaxDigits - 1 /\ c - 1 \in Nat
    BY <1>2, <2>1
  <2>3. c # 1 => ~(a < Power(10, c - 1))
    BY <1>5, <2>2
  <2> HIDE DEF a, c, enough
  <2> QED BY <1>1, <1>2, <1>3, <2>1, <2>2, <2>3 DEF a, c
<1>6. CASE enough # {}
  <2>1. enough \subseteq Nat
    OBVIOUS
  <2>2. PICK x \in enough : \A y \in enough : x <= y
    <3> HIDE DEF enough
    <3> QED BY <1>6, <2>1, LeastNumber
  <2>3. c \in enough /\ \A y \in enough : c <= y
    <3>1. c = CHOOSE m \in enough : \A y \in enough : m =< y
      BY Zenon, <1>4, <1>6 DEF Min
    <3> HIDE DEF enough, c
    <3> QED BY <2>2, <3>1
  <2>4. c \in 1 .. MaxDigits - 1 /\ a < Power(10, c)
    <3> HIDE DEF c, a
    <3> QED BY <2>3
  <2>5. c # 1 => c - 1 \in 1 .. MaxDigits - 1 /\ c - 1 \in Nat /\ ~(c <= c - 1)
    <3> HIDE DEF c, a
    <3> QED BY <1>2, <2>4
  <2>6. c # 1 => ~(a < Power(10, c - 1))
    BY <2>3, <2>5
  <2> HIDE DEF a, c, enough
  <2> QED BY <1>1, <1>2, <1>3, <2>4, <2>5, <2>6 DEF a, c
<1> QED BY <1>5, <1>6

\* An integer is written as its numeral, counted as it is written, and leaves nothing.
LEMMA IntegerWritten ==
    ASSUME NEW value \in Signed
    PROVE  /\ IntBytes(value) = Sign(value) \o Numeral(AbsOf(value), 10)
           /\ IntBytes(value) \in Seq(Int)
           /\ Len(IntBytes(value)) = IntCount(value)
           /\ Left(AbsOf(value), 10, DigitsCount(value)) = 0
<1> DEFINE a == AbsOf(value)
           c == DigitsCount(value)
           numeral == Numeral(a, 10)
           digits == DigitsOf(a, 10, c)
<1>1. a \in Nat /\ value \in Int
  BY SignedBounds
<1>2. c \in Nat \ {0} /\ a < Power(10, c) /\ (c # 1 => a >= Power(10, c - 1))
  BY DigitsCountFits
<1> HIDE DEF a, c
<1>3. 10 \in Bases
  BY DEF Bases
<1>4. numeral \in Seq(Int) /\ digits \in Seq(Int) /\ Len(digits) = c
  BY <1>1, <1>2, <1>3, NumeralSteps, DigitsSteps
<1>5. digits = Padded(numeral, c)
  <2>1. c - 1 \in Nat /\ (c - 1) + 1 = c
    BY <1>2
  <2>2. a < Power(10, (c - 1) + 1)
    BY Zenon, <1>2, <2>1
  <2>3. DigitsOf(a, 10, (c - 1) + 1) = Padded(numeral, (c - 1) + 1)
    BY Zenon, <1>1, <1>3, <2>1, <2>2, DigitsArePadded
  <2> QED BY Zenon, <2>1, <2>3
<1>6. Len(numeral) >= c
  <2>1. CASE c = 1
    <3>1. Power(10, 0) = 1 /\ \A n \in Nat : Len(Numeral(n, 10)) \in Nat
      BY <1>3, NumeralSteps, PowerSteps, TenAndTwo
    <3>2. a < 10 => numeral = <<HexDigit(a)>>
      BY Zenon, <1>1, <1>3, NumeralSteps
    <3>3. a >= 10 => Len(numeral) >= 1
      <4>1. ASSUME a >= 10 PROVE Len(numeral) >= 1
        <5>1. a \div 10 \in Nat
          BY <1>1
        <5>2. Numeral(a \div 10, 10) \in Seq(Int)
          BY Zenon, <1>3, <5>1, NumeralSteps
        <5>3. numeral = Append(Numeral(a \div 10, 10), HexDigit(a % 10))
          BY Zenon, <1>1, <1>3, <4>1, NumeralSteps
        <5> QED BY <5>2, <5>3
      <4> QED BY <4>1
    <3> QED BY <1>1, <2>1, <3>2, <3>3
  <2>2. CASE c # 1
    <3>1. c - 1 \in Nat /\ a >= Power(10, c - 1) /\ (c - 1) + 1 = c
      BY <1>2, <2>2
    <3>2. Len(Numeral(a, 10)) >= (c - 1) + 1
      BY Zenon, <1>1, <3>1, NumeralIsLong
    <3> QED BY <3>1, <3>2
  <2> QED BY <2>1, <2>2
<1> HIDE DEF numeral, digits
<1>7. digits = numeral
  <2>1. 1 .. c - Len(numeral) = {}
    BY <1>2, <1>4, <1>6
  <2>2. [n \in 1 .. c - Len(numeral) |-> Zero] = << >>
    BY <2>1
  <2>3. Padded(numeral, c) = << >> \o numeral
    BY Zenon, <2>2 DEF Padded
  <2>4. << >> \o numeral = numeral
    BY <1>4, ConcatEmptySeq
  <2> QED BY Zenon, <1>5, <2>3, <2>4
<1>8. Sign(value) \in Seq(Int) /\ Len(Sign(value)) \in Nat
  BY <1>1 DEF Sign, Minus
<1>9. /\ IntBytes(value) = Sign(value) \o digits
      /\ IntCount(value) = c + Len(Sign(value))
  BY Zenon DEF IntBytes, IntCount, digits, a, c
<1>10. IntBytes(value) \in Seq(Int) /\ Len(IntBytes(value)) = IntCount(value)
  <2>1. /\ Sign(value) \o digits \in Seq(Int)
        /\ Len(Sign(value) \o digits) = Len(Sign(value)) + Len(digits)
    BY Zenon, <1>4, <1>8, ConcatProperties
  <2>2. Len(Sign(value)) + Len(digits) = c + Len(Sign(value))
    BY <1>2, <1>4, <1>8
  <2> QED BY Zenon, <1>9, <2>1, <2>2
<1>11. Left(a, 10, c) = 0
  BY <1>1, <1>2, NothingLeft
<1>12. IntBytes(value) = Sign(value) \o Numeral(a, 10)
  BY Zenon, <1>7, <1>9 DEF numeral
<1> QED BY Zenon, <1>10, <1>11, <1>12 DEF a, c

\* A part of a sequence.
LEMMA PartOf ==
    ASSUME NEW S, NEW s \in Seq(S), NEW m \in Nat \ {0}, NEW n \in Nat, m <= n + 1, n <= Len(s)
    PROVE  /\ SubSeq(s, m, n) \in Seq(S)
           /\ Len(SubSeq(s, m, n)) = (n + 1) - m
           /\ \A k \in 1 .. (n + 1) - m : SubSeq(s, m, n)[k] = s[(m + k) - 1]
<1>1. Len(s) \in Nat
  BY LenProperties
<1>2. \A k \in m .. n : s[k] \in S
  <2>1. \A k \in m .. n : k \in 1 .. Len(s)
    BY <1>1
  <2> QED BY <2>1, ElementOfSeq
<1>3. /\ SubSeq(s, m, n) \in Seq(S)
      /\ Len(SubSeq(s, m, n)) = IF m <= n THEN n - m + 1 ELSE 0
      /\ \A k \in 1 .. n - m + 1 : SubSeq(s, m, n)[k] = s[m + k - 1]
  BY <1>2, SubSeqProperties
<1> DEFINE t == SubSeq(s, m, n)
<1> HIDE DEF t
<1>4. Len(t) = (n + 1) - m /\ \A k \in 1 .. (n + 1) - m : t[k] = s[(m + k) - 1]
  BY <1>3 DEF t
<1> QED BY Zenon, <1>3, <1>4 DEF t

\* In two's complement.
LEMMA TwosComplement ==
    ASSUME NEW p \in Nat \ {0}, NEW value \in -p .. p - 1
    PROVE  /\ value % (2 * p) = IF value < 0 THEN 2 * p + value ELSE value
           /\ value % (2 * p) \in Nat
           /\ value % (2 * p) < 2 * p
<1> DEFINE w == 2 * p
           q == value \div w
           r == value % w
<1>1. w \in Nat \ {0} /\ value \in Int /\ -w < value /\ value < w
  OBVIOUS
<1> HIDE DEF w
<1>2. q \in Int /\ r \in 0 .. w - 1 /\ value = w * q + r
  BY <1>1
<1> HIDE DEF q, r
<1>3. q \in {-1, 0}
  <2>1. ASSUME q >= 1 PROVE FALSE
    <3>1. w * q >= w
      BY <1>1, <1>2, <2>1
    <3> QED BY <1>1, <1>2, <3>1
  <2>2. ASSUME q <= -2 PROVE FALSE
    <3>1. w * q <= w * (-2)
      BY <1>1, <1>2, <2>2
    <3> QED BY <1>1, <1>2, <3>1
  <2> QED BY <1>2, <2>1, <2>2
<1>4. r = IF value < 0 THEN w + value ELSE value
  <2>1. CASE q = 0
    <3>1. w * q = 0
      BY <1>1, <2>1
    <3> QED BY <1>1, <1>2, <3>1
  <2>2. CASE q = -1
    <3>1. w * q = -w
      BY <1>1, <2>2
    <3> QED BY <1>1, <1>2, <3>1
  <2> QED BY <1>3, <2>1, <2>2
<1>5. r \in Nat /\ r < w
  BY <1>1, <1>2
<1> QED BY Zenon, <1>4, <1>5 DEF r, w

\* All the digits of an integer.
LEMMA HexWritten ==
    ASSUME NEW value \in Signed
    PROVE  /\ HexBytes(value)
                = <<Zero, 120>> \o Padded(Numeral(IF value < 0 THEN Power(2, Width) + value ELSE value, 16),
                                          Width \div 4)
           /\ HexBytes(value) \in Seq(Int)
           /\ Len(HexBytes(value)) = HexCount
<1> DEFINE p == Power(2, Width - 1)
           k == Width \div 4
           x == value % Power(2, Width)
           digits == DigitsOf(x, 16, k)
<1>1. Width \in Nat \ {0} /\ Width - 1 \in Nat /\ (Width - 1) + 1 = Width
  BY PrintAssumption
<1>2. p \in Nat \ {0} /\ Power(2, Width) = 2 * p
  <2>1. p \in Nat \ {0}
    BY Zenon, <1>1, TenAndTwo, PowerPositive
  <2>2. Power(2, (Width - 1) + 1) = 2 * p
    BY Zenon, <1>1, TenAndTwo, PowerSteps
  <2> QED BY Zenon, <1>1, <2>1, <2>2
<1>3. k \in Nat \ {0} /\ Width = 4 * k /\ k - 1 \in Nat /\ (k - 1) + 1 = k
  <2>1. Width % 4 = 0
    BY PrintAssumption
  <2> QED BY <1>1, <2>1
<1>4. Power(2, Width) = Power(16, k)
  <2>1. Power(2, 4 * k) = Power(16, k)
    BY Zenon, <1>3, PowerOfSixteen
  <2> QED BY Zenon, <1>3, <2>1
<1>5. value \in -p .. p - 1
  BY DEF Signed
<1> HIDE DEF p
<1>6. /\ value % (2 * p) = IF value < 0 THEN 2 * p + value ELSE value
      /\ value % (2 * p) \in Nat
      /\ value % (2 * p) < 2 * p
  BY Zenon, <1>2, <1>5, TwosComplement
<1>7. /\ x = IF value < 0 THEN Power(2, Width) + value ELSE value
      /\ x \in Nat
      /\ x < Power(16, k)
  BY Zenon, <1>2, <1>4, <1>6
<1>8. 16 \in Bases
  BY DEF Bases
<1> HIDE DEF x, k
<1>9. digits = Padded(Numeral(x, 16), k)
  <2>1. x < Power(16, (k - 1) + 1)
    BY Zenon, <1>3, <1>7
  <2>2. DigitsOf(x, 16, (k - 1) + 1) = Padded(Numeral(x, 16), (k - 1) + 1)
    BY Zenon, <1>3, <1>7, <1>8, <2>1, DigitsArePadded
  <2> QED BY Zenon, <1>3, <2>2
<1>10. digits \in Seq(Int) /\ Len(digits) = k
  BY Zenon, <1>3, <1>7, <1>8, DigitsSteps
<1>11. <<Zero, 120>> \in Seq(Int) /\ Len(<<Zero, 120>>) = 2
  BY DEF Zero
<1>12. HexBytes(value) = <<Zero, 120>> \o digits /\ HexCount = 2 + k
  BY Zenon DEF HexBytes, HexCount, x, k
<1> HIDE DEF digits
<1>13. HexBytes(value) \in Seq(Int) /\ Len(HexBytes(value)) = 2 + Len(digits)
  <2>1. /\ <<Zero, 120>> \o digits \in Seq(Int)
        /\ Len(<<Zero, 120>> \o digits) = Len(<<Zero, 120>>) + Len(digits)
    BY Zenon, <1>10, <1>11, ConcatProperties
  <2> QED BY Zenon, <1>11, <1>12, <2>1
<1> QED BY Zenon, <1>7, <1>9, <1>10, <1>12, <1>13 DEF k

\* A string up to the byte that ends it.
LEMMA StringWritten ==
    ASSUME NEW str \in Seq(0 .. 255), \E n \in DOMAIN str : str[n] = 0
    PROVE  /\ UpToNull(str)
                = CHOOSE s \in Prefixes(str) : 0 \notin Range(s) /\ IsPrefix(Append(s, 0), str)
           /\ UpToNull(str) \in Seq(Int)
<1> DEFINE ends == {n \in DOMAIN str : str[n] = 0}
           m == Min(ends)
           up == SubSeq(str, 1, m - 1)
<1>0. ASSUME NEW l \in 0 .. Len(str)
      PROVE  /\ SubSeq(str, 1, l) \in Seq(0 .. 255) /\ SubSeq(str, 1, l) \in Seq(Int)
             /\ Len(SubSeq(str, 1, l)) = l
             /\ \A n \in 1 .. l : SubSeq(str, 1, l)[n] = str[n]
  <2> DEFINE B == 0 .. 255
  <2>1. 1 \in Nat \ {0} /\ l \in Nat /\ 1 <= l + 1 /\ l <= Len(str) /\ str \in Seq(B)
    OBVIOUS
  <2> HIDE DEF B
  <2>2. /\ SubSeq(str, 1, l) \in Seq(B)
        /\ Len(SubSeq(str, 1, l)) = (l + 1) - 1
        /\ \A n \in 1 .. (l + 1) - 1 : SubSeq(str, 1, l)[n] = str[(1 + n) - 1]
    BY <2>1, PartOf
  <2> DEFINE s == SubSeq(str, 1, l)
  <2> HIDE DEF s
  <2>4. Len(s) = l /\ \A n \in 1 .. l : s[n] = str[n]
    <3>1. (l + 1) - 1 = l /\ \A n \in 1 .. l : (1 + n) - 1 = n
      OBVIOUS
    <3> QED BY <2>2, <3>1 DEF s
  <2>5. s \in Seq(0 .. 255) /\ s \in Seq(Int)
    <3>1. s \in Seq(0 .. 255)
      BY Zenon, <2>2 DEF B, s
    <3>2. 0 .. 255 \subseteq Int
      OBVIOUS
    <3> QED BY Zenon, <3>1, <3>2, SeqMonotonic
  <2> QED BY Zenon, <2>4, <2>5 DEF s
<1>1. ends # {} /\ ends \subseteq Nat
  OBVIOUS
<1>2. PICK x \in ends : \A y \in ends : x <= y
  <2> HIDE DEF ends
  <2> QED BY <1>1, LeastNumber
<1>3. m \in ends /\ \A y \in ends : m <= y
  <2>1. m = CHOOSE n \in ends : \A y \in ends : n =< y
    BY Zenon DEF Min
  <2> HIDE DEF ends, m
  <2> QED BY <1>2, <2>1
<1>4. m \in 1 .. Len(str) /\ str[m] = 0 /\ \A n \in 1 .. m - 1 : str[n] # 0
  <2> HIDE DEF m
  <2> QED BY <1>3
<1> HIDE DEF m
<1>5. up \in Seq(Int) /\ Len(up) = m - 1 /\ \A n \in 1 .. m - 1 : up[n] = str[n]
  BY <1>0, <1>4
<1>6. \A s \in Prefixes(str) : 0 \notin Range(s) /\ IsPrefix(Append(s, 0), str) <=> s = up
  <2> SUFFICES ASSUME NEW l \in 0 .. Len(str), NEW s, s = SubSeq(str, 1, l)
               PROVE  0 \notin Range(s) /\ IsPrefix(Append(s, 0), str) <=> s = up
    BY DEF Prefixes
  <2>1. s \in Seq(0 .. 255) /\ Len(s) = l /\ \A n \in 1 .. l : s[n] = str[n]
    BY Zenon, <1>0
  <2>2. Append(s, 0) \in Seq(0 .. 255) /\ Len(Append(s, 0)) = l + 1 /\ Append(s, 0)[l + 1] = 0
        /\ \A n \in 1 .. l : Append(s, 0)[n] = str[n]
    BY <2>1
  <2> HIDE DEF up
  <2>3. ASSUME 0 \notin Range(s), IsPrefix(Append(s, 0), str) PROVE l = m - 1
    <3>1. l + 1 <= Len(str) /\ SubSeq(Append(s, 0), 1, l + 1) = SubSeq(str, 1, l + 1)
      BY <2>2, <2>3 DEF IsPrefix
    <3>2. SubSeq(Append(s, 0), 1, l + 1)[l + 1] = 0
      BY <2>2
    <3>3. SubSeq(str, 1, l + 1)[l + 1] = str[l + 1]
      BY <3>1
    <3>4. str[l + 1] = 0
      BY <3>1, <3>2, <3>3
    <3>5. ~(l + 1 < m)
      BY <1>4, <3>4
    <3>6. \A n \in 1 .. l : str[n] # 0
      <4>1. \A n \in 1 .. l : n \in DOMAIN s /\ s[n] = str[n]
        BY <2>1
      <4> QED BY Zenon, <2>3, <4>1 DEF Range
    <3>7. ~(m <= l)
      BY <1>4, <3>6
    <3> QED BY <1>4, <3>5, <3>7
  <2>4. ASSUME l = m - 1 PROVE 0 \notin Range(s) /\ IsPrefix(Append(s, 0), str)
    <3>1. 0 \notin Range(s)
      BY <1>4, <2>1, <2>4 DEF Range
    <3>2. \A n \in 1 .. l + 1 : Append(s, 0)[n] = str[n]
      BY <1>4, <2>2, <2>4
    <3>3. l + 1 <= Len(str)
      BY <1>4, <2>4
    <3>4. SubSeq(Append(s, 0), 1, l + 1) = SubSeq(str, 1, l + 1)
      BY <2>2, <3>2, <3>3
    <3> QED BY <2>2, <3>1, <3>3, <3>4 DEF IsPrefix
  <2>5. l = m - 1 <=> s = up
    BY <1>4, <1>5, <2>1 DEF up
  <2> QED BY <2>3, <2>4, <2>5
<1>7. up \in Prefixes(str)
  <2>1. m - 1 \in 0 .. Len(str)
    BY <1>4
  <2> QED BY <2>1 DEF Prefixes
<1> HIDE DEF up
<1>8. up = CHOOSE s \in Prefixes(str) : 0 \notin Range(s) /\ IsPrefix(Append(s, 0), str)
  BY Zenon, <1>6, <1>7
<1>9. UpToNull(str) = up
  BY Zenon DEF UpToNull, up, m
<1> QED BY Zenon, <1>5, <1>8, <1>9

\* What a formatter can be, and the integer that it is once it has been used.
IsFormatter(f) ==
    \/ f \in [kind : IntKinds, value : Signed]
    \/ /\ f \in [kind : {"str", "str0"}, value : Seq(0 .. 255)]
       /\ f.kind = "str0" => \E n \in DOMAIN f.value : f.value[n] = 0

ZeroInt == [kind |-> "int", value |-> 0]

\* What a formatter stands for that has not been used.
TextOf(f) ==
    IF f.kind = "int" THEN Sign(f.value) \o Numeral(AbsOf(f.value), 10)
    ELSE IF f.kind = "hex" THEN
            <<Zero, 120>> \o Padded(Numeral(IF f.value < 0 THEN Power(2, Width) + f.value ELSE f.value, 16),
                                    Width \div 4)
    ELSE IF f.kind = "str" THEN f.value
    ELSE CHOOSE s \in Prefixes(f.value) : 0 \notin Range(s) /\ IsPrefix(Append(s, 0), f.value)

LEMMA AllAreFormatters ==
    /\ \A f \in Formatters : IsFormatter(f)
    /\ IsFormatter(ZeroInt)
<1>1. ASSUME NEW f \in Formatters PROVE IsFormatter(f)
  BY PrintAssumption DEF IsFormatter
<1>2. 0 \in Signed
  <2>1. Width - 1 \in Nat
    BY PrintAssumption
  <2>2. Power(2, Width - 1) \in Nat \ {0}
    BY Zenon, <2>1, TenAndTwo, PowerPositive
  <2> QED BY <2>2 DEF Signed
<1>3. IsFormatter(ZeroInt)
  BY <1>2 DEF IsFormatter, ZeroInt, IntKinds
<1> QED BY <1>1, <1>3

LEMMA KindOf ==
    ASSUME NEW f, IsFormatter(f)
    PROVE  \/ f.kind \in {"int", "hex"} /\ f.value \in Signed
           \/ f.kind = "str" /\ f.value \in Seq(0 .. 255)
           \/ f.kind = "str0" /\ f.value \in Seq(0 .. 255) /\ \E n \in DOMAIN f.value : f.value[n] = 0
BY DEF IsFormatter, IntKinds

\* Every procedure proc writes what the formatter stands for, as many bytes as count says.
LEMMA FormatterWritten ==
    ASSUME NEW f, IsFormatter(f)
    PROVE  /\ Bytes(f) = TextOf(f)
           /\ Bytes(f) \in Seq(Int)
           /\ Len(Bytes(f)) = Count(f)
<1>1. CASE f.kind = "int" /\ f.value \in Signed
  <2>1. /\ Bytes(f) = IntBytes(f.value)
        /\ Count(f) = IntCount(f.value)
        /\ TextOf(f) = Sign(f.value) \o Numeral(AbsOf(f.value), 10)
    BY Zenon, <1>1 DEF Bytes, Count, TextOf
  <2> QED BY Zenon, <1>1, <2>1, IntegerWritten
<1>2. CASE f.kind = "hex" /\ f.value \in Signed
  <2>0. f.kind # "int"
    BY <1>2
  <2>1. /\ Bytes(f) = HexBytes(f.value)
        /\ Count(f) = HexCount
        /\ TextOf(f) = <<Zero, 120>> \o Padded(Numeral(IF f.value < 0 THEN Power(2, Width) + f.value
                                                       ELSE f.value, 16), Width \div 4)
    BY Zenon, <1>2, <2>0 DEF Bytes, Count, TextOf
  <2> QED BY Zenon, <1>2, <2>1, HexWritten
<1>3. CASE f.kind = "str" /\ f.value \in Seq(0 .. 255)
  <2>0. f.kind # "int" /\ f.kind # "hex"
    BY <1>3
  <2>1. Bytes(f) = f.value /\ Count(f) = Len(f.value) /\ TextOf(f) = f.value
    BY Zenon, <1>3, <2>0 DEF Bytes, Count, TextOf
  <2>2. f.value \in Seq(Int)
    <3>1. 0 .. 255 \subseteq Int
      OBVIOUS
    <3> QED BY Zenon, <1>3, <3>1, SeqMonotonic
  <2> QED BY Zenon, <2>1, <2>2
<1>4. CASE /\ f.kind = "str0" /\ f.value \in Seq(0 .. 255)
           /\ \E n \in DOMAIN f.value : f.value[n] = 0
  <2>0. f.kind # "int" /\ f.kind # "hex" /\ f.kind # "str"
    BY <1>4
  <2>1. /\ Bytes(f) = UpToNull(f.value)
        /\ Count(f) = Len(UpToNull(f.value))
        /\ TextOf(f) = CHOOSE s \in Prefixes(f.value) : 0 \notin Range(s) /\ IsPrefix(Append(s, 0), f.value)
    BY Zenon, <1>4, <2>0 DEF Bytes, Count, TextOf
  <2> QED BY Zenon, <1>4, <2>1, StringWritten
<1>5. f.kind \in {"int", "hex"} => f.kind = "int" \/ f.kind = "hex"
  OBVIOUS
<1> QED BY Zenon, <1>1, <1>2, <1>3, <1>4, <1>5, KindOf

\* What writing makes of it.
LEMMA FormatterUsed ==
    ASSUME NEW f, IsFormatter(f)
    PROVE  /\ f.kind = "int" => Used(f) = ZeroInt
           /\ f.kind # "int" => Used(f) = f
<1>1. ASSUME f.kind = "int" PROVE Used(f) = ZeroInt
  <2>1. f.value \in Signed /\ f \in [kind : IntKinds, value : Signed]
    BY <1>1 DEF IsFormatter
  <2>2. Left(AbsOf(f.value), 10, DigitsCount(f.value)) = 0
    BY Zenon, <2>1, IntegerWritten
  <2> DEFINE sign == IF f.value < 0 THEN -1 ELSE 1
  <2>3. Used(f) = [f EXCEPT !.value = sign * Left(AbsOf(f.value), 10, DigitsCount(f.value))]
    BY Zenon, <1>1 DEF Used
  <2>4. sign * 0 = 0
    OBVIOUS
  <2> HIDE DEF sign
  <2>5. Used(f) = [f EXCEPT !.value = 0]
    BY Zenon, <2>2, <2>3, <2>4
  <2>6. [f EXCEPT !.value = 0] = ZeroInt
    BY <1>1, <2>1 DEF ZeroInt
  <2> QED BY Zenon, <2>5, <2>6
<1>2. ASSUME f.kind # "int" PROVE Used(f) = f
  BY Zenon, <1>2 DEF Used
<1> QED BY <1>1, <1>2

\* An integer 0 is one byte, and no integer is shorter.
LEMMA ZeroIsShort ==
    /\ TextOf(ZeroInt) = <<Zero>>
    /\ Count(ZeroInt) = 1
    /\ \A f : IsFormatter(f) /\ f.kind = "int" => Count(f) >= 1
<1>1. TextOf(ZeroInt) = <<Zero>>
  <2>1. ZeroInt.kind = "int" /\ ZeroInt.value = 0
    BY DEF ZeroInt
  <2>2. Sign(0) = << >> /\ AbsOf(0) = 0 /\ HexDigit(0) = Zero
    BY DEF Sign, AbsOf, HexDigit, Zero
  <2>3. Numeral(0, 10) = <<HexDigit(0)>>
    <3>1. 10 \in Bases /\ 0 < 10
      BY DEF Bases
    <3> QED BY Zenon, <3>1, TenAndTwo, NumeralSteps
  <2>4. TextOf(ZeroInt) = << >> \o <<Zero>>
    BY Zenon, <2>1, <2>2, <2>3 DEF TextOf
  <2> QED BY <2>4 DEF Zero
<1>2. Count(ZeroInt) = 1
  <2>1. Bytes(ZeroInt) = TextOf(ZeroInt) /\ Len(Bytes(ZeroInt)) = Count(ZeroInt)
    BY Zenon, AllAreFormatters, FormatterWritten
  <2> QED BY <1>1, <2>1
<1>3. ASSUME NEW f, IsFormatter(f), f.kind = "int" PROVE Count(f) >= 1
  <2>1. f.value \in Signed
    BY <1>3 DEF IsFormatter
  <2>2. Count(f) = DigitsCount(f.value) + Len(Sign(f.value))
    BY Zenon, <1>3 DEF Count, IntCount
  <2>3. DigitsCount(f.value) \in Nat \ {0}
    BY <2>1, DigitsCountFits
  <2>4. Len(Sign(f.value)) \in Nat
    BY DEF Sign, Minus
  <2> QED BY <2>2, <2>3, <2>4
<1> QED BY <1>1, <1>2, <1>3

----------------------------------------------------------------------------
(***************************************************************************)
(* Sums, and sequences joined one after the other.                         *)
(***************************************************************************)

IsSum(f, counts, n) == f = [m \in 0 .. n |-> IF m = 0 THEN 0 ELSE f[m - 1] + counts[m]]

SumTo(counts, n) ==
    LET sum[m \in 0 .. n] == IF m = 0 THEN 0 ELSE sum[m - 1] + counts[m]
    IN  sum[n]

AreCounts(counts, n) == \A m \in 1 .. n : counts[m] \in Nat

LEMMA SumFollows ==
    ASSUME NEW n \in Nat, NEW counts, AreCounts(counts, n)
    PROVE  \E f \in [0 .. n -> Nat] : IsSum(f, counts, n) /\ SumTo(counts, n) = f[n]
<1> DEFINE g == [x \in Nat \X Nat |-> x[2] + (IF x[1] \in 1 .. n THEN counts[x[1]] ELSE 0)]
           p == CHOOSE f : IsSum(f, counts, n)
<1>1. PICK f \in [0 .. n -> Nat] : Follows(f, 0, g, n)
  <2>1. g \in [Nat \X Nat -> Nat]
    BY DEF AreCounts
  <2> HIDE DEF g
  <2> QED BY <2>1, Recursion
<1>2. \A m \in 0 .. n : f[m] = IF m = 0 THEN 0 ELSE f[m - 1] + counts[m]
  <2> SUFFICES ASSUME NEW m \in 0 .. n, m # 0 PROVE f[m] = f[m - 1] + counts[m]
    BY <1>1 DEF Follows
  <2>1. <<m, f[m - 1]>> \in Nat \X Nat /\ m \in 1 .. n
    OBVIOUS
  <2>2. f[m] = g[<<m, f[m - 1]>>]
    BY <1>1 DEF Follows
  <2> QED BY <2>1, <2>2
<1>3. IsSum(f, counts, n)
  BY <1>2 DEF IsSum
<1>4. IsSum(p, counts, n)
  BY Zenon, <1>3
<1>5. SumTo(counts, n) = p[n]
  BY Zenon DEF SumTo, IsSum
<1> HIDE DEF p
<1>6. GoAlike(p, f, n)
  BY <1>3, <1>4 DEF IsSum, GoAlike
<1>7. \A m \in 0 .. n : p[m] = f[m]
  BY <1>6, Alike
<1> QED BY <1>3, <1>5, <1>7

\* One more number.
LEMMA SumSteps ==
    ASSUME NEW n \in Nat, NEW counts, AreCounts(counts, n + 1)
    PROVE  /\ SumTo(counts, 0) = 0
           /\ SumTo(counts, n) \in Nat
           /\ SumTo(counts, n + 1) = SumTo(counts, n) + counts[n + 1]
           /\ SumTo(counts, n) <= SumTo(counts, n + 1)
<1>0. AreCounts(counts, n) /\ AreCounts(counts, 0) /\ counts[n + 1] \in Nat /\ n + 1 \in Nat
  BY DEF AreCounts
<1>1. PICK f \in [0 .. n -> Nat] : IsSum(f, counts, n) /\ SumTo(counts, n) = f[n]
  BY <1>0, SumFollows
<1>2. PICK h \in [0 .. n + 1 -> Nat] : IsSum(h, counts, n + 1) /\ SumTo(counts, n + 1) = h[n + 1]
  BY Zenon, <1>0, SumFollows
<1>3. SumTo(counts, 0) = 0
  <2>1. PICK z \in [0 .. 0 -> Nat] : IsSum(z, counts, 0) /\ SumTo(counts, 0) = z[0]
    BY Zenon, <1>0, TenAndTwo, SumFollows
  <2> QED BY <2>1 DEF IsSum
<1>4. GoAlike(f, h, n)
  BY <1>1, <1>2 DEF GoAlike, IsSum
<1>5. f[n] = h[n]
  BY <1>4, Alike
<1>6. h[n + 1] = h[n] + counts[n + 1]
  BY <1>2 DEF IsSum
<1> QED BY <1>0, <1>1, <1>2, <1>3, <1>5, <1>6

\* The numbers up to n are not more than all of them.
LEMMA SumGrows ==
    ASSUME NEW n \in Nat, NEW k \in Nat, NEW counts, AreCounts(counts, n + k)
    PROVE  SumTo(counts, n) \in Nat /\ SumTo(counts, n + k) \in Nat /\ SumTo(counts, n) <= SumTo(counts, n + k)
<1> DEFINE Less == {m \in Nat : AreCounts(counts, n + m) =>
                       /\ SumTo(counts, n) \in Nat /\ SumTo(counts, n + m) \in Nat
                       /\ SumTo(counts, n) <= SumTo(counts, n + m)}
<1>1. 0 \in Less
  <2>1. ASSUME AreCounts(counts, n) PROVE SumTo(counts, n) \in Nat
    <3>1. PICK f \in [0 .. n -> Nat] : SumTo(counts, n) = f[n]
      BY <2>1, SumFollows
    <3> QED BY <3>1
  <2> QED BY <2>1
<1>2. ASSUME NEW m \in Nat, m \in Less PROVE m + 1 \in Less
  <2> SUFFICES ASSUME AreCounts(counts, n + (m + 1))
               PROVE  /\ SumTo(counts, n) \in Nat /\ SumTo(counts, n + (m + 1)) \in Nat
                      /\ SumTo(counts, n) <= SumTo(counts, n + (m + 1))
    OBVIOUS
  <2> DEFINE l == n + m
  <2>1. l \in Nat /\ n + (m + 1) = l + 1
    OBVIOUS
  <2> HIDE DEF l
  <2>2. AreCounts(counts, l + 1) /\ AreCounts(counts, l) /\ counts[l + 1] \in Nat
    BY <2>1 DEF AreCounts
  <2>3. /\ SumTo(counts, l) \in Nat
        /\ SumTo(counts, l + 1) = SumTo(counts, l) + counts[l + 1]
    BY Zenon, <2>1, <2>2, SumSteps
  <2>4. SumTo(counts, n) \in Nat /\ SumTo(counts, n) <= SumTo(counts, l)
    BY <1>2, <2>2 DEF l
  <2> QED BY <2>1, <2>2, <2>3, <2>4
<1>3. Nat \subseteq Less
  <2> HIDE DEF Less
  <2> QED BY <1>1, <1>2, AllNumbers
<1> QED BY <1>3

\* What the first loop of cut_sprint_v counts.
LEMMA CountAllIsSum ==
    ASSUME NEW fmt, Len(fmt) \in Nat, NEW params, NEW counts, AreCounts(counts, Len(fmt)),
           \A n \in 1 .. Len(fmt) : ItemCount(fmt, params, n) = counts[n]
    PROVE  CountAll(fmt, params) = SumTo(counts, Len(fmt))
<1> DEFINE IsCount(f) ==
              f = [n \in 0 .. Len(fmt) |-> IF n = 0 THEN 0 ELSE f[n - 1] + ItemCount(fmt, params, n)]
           p == CHOOSE f : IsCount(f)
<1>1. PICK f \in [0 .. Len(fmt) -> Nat] :
         IsSum(f, counts, Len(fmt)) /\ SumTo(counts, Len(fmt)) = f[Len(fmt)]
  BY Zenon, SumFollows
<1>2. \A n \in 0 .. Len(fmt) : f[n] = IF n = 0 THEN 0 ELSE f[n - 1] + ItemCount(fmt, params, n)
  BY <1>1 DEF IsSum
<1>3. IsCount(f)
  BY <1>2
<1>4. IsCount(p)
  BY Zenon, <1>3
<1>5. CountAll(fmt, params) = p[Len(fmt)]
  BY Zenon DEF CountAll
<1> HIDE DEF p
<1>6. GoAlike(p, f, Len(fmt))
  BY <1>3, <1>4 DEF GoAlike
<1>7. \A n \in 0 .. Len(fmt) : p[n] = f[n]
  BY <1>6, Alike
<1> QED BY <1>1, <1>5, <1>7

Strings == Seq(Int)

IsFlat(f, seqs) == f = [n \in 1 .. Len(seqs) |-> IF n = 1 THEN seqs[n] ELSE f[n - 1] \o seqs[n]]

\* FlattenSeq joins what it has with the next one.
Joins(h, seqs) == h[0] = << >> /\ \A n \in 1 .. Len(seqs) : h[n] = h[n - 1] \o seqs[n]

LEMMA StringsAre ==
    /\ << >> \in Strings
    /\ \A s, t \in Strings : /\ s \o t \in Strings /\ Len(s \o t) = Len(s) + Len(t)
                             /\ Len(s) \in Nat
    /\ \A s \in Strings : s \o << >> = s /\ << >> \o s = s
    /\ \A s, t, u \in Strings : (s \o t) \o u = s \o (t \o u)
BY DEF Strings

LEMMA FlattenJoins ==
    ASSUME NEW seqs \in Seq(Strings)
    PROVE  \E h \in [0 .. Len(seqs) -> Strings] : Joins(h, seqs) /\ FlattenSeq(seqs) = h[Len(seqs)]
<1> DEFINE n == Len(seqs)
           g == [x \in Nat \X Strings |-> IF x[1] \in 1 .. n THEN x[2] \o seqs[x[1]] ELSE x[2]]
           p == CHOOSE f : IsFlat(f, seqs)
<1>0. n \in Nat /\ \A m \in 1 .. n : seqs[m] \in Strings
  BY LenProperties, ElementOfSeq
<1>1. PICK h \in [0 .. n -> Strings] : Follows(h, << >>, g, n)
  <2>1. g \in [Nat \X Strings -> Strings]
    <3> SUFFICES ASSUME NEW x \in Nat \X Strings
                 PROVE  (IF x[1] \in 1 .. n THEN x[2] \o seqs[x[1]] ELSE x[2]) \in Strings
      OBVIOUS
    <3>1. x[2] \in Strings
      OBVIOUS
    <3> QED BY Zenon, <1>0, <3>1, StringsAre
  <2> HIDE DEF g, n
  <2> QED BY <1>0, <2>1, StringsAre, Recursion
<1> HIDE DEF n
<1>2. Joins(h, seqs)
  <2>1. h[0] = << >>
    BY <1>0, <1>1 DEF Follows
  <2>2. ASSUME NEW m \in 1 .. n PROVE h[m] = h[m - 1] \o seqs[m]
    <3>1. <<m, h[m - 1]>> \in Nat \X Strings /\ m \in 0 .. n /\ m # 0
      BY <1>0
    <3>2. h[m] = g[<<m, h[m - 1]>>]
      BY <1>1, <3>1 DEF Follows
    <3>3. g[<<m, h[m - 1]>>] = h[m - 1] \o seqs[m]
      BY <3>1
    <3> QED BY Zenon, <3>2, <3>3
  <2> QED BY Zenon, <2>1, <2>2 DEF Joins, n
<1>3. CASE n = 0
  <2>1. seqs = << >>
    BY <1>3, EmptySeq DEF n
  <2>2. FlattenSeq(seqs) = seqs
    BY Zenon, <1>3 DEF FlattenSeq, n
  <2> QED BY Zenon, <1>2, <1>3, <2>1, <2>2 DEF Joins, n
<1>4. CASE n # 0
  <2> DEFINE f == [m \in 1 .. n |-> h[m]]
  <2>1. \A m \in 1 .. n : f[m] = IF m = 1 THEN seqs[m] ELSE f[m - 1] \o seqs[m]
    <3> SUFFICES ASSUME NEW m \in 1 .. n PROVE h[m] = IF m = 1 THEN seqs[m] ELSE f[m - 1] \o seqs[m]
      OBVIOUS
    <3>1. h[m] = h[m - 1] \o seqs[m]
      BY Zenon, <1>2 DEF Joins, n
    <3>2. CASE m = 1
      <4>1. m - 1 = 0 /\ seqs[m] \in Strings
        BY <1>0, <3>2
      <4>2. h[m] = << >> \o seqs[m]
        BY Zenon, <1>2, <3>1, <4>1 DEF Joins
      <4> QED BY Zenon, <3>2, <4>1, <4>2, StringsAre
    <3>3. CASE m # 1
      <4>1. m - 1 \in 1 .. n
        BY <1>0, <3>3
      <4>2. f[m - 1] = h[m - 1]
        BY <4>1
      <4> QED BY Zenon, <3>1, <3>3, <4>2
    <3> QED BY Zenon, <3>2, <3>3
  <2>2. IsFlat(f, seqs)
    <3>1. f = [m \in 1 .. n |-> IF m = 1 THEN seqs[m] ELSE f[m - 1] \o seqs[m]]
      BY <2>1
    <3> QED BY Zenon, <3>1 DEF IsFlat, n
  <2> HIDE DEF f
  <2>3. IsFlat(p, seqs)
    BY Zenon, <2>2
  <2>4. FlattenSeq(seqs) = p[n]
    BY Zenon, <1>4 DEF FlattenSeq, IsFlat, n
  <2> HIDE DEF p
  <2>5. p[n] = h[n]
    <3> DEFINE Same == {m \in Nat : m + 1 <= n => p[m + 1] = h[m + 1]}
    <3>1. \A m \in 1 .. n : p[m] = IF m = 1 THEN seqs[m] ELSE p[m - 1] \o seqs[m]
      BY Zenon, <2>3 DEF IsFlat, n
    <3>2. \A m \in 1 .. n : h[m] = IF m = 1 THEN seqs[m] ELSE h[m - 1] \o seqs[m]
      <4>1. ASSUME NEW m \in 1 .. n, m # 1 PROVE m - 1 \in 1 .. n
        BY <1>0, <4>1
      <4>2. \A m \in 1 .. n : f[m] = h[m]
        BY DEF f
      <4> QED BY Zenon, <2>1, <4>1, <4>2
    <3>3. 0 \in Same
      BY <3>1, <3>2
    <3>4. ASSUME NEW m \in Nat, m \in Same PROVE m + 1 \in Same
      <4> SUFFICES ASSUME (m + 1) + 1 <= n PROVE p[(m + 1) + 1] = h[(m + 1) + 1]
        OBVIOUS
      <4>1. (m + 1) + 1 \in 1 .. n /\ (m + 1) + 1 # 1 /\ ((m + 1) + 1) - 1 = m + 1 /\ m + 1 <= n
        BY <1>0
      <4>2. p[m + 1] = h[m + 1]
        BY <3>4, <4>1
      <4>3. /\ p[(m + 1) + 1] = p[m + 1] \o seqs[(m + 1) + 1]
            /\ h[(m + 1) + 1] = h[m + 1] \o seqs[(m + 1) + 1]
        BY <3>1, <3>2, <4>1
      <4> QED BY Zenon, <4>2, <4>3
    <3>5. Nat \subseteq Same
      <4> HIDE DEF Same
      <4> QED BY <3>3, <3>4, AllNumbers
    <3>6. n - 1 \in Nat /\ (n - 1) + 1 = n
      BY <1>0, <1>4
    <3> QED BY <1>0, <3>5, <3>6
  <2>6. FlattenSeq(seqs) = h[Len(seqs)]
    BY Zenon, <2>4, <2>5 DEF n
  <2>7. h \in [0 .. Len(seqs) -> Strings]
    BY Zenon DEF n
  <2> QED BY Zenon, <1>2, <2>6, <2>7
<1> QED BY Zenon, <1>3, <1>4

\* One more sequence.
LEMMA FlattenSteps ==
    /\ FlattenSeq(<< >>) = << >>
    /\ \A seqs \in Seq(Strings) : FlattenSeq(seqs) \in Strings
    /\ \A seqs \in Seq(Strings), s \in Strings : FlattenSeq(Append(seqs, s)) = FlattenSeq(seqs) \o s
<1>1. FlattenSeq(<< >>) = << >>
  BY DEF FlattenSeq
<1>2. ASSUME NEW seqs \in Seq(Strings) PROVE FlattenSeq(seqs) \in Strings
  <2>1. PICK h \in [0 .. Len(seqs) -> Strings] : FlattenSeq(seqs) = h[Len(seqs)]
    BY FlattenJoins
  <2>2. Len(seqs) \in 0 .. Len(seqs)
    BY LenProperties
  <2> QED BY <2>1, <2>2
<1>3. ASSUME NEW seqs \in Seq(Strings), NEW s \in Strings
      PROVE  FlattenSeq(Append(seqs, s)) = FlattenSeq(seqs) \o s
  <2> DEFINE n == Len(seqs)
             more == Append(seqs, s)
  <2>1. /\ n \in Nat /\ more \in Seq(Strings) /\ Len(more) = n + 1
        /\ more[n + 1] = s /\ \A m \in 1 .. n : more[m] = seqs[m]
    BY LenProperties, AppendProperties
  <2> HIDE DEF more
  <2>2. PICK f : Joins(f, seqs) /\ FlattenSeq(seqs) = f[n]
    BY FlattenJoins
  <2>3. PICK h : Joins(h, more) /\ FlattenSeq(more) = h[Len(more)]
    BY <2>1, FlattenJoins
  <2> HIDE DEF n
  <2>4. /\ f[0] = << >> /\ \A m \in 1 .. n : f[m] = f[m - 1] \o seqs[m]
        /\ h[0] = << >> /\ \A m \in 1 .. n + 1 : h[m] = h[m - 1] \o more[m]
    BY Zenon, <2>1, <2>2, <2>3 DEF Joins, n
  <2>5. \A m \in 1 .. n : m \in 1 .. n + 1
    BY <2>1
  <2>6. GoAlike(f, h, n)
    BY Zenon, <2>1, <2>4, <2>5 DEF GoAlike
  <2>7. f[n] = h[n]
    BY <2>1, <2>6, Alike
  <2>8. n + 1 \in 1 .. n + 1 /\ (n + 1) - 1 = n
    BY <2>1
  <2>9. h[n + 1] = h[n] \o s
    BY Zenon, <2>1, <2>4, <2>8
  <2> QED BY Zenon, <2>1, <2>2, <2>3, <2>7, <2>9 DEF more
<1> QED BY Zenon, <1>1, <1>2, <1>3

----------------------------------------------------------------------------
(***************************************************************************)
(* A call: what its items stand for, and what they are counted for.        *)
(***************************************************************************)

IsCall(fmt, params, mk) ==
    /\ fmt \in Seq(0 .. 255)
    /\ params \in [1 .. Parameter(fmt, Len(fmt)) -> Slots]
    /\ mk \in [Slots -> Formatters]

\* The formatters once the first k arguments of the call have been used.
FormattersAfter(mk, bf, params, k) ==
    [s \in Slots |-> IF mk[s].kind = "int" /\ s \in bf \cup {params[m] : m \in 1 .. k} THEN ZeroInt ELSE mk[s]]

MeaningIn(fmt, params, mk, bf, n) ==
    LET number == Parameter(fmt, n)
        f      == mk[params[number]]
        again  == params[number] \in bf \cup {params[m] : m \in 1 .. number - 1}
    IN  CASE f.kind = "int" /\ again  -> <<Zero>>
          [] f.kind = "int" /\ ~again -> Sign(f.value) \o Numeral(AbsOf(f.value), 10)
          [] f.kind = "hex" ->
                <<Zero, 120>> \o Padded(Numeral(IF f.value < 0 THEN Power(2, Width) + f.value ELSE f.value,
                                                16), Width \div 4)
          [] f.kind = "str"  -> f.value
          [] f.kind = "str0" ->
                CHOOSE s \in Prefixes(f.value) : 0 \notin Range(s) /\ IsPrefix(Append(s, 0), f.value)

TextIn(fmt, params, mk, bf, n) ==
    FlattenSeq([m \in 1 .. n |-> IF fmt[m] = Percent THEN MeaningIn(fmt, params, mk, bf, m) ELSE <<fmt[m]>>])

\* The same, item by item.
Items(fmt, params, mk, bf) ==
    [n \in 1 .. Len(fmt) |-> IF fmt[n] = Percent THEN MeaningIn(fmt, params, mk, bf, n) ELSE <<fmt[n]>>]

Joined(items, n) == FlattenSeq([m \in 1 .. n |-> items[m]])

\* What the items are counted for when the call begins.
Counts(fmt, params, mk, bf) ==
    [n \in 1 .. Len(fmt) |->
        IF fmt[n] = Percent THEN Count(FormattersAfter(mk, bf, params, 0)[params[Parameter(fmt, n)]]) ELSE 1]

Repeats(params, mk) ==
    \E m, n \in DOMAIN params : m < n /\ params[m] = params[n] /\ mk[params[m]].kind = "int"

\* The parameters up to the next byte of a format.
LEMMA ParameterSteps ==
    ASSUME NEW fmt, NEW n \in Nat
    PROVE  /\ Parameter(fmt, 0) = 0
           /\ Parameter(fmt, n) \in Nat
           /\ Parameter(fmt, n + 1) = IF fmt[n + 1] = Percent THEN Parameter(fmt, n) + 1 ELSE Parameter(fmt, n)
           /\ Parameter(fmt, n) <= Parameter(fmt, n + 1)
<1> DEFINE P(k) == {m \in 1 .. k : fmt[m] = Percent}
<1>1. \A k \in Nat : IsFiniteSet(P(k)) /\ Cardinality(P(k)) \in Nat
  <2> SUFFICES ASSUME NEW k \in Nat PROVE IsFiniteSet(P(k)) /\ Cardinality(P(k)) \in Nat
    OBVIOUS
  <2>1. IsFiniteSet(1 .. k)
    <3>1. 1 \in Int /\ k \in Int
      OBVIOUS
    <3> QED BY <3>1, FS_Interval
  <2>2. IsFiniteSet(P(k))
    <3>1. P(k) \subseteq 1 .. k
      OBVIOUS
    <3> QED BY <2>1, <3>1, FS_Subset
  <2> QED BY <2>2, FS_CardinalityType
<1>2. Parameter(fmt, 0) = 0
  <2>1. P(0) = {}
    OBVIOUS
  <2> QED BY <2>1, FS_EmptySet DEF Parameter
<1>3. CASE fmt[n + 1] = Percent
  <2>1. P(n + 1) = P(n) \cup {n + 1} /\ n + 1 \notin P(n)
    BY <1>3
  <2> HIDE DEF P
  <2>2. Cardinality(P(n + 1)) = Cardinality(P(n)) + 1
    BY <1>1, <2>1, FS_AddElement
  <2> QED BY <1>1, <1>2, <1>3, <2>2 DEF Parameter, P
<1>4. CASE fmt[n + 1] # Percent
  <2>1. P(n + 1) = P(n)
    BY <1>4
  <2> QED BY <1>1, <1>2, <1>4, <2>1 DEF Parameter
<1> QED BY <1>3, <1>4

\* No parameter of a format lies beyond its last.
LEMMA ParameterGrows ==
    ASSUME NEW fmt, NEW n \in Nat, NEW k \in Nat
    PROVE  Parameter(fmt, n) <= Parameter(fmt, n + k)
<1> DEFINE Less == {m \in Nat : Parameter(fmt, n) <= Parameter(fmt, n + m)}
<1>0. \A m \in Nat : Parameter(fmt, m) \in Nat /\ Parameter(fmt, m) <= Parameter(fmt, m + 1)
  BY ParameterSteps
<1>1. 0 \in Less
  BY <1>0
<1>2. ASSUME NEW m \in Nat, m \in Less PROVE m + 1 \in Less
  <2>1. n + m \in Nat /\ n + (m + 1) = (n + m) + 1 /\ n + (m + 1) \in Nat
    OBVIOUS
  <2>2. Parameter(fmt, n + m) <= Parameter(fmt, (n + m) + 1) /\ Parameter(fmt, n) <= Parameter(fmt, n + m)
    BY <1>0, <1>2, <2>1
  <2>3. Parameter(fmt, n) \in Nat /\ Parameter(fmt, n + m) \in Nat /\ Parameter(fmt, n + (m + 1)) \in Nat
    BY <1>0, <2>1
  <2> QED BY <2>1, <2>2, <2>3
<1>3. Nat \subseteq Less
  <2> HIDE DEF Less
  <2> QED BY <1>1, <1>2, AllNumbers
<1> QED BY <1>3

\* The parameter of an item, and its argument.
LEMMA ArgumentOf ==
    ASSUME NEW fmt, NEW params, NEW mk, IsCall(fmt, params, mk),
           NEW n \in 1 .. Len(fmt), fmt[n] = Percent
    PROVE  /\ Parameter(fmt, n) = Parameter(fmt, n - 1) + 1
           /\ Parameter(fmt, n - 1) \in Nat
           /\ Parameter(fmt, n) \in DOMAIN params
           /\ params[Parameter(fmt, n)] \in Slots
<1>1. Len(fmt) \in Nat
  BY LenProperties DEF IsCall
<1>2. n - 1 \in Nat /\ (n - 1) + 1 = n /\ n \in Nat /\ Len(fmt) - n \in Nat /\ n + (Len(fmt) - n) = Len(fmt)
  BY <1>1
<1>3. Parameter(fmt, n - 1) \in Nat /\ Parameter(fmt, n) = Parameter(fmt, n - 1) + 1
  <2>1. fmt[(n - 1) + 1] = Percent
    BY <1>2
  <2>2. /\ Parameter(fmt, n - 1) \in Nat
        /\ Parameter(fmt, (n - 1) + 1) = Parameter(fmt, n - 1) + 1
    BY Zenon, <1>2, <2>1, ParameterSteps
  <2> QED BY Zenon, <1>2, <2>2
<1>4. Parameter(fmt, n) <= Parameter(fmt, Len(fmt))
  BY <1>2, ParameterGrows
<1>5. Parameter(fmt, Len(fmt)) \in Nat
  BY <1>1, ParameterSteps
<1>6. Parameter(fmt, n) \in 1 .. Parameter(fmt, Len(fmt))
  BY <1>3, <1>4, <1>5
<1> QED BY <1>3, <1>6 DEF IsCall

\* What is written for an item when its turn has come is what it stands for; it is counted
\* then as it is written, and no more than it was counted for when the call began; the two
\* differ for an integer only that the call has used.
IsWritten(f, fmt, params, mk, bf, n) ==
    /\ Bytes(f) = MeaningIn(fmt, params, mk, bf, n)
    /\ Bytes(f) \in Strings
    /\ Len(Bytes(f)) = Count(f)
    /\ Count(f) <= Counts(fmt, params, mk, bf)[n]
    /\ Counts(fmt, params, mk, bf)[n] \in Nat
    /\ Count(f) # Counts(fmt, params, mk, bf)[n] => Repeats(params, mk)

\* That is so for every item of a call, whatever the calls before have used.
LEMMA ItemWritten ==
    ASSUME NEW fmt, NEW params, NEW mk, NEW bf, IsCall(fmt, params, mk),
           NEW n \in 1 .. Len(fmt), fmt[n] = Percent
    PROVE  IsWritten(FormattersAfter(mk, bf, params, Parameter(fmt, n - 1))[params[Parameter(fmt, n)]],
                     fmt, params, mk, bf, n)
<1> DEFINE k == Parameter(fmt, n - 1)
           slot == params[Parameter(fmt, n)]
           used == {params[m] : m \in 1 .. k}
           f == FormattersAfter(mk, bf, params, k)[slot]
           open == FormattersAfter(mk, bf, params, 0)[slot]
           again == slot \in bf \cup used
<1>1. Parameter(fmt, n) = k + 1 /\ k \in Nat /\ k + 1 \in DOMAIN params /\ slot \in Slots
  BY Zenon, ArgumentOf
<1>2. Parameter(fmt, n) - 1 = k
  BY <1>1
<1>3. mk[slot] \in Formatters
  BY <1>1 DEF IsCall
<1>4. IsFormatter(mk[slot])
  BY <1>3, AllAreFormatters
<1>5. f = IF mk[slot].kind = "int" /\ again THEN ZeroInt ELSE mk[slot]
  BY Zenon, <1>1 DEF FormattersAfter
<1>6. open = IF mk[slot].kind = "int" /\ slot \in bf THEN ZeroInt ELSE mk[slot]
  <2>1. {params[m] : m \in 1 .. 0} = {}
    OBVIOUS
  <2>2. \A x : x \in bf \cup {} <=> x \in bf
    OBVIOUS
  <2> QED BY Zenon, <1>1, <2>1, <2>2 DEF FormattersAfter
<1>7. Counts(fmt, params, mk, bf)[n] = Count(open)
  BY Zenon DEF Counts
<1>8. MeaningIn(fmt, params, mk, bf, n) = IF mk[slot].kind = "int" /\ again THEN <<Zero>> ELSE TextOf(mk[slot])
  <2>1. CASE mk[slot].kind = "int" /\ again
    BY Zenon, <1>2, <2>1 DEF MeaningIn
  <2>2. CASE mk[slot].kind = "int" /\ ~again
    BY Zenon, <1>2, <2>2 DEF MeaningIn, TextOf
  <2>3. CASE mk[slot].kind = "hex"
    <3>1. mk[slot].kind # "int"
      BY <2>3
    <3> QED BY Zenon, <1>2, <2>3, <3>1 DEF MeaningIn, TextOf
  <2>4. CASE mk[slot].kind = "str"
    <3>1. mk[slot].kind # "int" /\ mk[slot].kind # "hex"
      BY <2>4
    <3> QED BY Zenon, <1>2, <2>4, <3>1 DEF MeaningIn, TextOf
  <2>5. CASE mk[slot].kind = "str0"
    <3>1. mk[slot].kind # "int" /\ mk[slot].kind # "hex" /\ mk[slot].kind # "str"
      BY <2>5
    <3> DEFINE up(v) == CHOOSE t \in Prefixes(v) : 0 \notin Range(t) /\ IsPrefix(Append(t, 0), v)
    <3>2. MeaningIn(fmt, params, mk, bf, n) = up(mk[slot].value)
      BY Zenon, <1>2, <2>5, <3>1 DEF MeaningIn
    <3>3. TextOf(mk[slot]) = up(mk[slot].value)
      BY Zenon, <3>1 DEF TextOf
    <3> HIDE DEF up
    <3> QED BY Zenon, <2>5, <3>1, <3>2, <3>3
  <2>6. mk[slot].kind \in {"int", "hex", "str", "str0"}
    BY <1>4, KindOf
  <2> QED BY Zenon, <2>1, <2>2, <2>3, <2>4, <2>5, <2>6
<1>9. IsFormatter(f) /\ IsFormatter(open)
  BY Zenon, <1>4, <1>5, <1>6, AllAreFormatters
<1>10. ~(mk[slot].kind = "int" /\ slot \in bf) /\ mk[slot].kind = "int" /\ again => Repeats(params, mk)
  <2> SUFFICES ASSUME mk[slot].kind = "int", slot \in used PROVE Repeats(params, mk)
    OBVIOUS
  <2>1. PICK m \in 1 .. k : params[m] = slot
    OBVIOUS
  <2>2. m < k + 1 /\ m \in DOMAIN params
    <3>1. DOMAIN params = 1 .. Parameter(fmt, Len(fmt))
      BY DEF IsCall
    <3>2. Parameter(fmt, Len(fmt)) \in Nat
      <4>1. Len(fmt) \in Nat
        BY LenProperties DEF IsCall
      <4> QED BY <4>1, ParameterSteps
    <3> QED BY <1>1, <3>1, <3>2
  <2> QED BY Zenon, <1>1, <2>1, <2>2 DEF Repeats
<1>11. /\ Bytes(f) = TextOf(f) /\ Bytes(f) \in Strings
       /\ Len(Bytes(f)) = Count(f) /\ Len(Bytes(open)) = Count(open) /\ Bytes(open) \in Strings
  BY Zenon, <1>9, FormatterWritten DEF Strings
<1> HIDE DEF k, slot, used, f, open, again
<1>12. Bytes(f) = MeaningIn(fmt, params, mk, bf, n)
  BY Zenon, <1>5, <1>8, <1>11, ZeroIsShort
<1>13. Count(f) \in Nat /\ Count(open) \in Nat
  BY Zenon, <1>11, StringsAre
<1>14. Count(f) <= Count(open) /\ (Count(f) # Count(open) => Repeats(params, mk))
  <2>1. CASE f = open
    BY <1>13, <2>1
  <2>2. CASE f # open
    <3>1. f = ZeroInt /\ open = mk[slot] /\ mk[slot].kind = "int" /\ again /\ slot \notin bf
      <4>1. slot \in bf => again
        BY Zenon DEF again
      <4> QED BY Zenon, <1>5, <1>6, <2>2, <4>1
    <3>2. Count(open) >= 1 /\ Count(f) = 1
      BY Zenon, <1>4, <3>1, ZeroIsShort
    <3> QED BY <1>10, <1>13, <3>1, <3>2
  <2> QED BY <2>1, <2>2
<1> QED BY Zenon, <1>7, <1>11, <1>12, <1>13, <1>14 DEF f, k, slot, open, IsWritten

----------------------------------------------------------------------------
(***************************************************************************)
(* The characters of UTF-8: every one of them, not only those of a run.    *)
(***************************************************************************)

Six == 0 .. 63

\* The numbers that groups of bits make, four bytes of them, and the last number that Unicode has.
Two(a, z) == a * 64 + z
Three(a, y, z) == a * 4096 + y * 64 + z
Four(a, x, y, z) == a * 262144 + x * 4096 + y * 64 + z
InFour(a, x, y, z) == <<240 + a, 128 + x, 128 + y, 128 + z>>
LastScalar == 1114111

\* Six bits and what is above them; taking away six bits again and again.
LEMMA SplitLow ==
    ASSUME NEW n \in Nat
    PROVE  /\ n \div 64 \in Nat
           /\ Low(n) \in Six
           /\ n = (n \div 64) * 64 + Low(n)
  BY SMT DEF Low, Six

LEMMA Shifted ==
    ASSUME NEW n \in Nat
    PROVE  /\ n \div 4096 = (n \div 64) \div 64
           /\ n \div 262144 = ((n \div 64) \div 64) \div 64
  BY SMT

LEMMA Regrouped ==
    ASSUME NEW a \in Nat, NEW x \in Six, NEW y \in Six, NEW z \in Six
    PROVE  ((a * 64 + x) * 64 + y) * 64 + z = Four(a, x, y, z)
  BY SMT DEF Six, Four

LEMMA Top ==
    ASSUME NEW a \in Nat, NEW x \in Six, NEW y \in Six, NEW z \in Six,
           ((a * 64 + x) * 64 + y) * 64 + z <= LastScalar
    PROVE  a \in 0 .. 7
  BY SMT DEF Six, LastScalar

\* What is read of characters of two, three and four bytes that are made of groups of bits.
LEMMA OfTwoBytes ==
    ASSUME NEW a \in 0 .. 31, NEW l \in Six
    PROVE  Codepoint(<<192 + a, 128 + l>>) = Two(a, l)
<1>1. (192 + a) % 32 = a /\ (128 + l) % 64 = l
  BY SMT DEF Six
<1>2. Codepoint(<<192 + a, 128 + l>>) = ((192 + a) % 32) * 64 + ((128 + l) % 64)
  BY SMT DEF Codepoint, Low, Six
<1> QED BY SMT, <1>1, <1>2 DEF Two

LEMMA OfThreeBytes ==
    ASSUME NEW a \in 0 .. 15, NEW b \in Six, NEW l \in Six
    PROVE  Codepoint(<<224 + a, 128 + b, 128 + l>>) = Three(a, b, l)
<1>1. (224 + a) % 16 = a /\ (128 + b) % 64 = b /\ (128 + l) % 64 = l
  BY SMT DEF Six
<1>2. Codepoint(<<224 + a, 128 + b, 128 + l>>)
        = ((224 + a) % 16) * 4096 + ((128 + b) % 64) * 64 + ((128 + l) % 64)
  BY SMT DEF Codepoint, Low, Six
<1> QED BY SMT, <1>1, <1>2 DEF Three

LEMMA OfFourBytes ==
    ASSUME NEW a \in 0 .. 7, NEW b \in Six, NEW d \in Six, NEW l \in Six
    PROVE  Codepoint(InFour(a, b, d, l)) = Four(a, b, d, l)
<1>1. /\ (240 + a) % 8 = a /\ (128 + b) % 64 = b
      /\ (128 + d) % 64 = d /\ (128 + l) % 64 = l
  BY SMT DEF Six
<1>2. Codepoint(InFour(a, b, d, l))
        = ((240 + a) % 8) * 262144 + ((128 + b) % 64) * 4096 + ((128 + d) % 64) * 64 + ((128 + l) % 64)
  BY SMT DEF Codepoint, InFour, Low, Six
<1> QED BY SMT, <1>1, <1>2 DEF Four

LEMMA FirstIsNatural ==
    ASSUME NEW c \in Seq(Byte), Len(c) \in 1 .. 4
    PROVE  c[1] \in Nat
<1>1. c[1] \in Byte
  BY SMT
<1>2. \A byte \in Byte : byte \in Nat
  BY SMT DEF Byte
<1> QED BY Zenon, <1>1, <1>2

\* The length that the first byte of a character tells is the character's, for every one
\* that RFC 3629 allows: a walk neither skips nor tears one.
THEOREM LengthIsTold ==
    \A c \in Character : CharLen(c[1]) = Len(c)
<1> SUFFICES ASSUME NEW c \in Character PROVE CharLen(c[1]) = Len(c)
  OBVIOUS
<1>1. CASE c \in OneByte
  BY SMT, <1>1, FirstIsNatural DEF OneByte, CharLen, Within
<1>2. CASE c \in TwoBytes
  BY SMT, <1>2, FirstIsNatural DEF TwoBytes, CharLen, Within
<1>3. CASE c \in ThreeBytes
  BY SMT, <1>3, FirstIsNatural DEF ThreeBytes, CharLen, Within
<1>4. CASE c \in FourBytes
  BY SMT, <1>4, FirstIsNatural DEF FourBytes, CharLen, Within
<1> QED BY Zenon, <1>1, <1>2, <1>3, <1>4 DEF Character

\* The code point that cut_utf8_char_codepoint finds in the encoding of a number is that
\* number, for all up to the last one that Unicode has.
THEOREM DecodesEncoded ==
    \A s \in Nat : s <= LastScalar => Codepoint(Encode(s)) = s
<1> SUFFICES ASSUME NEW s \in Nat, s <= LastScalar PROVE Codepoint(Encode(s)) = s
  OBVIOUS
<1> DEFINE l == Low(s)
           d == s \div 64
           b == d \div 64
           a == b \div 64
<1>1. d \in Nat /\ l \in Six /\ s = d * 64 + l
  BY SMT, SplitLow
<1> HIDE DEF d
<1>2. b \in Nat /\ Low(d) \in Six /\ d = b * 64 + Low(d)
  BY SMT, <1>1, SplitLow
<1> HIDE DEF b
<1>3. a \in Nat /\ Low(b) \in Six /\ b = a * 64 + Low(b)
  BY SMT, <1>2, SplitLow
<1>4. s \div 4096 = b /\ s \div 262144 = a
  BY SMT, Shifted DEF b, d
<1> HIDE DEF l, a
<1>5. CASE s <= 127
  BY SMT, <1>5 DEF Encode, Codepoint
<1>6. CASE ~(s <= 127) /\ s <= 2047
  <2>1. Encode(s) = <<192 + d, 128 + l>>
    BY SMT, <1>6 DEF Encode, d, l
  <2>2. d \in 0 .. 31
    BY SMT, <1>1, <1>6 DEF Six
  <2>3. Codepoint(<<192 + d, 128 + l>>) = Two(d, l)
    BY Zenon, <1>1, <2>2, OfTwoBytes
  <2>4. Two(d, l) = s
    BY SMT, <1>1 DEF Two
  <2> QED BY Zenon, <2>1, <2>3, <2>4
<1>7. CASE ~(s <= 2047) /\ s <= 65535
  <2>1. Encode(s) = <<224 + b, 128 + Low(d), 128 + l>>
    BY SMT, <1>4, <1>7 DEF Encode, d, l
  <2>2. b \in 0 .. 15 /\ s = Three(b, Low(d), l)
    BY SMT, <1>1, <1>2, <1>7 DEF Six, Three
  <2>3. Codepoint(<<224 + b, 128 + Low(d), 128 + l>>) = Three(b, Low(d), l)
    <3>1. b \in 0 .. 15 /\ Low(d) \in Six /\ l \in Six
      BY <1>1, <1>2, <2>2
    <3> QED BY ZenonT(60), <3>1, OfThreeBytes
  <2> QED BY Zenon, <2>1, <2>2, <2>3
<1>8. CASE ~(s <= 65535)
  <2>1. Encode(s) = InFour(a, Low(b), Low(d), l)
    BY SMT, <1>4, <1>8 DEF Encode, InFour, b, d, l
  <2>2. s = Four(a, Low(b), Low(d), l)
    BY SMT, <1>1, <1>2, <1>3, Regrouped
  <2>3. a \in 0 .. 7
    BY SMT, <1>1, <1>2, <1>3, Top
  <2>4. Codepoint(InFour(a, Low(b), Low(d), l)) = Four(a, Low(b), Low(d), l)
    BY Zenon, <1>1, <1>2, <1>3, <2>3, OfFourBytes
  <2> QED BY Zenon, <2>1, <2>2, <2>4
<1> QED BY SMT, <1>5, <1>6, <1>7, <1>8

\* The groups of bits of a number.
LEMMA Groups ==
    ASSUME NEW n \in Nat, NEW z \in Six
    PROVE  (n * 64 + z) \div 64 = n /\ Low(n * 64 + z) = z
  BY SMT DEF Low, Six

\* Three and four groups.
MakeThree(n, a, y, z) == (n \div 64) \div 64 = a /\ Low(n \div 64) = y /\ Low(n) = z

MakeFour(n, a, x, y, z) ==
    /\ ((n \div 64) \div 64) \div 64 = a
    /\ Low((n \div 64) \div 64) = x /\ Low(n \div 64) = y /\ Low(n) = z

\* Groups of bits are found again in the number that they make.
LEMMA GroupsOfThree ==
    ASSUME NEW a \in Nat, NEW y \in Six, NEW z \in Six
    PROVE  Three(a, y, z) \in Nat /\ MakeThree(Three(a, y, z), a, y, z)
<1> DEFINE m == a * 64 + y
           n == m * 64 + z
<1>0. m \in Nat
  BY DEF Six
<1>1. m \in Nat /\ m \div 64 = a /\ Low(m) = y
  BY Zenon, <1>0, Groups
<1>2. Three(a, y, z) = n
  BY SMT DEF Three, Six
<1> HIDE DEF m
<1>3. n \in Nat
  BY <1>1 DEF Six
<1>4. n \div 64 = m /\ Low(n) = z
  BY Zenon, <1>1, Groups
<1> HIDE DEF n
<1>6. MakeThree(n, a, y, z)
  BY Zenon, <1>1, <1>4 DEF MakeThree
<1> QED BY Zenon, <1>2, <1>3, <1>6

LEMMA GroupsOfFour ==
    ASSUME NEW a \in Nat, NEW x \in Six, NEW y \in Six, NEW z \in Six
    PROVE  Four(a, x, y, z) \in Nat /\ MakeFour(Four(a, x, y, z), a, x, y, z)
<1> DEFINE m == Three(a, x, y)
           n == m * 64 + z
<1>1. m \in Nat /\ MakeThree(m, a, x, y)
  BY Zenon, GroupsOfThree
<1>2. Four(a, x, y, z) = n
  BY SMT DEF Four, Three, Six
<1> HIDE DEF m
<1>3. n \in Nat
  BY <1>1 DEF Six
<1>4. n \div 64 = m /\ Low(n) = z
  BY Zenon, <1>1, Groups
<1> HIDE DEF n
<1>9. MakeFour(n, a, x, y, z)
  BY Zenon, <1>1, <1>4 DEF MakeThree, MakeFour
<1> QED BY Zenon, <1>2, <1>3, <1>9

\* The bytes of a character are numbers.
LEMMA BytesAre ==
    ASSUME NEW c \in Seq(Byte)
    PROVE  \A k \in 1 .. Len(c) : c[k] \in Int
<1>1. \A k \in 1 .. Len(c) : c[k] \in Byte
  BY ElementOfSeq
<1>2. \A byte \in Byte : byte \in Int
  BY DEF Byte
<1> QED BY Zenon, <1>1, <1>2

\* What the bytes may be.
LEMMA Ranges ==
    ASSUME NEW p \in Int, NEW q \in Int
    PROVE  /\ Within(p, 194, 223) => p - 192 \in 2 .. 31
           /\ IsTail(q) => q - 128 \in Six
           /\ Within(p, 224, 239) => p - 224 \in 0 .. 15
           /\ Within(p, 240, 244) => p - 240 \in 0 .. 7
           /\ Within(q, IF p = 224 THEN 160 ELSE 128, IF p = 237 THEN 159 ELSE 191) =>
                  q - 128 \in Six /\ (p - 224 = 0 => q - 128 >= 32)
           /\ Within(q, IF p = 240 THEN 144 ELSE 128, IF p = 244 THEN 143 ELSE 191) =>
                  q - 128 \in Six /\ (p - 240 = 0 => q - 128 >= 16)
BY SMT DEF Within, IsTail, Six

\* A character of every length, made of groups of bits.
LEMMA OneIs ==
    ASSUME NEW c \in OneByte
    PROVE  c \in Seq(Byte) /\ Len(c) = 1 /\ c[1] \in Nat /\ c[1] <= 127 /\ c = <<c[1]>>
<1>1. c \in Seq(Byte) /\ Len(c) = 1 /\ Within(c[1], 0, 127)
  BY SMT DEF OneByte
<1>2. c[1] \in Int
  BY <1>1, BytesAre
<1>3. c = <<c[1]>>
  BY <1>1
<1> QED BY <1>1, <1>2, <1>3 DEF Within

IsTwo(c, a, z) == a \in 2 .. 31 /\ z \in Six /\ c[1] = 192 + a /\ c[2] = 128 + z

LEMMA TwoAre ==
    ASSUME NEW c \in TwoBytes
    PROVE  /\ c \in Seq(Byte) /\ Len(c) = 2 /\ c = <<c[1], c[2]>>
           /\ \E a, z \in Int : IsTwo(c, a, z)
<1>1. c \in Seq(Byte) /\ Len(c) = 2 /\ Within(c[1], 194, 223) /\ IsTail(c[2])
  BY SMT DEF TwoBytes
<1>2. c \in Seq(Byte) /\ Len(c) = 2
  BY <1>1
<1>3. c[1] \in Int /\ c[2] \in Int
  BY <1>2, BytesAre
<1>4. c = <<c[1], c[2]>>
  BY <1>2
<1> DEFINE p == c[1]
           q == c[2]
<1>a. p \in Int /\ q \in Int /\ Within(p, 194, 223) /\ IsTail(q)
  BY SMT, <1>1, <1>3
<1> HIDE DEF p, q
<1>b. /\ p - 192 \in 2 .. 31 /\ q - 128 \in Six
      /\ p = 192 + (p - 192) /\ q = 128 + (q - 128)
      /\ p - 192 \in Int /\ q - 128 \in Int
  BY SMT, <1>a, Ranges
<1>5. /\ c[1] - 192 \in 2 .. 31 /\ c[2] - 128 \in Six
      /\ c[1] = 192 + (c[1] - 192) /\ c[2] = 128 + (c[2] - 128)
      /\ c[1] - 192 \in Int /\ c[2] - 128 \in Int
  BY SMT, <1>b DEF p, q
<1>6. IsTwo(c, c[1] - 192, c[2] - 128)
  BY SMT, <1>5 DEF IsTwo
<1> QED BY SMT, <1>2, <1>4, <1>5, <1>6

IsThree(c, a, y, z) ==
    /\ a \in 0 .. 15 /\ y \in Six /\ z \in Six /\ (a = 0 => y >= 32)
    /\ c[1] = 224 + a /\ c[2] = 128 + y /\ c[3] = 128 + z

LEMMA ThreeAre ==
    ASSUME NEW c \in ThreeBytes
    PROVE  /\ c \in Seq(Byte) /\ Len(c) = 3 /\ c = <<c[1], c[2], c[3]>>
           /\ \E a, y, z \in Int : IsThree(c, a, y, z)
<1>1. /\ c \in Seq(Byte) /\ Len(c) = 3 /\ Within(c[1], 224, 239) /\ IsTail(c[3])
      /\ Within(c[2], IF c[1] = 224 THEN 160 ELSE 128, IF c[1] = 237 THEN 159 ELSE 191)
  BY SMT DEF ThreeBytes
<1>2. c \in Seq(Byte) /\ Len(c) = 3
  BY <1>1
<1>3. c[1] \in Int /\ c[2] \in Int /\ c[3] \in Int
  <2>1. 1 \in 1 .. Len(c) /\ 2 \in 1 .. Len(c) /\ 3 \in 1 .. Len(c)
    BY SMT, <1>2
  <2> QED BY Zenon, <1>2, <2>1, BytesAre
<1>4. c = <<c[1], c[2], c[3]>>
  BY <1>2
<1> DEFINE p == c[1]
           q == c[2]
           r == c[3]
<1>a. /\ p \in Int /\ q \in Int /\ r \in Int /\ Within(p, 224, 239) /\ IsTail(r)
      /\ Within(q, IF p = 224 THEN 160 ELSE 128, IF p = 237 THEN 159 ELSE 191)
  BY SMT, <1>1, <1>3
<1> HIDE DEF p, q, r
<1>b. /\ p - 224 \in 0 .. 15 /\ q - 128 \in Six /\ r - 128 \in Six
      /\ p - 224 = 0 => q - 128 >= 32
  BY SMT, <1>a, Ranges
<1>5. /\ c[1] - 224 \in 0 .. 15 /\ c[2] - 128 \in Six /\ c[3] - 128 \in Six
      /\ c[1] - 224 = 0 => c[2] - 128 >= 32
  BY SMT, <1>b DEF p, q, r
<1>6. /\ c[1] = 224 + (c[1] - 224) /\ c[2] = 128 + (c[2] - 128) /\ c[3] = 128 + (c[3] - 128)
      /\ c[1] - 224 \in Int /\ c[2] - 128 \in Int /\ c[3] - 128 \in Int
  BY SMT, <1>3
<1>7. IsThree(c, c[1] - 224, c[2] - 128, c[3] - 128)
  BY SMT, <1>5, <1>6 DEF IsThree
<1> QED BY SMT, <1>2, <1>4, <1>6, <1>7

IsFour(c, a, x, y, z) ==
    /\ a \in 0 .. 7 /\ x \in Six /\ y \in Six /\ z \in Six /\ (a = 0 => x >= 16)
    /\ c[1] = 240 + a /\ c[2] = 128 + x /\ c[3] = 128 + y /\ c[4] = 128 + z

LEMMA FourAre ==
    ASSUME NEW c \in FourBytes
    PROVE  /\ c \in Seq(Byte) /\ Len(c) = 4 /\ c = <<c[1], c[2], c[3], c[4]>>
           /\ \E a, x, y, z \in Int : IsFour(c, a, x, y, z)
<1>1. /\ c \in Seq(Byte) /\ Len(c) = 4 /\ Within(c[1], 240, 244) /\ IsTail(c[3]) /\ IsTail(c[4])
      /\ Within(c[2], IF c[1] = 240 THEN 144 ELSE 128, IF c[1] = 244 THEN 143 ELSE 191)
  BY SMT DEF FourBytes
<1>2. c \in Seq(Byte) /\ Len(c) = 4
  BY <1>1
<1>3. c[1] \in Int /\ c[2] \in Int /\ c[3] \in Int /\ c[4] \in Int
  <2>1. 1 \in 1 .. Len(c) /\ 2 \in 1 .. Len(c) /\ 3 \in 1 .. Len(c) /\ 4 \in 1 .. Len(c)
    BY SMT, <1>2
  <2> QED BY Zenon, <1>2, <2>1, BytesAre
<1>4. c = <<c[1], c[2], c[3], c[4]>>
  BY <1>2
<1> DEFINE p == c[1]
           q == c[2]
           r == c[3]
           s == c[4]
<1>a. /\ p \in Int /\ q \in Int /\ r \in Int /\ s \in Int
      /\ Within(p, 240, 244) /\ IsTail(r) /\ IsTail(s)
      /\ Within(q, IF p = 240 THEN 144 ELSE 128, IF p = 244 THEN 143 ELSE 191)
  BY SMT, <1>1, <1>3
<1> HIDE DEF p, q, r, s
<1>b. /\ p - 240 \in 0 .. 7 /\ q - 128 \in Six /\ r - 128 \in Six /\ s - 128 \in Six
      /\ p - 240 = 0 => q - 128 >= 16
  BY SMT, <1>a, Ranges
<1>5. /\ c[1] - 240 \in 0 .. 7 /\ c[2] - 128 \in Six /\ c[3] - 128 \in Six /\ c[4] - 128 \in Six
      /\ c[1] - 240 = 0 => c[2] - 128 >= 16
  BY SMT, <1>b DEF p, q, r, s
<1>6. /\ c[1] = 240 + (c[1] - 240) /\ c[2] = 128 + (c[2] - 128)
      /\ c[3] = 128 + (c[3] - 128) /\ c[4] = 128 + (c[4] - 128)
      /\ c[1] - 240 \in Int /\ c[2] - 128 \in Int /\ c[3] - 128 \in Int /\ c[4] - 128 \in Int
  BY SMT, <1>3
<1>7. IsFour(c, c[1] - 240, c[2] - 128, c[3] - 128, c[4] - 128)
  BY SMT, <1>5, <1>6 DEF IsFour
<1> QED BY SMT, <1>2, <1>4, <1>6, <1>7

\* The encoding of a number of two, three and four groups.
LEMMA EncodeTwo ==
    ASSUME NEW n \in Nat, NEW a, NEW z, n > 127, n <= 2047, n \div 64 = a, Low(n) = z
    PROVE  Encode(n) = <<192 + a, 128 + z>>
BY SMT DEF Encode

LEMMA EncodeThree ==
    ASSUME NEW n \in Nat, NEW a, NEW y, NEW z, n > 2047, n <= 65535, MakeThree(n, a, y, z)
    PROVE  Encode(n) = <<224 + a, 128 + y, 128 + z>>
<1>1. n \div 4096 = (n \div 64) \div 64
  BY SMT, Shifted
<1>2. n \div 4096 = a /\ Low(n \div 64) = y /\ Low(n) = z
  BY SMT, <1>1 DEF MakeThree
<1> QED BY SMT, <1>2 DEF Encode

LEMMA EncodeFour ==
    ASSUME NEW n \in Nat, NEW a, NEW x, NEW y, NEW z, n > 65535, MakeFour(n, a, x, y, z)
    PROVE  Encode(n) = InFour(a, x, y, z)
<1>1. n \div 4096 = (n \div 64) \div 64 /\ n \div 262144 = ((n \div 64) \div 64) \div 64
  BY SMT, Shifted
<1>2. n \div 262144 = a /\ Low(n \div 4096) = x /\ Low(n \div 64) = y /\ Low(n) = z
  BY SMT, <1>1 DEF MakeFour
<1> QED BY SMT, <1>2 DEF Encode, InFour

\* A character is the encoding of its code point: the walk confuses no two of them.
THEOREM EncodesDecoded ==
    \A c \in Character : Encode(Codepoint(c)) = c /\ Codepoint(c) \in Nat
<1> SUFFICES ASSUME NEW c \in Character PROVE Encode(Codepoint(c)) = c /\ Codepoint(c) \in Nat
  OBVIOUS
<1>1. CASE c \in OneByte
  <2>1. c[1] \in Nat /\ c[1] <= 127 /\ c = <<c[1]>>
    BY <1>1, OneIs
  <2>2. Codepoint(c) = c[1]
    BY SMT, <2>1 DEF Codepoint
  <2>3. Encode(c[1]) = <<c[1]>>
    BY SMT, <2>1 DEF Encode
  <2> QED BY <2>1, <2>2, <2>3
<1>2. CASE c \in TwoBytes
  <2>1. PICK a, z \in Int : IsTwo(c, a, z)
    BY <1>2, TwoAre
  <2>2. c = <<c[1], c[2]>>
    BY <1>2, TwoAre
  <2>3. a \in 0 .. 31 /\ a \in Nat /\ a >= 2 /\ z \in Six
    BY SMT, <2>1 DEF IsTwo
  <2>4. c = <<192 + a, 128 + z>>
    BY SMT, <2>1, <2>2 DEF IsTwo
  <2>5. Codepoint(<<192 + a, 128 + z>>) = Two(a, z)
    BY SMT, <2>3, OfTwoBytes
  <2>6. Two(a, z) \in Nat /\ Two(a, z) > 127 /\ Two(a, z) <= 2047
    BY SMT, <2>3 DEF Two, Six
  <2>7. Two(a, z) \div 64 = a /\ Low(Two(a, z)) = z
    BY Zenon, <2>3, Groups DEF Two
  <2>8. Encode(Two(a, z)) = <<192 + a, 128 + z>>
    BY SMT, <2>6, <2>7, EncodeTwo
  <2> QED BY SMT, <2>4, <2>5, <2>6, <2>8
<1>3. CASE c \in ThreeBytes
  <2>1. PICK a, y, z \in Int : IsThree(c, a, y, z)
    BY <1>3, ThreeAre
  <2>2. c = <<c[1], c[2], c[3]>>
    BY <1>3, ThreeAre
  <2>3. a \in 0 .. 15 /\ a \in Nat /\ y \in Six /\ z \in Six /\ (a = 0 => y >= 32)
    BY SMT, <2>1 DEF IsThree
  <2>4. c = <<224 + a, 128 + y, 128 + z>>
    BY SMT, <2>1, <2>2 DEF IsThree
  <2>5. Codepoint(<<224 + a, 128 + y, 128 + z>>) = Three(a, y, z)
    BY SMT, <2>3, OfThreeBytes
  <2>6. Three(a, y, z) > 2047 /\ Three(a, y, z) <= 65535
    BY SMT, <2>3 DEF Three, Six
  <2>7. Three(a, y, z) \in Nat /\ MakeThree(Three(a, y, z), a, y, z)
    BY Zenon, <2>3, GroupsOfThree
  <2>8. Encode(Three(a, y, z)) = <<224 + a, 128 + y, 128 + z>>
    BY SMT, <2>6, <2>7, EncodeThree
  <2> QED BY SMT, <2>4, <2>5, <2>7, <2>8
<1>4. CASE c \in FourBytes
  <2>1. PICK a, x, y, z \in Int : IsFour(c, a, x, y, z)
    BY <1>4, FourAre
  <2>2. c = <<c[1], c[2], c[3], c[4]>>
    BY <1>4, FourAre
  <2>3. a \in 0 .. 7 /\ a \in Nat /\ x \in Six /\ y \in Six /\ z \in Six /\ (a = 0 => x >= 16)
    BY SMT, <2>1 DEF IsFour
  <2>4. c = InFour(a, x, y, z)
    BY SMT, <2>1, <2>2 DEF IsFour, InFour
  <2>5. Codepoint(InFour(a, x, y, z)) = Four(a, x, y, z)
    BY Zenon, <2>3, OfFourBytes
  <2>6. Four(a, x, y, z) > 65535
    BY SMT, <2>3 DEF Four, Six
  <2>7. Four(a, x, y, z) \in Nat /\ MakeFour(Four(a, x, y, z), a, x, y, z)
    BY Zenon, <2>3, GroupsOfFour
  <2>8. Encode(Four(a, x, y, z)) = InFour(a, x, y, z)
    BY SMT, <2>6, <2>7, EncodeFour
  <2> QED BY SMT, <2>4, <2>5, <2>7, <2>8
<1> QED BY Zenon, <1>1, <1>2, <1>3, <1>4 DEF Character

\* Bytes behind a character do not matter to its code point.
BeginsWith(str, c) == \A n \in 1 .. Len(c) : str[n] = c[n]

\* A code point depends on the character's own bytes alone.
LEMMA OwnBytes ==
    ASSUME NEW c \in Character, NEW str, BeginsWith(str, c)
    PROVE  Codepoint(str) = Codepoint(c)
<1>1. CASE c \in OneByte
  <2>1. Len(c) = 1 /\ c[1] \in Nat /\ c[1] <= 127
    BY <1>1, OneIs
  <2>2. str[1] = c[1]
    BY <2>1 DEF BeginsWith
  <2> QED BY SMT, <2>1, <2>2 DEF Codepoint
<1>2. CASE c \in TwoBytes
  <2>1. PICK a, z \in Int : IsTwo(c, a, z)
    BY <1>2, TwoAre
  <2>2. Len(c) = 2
    BY <1>2, TwoAre
  <2>3. str[1] = c[1] /\ str[2] = c[2]
    BY <2>2 DEF BeginsWith
  <2>4. c[1] \in Int /\ ~(c[1] <= 127) /\ c[1] <= 223
    BY SMT, <2>1 DEF IsTwo
  <2> QED BY SMT, <2>3, <2>4 DEF Codepoint
<1>3. CASE c \in ThreeBytes
  <2>1. PICK a, y, z \in Int : IsThree(c, a, y, z)
    BY <1>3, ThreeAre
  <2>2. Len(c) = 3
    BY <1>3, ThreeAre
  <2>3. str[1] = c[1] /\ str[2] = c[2] /\ str[3] = c[3]
    BY <2>2 DEF BeginsWith
  <2>4. c[1] \in Int /\ ~(c[1] <= 127) /\ ~(c[1] <= 223) /\ c[1] <= 239
    BY SMT, <2>1 DEF IsThree
  <2> QED BY SMT, <2>3, <2>4 DEF Codepoint
<1>4. CASE c \in FourBytes
  <2>1. PICK a, x, y, z \in Int : IsFour(c, a, x, y, z)
    BY <1>4, FourAre
  <2>2. Len(c) = 4
    BY <1>4, FourAre
  <2>3. str[1] = c[1] /\ str[2] = c[2] /\ str[3] = c[3] /\ str[4] = c[4]
    BY <2>2 DEF BeginsWith
  <2>4. c[1] \in Int /\ ~(c[1] <= 127) /\ ~(c[1] <= 223) /\ ~(c[1] <= 239)
    BY SMT, <2>1 DEF IsFour
  <2> QED BY SMT, <2>3, <2>4 DEF Codepoint
<1> QED BY Zenon, <1>1, <1>2, <1>3, <1>4 DEF Character

----------------------------------------------------------------------------
(***************************************************************************)
(* The walk over a text, from any of its bytes.                            *)
(***************************************************************************)

\* A function whose value at a number depends on those at the numbers above it.
LooksAhead(G, S, n) ==
    /\ S # {} /\ G \in [(1 .. n) \X [1 .. n -> S] -> S]
    /\ \A k \in 1 .. n : \A f, h \in [1 .. n -> S] :
           (\A m \in k + 1 .. n : f[m] = h[m]) => G[<<k, f>>] = G[<<k, h>>]

Solves(f, G, first, n) == \A k \in first .. n : f[k] = G[<<k, f>>]

\* There is such a function.
LEMMA Backwards ==
    ASSUME NEW S, NEW n \in Nat, NEW G, LooksAhead(G, S, n)
    PROVE  \E f \in [1 .. n -> S] : Solves(f, G, 1, n)
<1> DEFINE Fs == [1 .. n -> S]
           Ends == {j \in Nat : j <= n => \E f \in Fs : Solves(f, G, (n - j) + 1, n)}
<1>0. S # {} /\ G \in [(1 .. n) \X Fs -> S]
  BY DEF LooksAhead
<1>a. PICK a \in S : TRUE
  BY <1>0
<1>1. 0 \in Ends
  <2> DEFINE f == [k \in 1 .. n |-> a]
  <2>1. f \in Fs
    OBVIOUS
  <2>2. Solves(f, G, (n - 0) + 1, n)
    <3>1. \A k \in (n - 0) + 1 .. n : FALSE
      OBVIOUS
    <3> QED BY Zenon, <3>1 DEF Solves
  <2>3. 0 \in Nat
    OBVIOUS
  <2> QED BY Zenon, <2>1, <2>2, <2>3
<1>2. ASSUME NEW j \in Nat, j \in Ends PROVE j + 1 \in Ends
  <2> SUFFICES ASSUME j + 1 <= n
               PROVE  \E f \in Fs : Solves(f, G, (n - (j + 1)) + 1, n)
    <3>1. j + 1 \in Nat
      OBVIOUS
    <3> QED BY Zenon, <3>1
  <2>1. PICK f \in Fs : \A k \in (n - j) + 1 .. n : f[k] = G[<<k, f>>]
    <3>1. j <= n
      OBVIOUS
    <3> QED BY Zenon, <1>2, <3>1 DEF Solves
  <2> DEFINE l == n - j
             h == [f EXCEPT ![l] = G[<<l, f>>]]
  <2>2. l \in 1 .. n /\ (n - (j + 1)) + 1 = l
    OBVIOUS
  <2>3. G[<<l, f>>] \in S
    BY <1>0, <2>2
  <2>4. h \in Fs /\ h[l] = G[<<l, f>>] /\ \A k \in 1 .. n : k # l => h[k] = f[k]
    BY <2>2, <2>3
  <2> HIDE DEF h
  <2>5. ASSUME NEW k \in l .. n PROVE h[k] = G[<<k, h>>]
    <3>0. k \in 1 .. n
      BY <2>2
    <3>1. \A m \in k + 1 .. n : f[m] = h[m]
      BY <2>2, <2>4
    <3>2. G[<<k, f>>] = G[<<k, h>>]
      BY Zenon, <2>4, <3>0, <3>1 DEF LooksAhead
    <3>3. h[k] = G[<<k, f>>]
      <4>1. CASE k = l
        BY <2>4, <4>1
      <4>2. CASE k # l
        <5>1. k \in (n - j) + 1 .. n
          BY <2>2, <4>2
        <5> QED BY <2>1, <2>4, <3>0, <4>2, <5>1
      <4> QED BY <4>1, <4>2
    <3> QED BY Zenon, <3>2, <3>3
  <2> QED BY Zenon, <2>2, <2>4, <2>5 DEF Solves
<1>3. Nat \subseteq Ends
  <2> HIDE DEF Ends
  <2> QED BY <1>1, <1>2, AllNumbers
<1>4. n <= n /\ (n - n) + 1 = 1
  OBVIOUS
<1> QED BY Zenon, <1>3, <1>4

\* IsText and StrLen, from a byte on.
TextFrom(str, n) ==
    LET text[k \in 1 .. Len(str) + 1] ==
            k > Len(str) \/ \E m \in k .. Len(str) : SubSeq(str, k, m) \in Character /\ text[m + 1]
    IN  text[n]

CharsFrom(str, n) ==
    LET count[k \in 1 .. Len(str) + 4] == IF k > Len(str) THEN 0 ELSE 1 + count[k + CharLen(str[k])]
    IN  count[n]

LEMMA FromTheFirst ==
    ASSUME NEW str
    PROVE  IsText(str) = TextFrom(str, 1) /\ StrLen(str) = CharsFrom(str, 1)
BY Zenon DEF IsText, TextFrom, StrLen, CharsFrom

LEMMA FewBytes ==
    ASSUME NEW byte \in Int
    PROVE  CharLen(byte) \in 1 .. 4
BY DEF CharLen

IsTextFrom(f, str) ==
    f = [k \in 1 .. Len(str) + 1 |->
            k > Len(str) \/ \E m \in k .. Len(str) : SubSeq(str, k, m) \in Character /\ f[m + 1]]

\* A text goes on with a character, and with a text behind it.
LEMMA TextGoesOn ==
    ASSUME NEW str \in Strings, NEW n \in 1 .. Len(str), TextFrom(str, n)
    PROVE  \E m \in n .. Len(str) : SubSeq(str, n, m) \in Character /\ TextFrom(str, m + 1)
<1> DEFINE l == Len(str)
           Fs == [1 .. l + 1 -> BOOLEAN]
           G == [x \in (1 .. l + 1) \X Fs |->
                    x[1] > l \/ \E m \in x[1] .. l : SubSeq(str, x[1], m) \in Character /\ x[2][m + 1]]
           p == CHOOSE f : IsTextFrom(f, str)
<1>0. l \in Nat /\ l + 1 \in Nat
  BY LenProperties DEF Strings
<1>1. \A k \in 1 .. l + 1 : \A f \in Fs :
         G[<<k, f>>] = (k > l \/ \E m \in k .. l : SubSeq(str, k, m) \in Character /\ f[m + 1])
  <2> SUFFICES ASSUME NEW k \in 1 .. l + 1, NEW f \in Fs
               PROVE  G[<<k, f>>] = (k > l \/ \E m \in k .. l : SubSeq(str, k, m) \in Character /\ f[m + 1])
    OBVIOUS
  <2>1. <<k, f>> \in (1 .. l + 1) \X Fs /\ <<k, f>>[1] = k /\ <<k, f>>[2] = f
    OBVIOUS
  <2> QED BY Zenon, <2>1
<1>2. G \in [(1 .. l + 1) \X Fs -> BOOLEAN]
  BY Zenon
<1>3. LooksAhead(G, BOOLEAN, l + 1)
  <2> SUFFICES ASSUME NEW k \in 1 .. l + 1, NEW f \in Fs, NEW h \in Fs,
                      \A m \in k + 1 .. l + 1 : f[m] = h[m]
               PROVE  G[<<k, f>>] = G[<<k, h>>]
    BY Zenon, <1>2 DEF LooksAhead
  <2>1. \A m \in k .. l : f[m + 1] = h[m + 1]
    <3>1. \A m \in k .. l : m + 1 \in k + 1 .. l + 1
      BY <1>0
    <3> QED BY Zenon, <3>1
  <2> HIDE DEF G
  <2> QED BY Zenon, <1>1, <2>1
<1> HIDE DEF G
<1>4. PICK f \in Fs : \A k \in 1 .. l + 1 : f[k] = G[<<k, f>>]
  <2>1. \E f \in Fs : Solves(f, G, 1, l + 1)
    BY Zenon, <1>0, <1>3, Backwards
  <2> QED BY Zenon, <2>1 DEF Solves
<1>5. IsTextFrom(f, str)
  <2>1. f = [k \in 1 .. l + 1 |-> f[k]]
    BY Zenon
  <2>2. \A k \in 1 .. l + 1 :
           f[k] = (k > l \/ \E m \in k .. l : SubSeq(str, k, m) \in Character /\ f[m + 1])
    BY Zenon, <1>1, <1>4
  <2>3. f = [k \in 1 .. l + 1 |->
                k > l \/ \E m \in k .. l : SubSeq(str, k, m) \in Character /\ f[m + 1]]
    BY Zenon, <2>1, <2>2
  <2> QED BY Zenon, <2>3 DEF IsTextFrom
<1>6. IsTextFrom(p, str)
  BY Zenon, <1>5
<1>7. \A k : TextFrom(str, k) = p[k]
  BY Zenon DEF TextFrom, IsTextFrom
<1> HIDE DEF p
<1>8. n \in 1 .. l + 1 /\ ~(n > l)
  BY <1>0
<1>9. p[n] = (n > l \/ \E m \in n .. l : SubSeq(str, n, m) \in Character /\ p[m + 1])
  BY Zenon, <1>6, <1>8 DEF IsTextFrom
<1> QED BY Zenon, <1>7, <1>8, <1>9

IsCharsFrom(f, str) ==
    f = [k \in 1 .. Len(str) + 4 |-> IF k > Len(str) THEN 0 ELSE 1 + f[k + CharLen(str[k])]]

\* How many characters there are from a byte on.
LEMMA CharsGoOn ==
    ASSUME NEW str \in Strings
    PROVE  /\ \A n \in 1 .. Len(str) + 4 : CharsFrom(str, n) \in Nat
           /\ CharsFrom(str, Len(str) + 1) = 0
           /\ \A n \in 1 .. Len(str) : CharsFrom(str, n) = 1 + CharsFrom(str, n + CharLen(str[n]))
<1> DEFINE l == Len(str)
           e == l + 4
           Fs == [1 .. e -> Nat]
           G == [x \in (1 .. e) \X Fs |-> IF x[1] > l THEN 0 ELSE 1 + x[2][x[1] + CharLen(str[x[1]])]]
           p == CHOOSE f : IsCharsFrom(f, str)
<1>0. l \in Nat /\ e \in Nat /\ e = l + 4
  BY LenProperties DEF Strings
<1>1. \A k \in 1 .. l : k + CharLen(str[k]) \in k + 1 .. e /\ k + CharLen(str[k]) \in 1 .. e
  <2> SUFFICES ASSUME NEW k \in 1 .. l
               PROVE  k + CharLen(str[k]) \in k + 1 .. e /\ k + CharLen(str[k]) \in 1 .. e
    OBVIOUS
  <2>1. CharLen(str[k]) \in 1 .. 4
    BY FewBytes, ElementOfSeq DEF Strings
  <2> QED BY <1>0, <2>1
<1> HIDE DEF e
<1>2. \A k \in 1 .. e : \A f \in Fs :
         G[<<k, f>>] = IF k > l THEN 0 ELSE 1 + f[k + CharLen(str[k])]
  <2> SUFFICES ASSUME NEW k \in 1 .. e, NEW f \in Fs
               PROVE  G[<<k, f>>] = IF k > l THEN 0 ELSE 1 + f[k + CharLen(str[k])]
    OBVIOUS
  <2>1. <<k, f>> \in (1 .. e) \X Fs /\ <<k, f>>[1] = k /\ <<k, f>>[2] = f
    OBVIOUS
  <2> QED BY Zenon, <2>1
<1>3. G \in [(1 .. e) \X Fs -> Nat]
  <2>1. ASSUME NEW x \in (1 .. e) \X Fs
        PROVE  (IF x[1] > l THEN 0 ELSE 1 + x[2][x[1] + CharLen(str[x[1]])]) \in Nat
    <3>1. x[1] \in 1 .. e /\ x[2] \in Fs
      OBVIOUS
    <3>2. CASE x[1] > l
      BY <3>2
    <3>3. CASE ~(x[1] > l)
      <4>1. x[1] \in 1 .. l
        BY <1>0, <3>1, <3>3
      <4>2. x[2][x[1] + CharLen(str[x[1]])] \in Nat
        BY <1>1, <3>1, <4>1
      <4> QED BY <3>3, <4>2
    <3> QED BY <3>2, <3>3
  <2> QED BY Zenon, <2>1
<1>4. LooksAhead(G, Nat, e)
  <2> SUFFICES ASSUME NEW k \in 1 .. e, NEW f \in Fs, NEW h \in Fs,
                      \A m \in k + 1 .. e : f[m] = h[m]
               PROVE  G[<<k, f>>] = G[<<k, h>>]
    <3>1. Nat # {}
      OBVIOUS
    <3> QED BY Zenon, <1>3, <3>1 DEF LooksAhead
  <2>1. ~(k > l) => f[k + CharLen(str[k])] = h[k + CharLen(str[k])]
    <3>1. ~(k > l) => k \in 1 .. l
      BY <1>0
    <3> QED BY Zenon, <1>1, <3>1
  <2> HIDE DEF G
  <2> QED BY Zenon, <1>2, <2>1
<1> HIDE DEF G
<1>5. PICK f \in Fs : \A k \in 1 .. e : f[k] = G[<<k, f>>]
  <2>1. \E f \in Fs : Solves(f, G, 1, e)
    BY Zenon, <1>0, <1>4, Backwards
  <2> QED BY Zenon, <2>1 DEF Solves
<1>6. IsCharsFrom(f, str)
  <2>1. f = [k \in 1 .. e |-> f[k]]
    BY Zenon
  <2>2. \A k \in 1 .. e : f[k] = IF k > l THEN 0 ELSE 1 + f[k + CharLen(str[k])]
    BY Zenon, <1>2, <1>5
  <2>3. f = [k \in 1 .. e |-> IF k > l THEN 0 ELSE 1 + f[k + CharLen(str[k])]]
    BY Zenon, <2>1, <2>2
  <2> QED BY Zenon, <2>3 DEF IsCharsFrom, e
<1>7. IsCharsFrom(p, str)
  BY Zenon, <1>6
<1>8. \A k : CharsFrom(str, k) = p[k]
  BY Zenon DEF CharsFrom, IsCharsFrom
<1> HIDE DEF p
<1>9. \A k \in 1 .. e : p[k] = IF k > l THEN 0 ELSE 1 + p[k + CharLen(str[k])]
  BY Zenon, <1>7 DEF IsCharsFrom, e
<1>10. \A k \in 1 .. e : p[k] \in Nat
  <2> DEFINE Typed == {j \in Nat : j < e => p[e - j] \in Nat}
  <2>1. ASSUME NEW j \in Nat, \A m \in 0 .. j - 1 : m \in Typed PROVE j \in Typed
    <3> SUFFICES ASSUME j < e PROVE p[e - j] \in Nat
      OBVIOUS
    <3> DEFINE k == e - j
    <3>1. k \in 1 .. e /\ k \in Int
      BY <1>0
    <3>2. CASE k > l
      <4>1. p[k] = 0
        BY Zenon, <1>9, <3>1, <3>2
      <4> QED BY <4>1
    <3>3. CASE ~(k > l)
      <4>1. k \in 1 .. l
        BY <1>0, <3>1, <3>3
      <4> DEFINE t == k + CharLen(str[k])
      <4>2. t \in k + 1 .. e
        BY <1>1, <4>1
      <4>3. p[k] = 1 + p[t]
        BY Zenon, <1>9, <3>1, <3>3
      <4> HIDE DEF t
      <4>4. e - t \in 0 .. j - 1 /\ e - t < e /\ e - (e - t) = t
        BY <1>0, <4>2
      <4>5. e - t \in Typed
        BY Zenon, <2>1, <4>4
      <4>6. p[t] \in Nat
        BY <4>4, <4>5
      <4> QED BY <4>3, <4>6
    <3> QED BY <3>2, <3>3
  <2>2. Nat \subseteq Typed
    <3> HIDE DEF Typed
    <3> QED BY <2>1, AllBefore
  <2> SUFFICES ASSUME NEW k \in 1 .. e PROVE p[k] \in Nat
    OBVIOUS
  <2>3. e - k \in Nat /\ e - k < e /\ e - (e - k) = k
    BY <1>0
  <2>4. e - k \in Typed
    BY <2>2, <2>3
  <2> QED BY <2>3, <2>4
<1>11. p[l + 1] = 0
  <2>1. l + 1 \in 1 .. e /\ l + 1 > l
    BY <1>0
  <2> QED BY Zenon, <1>9, <2>1
<1>12. \A n \in 1 .. l : p[n] = 1 + p[n + CharLen(str[n])]
  <2>1. \A n \in 1 .. l : n \in 1 .. e /\ ~(n > l)
    BY <1>0
  <2> QED BY Zenon, <1>9, <2>1
<1> QED BY Zenon, <1>8, <1>10, <1>11, <1>12 DEF e

----------------------------------------------------------------------------
(***************************************************************************)
(* The inductive invariant.                                                *)
(***************************************************************************)

Block == {"made", "walk", "walked", "undefined"}
Buffer == {"print", "printed", "overrun"}

Writes == [asked : Strings, got : Nat]

TypeOK ==
    /\ pc \in {"idle", "sprint"} \cup Block \cup Buffer
    /\ IsCall(format, args, made)
    /\ i \in 1 .. Len(format) + 1
    /\ data \in Strings
    /\ size \in Nat
    /\ writes \in Seq(Writes)
    /\ before \in SUBSET Slots
    /\ calls \in 0 .. MaxCalls
    /\ at \in Nat \ {0}
    /\ met \in Strings

items == Items(format, args, made, before)
counts == Counts(format, args, made, before)

\* The formatters are as they were made, but for the integers that have been used.
Kept == formatters = FormattersAfter(made, before, args, Parameter(format, i - 1))

Resting == pc = "idle" => format = << >> /\ i = 1 /\ data = << >>

\* What sprint has written is what it was asked for, and at most what it has counted.
Filling ==
    pc = "sprint" =>
        /\ data = Joined(items, i - 1)
        /\ size = SumTo(counts, Len(format))
        /\ Len(data) <= SumTo(counts, i - 1)
        /\ Len(data) # SumTo(counts, i - 1) => Repeats(args, made)

Filled ==
    pc \in Block =>
        /\ i = Len(format) + 1
        /\ Len(data) = size
        /\ IsPrefix(Joined(items, Len(format)), data)
        /\ Len(Joined(items, Len(format))) < size => Repeats(args, made)

\* What the first n writes were asked for.
Asked(ws, n) == FlattenSeq([k \in 1 .. n |-> ws[k].asked])

NoneCut(ws, its, n) ==
    \A k \in DOMAIN ws : /\ Len(ws[k].asked) <= FlushSize
                         /\ \E m \in 0 .. n : Asked(ws, k) = Joined(its, m)

Written ==
    /\ pc \notin Buffer => writes = << >>
    /\ pc \in {"print", "printed"} => Asked(writes, Len(writes)) \o data = Joined(items, i - 1)
    /\ pc = "print" => /\ Len(data) <= FlushSize
                       /\ \A m \in 1 .. i - 1 : format[m] = Percent => Len(items[m]) <= FlushSize
    /\ pc = "printed" => i = Len(format) + 1
    /\ pc = "overrun" => \E m \in 1 .. i - 1 : format[m] = Percent /\ Len(items[m]) > FlushSize
    /\ NoneCut(writes, items, i - 1)

\* The walk is where a character begins, with those before it behind it.
Walking ==
    /\ pc \notin {"walk", "walked", "undefined"} => at = 1 /\ met = << >>
    /\ pc \in {"walk", "walked", "undefined"} /\ IsText(data) =>
        /\ pc # "undefined"
        /\ at \in 1 .. Len(data) + 1
        /\ TextFrom(data, at)
        /\ Len(met) + CharsFrom(data, at) = CharsFrom(data, 1)
        /\ FlattenSeq([n \in 1 .. Len(met) |-> Encode(met[n])]) = SubSeq(data, 1, at - 1)
        /\ pc = "walked" => at = Len(data) + 1

IInv == TypeOK /\ Kept /\ Resting /\ Filling /\ Filled /\ Written /\ Walking

----------------------------------------------------------------------------
(***************************************************************************)
(* The items of a call, one after the other.                               *)
(***************************************************************************)

\* What is true of an item, and of what it was counted for.
LEMMA ItemsAre ==
    ASSUME NEW fmt, NEW params, NEW mk, NEW bf, IsCall(fmt, params, mk)
    PROVE  /\ Len(fmt) \in Nat
           /\ Items(fmt, params, mk, bf) \in Seq(Strings)
           /\ Len(Items(fmt, params, mk, bf)) = Len(fmt)
           /\ AreCounts(Counts(fmt, params, mk, bf), Len(fmt))
           /\ \A n \in 1 .. Len(fmt) : fmt[n] # Percent => Len(Items(fmt, params, mk, bf)[n]) = 1
<1> DEFINE its == Items(fmt, params, mk, bf)
           cts == Counts(fmt, params, mk, bf)
<1>1. Len(fmt) \in Nat
  BY LenProperties DEF IsCall
<1>2. \A n \in 1 .. Len(fmt) : fmt[n] \in Int
  <2>1. \A n \in 1 .. Len(fmt) : fmt[n] \in 0 .. 255
    BY ElementOfSeq DEF IsCall
  <2>2. \A x \in 0 .. 255 : x \in Int
    OBVIOUS
  <2> QED BY Zenon, <2>1, <2>2
<1>3. ASSUME NEW n \in 1 .. Len(fmt)
      PROVE  its[n] \in Strings /\ cts[n] \in Nat /\ (fmt[n] # Percent => Len(its[n]) = 1)
  <2>1. CASE fmt[n] = Percent
    <3>1. its[n] = MeaningIn(fmt, params, mk, bf, n)
      BY Zenon, <2>1 DEF Items
    <3>2. MeaningIn(fmt, params, mk, bf, n) \in Strings /\ Counts(fmt, params, mk, bf)[n] \in Nat
      BY Zenon, <2>1, ItemWritten DEF IsWritten
    <3> QED BY Zenon, <2>1, <3>1, <3>2
  <2>2. CASE fmt[n] # Percent
    <3>1. its[n] = <<fmt[n]>> /\ cts[n] = 1
      BY Zenon, <2>2 DEF Items, Counts
    <3>2. <<fmt[n]>> \in Strings /\ Len(<<fmt[n]>>) = 1
      BY <1>2 DEF Strings
    <3>3. 1 \in Nat
      OBVIOUS
    <3> QED BY Zenon, <3>1, <3>2, <3>3
  <2> QED BY Zenon, <2>1, <2>2
<1>4. its = [n \in 1 .. Len(fmt) |-> its[n]]
  BY Zenon DEF Items
<1> HIDE DEF its, cts
<1>5. its \in Seq(Strings) /\ Len(its) = Len(fmt)
  <2> DEFINE l == Len(fmt)
  <2>1. l \in Nat /\ its \in [1 .. l -> Strings]
    BY Zenon, <1>1, <1>3, <1>4
  <2> HIDE DEF l
  <2>2. its \in Seq(Strings) /\ Len(its) = l
    BY <2>1
  <2> QED BY <2>2 DEF l
<1> QED BY Zenon, <1>1, <1>3, <1>5 DEF AreCounts, its, cts

\* The first n strings and one more.
LEMMA JoinedSteps ==
    ASSUME NEW its \in Seq(Strings), NEW n \in Nat, n <= Len(its)
    PROVE  /\ Joined(its, 0) = << >>
           /\ Joined(its, n) \in Strings
           /\ n < Len(its) => /\ its[n + 1] \in Strings
                              /\ Joined(its, n + 1) = Joined(its, n) \o its[n + 1]
<1>1. Len(its) \in Nat /\ \A m \in 1 .. Len(its) : its[m] \in Strings
  BY LenProperties, ElementOfSeq
<1>2. Joined(its, 0) = << >>
  <2>1. [m \in 1 .. 0 |-> its[m]] = << >>
    OBVIOUS
  <2> QED BY Zenon, <2>1, FlattenSteps DEF Joined
<1> DEFINE front == [m \in 1 .. n |-> its[m]]
<1>3. front \in Seq(Strings) /\ Len(front) = n
  <2>1. \A m \in 1 .. n : its[m] \in Strings
    BY <1>1
  <2>2. front \in [1 .. n -> Strings]
    BY Zenon, <2>1
  <2> QED BY <2>2
<1>4. Joined(its, n) \in Strings
  BY Zenon, <1>3, FlattenSteps DEF Joined
<1>5. ASSUME n < Len(its)
      PROVE  its[n + 1] \in Strings /\ Joined(its, n + 1) = Joined(its, n) \o its[n + 1]
  <2>1. its[n + 1] \in Strings
    BY <1>1, <1>5
  <2> DEFINE more == [m \in 1 .. n + 1 |-> its[m]]
             appended == Append(front, its[n + 1])
  <2>2. more = appended
    <3>1. /\ Len(appended) = n + 1 /\ appended \in Seq(Strings)
          /\ appended[n + 1] = its[n + 1]
          /\ \A m \in 1 .. n : appended[m] = front[m]
      <4> HIDE DEF front
      <4> QED BY <1>3, <2>1, AppendProperties
    <3> HIDE DEF appended
    <3>2. \A m \in 1 .. n + 1 : appended[m] = its[m]
      BY <3>1
    <3>3. appended = [m \in 1 .. n + 1 |-> appended[m]]
      BY <3>1
    <3> QED BY Zenon, <3>2, <3>3
  <2>3. FlattenSeq(appended) = FlattenSeq(front) \o its[n + 1]
    BY Zenon, <1>3, <2>1, FlattenSteps
  <2> QED BY Zenon, <2>1, <2>2, <2>3 DEF Joined
<1> QED BY Zenon, <1>2, <1>4, <1>5

\* An item whose turn has come: what is written for it, and what it is counted for then.
LEMMA OwnItem ==
    ASSUME IsCall(format, args, made), Kept, i \in 1 .. Len(format)
    PROVE  /\ Item(i) = items[i]
           /\ Item(i) \in Strings
           /\ ItemCount(format, args, i) = Len(Item(i))
           /\ counts[i] \in Nat
           /\ Len(Item(i)) <= counts[i]
           /\ Len(Item(i)) # counts[i] => Repeats(args, made)
           /\ format[i] # Percent => Len(Item(i)) = 1
<1>1. CASE format[i] = Percent
  <2> DEFINE f == FormattersAfter(made, before, args, Parameter(format, i - 1))[args[Parameter(format, i)]]
  <2>1. Item(i) = Bytes(f) /\ ItemCount(format, args, i) = Count(f)
    BY Zenon, <1>1 DEF Item, ItemCount, IsParameter, Slot, Kept
  <2>2. items[i] = MeaningIn(format, args, made, before, i)
    BY Zenon, <1>1 DEF items, Items
  <2>3. /\ Bytes(f) = MeaningIn(format, args, made, before, i)
        /\ Bytes(f) \in Strings
        /\ Len(Bytes(f)) = Count(f)
        /\ Count(f) <= counts[i]
        /\ counts[i] \in Nat
        /\ Count(f) # counts[i] => Repeats(args, made)
    <3>1. IsWritten(f, format, args, made, before, i)
      BY Zenon, <1>1, ItemWritten
    <3> HIDE DEF f
    <3> QED BY Zenon, <3>1 DEF IsWritten, counts
  <2> HIDE DEF f
  <2> QED BY Zenon, <1>1, <2>1, <2>2, <2>3
<1>2. CASE format[i] # Percent
  <2>1. Item(i) = <<format[i]>> /\ items[i] = <<format[i]>>
    BY Zenon, <1>2 DEF Item, IsParameter, items, Items
  <2>2. ItemCount(format, args, i) = 1 /\ counts[i] = 1
    BY Zenon, <1>2 DEF ItemCount, counts, Counts
  <2>3. <<format[i]>> \in Strings /\ Len(<<format[i]>>) = 1
    <3>1. format[i] \in 0 .. 255
      BY ElementOfSeq DEF IsCall
    <3>2. format[i] \in Int
      <4>1. \A x \in 0 .. 255 : x \in Int
        OBVIOUS
      <4> QED BY Zenon, <3>1, <4>1
    <3> QED BY <3>2 DEF Strings
  <2>4. 1 \in Nat /\ 1 <= 1
    OBVIOUS
  <2> QED BY Zenon, <1>2, <2>1, <2>2, <2>3, <2>4
<1> QED BY Zenon, <1>1, <1>2

\* A formatter that has been used is kept as one.
LEMMA UsedIsKept ==
    ASSUME IsCall(format, args, made), Kept, i \in 1 .. Len(format), ItemUsed(i)
    PROVE  formatters' = FormattersAfter(made, before, args, Parameter(format, i))
<1> DEFINE k == Parameter(format, i - 1)
           slot == args[Parameter(format, i)]
           old == FormattersAfter(made, before, args, k)
<1>0. Len(format) \in Nat
  BY LenProperties DEF IsCall
<1>1. i - 1 \in Nat /\ (i - 1) + 1 = i
  BY <1>0
<1>2. CASE format[i] = Percent
  <2>1. Parameter(format, i) = k + 1 /\ k \in Nat /\ slot \in Slots /\ slot = args[k + 1]
    BY Zenon, <1>2, ArgumentOf
  <2>2. formatters' = [old EXCEPT ![slot] = Used(@)]
    BY Zenon, <1>2 DEF ItemUsed, IsParameter, Slot, Kept
  <2>3. old = [s \in Slots |-> old[s]]
    BY Zenon DEF FormattersAfter
  <2>4. formatters' = [s \in Slots |-> IF s = slot THEN Used(old[s]) ELSE old[s]]
    BY Zenon, <2>1, <2>2, <2>3
  <2> HIDE DEF k
  <2> DEFINE first(n) == {args[m] : m \in 1 .. n}
  <2>5. \A s : s \in first(k + 1) <=> s \in first(k) \/ s = slot
    <3>1. \A m : m \in 1 .. k + 1 <=> m \in 1 .. k \/ m = k + 1
      BY <2>1
    <3> QED BY Zenon, <2>1, <3>1
  <2>6. ASSUME NEW s \in Slots
        PROVE  (IF s = slot THEN Used(old[s]) ELSE old[s])
                  = IF made[s].kind = "int" /\ s \in before \cup first(k + 1) THEN ZeroInt ELSE made[s]
    <3>1. old[s] = IF made[s].kind = "int" /\ s \in before \cup first(k) THEN ZeroInt ELSE made[s]
      BY Zenon DEF FormattersAfter
    <3>2. IsFormatter(made[s]) /\ IsFormatter(ZeroInt)
      <4>1. made[s] \in Formatters
        BY DEF IsCall
      <4> QED BY Zenon, <4>1, AllAreFormatters
    <3>3. ZeroInt.kind = "int"
      BY DEF ZeroInt
    <3>4. /\ Used(ZeroInt) = ZeroInt
          /\ made[s].kind = "int" => Used(made[s]) = ZeroInt
          /\ made[s].kind # "int" => Used(made[s]) = made[s]
      BY Zenon, <3>2, <3>3, FormatterUsed
    <3> HIDE DEF old, first, slot
    <3> QED BY Zenon, <2>5, <3>1, <3>4
  <2>7. formatters' = [s \in Slots |-> IF made[s].kind = "int" /\ s \in before \cup first(k + 1)
                                       THEN ZeroInt ELSE made[s]]
    <3> HIDE DEF old, first, slot
    <3> QED BY Zenon, <2>4, <2>6
  <2> QED BY Zenon, <2>1, <2>7 DEF FormattersAfter, k
<1>3. CASE format[i] # Percent
  <2>1. formatters' = old
    BY Zenon, <1>3 DEF ItemUsed, IsParameter, Kept
  <2>2. Parameter(format, i) = k
    <3>1. format[(i - 1) + 1] # Percent
      BY Zenon, <1>1, <1>3
    <3>2. Parameter(format, (i - 1) + 1) = Parameter(format, i - 1)
      BY Zenon, <1>1, <3>1, ParameterSteps
    <3> QED BY Zenon, <1>1, <3>2
  <2> QED BY Zenon, <2>1, <2>2
<1> QED BY Zenon, <1>2, <1>3

\* What the first loop of cut_sprint_v counts when a call begins.
LEMMA CountsBegin ==
    ASSUME NEW fmt, NEW params, NEW k, IsCall(fmt, params, made),
           formatters = FormattersAfter(made, before, k, 0)
    PROVE  CountAll(fmt, params) = SumTo(Counts(fmt, params, made, before), Len(fmt))
<1> DEFINE cts == Counts(fmt, params, made, before)
<1>1. formatters = FormattersAfter(made, before, params, 0)
  <2>1. {k[m] : m \in 1 .. 0} = {params[m] : m \in 1 .. 0}
    OBVIOUS
  <2> QED BY Zenon, <2>1 DEF FormattersAfter
<1>2. \A n \in 1 .. Len(fmt) : ItemCount(fmt, params, n) = cts[n]
  BY Zenon, <1>1 DEF ItemCount, Counts
<1>3. Len(fmt) \in Nat /\ AreCounts(cts, Len(fmt))
  BY Zenon, ItemsAre
<1> HIDE DEF cts
<1> QED BY Zenon, <1>2, <1>3, CountAllIsSum DEF cts

\* The text is the items joined.
LEMMA TextIsJoined ==
    ASSUME Len(format) \in Nat, NEW n \in Nat, n <= Len(format)
    PROVE  TextUpTo(n) = Joined(items, n)
<1>1. \A m : Meaning(m) = MeaningIn(format, args, made, before, m)
  BY Zenon DEF Meaning, MeaningIn
<1>2. \A m \in 1 .. n : m \in 1 .. Len(format)
  OBVIOUS
<1>3. \A m \in 1 .. n : (IF IsParameter(m) THEN Meaning(m) ELSE <<format[m]>>) = items[m]
  BY Zenon, <1>1, <1>2 DEF IsParameter, items, Items
<1>4. [m \in 1 .. n |-> IF IsParameter(m) THEN Meaning(m) ELSE <<format[m]>>] = [m \in 1 .. n |-> items[m]]
  BY Zenon, <1>3
<1> QED BY Zenon, <1>4 DEF TextUpTo, Joined

----------------------------------------------------------------------------
(***************************************************************************)
(* What has been asked for, write by write.                                *)
(***************************************************************************)

\* When nothing has been written nothing was asked for; a write more asks for its bytes more.
LEMMA NothingAsked ==
    /\ << >> \in Seq(Writes) /\ Len(<< >>) = 0 /\ Asked(<< >>, 0) = << >>
    /\ \A its, n : NoneCut(<< >>, its, n)
<1>1. Asked(<< >>, 0) = << >>
  <2> DEFINE none == << >>
             f == [k \in 1 .. 0 |-> none[k].asked]
  <2>1. f = << >>
    OBVIOUS
  <2> HIDE DEF f
  <2>2. FlattenSeq(f) = << >>
    BY Zenon, <2>1, FlattenSteps
  <2> QED BY Zenon, <2>2 DEF Asked, f
<1>2. ASSUME NEW its, NEW n PROVE NoneCut(<< >>, its, n)
  <2>1. \A k \in DOMAIN << >> : FALSE
    OBVIOUS
  <2> QED BY Zenon, <2>1 DEF NoneCut
<1> QED BY <1>1, <1>2

LEMMA AskedMore ==
    ASSUME NEW ws \in Seq(Writes), NEW w \in Writes
    PROVE  /\ Len(ws) \in Nat /\ DOMAIN ws = 1 .. Len(ws)
           /\ Asked(ws, Len(ws)) \in Strings
           /\ Append(ws, w) \in Seq(Writes)
           /\ Len(Append(ws, w)) = Len(ws) + 1
           /\ Append(ws, w)[Len(ws) + 1] = w
           /\ \A k \in 1 .. Len(ws) : Append(ws, w)[k] = ws[k]
           /\ \A k \in 1 .. Len(ws) : Asked(Append(ws, w), k) = Asked(ws, k)
           /\ Asked(Append(ws, w), Len(ws) + 1) = Asked(ws, Len(ws)) \o w.asked
<1> DEFINE n == Len(ws)
           more == Append(ws, w)
           S == Writes
           own == [k \in 1 .. n |-> ws[k].asked]
           new == Append(own, w.asked)
<1>0. \A x \in Writes : x.asked \in Strings
  BY DEF Writes
<1>1. /\ n \in Nat /\ DOMAIN ws = 1 .. n /\ \A k \in 1 .. n : ws[k] \in S
      /\ more \in Seq(S) /\ Len(more) = n + 1 /\ more[n + 1] = w
      /\ \A k \in 1 .. n : more[k] = ws[k]
  <2> HIDE DEF S
  <2>1. ws \in Seq(S) /\ w \in S
    BY Zenon DEF S
  <2> QED BY <2>1, LenProperties, ElementOfSeq, AppendProperties
<1> HIDE DEF n, more, S
<1>2. own \in Seq(Strings) /\ Len(own) = n
  <2>1. own \in [1 .. n -> Strings]
    BY Zenon, <1>0, <1>1 DEF S
  <2> QED BY <1>1, <2>1
<1>3. /\ new \in Seq(Strings) /\ Len(new) = n + 1 /\ new[n + 1] = w.asked
      /\ \A k \in 1 .. n : new[k] = own[k]
  <2> HIDE DEF own
  <2>1. w.asked \in Strings
    BY Zenon, <1>0
  <2> QED BY <1>2, <2>1, AppendProperties
<1>4. Asked(ws, n) = FlattenSeq(own)
  BY Zenon DEF Asked
<1>5. \A k \in 1 .. n : Asked(more, k) = Asked(ws, k)
  <2> SUFFICES ASSUME NEW k \in 1 .. n PROVE Asked(more, k) = Asked(ws, k)
    OBVIOUS
  <2>1. \A m \in 1 .. k : m \in 1 .. n
    BY <1>1
  <2>2. \A m \in 1 .. k : more[m].asked = ws[m].asked
    BY Zenon, <1>1, <2>1
  <2>3. [m \in 1 .. k |-> more[m].asked] = [m \in 1 .. k |-> ws[m].asked]
    BY Zenon, <2>2
  <2> QED BY Zenon, <2>3 DEF Asked
<1>6. Asked(more, n + 1) = FlattenSeq(new)
  <2>1. \A k \in 1 .. n + 1 : more[k].asked = new[k]
    <3> SUFFICES ASSUME NEW k \in 1 .. n + 1 PROVE more[k].asked = new[k]
      OBVIOUS
    <3>1. k \in 1 .. n \/ k = n + 1
      BY <1>1
    <3>2. ASSUME k \in 1 .. n PROVE new[k] = ws[k].asked
      BY Zenon, <1>3, <3>2
    <3> HIDE DEF new
    <3> QED BY Zenon, <1>1, <1>3, <3>1, <3>2
  <2>2. new = [k \in 1 .. n + 1 |-> new[k]]
    <3> HIDE DEF new
    <3> QED BY <1>1, <1>3
  <2>3. [k \in 1 .. n + 1 |-> more[k].asked] = [k \in 1 .. n + 1 |-> new[k]]
    BY Zenon, <2>1
  <2> QED BY Zenon, <2>2, <2>3 DEF Asked
<1>7. FlattenSeq(new) = FlattenSeq(own) \o w.asked
  BY Zenon, <1>0, <1>2, FlattenSteps
<1>8. Asked(ws, n) \in Strings
  BY Zenon, <1>2, <1>4, FlattenSteps
<1> QED BY Zenon, <1>1, <1>4, <1>5, <1>6, <1>7, <1>8 DEF n, more, S

\* One more write that cuts no item; one more item.
LEMMA NoneCutMore ==
    ASSUME NEW ws \in Seq(Writes), NEW w \in Writes, NEW its, NEW n \in Nat,
           NoneCut(ws, its, n), Len(w.asked) <= FlushSize,
           Asked(ws, Len(ws)) \o w.asked = Joined(its, n)
    PROVE  NoneCut(Append(ws, w), its, n)
<1> DEFINE more == Append(ws, w)
           l == Len(ws)
<1>1. /\ l \in Nat /\ DOMAIN ws = 1 .. l
      /\ more \in Seq(Writes) /\ Len(more) = l + 1 /\ more[l + 1] = w
      /\ \A k \in 1 .. l : more[k] = ws[k] /\ Asked(more, k) = Asked(ws, k)
      /\ Asked(more, l + 1) = Joined(its, n)
  BY Zenon, AskedMore
<1>2. DOMAIN more = 1 .. l + 1
  BY <1>1, LenProperties
<1> HIDE DEF more, l
<1>3. ASSUME NEW k \in 1 .. l + 1
      PROVE  Len(more[k].asked) <= FlushSize /\ \E m \in 0 .. n : Asked(more, k) = Joined(its, m)
  <2>1. CASE k \in 1 .. l
    BY Zenon, <1>1, <2>1 DEF NoneCut
  <2>2. CASE k = l + 1
    <3>1. n \in 0 .. n
      OBVIOUS
    <3> QED BY Zenon, <1>1, <2>2, <3>1
  <2> QED BY <1>1, <2>1, <2>2
<1> QED BY Zenon, <1>2, <1>3 DEF NoneCut, more

LEMMA NoneCutLater ==
    ASSUME NEW ws, NEW its, NEW n \in Nat, NoneCut(ws, its, n)
    PROVE  NoneCut(ws, its, n + 1)
<1>1. \A m \in 0 .. n : m \in 0 .. n + 1
  OBVIOUS
<1> QED BY Zenon, <1>1 DEF NoneCut

----------------------------------------------------------------------------
(***************************************************************************)
(* The invariant is inductive.                                             *)
(***************************************************************************)

\* Before and between the calls.
LEMMA NoCall ==
    ASSUME NEW mk \in [Slots -> Formatters]
    PROVE  /\ Len(<< >>) = 0
           /\ Parameter(<< >>, 0) = 0
           /\ IsCall(<< >>, << >>, mk)
<1>1. Len(<< >>) = 0 /\ << >> \in Seq(0 .. 255)
  OBVIOUS
<1>2. Parameter(<< >>, 0) = 0
  <2>1. 0 \in Nat
    OBVIOUS
  <2> QED BY Zenon, <2>1, ParameterSteps
<1>3. << >> \in [1 .. 0 -> Slots]
  OBVIOUS
<1> QED BY Zenon, <1>1, <1>2, <1>3 DEF IsCall

\* The invariant holds in the beginning.
LEMMA InitIInv == Init => IInv
<1> SUFFICES ASSUME Init PROVE IInv
  OBVIOUS
<1>0. /\ made \in [Slots -> Formatters] /\ formatters = made /\ pc = "idle"
      /\ format = << >> /\ args = << >> /\ size = 0 /\ i = 1 /\ data = << >>
      /\ writes = << >> /\ before = {} /\ calls = 0 /\ at = 1 /\ met = << >>
  BY DEF Init, InitPrint
<1>1. /\ Len(format) = 0 /\ Parameter(format, 0) = 0 /\ IsCall(format, args, made)
  BY Zenon, <1>0, NoCall
<1>2. TypeOK
  <2>1. data \in Strings /\ met \in Strings
    BY Zenon, <1>0, StringsAre
  <2>2. writes \in Seq(Writes)
    BY Zenon, <1>0, NothingAsked
  <2>3. calls \in 0 .. MaxCalls /\ size \in Nat /\ at \in Nat \ {0} /\ before \in SUBSET Slots
    BY <1>0, PrintAssumption
  <2>4. i \in 1 .. Len(format) + 1 /\ pc \in {"idle", "sprint"} \cup Block \cup Buffer
    BY <1>0, <1>1
  <2> QED BY Zenon, <1>1, <2>1, <2>2, <2>3, <2>4 DEF TypeOK
<1>3. Kept
  <2>1. i - 1 = 0
    BY <1>0
  <2>2. {args[m] : m \in 1 .. 0} = {}
    OBVIOUS
  <2>3. made = [s \in Slots |-> made[s]]
    BY <1>0
  <2>4. \A s : s \notin {} \cup {}
    OBVIOUS
  <2>5. FormattersAfter(made, {}, args, 0) = [s \in Slots |-> made[s]]
    BY Zenon, <2>2, <2>4 DEF FormattersAfter
  <2> QED BY Zenon, <1>0, <1>1, <2>1, <2>3, <2>5 DEF Kept
<1>4. pc \notin Block /\ pc \notin Buffer /\ pc # "sprint" /\ pc \notin {"walk", "walked", "undefined"}
      /\ pc \notin {"print", "printed"} /\ pc # "print" /\ pc # "printed" /\ pc # "overrun"
  BY <1>0 DEF Block, Buffer
<1>5. Written
  BY Zenon, <1>0, <1>4, NothingAsked DEF Written
<1> QED BY Zenon, <1>0, <1>2, <1>3, <1>4, <1>5 DEF IInv, Resting, Filling, Filled, Walking

\* What a call begins with.
LEMMA BeginIInv ==
    ASSUME IInv, NEW fmt \in Formats, NEW params \in [1 .. Parameter(fmt, Len(fmt)) -> Slots],
           SprintBegin(fmt, params) \/ PrintBegin(fmt, params), UNCHANGED <<at, met>>
    PROVE  IInv'
<1>0. /\ pc = "idle" /\ calls < MaxCalls
      /\ format' = fmt /\ args' = params /\ calls' = calls + 1
      /\ formatters' = formatters /\ i' = i /\ data' = data /\ writes' = writes
      /\ made' = made /\ before' = before /\ at' = at /\ met' = met
      /\ \/ pc' = "sprint" /\ size' = CountAll(fmt, params)
         \/ pc' = "print" /\ size' = size
  BY DEF SprintBegin, PrintBegin, Begin
<1>1. pc \notin Buffer /\ pc \notin {"walk", "walked", "undefined"}
  BY <1>0 DEF Buffer
<1>2. format = << >> /\ i = 1 /\ data = << >> /\ writes = << >> /\ at = 1 /\ met = << >>
  BY Zenon, <1>0, <1>1 DEF IInv, Resting, Written, Walking
<1>3. /\ made \in [Slots -> Formatters] /\ calls \in 0 .. MaxCalls /\ size \in Nat
      /\ data \in Strings /\ met \in Strings /\ at \in Nat \ {0} /\ before \in SUBSET Slots
      /\ writes \in Seq(Writes)
  BY Zenon DEF IInv, TypeOK, IsCall
<1>4. IsCall(fmt, params, made)
  BY PrintAssumption, <1>3 DEF IsCall
<1> DEFINE its == Items(fmt, params, made, before)
           cts == Counts(fmt, params, made, before)
<1>5. /\ Len(fmt) \in Nat /\ its \in Seq(Strings) /\ AreCounts(cts, Len(fmt))
  BY Zenon, <1>4, ItemsAre
<1>6. items' = its /\ counts' = cts
  BY Zenon, <1>0 DEF items, counts
<1> HIDE DEF its, cts
<1>7. Joined(its, 0) = << >>
  <2>1. 0 \in Nat /\ 0 <= Len(its)
    BY <1>5, LenProperties
  <2> QED BY Zenon, <1>5, <2>1, JoinedSteps
<1>8. SumTo(cts, Len(fmt)) \in Nat /\ SumTo(cts, 0) = 0
  <2>1. AreCounts(cts, 0) /\ 0 \in Nat
    BY DEF AreCounts
  <2>2. PICK f \in [0 .. 0 -> Nat] : IsSum(f, cts, 0) /\ SumTo(cts, 0) = f[0]
    BY Zenon, <2>1, SumFollows
  <2>3. PICK h \in [0 .. Len(fmt) -> Nat] : SumTo(cts, Len(fmt)) = h[Len(fmt)]
    BY Zenon, <1>5, SumFollows
  <2> QED BY <1>5, <2>2, <2>3 DEF IsSum
<1>9. i' - 1 = 0 /\ Parameter(fmt, 0) = 0 /\ Parameter(format, i - 1) = 0
  <2>1. 0 \in Nat /\ 1 - 1 = 0
    OBVIOUS
  <2> QED BY Zenon, <1>0, <1>2, <2>1, ParameterSteps
<1>10. formatters = FormattersAfter(made, before, args, 0)
  BY Zenon, <1>9 DEF IInv, Kept
<1>11. CountAll(fmt, params) = SumTo(cts, Len(fmt))
  BY Zenon, <1>4, <1>10, CountsBegin DEF cts
<1>12. TypeOK'
  <2>1. i' \in 1 .. Len(format') + 1 /\ calls' \in 0 .. MaxCalls /\ size' \in Nat
    BY <1>0, <1>2, <1>3, <1>5, <1>8, <1>11, PrintAssumption
  <2>2. pc' \in {"idle", "sprint"} \cup Block \cup Buffer
    BY <1>0 DEF Buffer
  <2> QED BY Zenon, <1>0, <1>3, <1>4, <2>1, <2>2 DEF TypeOK
<1>13. Kept'
  <2>1. {params[m] : m \in 1 .. 0} = {args[m] : m \in 1 .. 0}
    OBVIOUS
  <2>2. FormattersAfter(made, before, params, 0) = FormattersAfter(made, before, args, 0)
    BY Zenon, <2>1 DEF FormattersAfter
  <2> QED BY Zenon, <1>0, <1>9, <1>10, <2>2 DEF Kept
<1>14. Resting' /\ Filled' /\ Walking'
  <2>1. pc' # "idle" /\ pc' \notin Block /\ pc' \notin {"walk", "walked", "undefined"}
    BY <1>0 DEF Block
  <2> QED BY Zenon, <1>0, <1>2, <2>1 DEF Resting, Filled, Walking
<1>15. Filling'
  <2> SUFFICES ASSUME pc' = "sprint"
               PROVE  /\ data' = Joined(its, i' - 1)
                      /\ size' = SumTo(cts, Len(fmt))
                      /\ Len(data') <= SumTo(cts, i' - 1)
                      /\ Len(data') = SumTo(cts, i' - 1)
    BY Zenon, <1>0, <1>6 DEF Filling
  <2>1. size' = SumTo(cts, Len(fmt))
    <3>1. pc' # "print"
      OBVIOUS
    <3> QED BY Zenon, <1>0, <1>11, <3>1
  <2>2. data' = Joined(its, i' - 1)
    BY Zenon, <1>0, <1>2, <1>7, <1>9
  <2>3. SumTo(cts, i' - 1) = 0
    BY Zenon, <1>8, <1>9
  <2>4. Len(data') = 0
    BY <1>0, <1>2
  <2> QED BY <2>1, <2>2, <2>3, <2>4
<1>16. Written'
  <2>1. writes' = << >> /\ data' = << >> /\ i' - 1 = 0
    BY Zenon, <1>0, <1>2, <1>9
  <2>2. Asked(writes', Len(writes')) \o data' = Joined(items', i' - 1)
    <3>1. Asked(writes', Len(writes')) = << >>
      BY Zenon, <2>1, NothingAsked
    <3> QED BY Zenon, <1>6, <1>7, <2>1, <3>1, StringsAre
  <2>3. Len(data') <= FlushSize
    BY <2>1, PrintAssumption
  <2>4. \A m \in 1 .. i' - 1 : FALSE
    BY <2>1
  <2>5. NoneCut(writes', items', i' - 1)
    BY Zenon, <2>1, NothingAsked
  <2>6. pc' # "printed" /\ pc' # "overrun"
    BY <1>0
  <2> QED BY Zenon, <2>1, <2>2, <2>3, <2>4, <2>5, <2>6 DEF Written
<1> QED BY Zenon, <1>12, <1>13, <1>14, <1>15, <1>16 DEF IInv

\* What every turn of a loop over the format finds, and leaves of it.
LEMMA TurnOf ==
    ASSUME IInv, i <= Len(format)
    PROVE  /\ i \in 1 .. Len(format) /\ i - 1 \in Nat /\ (i - 1) + 1 = i /\ i <= Len(items)
           /\ (i + 1) - 1 = i /\ i \in Nat
           /\ i + 1 \in 1 .. Len(format) + 1
           /\ data \in Strings /\ Item(i) \in Strings /\ Item(i) = items[i]
           /\ ItemCount(format, args, i) = Len(Item(i))
           /\ format[i] # Percent => Len(Item(i)) = 1
           /\ data \o Item(i) \in Strings /\ Len(data \o Item(i)) = Len(data) + Len(Item(i))
           /\ Len(data) \in Nat /\ Len(Item(i)) \in Nat
           /\ Joined(items, i - 1) \in Strings
           /\ Joined(items, i) = Joined(items, i - 1) \o Item(i)
<1>1. IsCall(format, args, made) /\ Kept /\ i \in 1 .. Len(format) + 1 /\ data \in Strings
  BY Zenon DEF IInv, TypeOK
<1>2. /\ Len(format) \in Nat /\ items \in Seq(Strings) /\ Len(items) = Len(format)
  <2>1. items = Items(format, args, made, before)
    BY Zenon DEF items
  <2>2. /\ Len(format) \in Nat /\ Items(format, args, made, before) \in Seq(Strings)
        /\ Len(Items(format, args, made, before)) = Len(format)
    BY <1>1, ItemsAre
  <2> QED BY Zenon, <2>1, <2>2
<1>3. /\ i \in 1 .. Len(format) /\ i - 1 \in Nat /\ (i - 1) + 1 = i /\ i <= Len(items)
      /\ (i + 1) - 1 = i /\ i \in Nat /\ i + 1 \in 1 .. Len(format) + 1
      /\ i - 1 <= Len(items) /\ i - 1 < Len(items)
  BY <1>1, <1>2
<1>4. /\ Item(i) \in Strings /\ Item(i) = items[i] /\ ItemCount(format, args, i) = Len(Item(i))
      /\ format[i] # Percent => Len(Item(i)) = 1
  BY Zenon, <1>1, <1>3, OwnItem
<1>5. /\ Joined(items, i - 1) \in Strings
      /\ Joined(items, (i - 1) + 1) = Joined(items, i - 1) \o items[(i - 1) + 1]
  BY Zenon, <1>2, <1>3, JoinedSteps
<1>6. Joined(items, i) = Joined(items, i - 1) \o Item(i)
  BY Zenon, <1>3, <1>4, <1>5
<1>7. /\ data \o Item(i) \in Strings /\ Len(data \o Item(i)) = Len(data) + Len(Item(i))
      /\ Len(data) \in Nat /\ Len(Item(i)) \in Nat
  BY Zenon, <1>1, <1>4, StringsAre
<1> QED BY Zenon, <1>1, <1>3, <1>4, <1>5, <1>6, <1>7

\* One item more is in the block: at most what was counted for it.
LEMMA SprintItemIInv ==
    ASSUME IInv, SprintItem, UNCHANGED <<at, met>>
    PROVE  IInv'
<1>0. /\ pc = "sprint" /\ pc' = "sprint" /\ i <= Len(format) /\ data' = data \o Item(i) /\ ItemUsed(i)
      /\ i' = i + 1 /\ format' = format /\ args' = args /\ size' = size /\ writes' = writes
      /\ made' = made /\ before' = before /\ calls' = calls /\ at' = at /\ met' = met
  BY DEF SprintItem, call, history
<1>1. TypeOK /\ Kept /\ IsCall(format, args, made)
  BY Zenon DEF IInv, TypeOK
<1>2. items' = items /\ counts' = counts
  BY Zenon, <1>0 DEF items, counts
<1>3. /\ i \in 1 .. Len(format) /\ i - 1 \in Nat /\ (i - 1) + 1 = i
      /\ (i + 1) - 1 = i /\ i + 1 \in 1 .. Len(format) + 1
      /\ data \o Item(i) \in Strings /\ Len(data \o Item(i)) = Len(data) + Len(Item(i))
      /\ Len(data) \in Nat /\ Len(Item(i)) \in Nat
      /\ Joined(items, i) = Joined(items, i - 1) \o Item(i)
  BY Zenon, <1>0, TurnOf
<1>4. i' - 1 = i
  BY Zenon, <1>0, <1>3
<1>5. TypeOK'
  <2>1. pc' \in {"idle", "sprint"} \cup Block \cup Buffer
    BY <1>0
  <2> QED BY Zenon, <1>0, <1>1, <1>3, <2>1 DEF TypeOK
<1>6. Kept'
  <2>1. formatters' = FormattersAfter(made, before, args, Parameter(format, i))
    BY Zenon, <1>0, <1>1, <1>3, UsedIsKept
  <2> QED BY Zenon, <1>0, <1>4, <2>1 DEF Kept
<1>7. pc \notin Buffer /\ pc' \notin Buffer /\ pc' \notin Block /\ pc' # "idle"
      /\ pc' \notin {"walk", "walked", "undefined"} /\ pc \notin {"walk", "walked", "undefined"}
      /\ pc' \notin {"print", "printed"} /\ pc' # "print" /\ pc' # "printed" /\ pc' # "overrun"
  BY <1>0 DEF Buffer, Block
<1>8. Resting' /\ Filled' /\ Walking'
  BY Zenon, <1>0, <1>7 DEF IInv, Resting, Filled, Walking
<1>9. Filling'
  <2>1. /\ data = Joined(items, i - 1) /\ size = SumTo(counts, Len(format))
        /\ Len(data) <= SumTo(counts, i - 1)
        /\ Len(data) # SumTo(counts, i - 1) => Repeats(args, made)
    BY Zenon, <1>0 DEF IInv, Filling
  <2>2. /\ counts[i] \in Nat /\ Len(Item(i)) <= counts[i]
        /\ Len(Item(i)) # counts[i] => Repeats(args, made)
    BY Zenon, <1>1, <1>3, OwnItem
  <2>3. SumTo(counts, i - 1) \in Nat /\ SumTo(counts, i) = SumTo(counts, i - 1) + counts[i]
    <3>1. AreCounts(counts, Len(format)) /\ Len(format) \in Nat
      BY Zenon, <1>1, ItemsAre DEF counts
    <3>2. AreCounts(counts, (i - 1) + 1)
      BY <1>3, <3>1 DEF AreCounts
    <3>3. /\ SumTo(counts, i - 1) \in Nat
          /\ SumTo(counts, (i - 1) + 1) = SumTo(counts, i - 1) + counts[(i - 1) + 1]
      BY Zenon, <1>3, <3>2, SumSteps
    <3> QED BY Zenon, <1>3, <3>3
  <2>4. Len(data') = Len(data) + Len(Item(i))
    BY Zenon, <1>0, <1>3
  <2>5. /\ Len(data') <= SumTo(counts, i)
        /\ Len(data') # SumTo(counts, i) => Repeats(args, made)
    BY <1>3, <2>1, <2>2, <2>3, <2>4
  <2>6. data' = Joined(items, i)
    BY Zenon, <1>0, <1>3, <2>1
  <2> QED BY Zenon, <1>0, <1>2, <1>4, <2>1, <2>5, <2>6 DEF Filling
<1>10. Written'
  <2>1. writes' = << >>
    BY Zenon, <1>0, <1>7 DEF IInv, Written
  <2>2. NoneCut(writes', items', i' - 1)
    BY Zenon, <2>1, NothingAsked
  <2> QED BY Zenon, <1>7, <2>1, <2>2 DEF Written
<1> QED BY Zenon, <1>5, <1>6, <1>8, <1>9, <1>10 DEF IInv

\* Nothing is filled up but for an item that has become shorter.
LEMMA SprintEndIInv ==
    ASSUME IInv, SprintEnd, UNCHANGED <<at, met>>
    PROVE  IInv'
<1> DEFINE rest == [n \in 1 .. size - Len(data) |-> Unset]
<1>0. /\ pc = "sprint" /\ pc' = "made" /\ i > Len(format) /\ data' = data \o rest
      /\ formatters' = formatters
      /\ i' = i /\ format' = format /\ args' = args /\ size' = size /\ writes' = writes
      /\ made' = made /\ before' = before /\ calls' = calls /\ at' = at /\ met' = met
  BY Zenon DEF SprintEnd, call, history
<1>1. TypeOK /\ Kept /\ IsCall(format, args, made) /\ size \in Nat /\ data \in Strings
      /\ i \in 1 .. Len(format) + 1
  BY Zenon DEF IInv, TypeOK
<1>2. items' = items /\ counts' = counts
  BY Zenon, <1>0 DEF items, counts
<1>3. Len(format) \in Nat
  BY Zenon, <1>1, ItemsAre
<1>4. i = Len(format) + 1 /\ i - 1 = Len(format)
  BY <1>0, <1>1, <1>3
<1>5. /\ data = Joined(items, Len(format)) /\ Len(data) <= size
      /\ Len(data) # size => Repeats(args, made)
  <2>1. /\ data = Joined(items, i - 1) /\ size = SumTo(counts, Len(format))
        /\ Len(data) <= SumTo(counts, i - 1)
        /\ Len(data) # SumTo(counts, i - 1) => Repeats(args, made)
    BY Zenon, <1>0 DEF IInv, Filling
  <2> QED BY Zenon, <1>4, <2>1
<1>6. Len(data) \in Nat /\ size - Len(data) \in Nat
  <2>1. Len(data) \in Nat
    BY Zenon, <1>1, StringsAre
  <2> QED BY <1>1, <1>5, <2>1
<1>7. rest \in Strings /\ Len(rest) = size - Len(data)
  BY <1>6 DEF Strings, Unset
<1> HIDE DEF rest
<1>8. data' \in Strings /\ Len(data') = size
  <2>1. data \o rest \in Strings /\ Len(data \o rest) = Len(data) + Len(rest)
    BY Zenon, <1>1, <1>7, StringsAre
  <2> QED BY <1>0, <1>1, <1>6, <1>7, <2>1
<1>9. IsPrefix(data, data')
  <2> DEFINE l == Len(data)
  <2>1. /\ data \in Seq(Int) /\ rest \in Seq(Int) /\ data \o rest \in Seq(Int)
        /\ Len(data \o rest) = l + Len(rest) /\ l \in Nat /\ Len(rest) \in Nat
        /\ \A k \in 1 .. l : (data \o rest)[k] = data[k]
    BY <1>1, <1>7, LenProperties DEF Strings
  <2> DEFINE all == data \o rest
  <2> HIDE DEF l, all
  <2>2. /\ SubSeq(data, 1, l) \in Seq(Int) /\ Len(SubSeq(data, 1, l)) = (l + 1) - 1
        /\ \A k \in 1 .. (l + 1) - 1 : SubSeq(data, 1, l)[k] = data[(1 + k) - 1]
    <3>1. 1 \in Nat \ {0} /\ 1 <= l + 1 /\ l <= Len(data)
      BY <2>1 DEF l
    <3> QED BY <2>1, <3>1, PartOf
  <2>3. /\ SubSeq(all, 1, l) \in Seq(Int) /\ Len(SubSeq(all, 1, l)) = (l + 1) - 1
        /\ \A k \in 1 .. (l + 1) - 1 : SubSeq(all, 1, l)[k] = all[(1 + k) - 1]
    <3>1. 1 \in Nat \ {0} /\ 1 <= l + 1 /\ l <= Len(all)
      BY <2>1 DEF all
    <3>2. all \in Seq(Int)
      BY <2>1 DEF all
    <3> QED BY <2>1, <3>1, <3>2, PartOf
  <2> DEFINE x == SubSeq(data, 1, l)
             y == SubSeq(all, 1, l)
  <2>4. x = y
    <3>1. /\ x \in Seq(Int) /\ y \in Seq(Int) /\ Len(x) = (l + 1) - 1 /\ Len(y) = (l + 1) - 1
          /\ \A k \in 1 .. (l + 1) - 1 : x[k] = data[(1 + k) - 1] /\ y[k] = all[(1 + k) - 1]
      BY Zenon, <2>2, <2>3
    <3> HIDE DEF x, y
    <3>2. \A k \in 1 .. (l + 1) - 1 : x[k] = y[k]
      <4>1. \A k \in 1 .. (l + 1) - 1 : (1 + k) - 1 \in 1 .. l
        BY <2>1
      <4> QED BY Zenon, <2>1, <3>1, <4>1 DEF all
    <3> QED BY <3>1, <3>2, SeqEqual
  <2>5. l <= Len(all)
    BY <2>1 DEF all
  <2> QED BY Zenon, <1>0, <2>4, <2>5 DEF IsPrefix, l, all
<1>10. TypeOK'
  <2>1. pc' \in {"idle", "sprint"} \cup Block \cup Buffer
    BY <1>0 DEF Block
  <2> QED BY Zenon, <1>0, <1>1, <1>8, <2>1 DEF TypeOK
<1>11. Kept'
  BY Zenon, <1>0, <1>1 DEF Kept
<1>12. pc \notin Buffer /\ pc' \notin Buffer /\ pc' # "idle" /\ pc' # "sprint"
       /\ pc' \notin {"walk", "walked", "undefined"} /\ pc \notin {"walk", "walked", "undefined"}
       /\ pc' \notin {"print", "printed"} /\ pc' # "print" /\ pc' # "printed" /\ pc' # "overrun"
  BY <1>0 DEF Buffer, Block
<1>13. Resting' /\ Filling' /\ Walking'
  BY Zenon, <1>0, <1>12 DEF IInv, Resting, Filling, Walking
<1>14. Filled'
  <2>1. Len(Joined(items, Len(format))) < size => Repeats(args, made)
    BY <1>1, <1>5, <1>6
  <2> QED BY Zenon, <1>0, <1>2, <1>4, <1>5, <1>8, <1>9, <2>1 DEF Filled
<1>15. Written'
  <2>1. writes' = << >>
    BY Zenon, <1>0, <1>12 DEF IInv, Written
  <2>2. NoneCut(writes', items', i' - 1)
    BY Zenon, <2>1, NothingAsked
  <2> QED BY Zenon, <1>12, <2>1, <2>2 DEF Written
<1> QED BY Zenon, <1>10, <1>11, <1>13, <1>14, <1>15 DEF IInv

\* What a buffer that is handed over adds to the writes.
LEMMA Flushed ==
    ASSUME IInv, pc = "print", Flush
    PROVE  /\ writes' \in Seq(Writes)
           /\ Asked(writes', Len(writes')) = Joined(items, i - 1)
           /\ NoneCut(writes', items, i - 1)
<1>1. /\ writes \in Seq(Writes) /\ data \in Strings /\ i \in 1 .. Len(format) + 1
      /\ IsCall(format, args, made)
  BY Zenon DEF IInv, TypeOK
<1>2. pc \in {"print", "printed"}
  OBVIOUS
<1>3. /\ Asked(writes, Len(writes)) \o data = Joined(items, i - 1) /\ Len(data) <= FlushSize
      /\ NoneCut(writes, items, i - 1)
  BY Zenon, <1>2 DEF IInv, Written
<1>4. PICK got \in 0 .. Len(data) : writes' = Append(writes, [asked |-> data, got |-> got])
  BY Zenon DEF Flush
<1> DEFINE w == [asked |-> data, got |-> got]
<1>5. w \in Writes /\ w.asked = data
  <2>1. Len(data) \in Nat
    BY Zenon, <1>1, StringsAre
  <2>2. got \in Nat
    BY <2>1
  <2> QED BY <1>1, <2>2 DEF Writes
<1>6. i - 1 \in Nat
  <2>1. Len(format) \in Nat
    BY Zenon, <1>1, ItemsAre
  <2> QED BY <1>1, <2>1
<1> HIDE DEF w
<1>7. writes' = Append(writes, w)
  BY Zenon, <1>4 DEF w
<1>8. /\ Append(writes, w) \in Seq(Writes) /\ Len(Append(writes, w)) = Len(writes) + 1
      /\ Asked(Append(writes, w), Len(writes) + 1) = Asked(writes, Len(writes)) \o w.asked
  BY Zenon, <1>1, <1>5, AskedMore
<1>9. NoneCut(Append(writes, w), items, i - 1)
  BY Zenon, <1>1, <1>3, <1>5, <1>6, NoneCutMore
<1> QED BY Zenon, <1>3, <1>5, <1>7, <1>8, <1>9

\* One item more is in the buffer, which is written first when the item does not fit in.
LEMMA PrintItemIInv ==
    ASSUME IInv, PrintItem, UNCHANGED <<at, met>>
    PROVE  IInv'
<1> DEFINE full == Full(Len(data) + ItemCount(format, args, i))
<1>0. /\ pc = "print" /\ i <= Len(format) /\ ItemUsed(i)
      /\ pc' = IF Len(data') > FlushSize THEN "overrun" ELSE "print"
      /\ IF full THEN Flush /\ data' = Item(i) ELSE writes' = writes /\ data' = data \o Item(i)
      /\ i' = i + 1 /\ format' = format /\ args' = args /\ size' = size
      /\ made' = made /\ before' = before /\ calls' = calls /\ at' = at /\ met' = met
  BY Zenon DEF PrintItem, call, history
<1>1. TypeOK /\ Kept /\ IsCall(format, args, made) /\ writes \in Seq(Writes)
  BY Zenon DEF IInv, TypeOK
<1>2. items' = items
  BY Zenon, <1>0 DEF items
<1>3. /\ i \in 1 .. Len(format) /\ i - 1 \in Nat /\ (i - 1) + 1 = i
      /\ (i + 1) - 1 = i /\ i + 1 \in 1 .. Len(format) + 1
      /\ data \in Strings /\ Item(i) \in Strings /\ Item(i) = items[i]
      /\ ItemCount(format, args, i) = Len(Item(i))
      /\ format[i] # Percent => Len(Item(i)) = 1
      /\ data \o Item(i) \in Strings /\ Len(data \o Item(i)) = Len(data) + Len(Item(i))
      /\ Len(data) \in Nat /\ Len(Item(i)) \in Nat
      /\ Joined(items, i - 1) \in Strings
      /\ Joined(items, i) = Joined(items, i - 1) \o Item(i)
  BY Zenon, <1>0, TurnOf
<1>4. i' - 1 = i
  BY Zenon, <1>0, <1>3
<1>5. /\ Asked(writes, Len(writes)) \o data = Joined(items, i - 1) /\ Len(data) <= FlushSize
      /\ \A m \in 1 .. i - 1 : format[m] = Percent => Len(items[m]) <= FlushSize
      /\ NoneCut(writes, items, i - 1)
  <2>1. pc \in {"print", "printed"}
    BY <1>0
  <2> QED BY Zenon, <1>0, <2>1 DEF IInv, Written
<1>6. FlushSize \in Nat \ {0}
  BY PrintAssumption
<1>7. /\ writes' \in Seq(Writes) /\ data' \in Strings
      /\ Asked(writes', Len(writes')) \o data' = Joined(items, i)
      /\ NoneCut(writes', items, i - 1)
      /\ Len(data') \in Nat
      /\ Len(data') > FlushSize => format[i] = Percent /\ Len(items[i]) > FlushSize
      /\ ~(Len(data') > FlushSize) => Len(items[i]) <= FlushSize
  <2>1. CASE full
    <3>1. Flush /\ data' = Item(i)
      BY Zenon, <1>0, <2>1
    <3>2. /\ writes' \in Seq(Writes) /\ Asked(writes', Len(writes')) = Joined(items, i - 1)
          /\ NoneCut(writes', items, i - 1)
      BY Zenon, <1>0, <3>1, Flushed
    <3>3. Len(data') > FlushSize => format[i] = Percent
      BY <1>3, <1>6, <3>1
    <3>4. ~(Len(data') > FlushSize) => Len(data') <= FlushSize
      BY <1>3, <1>6, <3>1
    <3> QED BY Zenon, <1>3, <3>1, <3>2, <3>3, <3>4
  <2>2. CASE ~full
    <3>1. writes' = writes /\ data' = data \o Item(i)
      BY Zenon, <1>0, <2>2
    <3>2. ~(Len(data) + Len(Item(i)) > FlushSize)
      BY Zenon, <1>3, <2>2 DEF Full
    <3>3. ~(Len(data') > FlushSize)
      BY Zenon, <1>3, <3>1, <3>2
    <3>4. Len(items[i]) <= FlushSize
      <4>1. Len(Item(i)) <= FlushSize
        BY <1>3, <1>6, <3>2
      <4> QED BY Zenon, <1>3, <4>1
    <3>5. Asked(writes, Len(writes)) \in Strings
      <4>1. [asked |-> << >>, got |-> 0] \in Writes
        BY StringsAre DEF Writes
      <4> QED BY Zenon, <1>1, <4>1, AskedMore
    <3>6. Asked(writes, Len(writes)) \o (data \o Item(i)) = Joined(items, i)
      <4> DEFINE asked == Asked(writes, Len(writes))
      <4>1. (asked \o data) \o Item(i) = asked \o (data \o Item(i))
        BY Zenon, <1>3, <3>5, StringsAre
      <4>2. asked \o data = Joined(items, i - 1)
        BY Zenon, <1>5
      <4> HIDE DEF asked
      <4>3. asked \o (data \o Item(i)) = Joined(items, i)
        BY Zenon, <1>3, <4>1, <4>2
      <4> QED BY Zenon, <4>3 DEF asked
    <3>7. Len(data') \in Nat
      BY Zenon, <1>3, <3>1, StringsAre
    <3> QED BY Zenon, <1>1, <1>3, <1>5, <3>1, <3>3, <3>4, <3>6, <3>7
  <2> QED BY Zenon, <2>1, <2>2
<1> HIDE DEF full
<1>8. pc' \in {"print", "overrun"} /\ (pc' = "overrun" <=> Len(data') > FlushSize)
  BY <1>0
<1>9. TypeOK'
  <2>1. pc' \in {"idle", "sprint"} \cup Block \cup Buffer
    BY <1>8 DEF Buffer
  <2> QED BY Zenon, <1>0, <1>1, <1>3, <1>7, <2>1 DEF TypeOK
<1>10. Kept'
  <2>1. formatters' = FormattersAfter(made, before, args, Parameter(format, i))
    BY Zenon, <1>0, <1>1, <1>3, UsedIsKept
  <2> QED BY Zenon, <1>0, <1>4, <2>1 DEF Kept
<1>11. pc' \in Buffer /\ pc' \notin Block /\ pc' # "idle" /\ pc' # "sprint" /\ pc' # "printed"
      /\ pc' \notin {"walk", "walked", "undefined"} /\ pc \notin {"walk", "walked", "undefined"}
      /\ (pc' \in {"print", "printed"} => pc' = "print")
  BY <1>0, <1>8 DEF Buffer, Block
<1>12. Resting' /\ Filling' /\ Filled' /\ Walking'
  BY Zenon, <1>0, <1>11 DEF IInv, Resting, Filling, Filled, Walking
<1>13. NoneCut(writes', items', i' - 1)
  <2>1. NoneCut(writes', items, (i - 1) + 1)
    BY Zenon, <1>3, <1>7, NoneCutLater
  <2> QED BY Zenon, <1>2, <1>3, <1>4, <2>1
<1>14. pc' = "print" => /\ Len(data') <= FlushSize
                        /\ \A m \in 1 .. i' - 1 : format'[m] = Percent => Len(items'[m]) <= FlushSize
  <2> SUFFICES ASSUME pc' = "print"
               PROVE  /\ Len(data') <= FlushSize
                      /\ \A m \in 1 .. i : format[m] = Percent => Len(items[m]) <= FlushSize
    BY Zenon, <1>0, <1>2, <1>4
  <2>1. ~(Len(data') > FlushSize)
    BY <1>8
  <2>2. Len(data') <= FlushSize
    BY <1>6, <1>7, <2>1
  <2>3. \A m \in 1 .. i : m \in 1 .. i - 1 \/ m = i
    BY <1>3
  <2> QED BY Zenon, <1>5, <1>7, <2>1, <2>2, <2>3
<1>15. pc' = "overrun" => \E m \in 1 .. i' - 1 : format'[m] = Percent /\ Len(items'[m]) > FlushSize
  <2> SUFFICES ASSUME pc' = "overrun"
               PROVE  \E m \in 1 .. i : format[m] = Percent /\ Len(items[m]) > FlushSize
    BY Zenon, <1>0, <1>2, <1>4
  <2>1. i \in 1 .. i
    BY <1>3
  <2> QED BY Zenon, <1>7, <1>8, <2>1
<1>16. Written'
  BY Zenon, <1>2, <1>4, <1>7, <1>11, <1>13, <1>14, <1>15 DEF Written
<1> QED BY Zenon, <1>9, <1>10, <1>12, <1>16 DEF IInv

\* The rest of the buffer is written.
LEMMA PrintEndIInv ==
    ASSUME IInv, PrintEnd, UNCHANGED <<at, met>>
    PROVE  IInv'
<1>0. /\ pc = "print" /\ pc' = "printed" /\ i > Len(format) /\ data' = << >>
      /\ IF data = << >> THEN writes' = writes ELSE Flush
      /\ formatters' = formatters
      /\ i' = i /\ format' = format /\ args' = args /\ size' = size
      /\ made' = made /\ before' = before /\ calls' = calls /\ at' = at /\ met' = met
  BY Zenon DEF PrintEnd, call, history
<1>1. TypeOK /\ Kept /\ IsCall(format, args, made) /\ writes \in Seq(Writes) /\ data \in Strings
      /\ i \in 1 .. Len(format) + 1
  BY Zenon DEF IInv, TypeOK
<1>2. items' = items
  BY Zenon, <1>0 DEF items
<1>3. i = Len(format) + 1 /\ i - 1 \in Nat /\ i - 1 <= Len(items) /\ items \in Seq(Strings)
  <2>1. Len(format) \in Nat /\ items \in Seq(Strings) /\ Len(items) = Len(format)
    <3>1. items = Items(format, args, made, before)
      BY Zenon DEF items
    <3>2. /\ Len(format) \in Nat /\ Items(format, args, made, before) \in Seq(Strings)
          /\ Len(Items(format, args, made, before)) = Len(format)
      BY <1>1, ItemsAre
    <3> QED BY Zenon, <3>1, <3>2
  <2> QED BY <1>0, <1>1, <2>1
<1>4. /\ Asked(writes, Len(writes)) \o data = Joined(items, i - 1)
      /\ NoneCut(writes, items, i - 1)
  <2>1. pc \in {"print", "printed"}
    BY <1>0
  <2> QED BY Zenon, <2>1 DEF IInv, Written
<1>5. /\ writes' \in Seq(Writes)
      /\ Asked(writes', Len(writes')) \o data' = Joined(items, i - 1)
      /\ NoneCut(writes', items, i - 1)
  <2>1. CASE data = << >>
    BY Zenon, <1>0, <1>1, <1>4, <2>1
  <2>2. CASE data # << >>
    <3>1. /\ writes' \in Seq(Writes) /\ Asked(writes', Len(writes')) = Joined(items, i - 1)
          /\ NoneCut(writes', items, i - 1)
      BY Zenon, <1>0, <2>2, Flushed
    <3>2. Joined(items, i - 1) \in Strings
      BY Zenon, <1>3, JoinedSteps
    <3> QED BY Zenon, <1>0, <3>1, <3>2, StringsAre
  <2> QED BY Zenon, <2>1, <2>2
<1>6. TypeOK'
  <2>1. pc' \in {"idle", "sprint"} \cup Block \cup Buffer
    BY <1>0 DEF Buffer
  <2> QED BY Zenon, <1>0, <1>1, <1>5, <2>1, StringsAre DEF TypeOK
<1>7. Kept'
  BY Zenon, <1>0, <1>1 DEF Kept
<1>8. pc' \in Buffer /\ pc' \notin Block /\ pc' # "idle" /\ pc' # "sprint"
      /\ pc' \notin {"walk", "walked", "undefined"} /\ pc \notin {"walk", "walked", "undefined"}
      /\ pc' # "print" /\ pc' # "overrun"
  BY <1>0 DEF Buffer, Block
<1>9. Resting' /\ Filling' /\ Filled' /\ Walking'
  BY Zenon, <1>0, <1>8 DEF IInv, Resting, Filling, Filled, Walking
<1>10. Written'
  BY Zenon, <1>0, <1>2, <1>3, <1>5, <1>8 DEF Written
<1> QED BY Zenon, <1>6, <1>7, <1>9, <1>10 DEF IInv

\* The bytes that a character needs make a number.
LEMMA CodepointTyped ==
    ASSUME NEW str \in Strings, Len(str) # 0, CharLen(str[1]) <= Len(str)
    PROVE  Codepoint(str) \in Int
<1> DEFINE l == Len(str)
<1>0. l \in Nat /\ l # 0 /\ CharLen(str[1]) <= l /\ \A n \in 1 .. l : str[n] \in Int
  BY LenProperties, ElementOfSeq DEF Strings
<1> HIDE DEF l
<1>1. str[1] \in Int
  BY <1>0
<1>a. \A b \in Int : Low(b) \in Int /\ b % 32 \in Int /\ b % 16 \in Int /\ b % 8 \in Int
  BY DEF Low
<1>2. CASE str[1] <= 127
  BY <1>1, <1>2 DEF Codepoint
<1>3. CASE ~(str[1] <= 127) /\ str[1] <= 223
  <2>1. str[2] \in Int
    BY <1>0, <1>1, <1>3 DEF CharLen
  <2>2. str[1] % 32 \in Int /\ Low(str[2]) \in Int
    BY Zenon, <1>1, <1>a, <2>1
  <2> QED BY SMT, <1>3, <2>2 DEF Codepoint
<1>4. CASE ~(str[1] <= 223) /\ str[1] <= 239
  <2>1. str[2] \in Int /\ str[3] \in Int
    BY <1>0, <1>1, <1>4 DEF CharLen
  <2>2. ~(str[1] <= 127)
    BY <1>1, <1>4
  <2>3. str[1] % 16 \in Int /\ Low(str[2]) \in Int /\ Low(str[3]) \in Int
    BY Zenon, <1>1, <1>a, <2>1
  <2> QED BY SMT, <1>4, <2>2, <2>3 DEF Codepoint
<1>5. CASE ~(str[1] <= 239)
  <2>1. str[2] \in Int /\ str[3] \in Int /\ str[4] \in Int
    BY <1>0, <1>1, <1>5 DEF CharLen
  <2>2. ~(str[1] <= 127) /\ ~(str[1] <= 223)
    BY <1>1, <1>5
  <2>3. str[1] % 8 \in Int /\ Low(str[2]) \in Int /\ Low(str[3]) \in Int /\ Low(str[4]) \in Int
    BY Zenon, <1>1, <1>a, <2>1
  <2> QED BY SMT, <1>5, <2>2, <2>3 DEF Codepoint
<1> QED BY <1>1, <1>2, <1>3, <1>4, <1>5

LEMMA EncodeTyped ==
    ASSUME NEW scalar \in Int
    PROVE  Encode(scalar) \in Strings
BY DEF Encode, Low, Strings

\* The first a - 1 bytes of a string, and those from there to another one.
LEMMA PartsJoin ==
    ASSUME NEW str \in Strings, NEW a \in Nat \ {0}, NEW m \in Nat, a <= m + 1, m <= Len(str)
    PROVE  SubSeq(str, 1, a - 1) \o SubSeq(str, a, m) = SubSeq(str, 1, m)
<1> DEFINE x == SubSeq(str, 1, a - 1)
           y == SubSeq(str, a, m)
           z == SubSeq(str, 1, m)
           xy == x \o y
<1>0. str \in Seq(Int) /\ Len(str) \in Nat
  BY LenProperties DEF Strings
<1>1. x \in Seq(Int) /\ Len(x) = a - 1 /\ \A k \in 1 .. a - 1 : x[k] = str[k]
  <2>1. /\ 1 \in Nat \ {0} /\ a - 1 \in Nat /\ 1 <= (a - 1) + 1 /\ a - 1 <= Len(str)
        /\ ((a - 1) + 1) - 1 = a - 1
    BY <1>0
  <2>2. /\ x \in Seq(Int) /\ Len(x) = ((a - 1) + 1) - 1
        /\ \A k \in 1 .. ((a - 1) + 1) - 1 : x[k] = str[(1 + k) - 1]
    BY <1>0, <2>1, PartOf
  <2> HIDE DEF x
  <2>3. \A k \in 1 .. a - 1 : (1 + k) - 1 = k
    OBVIOUS
  <2> QED BY Zenon, <2>1, <2>2, <2>3
<1>2. y \in Seq(Int) /\ Len(y) = (m + 1) - a /\ \A k \in 1 .. (m + 1) - a : y[k] = str[(a + k) - 1]
  BY <1>0, PartOf
<1>3. z \in Seq(Int) /\ Len(z) = m /\ \A k \in 1 .. m : z[k] = str[k]
  <2>1. 1 \in Nat \ {0} /\ 1 <= m + 1 /\ (m + 1) - 1 = m
    OBVIOUS
  <2>2. z \in Seq(Int) /\ Len(z) = (m + 1) - 1 /\ \A k \in 1 .. (m + 1) - 1 : z[k] = str[(1 + k) - 1]
    BY <1>0, <2>1, PartOf
  <2> HIDE DEF z
  <2>3. \A k \in 1 .. m : (1 + k) - 1 = k
    OBVIOUS
  <2> QED BY Zenon, <2>1, <2>2, <2>3
<1>4. /\ xy \in Seq(Int) /\ Len(xy) = Len(x) + Len(y)
      /\ \A k \in 1 .. Len(x) + Len(y) : xy[k] = IF k <= Len(x) THEN x[k] ELSE y[k - Len(x)]
  <2> HIDE DEF x, y
  <2> QED BY <1>1, <1>2, ConcatProperties
<1> HIDE DEF x, y, z, xy
<1>5. \A k \in 1 .. m : xy[k] = z[k]
  <2> SUFFICES ASSUME NEW k \in 1 .. m PROVE xy[k] = z[k]
    OBVIOUS
  <2>0. k \in 1 .. Len(x) + Len(y)
    BY <1>1, <1>2
  <2>1. CASE k <= a - 1
    <3>1. k \in 1 .. a - 1
      BY <2>1
    <3>2. xy[k] = x[k]
      BY <1>1, <1>4, <2>0, <2>1
    <3> QED BY Zenon, <1>1, <1>3, <3>1, <3>2
  <2>2. CASE ~(k <= a - 1)
    <3>1. k - (a - 1) \in 1 .. (m + 1) - a /\ (a + (k - (a - 1))) - 1 = k
      BY <2>2
    <3>2. xy[k] = y[k - (a - 1)]
      BY <1>1, <1>4, <2>0, <2>2
    <3>3. y[k - (a - 1)] = str[(a + (k - (a - 1))) - 1]
      BY Zenon, <1>2, <3>1
    <3> QED BY Zenon, <1>3, <3>1, <3>2, <3>3
  <2> QED BY <2>1, <2>2
<1>6. Len(xy) = m
  BY <1>1, <1>2, <1>4
<1>7. xy = z
  BY <1>3, <1>4, <1>5, <1>6, SeqEqual
<1> QED BY Zenon, <1>7 DEF x, y, z, xy

\* What the walk finds of a text: a character that is all there, and a text behind it.
LEMMA CharacterAhead ==
    ASSUME NEW str \in Strings, NEW n \in 1 .. Len(str), TextFrom(str, n)
    PROVE  LET next == n + CharLen(str[n]) IN
           /\ next \in n + 1 .. Len(str) + 1
           /\ \A k \in n .. next - 1 : k \in 1 .. Len(str) /\ str[k] # Unset
           /\ Encode(Codepoint(SubSeq(str, n, Len(str)))) = SubSeq(str, n, next - 1)
           /\ TextFrom(str, next)
<1> DEFINE l == Len(str)
<1>0. str \in Seq(Int) /\ l \in Nat
  BY LenProperties DEF Strings
<1>1. PICK m \in n .. l : SubSeq(str, n, m) \in Character /\ TextFrom(str, m + 1)
  BY Zenon, TextGoesOn
<1> DEFINE c == SubSeq(str, n, m)
           t == SubSeq(str, n, l)
<1>2. n \in Nat \ {0} /\ m \in Nat /\ n <= m + 1 /\ m <= l /\ n <= l + 1 /\ l <= l /\ n <= m
  BY <1>0
<1>3. Len(c) = (m + 1) - n /\ \A k \in 1 .. (m + 1) - n : c[k] = str[(n + k) - 1]
  BY <1>0, <1>2, PartOf
<1>4. \A k \in 1 .. (l + 1) - n : t[k] = str[(n + k) - 1]
  BY <1>0, <1>2, PartOf
<1>5. c \in Character
  BY <1>1
<1> HIDE DEF l, c, t
<1>6. c[1] = str[n]
  <2>1. 1 \in 1 .. (m + 1) - n /\ (n + 1) - 1 = n
    BY <1>2
  <2> QED BY Zenon, <1>3, <2>1
<1>7. CharLen(str[n]) = (m + 1) - n
  BY Zenon, <1>3, <1>5, <1>6, LengthIsTold
<1>8. n + CharLen(str[n]) = m + 1 /\ (m + 1) - 1 = m /\ m + 1 \in n + 1 .. l + 1
  BY <1>0, <1>2, <1>7
<1>9. ASSUME NEW k \in n .. m PROVE k \in 1 .. l /\ str[k] # Unset
  <2>1. (k + 1) - n \in 1 .. (m + 1) - n /\ (n + ((k + 1) - n)) - 1 = k /\ k \in 1 .. l
    BY <1>0, <1>2
  <2>2. c[(k + 1) - n] = str[k]
    BY Zenon, <1>3, <2>1
  <2>3. c[(k + 1) - n] \in Byte
    <3>1. c \in Seq(Byte)
      BY Zenon, <1>5 DEF Character, OneByte, TwoBytes, ThreeBytes, FourBytes
    <3> QED BY <1>3, <2>1, <3>1, ElementOfSeq
  <2>4. \A x \in Byte : x # Unset
    BY DEF Byte, Unset
  <2> QED BY Zenon, <2>1, <2>2, <2>3, <2>4
<1>10. Codepoint(t) = Codepoint(c)
  <2>1. \A k \in 1 .. (m + 1) - n : k \in 1 .. (l + 1) - n
    BY <1>0, <1>2
  <2>2. BeginsWith(t, c)
    BY Zenon, <1>3, <1>4, <2>1 DEF BeginsWith
  <2> QED BY Zenon, <1>5, <2>2, OwnBytes
<1>11. Encode(Codepoint(t)) = c
  BY Zenon, <1>5, <1>10, EncodesDecoded
<1> QED BY Zenon, <1>1, <1>8, <1>9, <1>11 DEF l, c, t

\* The characters met, and one more.
Encoded(ms) == FlattenSeq([n \in 1 .. Len(ms) |-> Encode(ms[n])])

LEMMA EncodedMore ==
    ASSUME NEW ms \in Strings, NEW cp \in Int
    PROVE  /\ Append(ms, cp) \in Strings
           /\ Len(ms) \in Nat
           /\ Len(Append(ms, cp)) = Len(ms) + 1
           /\ Encoded(Append(ms, cp)) = Encoded(ms) \o Encode(cp)
<1> DEFINE n == Len(ms)
           more == Append(ms, cp)
           old == [k \in 1 .. n |-> Encode(ms[k])]
           new == Append(old, Encode(cp))
<1>1. /\ n \in Nat /\ more \in Strings /\ Len(more) = n + 1 /\ more[n + 1] = cp
      /\ \A k \in 1 .. n : more[k] = ms[k] /\ ms[k] \in Int
  BY LenProperties, ElementOfSeq, AppendProperties DEF Strings
<1> HIDE DEF n, more
<1>2. old \in Seq(Strings) /\ Len(old) = n
  <2>1. \A k \in 1 .. n : Encode(ms[k]) \in Strings
    BY Zenon, <1>1, EncodeTyped
  <2>2. old \in [1 .. n -> Strings]
    BY Zenon, <2>1
  <2> QED BY <1>1, <2>2
<1>3. \A k \in 1 .. n : old[k] = Encode(ms[k])
  BY Zenon
<1>4. Encoded(ms) = FlattenSeq(old)
  BY Zenon DEF Encoded, n
<1> HIDE DEF old
<1>5. Encode(cp) \in Strings
  BY Zenon, EncodeTyped
<1>6. /\ new \in Seq(Strings) /\ Len(new) = n + 1 /\ new[n + 1] = Encode(cp)
      /\ \A k \in 1 .. n : new[k] = old[k]
  BY <1>2, <1>5, AppendProperties
<1>7. FlattenSeq(new) = FlattenSeq(old) \o Encode(cp)
  BY Zenon, <1>2, <1>5, FlattenSteps
<1> HIDE DEF new
<1>8. \A k \in 1 .. n + 1 : Encode(more[k]) = new[k]
  <2> SUFFICES ASSUME NEW k \in 1 .. n + 1 PROVE Encode(more[k]) = new[k]
    OBVIOUS
  <2>1. k \in 1 .. n \/ k = n + 1
    BY <1>1
  <2> QED BY Zenon, <1>1, <1>3, <1>6, <2>1
<1>9. new = [k \in 1 .. n + 1 |-> new[k]]
  BY <1>1, <1>6
<1>10. [k \in 1 .. n + 1 |-> Encode(more[k])] = [k \in 1 .. n + 1 |-> new[k]]
  BY Zenon, <1>8
<1>11. Encoded(more) = FlattenSeq(new)
  BY Zenon, <1>1, <1>9, <1>10 DEF Encoded
<1> QED BY Zenon, <1>1, <1>4, <1>7, <1>11 DEF n, more

\* What a walk leaves alone.
LEMMA WalkKeeps ==
    ASSUME IInv, pc \in Block, pc' \in Block, at' \in Nat \ {0}, met' \in Strings,
           UNCHANGED <<formatters, call, i, data, writes, history>>
    PROVE  TypeOK' /\ Kept' /\ Resting' /\ Filling' /\ Filled' /\ Written'
<1>0. /\ formatters' = formatters /\ format' = format /\ args' = args /\ size' = size
      /\ i' = i /\ data' = data /\ writes' = writes
      /\ made' = made /\ before' = before /\ calls' = calls
  BY DEF call, history
<1>1. items' = items /\ counts' = counts
  BY Zenon, <1>0 DEF items, counts
<1>2. TypeOK'
  <2>1. pc' \in {"idle", "sprint"} \cup Block \cup Buffer
    OBVIOUS
  <2> QED BY Zenon, <1>0, <2>1 DEF IInv, TypeOK
<1>3. Kept'
  BY Zenon, <1>0 DEF IInv, Kept
<1>4. pc \notin Buffer /\ pc' \notin Buffer /\ pc' # "idle" /\ pc' # "sprint"
      /\ pc' \notin {"print", "printed"} /\ pc' # "print" /\ pc' # "printed" /\ pc' # "overrun"
  BY DEF Buffer, Block
<1>5. Resting' /\ Filling' /\ Filled'
  BY Zenon, <1>0, <1>1, <1>4 DEF IInv, Resting, Filling, Filled
<1>6. Written'
  <2>1. writes' = << >>
    BY Zenon, <1>0, <1>4 DEF IInv, Written
  <2>2. NoneCut(writes', items', i' - 1)
    BY Zenon, <2>1, NothingAsked
  <2> QED BY Zenon, <1>4, <2>1, <2>2 DEF Written
<1> QED BY Zenon, <1>2, <1>3, <1>5, <1>6

\* A walk begins at the first byte.
LEMMA WalkBeginIInv ==
    ASSUME IInv, WalkBegin
    PROVE  IInv'
<1>0. /\ pc = "made" /\ pc' = "walk" /\ at' = at /\ met' = met /\ data' = data
      /\ UNCHANGED <<formatters, call, i, data, writes, history>>
  BY DEF WalkBegin
<1>1. pc \in Block /\ pc' \in Block /\ pc \notin {"walk", "walked", "undefined"} /\ pc' # "undefined"
      /\ pc' # "walked"
  BY <1>0 DEF Block
<1>2. at = 1 /\ met = << >> /\ data \in Strings /\ at \in Nat \ {0} /\ met \in Strings
  BY Zenon, <1>1 DEF IInv, Walking, TypeOK
<1>3. TypeOK' /\ Kept' /\ Resting' /\ Filling' /\ Filled' /\ Written'
  BY Zenon, <1>0, <1>1, <1>2, WalkKeeps
<1>4. Walking'
  <2> SUFFICES ASSUME IsText(data)
               PROVE  /\ 1 \in 1 .. Len(data) + 1
                      /\ TextFrom(data, 1)
                      /\ Len(<< >>) + CharsFrom(data, 1) = CharsFrom(data, 1)
                      /\ Encoded(<< >>) = SubSeq(data, 1, 1 - 1)
    BY Zenon, <1>0, <1>1, <1>2 DEF Walking, Encoded
  <2>1. Len(data) \in Nat
    BY Zenon, <1>2, StringsAre
  <2>2. TextFrom(data, 1)
    BY Zenon, FromTheFirst
  <2>3. CharsFrom(data, 1) \in Nat
    <3>1. 1 \in 1 .. Len(data) + 4
      BY <2>1
    <3> QED BY Zenon, <1>2, <3>1, CharsGoOn
  <2>4. Len(<< >>) + CharsFrom(data, 1) = CharsFrom(data, 1)
    BY <2>3
  <2>5. Encoded(<< >>) = SubSeq(data, 1, 1 - 1)
    <3> DEFINE none == << >>
               f == [n \in 1 .. Len(none) |-> Encode(none[n])]
    <3>1. f = << >>
      OBVIOUS
    <3> HIDE DEF f
    <3>2. FlattenSeq(f) = << >>
      BY Zenon, <3>1, FlattenSteps
    <3>3. SubSeq(data, 1, 1 - 1) = << >>
      <4>1. 1 \in Nat \ {0} /\ 0 \in Nat /\ 1 <= 0 + 1 /\ 0 <= Len(data) /\ (0 + 1) - 1 = 0 /\ 1 - 1 = 0
        BY <2>1
      <4>2. SubSeq(data, 1, 0) \in Seq(Int) /\ Len(SubSeq(data, 1, 0)) = (0 + 1) - 1
        BY <1>2, <4>1, PartOf DEF Strings
      <4> DEFINE s == SubSeq(data, 1, 0)
      <4>3. s \in Seq(Int) /\ Len(s) = 0
        BY Zenon, <4>1, <4>2
      <4> HIDE DEF s
      <4>4. s = << >>
        BY <4>3, EmptySeq
      <4> QED BY Zenon, <4>1, <4>4 DEF s
    <3> QED BY Zenon, <3>2, <3>3 DEF Encoded, f
  <2> QED BY <2>1, <2>2, <2>4, <2>5
<1> QED BY Zenon, <1>3, <1>4 DEF IInv

\* A turn of the walk has a character before it, and the next one behind that.
LEMMA WalkStepIInv ==
    ASSUME IInv, WalkStep
    PROVE  IInv'
<1> DEFINE there == data[at] # Unset /\ \A n \in Reads(at) : IsThere(n)
           cp == Codepoint(SubSeq(data, at, Len(data)))
           next == at + CharLen(data[at])
<1>0. /\ pc = "walk" /\ at <= Len(data) /\ data' = data
      /\ IF there THEN met' = Append(met, cp) /\ at' = next /\ pc' = pc
                  ELSE pc' = "undefined" /\ at' = at /\ met' = met
      /\ UNCHANGED <<formatters, call, i, data, writes, history>>
  BY Zenon DEF WalkStep
<1>1. /\ pc \in Block /\ pc' \in Block /\ pc \in {"walk", "walked", "undefined"}
      /\ pc' \in {"walk", "walked", "undefined"} /\ pc' # "walked"
  BY <1>0 DEF Block
<1>2. at \in Nat \ {0} /\ met \in Strings /\ data \in Strings /\ data \in Seq(Int)
  BY Zenon DEF IInv, TypeOK, Strings
<1>3. Len(data) \in Nat /\ at \in 1 .. Len(data) /\ data[at] \in Int /\ DOMAIN data = 1 .. Len(data)
  BY <1>0, <1>2, LenProperties, ElementOfSeq
<1>4. next \in Nat \ {0} /\ next \in at + 1 .. Len(data) + 4
  <2>1. CharLen(data[at]) \in 1 .. 4
    BY Zenon, <1>3, FewBytes
  <2> QED BY <1>3, <2>1
<1>5. there => cp \in Int
  <2> SUFFICES ASSUME there PROVE cp \in Int
    OBVIOUS
  <2> DEFINE t == SubSeq(data, at, Len(data))
             l == Len(data)
  <2>1. t \in Seq(Int) /\ Len(t) = (l + 1) - at /\ \A k \in 1 .. (l + 1) - at : t[k] = data[(at + k) - 1]
    <3>1. at <= Len(data) + 1 /\ Len(data) <= Len(data)
      BY <1>3
    <3> QED BY <1>2, <1>3, <3>1, PartOf
  <2> HIDE DEF t
  <2>2. t[1] = data[at] /\ Len(t) # 0
    <3>1. 1 \in 1 .. (l + 1) - at /\ (at + 1) - 1 = at
      BY <1>3
    <3>2. t[1] = data[at]
      BY Zenon, <2>1, <3>1
    <3>3. Len(t) # 0
      BY <1>3, <2>1
    <3> QED BY <3>2, <3>3
  <2>3. next - 1 \in Reads(at)
    <3>1. CharLen(data[at]) \in 1 .. 4
      BY Zenon, <1>3, FewBytes
    <3>2. Reads(at) = at .. next - 1
      BY SMT, <1>3, <3>1 DEF Reads
    <3>3. next - 1 \in at .. next - 1
      BY <1>3, <1>4
    <3> QED BY Zenon, <3>2, <3>3
  <2>4. next - 1 \in 1 .. l
    BY Zenon, <1>3, <2>3 DEF IsThere
  <2>5. CharLen(t[1]) <= Len(t)
    <3>1. CharLen(data[at]) \in 1 .. 4
      BY Zenon, <1>3, FewBytes
    <3>2. CharLen(data[at]) <= (l + 1) - at
      BY <1>3, <2>4, <3>1
    <3> QED BY Zenon, <2>1, <2>2, <3>2
  <2>6. t \in Strings
    BY Zenon, <2>1 DEF Strings
  <2> QED BY Zenon, <2>2, <2>5, <2>6, CodepointTyped DEF t
<1>6. at' \in Nat \ {0} /\ met' \in Strings
  BY Zenon, <1>0, <1>2, <1>4, <1>5, EncodedMore
<1>7. TypeOK' /\ Kept' /\ Resting' /\ Filling' /\ Filled' /\ Written'
  BY Zenon, <1>0, <1>1, <1>6, WalkKeeps
<1>8. Walking'
  <2> SUFFICES ASSUME IsText(data)
               PROVE  /\ pc' # "undefined"
                      /\ at' \in 1 .. Len(data) + 1
                      /\ TextFrom(data, at')
                      /\ Len(met') + CharsFrom(data, at') = CharsFrom(data, 1)
                      /\ Encoded(met') = SubSeq(data, 1, at' - 1)
    BY Zenon, <1>0, <1>1 DEF Walking, Encoded
  <2>1. /\ TextFrom(data, at) /\ Len(met) + CharsFrom(data, at) = CharsFrom(data, 1)
        /\ Encoded(met) = SubSeq(data, 1, at - 1)
    BY Zenon, <1>1 DEF IInv, Walking, Encoded
  <2>2. /\ next \in at + 1 .. Len(data) + 1
        /\ \A k \in at .. next - 1 : k \in 1 .. Len(data) /\ data[k] # Unset
        /\ Encode(cp) = SubSeq(data, at, next - 1)
        /\ TextFrom(data, next)
    BY Zenon, <1>2, <1>3, <2>1, CharacterAhead
  <2>3. there
    <3>1. at \in at .. next - 1
      BY <1>3, <1>4
    <3>2. Reads(at) = at .. next - 1
      <4>1. CharLen(data[at]) \in 1 .. 4
        BY Zenon, <1>3, FewBytes
      <4> QED BY SMT, <1>3, <4>1 DEF Reads
    <3> QED BY Zenon, <1>3, <2>2, <3>1, <3>2 DEF IsThere
  <2>4. met' = Append(met, cp) /\ at' = next /\ pc' = pc /\ cp \in Int
    BY Zenon, <1>0, <1>5, <2>3
  <2>5. /\ Len(met) \in Nat /\ Len(met') = Len(met) + 1 /\ Encoded(met') = Encoded(met) \o Encode(cp)
    BY Zenon, <1>2, <2>4, EncodedMore
  <2>6. CharsFrom(data, next) \in Nat /\ CharsFrom(data, at) = 1 + CharsFrom(data, next)
    <3>1. next \in 1 .. Len(data) + 4
      BY <1>3, <1>4
    <3> QED BY Zenon, <1>2, <1>3, <3>1, CharsGoOn
  <2> HIDE DEF cp, next
  <2>7. Encoded(met') = SubSeq(data, 1, next - 1)
    <3>1. next - 1 \in Nat /\ at <= (next - 1) + 1 /\ next - 1 <= Len(data)
      BY <1>3, <2>2
    <3>2. SubSeq(data, 1, at - 1) \o SubSeq(data, at, next - 1) = SubSeq(data, 1, next - 1)
      BY Zenon, <1>2, <3>1, PartsJoin
    <3> QED BY Zenon, <2>1, <2>2, <2>5, <3>2
  <2>8. Len(met') + CharsFrom(data, next) = CharsFrom(data, 1)
    <3>1. Len(met') = Len(met) + 1
      BY <2>5
    <3> QED BY <2>1, <2>5, <2>6, <3>1
  <2>9. next \in 1 .. Len(data) + 1 /\ pc' # "undefined"
    BY <1>0, <1>3, <2>2, <2>4
  <2> QED BY Zenon, <2>2, <2>4, <2>7, <2>8, <2>9
<1> QED BY Zenon, <1>7, <1>8 DEF IInv

\* The walk ends behind the last byte.
LEMMA WalkEndIInv ==
    ASSUME IInv, WalkEnd
    PROVE  IInv'
<1>0. /\ pc = "walk" /\ pc' = "walked" /\ at > Len(data) /\ at' = at /\ met' = met /\ data' = data
      /\ UNCHANGED <<formatters, call, i, data, writes, history>>
  BY DEF WalkEnd
<1>1. /\ pc \in Block /\ pc' \in Block /\ pc \in {"walk", "walked", "undefined"}
      /\ pc' \in {"walk", "walked", "undefined"} /\ pc' # "undefined"
  BY <1>0 DEF Block
<1>2. data \in Strings /\ at \in Nat \ {0} /\ met \in Strings
  BY Zenon DEF IInv, TypeOK
<1>3. TypeOK' /\ Kept' /\ Resting' /\ Filling' /\ Filled' /\ Written'
  BY Zenon, <1>0, <1>1, <1>2, WalkKeeps
<1>4. Walking'
  <2>1. IsText(data) => at = Len(data) + 1
    <3>1. Len(data) \in Nat
      BY Zenon, <1>2, StringsAre
    <3>2. IsText(data) => at \in 1 .. Len(data) + 1
      BY Zenon, <1>1 DEF IInv, Walking
    <3> QED BY <1>0, <3>1, <3>2
  <2> QED BY Zenon, <1>0, <1>1, <2>1 DEF IInv, Walking
<1> QED BY Zenon, <1>3, <1>4 DEF IInv

\* The end of a call leaves nothing but formatters that have been used.
LEMMA DoneIInv ==
    ASSUME IInv, Done
    PROVE  IInv'
<1>0. /\ pc \in {"made", "printed", "walked"} /\ pc' = "idle"
      /\ format' = << >> /\ args' = << >> /\ size' = 0 /\ i' = 1 /\ data' = << >> /\ writes' = << >>
      /\ before' = before \cup Range(args) /\ formatters' = formatters /\ made' = made /\ calls' = calls
      /\ at' = 1 /\ met' = << >>
  BY Zenon DEF Done, CallEnd
<1>1. /\ IsCall(format, args, made) /\ calls \in 0 .. MaxCalls /\ before \in SUBSET Slots /\ Kept
      /\ made \in [Slots -> Formatters] /\ args \in [1 .. Parameter(format, Len(format)) -> Slots]
  BY Zenon DEF IInv, TypeOK, IsCall
<1>2. Len(format) \in Nat /\ i = Len(format) + 1 /\ i - 1 = Len(format)
  <2>1. Len(format) \in Nat
    BY Zenon, <1>1, ItemsAre
  <2>2. pc = "printed" \/ pc \in Block
    BY <1>0 DEF Block
  <2>3. i = Len(format) + 1
    BY Zenon, <2>2 DEF IInv, Filled, Written
  <2> QED BY <2>1, <2>3
<1>3. Len(<< >>) = 0 /\ Parameter(<< >>, 0) = 0 /\ IsCall(<< >>, << >>, made)
  BY Zenon, <1>1, NoCall
<1>4. i' - 1 = 0
  BY <1>0
<1>5. Range(args) = {args[m] : m \in 1 .. Parameter(format, Len(format))}
  <2>1. DOMAIN args = 1 .. Parameter(format, Len(format))
    BY Zenon, <1>1
  <2> QED BY Zenon, <2>1 DEF Range
<1>6. TypeOK'
  <2>1. data' \in Strings /\ met' \in Strings
    BY Zenon, <1>0, StringsAre
  <2>2. writes' \in Seq(Writes)
    BY Zenon, <1>0, NothingAsked
  <2>3. size' \in Nat /\ at' \in Nat \ {0}
    BY <1>0
  <2>4. i' \in 1 .. Len(format') + 1 /\ pc' \in {"idle", "sprint"} \cup Block \cup Buffer
    BY <1>0, <1>3
  <2>5. before' \in SUBSET Slots
    <3>1. Range(args) \subseteq Slots
      BY Zenon, <1>1 DEF Range
    <3> QED BY <1>0, <1>1, <3>1
  <2> QED BY Zenon, <1>0, <1>1, <1>3, <2>1, <2>2, <2>3, <2>4, <2>5 DEF TypeOK
<1>7. Kept'
  <2> DEFINE none == << >>
             first == {none[m] : m \in 1 .. 0}
  <2>1. first = {}
    OBVIOUS
  <2>2. \A s : s \in before' \cup first <=> s \in before \cup Range(args)
    BY Zenon, <1>0, <2>1
  <2>3. formatters = FormattersAfter(made, before, args, Parameter(format, Len(format)))
    BY Zenon, <1>1, <1>2 DEF Kept
  <2>4. formatters = [s \in Slots |-> IF made[s].kind = "int" /\ s \in before \cup Range(args)
                                      THEN ZeroInt ELSE made[s]]
    BY Zenon, <1>5, <2>3 DEF FormattersAfter
  <2>5. formatters = [s \in Slots |-> IF made[s].kind = "int" /\ s \in before' \cup first
                                      THEN ZeroInt ELSE made[s]]
    BY Zenon, <2>2, <2>4
  <2>6. formatters = FormattersAfter(made, before', << >>, 0)
    BY Zenon, <2>5 DEF FormattersAfter
  <2> QED BY Zenon, <1>0, <1>3, <1>4, <2>6 DEF Kept
<1>8. pc' \notin Buffer /\ pc' \notin Block /\ pc' # "sprint"
      /\ pc' \notin {"walk", "walked", "undefined"}
      /\ pc' \notin {"print", "printed"} /\ pc' # "print" /\ pc' # "printed" /\ pc' # "overrun"
  BY <1>0 DEF Buffer, Block
<1>9. Resting' /\ Filling' /\ Filled' /\ Walking'
  BY Zenon, <1>0, <1>8 DEF Resting, Filling, Filled, Walking
<1>10. Written'
  <2>1. NoneCut(writes', items', i' - 1)
    BY Zenon, <1>0, NothingAsked
  <2> QED BY Zenon, <1>0, <1>8, <2>1 DEF Written
<1> QED BY Zenon, <1>6, <1>7, <1>9, <1>10 DEF IInv

----------------------------------------------------------------------------
(***************************************************************************)
(* Every step keeps the invariant, and the invariant implies what the runs *)
(* check.                                                                  *)
(***************************************************************************)

LEMMA PrintsIInv ==
    ASSUME IInv, Prints
    PROVE  IInv'
<1>0. PrintNext /\ UNCHANGED <<at, met>>
  BY DEF Prints
<1>1. CASE \E fmt \in Formats : \E params \in [1 .. Parameter(fmt, Len(fmt)) -> Slots] :
              SprintBegin(fmt, params) \/ PrintBegin(fmt, params)
  BY Zenon, <1>0, <1>1, BeginIInv
<1>2. CASE SprintItem
  BY Zenon, <1>0, <1>2, SprintItemIInv
<1>3. CASE SprintEnd
  BY Zenon, <1>0, <1>3, SprintEndIInv
<1>4. CASE PrintItem
  BY Zenon, <1>0, <1>4, PrintItemIInv
<1>5. CASE PrintEnd
  BY Zenon, <1>0, <1>5, PrintEndIInv
<1> QED BY Zenon, <1>0, <1>1, <1>2, <1>3, <1>4, <1>5 DEF PrintNext

\* One step of the program, whichever it is, keeps the invariant.
LEMMA NextIInv == IInv /\ [Next]_vars => IInv'
<1> SUFFICES ASSUME IInv, [Next]_vars PROVE IInv'
  OBVIOUS
<1>1. CASE Prints
  BY Zenon, <1>1, PrintsIInv
<1>2. CASE WalkBegin
  BY Zenon, <1>2, WalkBeginIInv
<1>3. CASE WalkStep
  BY Zenon, <1>3, WalkStepIInv
<1>4. CASE WalkEnd
  BY Zenon, <1>4, WalkEndIInv
<1>5. CASE Done
  BY Zenon, <1>5, DoneIInv
<1>6. CASE UNCHANGED vars
  <2>1. /\ formatters' = formatters /\ pc' = pc /\ format' = format /\ args' = args /\ size' = size
        /\ i' = i /\ data' = data /\ writes' = writes
        /\ made' = made /\ before' = before /\ calls' = calls /\ at' = at /\ met' = met
    BY Zenon, <1>6 DEF vars, printVars, call, history
  <2>2. TypeOK'
    BY Zenon, <2>1 DEF IInv, TypeOK
  <2>3. Kept' /\ Resting'
    BY Zenon, <2>1 DEF IInv, Kept, Resting
  <2>4. items' = items /\ counts' = counts
    BY Zenon, <2>1 DEF items, counts
  <2>5. Filling' /\ Filled'
    BY Zenon, <2>1, <2>4 DEF IInv, Filling, Filled
  <2>6. Written'
    BY Zenon, <2>1, <2>4 DEF IInv, Written
  <2>7. Walking'
    BY Zenon, <2>1 DEF IInv, Walking
  <2> QED BY Zenon, <2>2, <2>3, <2>5, <2>6, <2>7 DEF IInv
<1> QED BY Zenon, <1>1, <1>2, <1>3, <1>4, <1>5, <1>6 DEF Next

\* So it always holds.
LEMMA Invariance == Spec => []IInv
BY PTL, InitIInv, NextIInv DEF Spec

\* What a parameter is to mean is what the invariant speaks of.
LEMMA MeaningsAre ==
    ASSUME IInv
    PROVE  /\ Len(format) \in Nat /\ i - 1 \in 0 .. Len(format)
           /\ \A n \in 0 .. Len(format) : TextUpTo(n) = Joined(items, n)
           /\ \A m \in 1 .. Len(format) : format[m] = Percent => Meaning(m) = items[m]
<1>1. IsCall(format, args, made) /\ i \in 1 .. Len(format) + 1
  BY Zenon DEF IInv, TypeOK
<1>2. Len(format) \in Nat
  BY Zenon, <1>1, ItemsAre
<1>3. ASSUME NEW n \in 0 .. Len(format) PROVE TextUpTo(n) = Joined(items, n)
  <2>1. n \in Nat /\ n <= Len(format)
    BY <1>2
  <2> QED BY Zenon, <1>2, <2>1, TextIsJoined
<1>4. \A m : Meaning(m) = MeaningIn(format, args, made, before, m)
  BY Zenon DEF Meaning, MeaningIn
<1>5. \A m \in 1 .. Len(format) : format[m] = Percent => Meaning(m) = items[m]
  BY Zenon, <1>4 DEF items, Items
<1>6. i - 1 \in 0 .. Len(format)
  BY <1>1, <1>2
<1> QED BY Zenon, <1>2, <1>3, <1>5, <1>6

\* The three properties follow from it in every state.
LEMMA IsPrinted == IInv => PrintedIsText
<1> SUFFICES ASSUME IInv PROVE PrintedIsText
  OBVIOUS
<1> DEFINE asked == FlattenSeq([n \in DOMAIN writes |-> writes[n].asked])
           long == \E m \in 1 .. i - 1 : IsParameter(m) /\ Len(Meaning(m)) > FlushSize
<1>1. /\ Len(format) \in Nat /\ i - 1 \in 0 .. Len(format)
      /\ \A n \in 0 .. Len(format) : TextUpTo(n) = Joined(items, n)
      /\ \A m \in 1 .. Len(format) : format[m] = Percent => Meaning(m) = items[m]
  BY Zenon, MeaningsAre
<1>2. DOMAIN writes = 1 .. Len(writes)
  BY LenProperties DEF IInv, TypeOK
<1>3. asked = Asked(writes, Len(writes))
  BY Zenon, <1>2 DEF Asked
<1>4. /\ \A m \in 1 .. i - 1 : m \in 1 .. Len(format)
      /\ \A m \in 0 .. i - 1 : m \in 0 .. Len(format)
  BY <1>1
<1>5. TextUpTo(i - 1) = Joined(items, i - 1)
  BY Zenon, <1>1
<1>6. pc \in {"print", "printed"} => asked \o data = TextUpTo(i - 1)
  <2>1. pc \in {"print", "printed"} => Asked(writes, Len(writes)) \o data = Joined(items, i - 1)
    BY Zenon DEF IInv, Written
  <2> QED BY Zenon, <1>3, <1>5, <2>1
<1>7. pc = "printed" => i = Len(format) + 1
  BY Zenon DEF IInv, Written
<1>8. \A n \in DOMAIN writes :
          /\ Len(writes[n].asked) <= FlushSize
          /\ \E m \in 0 .. i - 1 : FlattenSeq([k \in 1 .. n |-> writes[k].asked]) = TextUpTo(m)
  <2>1. \A n \in DOMAIN writes :
            /\ Len(writes[n].asked) <= FlushSize
            /\ \E m \in 0 .. i - 1 : Asked(writes, n) = Joined(items, m)
    BY Zenon DEF IInv, Written, NoneCut
  <2> QED BY Zenon, <1>1, <1>4, <2>1 DEF Asked
<1>9. long <=> \E m \in 1 .. i - 1 : format[m] = Percent /\ Len(items[m]) > FlushSize
  BY Zenon, <1>1, <1>4 DEF IsParameter
<1>10. pc = "overrun" <=> pc \in {"print", "overrun"} /\ long
  <2>1. pc = "overrun" => \E m \in 1 .. i - 1 : format[m] = Percent /\ Len(items[m]) > FlushSize
    BY Zenon DEF IInv, Written
  <2>2. pc = "print" => \A m \in 1 .. i - 1 : format[m] = Percent => Len(items[m]) <= FlushSize
    BY Zenon DEF IInv, Written
  <2>3. \A m \in 1 .. i - 1 : ~(Len(items[m]) <= FlushSize /\ Len(items[m]) > FlushSize)
    <3> SUFFICES ASSUME NEW m \in 1 .. i - 1, Len(items[m]) <= FlushSize, Len(items[m]) > FlushSize
                 PROVE  FALSE
      OBVIOUS
    <3>1. Len(items[m]) \in Nat
      <4>1. m \in 1 .. Len(items) /\ items \in Seq(Strings)
        <5>1. IsCall(format, args, made)
          BY Zenon DEF IInv, TypeOK
        <5>2. items \in Seq(Strings) /\ Len(items) = Len(format)
          BY <5>1, ItemsAre DEF items
        <5> QED BY Zenon, <1>4, <5>2
      <4>2. items[m] \in Strings
        BY <4>1, ElementOfSeq
      <4> QED BY Zenon, <4>2, StringsAre
    <3>2. FlushSize \in Nat
      BY PrintAssumption
    <3> QED BY <3>1, <3>2
  <2>4. "print" # "overrun"
    OBVIOUS
  <2> HIDE DEF long
  <2> QED BY Zenon, <1>9, <2>1, <2>2, <2>3, <2>4
<1> QED BY Zenon, <1>6, <1>7, <1>8, <1>10 DEF PrintedIsText

LEMMA IsFilled == IInv => SprintFills
<1> SUFFICES ASSUME IInv PROVE SprintFills
  OBVIOUS
<1>1. /\ Len(format) \in Nat /\ i - 1 \in 0 .. Len(format)
      /\ \A n \in 0 .. Len(format) : TextUpTo(n) = Joined(items, n)
  BY Zenon, MeaningsAre
<1>2. pc = "sprint" => Len(data) <= size /\ data = TextUpTo(i - 1)
  <2> SUFFICES ASSUME pc = "sprint" PROVE Len(data) <= size /\ data = TextUpTo(i - 1)
    OBVIOUS
  <2>1. /\ data = Joined(items, i - 1) /\ size = SumTo(counts, Len(format))
        /\ Len(data) <= SumTo(counts, i - 1)
    BY Zenon DEF IInv, Filling
  <2>2. AreCounts(counts, Len(format)) /\ Len(data) \in Nat
    <3>1. IsCall(format, args, made) /\ data \in Strings
      BY Zenon DEF IInv, TypeOK
    <3> QED BY Zenon, <3>1, ItemsAre, StringsAre DEF counts
  <2> DEFINE k == i - 1
             more == Len(format) - k
  <2>3. k \in Nat /\ more \in Nat /\ k + more = Len(format)
    BY <1>1
  <2> HIDE DEF k, more
  <2>4. /\ SumTo(counts, k) \in Nat /\ SumTo(counts, Len(format)) \in Nat
        /\ SumTo(counts, k) <= SumTo(counts, Len(format))
    <3>1. AreCounts(counts, k + more)
      BY Zenon, <2>2, <2>3
    <3>2. /\ SumTo(counts, k) \in Nat /\ SumTo(counts, k + more) \in Nat
          /\ SumTo(counts, k) <= SumTo(counts, k + more)
      BY Zenon, <2>3, <3>1, SumGrows
    <3> QED BY Zenon, <2>3, <3>2
  <2>5. Len(data) <= SumTo(counts, k)
    BY Zenon, <2>1 DEF k
  <2>6. Len(data) <= size
    BY <2>1, <2>2, <2>4, <2>5
  <2> QED BY Zenon, <1>1, <2>1, <2>6
<1>3. ASSUME pc \in {"made", "walk", "walked", "undefined"}
      PROVE  /\ Len(data) = size
             /\ IsPrefix(TextUpTo(Len(format)), data)
             /\ Len(TextUpTo(Len(format))) < size => UsedTwice
  <2>1. pc \in Block
    BY Zenon, <1>3 DEF Block
  <2>2. /\ Len(data) = size
        /\ IsPrefix(Joined(items, Len(format)), data)
        /\ Len(Joined(items, Len(format))) < size => Repeats(args, made)
    BY Zenon, <2>1 DEF IInv, Filled
  <2>3. Len(format) \in 0 .. Len(format)
    BY <1>1
  <2>4. TextUpTo(Len(format)) = Joined(items, Len(format))
    BY Zenon, <1>1, <2>3
  <2> QED BY Zenon, <2>2, <2>4 DEF UsedTwice, Repeats
<1> QED BY Zenon, <1>2, <1>3 DEF SprintFills

LEMMA IsWalked == IInv => WalkMeetsCharacters
<1> SUFFICES ASSUME IInv, pc \in {"walk", "walked", "undefined"}, IsText(data)
             PROVE  /\ pc # "undefined"
                    /\ FlattenSeq([n \in DOMAIN met |-> Encode(met[n])]) = SubSeq(data, 1, at - 1)
                    /\ pc = "walked" => Len(met) = StrLen(data) /\ at = Len(data) + 1
  BY Zenon DEF WalkMeetsCharacters
<1>1. data \in Strings /\ met \in Strings
  BY Zenon DEF IInv, TypeOK
<1>2. /\ pc # "undefined" /\ at \in 1 .. Len(data) + 1
      /\ Len(met) + CharsFrom(data, at) = CharsFrom(data, 1)
      /\ FlattenSeq([n \in 1 .. Len(met) |-> Encode(met[n])]) = SubSeq(data, 1, at - 1)
      /\ pc = "walked" => at = Len(data) + 1
  BY Zenon DEF IInv, Walking
<1>3. DOMAIN met = 1 .. Len(met) /\ Len(met) \in Nat
  BY <1>1, LenProperties DEF Strings
<1>4. FlattenSeq([n \in DOMAIN met |-> Encode(met[n])]) = SubSeq(data, 1, at - 1)
  BY Zenon, <1>2, <1>3
<1>5. ASSUME pc = "walked" PROVE Len(met) = StrLen(data)
  <2>1. CharsFrom(data, at) = 0
    BY Zenon, <1>1, <1>2, <1>5, CharsGoOn
  <2>2. Len(met) + 0 = CharsFrom(data, 1)
    BY Zenon, <1>2, <2>1
  <2>3. Len(met) + 0 = Len(met)
    BY <1>3
  <2>4. StrLen(data) = CharsFrom(data, 1)
    BY Zenon, FromTheFirst
  <2> QED BY Zenon, <2>2, <2>3, <2>4
<1> QED BY Zenon, <1>2, <1>4, <1>5

\* The calls, the block or buffer and the writes are always of their types: a call has an
\* argument for each of its parameters, and every byte that is written is a number.
THEOREM TextTypeCorrect == Spec => []TypeOK
<1>1. IInv => TypeOK
  BY DEF IInv
<1> QED BY PTL, <1>1, Invariance

\* For all formats, formatters and sizes of the buffer, what cut_print hands to the file is
\* the text, in order and complete, in pieces that end between two items; the buffer is overrun
\* only by a parameter that is longer than it.
THEOREM PrintsText == Spec => []PrintedIsText
BY PTL, Invariance, IsPrinted

\* cut_sprint writes the text into its block, and never more than it has counted; the block
\* is longer than the text only when an integer's formatter is used twice in the call.
THEOREM FillsBlocks == Spec => []SprintFills
BY PTL, Invariance, IsFilled

\* cut_utf8_str_for over a block of text finds its characters one after the other, with their
\* code points and as many as cut_utf8_str_len tells, and reads only bytes that were written.
THEOREM WalksCharacters == Spec => []WalkMeetsCharacters
BY PTL, Invariance, IsWalked
====
