------------------------- MODULE SonarValues_proofs -------------------------
(***************************************************************************)
(* The samples of one log, for any operands and any input: although        *)
(* parseSonarData trims the operands, evaluate answers as the program did, *)
(* and wherever the first MaxHint bytes of the input hold one of them, in  *)
(* whatever form, some tested input has the other one in its place, unless *)
(* the sample is skipped or the key of the replacement is another's.       *)
(* Numbers are digits in base Base; what is known of them is proved place  *)
(* by place.                                                               *)
(***************************************************************************)
EXTENDS SonarValues, Sonar_proofs
LOCAL INSTANCE SequencesExt

-----------------------------------------------------------------------------
(* Numbers, as sequences of digits.                                        *)

\* What is used of the constants.
LEMMA Constants ==
  /\ Base \in Nat /\ Base > 2 /\ Wide \in Nat /\ Wide > 0 /\ MaxHint \in Nat
  /\ AnyByte \subseteq Nat /\ 0 \in AnyByte /\ Base - 1 \in AnyByte
  /\ \A b \in AnyByte : b \in Nat /\ b < Base
  BY SonarAssumption DEF AnyByte

-----------------------------------------------------------------------------
(* Induction over places, for sets of them.                                *)

\* What holds of the place beyond the last, and of a place if of the next, holds of all.
LEMMA Downward ==
  ASSUME NEW k \in Nat, NEW S, k + 1 \in S, \A i \in 1 .. k : i + 1 \in S => i \in S
  PROVE  \A i \in 1 .. k + 1 : i \in S
  <1> SUFFICES ASSUME NEW j \in 1 .. k + 1, j \notin S PROVE FALSE
    OBVIOUS
  <1> DEFINE T == {m \in 0 .. k : k + 1 - m \notin S}
  <1>1. k + 1 - j \in T
    <2>1. k + 1 - j \in 0 .. k /\ k + 1 - (k + 1 - j) = j
      OBVIOUS
    <2> QED  BY <2>1
  <1>2. PICK m \in T : \A x \in T : m <= x
    <2>1. T \subseteq Nat
      OBVIOUS
    <2> HIDE DEF T
    <2> QED  BY <1>1, <2>1, Least
  <1>3. m \in 1 .. k /\ k + 1 - m \in 1 .. k /\ k + 1 - m \notin S
    <2>1. m # 0 /\ m \in 0 .. k
      OBVIOUS
    <2> QED  BY <2>1
  <1>4. m - 1 \in 0 .. k /\ ~(m <= m - 1) /\ k + 1 - (m - 1) = k + 1 - m + 1
    BY <1>3
  <1>5. k + 1 - (m - 1) \in S
    <2>1. m - 1 \notin T
      <3> HIDE DEF T
      <3> QED  BY <1>2, <1>4
    <2> QED  BY <1>4, <2>1
  <1> QED  BY <1>3, <1>4, <1>5

-----------------------------------------------------------------------------
(* Readings.                                                               *)

\* n reads the digits d of the places 1 .. k, on top of n[k + 1].
Reads(n, d, k) ==
  /\ \A i \in 1 .. k + 1 : n[i] \in Int
  /\ \A i \in 1 .. k : n[i] = d[i] + Base * n[i + 1]

\* One more digit keeps a number a number, and two numbers in their order.
LEMMA Digits ==
  ASSUME NEW x \in Int, NEW d \in Int
  PROVE  d + Base * x \in Int
  <1>1. Base \in Int
    BY Constants
  <1> QED  BY <1>1

\* A digit does not change the order of two different numbers.
LEMMA Above ==
  ASSUME NEW x \in Int, NEW y \in Int, x < y, NEW d \in AnyByte, NEW e \in AnyByte
  PROVE  d + Base * x < e + Base * y
  <1>1. PICK b \in Nat : b = Base /\ d \in Nat /\ e \in Nat /\ d < b
    BY Constants
  <1>2. PICK z \in Nat : y = x + 1 + z
    <2>1. y - x - 1 \in Nat /\ y = x + 1 + (y - x - 1)
      OBVIOUS
    <2> QED  BY <2>1
  <1>3. b * y = b * x + b + b * z /\ b * z >= 0
    BY <1>2
  <1> QED  BY <1>1, <1>3

\* f reads the digits d of the places 1 .. L in base B, on top of rest.
Table(f, L, d, B, rest) ==
  f = [i \in 1 .. L + 1 |-> IF i > L THEN rest ELSE d[i] + B * f[i + 1]]

\* Such a table, which is filled from its last place down, exists.
LEMMA Tables ==
  ASSUME NEW L \in Nat, NEW d, NEW B, NEW rest
  PROVE  \E f : Table(f, L, d, B, rest)
  <1> DEFINE Pos == 1 .. L + 1
             body(f, i) == IF i > L THEN rest ELSE d[i] + B * f[i + 1]
             Fit(f, k) == f = [i \in Pos |-> f[i]] /\ \A i \in k .. L + 1 : f[i] = body(f, i)
             S == {k \in Pos : \E f : Fit(f, k)}
  <1>1. L + 1 \in S
    <2>1. Fit([i \in Pos |-> rest], L + 1) /\ L + 1 \in Pos
      OBVIOUS
    <2> QED  BY <2>1
  <1>2. ASSUME NEW k \in 1 .. L, k + 1 \in S PROVE k \in S
    <2>1. PICK f : Fit(f, k + 1)
      BY <1>2
    <2> DEFINE g == [i \in Pos |-> IF i = k THEN body(f, k) ELSE f[i]]
    <2>2. ASSUME NEW i \in k .. L + 1 PROVE g[i] = body(g, i)
      <3>1. i \in Pos /\ (i # k => i \in k + 1 .. L + 1) /\ (i <= L => i + 1 \in Pos /\ i + 1 # k)
        OBVIOUS
      <3>2. i <= L => g[i + 1] = f[i + 1]
        BY <3>1
      <3>3. body(f, i) = body(g, i)
        <4> HIDE DEF g
        <4> QED  BY <3>2
      <3>4. g[i] = body(f, i)
        BY <2>1, <3>1
      <3> HIDE DEF g, body
      <3> QED  BY <3>3, <3>4
    <2>3. g = [i \in Pos |-> g[i]]
      OBVIOUS
    <2>4. Fit(g, k)
      <3> HIDE DEF g, body
      <3> QED  BY <2>2, <2>3
    <2>5. k \in Pos
      OBVIOUS
    <2> HIDE DEF Fit, Pos
    <2> QED  BY <2>4, <2>5, Zenon
  <1>3. 1 \in S
    <2>1. 1 \in 1 .. L + 1
      OBVIOUS
    <2> HIDE DEF S
    <2>2. \A i \in 1 .. L + 1 : i \in S
      BY <1>1, <1>2, Downward, Zenon
    <2> QED  BY <2>1, <2>2
  <1>4. PICK f : Fit(f, 1)
    BY <1>3
  <1>5. f = [i \in Pos |-> body(f, i)]
    <2>1. f = [i \in Pos |-> f[i]] /\ \A i \in Pos : f[i] = body(f, i)
      BY <1>4
    <2> HIDE DEF body, Pos
    <2> QED  BY <2>1
  <1> QED  BY <1>5, Zenon DEF Table

\* There is a reading of every sequence of bytes, on top of whatever follows it.
LEMMA ReadingExists ==
  ASSUME NEW v \in Seq(AnyByte), NEW rest \in Int
  PROVE  \E n : Reads(n, v, Len(v)) /\ n[Len(v) + 1] = rest /\ Reading(v, rest) = n[1]
  <1> DEFINE L == Len(v)
             Pos == 1 .. L + 1
             body(f, i) == IF i > L THEN rest ELSE v[i] + Base * f[i + 1]
  <1>0. L \in Nat /\ (\A i \in 1 .. L : v[i] \in Nat) /\ Base \in Nat
    <2>1. L \in Nat /\ \A i \in 1 .. L : v[i] \in AnyByte
      OBVIOUS
    <2> QED  BY <2>1, Constants, Zenon
  <1> HIDE DEF L
  <1> DEFINE n == CHOOSE f : f = [i \in Pos |-> body(f, i)]
  <1>4. n = [i \in Pos |-> body(n, i)]
    <2>1. PICK f : Table(f, L, v, Base, rest)
      BY <1>0, Tables, Zenon
    <2>2. f = [i \in Pos |-> body(f, i)]
      BY <2>1 DEF Table
    <2> HIDE DEF body, Pos
    <2> QED  BY <2>2
  <1>5. Reading(v, rest) = n[1]
    BY DEF Reading, L
  <1> HIDE DEF n
  <1>6. n[L + 1] = rest /\ \A i \in 1 .. L : n[i] = v[i] + Base * n[i + 1]
    BY <1>0, <1>4
  <1>7. \A i \in Pos : n[i] \in Int
    <2> DEFINE R == {i \in Pos : n[i] \in Int}
    <2>1. L + 1 \in R
      BY <1>0, <1>6
    <2>2. ASSUME NEW i \in 1 .. L, i + 1 \in R PROVE i \in R
      <3>1. n[i + 1] \in Int /\ v[i] \in Int /\ n[i] = v[i] + Base * n[i + 1] /\ i \in Pos
        BY <1>0, <1>6, <2>2
      <3>2. n[i] \in Int
        BY <1>0, <3>1, Digits
      <3> QED  BY <3>1, <3>2
    <2>3. \A i \in Pos : i \in R
      <3> HIDE DEF R
      <3> QED  BY <1>0, <2>1, <2>2, Downward
    <2> QED  BY <2>3
  <1>8. Reads(n, v, L)
    BY <1>6, <1>7 DEF Reads
  <1> QED  BY <1>5, <1>6, <1>8, Zenon DEF L

-----------------------------------------------------------------------------
(* Two readings against two others.                                        *)

Alike(x, y, x1, y1) == (x < y <=> x1 < y1) /\ (x = y <=> x1 = y1)

\* The order of two numbers, from the other side.
LEMMA AlikeBack ==
  ASSUME NEW x \in Int, NEW y \in Int, NEW x1 \in Int, NEW y1 \in Int, Alike(y, x, y1, x1)
  PROVE  Alike(x, y, x1, y1)
  BY DEF Alike

\* Two pairs of numbers in the same order are still so with a digit more each ...
LEMMA DigitsAlike ==
  ASSUME NEW x \in Int, NEW y \in Int, NEW x1 \in Int, NEW y1 \in Int,
         NEW d \in AnyByte, NEW e \in AnyByte, Alike(x, y, x1, y1)
  PROVE  Alike(d + Base * x, e + Base * y, d + Base * x1, e + Base * y1)
  <1>1. PICK p \in Int, q \in Int, p1 \in Int, q1 \in Int :
          /\ p = d + Base * x /\ q = e + Base * y
          /\ p1 = d + Base * x1 /\ q1 = e + Base * y1
    BY Digits, Constants
  <1>2. CASE x < y
    BY <1>1, <1>2, Above DEF Alike
  <1>3. CASE x = y
    <2>1. x1 = y1
      BY <1>3 DEF Alike
    <2>2. PICK t \in Int, t1 \in Int : t = Base * x /\ t1 = Base * x1
      BY Constants
    <2>3. d \in Int /\ e \in Int
      BY Constants
    <2> QED  BY <1>3, <2>1, <2>2, <2>3 DEF Alike
  <1>4. CASE y < x
    <2>1. y1 < x1
      BY <1>4 DEF Alike
    <2> QED  BY <1>1, <1>4, <2>1, Above DEF Alike
  <1> QED  BY <1>2, <1>3, <1>4

\* ... and with any number of digits.
LEMMA ReadsAlike ==
  ASSUME NEW k \in Nat, NEW a, NEW b, \A i \in 1 .. k : a[i] \in AnyByte /\ b[i] \in AnyByte,
         NEW n, NEW m, NEW n1, NEW m1,
         Reads(n, a, k), Reads(m, b, k), Reads(n1, a, k), Reads(m1, b, k),
         Alike(n[k + 1], m[k + 1], n1[k + 1], m1[k + 1])
  PROVE  Alike(n[1], m[1], n1[1], m1[1])
  <1> DEFINE S == {i \in 1 .. k + 1 : Alike(n[i], m[i], n1[i], m1[i])}
  <1>1. k + 1 \in S
    OBVIOUS
  <1>2. ASSUME NEW i \in 1 .. k, i + 1 \in S PROVE i \in S
    <2>1. i \in 1 .. k + 1 /\ i + 1 \in 1 .. k + 1
      OBVIOUS
    <2>2. PICK x \in Int, y \in Int, x1 \in Int, y1 \in Int :
            /\ x = n[i + 1] /\ y = m[i + 1] /\ x1 = n1[i + 1] /\ y1 = m1[i + 1]
      BY <2>1 DEF Reads
    <2>3. PICK d \in AnyByte, e \in AnyByte : d = a[i] /\ e = b[i]
      OBVIOUS
    <2>4. /\ n[i] = d + Base * x /\ m[i] = e + Base * y
          /\ n1[i] = d + Base * x1 /\ m1[i] = e + Base * y1
      BY <2>2, <2>3 DEF Reads
    <2>5. Alike(x, y, x1, y1)
      BY <1>2, <2>2
    <2>6. Alike(d + Base * x, e + Base * y, d + Base * x1, e + Base * y1)
      BY <2>5, DigitsAlike
    <2> QED  BY <2>1, <2>4, <2>6, Zenon
  <1>3. 1 \in S
    <2>1. 1 \in 1 .. k + 1
      OBVIOUS
    <2> HIDE DEF S
    <2> QED  BY <1>1, <1>2, <2>1, Downward
  <1> QED  BY <1>3

\* A reading only depends on its digits, and is one of the places below as well.
LEMMA ReadsBelow ==
  ASSUME NEW l \in Nat, NEW k \in 0 .. l, NEW n, NEW d, NEW e, Reads(n, d, l),
         \A i \in 1 .. k : d[i] = e[i]
  PROVE  Reads(n, e, k)
  <1>1. \A i \in 1 .. k : i \in 1 .. l
    OBVIOUS
  <1>2. \A i \in 1 .. k + 1 : i \in 1 .. l + 1
    OBVIOUS
  <1> QED  BY <1>1, <1>2 DEF Reads

\* A filling stands for itself: 0 for any number of bytes 0, -1 for bytes Base - 1.
LEMMA Filled ==
  ASSUME NEW l \in Nat, NEW k \in 0 .. l, NEW n, NEW d, Reads(n, d, l),
         NEW f \in Int, NEW r \in Int, f + Base * r = r,
         \A i \in k + 1 .. l : d[i] = f, n[l + 1] = r
  PROVE  n[k + 1] = r
  <1> DEFINE S == {i \in 1 .. l + 1 : i <= k \/ n[i] = r}
  <1>1. l + 1 \in S
    OBVIOUS
  <1>2. ASSUME NEW i \in 1 .. l, i + 1 \in S PROVE i \in S
    <2>1. CASE i <= k
      BY <2>1
    <2>2. CASE ~(i <= k)
      <3>1. n[i + 1] = r /\ d[i] = f
        BY <1>2, <2>2
      <3>2. n[i] = f + Base * r
        BY <3>1 DEF Reads
      <3>3. n[i] = r
        BY <3>2
      <3> QED  BY <3>3
    <2> QED  BY <2>1, <2>2
  <1>3. k + 1 \in S
    <2>1. k + 1 \in 1 .. l + 1
      OBVIOUS
    <2> HIDE DEF S
    <2> QED  BY <1>1, <1>2, <2>1, Downward
  <1> QED  BY <1>3

\* n and m read the same digits from place j on.
Together(n, d, m, e, j, l) ==
  /\ l \in Nat /\ j \in 1 .. l + 1 /\ Reads(n, d, l) /\ Reads(m, e, l)
  /\ n[l + 1] = m[l + 1] /\ \A i \in j .. l : d[i] = e[i]

\* Readings are the same as far down as their digits are.
LEMMA SameTails ==
  ASSUME NEW n, NEW d, NEW m, NEW e, NEW j, NEW l, Together(n, d, m, e, j, l)
  PROVE  n[j] = m[j]
  <1> USE DEF Together
  <1> DEFINE S == {i \in 1 .. l + 1 : i < j \/ n[i] = m[i]}
  <1>1. l + 1 \in S
    OBVIOUS
  <1>2. ASSUME NEW i \in 1 .. l, i + 1 \in S PROVE i \in S
    <2>1. CASE i < j
      BY <2>1
    <2>2. CASE ~(i < j)
      <3>1. n[i + 1] = m[i + 1] /\ d[i] = e[i]
        BY <1>2, <2>2
      <3>2. n[i] = m[i]
        BY <3>1, Zenon DEF Reads
      <3> QED  BY <3>2
    <2> QED  BY <2>1, <2>2
  <1>3. j \in S
    <2> HIDE DEF S
    <2> QED  BY <1>1, <1>2, Downward
  <1> QED  BY <1>3

\* Bytes 0 beyond the last one change nothing.
LEMMA Padded ==
  ASSUME NEW v \in Seq(AnyByte), NEW l \in Nat, Len(v) <= l
  PROVE  \E n, d : /\ \A i \in 1 .. l : d[i] = Digit(v, i)
                   /\ Reads(n, d, l) /\ n[l + 1] = 0 /\ Reading(v, 0) = n[1]
  <1>1. PICK n : Reads(n, v, Len(v)) /\ n[Len(v) + 1] = 0 /\ Reading(v, 0) = n[1]
    BY ReadingExists
  <1>2. PICK k \in Nat : k = Len(v) /\ DOMAIN v = 1 .. k /\ k <= l
    OBVIOUS
  <1>3. Base * 0 = 0
    BY Constants
  <1> DEFINE m == [i \in 1 .. l + 1 |-> IF i <= k THEN n[i] ELSE 0]
             d == [i \in 1 .. l |-> Digit(v, i)]
  <1>4. \A i \in 1 .. l + 1 : m[i] \in Int
    BY <1>1, <1>2 DEF Reads
  <1>5. ASSUME NEW i \in 1 .. l PROVE m[i] = d[i] + Base * m[i + 1]
    <2>1. CASE i <= k
      <3>1. m[i] = n[i] /\ d[i] = v[i] /\ i \in 1 .. k
        BY <1>2, <2>1 DEF Digit
      <3>2. m[i + 1] = n[i + 1]
        BY <1>1, <1>2, <2>1
      <3>3. n[i] = v[i] + Base * n[i + 1]
        BY <1>1, <1>2, <3>1 DEF Reads
      <3> QED  BY <3>1, <3>2, <3>3
    <2>2. CASE ~(i <= k)
      <3>1. m[i] = 0 /\ m[i + 1] = 0 /\ d[i] = 0
        BY <1>2, <2>2 DEF Digit
      <3> QED  BY <1>3, <3>1
    <2> QED  BY <2>1, <2>2
  <1>6. m[l + 1] = 0 /\ m[1] = n[1]
    BY <1>1, <1>2
  <1>7. \A i \in 1 .. l : d[i] = Digit(v, i)
    OBVIOUS
  <1> HIDE DEF m, d
  <1>8. Reads(m, d, l)
    BY <1>4, <1>5 DEF Reads
  <1> QED  BY <1>1, <1>6, <1>7, <1>8

-----------------------------------------------------------------------------
(* Trimming.                                                               *)

Pair == Seq(AnyByte) \X Seq(AnyByte)

\* What kept returns: beyond it all is trimmable, and what is last is not.
LEMMA Kept ==
  ASSUME NEW v \in Pair
  PROVE  /\ MaxLen(v) \in Nat /\ kept(v) \in 0 .. MaxLen(v)
         /\ \A i \in kept(v) + 1 .. MaxLen(v) : \A o \in 1 .. 2 : Trimmable(Digit(v[o], i))
         /\ kept(v) > 0 => \E o \in 1 .. 2 : ~Trimmable(Digit(v[o], kept(v)))
  <1> DEFINE L == MaxLen(v)
             Trim(i) == \A o \in 1 .. 2 : Trimmable(Digit(v[o], i))
             T == {k \in 0 .. L : \A i \in k + 1 .. L : Trim(i)}
  <1>1. L \in Nat
    BY DEF MaxLen, Pair
  <1> HIDE DEF L, Trim
  <1>2. PICK k \in T : \A m \in T : k <= m
    <2>1. T \subseteq Nat /\ L \in T
      BY <1>1
    <2> HIDE DEF T
    <2> QED  BY <2>1, Least
  <1>3. k \in 0 .. L /\ \A i \in k + 1 .. L : Trim(i)
    OBVIOUS
  <1>4. ASSUME k > 0 PROVE ~Trim(k)
    <2>1. k - 1 \in 0 .. L /\ ~(k <= k - 1) /\ \A i \in k - 1 + 1 .. L : i = k \/ i \in k + 1 .. L
      BY <1>1, <1>3, <1>4
    <2>2. k - 1 \notin T
      <3> HIDE DEF T
      <3> QED  BY <1>2, <2>1
    <2> QED  BY <1>3, <2>1, <2>2
  <1>5. \E j \in 0 .. L : /\ \A i \in j + 1 .. L : Trim(i)
                          /\ j > 0 => ~Trim(j)
    BY <1>3, <1>4
  <1>6. kept(v) = CHOOSE j \in 0 .. L : /\ \A i \in j + 1 .. L : Trim(i)
                                        /\ j > 0 => \E o \in 1 .. 2 : ~Trimmable(Digit(v[o], j))
    BY DEF kept, L, Trim
  <1>7. /\ kept(v) \in 0 .. L
        /\ \A i \in kept(v) + 1 .. L : Trim(i)
        /\ kept(v) > 0 => \E o \in 1 .. 2 : ~Trimmable(Digit(v[o], kept(v)))
    <2>1. \A j \in 0 .. L : ~Trim(j) => \E o \in 1 .. 2 : ~Trimmable(Digit(v[o], j))
      BY DEF Trim
    <2> QED  BY <1>5, <1>6, <2>1
  <1> QED  BY <1>1, <1>7 DEF L, Trim

\* What parseSonarData makes of integers: both operands are cut to one length.
LEMMA Trimmed ==
  ASSUME NEW c \in Comparisons, ~c.string
  PROVE  \E k \in Nat : \A o \in 1 .. 2 :
           /\ trim(c.raw)[o] \in Seq(AnyByte) /\ Len(trim(c.raw)[o]) = k
           /\ k <= Len(c.raw[o]) /\ Len(c.raw[o]) <= Wide /\ c.raw[o] \in Seq(AnyByte)
           /\ \A i \in 1 .. k : trim(c.raw)[o][i] = c.raw[o][i]
  <1> DEFINE v == c.raw
             k == kept(v)
  <1>0. c.raw \in Pair
    BY DEF Comparisons, Pair
  <1>1. /\ v[1] \in Seq(AnyByte) /\ v[2] \in Seq(AnyByte)
        /\ Len(v[1]) \in Nat /\ Len(v[2]) \in Nat
    BY <1>0 DEF Pair
  <1>2. ASSUME NEW o \in 1 .. 2
        PROVE  /\ v[o] \in Seq(AnyByte) /\ Len(v[o]) \in Nat /\ Len(v[o]) <= MaxLen(v) /\ Len(v[o]) <= Wide
               /\ \A i \in Len(v[3 - o]) + 1 .. Len(v[o]) : Trimmable(v[o][i])
    <2>1. o = 1 \/ o = 2
      OBVIOUS
    <2>2. Len(v[o]) <= MaxLen(v)
      BY <1>1, <2>1 DEF MaxLen
    <2> QED  BY <1>1, <2>1, <2>2 DEF Comparisons
  <1>3. MaxLen(v) = Len(v[1]) \/ MaxLen(v) = Len(v[2])
    BY DEF MaxLen
  <1>4. k \in Nat /\ k <= MaxLen(v) /\ MaxLen(v) \in Nat
        /\ (k > 0 => \E o \in 1 .. 2 : ~Trimmable(Digit(v[o], k)))
    BY <1>0, Kept
  <1> HIDE DEF v, k
  <1>5. ASSUME NEW o \in 1 .. 2 PROVE k <= Len(v[o])
    <2> SUFFICES ASSUME Len(v[o]) < k PROVE FALSE
      BY <1>2, <1>4
    <2>1. PICK u \in 1 .. 2 : ~Trimmable(Digit(v[u], k))
      BY <1>2, <1>4
    <2>2. k \in DOMAIN v[u] /\ ~Trimmable(v[u][k])
      BY <2>1, Constants DEF Digit, Trimmable
    <2>3. u # o /\ u = 3 - o /\ o = 3 - u
      BY <1>2, <2>2
    <2>4. k \in Len(v[3 - u]) + 1 .. Len(v[u])
      BY <1>2, <1>4, <2>2, <2>3
    <2> QED  BY <1>2, <2>2, <2>4
  <1>6. ASSUME NEW o \in 1 .. 2
        PROVE  /\ trim(v)[o] \in Seq(AnyByte) /\ Len(trim(v)[o]) = k
               /\ \A i \in 1 .. k : trim(v)[o][i] = v[o][i]
    <2>1. trim(v)[o] = SubSeq(v[o], 1, k)
      <3>1. Prefix(v[o], k) = SubSeq(v[o], 1, k)
        BY <1>2, <1>4, <1>5 DEF Prefix
      <3>2. trim(v)[o] = Prefix(v[o], k)
        BY DEF trim, k
      <3> QED  BY <3>1, <3>2
    <2>2. k \in 0 .. Len(v[o]) /\ v[o] \in Seq(AnyByte) /\ Len(v[o]) \in Nat
      BY <1>2, <1>4, <1>5
    <2> HIDE DEF trim
    <2> QED  BY <2>1, <2>2
  <1> QED  BY <1>2, <1>4, <1>5, <1>6 DEF v

-----------------------------------------------------------------------------
(* Evaluation.                                                             *)

\* What sign extension appends, and what all of it amounts to.
Filling(t) == IF Negative(t) THEN Base - 1 ELSE 0
Sign(t) == IF Negative(t) THEN -1 ELSE 0

\* The sign: its byte, the number it stands for, and that this is a filling.
LEMMA Halves ==
  /\ Base \div 2 \in Nat /\ Base \div 2 > 0 /\ Base \div 2 <= Base - 1
  /\ \A t : Filling(t) \in AnyByte /\ Sign(t) \in Int /\ Filling(t) + Base * Sign(t) = Sign(t)
  <1>1. PICK b \in Nat : b = Base /\ b > 2
    BY Constants
  <1>2. b \div 2 \in Nat /\ b \div 2 > 0 /\ b \div 2 <= b - 1
    BY <1>1
  <1>3. ASSUME NEW t
        PROVE  Filling(t) \in AnyByte /\ Sign(t) \in Int /\ Filling(t) + Base * Sign(t) = Sign(t)
    <2>1. b * 0 = 0 /\ b * (-1) = -b /\ b - 1 + (-b) = -1
      BY <1>1
    <2>2. CASE Negative(t)
      BY <1>1, <2>1, <2>2, Constants DEF Filling, Sign
    <2>3. CASE ~Negative(t)
      BY <1>1, <2>1, <2>3, Constants DEF Filling, Sign
    <2> QED  BY <2>2, <2>3
  <1> QED  BY <1>1, <1>2, <1>3

\* A value with its sign, of an operand w that is t filled up.
LEMMA FilledValue ==
  ASSUME NEW t \in Seq(AnyByte), NEW w \in Seq(AnyByte), NEW k \in Nat, k > 0, Len(t) = k, k <= Len(w),
         \A i \in 1 .. k : w[i] = t[i], \A i \in k + 1 .. Len(w) : w[i] = Filling(t),
         NEW signed \in BOOLEAN, signed \/ ~Negative(t)
  PROVE  \E n : Reads(n, t, k) /\ n[k + 1] = Sign(t) /\ Value(w, signed) = n[1]
  <1>1. PICK l \in Nat : l = Len(w) /\ DOMAIN w = 1 .. l /\ k <= l
    OBVIOUS
  <1>2. Negative(w) <=> Negative(t)
    <2>1. w # <<>> /\ t # <<>> /\ l \in 1 .. l
      BY <1>1
    <2>3. CASE l = k
      <3>1. w[Len(w)] = t[Len(t)]
        BY <1>1, <2>3
      <3> QED  BY <2>1, <3>1 DEF Negative
    <2>4. CASE l # k
      <3>1. w[Len(w)] = Filling(t)
        BY <1>1, <2>4
      <3>2. Filling(t) >= Base \div 2 <=> Negative(t)
        <4>1. ~(0 >= Base \div 2) /\ Base - 1 >= Base \div 2
          BY Halves
        <4> QED  BY <4>1, Zenon DEF Filling
      <3> QED  BY <2>1, <3>1, <3>2 DEF Negative
    <2> QED  BY <2>3, <2>4
  <1>3. Value(w, signed) = Reading(w, Sign(t))
    BY <1>2 DEF Value, Sign
  <1>4. PICK n : Reads(n, w, l) /\ n[l + 1] = Sign(t) /\ Reading(w, Sign(t)) = n[1]
    <2>1. Sign(t) \in Int
      BY Halves
    <2>2. \E n : Reads(n, w, Len(w)) /\ n[Len(w) + 1] = Sign(t) /\ Reading(w, Sign(t)) = n[1]
      BY <2>1, ReadingExists, Zenon
    <2> QED  BY <1>1, <2>2
  <1>5. n[k + 1] = Sign(t)
    <2>1. k \in 0 .. l
      BY <1>1
    <2>2. PICK f \in Int, r \in Int : f = Filling(t) /\ r = Sign(t) /\ f + Base * r = r
      <3>1. \A b \in AnyByte : b \in Int
        BY Constants
      <3> QED  BY <3>1, Halves, Zenon
    <2>3. \A i \in k + 1 .. l : w[i] = f
      BY <1>1, <2>2
    <2> QED  BY <1>4, <2>1, <2>2, <2>3, Filled
  <1>6. Reads(n, t, k)
    <2>1. k \in 0 .. l
      BY <1>1
    <2> QED  BY <1>4, <2>1, ReadsBelow
  <1> QED  BY <1>3, <1>4, <1>5, <1>6

\* What sign extension returns.
LEMMA SignExtended ==
  ASSUME NEW t \in Seq(AnyByte), NEW k \in Nat, k > 0, Len(t) = k, k <= Wide
  PROVE  /\ signExtend(t) \in Seq(AnyByte) /\ Len(signExtend(t)) = Wide
         /\ \A i \in 1 .. k : signExtend(t)[i] = t[i]
         /\ \A i \in k + 1 .. Wide : signExtend(t)[i] = Filling(t)
  <1>1. DOMAIN t = 1 .. k /\ \A i \in 1 .. k : t[i] \in AnyByte
    OBVIOUS
  <1>2. \A i \in 1 .. Wide : signExtend(t)[i] = IF i <= k THEN t[i] ELSE Filling(t)
    BY <1>1 DEF signExtend, Filling
  <1>3. \A i \in 1 .. Wide : signExtend(t)[i] \in AnyByte
    <2>1. Filling(t) \in AnyByte
      BY Halves
    <2>2. \A i \in 1 .. Wide : i <= k => i \in 1 .. k
      BY Constants
    <2> QED  BY <1>1, <1>2, <2>1, <2>2, Zenon
  <1>4. signExtend(t) = [i \in 1 .. Wide |-> signExtend(t)[i]]
    BY DEF signExtend
  <1>5. Wide \in Nat
    BY Constants
  <1>6. signExtend(t) \in [1 .. Wide -> AnyByte]
    BY <1>3, <1>4
  <1>7. signExtend(t) \in Seq(AnyByte) /\ Len(signExtend(t)) = Wide
    BY <1>5, <1>6
  <1>8. \A i \in 1 .. Wide : (i \in 1 .. k => i <= k) /\ (i \in k + 1 .. Wide => ~(i <= k))
    BY <1>5
  <1>9. 1 .. k \subseteq 1 .. Wide /\ k + 1 .. Wide \subseteq 1 .. Wide
    BY <1>5
  <1> QED  BY <1>2, <1>7, <1>8, <1>9

\* t holds the k low bytes of w; its sign is the rest of w.
Cut(t, w, k) == /\ t \in Seq(AnyByte) /\ w \in Seq(AnyByte) /\ k \in 1 .. Wide
                /\ Len(t) = k /\ k <= Len(w) /\ \A i \in 1 .. k : t[i] = w[i]
SignCut(t, w, k, signed) == /\ signed \in BOOLEAN /\ (signed \/ ~Negative(t))
                            /\ \A i \in k + 1 .. Len(w) : w[i] = Filling(t)

\* Sign extension restores what was dropped, when it was the sign.
LEMMA Restored ==
  ASSUME NEW t, NEW w, NEW k, NEW signed, Cut(t, w, k), SignCut(t, w, k, signed)
  PROVE  Value(signExtend(t), signed) = Value(w, signed)
  <1> SUFFICES
        ASSUME t \in Seq(AnyByte), w \in Seq(AnyByte), k \in Nat, k > 0, Len(t) = k,
               k <= Len(w), k <= Wide,
               \A i \in 1 .. k : w[i] = t[i], \A i \in k + 1 .. Len(w) : w[i] = Filling(t),
               signed \in BOOLEAN, signed \/ ~Negative(t)
        PROVE  Value(signExtend(t), signed) = Value(w, signed)
    <2>1. Wide \in Nat
      BY Constants
    <2>2. /\ t \in Seq(AnyByte) /\ w \in Seq(AnyByte) /\ k \in Nat /\ k > 0 /\ Len(t) = k
          /\ k <= Len(w) /\ k <= Wide /\ \A i \in 1 .. k : w[i] = t[i]
      BY <2>1 DEF Cut
    <2>3. /\ signed \in BOOLEAN /\ (signed \/ ~Negative(t))
          /\ \A i \in k + 1 .. Len(w) : w[i] = Filling(t)
      BY DEF SignCut
    <2> QED  BY <2>2, <2>3
  <1>1. PICK n : Reads(n, t, k) /\ n[k + 1] = Sign(t) /\ Value(w, signed) = n[1]
    BY FilledValue
  <1>2. PICK m : Reads(m, t, k) /\ m[k + 1] = Sign(t) /\ Value(signExtend(t), signed) = m[1]
    <2>1. PICK e \in Seq(AnyByte) : /\ e = signExtend(t) /\ Len(e) = Wide
                                    /\ \A i \in 1 .. k : e[i] = t[i]
                                    /\ \A i \in k + 1 .. Wide : e[i] = Filling(t)
      BY SignExtended
    <2>2. k <= Len(e) /\ \A i \in k + 1 .. Len(e) : e[i] = Filling(t)
      BY <2>1
    <2>3. \E m : Reads(m, t, k) /\ m[k + 1] = Sign(t) /\ Value(e, signed) = m[1]
      <3>1. \A i \in 1 .. k : e[i] = t[i]
        BY <2>1
      <3> QED  BY <2>2, <3>1, FilledValue
    <2> QED  BY <2>1, <2>3
  <1>3. n[1] = m[1]
    <2>1. 1 \in 1 .. k + 1 /\ n[k + 1] = m[k + 1]
      BY <1>1, <1>2
    <2>2. Together(n, t, m, t, 1, k)
      BY <1>1, <1>2, <2>1 DEF Together
    <2> QED  BY <2>2, SameTails
  <1> QED  BY <1>1, <1>2, <1>3

\* A value is an integer.
LEMMA ValueNumber ==
  ASSUME NEW v \in Seq(AnyByte), NEW signed
  PROVE  Value(v, signed) \in Int
  <1>1. PICK rest \in Int : Value(v, signed) = Reading(v, rest)
    BY DEF Value
  <1>2. PICK n : Reads(n, v, Len(v)) /\ n[Len(v) + 1] = rest /\ Reading(v, rest) = n[1]
    BY ReadingExists, Zenon
  <1>3. 1 \in 1 .. Len(v) + 1
    OBVIOUS
  <1> QED  BY <1>1, <1>2, <1>3 DEF Reads

\* A reading on top of a number that is not negative is not negative either.
LEMMA NotNegative ==
  ASSUME NEW k \in Nat, NEW n, NEW d, Reads(n, d, k), \A i \in 1 .. k : d[i] \in AnyByte,
         n[k + 1] >= 0, NEW j \in 1 .. k + 1
  PROVE  n[j] \in Int /\ n[j] >= 0
  <1> DEFINE S == {i \in 1 .. k + 1 : n[i] >= 0}
  <1>1. k + 1 \in S
    OBVIOUS
  <1>2. ASSUME NEW i \in 1 .. k, i + 1 \in S PROVE i \in S
    <2>1. PICK x \in Int, c \in Nat : x = n[i + 1] /\ x >= 0 /\ c = d[i] /\ n[i] = c + Base * x
      BY <1>2, Constants DEF Reads
    <2>2. Base * x >= 0
      BY <2>1, Constants
    <2>3. n[i] >= 0
      BY <2>1, <2>2, Constants
    <2> QED  BY <2>3
  <1>3. j \in S
    <2> HIDE DEF S
    <2> QED  BY <1>1, <1>2, Downward
  <1> QED  BY <1>3 DEF Reads

\* The higher digit wins, unless what is above it says otherwise.
LEMMA TopDigit ==
  ASSUME NEW x \in Int, NEW y \in Int, x <= y, NEW d \in AnyByte, NEW e \in AnyByte, d < e
  PROVE  d + Base * x < e + Base * y
  <1>1. CASE x < y
    BY <1>1, Above
  <1>2. CASE x = y
    <2>1. PICK z \in Int, c \in Nat, f \in Nat : z = Base * x /\ c = d /\ f = e
      BY Constants
    <2> QED  BY <1>2, <2>1
  <1> QED  BY <1>1, <1>2

\* An operator has an answer.
LEMMA Truths == ASSUME NEW op \in Ops, NEW x \in Int, NEW y \in Int PROVE Holds(op, x, y) \in BOOLEAN
  <1>1. CASE op = "=="
    BY <1>1 DEF Holds
  <1>2. CASE op = "!="
    BY <1>2 DEF Holds
  <1>3. CASE op = "<"
    BY <1>3 DEF Holds
  <1>4. CASE op = ">"
    BY <1>4 DEF Holds
  <1>5. CASE op = "<="
    BY <1>5 DEF Holds
  <1>6. CASE op = ">="
    BY <1>6 DEF Holds
  <1> QED  BY <1>1, <1>2, <1>3, <1>4, <1>5, <1>6 DEF Ops

\* Numbers in the same order give the same answers.
LEMMA Outcome ==
  ASSUME NEW x \in Int, NEW y \in Int, NEW x1 \in Int, NEW y1 \in Int, Alike(x, y, x1, y1),
         NEW op \in Ops
  PROVE  Holds(op, x, y) = Holds(op, x1, y1)
  BY DEF Ops, Holds, Alike

\* Two unsigned operands t and u, of which t ends in a sign bit and u does not:
\* n and m read them sign extended, n1 and m1 with one tail.
LEMMA SignsDiffer ==
  ASSUME NEW t \in Seq(AnyByte), NEW u \in Seq(AnyByte), NEW k \in Nat, k > 0, Len(t) = k, Len(u) = k,
         Negative(t), ~Negative(u),
         NEW n, NEW m, NEW n1, NEW m1,
         Reads(n, t, k), Reads(m, u, k), Reads(n1, t, k), Reads(m1, u, k),
         m[k + 1] <= n[k + 1], n1[k + 1] = m1[k + 1]
  PROVE  Alike(m[1], n[1], m1[1], n1[1])
  <1>1. PICK j \in Nat : j + 1 = k
    <2>1. k - 1 \in Nat /\ k - 1 + 1 = k
      OBVIOUS
    <2> QED  BY <2>1
  <1>2. PICK d \in AnyByte, e \in AnyByte : d = u[k] /\ e = t[k] /\ d < e
    <2>1. u[k] \in AnyByte /\ t[k] \in AnyByte /\ u # <<>> /\ t # <<>>
      OBVIOUS
    <2>2. t[k] >= Base \div 2 /\ ~(u[k] >= Base \div 2)
      BY <2>1 DEF Negative
    <2>3. u[k] < t[k]
      <3>1. PICK a \in Nat, b \in Nat, h \in Nat : a = u[k] /\ b = t[k] /\ h = Base \div 2
        BY <2>1, Constants, Halves, Zenon
      <3> QED  BY <2>2, <3>1
    <2> QED  BY <2>1, <2>3
  <1>3. PICK x \in Int, y \in Int, z \in Int :
          /\ x = m[k + 1] /\ y = n[k + 1] /\ x <= y /\ z = n1[k + 1] /\ z = m1[k + 1]
    BY DEF Reads
  <1>4. m[k] = d + Base * x /\ n[k] = e + Base * y /\ m1[k] = d + Base * z /\ n1[k] = e + Base * z
    BY <1>2, <1>3 DEF Reads
  <1>5. m[k] < n[k] /\ m1[k] < n1[k]
    BY <1>2, <1>3, <1>4, TopDigit
  <1>6. m[k] \in Int /\ n[k] \in Int /\ m1[k] \in Int /\ n1[k] \in Int
    BY DEF Reads
  <1>7. Alike(m[j + 1], n[j + 1], m1[j + 1], n1[j + 1])
    BY <1>1, <1>5, <1>6 DEF Alike
  <1>8. Reads(n, t, j) /\ Reads(m, u, j) /\ Reads(n1, t, j) /\ Reads(m1, u, j)
    <2>1. j \in 0 .. k
      BY <1>1
    <2> QED  BY <2>1, ReadsBelow
  <1>9. \A i \in 1 .. j : u[i] \in AnyByte /\ t[i] \in AnyByte
    BY <1>1
  <1> QED  BY <1>7, <1>8, <1>9, ReadsAlike

\* Zeros beyond place k add nothing.
LEMMA ZerosEnd ==
  ASSUME NEW l \in Nat, NEW k \in 0 .. l, NEW n, NEW d, Reads(n, d, l),
         \A i \in k + 1 .. l : d[i] = 0, n[l + 1] = 0
  PROVE  n[k + 1] = 0
  <1>1. 0 + Base * 0 = 0
    BY Constants
  <1> QED  BY <1>1, Filled

\* v and w have the same bytes beyond k.
OneTail(v, w, k, l) == /\ l \in Nat /\ Len(v) <= l /\ Len(w) <= l
                       /\ \A i \in k + 1 .. l : Digit(v, i) = Digit(w, i)

\* The operands t and u, sign extended, compare as v and w.
StillAlike(t, u, v, w) ==
  \E x \in Int, y \in Int, x1 \in Int, y1 \in Int :
    /\ x = Value(signExtend(t), FALSE) /\ y = Value(signExtend(u), FALSE)
    /\ x1 = Value(v, FALSE) /\ y1 = Value(w, FALSE)
    /\ Alike(x, y, x1, y1)

\* Unsigned operands v and w that agree beyond k compare as what remains of them.
LEMMA UnsignedAlike ==
  ASSUME NEW t, NEW u, NEW v, NEW w, NEW k, NEW l, Cut(t, v, k), Cut(u, w, k), OneTail(v, w, k, l)
  PROVE  StillAlike(t, u, v, w)
  <1> SUFFICES
        ASSUME t \in Seq(AnyByte), u \in Seq(AnyByte), k \in Nat, k > 0, k <= Wide,
               Len(t) = k, Len(u) = k,
               v \in Seq(AnyByte), w \in Seq(AnyByte), k <= Len(v), k <= Len(w),
               \A i \in 1 .. k : t[i] = v[i] /\ u[i] = w[i],
               l \in Nat, Len(v) <= l, Len(w) <= l,
               \A i \in k + 1 .. l : Digit(v, i) = Digit(w, i)
        PROVE  StillAlike(t, u, v, w)
    <2>1. Wide \in Nat
      BY Constants
    <2>2. /\ k \in Nat /\ k > 0 /\ k <= Wide /\ Len(t) = k /\ Len(u) = k
          /\ k <= Len(v) /\ k <= Len(w) /\ t \in Seq(AnyByte) /\ u \in Seq(AnyByte)
          /\ v \in Seq(AnyByte) /\ w \in Seq(AnyByte)
          /\ \A i \in 1 .. k : t[i] = v[i] /\ u[i] = w[i]
      BY <2>1 DEF Cut
    <2>3. /\ l \in Nat /\ Len(v) <= l /\ Len(w) <= l
          /\ \A i \in k + 1 .. l : Digit(v, i) = Digit(w, i)
      BY DEF OneTail
    <2> QED  BY <2>2, <2>3, Zenon
  <1>0. /\ Wide \in Nat /\ \A z : Value(z, FALSE) = Reading(z, 0)
        /\ \A i \in 1 .. k : t[i] \in AnyByte /\ u[i] \in AnyByte
    BY Constants DEF Value
  <1>1. PICK e \in Seq(AnyByte) : /\ e = signExtend(t) /\ Len(e) = Wide
                                  /\ \A i \in 1 .. k : e[i] = t[i]
                                  /\ \A i \in k + 1 .. Wide : e[i] = Filling(t)
    BY SignExtended
  <1>2. PICK f \in Seq(AnyByte) : /\ f = signExtend(u) /\ Len(f) = Wide
                                  /\ \A i \in 1 .. k : f[i] = u[i]
                                  /\ \A i \in k + 1 .. Wide : f[i] = Filling(u)
    BY SignExtended
  <1>3. PICK n : Reads(n, e, Wide) /\ n[Wide + 1] = 0 /\ Reading(e, 0) = n[1]
    <2>0. 0 \in Int
      OBVIOUS
    <2>1. \E n : Reads(n, e, Len(e)) /\ n[Len(e) + 1] = 0 /\ Reading(e, 0) = n[1]
      BY <2>0, ReadingExists, Zenon
    <2> QED  BY <1>1, <2>1
  <1>4. PICK m : Reads(m, f, Wide) /\ m[Wide + 1] = 0 /\ Reading(f, 0) = m[1]
    <2>0. 0 \in Int
      OBVIOUS
    <2>1. \E m : Reads(m, f, Len(f)) /\ m[Len(f) + 1] = 0 /\ Reading(f, 0) = m[1]
      BY <2>0, ReadingExists, Zenon
    <2> QED  BY <1>2, <2>1
  <1>5. PICK n1, d : /\ \A i \in 1 .. l : d[i] = Digit(v, i)
                     /\ Reads(n1, d, l) /\ n1[l + 1] = 0 /\ Reading(v, 0) = n1[1]
    BY Padded
  <1>6. PICK m1, b : /\ \A i \in 1 .. l : b[i] = Digit(w, i)
                     /\ Reads(m1, b, l) /\ m1[l + 1] = 0 /\ Reading(w, 0) = m1[1]
    BY Padded
  <1>7. Reads(n, t, k) /\ Reads(m, u, k)
    <2>1. k \in 0 .. Wide
      BY <1>0
    <2> QED  BY <1>1, <1>2, <1>3, <1>4, <1>0, <2>1, ReadsBelow
  <1>8. Reads(n1, t, k) /\ Reads(m1, u, k)
    <2>1. k \in 0 .. l /\ \A i \in 1 .. k : i \in 1 .. l /\ i \in DOMAIN v /\ i \in DOMAIN w
      OBVIOUS
    <2>2. \A i \in 1 .. k : d[i] = t[i] /\ b[i] = u[i]
      BY <1>5, <1>6, <2>1 DEF Digit
    <2> QED  BY <1>5, <1>6, <2>1, <2>2, ReadsBelow
  <1>9. n1[k + 1] = m1[k + 1]
    <2>1. k + 1 \in 1 .. l + 1 /\ \A i \in k + 1 .. l : i \in 1 .. l
      OBVIOUS
    <2>2. \A i \in k + 1 .. l : d[i] = b[i]
      BY <1>5, <1>6, <2>1
    <2>3. Reads(n1, d, l) /\ Reads(m1, b, l) /\ n1[l + 1] = m1[l + 1]
      BY <1>5, <1>6
    <2>4. Together(n1, d, m1, b, k + 1, l)
      BY <2>1, <2>2, <2>3 DEF Together
    <2> QED  BY <2>4, SameTails
  <1>10. /\ n[1] \in Int /\ m[1] \in Int /\ n1[1] \in Int /\ m1[1] \in Int
         /\ n[k + 1] \in Int /\ m[k + 1] \in Int /\ n1[k + 1] \in Int /\ m1[k + 1] \in Int
    <2>1. 1 \in 1 .. k + 1 /\ k + 1 \in 1 .. k + 1
      OBVIOUS
    <2> QED  BY <1>7, <1>8, <2>1 DEF Reads
  <1>12. /\ k + 1 \in 1 .. Wide + 1
         /\ \A i \in k + 1 .. Wide : i \in 1 .. Wide
         /\ n[k + 1] >= 0 /\ m[k + 1] >= 0
    <2>1. k + 1 \in 1 .. Wide + 1 /\ \A i \in k + 1 .. Wide : i \in 1 .. Wide
      BY <1>0
    <2>2. \A i \in 1 .. Wide : e[i] \in AnyByte /\ f[i] \in AnyByte
      BY <1>1, <1>2
    <2>3. n[Wide + 1] >= 0 /\ m[Wide + 1] >= 0
      BY <1>3, <1>4
    <2>4. n[k + 1] >= 0
      BY <1>0, <1>3, <2>1, <2>2, <2>3, NotNegative
    <2>5. m[k + 1] >= 0
      BY <1>0, <1>4, <2>1, <2>2, <2>3, NotNegative
    <2> QED  BY <2>1, <2>4, <2>5
  <1>14. ASSUME NEW s, ~Negative(s) PROVE Filling(s) = 0
    BY <1>14 DEF Filling
  <1>15. Alike(n[1], m[1], n1[1], m1[1])
    <2>1. CASE Negative(t) <=> Negative(u)
      <3>1. \A i \in k + 1 .. Wide : e[i] = f[i]
        BY <1>1, <1>2, <2>1 DEF Filling
      <3>2. n[k + 1] = m[k + 1]
        <4>1. Reads(n, e, Wide) /\ Reads(m, f, Wide) /\ n[Wide + 1] = m[Wide + 1]
          BY <1>3, <1>4
        <4>2. Together(n, e, m, f, k + 1, Wide)
          BY <1>0, <1>12, <3>1, <4>1 DEF Together
        <4> QED  BY <4>2, SameTails
      <3>3. Alike(n[k + 1], m[k + 1], n1[k + 1], m1[k + 1])
        BY <1>9, <1>10, <3>2 DEF Alike
      <3> QED  BY <1>0, <1>7, <1>8, <3>3, ReadsAlike
    <2>2. CASE Negative(t) /\ ~Negative(u)
      <3>1. m[k + 1] = 0
        <4>1. \A i \in k + 1 .. Wide : f[i] = 0
          BY <1>2, <1>14, <2>2
        <4>2. k \in 0 .. Wide
          BY <1>0
        <4> QED  BY <1>0, <1>4, <4>1, <4>2, ZerosEnd, Zenon
      <3>2. m[k + 1] <= n[k + 1]
        BY <1>10, <1>12, <3>1
      <3>3. Alike(m[1], n[1], m1[1], n1[1])
        BY <1>7, <1>8, <1>9, <2>2, <3>2, SignsDiffer
      <3> QED  BY <1>10, <3>3, AlikeBack, Zenon
    <2>3. CASE ~Negative(t) /\ Negative(u)
      <3>1. n[k + 1] = 0
        <4>1. \A i \in k + 1 .. Wide : e[i] = 0
          BY <1>1, <1>14, <2>3
        <4>2. k \in 0 .. Wide
          BY <1>0
        <4> QED  BY <1>0, <1>3, <4>1, <4>2, ZerosEnd, Zenon
      <3>2. n[k + 1] <= m[k + 1]
        BY <1>10, <1>12, <3>1
      <3> QED  BY <1>7, <1>8, <1>9, <2>3, <3>2, SignsDiffer
    <2> QED  BY <2>1, <2>2, <2>3
  <1>16. /\ n[1] = Value(signExtend(t), FALSE) /\ m[1] = Value(signExtend(u), FALSE)
         /\ n1[1] = Value(v, FALSE) /\ m1[1] = Value(w, FALSE)
    BY <1>0, <1>1, <1>2, <1>3, <1>4, <1>5, <1>6, Zenon
  <1> QED  BY <1>10, <1>15, <1>16, Zenon DEF StillAlike

-----------------------------------------------------------------------------
(* The steps: a sample is parsed once, and what is tried for it or was     *)
(* tried before is tested.                                                 *)

\* A replacement that check tries unless its key is taken.
Usable(r) == /\ r \in relatives(compared, operands)
             /\ r[1] # <<>> /\ r[1] # r[2] /\ At(log.input, r[1]) # {}

\* A replacement with the key of r has been tried.
Taken(r) == \E c \in checked : Key(c.old, c.new) = Key(r[1], r[2])

\* What was made of a replacement that was tried is tested.
Made(c) == check(log.input, c.old, c.new, c.string) \subseteq hinted

SamplesRight ==
  /\ log \in Logs /\ current \in 1 .. Len(log.samples)
  /\ Parsed => operands = IF compared.string THEN compared.raw ELSE trim(compared.raw)
  /\ Tried => \A r \in relatives(compared, operands) : Usable(r) => Taken(r)
  /\ \A c \in checked : Made(c)

\* A sample is a comparison of the program, and its input is made of bytes.
LEMMA ComparedRight == SamplesRight => compared \in Comparisons /\ log.input \in Seq(AnyByte)
  <1> SUFFICES ASSUME log \in Logs, current \in 1 .. Len(log.samples)
               PROVE  compared \in Comparisons /\ log.input \in Seq(AnyByte)
    BY DEF SamplesRight
  <1>1. log.samples \in Seq(Comparisons) /\ log.input \in Seq(AnyByte)
    BY SonarAssumption
  <1> QED  BY <1>1 DEF compared

\* To try the replacements picked takes the keys of all that are usable, and tests
\* what it makes of them.
LEMMA TriesRight == SamplesRight /\ processSonarSample => SamplesRight'
  <1> SUFFICES ASSUME SamplesRight, processSonarSample PROVE SamplesRight'
    OBVIOUS
  <1> DEFINE Entry(r) == [old |-> r[1], new |-> r[2], string |-> compared.string]
  <1>1. PICK T \in Picks :
          /\ checked' = checked \cup {Entry(r) : r \in T}
          /\ hinted' = hinted \cup
                         UNION {check(log.input, r[1], r[2], compared.string) : r \in T}
    BY Zenon DEF processSonarSample
  <1>2. /\ log' = log /\ current' = current /\ operands' = operands
        /\ Parsed /\ Parsed' /\ Tried' /\ compared' = compared
    BY DEF processSonarSample, Parsed, Tried, compared
  <1>3. ASSUME NEW r \in relatives(compared, operands), Usable(r) PROVE Taken(r)'
    <2>1. CASE Taken(r)
      BY <1>1, <2>1, Zenon DEF Taken
    <2>2. CASE ~Taken(r)
      <3>1. r \in Fresh
        BY <1>3, <2>2, Zenon DEF Fresh, Usable, Taken
      <3>2. PICK t \in T : Key(r[1], r[2]) = Key(t[1], t[2])
        BY <3>1, Zenon DEF Picks
      <3>3. Entry(t) \in checked' /\ Entry(t).old = t[1] /\ Entry(t).new = t[2]
        BY <1>1
      <3> HIDE DEF Entry
      <3> QED  BY <3>2, <3>3, Zenon DEF Taken
    <2> QED  BY <2>1, <2>2, Zenon
  <1>4. ASSUME NEW c \in checked' PROVE Made(c)'
    <2>1. CASE c \in checked
      <3>1. Made(c)
        BY <2>1, Zenon DEF SamplesRight
      <3> QED  BY <1>1, <1>2, <3>1, Zenon DEF Made
    <2>2. CASE c \notin checked
      <3>1. PICK r \in T : c = Entry(r)
        BY <1>1, <1>4, <2>2, Zenon
      <3>2. c.old = r[1] /\ c.new = r[2] /\ c.string = compared.string
        BY <3>1
      <3>3. check(log.input, r[1], r[2], compared.string) \subseteq hinted'
        BY <1>1, Zenon
      <3> QED  BY <1>2, <3>2, <3>3, Zenon DEF Made
    <2> QED  BY <2>1, <2>2, Zenon
  <1>5. /\ log' \in Logs /\ current' \in 1 .. Len(log'.samples)
        /\ operands' = IF compared'.string THEN compared'.raw ELSE trim(compared'.raw)
    BY <1>2, Zenon DEF SamplesRight
  <1>6. \A r \in relatives(compared, operands)' : Usable(r)' => Taken(r)'
    <2>1. relatives(compared, operands)' = relatives(compared, operands)
      BY <1>2, Zenon DEF relatives
    <2>2. \A r : Usable(r)' <=> Usable(r)
      BY <1>2, <2>1, Zenon DEF Usable
    <2> QED  BY <1>3, <2>1, <2>2, Zenon
  <1> QED  BY <1>4, <1>5, <1>6, Zenon DEF SamplesRight

\* Every step keeps the samples right.
LEMMA SamplesStep == SamplesRight /\ [SonarNext]_sonarVars => SamplesRight'
  <1> SUFFICES ASSUME SamplesRight, [SonarNext]_sonarVars PROVE SamplesRight'
    OBVIOUS
  <1>0. ASSUME log' = log, checked' = checked, hinted' = hinted
        PROVE  \A c \in checked' : Made(c)'
    BY <1>0, Zenon DEF SamplesRight, Made
  <1>1. CASE parseSonarSample
    <2>1. /\ log' = log /\ current' = current /\ checked' = checked /\ hinted' = hinted
          /\ operands' = IF compared.string THEN compared.raw ELSE trim(compared.raw)
          /\ ~Tried' /\ compared' = compared
      BY <1>1 DEF parseSonarSample, Tried, compared
    <2> QED  BY <1>0, <2>1, Zenon DEF SamplesRight
  <1>2. CASE skipSonarSample
    <2>1. /\ log' = log /\ current' = current /\ checked' = checked /\ hinted' = hinted
          /\ operands' = operands /\ Parsed /\ ~Tried' /\ compared' = compared
      BY <1>2 DEF skipSonarSample, Parsed, Tried, compared
    <2> QED  BY <1>0, <2>1, Zenon DEF SamplesRight
  <1>3. CASE processSonarSample
    BY <1>3, TriesRight
  <1>4. CASE nextSonarSample
    <2>1. /\ log' = log /\ checked' = checked /\ hinted' = hinted /\ ~Parsed' /\ ~Tried'
          /\ current' = current + 1 /\ current < Len(log.samples)
      BY <1>4 DEF nextSonarSample, Parsed, Tried
    <2>2. current' \in 1 .. Len(log'.samples)
      <3>1. log.samples \in Seq(Comparisons) /\ current \in 1 .. Len(log.samples)
        BY SonarAssumption DEF SamplesRight
      <3> QED  BY <2>1, <3>1
    <2> QED  BY <1>0, <2>1, <2>2, Zenon DEF SamplesRight
  <1>5. CASE UNCHANGED sonarVars
    BY <1>5 DEF SamplesRight, Made, Usable, Taken, sonarVars, Tried, Parsed, compared
  <1> QED  BY <1>1, <1>2, <1>3, <1>4, <1>5, Zenon DEF SonarNext

\* Samples are parsed from the comparisons as logged; for one that is tried the key
\* of every usable replacement is taken, and what was made of the replacements
\* tried, by this sample or an earlier one, is tested.
THEOREM SamplesInvariant == SonarSpec => []SamplesRight
  <1>1. SonarInit => SamplesRight
    <2> SUFFICES ASSUME SonarInit PROVE SamplesRight
      OBVIOUS
    <2>1. log.samples \in Seq(Comparisons) /\ log.samples # <<>>
      BY SonarAssumption DEF SonarInit
    <2>2. current \in 1 .. Len(log.samples)
      BY <2>1 DEF SonarInit
    <2> QED  BY <2>2 DEF SonarInit, SamplesRight, Parsed, Tried
  <1> QED  BY <1>1, SamplesStep, PTL DEF SonarSpec

\* On samples that are right, evaluate answers as the program did.
LEMMA EvaluateRight == SamplesRight => EvaluateExact
  <1> SUFFICES ASSUME SamplesRight, Parsed, ~compared.string, Len(operands[1]) > 0,
                      \/ \A o \in 1 .. 2 : Recoverable(o)
                      \/ ~compared.signed /\ SameTail,
                      NEW op \in Ops
               PROVE  evaluate(operands, op, compared.signed, FALSE)
                        = Holds(op, Value(compared.raw[1], compared.signed),
                                    Value(compared.raw[2], compared.signed))
    BY DEF EvaluateExact
  <1>1. operands = trim(compared.raw) /\ compared \in Comparisons /\ compared.signed \in BOOLEAN
    BY ComparedRight DEF SamplesRight, Comparisons
  <1>2. PICK k \in Nat : \A o \in 1 .. 2 :
          /\ operands[o] \in Seq(AnyByte) /\ Len(operands[o]) = k
          /\ k <= Len(compared.raw[o]) /\ Len(compared.raw[o]) <= Wide
          /\ compared.raw[o] \in Seq(AnyByte)
          /\ \A i \in 1 .. k : operands[o][i] = compared.raw[o][i]
    BY <1>1, Trimmed
  <1>3. PICK t \in Seq(AnyByte), u \in Seq(AnyByte), v \in Seq(AnyByte), w \in Seq(AnyByte) :
          /\ t = operands[1] /\ u = operands[2] /\ v = compared.raw[1] /\ w = compared.raw[2]
          /\ Len(t) = k /\ Len(u) = k /\ k <= Len(v) /\ k <= Len(w) /\ Len(v) <= Wide /\ Len(w) <= Wide
          /\ \A i \in 1 .. k : t[i] = v[i] /\ u[i] = w[i]
    BY <1>2
  <1>4. k > 0 /\ k <= Wide /\ k \in 1 .. Wide
    BY <1>3, Constants
  <1>5. evaluate(operands, op, compared.signed, FALSE)
          = Holds(op, Value(signExtend(t), compared.signed), Value(signExtend(u), compared.signed))
    <2>1. Holds(op, Value(signExtend(t), compared.signed), Value(signExtend(u), compared.signed)) \in BOOLEAN
      <3>1. PICK e \in Seq(AnyByte), f \in Seq(AnyByte) : e = signExtend(t) /\ f = signExtend(u)
        BY <1>3, <1>4, SignExtended
      <3>2. Value(e, compared.signed) \in Int /\ Value(f, compared.signed) \in Int
        BY ValueNumber
      <3> QED  BY <3>1, <3>2, Truths, Zenon
    <2> QED  BY <1>3, <1>4, <2>1 DEF evaluate
  <1>6. CASE \A o \in 1 .. 2 : Recoverable(o)
    <2>1. ASSUME NEW o \in 1 .. 2
          PROVE  Value(signExtend(operands[o]), compared.signed) = Value(compared.raw[o], compared.signed)
      <3>1. SignCut(operands[o], compared.raw[o], k, compared.signed)
        BY <1>1, <1>2, <1>6 DEF Recoverable, Filling, SignCut
      <3>2. Cut(operands[o], compared.raw[o], k)
        BY <1>2, <1>4 DEF Cut
      <3> QED  BY <3>1, <3>2, Restored, Zenon
    <2>2. /\ Value(signExtend(t), compared.signed) = Value(v, compared.signed)
          /\ Value(signExtend(u), compared.signed) = Value(w, compared.signed)
      BY <1>3, <2>1
    <2> QED  BY <1>3, <1>5, <2>2, Zenon
  <1>7. CASE ~compared.signed /\ SameTail
    <2>1. compared.signed = FALSE
      BY <1>1, <1>7
    <2>2. MaxLen(operands) = k
      BY <1>3 DEF MaxLen
    <2>3. PICK l \in Nat : l = MaxLen(compared.raw) /\ Len(v) <= l /\ Len(w) <= l
      <3>1. MaxLen(compared.raw) = IF Len(v) > Len(w) THEN Len(v) ELSE Len(w)
        BY <1>3 DEF MaxLen
      <3> QED  BY <3>1
    <2>4. \A i \in k + 1 .. l : Digit(v, i) = Digit(w, i)
      BY <1>3, <1>7, <2>2, <2>3 DEF SameTail
    <2>5. PICK x \in Int, y \in Int, x1 \in Int, y1 \in Int :
           /\ x = Value(signExtend(t), FALSE) /\ y = Value(signExtend(u), FALSE)
           /\ x1 = Value(v, FALSE) /\ y1 = Value(w, FALSE)
           /\ Alike(x, y, x1, y1)
      <3>1. Cut(t, v, k) /\ Cut(u, w, k) /\ OneTail(v, w, k, l)
        BY <1>3, <1>4, <2>3, <2>4 DEF Cut, OneTail
      <3>2. StillAlike(t, u, v, w)
        BY <3>1, UnsignedAlike, Zenon
      <3> QED  BY <3>2, Zenon DEF StillAlike
    <2>6. Holds(op, x, y) = Holds(op, x1, y1)
      <3>1. Alike(x, y, x1, y1)
        BY <2>5
      <3> QED  BY <3>1, Outcome
    <2> QED  BY <1>3, <1>5, <2>1, <2>5, <2>6, Zenon
  <1> QED  BY <1>6, <1>7

\* Comparisons come out as in the program, for any operands: when sign extension
\* restores what parseSonarData trimmed, or the trimmed bytes are the same.
THEOREM EvaluatesExactly == SonarSpec => []EvaluateExact
  BY SamplesInvariant, EvaluateRight, PTL

-----------------------------------------------------------------------------
(* Parts of sequences.                                                     *)

\* d is a and then b, of n and m bytes.
Joint(d, a, b, n, m) ==
  /\ d \in Seq(AnyByte) /\ Len(d) = n + m
  /\ \A i \in 1 .. n : d[i] = a[i]
  /\ \A i \in 1 .. m : d[n + i] = b[i]

\* Two sequences, one after the other.
LEMMA Joined ==
  ASSUME NEW a \in Seq(AnyByte), NEW b \in Seq(AnyByte),
         NEW n \in Nat, NEW m \in Nat, Len(a) = n, Len(b) = m
  PROVE  Joint(a \o b, a, b, n, m)
  <1> DEFINE d == a \o b
  <1>1. /\ d \in Seq(AnyByte) /\ Len(d) = Len(a) + Len(b)
        /\ \A i \in 1 .. Len(a) + Len(b) : d[i] = IF i <= Len(a) THEN a[i] ELSE b[i - Len(a)]
    BY ConcatProperties, Zenon
  <1> HIDE DEF d
  <1>2. d \in Seq(AnyByte) /\ Len(d) = n + m
    BY <1>1
  <1>3. \A i \in 1 .. n + m : d[i] = IF i <= n THEN a[i] ELSE b[i - n]
    BY <1>1, Zenon
  <1>4. ASSUME NEW i \in 1 .. n PROVE d[i] = a[i]
    <2>1. i \in 1 .. n + m /\ i <= n
      OBVIOUS
    <2> QED  BY <1>3, <2>1, Zenon
  <1>5. ASSUME NEW i \in 1 .. m PROVE d[n + i] = b[i]
    <2>1. n + i \in 1 .. n + m /\ ~(n + i <= n) /\ n + i - n = i
      OBVIOUS
    <2>2. PICK j \in 1 .. n + m : j = n + i /\ ~(j <= n) /\ j - n = i
      BY <2>1
    <2>3. d[j] = b[j - n]
      BY <1>3, <2>2, Zenon
    <2> QED  BY <2>2, <2>3
  <1> QED  BY <1>2, <1>4, <1>5, Zenon DEF Joint, d

\* t is what stands in s behind the first n bytes, for m bytes.
Part(t, s, n, m) == /\ t \in Seq(AnyByte) /\ Len(t) = m
                    /\ \A i \in 1 .. m : t[i] = s[n + i]

\* A part of a sequence.
LEMMA PartOf ==
  ASSUME NEW s \in Seq(AnyByte), NEW n \in Nat, NEW m \in Nat, n + m <= Len(s)
  PROVE  Part(SubSeq(s, n + 1, n + m), s, n, m)
  <1> DEFINE a == n + 1
             b == n + m
  <1>1. a \in Int /\ b \in Int /\ \A i \in a .. b : s[i] \in AnyByte
    OBVIOUS
  <1>2. (IF a <= b THEN b - a + 1 ELSE 0) = m /\ b - a + 1 = m
    OBVIOUS
  <1>3. \A i \in 1 .. m : a + i - 1 = n + i
    OBVIOUS
  <1> HIDE DEF a, b
  <1>4. /\ SubSeq(s, a, b) \in Seq(AnyByte)
        /\ Len(SubSeq(s, a, b)) = IF a <= b THEN b - a + 1 ELSE 0
        /\ \A i \in 1 .. b - a + 1 : SubSeq(s, a, b)[i] = s[a + i - 1]
    BY <1>1, SubSeqProperties
  <1>5. \A i \in 1 .. m : SubSeq(s, a, b)[i] = s[n + i]
    <2> SUFFICES ASSUME NEW i \in 1 .. m PROVE SubSeq(s, a, b)[i] = s[n + i]
      OBVIOUS
    <2>1. SubSeq(s, a, b)[i] = s[a + i - 1]
      BY <1>2, <1>4
    <2> QED  BY <1>3, <2>1
  <1>6. Part(SubSeq(s, a, b), s, n, m)
    BY <1>2, <1>4, <1>5, Zenon DEF Part
  <1> QED  BY <1>6 DEF a, b

\* x stands in s behind the first n bytes.
Stands(s, n, x) == \A i \in 1 .. Len(x) : s[n + i] = x[i]

\* An operand at a place of the input, byte for byte.
LEMMA AtPlaces ==
  ASSUME NEW s \in Seq(AnyByte), NEW x \in Seq(AnyByte), NEW n \in Nat
  PROVE  n + 1 \in At(s, x) <=> n + Len(x) <= Len(s) /\ Stands(s, n, x)
  <1>1. PICK l \in Nat, m \in Nat : l = Len(s) /\ m = Len(x)
    OBVIOUS
  <1>2. /\ n + 1 \in 1 .. l + 1 - m <=> n + m <= l
        /\ n + 1 + m - 1 = n + m
    OBVIOUS
  <1>3. n + 1 \in At(s, x) <=> n + m <= l /\ SubSeq(s, n + 1, n + m) = x
    BY <1>1, <1>2, Zenon DEF At
  <1>4. ASSUME n + m <= l PROVE SubSeq(s, n + 1, n + m) = x <=> Stands(s, n, x)
    <2> DEFINE t == SubSeq(s, n + 1, n + m)
    <2>1. t \in Seq(AnyByte) /\ Len(t) = m /\ \A i \in 1 .. m : t[i] = s[n + i]
      <3>1. Part(SubSeq(s, n + 1, n + m), s, n, m)
        BY <1>1, <1>4, PartOf, Zenon
      <3> QED  BY <3>1, Zenon DEF Part
    <2> HIDE DEF t
    <2>2. ASSUME Stands(s, n, x) PROVE t = x
      <3>1. Len(t) = Len(x) /\ \A i \in 1 .. Len(t) : t[i] = x[i]
        BY <1>1, <2>1, <2>2, Zenon DEF Stands
      <3> QED  BY <2>1, <3>1, SeqEqual, Zenon
    <2>3. ASSUME t = x PROVE Stands(s, n, x)
      BY <1>1, <2>1, <2>3, Zenon DEF Stands
    <2> QED  BY <2>2, <2>3 DEF t
  <1> QED  BY <1>1, <1>3, <1>4, Zenon

\* Every place is behind some bytes.
LEMMA AtBehind ==
  ASSUME NEW s \in Seq(AnyByte), NEW x \in Seq(AnyByte), NEW p \in At(s, x)
  PROVE  \E n \in Nat : p = n + 1 /\ n + Len(x) <= Len(s) /\ Stands(s, n, x)
  <1>1. PICK l \in Nat, m \in Nat : l = Len(s) /\ m = Len(x)
    OBVIOUS
  <1>2. p \in 1 .. l + 1 - m
    BY <1>1, Zenon DEF At
  <1>3. PICK n \in Nat : p = n + 1
    <2>1. p - 1 \in Nat /\ p = p - 1 + 1
      BY <1>2
    <2> QED  BY <2>1
  <1>4. n + 1 \in At(s, x)
    BY <1>3
  <1> QED  BY <1>3, <1>4, AtPlaces, Zenon

\* h is s with w in place of the k bytes behind the first n.
Spliced(s, n, k, w, h) ==
  /\ h \in Seq(AnyByte) /\ Len(h) = Len(s) - k + Len(w)
  /\ \A i \in 1 .. n : h[i] = s[i]
  /\ Stands(h, n, w)
  /\ \A i \in 1 .. Len(s) - k - n : h[n + Len(w) + i] = s[n + k + i]

\* What Replaced cuts.
LEMMA SplicedCut ==
  ASSUME NEW s \in Seq(AnyByte), NEW v \in Seq(AnyByte), NEW w \in Seq(AnyByte),
         NEW n \in Nat, n + Len(v) <= Len(s)
  PROVE  \E d : Spliced(s, n, Len(v), w, d) /\ Replaced(s, n + 1, v, w) = Prefix(d, MaxHint)
  <1>1. PICK k \in Nat, m \in Nat, r \in Nat :
          k = Len(v) /\ m = Len(w) /\ r = Len(s) - k - n /\ n + k + r = Len(s)
    <2> DEFINE k == Len(v)
               r == Len(s) - k - n
    <2>1. Len(v) \in Nat /\ Len(w) \in Nat /\ Len(s) \in Nat /\ r \in Nat
          /\ n + k + r = Len(s)
      OBVIOUS
    <2> QED  BY <2>1, Zenon
  <1> DEFINE a == SubSeq(s, 1, n)
             c == SubSeq(s, n + k + 1, n + k + r)
             b == a \o w
             d == b \o c
  <1>2. a \in Seq(AnyByte) /\ Len(a) = n /\ \A i \in 1 .. n : a[i] = s[i]
    <2>1. 0 \in Nat /\ 0 + 1 = 1 /\ 0 + n = n /\ n <= Len(s) /\ \A i \in 1 .. n : 0 + i = i
      BY <1>1
    <2>2. Part(SubSeq(s, 0 + 1, 0 + n), s, 0, n)
      BY <2>1, PartOf, Zenon
    <2>3. Part(a, s, 0, n)
      BY <2>1, <2>2
    <2> QED  BY <2>1, <2>3, Zenon DEF Part
  <1>3. c \in Seq(AnyByte) /\ Len(c) = r /\ \A i \in 1 .. r : c[i] = s[n + k + i]
    <2>1. n + k \in Nat /\ n + k + r <= Len(s)
      BY <1>1
    <2>2. PICK o \in Nat : o = n + k
      BY <2>1
    <2>3. Part(SubSeq(s, o + 1, o + r), s, o, r)
      BY <2>1, <2>2, PartOf
    <2>4. Part(c, s, o, r)
      BY <2>2, <2>3
    <2> QED  BY <2>2, <2>4 DEF Part
  <1> HIDE DEF a, c
  <1>4. /\ b \in Seq(AnyByte) /\ Len(b) = n + m
        /\ \A i \in 1 .. n : b[i] = a[i]
        /\ \A i \in 1 .. m : b[n + i] = w[i]
    <2>1. Joint(b, a, w, n, m)
      BY <1>1, <1>2, Joined, Zenon
    <2> QED  BY <2>1, Zenon DEF Joint
  <1> HIDE DEF b
  <1>5. /\ d \in Seq(AnyByte) /\ Len(d) = n + m + r
        /\ \A i \in 1 .. n + m : d[i] = b[i]
        /\ \A i \in 1 .. r : d[n + m + i] = c[i]
    <2>1. n + m \in Nat
      OBVIOUS
    <2>2. Joint(d, b, c, n + m, r)
      BY <1>3, <1>4, <2>1, Joined, Zenon
    <2> QED  BY <2>2, Zenon DEF Joint
  <1> HIDE DEF d
  <1>6. Len(d) = Len(s) - k + m
    BY <1>1, <1>5
  <1>7. Replaced(s, n + 1, v, w) = Prefix(d, MaxHint)
    <2>1. (n + 1) - 1 = n /\ n + 1 + Len(v) = n + k + 1 /\ Len(s) = n + k + r
      BY <1>1
    <2>2. SubSeq(s, 1, (n + 1) - 1) = a /\ SubSeq(s, n + 1 + Len(v), Len(s)) = c
      BY <2>1 DEF a, c
    <2> QED  BY <2>2, Zenon DEF Replaced, d, b
  <1>8. \A i \in 1 .. n : d[i] = s[i]
    <2>1. \A i \in 1 .. n : i \in 1 .. n + m
      OBVIOUS
    <2> QED  BY <1>2, <1>4, <1>5, <2>1, Zenon
  <1>9. Stands(d, n, w)
    <2>1. \A i \in 1 .. m : n + i \in 1 .. n + m
      OBVIOUS
    <2> QED  BY <1>1, <1>4, <1>5, <2>1, Zenon DEF Stands
  <1>10. \A i \in 1 .. r : d[n + m + i] = s[n + k + i]
    BY <1>3, <1>5, Zenon
  <1>11. Spliced(s, n, Len(v), w, d)
    BY <1>1, <1>5, <1>6, <1>8, <1>9, <1>10, Zenon DEF Spliced
  <1> QED  BY <1>7, <1>11, Zenon

\* What Replaced returns when there is nothing to cut.
LEMMA ReplacedSpliced ==
  ASSUME NEW s \in Seq(AnyByte), NEW v \in Seq(AnyByte), NEW w \in Seq(AnyByte),
         NEW n \in Nat, n + Len(v) <= Len(s), Len(s) - Len(v) + Len(w) <= MaxHint
  PROVE  Spliced(s, n, Len(v), w, Replaced(s, n + 1, v, w))
  <1>1. PICK d : Spliced(s, n, Len(v), w, d) /\ Replaced(s, n + 1, v, w) = Prefix(d, MaxHint)
    BY SplicedCut, Zenon
  <1>2. d \in Seq(AnyByte) /\ Len(d) <= MaxHint
    BY <1>1 DEF Spliced
  <1>3. (IF MaxHint < Len(d) THEN MaxHint ELSE Len(d)) = Len(d)
    BY <1>2, Constants
  <1>4. SubSeq(d, 1, Len(d)) = d
    BY <1>2, SubSeqFull, Zenon
  <1>5. Prefix(d, MaxHint) = d
    BY <1>3, <1>4, Zenon DEF Prefix
  <1> QED  BY <1>1, <1>5, Zenon

\* To replace an operand by itself changes nothing.
LEMMA SplicedSelf ==
  ASSUME NEW s \in Seq(AnyByte), NEW v \in Seq(AnyByte), NEW n \in Nat, Stands(s, n, v)
  PROVE  Spliced(s, n, Len(v), v, s)
  <1>1. Len(v) \in Nat /\ Len(s) \in Nat /\ Len(s) - Len(v) + Len(v) = Len(s)
    OBVIOUS
  <1> QED  BY <1>1, Zenon DEF Spliced

-----------------------------------------------------------------------------
(* What is tested.                                                         *)

\* The sample was tried, and o is not a constant of the program.
Tested(o) == SamplesRight /\ Tried /\ o \in Variables

\* v is replaced by w for operand o.
Replaces(o, v, w) ==
  /\ <<v, w>> \in replacements(operands[o], operands[3 - o], compared.string)
  /\ v \in Seq(AnyByte) /\ w \in Seq(AnyByte) /\ v # <<>>

\* c is a trial of w in place of v, of which the results are tested.
Tries(c, v, w) == /\ c.old = v /\ c.new = w
                  /\ check(log.input, v, w, c.string) \subseteq hinted

\* A replacement that has its key for itself has been tried, and what check makes
\* of it is tested.
LEMMA CheckTested ==
  ASSUME NEW o, Tested(o), NEW v, NEW w, Replaces(o, v, w), OwnKey(v, w),
         v # w, At(log.input, v) # {}
  PROVE  \E c \in checked : Tries(c, v, w)
  <1>1. <<v, w>> \in relatives(compared, operands)
    <2>1. (o = 1 \/ o = 2) /\ o # compared.constant
      BY DEF Tested, Variables
    <2>2. /\ o = 1 => 3 - o = 2
          /\ o = 2 => 3 - o = 1
      OBVIOUS
    <2> HIDE DEF replacements
    <2> QED  BY <2>1, <2>2 DEF relatives, Replaces
  <1>2. <<v, w>>[1] = v /\ <<v, w>>[2] = w
    OBVIOUS
  <1>3. Taken(<<v, w>>)
    <2>1. Usable(<<v, w>>)
      BY <1>1, <1>2, Zenon DEF Usable, Replaces
    <2> QED  BY <1>1, <2>1, Zenon DEF Tested, SamplesRight
  <1>4. PICK c \in checked : Key(c.old, c.new) = Key(v, w)
    BY <1>2, <1>3, Zenon DEF Taken
  <1>5. c.old = v /\ c.new = w
    BY <1>4, Zenon DEF OwnKey
  <1>6. Made(c)
    BY Zenon DEF Tested, SamplesRight
  <1> QED  BY <1>5, <1>6, Zenon DEF Made, Tries

\* h is d, or what MaxHint leaves of it.
UpTo(h, d) == h = d \/ h = Prefix(d, MaxHint)

\* Wherever the input holds v, an input with w in its place is tested, if only in part.
LEMMA HintTested ==
  ASSUME NEW o, Tested(o), NEW v, NEW w, Replaces(o, v, w), OwnKey(v, w),
         NEW n \in Nat, n + 1 \in At(log.input, v)
  PROVE  \E h \in hinted \cup {log.input} : \E d : Spliced(log.input, n, Len(v), w, d) /\ UpTo(h, d)
  <1>1. log.input \in Seq(AnyByte) /\ v \in Seq(AnyByte) /\ w \in Seq(AnyByte) /\ v # <<>>
    BY ComparedRight DEF Tested, Replaces
  <1>2. n + Len(v) <= Len(log.input) /\ Stands(log.input, n, v)
    BY <1>1, AtPlaces, Zenon
  <1>3. CASE v = w
    BY <1>1, <1>2, <1>3, SplicedSelf, Zenon DEF UpTo
  <1>4. CASE v # w
    <2>1. PICK c \in checked : Tries(c, v, w)
      <3>1. At(log.input, v) # {}
        OBVIOUS
      <3> QED  BY <1>4, <3>1, CheckTested, Zenon
    <2>2. Replaced(log.input, n + 1, v, w) \in check(log.input, v, w, c.string)
      BY DEF check
    <2>3. PICK d : /\ Spliced(log.input, n, Len(v), w, d)
                   /\ Replaced(log.input, n + 1, v, w) = Prefix(d, MaxHint)
      BY <1>1, <1>2, SplicedCut, Zenon
    <2> QED  BY <2>1, <2>2, <2>3, Zenon DEF UpTo, Tries
  <1> QED  BY <1>3, <1>4, Zenon

\* What stands where a hint is not cut stands in the hint.
LEMMA CutHolds ==
  ASSUME NEW d \in Seq(AnyByte), NEW t \in Seq(AnyByte), NEW h, UpTo(h, d),
         NEW n \in Nat, n + 1 \in At(d, t), n + Len(t) <= MaxHint
  PROVE  h \in Seq(AnyByte) /\ n + 1 \in At(h, t)
  <1>1. n + Len(t) <= Len(d) /\ Stands(d, n, t)
    BY AtPlaces, Zenon
  <1>2. CASE h = d
    BY <1>2
  <1>3. CASE h = Prefix(d, MaxHint)
    <2>1. PICK k \in Nat : k = (IF MaxHint < Len(d) THEN MaxHint ELSE Len(d)) /\ k <= Len(d)
                           /\ n + Len(t) <= k
      BY <1>1, Constants
    <2>2. h = SubSeq(d, 0 + 1, 0 + k)
      <3>1. 0 + 1 = 1 /\ 0 + k = k
        OBVIOUS
      <3> QED  BY <1>3, <2>1, <3>1, Zenon DEF Prefix
    <2>3. Part(h, d, 0, k)
      <3>1. 0 \in Nat /\ 0 + k <= Len(d)
        BY <2>1
      <3> QED  BY <2>2, <3>1, PartOf, Zenon
    <2>4. h \in Seq(AnyByte) /\ Len(h) = k /\ \A i \in 1 .. k : h[i] = d[i]
      <3>1. \A i \in 1 .. k : 0 + i = i
        OBVIOUS
      <3> QED  BY <2>3, <3>1, Zenon DEF Part
    <2>5. Stands(h, n, t)
      <3>1. \A i \in 1 .. Len(t) : n + i \in 1 .. k
        BY <2>1
      <3> QED  BY <1>1, <2>4, <3>1, Zenon DEF Stands
    <2> QED  BY <2>1, <2>4, <2>5, AtPlaces, Zenon
  <1> QED  BY <1>2, <1>3, Zenon DEF UpTo

-----------------------------------------------------------------------------
(* Strings and their length fields.                                        *)

\* The operands of strings.
LEMMA Strings ==
  ASSUME SamplesRight, Tried, compared.string, NEW o \in 1 .. 2
  PROVE  operands[o] \in Seq(AnyByte) /\ Len(operands[o]) < Base
  <1>1. operands = compared.raw /\ compared \in Comparisons
    BY ComparedRight DEF SamplesRight, Parsed, Tried
  <1>2. o = 1 \/ o = 2
    OBVIOUS
  <1> QED  BY <1>1, <1>2 DEF Comparisons

\* A byte of a sequence is set.
LEMMA ByteSet ==
  ASSUME NEW t \in Seq(AnyByte), NEW q \in 1 .. Len(t), NEW b \in AnyByte
  PROVE  LET h == [t EXCEPT ![q] = b]
         IN  /\ h \in Seq(AnyByte) /\ Len(h) = Len(t) /\ h[q] = b
             /\ \A i \in 1 .. Len(t) : i # q => h[i] = t[i]
  OBVIOUS

\* The field before a string is corrected by the difference.
LEMMA FieldFollows ==
  ASSUME NEW k \in Nat, NEW m \in Nat, m < Base
  PROVE  (k + m - k) % Base = m /\ m \in AnyByte
  <1>1. PICK b \in Nat : b = Base /\ b > 2
    BY Constants
  <1>2. k + m - k = m /\ m % b = m
    BY <1>1
  <1> QED  BY <1>1, <1>2 DEF AnyByte

\* A string whose length changes is tested with each of the five bytes before it
\* set to the new length where it held the old one.
LEMMA LengthTested ==
  ASSUME NEW o, Tested(o), NEW v, NEW w, Replaces(o, v, w), Len(v) # Len(w), OwnKey(v, w),
         \A c \in checked : c.old = v /\ c.new = w => c.string,
         NEW n \in Nat, n + 1 \in At(log.input, v), NEW q \in 1 .. n, n + 1 - q <= 5,
         log.input[q] = Len(v), Len(w) < Base,
         Len(log.input) + Len(w) - Len(v) < MaxHint
  PROVE  \E h \in hinted : q \in At(h, <<Len(w)>>) /\ n + 1 \in At(h, w)
  <1>1. log.input \in Seq(AnyByte) /\ v \in Seq(AnyByte) /\ w \in Seq(AnyByte) /\ v # <<>>
    BY ComparedRight DEF Tested, Replaces
  <1>2. PICK k \in Nat, m \in Nat, l \in Nat :
          k = Len(v) /\ m = Len(w) /\ l = Len(log.input)
    BY <1>1
  <1>3. n + k <= l /\ Stands(log.input, n, v)
    BY <1>1, <1>2, AtPlaces, Zenon
  <1>4. l - k + m <= MaxHint /\ l - k + m < MaxHint /\ l - k + m \in Nat
    <2>1. n + k <= l
      BY <1>3
    <2>2. l + m - k < MaxHint
      BY <1>2
    <2> QED  BY <2>1, <2>2, Constants
  <1>13. PICK c \in checked : Tries(c, v, w)
    <2>1. v # w /\ At(log.input, v) # {}
      BY Zenon
    <2> QED  BY <2>1, CheckTested, Zenon
  <1>14. c.string
    BY <1>13, Zenon DEF Tries
  <1> DEFINE t == Replaced(log.input, n + 1, v, w)
             b == (t[q] + Len(w) - Len(v)) % Base
             h == [t EXCEPT ![q] = b]
  <1>5. Spliced(log.input, n, k, w, t)
    BY <1>1, <1>2, <1>3, <1>4, ReplacedSpliced, Zenon
  <1>6. /\ t \in Seq(AnyByte) /\ Len(t) = l - k + m /\ Stands(t, n, w)
        /\ t[q] = k
    BY <1>2, <1>5 DEF Spliced
  <1>7. h \in hinted
    <2>1. q \in lengthPlaces(n + 1)
      BY DEF lengthPlaces
    <2>2. c.string /\ Len(v) # Len(w) /\ Len(t) < MaxHint
      BY <1>4, <1>6, <1>14
    <2> HIDE DEF t
    <2>3. h \in {[t EXCEPT ![p] = (@ + Len(w) - Len(v)) % Base] : p \in lengthPlaces(n + 1)}
      BY <2>1
    <2> USE DEF t
    <2> HIDE DEF t, h
    <2>4. h \in check(log.input, v, w, c.string)
      <3> DEFINE F(p) == LET tmp == Replaced(log.input, p, v, w)
                         IN  {tmp} \cup
                             (IF c.string /\ Len(v) # Len(w) /\ Len(tmp) < MaxHint
                                THEN {[tmp EXCEPT ![i] = (@ + Len(w) - Len(v)) % Base] : i \in lengthPlaces(p)}
                                ELSE {})
      <3>1. h \in F(n + 1)
        BY <2>2, <2>3 DEF t
      <3>2. check(log.input, v, w, c.string) = UNION {F(p) : p \in At(log.input, v)}
        BY <1>1, <2>2, Zenon DEF check
      <3> HIDE DEF F
      <3> QED  BY <3>1, <3>2
    <2> QED  BY <1>13, <2>4, Zenon DEF Tries
  <1> HIDE DEF t
  <1>8. b = m /\ m \in AnyByte
    <2>1. m < Base /\ t[q] + Len(w) - Len(v) = k + m - k
      BY <1>2, <1>6
    <2>2. (k + m - k) % Base = m /\ m \in AnyByte
      BY <2>1, FieldFollows
    <2> QED  BY <2>1, <2>2
  <1>9. q \in 1 .. Len(t)
    BY <1>3, <1>6
  <1>10. /\ h \in Seq(AnyByte) /\ Len(h) = Len(t) /\ h[q] = m
         /\ \A i \in 1 .. Len(t) : i # q => h[i] = t[i]
    <2> HIDE DEF b
    <2> QED  BY <1>6, <1>8, <1>9, ByteSet
  <1> HIDE DEF h
  <1>11. q \in At(h, <<Len(w)>>)
    <2>1. PICK j \in Nat : q = j + 1
      <3>1. q - 1 \in Nat /\ q = (q - 1) + 1
        OBVIOUS
      <3> QED  BY <3>1
    <2>2. <<m>> \in Seq(AnyByte) /\ Len(<<m>>) = 1 /\ <<m>>[1] = m
      BY <1>8
    <2>3. j + Len(<<m>>) <= Len(h)
      BY <1>3, <1>6, <1>10, <2>1, <2>2
    <2>4. Stands(h, j, <<m>>)
      BY <1>10, <2>1, <2>2 DEF Stands
    <2>5. j + 1 \in At(h, <<m>>)
      BY <1>10, <2>2, <2>3, <2>4, AtPlaces, Zenon
    <2> QED  BY <1>2, <2>1, <2>5, Zenon
  <1>12. n + 1 \in At(h, w)
    <2>0. n + k <= l /\ Len(t) = l - k + m /\ n + m <= l - k + m
      BY <1>3, <1>6
    <2>1. n + Len(w) <= Len(h)
      BY <1>2, <1>10, <2>0
    <2>2. \A i \in 1 .. m : n + i \in 1 .. Len(t) /\ n + i # q
      <3>1. \A i \in 1 .. m : n + i \in 1 .. n + m /\ n + i # q
        OBVIOUS
      <3>2. PICK j \in Int : j = Len(t) /\ n + m <= j
        BY <2>0
      <3>3. \A i \in 1 .. n + m : i \in 1 .. j
        BY <3>2
      <3> QED  BY <3>1, <3>2, <3>3
    <2>3. Stands(h, n, w)
      BY <1>2, <1>6, <1>10, <2>2, Zenon DEF Stands
    <2> QED  BY <1>1, <1>10, <2>1, <2>3, AtPlaces, Zenon
  <1> QED  BY <1>7, <1>11, <1>12, Zenon

\* A string is replaced together with its length.
LEMMA LengthRight == SamplesRight => LengthFollows
  <1> SUFFICES ASSUME SamplesRight, Tried, compared.string, NEW o \in Variables,
                      operands[o] # <<>>, Len(operands[o]) # Len(operands[3 - o]),
                      OwnKey(operands[o], operands[3 - o]),
                      \A c \in checked : c.old = operands[o] /\ c.new = operands[3 - o] => c.string,
                      NEW p \in At(log.input, operands[o]), NEW q \in 1 .. p - 1,
                      p - q <= 5, log.input[q] = Len(operands[o]),
                      Len(log.input) + Len(operands[3 - o]) - Len(operands[o]) < MaxHint
               PROVE  \E h \in hinted :
                        q \in At(h, <<Len(operands[3 - o])>>) /\ p \in At(h, operands[3 - o])
    BY DEF LengthFollows
  <1>1. o \in 1 .. 2 /\ 3 - o \in 1 .. 2 /\ ((o = 1 /\ 3 - o = 2) \/ (o = 2 /\ 3 - o = 1))
    BY DEF Variables
  <1>2. PICK v \in Seq(AnyByte), w \in Seq(AnyByte) :
          v = operands[o] /\ w = operands[3 - o] /\ Len(w) < Base
    BY <1>1, Strings
  <1>3. OwnKey(v, w) /\ \A c \in checked : c.old = v /\ c.new = w => c.string
    BY <1>2, Zenon
  <1>4. Tested(o)
    BY DEF Tested
  <1>5. Replaces(o, v, w)
    BY <1>2 DEF Replaces, replacements
  <1>6. PICK n \in Nat : p = n + 1 /\ q \in 1 .. n /\ n + 1 - q <= 5
    <2>1. log.input \in Seq(AnyByte)
      BY ComparedRight
    <2>2. PICK n \in Nat : p = n + 1
      <3>1. p \in At(log.input, v)
        BY <1>2
      <3>2. \E n \in Nat : /\ p = n + 1 /\ n + Len(v) <= Len(log.input)
                           /\ Stands(log.input, n, v)
        BY <2>1, <3>1, AtBehind
      <3> QED  BY <3>2
    <2>3. q \in 1 .. n /\ n + 1 - q <= 5
      BY <2>2
    <2> QED  BY <2>2, <2>3
  <1> QED  BY <1>2, <1>3, <1>4, <1>5, <1>6, LengthTested

-----------------------------------------------------------------------------
(* The neighbours of a number, byte by byte.                               *)

\* A quotient and a remainder are what they should be.
LEMMA DivMod ==
  ASSUME NEW b \in Nat, b > 0, NEW q \in Int, NEW r \in 0 .. b - 1, NEW a \in Int, a = r + b * q
  PROVE  a \div b = q /\ a % b = r
  OBVIOUS

\* Quotients and remainders are integers, and the remainder of a byte a byte.
LEMMA DivModType ==
  ASSUME NEW a \in Int
  PROVE  a \div Base \in Int /\ a % Base \in AnyByte
  <1>1. PICK b \in Nat : b = Base /\ b > 2
    BY Constants
  <1>2. a \div b \in Int /\ a % b \in 0 .. b - 1
    BY <1>1
  <1> QED  BY <1>1, <1>2 DEF AnyByte

\* What is added to a number, and to a digit of it.
Offsets == {-1, 0, 1}

\* The carry that one digit passes on.
Passes(b, c) == IF c = 1 /\ b = Base - 1 THEN 1 ELSE IF c = -1 /\ b = 0 THEN -1 ELSE 0

\* To add a carry changes the last digit, and what is above by what is passed on.
LEMMA CarryStep ==
  ASSUME NEW b \in AnyByte, NEW c \in Offsets, NEW x \in Int, NEW a \in Int, a = b + Base * x + c
  PROVE  a % Base = (b + c) % Base /\ a \div Base = x + Passes(b, c)
  <1>1. PICK B \in Nat : B = Base /\ B > 2 /\ b \in 0 .. B - 1
    BY Constants DEF AnyByte
  <1> DEFINE e == Passes(b, c)
             r == b + c - B * e
  <1>2. e \in Int /\ r \in 0 .. B - 1
    BY <1>1 DEF Passes, Offsets
  <1> HIDE DEF e
  <1>0. c \in Int
    BY DEF Offsets
  <1>3. a = r + B * (x + e)
    <2>1. B * (x + e) = B * x + B * e
      BY <1>1, <1>2
    <2> QED  BY <1>0, <1>1, <1>2, <2>1
  <1>4. b + c = r + B * e
    BY <1>0, <1>1, <1>2
  <1> HIDE DEF r
  <1>5. a \div B = x + e /\ a % B = r
    BY <1>1, <1>2, <1>3, DivMod
  <1>6. (b + c) % B = r
    <2>1. PICK z \in Int : z = b + c
      BY <1>0, <1>1
    <2>2. z = r + B * e /\ B > 0
      BY <1>1, <1>4, <2>1
    <2>3. z % B = r
      BY <1>1, <1>2, <2>2, DivMod
    <2> QED  BY <2>1, <2>3
  <1> QED  BY <1>1, <1>5, <1>6 DEF e

\* The byte that passes a carry of d on, and the carry at place i of v + d.
Rolls(d) == IF d = 1 THEN Base - 1 ELSE 0
Carry(v, d, i) == IF \A j \in 1 .. i - 1 : v[j] = Rolls(d) THEN d ELSE 0

\* The carry is what the places below pass on.
LEMMA CarryNext ==
  ASSUME NEW v, NEW d \in Offsets, NEW i \in Nat, i > 0
  PROVE  /\ Carry(v, d, 1) = d /\ Carry(v, d, i) \in Offsets
         /\ Carry(v, d, i + 1) = Passes(v[i], Carry(v, d, i))
  <1>1. Carry(v, d, 1) = d /\ Carry(v, d, i) \in Offsets
    BY DEF Carry, Offsets
  <1>2. Base - 1 # 0
    BY Constants
  <1>3. (\A j \in 1 .. (i + 1) - 1 : v[j] = Rolls(d))
          <=> (\A j \in 1 .. i - 1 : v[j] = Rolls(d)) /\ v[i] = Rolls(d)
    <2>1. \A j : j \in 1 .. (i + 1) - 1 <=> j \in 1 .. i - 1 \/ j = i
      OBVIOUS
    <2> QED  BY <2>1, Zenon
  <1>4. ASSUME \A j \in 1 .. i - 1 : v[j] = Rolls(d)
        PROVE  Carry(v, d, i + 1) = Passes(v[i], Carry(v, d, i))
    <2>1. Carry(v, d, i) = d /\ Carry(v, d, i + 1) = IF v[i] = Rolls(d) THEN d ELSE 0
      BY <1>3, <1>4, Zenon DEF Carry
    <2>2. (IF v[i] = Rolls(d) THEN d ELSE 0) = Passes(v[i], d)
      BY <1>2 DEF Passes, Rolls, Offsets
    <2> QED  BY <2>1, <2>2
  <1>5. ASSUME ~\A j \in 1 .. i - 1 : v[j] = Rolls(d)
        PROVE  Carry(v, d, i + 1) = Passes(v[i], Carry(v, d, i))
    <2>1. Carry(v, d, i) = 0 /\ Carry(v, d, i + 1) = 0
      BY <1>3, <1>5, Zenon DEF Carry
    <2>2. Passes(v[i], 0) = 0
      BY DEF Passes
    <2> QED  BY <2>1, <2>2
  <1> QED  BY <1>1, <1>4, <1>5

\* An operand, its successor or its predecessor, as the worker computes them.
Moved(v, d) == CASE d = 0 -> v [] d = 1 -> increment(v) [] d = -1 -> decrement(v)

\* These are what the carries make of it.
LEMMA MovedBytes ==
  ASSUME NEW v \in Seq(AnyByte), NEW d \in Offsets
  PROVE  /\ Moved(v, d) \in Seq(AnyByte) /\ Len(Moved(v, d)) = Len(v)
         /\ \A i \in 1 .. Len(v) : Moved(v, d)[i] = (v[i] + Carry(v, d, i)) % Base
  <1>1. PICK k \in Nat : k = Len(v) /\ DOMAIN v = 1 .. k
    OBVIOUS
  <1>2. ASSUME NEW i \in 1 .. k
        PROVE  /\ v[i] \in Nat /\ (v[i] + 0) % Base = v[i] /\ v[i] \in AnyByte
               /\ (v[i] + Carry(v, d, i)) % Base \in AnyByte
    <2>1. v[i] \in AnyByte
      BY <1>1
    <2>2. PICK b \in Nat, B \in Nat : b = v[i] /\ B = Base /\ b < B
      BY <2>1, Constants
    <2>3. (b + 0) % B = b
      BY <2>2
    <2>4. Carry(v, d, i) \in Int
      BY DEF Carry, Offsets
    <2>5. v[i] + Carry(v, d, i) \in Int
      BY <2>2, <2>4
    <2> QED  BY <2>1, <2>2, <2>3, <2>5, DivModType
  <1> DEFINE m == [i \in 1 .. k |-> (v[i] + Carry(v, d, i)) % Base]
  <1>3. Moved(v, d) = m
    <2>1. CASE d = 0
      <3>1. \A i \in 1 .. k : m[i] = v[i]
        BY <1>2, <2>1 DEF Carry
      <3>2. v = [i \in 1 .. k |-> v[i]]
        BY <1>1
      <3>3. v = m
        BY <1>2, <2>1, <3>2 DEF Carry
      <3> QED  BY <2>1, <3>3 DEF Moved
    <2>2. CASE d = 1
      <3>1. \A i \in 1 .. k : m[i] = IF \A j \in 1 .. i - 1 : v[j] = Base - 1 THEN (v[i] + 1) % Base ELSE v[i]
        BY <1>2, <2>2 DEF Carry, Rolls
      <3>2. increment(v) = m
        <4> HIDE DEF m
        <4>1. m = [i \in 1 .. k |-> m[i]]
          BY DEF m
        <4> QED  BY <1>1, <3>1, <4>1 DEF increment
      <3> QED  BY <2>2, <3>2 DEF Moved
    <2>3. CASE d = -1
      <3>1. \A i \in 1 .. k : m[i] = IF \A j \in 1 .. i - 1 : v[j] = 0 THEN (v[i] - 1) % Base ELSE v[i]
        BY <1>2, <2>3 DEF Carry, Rolls
      <3>2. decrement(v) = m
        <4> HIDE DEF m
        <4>1. m = [i \in 1 .. k |-> m[i]]
          BY DEF m
        <4> QED  BY <1>1, <3>1, <4>1 DEF decrement
      <3> QED  BY <2>3, <3>2 DEF Moved
    <2> QED  BY <2>1, <2>2, <2>3 DEF Offsets
  <1>4. m \in [1 .. k -> AnyByte]
    BY <1>2
  <1>5. m \in Seq(AnyByte) /\ Len(m) = k
    <2> HIDE DEF m
    <2> QED  BY <1>4
  <1> QED  BY <1>1, <1>3, <1>5

\* What holds of the first place, and of the next place if of a place, holds of all.
LEMMA Upward ==
  ASSUME NEW k \in Nat, NEW S, 1 \in S, \A i \in 1 .. k : i \in S => i + 1 \in S
  PROVE  \A i \in 1 .. k + 1 : i \in S
  <1> SUFFICES ASSUME NEW j \in 1 .. k + 1, j \notin S PROVE FALSE
    OBVIOUS
  <1> DEFINE T == {m \in 1 .. k + 1 : m \notin S}
  <1>1. PICK m \in T : \A x \in T : m <= x
    <2>1. T \subseteq Nat /\ j \in T
      OBVIOUS
    <2> HIDE DEF T
    <2> QED  BY <2>1, Least
  <1>2. m \in 1 .. k + 1 /\ m \notin S /\ m # 1
    OBVIOUS
  <1>3. m - 1 \in 1 .. k /\ m - 1 + 1 = m /\ m - 1 \in 1 .. k + 1 /\ ~(m <= m - 1)
    BY <1>2
  <1>4. m - 1 \in S
    <2>1. m - 1 \notin T
      <3> HIDE DEF T
      <3> QED  BY <1>1, <1>3
    <2> QED  BY <1>3, <2>1
  <1> QED  BY <1>2, <1>3, <1>4

\* The low bytes of a number are the remainders of its quotients.
Quotients(q, u, n) ==
  /\ \A i \in 1 .. n : q[i] \in Int
  /\ q[1] = u /\ \A i \in 1 .. n - 1 : q[i + 1] = q[i] \div Base

\* The quotients exist.
LEMMA BytesExist ==
  ASSUME NEW u \in Int, NEW n \in Nat, n > 0
  PROVE  \E q : Quotients(q, u, n) /\ Bytes(u, n) = [i \in 1 .. n |-> q[i] % Base]
  <1> DEFINE Pos == 1 .. n
             body(f, i) == IF i = 1 THEN u ELSE f[i - 1] \div Base
             Fit(f, k) == f = [i \in Pos |-> f[i]] /\ \A i \in 1 .. k : f[i] = body(f, i)
             S == {k \in Pos : \E f : Fit(f, k)}
  <1>0. PICK l \in Nat : n = l + 1
    <2>1. n - 1 \in Nat /\ n = n - 1 + 1
      OBVIOUS
    <2> QED  BY <2>1
  <1>1. 1 \in S
    <2>1. Fit([i \in Pos |-> u], 1)
      OBVIOUS
    <2>2. 1 \in Pos
      OBVIOUS
    <2> QED  BY <2>1, <2>2
  <1>2. ASSUME NEW k \in 1 .. l, k \in S PROVE k + 1 \in S
    <2>1. PICK f : Fit(f, k)
      BY <1>2
    <2> DEFINE g == [i \in Pos |-> IF i = k + 1 THEN body(f, i) ELSE f[i]]
    <2>2. ASSUME NEW i \in 1 .. k + 1 PROVE g[i] = body(g, i)
      <3>1. i \in Pos /\ (i # k + 1 => i \in 1 .. k) /\ (i # 1 => i - 1 \in Pos /\ i - 1 # k + 1)
        BY <1>0
      <3>2. i # 1 => g[i - 1] = f[i - 1]
        BY <3>1
      <3>3. body(f, i) = body(g, i)
        <4> HIDE DEF g
        <4> QED  BY <3>2
      <3>4. g[i] = body(f, i)
        BY <2>1, <3>1
      <3> HIDE DEF g, body
      <3> QED  BY <3>3, <3>4
    <2>3. g = [i \in Pos |-> g[i]]
      OBVIOUS
    <2>4. Fit(g, k + 1)
      <3> HIDE DEF g, body
      <3> QED  BY <2>2, <2>3
    <2>5. k + 1 \in Pos
      BY <1>0
    <2> HIDE DEF Fit, Pos
    <2> QED  BY <2>4, <2>5, Zenon
  <1>3. n \in S
    <2>1. n \in 1 .. l + 1
      BY <1>0
    <2> HIDE DEF S
    <2>2. \A i \in 1 .. l + 1 : i \in S
      BY <1>1, <1>2, Upward, Zenon
    <2> QED  BY <2>1, <2>2
  <1> DEFINE q == CHOOSE f : f = [i \in Pos |-> body(f, i)]
  <1>4. q = [i \in Pos |-> body(q, i)]
    <2>1. PICK f : Fit(f, n)
      BY <1>3
    <2>2. f = [i \in Pos |-> body(f, i)]
      <3>1. f = [i \in Pos |-> f[i]] /\ \A i \in Pos : f[i] = body(f, i)
        BY <2>1
      <3> HIDE DEF body, Pos
      <3> QED  BY <3>1
    <2> HIDE DEF body, Pos
    <2> QED  BY <2>2
  <1>5. Bytes(u, n) = [i \in 1 .. n |-> q[i] % Base]
    BY DEF Bytes
  <1> HIDE DEF q
  <1>6. q[1] = u /\ \A i \in 1 .. n - 1 : q[i + 1] = q[i] \div Base
    <2>1. q[1] = u
      BY <1>4
    <2>2. ASSUME NEW i \in 1 .. n - 1 PROVE q[i + 1] = q[i] \div Base
      <3>1. i + 1 \in Pos /\ i + 1 # 1 /\ i + 1 - 1 = i
        OBVIOUS
      <3>2. q[i + 1] = body(q, i + 1)
        <4> HIDE DEF Pos, body
        <4> QED  BY <1>4, <3>1
      <3> QED  BY <3>1, <3>2
    <2> QED  BY <2>1, <2>2
  <1>7. \A i \in 1 .. n : q[i] \in Int
    <2> DEFINE R == {i \in 1 .. n : q[i] \in Int}
    <2>1. 1 \in R
      BY <1>6
    <2>2. ASSUME NEW i \in 1 .. l, i \in R PROVE i + 1 \in R
      <3>1. q[i] \in Int /\ q[i + 1] = q[i] \div Base /\ i + 1 \in 1 .. n
        BY <1>0, <1>6, <2>2
      <3>2. q[i + 1] \in Int
        BY <3>1, DivModType
      <3> QED  BY <3>1, <3>2
    <2>3. \A i \in 1 .. n : i \in R
      <3> HIDE DEF R
      <3> QED  BY <1>0, <2>1, <2>2, Upward
    <2> QED  BY <2>3
  <1> QED  BY <1>5, <1>6, <1>7 DEF Quotients

\* The number of the low places of y, up to w bytes, and its digits.
LEMMA PrefixReads ==
  ASSUME NEW y \in Seq(AnyByte), NEW w \in Nat, NEW k \in 0 .. w, k <= Len(y)
  PROVE  \E n : Reads(n, y, k) /\ Number(Prefix(y, w)) = n[1]
  <1> DEFINE l == IF w < Len(y) THEN w ELSE Len(y)
             P == Prefix(y, w)
  <1>1. l \in Nat /\ 0 + l <= Len(y) /\ k \in 0 .. l
    OBVIOUS
  <1>2. P \in Seq(AnyByte) /\ Len(P) = l /\ \A i \in 1 .. l : P[i] = y[i]
    <2> HIDE DEF l
    <2>1. 0 \in Nat /\ 0 + 1 = 1 /\ 0 + l = l /\ \A i \in 1 .. l : 0 + i = i
      BY <1>1
    <2>2. Part(SubSeq(y, 0 + 1, 0 + l), y, 0, l)
      BY <1>1, <2>1, PartOf, Zenon
    <2>3. P = SubSeq(y, 1, l)
      BY DEF Prefix, l
    <2>4. Part(P, y, 0, l)
      BY <2>1, <2>2, <2>3
    <2> QED  BY <2>1, <2>4, Zenon DEF Part
  <1> HIDE DEF l, P
  <1>3. PICK n : Reads(n, P, l) /\ Reading(P, 0) = n[1]
    <2>1. 0 \in Int
      OBVIOUS
    <2>2. \E n : Reads(n, P, Len(P)) /\ n[Len(P) + 1] = 0 /\ Reading(P, 0) = n[1]
      BY <1>2, <2>1, ReadingExists, Zenon
    <2> QED  BY <1>2, <2>2
  <1>4. Reads(n, y, k)
    <2>1. \A i \in 1 .. k : P[i] = y[i]
      BY <1>1, <1>2
    <2> QED  BY <1>1, <1>3, <2>1, ReadsBelow
  <1>5. Number(Prefix(y, w)) = n[1]
    BY <1>3 DEF Number, P
  <1> QED  BY <1>4, <1>5

\* The low bytes of a neighbour are those the worker computes from the low bytes.
LEMMA NearLow ==
  ASSUME NEW y \in Seq(AnyByte), NEW w \in Nat, NEW k \in 1 .. w, k <= Len(y),
         NEW d \in Offsets
  PROVE  LET t == Bytes(Number(Prefix(y, w)) + d, w)
         IN  /\ t \in Seq(AnyByte) /\ Len(t) = w
             /\ \A i \in 1 .. k : t[i] = (y[i] + Carry(y, d, i)) % Base
  <1>1. PICK n : Reads(n, y, k) /\ Number(Prefix(y, w)) = n[1]
    <2>1. k \in 0 .. w
      OBVIOUS
    <2> QED  BY <2>1, PrefixReads
  <1>2. PICK u \in Int : u = Number(Prefix(y, w)) + d /\ u = n[1] + d
    <2>1. 1 \in 1 .. k + 1
      OBVIOUS
    <2>2. n[1] \in Int
      BY <1>1, <2>1 DEF Reads
    <2>3. n[1] + d \in Int
      BY <2>2 DEF Offsets
    <2> QED  BY <1>1, <2>3
  <1>3. PICK q : Quotients(q, u, w) /\ Bytes(u, w) = [i \in 1 .. w |-> q[i] % Base]
    <2>1. w > 0
      OBVIOUS
    <2> QED  BY <2>1, BytesExist
  <1> DEFINE t == Bytes(u, w)
  <1>4. t \in Seq(AnyByte) /\ Len(t) = w /\ \A i \in 1 .. w : t[i] = q[i] % Base
    <2>1. \A i \in 1 .. w : q[i] % Base \in AnyByte
      BY <1>3, DivModType DEF Quotients
    <2>2. t \in [1 .. w -> AnyByte] /\ \A i \in 1 .. w : t[i] = q[i] % Base
      BY <1>3, <2>1
    <2> HIDE DEF t
    <2> QED  BY <2>2
  <1> DEFINE S == {i \in 1 .. k : q[i] = n[i] + Carry(y, d, i)}
  <1>5. 1 \in S
    <2>1. Carry(y, d, 1) = d /\ q[1] = u /\ 1 \in 1 .. k
      BY <1>3 DEF Carry, Quotients
    <2> QED  BY <1>2, <2>1
  <1>6. ASSUME NEW i \in 1 .. k, i \in S
        PROVE  /\ q[i] % Base = (y[i] + Carry(y, d, i)) % Base
               /\ i + 1 <= k => i + 1 \in S
    <2>1. i \in 1 .. w /\ i \in 1 .. k + 1 /\ i + 1 \in 1 .. k + 1 /\ i \in 1 .. Len(y)
      OBVIOUS
    <2>2. PICK x \in Int, b \in AnyByte, c \in Offsets, a \in Int :
            x = n[i + 1] /\ b = y[i] /\ c = Carry(y, d, i) /\ a = q[i]
      <3>1. n[i + 1] \in Int /\ y[i] \in AnyByte /\ q[i] \in Int
        BY <1>1, <1>3, <2>1 DEF Reads, Quotients
      <3>2. Carry(y, d, i) \in Offsets
        <4>1. i \in Nat /\ i > 0
          OBVIOUS
        <4> QED  BY <4>1, CarryNext
      <3> QED  BY <3>1, <3>2
    <2>3. n[i] = b + Base * x
      BY <1>1, <2>2 DEF Reads
    <2>4. a = b + Base * x + c
      BY <1>6, <2>2, <2>3
    <2>5. a % Base = (b + c) % Base /\ a \div Base = x + Passes(b, c)
      BY <2>4, CarryStep
    <2>6. ASSUME i + 1 <= k PROVE i + 1 \in S
      <3>1. q[i + 1] = a \div Base
        <4>1. i \in 1 .. w - 1
          BY <2>6
        <4> QED  BY <1>3, <2>2, <4>1 DEF Quotients
      <3>2. Carry(y, d, i + 1) = Passes(b, c)
        <4>1. i \in Nat /\ i > 0
          OBVIOUS
        <4>2. Carry(y, d, i + 1) = Passes(y[i], Carry(y, d, i))
          BY <4>1, CarryNext
        <4> QED  BY <2>2, <4>2
      <3>3. i + 1 \in 1 .. k
        BY <2>6
      <3> QED  BY <2>2, <2>5, <3>1, <3>2, <3>3
    <2> QED  BY <2>2, <2>5, <2>6
  <1>7. \A i \in 1 .. k : i \in S
    <2>1. PICK l \in Nat : k = l + 1
      <3>1. k - 1 \in Nat /\ k = k - 1 + 1
        OBVIOUS
      <3> QED  BY <3>1
    <2>2. \A i \in 1 .. l : i \in S => i + 1 \in S
      <3>1. \A i \in 1 .. l : i \in 1 .. k /\ i + 1 <= k
        BY <2>1
      <3> HIDE DEF S
      <3> QED  BY <1>6, <3>1
    <2> HIDE DEF S
    <2> QED  BY <1>5, <2>1, <2>2, Upward
  <1>8. \A i \in 1 .. k : t[i] = (y[i] + Carry(y, d, i)) % Base
    <2>1. \A i \in 1 .. k : i \in 1 .. w
      OBVIOUS
    <2> HIDE DEF S, t
    <2> QED  BY <1>4, <1>6, <1>7, <2>1
  <1>9. t = Bytes(Number(Prefix(y, w)) + d, w)
    BY <1>2
  <1> HIDE DEF t
  <1> QED  BY <1>4, <1>8, <1>9, Zenon

-----------------------------------------------------------------------------
(* An operand in full, of which a part is replaced.                        *)

\* The part v of x behind the first a bytes is replaced by m, which makes it t.
Swaps(v, m, x, t, a) ==
  /\ {v, m, x, t} \subseteq Seq(AnyByte) /\ a \in Nat
  /\ Len(m) = Len(v) /\ Len(t) = Len(x) /\ a + Len(v) <= Len(x)
  /\ \A i \in 1 .. Len(v) : v[i] = x[a + i] /\ m[i] = t[a + i]
  /\ \A i \in 1 .. Len(x) : i <= a \/ i > a + Len(v) => x[i] = t[i]

\* Where the input holds x, an input is tested that holds t.
LEMMA SwapReached ==
  ASSUME NEW o, Tested(o), NEW v, NEW m, Replaces(o, v, m), OwnKey(v, m),
         NEW x, NEW t, NEW a, Swaps(v, m, x, t, a), NEW p \in Uncut(x)
  PROVE  HintHas(p, t)
  <1> DEFINE s == log.input
  <1>1. /\ s \in Seq(AnyByte)
        /\ v \in Seq(AnyByte) /\ m \in Seq(AnyByte) /\ x \in Seq(AnyByte) /\ t \in Seq(AnyByte)
    BY ComparedRight DEF Tested, Swaps
  <1>2. PICK k \in Nat, w \in Nat, l \in Nat, b \in Nat :
          /\ k = Len(v) /\ k = Len(m) /\ w = Len(x) /\ w = Len(t) /\ l = Len(s) /\ b = a
          /\ b + k <= w
    BY <1>1 DEF Swaps
  <1> HIDE DEF s
  <1>3. PICK n \in Nat : p = n + 1 /\ n + w <= l /\ Stands(s, n, x) /\ n + w <= MaxHint
    <2>1. p \in At(s, x) /\ p + Len(x) - 1 <= MaxHint
      BY DEF s, Uncut
    <2>2. PICK n \in Nat : p = n + 1 /\ n + Len(x) <= Len(s) /\ Stands(s, n, x)
      BY <1>1, <2>1, AtBehind, Zenon
    <2>3. n + w <= l
      BY <1>2, <2>2, Zenon
    <2>4. n + w <= MaxHint
      BY <1>2, <2>1, <2>2, Constants
    <2> QED  BY <2>2, <2>3, <2>4
  <1>4. PICK c \in Nat : c = n + b /\ c + k <= l
    BY <1>2, <1>3
  <1>5. \A i \in 1 .. k : v[i] = x[b + i] /\ m[i] = t[b + i]
    BY <1>2, Zenon DEF Swaps
  <1>6. \A i \in 1 .. w : s[n + i] = x[i]
    BY <1>2, <1>3, Zenon DEF Stands
  <1>7. c + 1 \in At(s, v)
    <2>1. ASSUME NEW i \in 1 .. k PROVE s[c + i] = v[i]
      <3>1. b + i \in 1 .. w /\ c + i = n + (b + i)
        BY <1>2, <1>4
      <3> QED  BY <1>5, <1>6, <3>1
    <2>2. Stands(s, c, v)
      BY <1>2, <2>1, Zenon DEF Stands
    <2> QED  BY <1>1, <1>2, <1>4, <2>2, AtPlaces, Zenon
  <1>8. PICK h \in hinted \cup {log.input} : \E d : Spliced(s, c, k, m, d) /\ UpTo(h, d)
    <2>1. c + 1 \in At(log.input, v)
      BY <1>7 DEF s
    <2>2. \E h \in hinted \cup {log.input} :
            \E d : Spliced(log.input, c, Len(v), m, d) /\ UpTo(h, d)
      BY <2>1, HintTested, Zenon
    <2> QED  BY <1>2, <2>2, Zenon DEF s
  <1>0. PICK d : Spliced(s, c, k, m, d) /\ UpTo(h, d)
    BY <1>8, Zenon
  <1>9. /\ d \in Seq(AnyByte) /\ Len(d) = l
        /\ \A i \in 1 .. c : d[i] = s[i]
        /\ \A i \in 1 .. k : d[c + i] = m[i]
        /\ \A i \in 1 .. l - k - c : d[c + k + i] = s[c + k + i]
    <2>1. l - k + k = l
      OBVIOUS
    <2> QED  BY <1>0, <1>2, <2>1, Zenon DEF Spliced, Stands
  <1>10. ASSUME NEW i \in 1 .. w PROVE d[n + i] = t[i]
    <2>1. CASE i <= b \/ i > b + k
      <3>1. x[i] = t[i]
        BY <1>2, <2>1 DEF Swaps
      <3>2. d[n + i] = s[n + i]
        <4>1. CASE i <= b
          <5>1. n + i \in 1 .. c
            BY <1>4, <4>1
          <5> QED  BY <1>9, <5>1
        <4>2. CASE i > b + k
          <5>1. PICK j \in 1 .. l - k - c : n + i = c + k + j
            <6>1. n + i - c - k \in 1 .. l - k - c /\ n + i = c + k + (n + i - c - k)
              BY <1>2, <1>3, <1>4, <4>2
            <6> QED  BY <6>1
          <5> QED  BY <1>9, <5>1
        <4> QED  BY <2>1, <4>1, <4>2
      <3> QED  BY <1>6, <3>1, <3>2
    <2>2. CASE ~(i <= b \/ i > b + k)
      <3>1. PICK j \in 1 .. k : i = b + j /\ n + i = c + j
        <4>1. i - b \in 1 .. k /\ i = b + (i - b) /\ n + i = c + (i - b)
          BY <1>2, <1>4, <2>2
        <4> QED  BY <4>1
      <3> QED  BY <1>5, <1>9, <3>1
    <2> QED  BY <2>1, <2>2
  <1>11. n + 1 \in At(d, t)
    <2>1. Stands(d, n, t) /\ n + Len(t) <= Len(d)
      BY <1>2, <1>3, <1>9, <1>10, Zenon DEF Stands
    <2> QED  BY <1>1, <1>9, <2>1, AtPlaces, Zenon
  <1>12. n + Len(t) <= MaxHint
    BY <1>2, <1>3, Zenon
  <1>13. n + 1 \in At(h, t)
    BY <1>0, <1>1, <1>9, <1>11, <1>12, CutHolds, Zenon
  <1> QED  BY <1>3, <1>8, <1>13, Zenon DEF HintHas

\* r has the k bytes of v in reverse.
Backwards(r, v, k) == /\ r \in Seq(AnyByte) /\ Len(r) = k
                      /\ \A i \in 1 .. k : r[i] = v[(k - i) + 1]

\* Bytes in reverse.
LEMMA Reversed ==
  ASSUME NEW v \in Seq(AnyByte)
  PROVE  Backwards(Reverse(v), v, Len(v)) /\ Reverse(v) \in Seq(AnyByte)
  <1>1. PICK k \in Nat : k = Len(v) /\ \A i \in 1 .. k : v[i] \in AnyByte
    OBVIOUS
  <1>2. Reverse(v) = [i \in 1 .. k |-> v[(k - i) + 1]]
    BY <1>1 DEF Reverse
  <1>3. \A i \in 1 .. k : (k - i) + 1 \in 1 .. k
    OBVIOUS
  <1>4. Reverse(v) \in [1 .. k -> AnyByte] /\ \A i \in 1 .. k : Reverse(v)[i] = v[(k - i) + 1]
    BY <1>1, <1>2, <1>3
  <1> HIDE DEF Reverse
  <1>5. Reverse(v) \in Seq(AnyByte) /\ Len(Reverse(v)) = k
    BY <1>4
  <1> QED  BY <1>1, <1>4, <1>5, Zenon DEF Backwards

\* What is first in one byte order is last in the other.
LEMMA SwapsReversed ==
  ASSUME NEW v, NEW m, NEW x, NEW t, Swaps(v, m, x, t, 0)
  PROVE  Swaps(Reverse(v), Reverse(m), Reverse(x), Reverse(t), Len(x) - Len(v))
  <1>1. v \in Seq(AnyByte) /\ m \in Seq(AnyByte) /\ x \in Seq(AnyByte) /\ t \in Seq(AnyByte)
    BY DEF Swaps
  <1>2. PICK k \in Nat, w \in Nat, a \in Nat :
          k = Len(v) /\ k = Len(m) /\ w = Len(x) /\ w = Len(t) /\ a = w - k /\ a + k = w
    <2>1. Len(x) - Len(v) \in Nat
      BY <1>1 DEF Swaps
    <2> QED  BY <1>1, <2>1 DEF Swaps
  <1>3. PICK rv \in Seq(AnyByte), rm \in Seq(AnyByte), rx \in Seq(AnyByte), rt \in Seq(AnyByte) :
          /\ rv = Reverse(v) /\ rm = Reverse(m) /\ rx = Reverse(x) /\ rt = Reverse(t)
    BY <1>1, Reversed
  <1>4. /\ Len(rv) = k /\ Len(rm) = k /\ Len(rx) = w /\ Len(rt) = w
        /\ \A i \in 1 .. k : rv[i] = v[(k - i) + 1] /\ rm[i] = m[(k - i) + 1]
        /\ \A i \in 1 .. w : rx[i] = x[(w - i) + 1] /\ rt[i] = t[(w - i) + 1]
    <2>1. Backwards(rv, v, k) /\ Backwards(rm, m, k) /\ Backwards(rx, x, w) /\ Backwards(rt, t, w)
      BY <1>1, <1>2, <1>3, Reversed
    <2> QED  BY <2>1, Zenon DEF Backwards
  <1>5. /\ \A i \in 1 .. k : v[i] = x[0 + i] /\ m[i] = t[0 + i]
        /\ \A i \in 1 .. w : i <= 0 \/ i > 0 + k => x[i] = t[i]
    BY <1>2, Zenon DEF Swaps
  <1>6. ASSUME NEW i \in 1 .. k PROVE rv[i] = rx[a + i] /\ rm[i] = rt[a + i]
    <2>1. PICK j \in 1 .. k : j = (k - i) + 1 /\ j = (w - (a + i)) + 1 /\ 0 + j = j /\ a + i \in 1 .. w
      <3>1. (k - i) + 1 \in 1 .. k /\ (k - i) + 1 = (w - (a + i)) + 1 /\ a + i \in 1 .. w
        BY <1>2
      <3> QED  BY <3>1
    <2>2. v[j] = x[j] /\ m[j] = t[j]
      BY <1>5, <2>1
    <2>3. rx[a + i] = x[j] /\ rt[a + i] = t[j]
      BY <1>4, <2>1
    <2> QED  BY <1>4, <2>1, <2>2, <2>3
  <1>7. ASSUME NEW i \in 1 .. w, i <= a \/ i > a + k PROVE rx[i] = rt[i]
    <2>1. PICK j \in 1 .. w : j = (w - i) + 1 /\ j > 0 + k
      <3>1. (w - i) + 1 \in 1 .. w /\ (w - i) + 1 > 0 + k
        BY <1>2, <1>7
      <3> QED  BY <3>1
    <2>2. x[j] = t[j]
      BY <1>5, <2>1
    <2> QED  BY <1>4, <2>1, <2>2
  <1>8. Swaps(rv, rm, rx, rt, a)
    BY <1>2, <1>4, <1>6, <1>7 DEF Swaps
  <1> QED  BY <1>2, <1>3, <1>8

\* Two integer operands v and u of one sample, cut to k bytes.
CutTo(o, v, u, k) ==
  /\ v = operands[o] /\ u = operands[3 - o]
  /\ v \in Seq(AnyByte) /\ u \in Seq(AnyByte) /\ Len(v) = k /\ Len(u) = k
  /\ k \in Nat /\ k <= Wide

\* A variable operand is replaced by the other one, its successor and its
\* predecessor, in both byte orders.
LEMMA MovedReplaces ==
  ASSUME NEW o, ~compared.string, NEW v, NEW u, NEW k, CutTo(o, v, u, k), k > 0, NEW d \in Offsets
  PROVE  Replaces(o, v, Moved(u, d)) /\ Replaces(o, Reverse(v), Reverse(Moved(u, d)))
  <1> USE DEF CutTo
  <1>1. PICK m \in Seq(AnyByte) : m = Moved(u, d) /\ Len(m) = k
    BY MovedBytes
  <1>2. v # <<>> /\ Reverse(v) \in Seq(AnyByte) /\ Reverse(v) # <<>> /\ Reverse(m) \in Seq(AnyByte)
    <2>1. Reverse(v) \in Seq(AnyByte) /\ Len(Reverse(v)) = k /\ Reverse(m) \in Seq(AnyByte)
      BY <1>1, Reversed DEF Backwards
    <2> HIDE DEF Reverse
    <2> QED  BY <2>1
  <1>3. replacements(v, u, compared.string) = {<<v, u>>, <<Hex(v), Hex(u)>>} \cup encodings(v, u)
    BY DEF replacements
  <1>4. d = 0 \/ d = 1 \/ d = -1
    BY DEF Offsets
  <1>5. <<v, m>> \in replacements(v, u, compared.string)
    <2>1. CASE d = 0
      BY <1>1, <1>3, <2>1 DEF Moved
    <2>2. CASE d = 1
      <3>1. m = increment(u)
        BY <1>1, <2>2 DEF Moved
      <3>2. <<v, m>> \in encodings(v, u)
        BY <3>1 DEF encodings
      <3> QED  BY <1>3, <3>2
    <2>3. CASE d = -1
      <3>1. m = decrement(u)
        BY <1>1, <2>3 DEF Moved
      <3>2. <<v, m>> \in encodings(v, u)
        BY <3>1 DEF encodings
      <3> QED  BY <1>3, <3>2
    <2> QED  BY <1>4, <2>1, <2>2, <2>3
  <1>6. <<Reverse(v), Reverse(m)>> \in replacements(v, u, compared.string)
    <2>1. CASE k = 1
      <3>1. Reverse(v) = v /\ Reverse(m) = m
        <4>1. \A s \in Seq(AnyByte) : Len(s) = 1 => Reverse(s) = s
          <5> SUFFICES ASSUME NEW s \in Seq(AnyByte), Len(s) = 1 PROVE Reverse(s) = s
            OBVIOUS
          <5>1. PICK r \in Seq(AnyByte) : r = Reverse(s) /\ Len(r) = 1 /\ r[1] = s[1]
            <6>1. 1 \in 1 .. 1 /\ (1 - 1) + 1 = 1
              OBVIOUS
            <6> QED  BY <6>1, Reversed DEF Backwards
          <5>2. \A i \in 1 .. Len(r) : r[i] = s[i]
            BY <5>1
          <5> QED  BY <5>1, <5>2, SeqEqual
        <4> QED  BY <1>1, <2>1, <4>1
      <3> QED  BY <1>5, <3>1
    <2>2. CASE k # 1
      <3>1. ~(Len(v) <= 1)
        BY <2>2
      <3>2. {<<Reverse(v), Reverse(u)>>, <<Reverse(v), Reverse(increment(u))>>,
             <<Reverse(v), Reverse(decrement(u))>>} \subseteq encodings(v, u)
        BY <3>1 DEF encodings
      <3>3. m \in {u, increment(u), decrement(u)}
        BY <1>1, <1>4 DEF Moved
      <3> QED  BY <1>3, <3>2, <3>3
    <2> QED  BY <2>1, <2>2
  <1> HIDE DEF Reverse, Moved, replacements
  <1> QED  BY <1>1, <1>2, <1>5, <1>6 DEF Replaces

\* Every value next to the other operand is tried in place of an operand.
LEMMA ValueRight == SamplesRight => ValueReached
  <1> SUFFICES ASSUME SamplesRight, Tried, ~compared.string,
                      NEW o \in Variables, NEW d \in Offsets, Len(operands[o]) > 0,
                      \A i \in Len(operands[o]) + 1 .. Len(compared.raw[o]) :
                        compared.raw[o][i] = Near(o, d)[i]
               PROVE  LET v == operands[o]
                          w == Prefix(Near(o, d), Len(v))
                      IN  /\ OwnKey(v, w) => \A p \in Uncut(compared.raw[o]) : HintHas(p, Near(o, d))
                          /\ OwnKey(Reverse(v), Reverse(w)) =>
                               \A p \in Uncut(Reverse(compared.raw[o])) :
                                 HintHas(p, Reverse(Near(o, d)))
    BY Zenon DEF ValueReached, Offsets
  <1>1. Tested(o) /\ o \in 1 .. 2 /\ 3 - o \in 1 .. 2
    BY DEF Tested, Variables
  <1>2. compared \in Comparisons /\ operands = trim(compared.raw)
    BY ComparedRight DEF SamplesRight, Parsed, Tried
  <1>3. PICK k \in Nat : \A e \in 1 .. 2 :
           /\ operands[e] \in Seq(AnyByte) /\ Len(operands[e]) = k
           /\ k <= Len(compared.raw[e]) /\ Len(compared.raw[e]) <= Wide
           /\ compared.raw[e] \in Seq(AnyByte)
           /\ \A i \in 1 .. k : operands[e][i] = compared.raw[e][i]
    BY <1>2, Trimmed
  <1>0. PICK v \in Seq(AnyByte), u \in Seq(AnyByte), x \in Seq(AnyByte), y \in Seq(AnyByte) :
          v = operands[o] /\ u = operands[3 - o] /\ x = compared.raw[o] /\ y = compared.raw[3 - o]
    BY <1>1, <1>3, Zenon
  <1>4. PICK w \in Nat :
          /\ v = operands[o] /\ u = operands[3 - o] /\ x = compared.raw[o] /\ y = compared.raw[3 - o]
          /\ Len(v) = k /\ Len(u) = k /\ w = Len(x) /\ k <= w /\ k <= Len(y) /\ w <= Wide /\ k > 0
          /\ \A i \in 1 .. k : v[i] = x[i] /\ u[i] = y[i]
    <2>1. /\ operands[o] \in Seq(AnyByte) /\ compared.raw[o] \in Seq(AnyByte)
          /\ Len(operands[o]) = k
          /\ k <= Len(compared.raw[o]) /\ Len(compared.raw[o]) <= Wide
          /\ \A i \in 1 .. k : operands[o][i] = compared.raw[o][i]
      BY <1>1, <1>3, Zenon
    <2>2. /\ operands[3 - o] \in Seq(AnyByte) /\ compared.raw[3 - o] \in Seq(AnyByte)
          /\ Len(operands[3 - o]) = k /\ k <= Len(compared.raw[3 - o])
          /\ \A i \in 1 .. k : operands[3 - o][i] = compared.raw[3 - o][i]
      BY <1>1, <1>3, Zenon
    <2>3. k > 0 /\ Len(compared.raw[o]) \in Nat
      BY <2>1
    <2>4. \A i \in 1 .. k : v[i] = x[i] /\ u[i] = y[i]
      BY <1>0, <2>1, <2>2
    <2> QED  BY <1>0, <2>1, <2>2, <2>3, <2>4, Zenon
  <1>5. CutTo(o, v, u, k)
    BY <1>4, Constants DEF CutTo
  <1>6. PICK t \in Seq(AnyByte) :
          /\ t = Near(o, d) /\ Len(t) = w
          /\ \A i \in 1 .. k : t[i] = (y[i] + Carry(y, d, i)) % Base
    <2>1. k \in 1 .. w
      BY <1>4
    <2>2. Near(o, d) = Bytes(Number(Prefix(y, w)) + d, w)
      BY <1>4 DEF Near
    <2>3. k <= Len(y)
      BY <1>4
    <2>4. /\ Bytes(Number(Prefix(y, w)) + d, w) \in Seq(AnyByte)
          /\ Len(Bytes(Number(Prefix(y, w)) + d, w)) = w
          /\ \A i \in 1 .. k : Bytes(Number(Prefix(y, w)) + d, w)[i] = (y[i] + Carry(y, d, i)) % Base
      BY <2>1, <2>3, NearLow, Zenon
    <2> QED  BY <2>2, <2>4, Zenon
  <1>7. PICK m \in Seq(AnyByte) :
          /\ m = Moved(u, d) /\ Len(m) = k
          /\ \A i \in 1 .. k : m[i] = (u[i] + Carry(u, d, i)) % Base
    <2>1. /\ Moved(u, d) \in Seq(AnyByte) /\ Len(Moved(u, d)) = Len(u)
          /\ \A i \in 1 .. Len(u) : Moved(u, d)[i] = (u[i] + Carry(u, d, i)) % Base
      BY MovedBytes, Zenon
    <2>2. Len(u) = k
      BY <1>4
    <2> QED  BY <2>1, <2>2, Zenon
  <1>8. ASSUME NEW i \in 1 .. k PROVE m[i] = t[i]
    <2>1. \A j \in 1 .. i - 1 : u[j] = y[j]
      BY <1>4
    <2>2. Carry(u, d, i) = Carry(y, d, i)
      BY <2>1 DEF Carry
    <2> QED  BY <1>4, <1>6, <1>7, <2>2
  <1>9. Swaps(v, m, x, t, 0)
    <2>1. \A i \in 1 .. w : i <= 0 \/ i > 0 + k => x[i] = t[i]
      <3>1. \A i \in k + 1 .. w : x[i] = t[i]
        BY <1>4, <1>6
      <3> QED  BY <3>1
    <2>2. \A i \in 1 .. k : 0 + i = i
      OBVIOUS
    <2>3. \A i \in 1 .. k : v[i] = x[0 + i] /\ m[i] = t[0 + i]
      BY <1>4, <1>8, <2>2
    <2> QED  BY <1>4, <1>6, <1>7, <2>1, <2>3 DEF Swaps
  <1>10. Replaces(o, v, m) /\ Replaces(o, Reverse(v), Reverse(m))
    BY <1>4, <1>5, <1>7, MovedReplaces, Zenon
  <1>11. Swaps(Reverse(v), Reverse(m), Reverse(x), Reverse(t), Len(x) - Len(v))
    BY <1>9, SwapsReversed, Zenon
  <1>12. m = Prefix(t, k)
    <2>1. k <= Len(t) /\ (IF k < Len(t) THEN k ELSE Len(t)) = k
      BY <1>4, <1>6
    <2>2. PICK r : r = SubSeq(t, 1, k) /\ r \in Seq(AnyByte) /\ Len(r) = k
                   /\ \A i \in 1 .. k : r[i] = t[i]
      <3>1. 0 \in Nat /\ 0 + 1 = 1 /\ 0 + k = k /\ 0 + k <= Len(t) /\ \A i \in 1 .. k : 0 + i = i
        BY <2>1
      <3>2. Part(SubSeq(t, 0 + 1, 0 + k), t, 0, k)
        BY <3>1, PartOf, Zenon
      <3> QED  BY <3>1, <3>2, Zenon DEF Part
    <2>3. m = r
      BY <1>7, <1>8, <2>2, SeqEqual
    <2> QED  BY <2>1, <2>2, <2>3, Zenon DEF Prefix
  <1>13. OwnKey(v, m) => \A p \in Uncut(x) : HintHas(p, t)
    BY <1>1, <1>9, <1>10, SwapReached, Zenon
  <1>14. OwnKey(Reverse(v), Reverse(m)) => \A p \in Uncut(Reverse(x)) : HintHas(p, Reverse(t))
    BY <1>1, <1>10, <1>11, SwapReached, Zenon
  <1> QED  BY <1>4, <1>6, <1>12, <1>13, <1>14, Zenon

-----------------------------------------------------------------------------
(* Numbers of one width.                                                   *)

\* Two halves of a byte's values, the upper of which has the bit of PutUvarint.
LEMMA Groups ==
  /\ Group \in Nat /\ Group >= 2 /\ Base = Group + Group
  /\ \A b \in Nat : b \in AnyByte <=> b < Group + Group
  /\ \A b \in AnyByte : b \in Nat
  <1>1. PICK B \in Nat : B = Base /\ B > 2 /\ B % 2 = 0
    BY SonarAssumption
  <1>2. B \div 2 \in Nat /\ B \div 2 >= 2 /\ B = B \div 2 + B \div 2
    BY <1>1
  <1> QED  BY <1>1, <1>2 DEF Group, AnyByte

\* Greater digits make a greater number.
LEMMA Digitwise ==
  ASSUME NEW l \in Nat, NEW n, NEW d, NEW m, NEW e, Reads(n, d, l), Reads(m, e, l),
         n[l + 1] <= m[l + 1],
         \A i \in 1 .. l : d[i] \in AnyByte /\ e[i] \in AnyByte /\ d[i] <= e[i]
  PROVE  n[1] <= m[1]
  <1> DEFINE S == {i \in 1 .. l + 1 : n[i] <= m[i]}
  <1>1. l + 1 \in S
    OBVIOUS
  <1>2. ASSUME NEW i \in 1 .. l, i + 1 \in S PROVE i \in S
    <2>1. PICK x \in Int, y \in Int, c \in AnyByte, f \in AnyByte :
            /\ x = n[i + 1] /\ y = m[i + 1] /\ c = d[i] /\ f = e[i] /\ x <= y /\ c <= f
      BY <1>2 DEF Reads
    <2>2. n[i] = c + Base * x /\ m[i] = f + Base * y /\ n[i] \in Int /\ m[i] \in Int
      BY <2>1 DEF Reads
    <2>3. PICK B \in Nat, z \in Nat : B = Base /\ y = x + z /\ c \in Nat /\ f \in Nat
      <3>1. y - x \in Nat /\ y = x + (y - x)
        BY <2>1
      <3> QED  BY <2>1, <3>1, Constants
    <2>4. B * (x + z) = B * x + B * z /\ B * z >= 0 /\ B * x \in Int /\ B * z \in Int
      BY <2>3
    <2>5. n[i] <= m[i]
      BY <2>1, <2>2, <2>3, <2>4
    <2> QED  BY <2>5
  <1>3. 1 \in S
    <2>1. 1 \in 1 .. l + 1
      OBVIOUS
    <2> HIDE DEF S
    <2> QED  BY <1>1, <1>2, <2>1, Downward
  <1> QED  BY <1>3

\* Every number of Wide bytes is one of them, so Wrap leaves it alone.
LEMMA InWidth ==
  /\ MaxUint \in Nat
  /\ \A v \in Seq(AnyByte) : Len(v) <= Wide => Number(v) \in 0 .. MaxUint
  <1> DEFINE all == [i \in 1 .. Wide |-> Base - 1]
  <1>1. all \in Seq(AnyByte) /\ Len(all) = Wide /\ \A i \in 1 .. Wide : all[i] = Base - 1
    BY Constants
  <1> HIDE DEF all
  <1>2. PICK m : Reads(m, all, Wide) /\ m[Wide + 1] = 0 /\ MaxUint = m[1]
    <2>1. \E m : Reads(m, all, Len(all)) /\ m[Len(all) + 1] = 0 /\ Reading(all, 0) = m[1]
      <3>1. 0 \in Int
        OBVIOUS
      <3> QED  BY <1>1, <3>1, ReadingExists, Zenon
    <2> QED  BY <1>1, <2>1 DEF MaxUint, Number, all
  <1>3. Wide \in Nat /\ 1 \in 1 .. Wide + 1 /\ \A i \in 1 .. Wide : all[i] \in AnyByte
    BY <1>1, Constants
  <1>4. MaxUint \in Nat
    <2>1. m[1] \in Int /\ m[1] >= 0
      BY <1>2, <1>3, NotNegative
    <2> QED  BY <1>2, <2>1
  <1>5. ASSUME NEW v \in Seq(AnyByte), Len(v) <= Wide PROVE Number(v) \in 0 .. MaxUint
    <2>1. PICK n, d : /\ \A i \in 1 .. Wide : d[i] = Digit(v, i)
                      /\ Reads(n, d, Wide) /\ n[Wide + 1] = 0 /\ Reading(v, 0) = n[1]
      BY <1>3, <1>5, Padded
    <2>2. ASSUME NEW i \in 1 .. Wide PROVE d[i] \in AnyByte /\ d[i] <= all[i]
      <3>1. Digit(v, i) \in AnyByte
        BY Constants DEF Digit
      <3>2. PICK c \in Nat : c = d[i] /\ c < Base /\ c \in AnyByte
        BY <2>1, <3>1, Constants
      <3> QED  BY <1>1, <3>2, Constants
    <2>3. n[1] \in Int /\ n[1] >= 0
      BY <1>3, <2>1, <2>2, NotNegative
    <2>4. n[1] <= m[1]
      BY <1>2, <1>3, <2>1, <2>2, Digitwise
    <2> QED  BY <1>2, <1>4, <2>1, <2>3, <2>4 DEF Number
  <1> QED  BY <1>4, <1>5

-----------------------------------------------------------------------------
(* Base-128.                                                               *)

\* What holds of 0, and of the next number if of a number, holds of all.
LEMMA FromZero ==
  ASSUME NEW k \in Nat, NEW S, 0 \in S, \A i \in 0 .. k : i \in S /\ i < k => i + 1 \in S
  PROVE  \A i \in 0 .. k : i \in S
  <1> DEFINE T == {i \in 1 .. k + 1 : i - 1 \in S}
  <1>1. 1 \in T
    OBVIOUS
  <1>2. ASSUME NEW i \in 1 .. k, i \in T PROVE i + 1 \in T
    <2>1. PICK j \in 0 .. k : j = i - 1 /\ j < k /\ j + 1 = (i + 1) - 1 /\ i + 1 \in 1 .. k + 1 /\ j \in S
      BY <1>2
    <2>2. j + 1 \in S
      BY <2>1
    <2> QED  BY <2>1, <2>2
  <1>3. \A i \in 1 .. k + 1 : i \in T
    <2> HIDE DEF T
    <2> QED  BY <1>1, <1>2, Upward
  <1>4. \A i \in 0 .. k : i + 1 \in 1 .. k + 1 /\ (i + 1) - 1 = i
    OBVIOUS
  <1> QED  BY <1>3, <1>4

\* A quotient of a number is smaller, unless there is none.
LEMMA GroupAbove ==
  ASSUME NEW u \in Nat
  PROVE  /\ u \div Group \in Nat /\ u % Group \in 0 .. Group - 1
         /\ u = (u % Group) + Group * (u \div Group)
         /\ u \div Group <= u
         /\ u >= Group => u \div Group > 0 /\ u \div Group < u
  <1>1. PICK G \in Nat : G = Group /\ G >= 2
    BY Groups
  <1>2. PICK q \in Nat, r \in 0 .. G - 1 : q = u \div G /\ r = u % G /\ u = r + G * q
    <2>1. u \div G \in Nat /\ u % G \in 0 .. G - 1 /\ u = (u % G) + G * (u \div G)
      BY <1>1
    <2> QED  BY <2>1
  <1>3. G * q >= q + q
    BY <1>1, <1>2
  <1>4. q <= u /\ (q > 0 => q < u)
    BY <1>2, <1>3
  <1>5. u >= G => q > 0
    <2>1. q = 0 => G * q = 0
      BY <1>1
    <2> QED  BY <1>2, <2>1
  <1> QED  BY <1>1, <1>2, <1>4, <1>5

\* PutUvarint does what it says.
LEMMA PutUvarintSteps ==
  \A u \in 0 .. MaxUint :
    PutUvarint[u] = IF u < Group THEN <<u>> ELSE <<(u % Group) + Group>> \o PutUvarint[u \div Group]
  <1> DEFINE Pos == 0 .. MaxUint
             body(f, u) == IF u < Group THEN <<u>> ELSE <<(u % Group) + Group>> \o f[u \div Group]
             Fit(f, k) == f = [u \in Pos |-> f[u]] /\ \A u \in 0 .. k : f[u] = body(f, u)
             S == {k \in Pos : \E f : Fit(f, k)}
  <1>0. PICK M \in Nat : M = MaxUint
    BY InWidth
  <1>1. 0 \in S
    <2>1. \A u \in 0 .. 0 : u = 0 /\ u < Group
      BY Groups
    <2>2. Fit([u \in Pos |-> <<u>>], 0)
      BY <1>0, <2>1
    <2>3. 0 \in Pos
      BY <1>0
    <2> HIDE DEF Fit, Pos
    <2> QED  BY <2>2, <2>3
  <1>2. ASSUME NEW k \in 0 .. M, k \in S, k < M PROVE k + 1 \in S
    <2>1. PICK f : Fit(f, k)
      BY <1>2
    <2> DEFINE g == [u \in Pos |-> IF u = k + 1 THEN body(f, u) ELSE f[u]]
    <2>2. ASSUME NEW u \in 0 .. k + 1 PROVE g[u] = body(g, u)
      <3>1. u \in Pos /\ (u # k + 1 => u \in 0 .. k)
        BY <1>0, <1>2
      <3>2. ~(u < Group) => g[u \div Group] = f[u \div Group]
        <4> SUFFICES ASSUME ~(u < Group) PROVE g[u \div Group] = f[u \div Group]
          OBVIOUS
        <4>1. u \in Nat /\ u >= Group
          BY Groups
        <4>2. PICK j \in Nat : j = u \div Group /\ j < u
          BY <4>1, GroupAbove
        <4>3. j \in Pos /\ j # k + 1
          BY <1>0, <3>1, <4>2
        <4> HIDE DEF Pos, body
        <4> QED  BY <4>2, <4>3
      <3>3. body(f, u) = body(g, u)
        <4> HIDE DEF g
        <4> QED  BY <3>2
      <3>4. g[u] = body(f, u)
        <4> HIDE DEF body, Pos
        <4> QED  BY <2>1, <3>1
      <3> HIDE DEF g, body
      <3> QED  BY <3>3, <3>4
    <2>3. g = [u \in Pos |-> g[u]]
      <3> HIDE DEF Pos, body
      <3> QED  OBVIOUS
    <2>4. Fit(g, k + 1)
      <3> HIDE DEF g, body
      <3> QED  BY <2>2, <2>3
    <2>5. k + 1 \in Pos
      BY <1>0, <1>2
    <2> HIDE DEF Fit, Pos
    <2> QED  BY <2>4, <2>5, Zenon
  <1>3. PICK f : Fit(f, M)
    <2> HIDE DEF S
    <2>1. \A i \in 0 .. M : i \in S
      BY <1>1, <1>2, FromZero
    <2>2. M \in S
      BY <2>1
    <2> QED  BY <2>2 DEF S
  <1>4. f = [u \in Pos |-> body(f, u)]
    <2>1. f = [u \in Pos |-> f[u]] /\ \A u \in Pos : f[u] = body(f, u)
      BY <1>0, <1>3
    <2> HIDE DEF body, Pos
    <2> QED  BY <2>1
  <1>5. PutUvarint = CHOOSE h : h = [u \in Pos |-> body(h, u)]
    BY DEF PutUvarint
  <1>6. PutUvarint = [u \in Pos |-> body(PutUvarint, u)]
    <2> HIDE DEF body, Pos
    <2> QED  BY <1>4, <1>5
  <1>7. \A u \in Pos : PutUvarint[u] = body(PutUvarint, u)
    <2> HIDE DEF body, Pos
    <2> QED  BY <1>6
  <1> QED  BY <1>7, Zenon

\* n reads s in groups.
ReadsGroups(n, s, k) ==
  /\ \A i \in 1 .. k + 1 : n[i] \in Nat
  /\ n[k + 1] = 0 /\ \A i \in 1 .. k : n[i] = (s[i] % Group) + Group * n[i + 1]

\* A group is part of a byte.
LEMMA GroupOf ==
  ASSUME NEW b \in AnyByte
  PROVE  /\ b % Group \in Nat /\ b % Group < Group
         /\ b < Group => b % Group = b
         /\ b >= Group => b = (b % Group) + Group
  <1>1. PICK G \in Nat : G = Group /\ G >= 2 /\ b \in Nat /\ b < G + G
    BY Groups
  <1>2. b % G \in Nat /\ b % G < G
    BY <1>1
  <1>3. b < G => b % G = b
    BY <1>1
  <1>4. b >= G => b = (b % G) + G
    <2> SUFFICES ASSUME b >= G PROVE b = (b % G) + G
      OBVIOUS
    <2>1. PICK r \in 0 .. G - 1 : b = r + G * 1 /\ b = r + G
      <3>1. b - G \in 0 .. G - 1 /\ b = (b - G) + G * 1 /\ b = (b - G) + G
        BY <1>1
      <3> QED  BY <3>1
    <2>2. b % G = r
      BY <1>1, <2>1, DivMod
    <2> QED  BY <2>1, <2>2
  <1> QED  BY <1>1, <1>2, <1>3, <1>4

\* There is such a reading of every sequence of bytes.
LEMMA DecodedExists ==
  ASSUME NEW s \in Seq(AnyByte)
  PROVE  \E n : ReadsGroups(n, s, Len(s)) /\ Decoded(s) = n[1]
  <1> DEFINE L == Len(s)
             Pos == 1 .. L + 1
             body(f, i) == IF i > L THEN 0 ELSE (s[i] % Group) + Group * f[i + 1]
  <1>0. L \in Nat /\ (\A i \in 1 .. L : s[i] % Group \in Nat) /\ Group \in Nat
    <2>1. L \in Nat /\ \A i \in 1 .. L : s[i] \in AnyByte
      OBVIOUS
    <2> QED  BY <2>1, Groups, GroupOf, Zenon
  <1> HIDE DEF L
  <1> DEFINE n == CHOOSE f : f = [i \in Pos |-> body(f, i)]
  <1>4. n = [i \in Pos |-> body(n, i)]
    <2> DEFINE d == [i \in 1 .. L |-> s[i] % Group]
    <2> HIDE DEF d
    <2>0. PICK f : Table(f, L, d, Group, 0)
      BY <1>0, Tables, Zenon
    <2>1. f = [i \in Pos |-> IF i > L THEN 0 ELSE d[i] + Group * f[i + 1]]
      BY <2>0 DEF Table
    <2>2. \A i \in Pos : f[i] = body(f, i)
      <3>1. \A i \in Pos : ~(i > L) => d[i] = s[i] % Group
        BY <1>0 DEF d
      <3> QED  BY <2>1, <3>1
    <2>3. f = [i \in Pos |-> f[i]]
      <3> HIDE DEF Pos
      <3> QED  BY <2>1
    <2>4. f = [i \in Pos |-> body(f, i)]
      <3> HIDE DEF body, Pos
      <3> QED  BY <2>2, <2>3
    <2> HIDE DEF body, Pos
    <2> QED  BY <2>4
  <1>5. Decoded(s) = n[1]
    BY DEF Decoded, L
  <1> HIDE DEF n
  <1>6. n[L + 1] = 0 /\ \A i \in 1 .. L : n[i] = (s[i] % Group) + Group * n[i + 1]
    BY <1>0, <1>4
  <1>7. \A i \in Pos : n[i] \in Nat
    <2> DEFINE R == {i \in Pos : n[i] \in Nat}
    <2>1. L + 1 \in R
      BY <1>0, <1>6
    <2>2. ASSUME NEW i \in 1 .. L, i + 1 \in R PROVE i \in R
      <3>1. PICK x \in Nat, r \in Nat, G \in Nat :
              x = n[i + 1] /\ r = s[i] % Group /\ G = Group /\ n[i] = r + G * x
        BY <1>0, <1>6, <2>2
      <3>2. G * x \in Nat
        BY <3>1
      <3>3. n[i] \in Nat /\ i \in Pos
        BY <1>0, <3>1, <3>2
      <3> QED  BY <3>3
    <2>3. \A i \in Pos : i \in R
      <3> HIDE DEF R
      <3> QED  BY <1>0, <2>1, <2>2, Downward
    <2> QED  BY <2>3
  <1>8. ReadsGroups(n, s, L)
    BY <1>6, <1>7 DEF ReadsGroups
  <1> QED  BY <1>5, <1>8, Zenon DEF L

\* s is the byte b and then t.
Ahead(s, b, t) == /\ s \in Seq(AnyByte) /\ t \in Seq(AnyByte) /\ b \in AnyByte
                  /\ Len(s) = Len(t) + 1 /\ s[1] = b
                  /\ \A i \in 1 .. Len(t) : s[i + 1] = t[i]

\* One group more.
LEMMA DecodedAhead ==
  ASSUME NEW s, NEW b, NEW t, Ahead(s, b, t)
  PROVE  /\ Decoded(t) \in Nat /\ Decoded(s) \in Nat
         /\ Decoded(s) = (b % Group) + Group * Decoded(t)
         /\ Len(t) = 0 => Decoded(t) = 0
  <1>1. PICK k \in Nat : k = Len(t) /\ k + 1 = Len(s)
    BY DEF Ahead
  <1>2. PICK n : ReadsGroups(n, s, k + 1) /\ Decoded(s) = n[1]
    BY <1>1, DecodedExists DEF Ahead
  <1>3. PICK m : ReadsGroups(m, t, k) /\ Decoded(t) = m[1]
    BY <1>1, DecodedExists DEF Ahead
  <1> DEFINE S == {i \in 1 .. k + 1 : m[i] = n[i + 1]}
  <1>4. k + 1 \in S
    BY <1>2, <1>3 DEF ReadsGroups
  <1>5. ASSUME NEW i \in 1 .. k, i + 1 \in S PROVE i \in S
    <2>1. m[i + 1] = n[(i + 1) + 1] /\ i + 1 \in 1 .. k + 1
      BY <1>5
    <2>2. m[i] = (t[i] % Group) + Group * m[i + 1]
      BY <1>3 DEF ReadsGroups
    <2>3. n[i + 1] = (s[i + 1] % Group) + Group * n[(i + 1) + 1]
      BY <1>2, <2>1 DEF ReadsGroups
    <2>4. s[i + 1] = t[i]
      BY <1>1 DEF Ahead
    <2>5. m[i] = n[i + 1]
      BY <2>1, <2>2, <2>3, <2>4
    <2> QED  BY <2>5
  <1>6. m[1] = n[2]
    <2>1. 1 \in 1 .. k + 1
      OBVIOUS
    <2>2. 1 \in S
      <3> HIDE DEF S
      <3> QED  BY <1>4, <1>5, <2>1, Downward
    <2> QED  BY <2>2
  <1>7. n[1] = (s[1] % Group) + Group * n[2]
    <2>1. 1 \in 1 .. k + 1 /\ 1 + 1 = 2
      OBVIOUS
    <2> QED  BY <1>2, <2>1 DEF ReadsGroups
  <1>8. m[1] \in Nat /\ n[1] \in Nat /\ (k = 0 => m[1] = 0)
    <2>1. 1 \in 1 .. k + 1 /\ 1 \in 1 .. (k + 1) + 1 /\ (k = 0 => k + 1 = 1)
      OBVIOUS
    <2> QED  BY <1>2, <1>3, <2>1 DEF ReadsGroups
  <1>9. s[1] = b
    BY DEF Ahead
  <1> QED  BY <1>1, <1>2, <1>3, <1>6, <1>7, <1>8, <1>9

\* A varint of two groups or more is a byte with the bit and a varint that is not 0.
LEMMA VarintAhead ==
  ASSUME NEW s, NEW b, NEW t, Ahead(s, b, t), Len(t) > 0
  PROVE  IsVarint(s) <=> b >= Group /\ IsVarint(t) /\ t[Len(t)] > 0
  <1>1. PICK k \in Nat : k = Len(t) /\ k + 1 = Len(s) /\ k > 0 /\ DOMAIN t = 1 .. k /\ DOMAIN s = 1 .. k + 1
    BY DEF Ahead
  <1>2. s[1] = b /\ \A i \in 1 .. k : s[i + 1] = t[i]
    BY <1>1 DEF Ahead
  <1>3. s[k + 1] = t[k] /\ k \in 1 .. k
    BY <1>1, <1>2
  <1>4. ASSUME IsVarint(s) PROVE b >= Group /\ IsVarint(t) /\ t[k] > 0
    <2>1. (\A i \in 1 .. k + 1 : s[i] >= Group <=> i < k + 1) /\ s[k + 1] > 0
      BY <1>1, <1>4 DEF IsVarint
    <2>2. b >= Group
      BY <1>1, <1>2, <2>1
    <2>3. \A i \in 1 .. k : t[i] >= Group <=> i < k
      <3>1. \A i \in 1 .. k : i + 1 \in 1 .. k + 1 /\ (i + 1 < k + 1 <=> i < k)
        OBVIOUS
      <3> QED  BY <1>2, <2>1, <3>1
    <2> QED  BY <1>1, <1>3, <2>1, <2>2, <2>3 DEF IsVarint
  <1>5. ASSUME b >= Group, IsVarint(t), t[k] > 0 PROVE IsVarint(s)
    <2>1. \A i \in 1 .. k : t[i] >= Group <=> i < k
      BY <1>1, <1>5 DEF IsVarint
    <2>2. ASSUME NEW i \in 1 .. k + 1 PROVE s[i] >= Group <=> i < k + 1
      <3>1. CASE i = 1
        BY <1>1, <1>2, <1>5, <3>1
      <3>2. CASE i # 1
        <4>1. PICK j \in 1 .. k : i = j + 1 /\ (i < k + 1 <=> j < k)
          <5>1. i - 1 \in 1 .. k /\ i = (i - 1) + 1 /\ (i < k + 1 <=> i - 1 < k)
            BY <3>2
          <5> QED  BY <5>1
        <4> QED  BY <1>2, <2>1, <4>1
      <3> QED  BY <3>1, <3>2
    <2> QED  BY <1>1, <1>3, <1>5, <2>2 DEF IsVarint
  <1> QED  BY <1>1, <1>4, <1>5

\* A byte in front.
LEMMA AheadOf ==
  ASSUME NEW b \in AnyByte, NEW t \in Seq(AnyByte)
  PROVE  Ahead(<<b>> \o t, b, t)
  <1>1. PICK k \in Nat : k = Len(t)
    OBVIOUS
  <1>2. PICK a \in Seq(AnyByte) : a = <<b>> /\ Len(a) = 1 /\ a[1] = b
    <2>1. <<b>> \in Seq(AnyByte) /\ Len(<<b>>) = 1 /\ <<b>>[1] = b
      OBVIOUS
    <2> QED  BY <2>1, Zenon
  <1>3. Joint(a \o t, a, t, 1, k)
    <2>1. 1 \in Nat
      OBVIOUS
    <2> QED  BY <1>1, <1>2, <2>1, Joined, Zenon
  <1>4. PICK s : s = a \o t
    OBVIOUS
  <1>5. Joint(s, a, t, 1, k)
    BY <1>3, <1>4
  <1>6. Ahead(s, b, t)
    <2>1. 1 \in 1 .. 1 /\ \A i \in 1 .. k : 1 + i = i + 1
      OBVIOUS
    <2> QED  BY <1>1, <1>2, <1>5, <2>1 DEF Joint, Ahead
  <1> QED  BY <1>2, <1>4, <1>6

\* The other way round.
LEMMA AheadSame ==
  ASSUME NEW s, NEW r, NEW b, NEW t, Ahead(s, b, t), Ahead(r, b, t)
  PROVE  s = r
  <1>1. PICK k \in Nat : k = Len(t) /\ Len(s) = k + 1 /\ Len(r) = k + 1
    BY DEF Ahead
  <1>2. ASSUME NEW i \in 1 .. k + 1 PROVE s[i] = r[i]
    <2>1. CASE i = 1
      BY <2>1 DEF Ahead
    <2>2. CASE i # 1
      <3>1. PICK j \in 1 .. k : i = j + 1
        <4>1. i - 1 \in 1 .. k /\ i = (i - 1) + 1
          BY <2>2
        <4> QED  BY <4>1
      <3> QED  BY <1>1, <3>1 DEF Ahead
    <2> QED  BY <2>1, <2>2
  <1>3. s \in Seq(AnyByte) /\ r \in Seq(AnyByte)
    BY DEF Ahead
  <1> QED  BY <1>1, <1>2, <1>3, SeqEqual

\* Every sequence of bytes that is not empty has a first one.
LEMMA AheadExists ==
  ASSUME NEW k \in Nat, NEW s \in Seq(AnyByte), Len(s) = k + 1
  PROVE  \E b, t : Ahead(s, b, t) /\ Len(t) = k
  <1>1. Part(SubSeq(s, 1 + 1, 1 + k), s, 1, k)
    <2>1. 1 \in Nat /\ 1 + k <= Len(s)
      OBVIOUS
    <2> QED  BY <2>1, PartOf, Zenon
  <1>2. PICK t : Part(t, s, 1, k)
    BY <1>1
  <1>3. s[1] \in AnyByte
    OBVIOUS
  <1>4. Ahead(s, s[1], t) /\ Len(t) = k
    <2>1. \A i \in 1 .. k : 1 + i = i + 1
      OBVIOUS
    <2> QED  BY <1>2, <1>3, <2>1 DEF Part, Ahead
  <1> QED  BY <1>4

\* s is the shortest encoding of u.
Encodes(s, u) == /\ s \in Seq(AnyByte) /\ Len(s) > 0 /\ u \in 0 .. MaxUint
                 /\ IsVarint(s) /\ Decoded(s) = u

\* One byte.
LEMMA OneGroup ==
  ASSUME NEW s \in Seq(AnyByte), Len(s) = 1
  PROVE  /\ IsVarint(s) <=> s[1] < Group
         /\ IsVarint(s) => Decoded(s) = s[1] /\ Decoded(s) < Group
         /\ s = <<s[1]>> /\ s[1] \in AnyByte
  <1>1. PICK b, t : Ahead(s, b, t) /\ Len(t) = 0
    <2>1. 0 \in Nat /\ Len(s) = 0 + 1
      OBVIOUS
    <2> QED  BY <2>1, AheadExists, Zenon
  <1>2. b = s[1] /\ b \in AnyByte
    BY <1>1 DEF Ahead
  <1>3. PICK G \in Nat, c \in Nat : G = Group /\ c = b /\ G * 0 = 0 /\ c + 0 = c
    BY <1>2, Groups
  <1>4. Decoded(s) = (c % G) + G * 0
    BY <1>1, <1>3, DecodedAhead
  <1>5. c < G => c % G = c
    BY <1>2, <1>3, GroupOf
  <1>6. DOMAIN s = 1 .. 1
    OBVIOUS
  <1>7. IsVarint(s) <=> c < G
    BY <1>2, <1>3, <1>6 DEF IsVarint
  <1> QED  BY <1>2, <1>3, <1>4, <1>5, <1>7

\* Two bytes or more.
LEMMA MoreBytes == ASSUME NEW s \in Seq(AnyByte), Len(s) > 0, Len(s) # 1 PROVE Len(s) > 1
  OBVIOUS

\* What PutUvarint writes reads as the number it was given.
LEMMA PutEncodes ==
  ASSUME NEW w \in 0 .. MaxUint
  PROVE  Encodes(PutUvarint[w], w)
  <1> SUFFICES ASSUME ~Encodes(PutUvarint[w], w) PROVE FALSE
    OBVIOUS
  <1> DEFINE T == {x \in 0 .. MaxUint : ~Encodes(PutUvarint[x], x)}
  <1>1. PICK u \in T : \A x \in T : u <= x
    <2>1. T \subseteq Nat /\ w \in T
      BY InWidth
    <2> HIDE DEF T
    <2> QED  BY <2>1, Least
  <1>2. u \in 0 .. MaxUint /\ ~Encodes(PutUvarint[u], u) /\ u \in Nat /\ MaxUint \in Nat
    BY InWidth
  <1>3. \A x \in 0 .. MaxUint : x < u => Encodes(PutUvarint[x], x)
    <2> SUFFICES ASSUME NEW x \in 0 .. MaxUint, x < u, ~Encodes(PutUvarint[x], x) PROVE FALSE
      OBVIOUS
    <2>1. x \in T /\ x \in Nat
      BY <1>2
    <2> HIDE DEF T
    <2> QED  BY <1>1, <1>2, <2>1
  <1> HIDE DEF T
  <1>4. CASE u < Group
    <2>1. PICK s : s = <<u>>
      OBVIOUS
    <2>2. u \in AnyByte
      BY <1>2, <1>4, Groups
    <2>3. s \in Seq(AnyByte) /\ Len(s) = 1 /\ s[1] = u
      BY <2>1, <2>2
    <2>4. PutUvarint[u] = s
      BY <1>2, <1>4, <2>1, PutUvarintSteps
    <2>5. IsVarint(s) /\ Decoded(s) = u
      BY <1>4, <2>3, OneGroup
    <2>6. Encodes(s, u)
      BY <1>2, <2>3, <2>5 DEF Encodes
    <2> QED  BY <1>2, <2>4, <2>6
  <1>5. CASE ~(u < Group)
    <2>1. PICK G \in Nat : G = Group /\ G >= 2 /\ u >= G
      BY <1>2, <1>5, Groups
    <2>2. PICK q \in Nat, r \in 0 .. G - 1 :
            q = u \div G /\ r = u % G /\ u = r + G * q /\ q > 0 /\ q < u
      BY <1>2, <2>1, GroupAbove
    <2>3. q \in 0 .. MaxUint /\ Encodes(PutUvarint[q], q)
      BY <1>2, <1>3, <2>2
    <2>4. PICK b \in AnyByte : b = r + G
      <3>1. r + G \in Nat /\ r + G < G + G
        BY <2>1, <2>2
      <3> QED  BY <2>1, <3>1, Groups
    <2>5. PICK t \in Seq(AnyByte) : t = PutUvarint[q] /\ Len(t) > 0 /\ IsVarint(t) /\ Decoded(t) = q
      BY <2>3 DEF Encodes
    <2>6. PICK s : s = <<b>> \o t /\ Ahead(s, b, t)
      BY AheadOf
    <2>7. PutUvarint[u] = s
      BY <1>2, <1>5, <2>1, <2>2, <2>4, <2>5, <2>6, PutUvarintSteps
    <2>8. Decoded(s) = u
      <3>1. b % G = r
        <4>1. PICK c \in Int : c = b /\ c = r + G
          BY <2>1, <2>2, <2>4
        <4>2. c = r + G * 1 /\ G > 0
          BY <2>1, <4>1
        <4>3. c % G = r
          BY <2>2, <4>2, DivMod
        <4> QED  BY <4>1, <4>3
      <3>2. Decoded(s) = (b % Group) + Group * Decoded(t)
        <4>1. Ahead(s, b, t)
          BY <2>6
        <4> QED  BY <4>1, DecodedAhead
      <3> QED  BY <2>1, <2>2, <2>5, <3>1, <3>2
    <2>9. t[Len(t)] > 0
      <3>1. CASE Len(t) = 1
        BY <2>2, <2>5, <3>1, OneGroup
      <3>2. CASE Len(t) # 1
        <4>1. Len(t) > 1
          <5>1. Len(t) > 0
            BY <2>5
          <5> QED  BY <3>2, <5>1, MoreBytes
        <4> QED  BY <2>5, <4>1 DEF IsVarint
      <3> QED  BY <3>1, <3>2
    <2>10. IsVarint(s)
      <3>1. b >= Group
        BY <2>1, <2>2, <2>4
      <3> QED  BY <2>5, <2>6, <2>9, <3>1, VarintAhead
    <2>11. s \in Seq(AnyByte) /\ Len(s) > 0
      BY <2>6 DEF Ahead
    <2>12. Encodes(s, u)
      BY <1>2, <2>8, <2>10, <2>11 DEF Encodes
    <2> QED  BY <1>2, <2>7, <2>12
  <1> QED  BY <1>4, <1>5

\* What a varint reads as, PutUvarint writes as this varint, and one of two groups
\* or more reads as no number of one.
Unique(s) == /\ Decoded(s) \in Nat
             /\ Decoded(s) <= MaxUint => PutUvarint[Decoded(s)] = s
             /\ Len(s) > 1 => Decoded(s) >= Group

\* A varint of one byte is the only one of its number.
LEMMA UniqueOne ==
  ASSUME NEW s \in Seq(AnyByte), Len(s) = 1, IsVarint(s)
  PROVE  Unique(s)
  <1>1. s = <<s[1]>> /\ s[1] \in AnyByte /\ Decoded(s) = s[1] /\ Decoded(s) < Group
    BY OneGroup
  <1>2. Decoded(s) \in Nat
    BY <1>1, Groups
  <1>3. Decoded(s) <= MaxUint => PutUvarint[Decoded(s)] = s
    <2> SUFFICES ASSUME Decoded(s) <= MaxUint PROVE PutUvarint[Decoded(s)] = s
      OBVIOUS
    <2>1. PICK u \in 0 .. MaxUint : u = Decoded(s)
      BY <1>2, InWidth
    <2>2. PutUvarint[u] = <<u>>
      BY <1>1, <2>1, PutUvarintSteps
    <2> QED  BY <1>1, <2>1, <2>2
  <1> QED  BY <1>2, <1>3 DEF Unique

\* A varint is the only one of its number if what follows its first byte is.
LEMMA UniqueAhead ==
  ASSUME NEW s, NEW b, NEW t, Ahead(s, b, t), Len(t) > 0, IsVarint(s), Unique(t)
  PROVE  Unique(s)
  <1>1. PICK G \in Nat : G = Group /\ G >= 2
    BY Groups
  <1>2. b >= G /\ IsVarint(t) /\ t[Len(t)] > 0 /\ b \in AnyByte /\ t \in Seq(AnyByte) /\ Len(t) \in Nat
    BY <1>1, VarintAhead DEF Ahead
  <1>3. PICK x \in Nat, r \in Nat : x = Decoded(t) /\ r = b % G /\ r < G /\ b = r + G
    BY <1>1, <1>2, GroupOf DEF Unique
  <1>4. PICK u \in Nat : u = Decoded(s) /\ u = r + G * x
    BY <1>1, <1>3, DecodedAhead
  <1>5. x > 0
    <2>1. CASE Len(t) = 1
      BY <1>2, <1>3, <2>1, OneGroup
    <2>2. CASE Len(t) # 1
      <3>1. Len(t) > 1
        BY <1>2, <2>2, MoreBytes
      <3> QED  BY <1>1, <1>3, <3>1 DEF Unique
    <2> QED  BY <2>1, <2>2
  <1>6. u >= G /\ x <= u
    <2>1. PICK y \in Nat : x = 1 + y
      <3>1. x - 1 \in Nat /\ x = 1 + (x - 1)
        BY <1>5
      <3> QED  BY <3>1
    <2>2. G * x = G + G * y /\ G * y >= y + y /\ G * y \in Nat
      BY <1>1, <2>1
    <2> QED  BY <1>1, <1>3, <1>4, <2>1, <2>2
  <1>7. ASSUME u <= MaxUint PROVE PutUvarint[u] = s
    <2>1. u \in 0 .. MaxUint /\ x \in 0 .. MaxUint
      BY <1>6, <1>7, InWidth
    <2>2. PutUvarint[x] = t
      BY <1>3, <2>1 DEF Unique
    <2>3. u \div G = x /\ u % G = r
      <3>1. r \in 0 .. G - 1 /\ G > 0
        BY <1>1, <1>3
      <3> QED  BY <1>4, <3>1, DivMod
    <2>4. PutUvarint[u] = <<b>> \o t
      <3>1. ~(u < Group)
        BY <1>1, <1>6
      <3> QED  BY <1>1, <1>3, <2>1, <2>2, <2>3, <3>1, PutUvarintSteps
    <2>5. Ahead(<<b>> \o t, b, t)
      BY <1>2, AheadOf
    <2> QED  BY <2>4, <2>5, AheadSame
  <1> QED  BY <1>1, <1>4, <1>6, <1>7 DEF Unique

\* A number has one varint.
LEMMA VarintUnique ==
  ASSUME NEW w \in Seq(AnyByte), Len(w) > 0, IsVarint(w)
  PROVE  Unique(w)
  <1> SUFFICES ASSUME ~Unique(w) PROVE FALSE
    OBVIOUS
  <1> DEFINE Odd(s) == s \in Seq(AnyByte) /\ Len(s) > 0 /\ IsVarint(s) /\ ~Unique(s)
             T == {k \in Nat : \E s : Odd(s) /\ Len(s) = k}
  <1>1. PICK k \in T : \A j \in T : k <= j
    <2>1. Len(w) \in Nat /\ Odd(w)
      OBVIOUS
    <2>2. T \subseteq Nat /\ Len(w) \in T
      <3> HIDE DEF Odd
      <3> QED  BY <2>1
    <2> HIDE DEF T
    <2> QED  BY <2>2, Least
  <1>2. PICK s : Odd(s) /\ Len(s) = k
    OBVIOUS
  <1>3. k \in Nat /\ k > 0
    BY <1>2
  <1>4. PICK j \in Nat : k = j + 1
    <2>1. k - 1 \in Nat /\ k = (k - 1) + 1
      BY <1>3
    <2> QED  BY <2>1
  <1>5. j \notin T
    <2> HIDE DEF T
    <2> QED  BY <1>1, <1>4
  <1>6. PICK b, t : Ahead(s, b, t) /\ Len(t) = j
    BY <1>2, <1>4, AheadExists
  <1>7. CASE j = 0
    BY <1>2, <1>4, <1>7, UniqueOne
  <1>8. CASE j # 0
    <2>1. Len(t) > 0 /\ t \in Seq(AnyByte)
      BY <1>6, <1>8 DEF Ahead
    <2>2. IsVarint(t)
      BY <1>2, <1>6, <2>1, VarintAhead
    <2>3. Unique(t)
      <3>1. ~Odd(t)
        <4> HIDE DEF Odd
        <4> QED  BY <1>5, <1>6
      <3> QED  BY <2>1, <2>2, <3>1
    <2> QED  BY <1>2, <1>6, <2>1, <2>3, UniqueAhead
  <1> QED  BY <1>7, <1>8

\* A variable operand is replaced in base-128 as well.
LEMMA VarintReplaces ==
  ASSUME NEW o, ~compared.string, NEW v, NEW u, NEW k, CutTo(o, v, u, k),
         Number(v) >= Group \/ Number(u) >= Group
  PROVE  /\ Number(v) \in 0 .. MaxUint /\ Number(u) \in 0 .. MaxUint
         /\ Replaces(o, PutUvarint[Number(v)], PutUvarint[Number(u)])
  <1>1. PICK a \in 0 .. MaxUint, b \in 0 .. MaxUint : a = Number(v) /\ b = Number(u)
    BY InWidth DEF CutTo
  <1>2. Wrap(Number(v) + 0) = a /\ Wrap(Number(u) + 0) = b
    <2>1. PICK M \in Nat : M = MaxUint
      BY InWidth
    <2>2. (a + 0) % (M + 1) = a /\ (b + 0) % (M + 1) = b
      BY <2>1
    <2> QED  BY <1>1, <2>1, <2>2 DEF Wrap
  <1>3. <<PutUvarint[a], PutUvarint[b]>> \in encodings(v, u)
    <2> DEFINE pairs == {<<PutUvarint[Wrap(Number(v) + d)], PutUvarint[Wrap(Number(u) + d)]>> : d \in {-1, 0, 1}}
    <2>1. <<PutUvarint[Wrap(Number(v) + 0)], PutUvarint[Wrap(Number(u) + 0)]>> \in pairs
      BY Zenon
    <2>2. ~(Number(v) < Group /\ Number(u) < Group)
      BY <1>1, InWidth, Groups
    <2>3. pairs \subseteq encodings(v, u)
      BY <2>2, Zenon DEF encodings
    <2> QED  BY <1>2, <2>1, <2>3
  <1>4. /\ PutUvarint[a] \in Seq(AnyByte) /\ PutUvarint[a] # <<>>
        /\ PutUvarint[b] \in Seq(AnyByte)
    BY PutEncodes DEF Encodes
  <1>5. v = operands[o] /\ u = operands[3 - o]
    BY DEF CutTo
  <1>6. <<PutUvarint[a], PutUvarint[b]>> \in replacements(v, u, compared.string)
    BY <1>3 DEF replacements
  <1> QED  BY <1>1, <1>4, <1>5, <1>6, Zenon DEF Replaces

\* Every value is tried in place of an operand in base-128.
LEMMA VarintRight == SamplesRight => VarintReached
  <1> SUFFICES ASSUME SamplesRight, Tried, ~compared.string, NEW o \in Variables,
                      Number(operands[o]) >= Group \/ Number(operands[3 - o]) >= Group,
                      NEW r \in Parts(log.input),
                      IsVarint(SubSeq(log.input, r[1], r[2])),
                      Decoded(SubSeq(log.input, r[1], r[2])) = Number(operands[o]),
                      OwnKey(SubSeq(log.input, r[1], r[2]), PutUvarint[Number(operands[3 - o])]),
                      r[1] - 1 + Len(PutUvarint[Number(operands[3 - o])]) <= MaxHint
               PROVE  \E h \in hinted \cup {log.input} : \E q \in r[1] .. Len(h) :
                        /\ IsVarint(SubSeq(h, r[1], q))
                        /\ Decoded(SubSeq(h, r[1], q)) = Number(operands[3 - o])
    BY Zenon DEF VarintReached
  <1>1. Tested(o) /\ o \in 1 .. 2 /\ 3 - o \in 1 .. 2
    BY DEF Tested, Variables
  <1>2. compared \in Comparisons /\ operands = trim(compared.raw)
    BY ComparedRight DEF SamplesRight, Parsed, Tried
  <1>3. PICK k \in Nat : CutTo(o, operands[o], operands[3 - o], k)
    <2>1. PICK k \in Nat : \A e \in 1 .. 2 :
             /\ operands[e] \in Seq(AnyByte) /\ Len(operands[e]) = k
             /\ k <= Len(compared.raw[e]) /\ Len(compared.raw[e]) <= Wide
             /\ compared.raw[e] \in Seq(AnyByte)
             /\ \A i \in 1 .. k : operands[e][i] = compared.raw[e][i]
      BY <1>2, Trimmed
    <2>2. k <= Wide
      BY <1>1, <2>1, Constants
    <2> QED  BY <1>1, <2>1, <2>2, Zenon DEF CutTo
  <1>4. PICK a \in 0 .. MaxUint, b \in 0 .. MaxUint :
          /\ a = Number(operands[o]) /\ b = Number(operands[3 - o])
          /\ Replaces(o, PutUvarint[a], PutUvarint[b])
    BY <1>3, VarintReplaces, Zenon
  <1>5. PICK w \in Seq(AnyByte) :
          w = PutUvarint[b] /\ Len(w) > 0 /\ IsVarint(w) /\ Decoded(w) = b
    BY PutEncodes DEF Encodes
  <1>6. PICK n \in Nat, m \in Nat :
          /\ r[1] = n + 1 /\ r[2] = n + m /\ m > 0 /\ n + m <= Len(log.input)
          /\ log.input \in Seq(AnyByte)
    <2>1. log.input \in Seq(AnyByte)
      BY ComparedRight
    <2>2. /\ r[1] \in 1 .. Len(log.input) /\ r[2] \in 1 .. Len(log.input)
          /\ r[1] <= r[2]
      BY DEF Parts
    <2>3. PICK x \in Nat, y \in Nat : x = r[1] /\ y = r[2] /\ x > 0 /\ x <= y /\ y <= Len(log.input)
      BY <2>2
    <2>4. PICK n \in Nat : x = n + 1
      <3>1. \A i \in Nat : i > 0 => \E j \in Nat : i = j + 1
        <4>1. \A i \in Nat : i > 0 => i - 1 \in Nat /\ i = (i - 1) + 1
          OBVIOUS
        <4> QED  BY <4>1
      <3> QED  BY <2>3, <3>1
    <2>5. PICK m \in Nat : y = n + m /\ m > 0
      <3>0. n + 1 <= y
        BY <2>3, <2>4
      <3>1. y - n \in Nat /\ y = n + (y - n) /\ y - n > 0
        BY <3>0
      <3> QED  BY <3>1
    <2> QED  BY <2>1, <2>3, <2>4, <2>5
  <1>7. PICK s : s = SubSeq(log.input, n + 1, n + m) /\ Part(s, log.input, n, m)
    BY <1>6, PartOf, Zenon
  <1>8. s \in Seq(AnyByte) /\ Len(s) = m /\ Stands(log.input, n, s)
    BY <1>7, Zenon DEF Part, Stands
  <1>9. IsVarint(s) /\ Decoded(s) = a /\ n + Len(w) <= MaxHint /\ OwnKey(s, w)
    <2>1. IsVarint(s) /\ Decoded(s) = a /\ OwnKey(s, w)
      BY <1>4, <1>5, <1>6, <1>7, Zenon
    <2>2. (n + 1) - 1 + Len(w) <= MaxHint
      BY <1>4, <1>5, <1>6, Zenon
    <2> QED  BY <2>1, <2>2
  <1>10. PutUvarint[a] = s
    <2>1. Unique(s)
      BY <1>6, <1>8, <1>9, VarintUnique
    <2>2. a <= MaxUint
      OBVIOUS
    <2> QED  BY <1>9, <2>1, <2>2, Zenon DEF Unique
  <1>11. Replaces(o, s, w)
    BY <1>4, <1>5, <1>10
  <1>12. n + 1 \in At(log.input, s)
    BY <1>6, <1>8, AtPlaces
  <1>13. PICK h \in hinted \cup {log.input} :
            \E d : Spliced(log.input, n, Len(s), w, d) /\ UpTo(h, d)
    BY <1>1, <1>9, <1>11, <1>12, HintTested, Zenon
  <1>0. PICK d : Spliced(log.input, n, Len(s), w, d) /\ UpTo(h, d)
    BY <1>13, Zenon
  <1>14. d \in Seq(AnyByte) /\ n + 1 \in At(d, w)
    <2>1. d \in Seq(AnyByte) /\ Stands(d, n, w) /\ Len(d) = Len(log.input) - Len(s) + Len(w)
      BY <1>0, Zenon DEF Spliced
    <2>2. n + Len(w) <= Len(d)
      BY <1>6, <1>8, <2>1
    <2> QED  BY <2>1, <2>2, AtPlaces, Zenon
  <1>15. h \in Seq(AnyByte) /\ n + 1 \in At(h, w)
    BY <1>0, <1>9, <1>14, CutHolds, Zenon
  <1>18. SubSeq(h, n + 1, n + Len(w)) = w
    <2>1. n + 1 + Len(w) - 1 = n + Len(w)
      OBVIOUS
    <2> QED  BY <1>15, <2>1 DEF At
  <1>16. n + Len(w) \in n + 1 .. Len(h)
    <2>1. n + Len(w) <= Len(h)
      BY <1>15, AtPlaces, Zenon
    <2> QED  BY <1>5, <1>15, <2>1
  <1>17. r[1] = n + 1
    BY <1>6
  <1> QED  BY <1>4, <1>5, <1>16, <1>17, <1>18, Zenon

\* The hints for a sample that is tried are complete, whatever samples came before:
\* in whatever form the input holds an operand where hints are not cut, some tested
\* input has the other operand in its place, unless the key of that replacement is
\* another's.
THEOREM HintsAreComplete == SonarSpec => []HintsComplete
  <1>1. SamplesRight => HintsComplete
    BY ValueRight, VarintRight, LengthRight DEF HintsComplete
  <1> QED  BY <1>1, SamplesInvariant, PTL
=============================================================================
