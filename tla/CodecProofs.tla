---------------------------- MODULE CodecProofs ----------------------------
(* Theorems about Codec for messages, metadata and buffers of any content    *)
(* and length.                                                               *)
EXTENDS Codec, FiniteSetTheorems, SequenceTheorems, WellFoundedInduction, TLAPS

-----------------------------------------------------------------------------
(* --- induction and recursion --- *)

LEMMA Least ==
  ASSUME NEW S, S \subseteq Nat, S # {}
  PROVE  \E x \in S : \A y \in S : x <= y
<1> DEFINE R == OpToRel(<, Nat)
<1>1. IsWellFoundedOn(R, Nat)
  BY NatLessThanWellFounded
<1>2. \A x, y \in Nat : x < y => <<x, y>> \in R
  BY DEF OpToRel
<1> HIDE DEF R
<1>3. PICK x \in S : \A y \in S : ~(<<y, x>> \in R)
  BY <1>1, WFMin
<1>4. ASSUME NEW y \in S PROVE x <= y
  <2>1. x \in Nat /\ y \in Nat /\ ~(y < x)
    BY <1>2, <1>3
  <2> QED
    BY <2>1
<1> QED
  BY <1>3, <1>4

(* What holds of 0 and passes from n to n + 1 holds of every number. *)
LEMMA Induction ==
  ASSUME NEW S, 0 \in S, \A n \in Nat : n \in S => n + 1 \in S
  PROVE  Nat \subseteq S
<1> SUFFICES ASSUME ~(Nat \subseteq S) PROVE FALSE
  OBVIOUS
<1> DEFINE D == Nat \ S
<1>1. PICK x \in D : \A y \in D : x <= y
  <2>1. D \subseteq Nat /\ D # {}
    OBVIOUS
  <2> HIDE DEF D
  <2> QED
    BY <2>1, Least
<1>2. x \in Nat /\ x # 0 /\ x - 1 \in Nat /\ x - 1 \notin D
  BY <1>1
<1>3. (x - 1) + 1 \in S
  BY <1>2
<1> QED
  BY <1>1, <1>2, <1>3

Defines(f, S, B, p, b, g) ==
  \A x \in S : f[x] = IF x \in B THEN b[x] ELSE g[f[p[x]]][x]

(* A function that is defined by its value at a smaller argument exists. *)
LEMMA Recursion ==
  ASSUME NEW S, NEW T, NEW B, NEW m \in [S -> Nat], NEW p \in [S -> S],
         NEW b \in [S -> T], NEW g \in [T -> [S -> T]],
         \A x \in S : x \notin B => m[p[x]] < m[x]
  PROVE  \E f \in [S -> T] : Defines(f, S, B, p, b, g)
<1> DEFINE Step(f, x) == IF x \in B THEN b[x] ELSE g[f[p[x]]][x]
           Approx(n, f) == f \in [S -> T] /\ \A x \in S : m[x] < n => f[x] = Step(f, x)
<1>1. \A n \in Nat : \E f : Approx(n, f)
  <2> DEFINE N == {n \in Nat : \E f : Approx(n, f)}
  <2>1. 0 \in N
    <3>1. Approx(0, b)
      OBVIOUS
    <3> QED
      BY <3>1
  <2>2. ASSUME NEW n \in Nat, n \in N PROVE n + 1 \in N
    <3>1. PICK f : Approx(n, f)
      BY <2>2
    <3> DEFINE h == [x \in S |-> Step(f, x)]
    <3>2. h \in [S -> T]
      BY <3>1
    <3>3. ASSUME NEW x \in S, m[x] < n + 1 PROVE h[x] = Step(h, x)
      <4>1. CASE x \in B
        BY <4>1
      <4>2. CASE x \notin B
        <5>1. p[x] \in S /\ m[p[x]] \in Nat /\ m[x] \in Nat /\ m[p[x]] < m[x]
          BY <4>2
        <5>2. m[p[x]] < n
          BY <5>1, <3>3
        <5>3. f[p[x]] = Step(f, p[x])
          BY <3>1, <5>1, <5>2
        <5>4. h[p[x]] = f[p[x]]
          BY <5>1, <5>3
        <5> QED
          BY <4>2, <5>4
      <4> QED
        BY <4>1, <4>2
    <3> HIDE DEF h
    <3>4. Approx(n + 1, h)
      BY <3>2, <3>3
    <3> HIDE DEF Approx
    <3>5. \E r : Approx(n + 1, r)
      BY <3>4
    <3> QED
      BY <3>5
  <2> HIDE DEF N
  <2>3. Nat \subseteq N
    BY <2>1, <2>2, Induction
  <2> QED
    BY <2>3 DEF N
<1>2. ASSUME NEW n \in Nat, NEW k \in Nat, NEW f, NEW h, Approx(n, f), Approx(k, h)
      PROVE  \A x \in S : m[x] < n /\ m[x] < k => f[x] = h[x]
  <2> DEFINE D == {i \in Nat : \E x \in S : m[x] = i /\ i < n /\ i < k /\ f[x] # h[x]}
  <2>1. D = {}
    <3> SUFFICES ASSUME D # {} PROVE FALSE
      OBVIOUS
    <3>1. PICK i \in D : \A j \in D : i <= j
      <4>1. D \subseteq Nat
        OBVIOUS
      <4> HIDE DEF D
      <4> QED
        BY <4>1, Least
    <3>2. PICK x \in S : m[x] = i /\ i < n /\ i < k /\ f[x] # h[x]
      BY <3>1
    <3>3. f[x] = Step(f, x) /\ h[x] = Step(h, x)
      BY <1>2, <3>2
    <3>4. x \notin B /\ f[p[x]] # h[p[x]]
      BY <3>2, <3>3
    <3>5. p[x] \in S /\ m[p[x]] \in Nat /\ m[p[x]] < i /\ i \in Nat
      BY <3>2, <3>4
    <3>6. m[p[x]] < n /\ m[p[x]] < k
      <4> HIDE DEF D
      <4> QED
        BY <3>2, <3>5
    <3>7. m[p[x]] \in D
      BY <3>4, <3>5, <3>6
    <3> QED
      BY <3>1, <3>5, <3>7
  <2>2. \A x \in S : m[x] \in Nat
    OBVIOUS
  <2> QED
    BY <2>1, <2>2
<1> DEFINE At(x) == CHOOSE f : Approx(m[x] + 1, f)
           F == [x \in S |-> At(x)[x]]
<1>3. ASSUME NEW x \in S
      PROVE  Approx(m[x] + 1, At(x)) /\ m[x] \in Nat /\ m[x] < m[x] + 1
  <2>1. m[x] \in Nat /\ m[x] + 1 \in Nat /\ m[x] < m[x] + 1
    OBVIOUS
  <2> HIDE DEF Approx
  <2>2. \E f : Approx(m[x] + 1, f)
    BY <1>1, <2>1
  <2> QED
    BY <2>1, <2>2
<1>4. \A x \in S : At(x) \in [S -> T] /\ At(x)[x] = Step(At(x), x)
  BY <1>3
<1>5. F \in [S -> T]
  <2> HIDE DEF At
  <2> QED
    BY <1>4
<1>6. ASSUME NEW x \in S PROVE F[x] = Step(F, x)
  <2>1. CASE x \in B
    BY <1>4, <2>1
  <2>2. CASE x \notin B
    <3>1. p[x] \in S /\ m[p[x]] \in Nat /\ m[p[x]] < m[x] /\ m[x] \in Nat
      BY <2>2
    <3>2. /\ Approx(m[x] + 1, At(x)) /\ Approx(m[p[x]] + 1, At(p[x]))
          /\ m[x] + 1 \in Nat /\ m[p[x]] + 1 \in Nat
      <4> HIDE DEF Approx, At
      <4> QED
        BY <1>3, <3>1
    <3>3. m[p[x]] < m[x] + 1 /\ m[p[x]] < m[p[x]] + 1
      BY <3>1
    <3> HIDE DEF Approx, At
    <3>4. At(x)[p[x]] = At(p[x])[p[x]]
      BY <1>2, <3>1, <3>2, <3>3
    <3>5. F[p[x]] = At(x)[p[x]]
      BY <3>1, <3>4
    <3> QED
      BY <1>4, <2>2, <3>5
  <2> QED
    BY <2>1, <2>2
<1> HIDE DEF F
<1> QED
  BY <1>5, <1>6 DEF Defines
-----------------------------------------------------------------------------
(* --- digits and numbers --- *)

LEMMA DigitValues ==
  /\ \A i \in 0 .. 9 : Digit[i + 1] \in Digits /\ ValueOf(Digit[i + 1]) = i
  /\ \A c \in Digits : ValueOf(c) \in 0 .. 9 /\ c \in Symbol
  /\ Digits \cap {":", "e", "i", "l", "d", "undefined"} = {}
<1>1. /\ DOMAIN Digit = 1 .. 10
      /\ Digits = {"0", "1", "2", "3", "4", "5", "6", "7", "8", "9"}
  <2>1. DOMAIN Digit = 1 .. 10
    BY DEF Digit
  <2>2. Digits = {Digit[i] : i \in 1 .. 10}
    BY <2>1 DEF Digits, ToSet
  <2>3. 1 .. 10 = {1, 2, 3, 4, 5, 6, 7, 8, 9, 10}
    OBVIOUS
  <2>4. Digits = {Digit[1], Digit[2], Digit[3], Digit[4], Digit[5], Digit[6],
                  Digit[7], Digit[8], Digit[9], Digit[10]}
    BY <2>2, <2>3
  <2> QED
    BY <2>1, <2>4 DEF Digit
<1>2. \A i, j \in 1 .. 10 : Digit[i] = Digit[j] => i = j
  BY DEF Digit
<1>3. ASSUME NEW i \in 0 .. 9
      PROVE  Digit[i + 1] \in Digits /\ ValueOf(Digit[i + 1]) = i
  <2>1. i + 1 \in 1 .. 10 /\ i \in Int
    OBVIOUS
  <2>2. (CHOOSE j \in 1 .. 10 : Digit[j] = Digit[i + 1]) = i + 1
    BY <1>2, <2>1
  <2>3. Digit[i + 1] \in Digits
    BY <1>1, <2>1 DEF Digits, ToSet
  <2>4. ValueOf(Digit[i + 1]) = (CHOOSE j \in 1 .. 10 : Digit[j] = Digit[i + 1]) - 1
    BY <1>1 DEF ValueOf
  <2>5. ValueOf(Digit[i + 1]) = (i + 1) - 1
    BY <2>2, <2>4
  <2> QED
    BY <2>1, <2>3, <2>5
<1>4. ASSUME NEW c \in Digits PROVE ValueOf(c) \in 0 .. 9 /\ c \in Symbol
  <2>1. PICK j \in 1 .. 10 : c = Digit[j]
    BY <1>1 DEF Digits, ToSet
  <2>2. j - 1 \in 0 .. 9 /\ (j - 1) + 1 = j
    BY <2>1
  <2>3. ValueOf(Digit[(j - 1) + 1]) = j - 1
    BY <1>3, <2>2
  <2>4. c \in Symbol
    BY BencodeAssumption
  <2> QED
    BY <2>1, <2>2, <2>3, <2>4
<1> QED
  BY <1>1, <1>3, <1>4

LEMMA FrontLast ==
  ASSUME NEW S, NEW s \in Seq(S), s # <<>>
  PROVE  /\ Front(s) \in Seq(S) /\ Len(Front(s)) = Len(s) - 1 /\ Last(s) \in S
         /\ Len(s) \in Nat \ {0}
         /\ \A i \in 1 .. Len(s) - 1 : Front(s)[i] = s[i]
<1>1. Len(s) \in Nat /\ Len(s) # 0
  BY EmptySeq
<1>2. \A i \in 1 .. Len(s) - 1 : s[i] \in S
  OBVIOUS
<1> DEFINE n == Len(s) - 1
<1>3. n \in Nat /\ n \in Int /\ 1 \in Int /\ \A i \in 1 .. n : s[i] \in S
  BY <1>1, <1>2
<1> HIDE DEF n
<1>4. /\ SubSeq(s, 1, n) \in Seq(S)
      /\ Len(SubSeq(s, 1, n)) = IF 1 <= n THEN n - 1 + 1 ELSE 0
      /\ \A i \in 1 .. n - 1 + 1 : SubSeq(s, 1, n)[i] = s[1 + i - 1]
  BY <1>3, SubSeqProperties
<1>5. Len(SubSeq(s, 1, n)) = n /\ \A i \in 1 .. n : SubSeq(s, 1, n)[i] = s[i]
  BY <1>3, <1>4
<1>6. s[Len(s)] \in S
  BY <1>1
<1> QED
  BY <1>1, <1>4, <1>5, <1>6 DEF Front, Last, n

LEMMA DecimalValueDef ==
  /\ DecimalValue \in [Seq(Digits) -> Nat]
  /\ \A s \in Seq(Digits) :
       DecimalValue[s] = IF s = <<>> THEN 0
                         ELSE 10 * DecimalValue[Front(s)] + ValueOf(Last(s))
<1> DEFINE S == Seq(Digits)
           B == {<<>>}
           m == [s \in S |-> Len(s)]
           p == [s \in S |-> IF s = <<>> THEN s ELSE Front(s)]
           b == [s \in S |-> 0]
           d == [s \in S |-> IF s = <<>> THEN 0 ELSE ValueOf(Last(s))]
           g == [t \in Nat |-> [s \in S |-> 10 * t + d[s]]]
           Def(f) == [s \in S |-> IF s = <<>> THEN 0
                                  ELSE 10 * f[Front(s)] + ValueOf(Last(s))]
<1>1. m \in [S -> Nat] /\ p \in [S -> S] /\ b \in [S -> Nat]
  BY FrontLast
<1>2. d \in [S -> Nat]
  BY FrontLast, DigitValues
<1>3. g \in [Nat -> [S -> Nat]]
  <2> HIDE DEF d, S
  <2> QED
    BY <1>2
<1>4. \A s \in S : s \notin B => m[p[s]] < m[s]
  <2> SUFFICES ASSUME NEW s \in Seq(Digits), s # <<>>
               PROVE  m[p[s]] < m[s]
    OBVIOUS
  <2>1. Front(s) \in Seq(Digits) /\ Len(Front(s)) = Len(s) - 1 /\ Len(s) \in Nat
    BY FrontLast
  <2> QED
    BY <2>1
<1>5. PICK f \in [S -> Nat] : \A s \in S : f[s] = IF s \in B THEN b[s] ELSE g[f[p[s]]][s]
  <2> HIDE DEF m, p, b, g, S, B
  <2>1. \E f \in [S -> Nat] : Defines(f, S, B, p, b, g)
    BY <1>1, <1>3, <1>4, Recursion, Zenon
  <2> QED
    BY <2>1 DEF Defines
<1>6. f = Def(f)
  <2>1. ASSUME NEW s \in S PROVE f[s] = Def(f)[s]
    <3>1. CASE s = <<>>
      BY <1>5, <3>1
    <3>2. CASE s # <<>>
      <4>1. Front(s) \in S /\ f[Front(s)] \in Nat /\ p[s] = Front(s)
        BY <3>2, <1>5, FrontLast
      <4>2. f[s] = g[f[p[s]]][s]
        BY <1>5, <3>2
      <4> QED
        BY <3>2, <4>1, <4>2
    <3> QED
      BY <3>1, <3>2
  <2> HIDE DEF S
  <2> QED
    BY <1>5, <2>1
<1>7. DecimalValue = CHOOSE h : h = Def(h)
  BY DEF DecimalValue
<1> HIDE DEF Def
<1>8. DecimalValue = Def(DecimalValue)
  BY <1>6, <1>7
<1>10. ASSUME NEW s \in S
       PROVE  DecimalValue[s] = IF s = <<>> THEN 0
                                ELSE 10 * DecimalValue[Front(s)] + ValueOf(Last(s))
  <2> DEFINE h == DecimalValue
  <2>1. h[s] = Def(h)[s]
    BY <1>8
  <2> HIDE DEF h
  <2>2. Def(h)[s] = IF s = <<>> THEN 0 ELSE 10 * h[Front(s)] + ValueOf(Last(s))
    BY DEF Def
  <2> QED
    BY <2>1, <2>2 DEF h
<1>9. DecimalValue \in [S -> Nat]
  <2>1. \A s \in S : DecimalValue[s] \in Nat
    <3> DEFINE N == {n \in Nat : \A s \in S : Len(s) = n => DecimalValue[s] \in Nat}
    <3>1. 0 \in N
      BY <1>10
    <3>2. ASSUME NEW n \in Nat, n \in N PROVE n + 1 \in N
      <4> SUFFICES ASSUME NEW s \in S, Len(s) = n + 1 PROVE DecimalValue[s] \in Nat
        OBVIOUS
      <4>1. s # <<>> /\ s \in Seq(Digits)
        OBVIOUS
      <4>2. Front(s) \in Seq(Digits) /\ Len(Front(s)) = n /\ Last(s) \in Digits
        <5>1. Front(s) \in Seq(Digits) /\ Len(Front(s)) = Len(s) - 1 /\ Last(s) \in Digits
          BY <4>1, FrontLast
        <5> QED
          BY <5>1
      <4>3. DecimalValue[Front(s)] \in Nat
        BY <3>2, <4>2
      <4>4. ValueOf(Last(s)) \in Nat
        BY <4>2, DigitValues
      <4>5. DecimalValue[s] = 10 * DecimalValue[Front(s)] + ValueOf(Last(s))
        BY <1>10, <4>1
      <4> QED
        BY <4>3, <4>4, <4>5
    <3>3. \A s \in S : Len(s) \in Nat
      OBVIOUS
    <3> HIDE DEF N, S
    <3>4. Nat \subseteq N
      BY <3>1, <3>2, Induction
    <3> QED
      BY <3>3, <3>4 DEF N
  <2> HIDE DEF S
  <2> QED
    BY <1>8, <2>1 DEF Def
<1> QED
  BY <1>9, <1>10

LEMMA DecimalTextDef ==
  /\ DecimalText \in [Nat -> Seq(Digits)]
  /\ \A n \in Nat :
       DecimalText[n] = IF n < 10 THEN <<Digit[n + 1]>>
                        ELSE Append(DecimalText[n \div 10], Digit[(n % 10) + 1])
<1> DEFINE T == Seq(Digits)
           B == 0 .. 9
           m == [n \in Nat |-> n]
           p == [n \in Nat |-> n \div 10]
           b == [n \in Nat |-> IF n < 10 THEN <<Digit[n + 1]>> ELSE <<>>]
           g == [t \in T |-> [n \in Nat |-> Append(t, Digit[(n % 10) + 1])]]
           Def(f) == [n \in Nat |-> IF n < 10 THEN <<Digit[n + 1]>>
                                    ELSE Append(f[n \div 10], Digit[(n % 10) + 1])]
<1>1. m \in [Nat -> Nat] /\ p \in [Nat -> Nat]
  OBVIOUS
<1>2. b \in [Nat -> T]
  <2>1. \A n \in Nat : n < 10 => n \in 0 .. 9
    OBVIOUS
  <2> QED
    BY <2>1, DigitValues
<1>3. g \in [T -> [Nat -> T]]
  <2>1. \A n \in Nat : n % 10 \in 0 .. 9
    OBVIOUS
  <2> QED
    BY <2>1, DigitValues
<1>4. \A n \in Nat : n \notin B => m[p[n]] < m[n]
  OBVIOUS
<1>5. PICK f \in [Nat -> T] : \A n \in Nat : f[n] = IF n \in B THEN b[n] ELSE g[f[p[n]]][n]
  <2> HIDE DEF m, p, b, g, T, B
  <2>1. \E f \in [Nat -> T] : Defines(f, Nat, B, p, b, g)
    BY <1>1, <1>2, <1>3, <1>4, Recursion, Zenon
  <2> QED
    BY <2>1 DEF Defines
<1>6. f = Def(f)
  <2>1. ASSUME NEW n \in Nat PROVE f[n] = Def(f)[n]
    <3>1. CASE n < 10
      <4>0. n \in B
        BY <3>1
      <4>1. f[n] = b[n]
        <5> HIDE DEF B, b
        <5> QED
          BY <1>5, <4>0
      <4> QED
        BY <3>1, <4>1
    <3>2. CASE ~(n < 10)
      <4>1. n \div 10 \in Nat /\ p[n] = n \div 10 /\ n \notin B
        BY <3>2
      <4>2. f[n \div 10] \in T
        BY <4>1
      <4> HIDE DEF T
      <4> QED
        BY <1>5, <3>2, <4>1, <4>2
    <3> QED
      BY <3>1, <3>2
  <2> HIDE DEF T
  <2> QED
    BY <1>5, <2>1
<1>7. DecimalText = CHOOSE h : h = Def(h)
  BY DEF DecimalText
<1> HIDE DEF Def
<1>8. DecimalText = Def(DecimalText)
  BY <1>6, <1>7
<1>10. ASSUME NEW n \in Nat
       PROVE  DecimalText[n] = IF n < 10 THEN <<Digit[n + 1]>>
                               ELSE Append(DecimalText[n \div 10], Digit[(n % 10) + 1])
  <2> DEFINE h == DecimalText
  <2>1. h[n] = Def(h)[n]
    BY <1>8
  <2> HIDE DEF h
  <2>2. Def(h)[n] = IF n < 10 THEN <<Digit[n + 1]>>
                    ELSE Append(h[n \div 10], Digit[(n % 10) + 1])
    BY DEF Def
  <2> QED
    BY <2>1, <2>2 DEF h
<1>9. \A n \in Nat : DecimalText[n] \in T
  <2> DEFINE D == {n \in Nat : DecimalText[n] \notin T}
  <2> SUFFICES ASSUME D # {} PROVE FALSE
    OBVIOUS
  <2>1. PICK n \in D : \A k \in D : n <= k
    <3>1. D \subseteq Nat
      OBVIOUS
    <3> HIDE DEF D
    <3> QED
      BY <3>1, Least
  <2>2. CASE n < 10
    <3>1. n \in Nat /\ n \in 0 .. 9
      BY <2>1, <2>2
    <3>2. DecimalText[n] = <<Digit[n + 1]>>
      BY <1>10, <2>2, <3>1
    <3>3. Digit[n + 1] \in Digits
      BY <3>1, DigitValues
    <3>4. DecimalText[n] \in T
      BY <3>2, <3>3
    <3> QED
      BY <2>1, <3>4
  <2>3. CASE ~(n < 10)
    <3>1. n \div 10 \in Nat /\ n \div 10 < n /\ n % 10 \in 0 .. 9
      BY <2>1, <2>3
    <3>2. DecimalText[n \div 10] \in T
      BY <2>1, <3>1
    <3>3. DecimalText[n] = Append(DecimalText[n \div 10], Digit[(n % 10) + 1])
      BY <1>10, <2>1, <2>3
    <3>4. Digit[(n % 10) + 1] \in Digits
      BY <3>1, DigitValues
    <3>5. DecimalText[n] \in T
      BY <3>2, <3>3, <3>4
    <3> QED
      BY <2>1, <3>5
  <2> QED
    BY <2>2, <2>3
<1>11. DecimalText \in [Nat -> T]
  <2> HIDE DEF T
  <2> QED
    BY <1>8, <1>9 DEF Def
<1> QED
  BY <1>10, <1>11

LEMMA FrontAppend ==
  ASSUME NEW S, NEW s \in Seq(S), NEW e \in S
  PROVE  /\ Append(s, e) \in Seq(S) /\ Append(s, e) # <<>>
         /\ Front(Append(s, e)) = s /\ Last(Append(s, e)) = e
<1> DEFINE a == Append(s, e)
<1>1. /\ a \in Seq(S) /\ a # <<>> /\ Len(a) = Len(s) + 1 /\ Len(s) \in Nat
      /\ \A i \in 1 .. Len(s) : a[i] = s[i]
      /\ a[Len(s) + 1] = e
  BY AppendProperties
<1> HIDE DEF a
<1>2. /\ Front(a) \in Seq(S) /\ Len(Front(a)) = Len(s)
      /\ \A i \in 1 .. Len(s) : Front(a)[i] = s[i]
  <2>1. /\ Front(a) \in Seq(S) /\ Len(Front(a)) = Len(a) - 1
        /\ \A i \in 1 .. Len(a) - 1 : Front(a)[i] = a[i]
    BY <1>1, FrontLast
  <2> QED
    BY <1>1, <2>1
<1>3. Front(a) = s
  BY <1>2, SeqEqual
<1> QED
  BY <1>1, <1>3 DEF Last, a

(* Number.toString() and parseInt are inverse. *)
LEMMA DecimalRoundTrip ==
  \A n \in Nat : /\ DecimalText[n] \in Seq(Digits) /\ DecimalText[n] # <<>>
                 /\ DecimalValue[DecimalText[n]] = n
<1>1. \A n \in Nat : DecimalText[n] \in Seq(Digits)
  BY DecimalTextDef
<1>2. ASSUME NEW n \in Nat, NEW t \in Seq(Digits), NEW d \in 0 .. 9,
             n = 10 * DecimalValue[t] + d
      PROVE  /\ Append(t, Digit[d + 1]) # <<>>
             /\ DecimalValue[Append(t, Digit[d + 1])] = n
  <2>1. Digit[d + 1] \in Digits /\ ValueOf(Digit[d + 1]) = d
    BY DigitValues
  <2>2. /\ Append(t, Digit[d + 1]) \in Seq(Digits) /\ Append(t, Digit[d + 1]) # <<>>
        /\ Front(Append(t, Digit[d + 1])) = t /\ Last(Append(t, Digit[d + 1])) = Digit[d + 1]
    BY <2>1, FrontAppend
  <2> QED
    BY <1>2, <2>1, <2>2, DecimalValueDef
<1>0. \A n \in Nat :
        IF n < 10 THEN DecimalText[n] = <<Digit[n + 1]>>
        ELSE DecimalText[n] = Append(DecimalText[n \div 10], Digit[(n % 10) + 1])
  BY DecimalTextDef
<1> DEFINE Good(n) == DecimalText[n] # <<>> /\ DecimalValue[DecimalText[n]] = n
           D == {n \in Nat : ~Good(n)}
<1>3. D = {}
  <2> SUFFICES ASSUME D # {} PROVE FALSE
    OBVIOUS
  <2>1. PICK n \in D : \A k \in D : n <= k
    <3>1. D \subseteq Nat
      OBVIOUS
    <3> HIDE DEF D
    <3> QED
      BY <3>1, Least
  <2>0. n \in Nat /\ ~Good(n) /\ \A k \in Nat : ~Good(k) => n <= k
    <3> HIDE DEF Good
    <3> QED
      BY <2>1
  <2>2. \A k \in Nat : k < n => Good(k)
    <3> HIDE DEF Good
    <3> QED
      BY <2>0
  <2>5. n \in Nat
    BY <2>1
  <2>3. CASE n < 10
    <3>0. n \in 0 .. 9
      BY <2>0, <2>3
    <3>1. DecimalText[n] = <<Digit[n + 1]>>
      <4> HIDE DEF Good, D
      <4> QED
        BY <1>0, <2>3, <2>5
    <3>2. <<>> \in Seq(Digits)
      OBVIOUS
    <3>5. DecimalValue[<<>>] = 0
      BY <3>2, DecimalValueDef
    <3>6. n = 10 * DecimalValue[<<>>] + n
      BY <2>0, <3>5
    <3>3. /\ Append(<<>>, Digit[n + 1]) # <<>>
          /\ DecimalValue[Append(<<>>, Digit[n + 1])] = n
      BY <1>2, <2>0, <3>0, <3>2, <3>6
    <3>4. Append(<<>>, Digit[n + 1]) = <<Digit[n + 1]>>
      OBVIOUS
    <3> QED
      BY <2>0, <3>1, <3>3, <3>4
  <2>4. CASE ~(n < 10)
    <3>0. n \div 10 \in Nat /\ n \div 10 < n
      BY <2>0, <2>4
    <3>1. n % 10 \in 0 .. 9 /\ n = 10 * (n \div 10) + (n % 10)
      BY <2>0
    <3>3. DecimalValue[DecimalText[n \div 10]] = n \div 10
      BY <2>2, <3>0
    <3>4. DecimalText[n] = Append(DecimalText[n \div 10], Digit[(n % 10) + 1])
      BY <1>0, <2>0, <2>4
    <3>5. DecimalText[n \div 10] \in Seq(Digits)
      BY <1>1, <3>0
    <3>6. n = 10 * DecimalValue[DecimalText[n \div 10]] + (n % 10)
      BY <3>1, <3>3
    <3> HIDE DEF Good
    <3>7. /\ Append(DecimalText[n \div 10], Digit[(n % 10) + 1]) # <<>>
          /\ DecimalValue[Append(DecimalText[n \div 10], Digit[(n % 10) + 1])] = n
      BY <1>2, <2>0, <3>1, <3>5, <3>6
    <3> QED
      BY <2>0, <3>4, <3>7 DEF Good
  <2> QED
    BY <2>3, <2>4
<1>4. \A n \in Nat : Good(n)
  <2> HIDE DEF Good
  <2> QED
    BY <1>3
<1> QED
  BY <1>1, <1>4

LEMMA MinOf ==
  ASSUME NEW S, S \subseteq Nat, S # {}
  PROVE  Min(S) \in S /\ \A y \in S : Min(S) <= y
<1>1. \E x \in S : \A y \in S : x <= y
  BY Least
<1> QED
  BY <1>1 DEF Min

LEMMA MaxOf ==
  ASSUME NEW S, NEW n \in Nat, S \subseteq 1 .. n, S # {}
  PROVE  Max(S) \in S /\ \A y \in S : y <= Max(S)
<1> DEFINE D == {n - x : x \in S}
<1>0. \A x \in S : x \in Nat /\ x <= n /\ n - x \in Nat
  OBVIOUS
<1>1. PICK x \in S : \A y \in D : n - x <= y
  <2>1. D \subseteq Nat /\ D # {}
    BY <1>0
  <2>2. PICK d \in D : \A y \in D : d <= y
    <3> HIDE DEF D
    <3> QED
      BY <2>1, Least
  <2> QED
    BY <2>2
<1>2. \A y \in S : y <= x
  <2> SUFFICES ASSUME NEW y \in S PROVE y <= x
    OBVIOUS
  <2>1. n - x <= n - y /\ x \in Nat /\ y \in Nat
    BY <1>0, <1>1
  <2> QED
    BY <2>1
<1> QED
  BY <1>2 DEF Max

LEMMA LeadingDigitsType ==
  ASSUME NEW text \in Seq(Symbol)
  PROVE  /\ LeadingDigits(text) \in Seq(Digits)
         /\ text \in Seq(Digits) => LeadingDigits(text) = text
<1> DEFINE I == {i \in 1 .. Len(text) : text[i] \notin Digits}
<1>1. LeadingDigits(text) =
        LET first == IF I # {} THEN Min(I) ELSE 0
        IN  IF first = 0 THEN text ELSE SubSeq(text, 1, first - 1)
  BY DEF LeadingDigits, SelectInSeq
<1>2. Len(text) \in Nat
  OBVIOUS
<1>3. CASE I = {}
  <2>1. \A i \in 1 .. Len(text) : text[i] \in Digits
    BY <1>3
  <2>2. text \in Seq(Digits)
    BY <2>1
  <2> QED
    BY <1>1, <1>3, <2>2
<1>4. CASE I # {}
  <2>1. I \subseteq Nat
    OBVIOUS
  <2>2. Min(I) \in I /\ \A i \in I : Min(I) <= i
    <3> HIDE DEF I
    <3> QED
      BY <1>4, <2>1, MinOf
  <2>3. PICK n \in 1 .. Len(text) : n = Min(I) /\ text[n] \notin Digits
    BY <2>2
  <2>4. \A i \in 1 .. n - 1 : text[i] \in Digits
    BY <2>2, <2>3
  <2>5. n - 1 \in Int /\ 1 \in Int /\ n # 0
    BY <2>3
  <2>6. SubSeq(text, 1, n - 1) \in Seq(Digits)
    BY <2>4, <2>5, SubSeqProperties
  <2>7. text \notin Seq(Digits)
    BY <2>3
  <2>8. LeadingDigits(text) = SubSeq(text, 1, n - 1)
    BY <1>1, <1>4, <2>3, <2>5
  <2> QED
    BY <2>6, <2>7, <2>8
<1> QED
  BY <1>3, <1>4

LEMMA ParseIntType ==
  ASSUME NEW text \in Seq(Symbol)
  PROVE  ParseInt(text) \in Nat
  BY LeadingDigitsType, DecimalValueDef DEF ParseInt

LEMMA ParseIntText ==
  ASSUME NEW n \in Nat
  PROVE  /\ DecimalText[n] \in Seq(Digits) /\ DecimalText[n] \in Seq(Symbol)
         /\ DecimalText[n] # <<>> /\ ParseInt(DecimalText[n]) = n
<1>1. DecimalText[n] \in Seq(Digits) /\ DecimalText[n] \in Seq(Symbol)
  BY DecimalRoundTrip, BencodeAssumption, SeqMonotonic
<1> QED
  BY <1>1, DecimalRoundTrip, LeadingDigitsType DEF ParseInt

LEMMA IndexOfFirst ==
  ASSUME buffer \in Seq(Symbol), NEW from \in Nat \ {0}, NEW byte
  PROVE  \/ /\ IndexOf(byte, from) = 0
            /\ \A i \in from .. Len(buffer) : buffer[i] # byte
         \/ \E n \in from .. Len(buffer) :
              /\ IndexOf(byte, from) = n /\ buffer[n] = byte
              /\ \A i \in from .. n - 1 : buffer[i] # byte
<1> DEFINE I == {i \in from .. Len(buffer) : buffer[i] = byte}
<1>1. IndexOf(byte, from) = IF I # {} THEN Min(I) ELSE 0
  BY DEF IndexOf, SelectInSubSeq
<1>2. CASE I = {}
  BY <1>1, <1>2
<1>3. CASE I # {}
  <2>1. I \subseteq Nat
    OBVIOUS
  <2>2. Min(I) \in I /\ \A i \in I : Min(I) <= i
    <3> HIDE DEF I
    <3> QED
      BY <1>3, <2>1, MinOf
  <2>3. PICK n \in from .. Len(buffer) : n = Min(I) /\ buffer[n] = byte
    BY <2>2
  <2>4. \A i \in from .. n - 1 : buffer[i] # byte
    BY <2>2, <2>3
  <2> QED
    BY <1>1, <1>3, <2>3, <2>4
<1> QED
  BY <1>2, <1>3
-----------------------------------------------------------------------------
(* --- sequences of sequences --- *)

Flattens(parts, f) ==
  \A i \in 1 .. Len(parts) : f[i] = IF i = 1 THEN parts[i] ELSE f[i - 1] \o parts[i]

LEMMA FlattenSeqDef ==
  ASSUME NEW S, NEW parts \in Seq(Seq(S)), parts # <<>>
  PROVE  \E f \in [1 .. Len(parts) -> Seq(S)] :
           Flattens(parts, f) /\ FlattenSeq(parts) = f[Len(parts)]
<1> DEFINE I == 1 .. Len(parts)
           T == Seq(S)
           B == {1}
           m == [i \in I |-> i]
           p == [i \in I |-> IF i = 1 THEN 1 ELSE i - 1]
           b == [i \in I |-> parts[i]]
           g == [t \in T |-> [i \in I |-> t \o parts[i]]]
           Def(f) == [i \in I |-> IF i = 1 THEN parts[i] ELSE f[i - 1] \o parts[i]]
<1>1. Len(parts) \in Nat \ {0} /\ \A i \in I : parts[i] \in T
  BY EmptySeq
<1>2. m \in [I -> Nat] /\ p \in [I -> I] /\ b \in [I -> T] /\ g \in [T -> [I -> T]]
  BY <1>1
<1>3. \A i \in I : i \notin B => m[p[i]] < m[i]
  BY <1>1
<1>4. PICK f \in [I -> T] : \A i \in I : f[i] = IF i \in B THEN b[i] ELSE g[f[p[i]]][i]
  <2> HIDE DEF m, p, b, g, I, T, B
  <2>1. \E f \in [I -> T] : Defines(f, I, B, p, b, g)
    BY <1>2, <1>3, Recursion, Zenon
  <2> QED
    BY <2>1 DEF Defines
<1>5. \A i \in I : f[i] = IF i = 1 THEN parts[i] ELSE f[i - 1] \o parts[i]
  <2> SUFFICES ASSUME NEW i \in I
               PROVE  f[i] = IF i = 1 THEN parts[i] ELSE f[i - 1] \o parts[i]
    OBVIOUS
  <2>1. CASE i = 1
    BY <1>4, <2>1
  <2>2. CASE i # 1
    <3>0. i - 1 \in I
      BY <1>1, <2>2
    <3>1. p[i] = i - 1 /\ i \notin B
      BY <2>2
    <3>3. f[i - 1] \in T
      <4> HIDE DEF T, I
      <4> QED
        BY <3>0
    <3>2. f[i] = g[f[i - 1]][i]
      <4> HIDE DEF T, I, B, p, g, b
      <4> QED
        BY <1>4, <3>1
    <3> HIDE DEF T, I
    <3> QED
      BY <2>2, <3>2, <3>3
  <2> QED
    BY <2>1, <2>2
<1>6. f = Def(f)
  <2>1. \A i \in I : f[i] = Def(f)[i]
    BY <1>5
  <2> HIDE DEF I, T
  <2> QED
    BY <1>4, <2>1
<1> DEFINE h == CHOOSE q : q = Def(q)
<1>7. FlattenSeq(parts) = h[Len(parts)]
  BY <1>1 DEF FlattenSeq
<1>8. h = Def(h)
  <2> HIDE DEF Def
  <2> QED
    BY <1>6
<1> HIDE DEF h
<1>9. \A i \in I : h[i] = IF i = 1 THEN parts[i] ELSE h[i - 1] \o parts[i]
  <2> SUFFICES ASSUME NEW i \in I
               PROVE  h[i] = IF i = 1 THEN parts[i] ELSE h[i - 1] \o parts[i]
    OBVIOUS
  <2>1. h[i] = Def(h)[i]
    BY <1>8
  <2> QED
    BY <2>1
<1>10. \A i \in I : h[i] \in T
  <2> DEFINE N == {n \in Nat : n \in I => h[n] \in T}
  <2>1. 0 \in N
    OBVIOUS
  <2>2. ASSUME NEW n \in Nat, n \in N PROVE n + 1 \in N
    <3> SUFFICES ASSUME n + 1 \in I PROVE h[n + 1] \in T
      OBVIOUS
    <3>1. CASE n = 0
      BY <1>1, <1>9, <3>1
    <3>2. CASE n # 0
      <4>1. n \in I /\ h[n] \in T /\ (n + 1) - 1 = n /\ n + 1 # 1
        BY <2>2, <3>2
      <4>2. h[n + 1] = h[n] \o parts[n + 1]
        BY <1>9, <4>1
      <4> QED
        BY <1>1, <4>1, <4>2
    <3> QED
      BY <3>1, <3>2
  <2> HIDE DEF N
  <2>3. Nat \subseteq N
    BY <2>1, <2>2, Induction
  <2>4. I \subseteq Nat
    OBVIOUS
  <2> QED
    BY <2>3, <2>4 DEF N
<1>11. h \in [I -> T]
  <2> HIDE DEF I, T
  <2> QED
    BY <1>8, <1>10 DEF Def
<1> QED
  BY <1>7, <1>9, <1>11 DEF Flattens

(* What the first i parts are flattened to. *)
Flat(parts, i) == FlattenSeq(SubSeq(parts, 1, i))

LEMMA FirstParts ==
  ASSUME NEW S, NEW parts \in Seq(S), NEW i \in 0 .. Len(parts)
  PROVE  /\ SubSeq(parts, 1, i) \in Seq(S) /\ Len(SubSeq(parts, 1, i)) = i
         /\ \A k \in 1 .. i : SubSeq(parts, 1, i)[k] = parts[k]
<1>1. i \in Int /\ 1 \in Int /\ \A k \in 1 .. i : parts[k] \in S
  OBVIOUS
<1>2. /\ SubSeq(parts, 1, i) \in Seq(S)
      /\ Len(SubSeq(parts, 1, i)) = IF 1 <= i THEN i - 1 + 1 ELSE 0
      /\ \A k \in 1 .. i - 1 + 1 : SubSeq(parts, 1, i)[k] = parts[1 + k - 1]
  BY <1>1, SubSeqProperties
<1>3. i - 1 + 1 = i /\ i \in Nat /\ \A k \in 1 .. i : 1 + k - 1 = k
  OBVIOUS
<1> QED
  BY <1>2, <1>3

LEMMA FlatStep ==
  ASSUME NEW S, NEW parts \in Seq(Seq(S))
  PROVE  /\ \A i \in 0 .. Len(parts) : Flat(parts, i) \in Seq(S)
         /\ Flat(parts, 0) = <<>>
         /\ \A i \in 1 .. Len(parts) : Flat(parts, i) = Flat(parts, i - 1) \o parts[i]
         /\ FlattenSeq(parts) = Flat(parts, Len(parts))
<1>1. Len(parts) \in Nat /\ SubSeq(parts, 1, Len(parts)) = parts
  BY SubSeqFull
<1>2. Flat(parts, 0) = <<>>
  <2>1. SubSeq(parts, 1, 0) = <<>>
    BY SubSeqEmpty
  <2>2. FlattenSeq(<<>>) = <<>>
    BY EmptySeq DEF FlattenSeq
  <2> QED
    BY <2>1, <2>2 DEF Flat
<1>3. CASE parts = <<>>
  <2>1. Len(parts) = 0 /\ <<>> \in Seq(S)
    BY <1>3, EmptySeq
  <2>2. FlattenSeq(parts) = Flat(parts, Len(parts))
    BY <1>1 DEF Flat
  <2>3. \A i \in 0 .. Len(parts) : i = 0
    BY <2>1
  <2>4. \A i \in 1 .. Len(parts) : FALSE
    BY <2>1
  <2> QED
    BY <1>2, <2>1, <2>2, <2>3, <2>4
<1>4. CASE parts # <<>>
  <2>1. PICK f \in [1 .. Len(parts) -> Seq(S)] : Flattens(parts, f)
    BY <1>4, FlattenSeqDef
  <2>2. ASSUME NEW i \in 1 .. Len(parts) PROVE Flat(parts, i) = f[i]
    <3> DEFINE q == SubSeq(parts, 1, i)
    <3>1. /\ q \in Seq(Seq(S)) /\ Len(q) = i /\ i \in Nat \ {0}
          /\ \A k \in 1 .. i : q[k] = parts[k]
      <4>1. i \in 0 .. Len(parts) /\ i \in Nat \ {0}
        BY <1>1
      <4> QED
        BY <4>1, FirstParts
    <3>2. q # <<>>
      BY <3>1, EmptySeq
    <3> HIDE DEF q
    <3>3. PICK h \in [1 .. Len(q) -> Seq(S)] :
            Flattens(q, h) /\ FlattenSeq(q) = h[Len(q)]
      BY <3>1, <3>2, FlattenSeqDef
    <3> DEFINE N == {k \in Nat : k \in 1 .. i => h[k] = f[k]}
    <3>4. 0 \in N
      OBVIOUS
    <3>5. ASSUME NEW k \in Nat, k \in N PROVE k + 1 \in N
      <4> SUFFICES ASSUME k + 1 \in 1 .. i PROVE h[k + 1] = f[k + 1]
        OBVIOUS
      <4>1. /\ k + 1 \in 1 .. Len(parts) /\ k + 1 \in 1 .. Len(q)
            /\ k + 1 = 1 <=> k = 0
            /\ (k + 1) - 1 = k /\ (k # 0 => k \in 1 .. i)
        BY <1>1, <3>1
      <4>2. h[k + 1] = IF k = 0 THEN q[k + 1] ELSE h[k] \o q[k + 1]
        BY <3>3, <4>1 DEF Flattens
      <4>3. f[k + 1] = IF k = 0 THEN parts[k + 1] ELSE f[k] \o parts[k + 1]
        BY <2>1, <4>1 DEF Flattens
      <4>4. q[k + 1] = parts[k + 1]
        BY <3>1
      <4>5. k # 0 => h[k] = f[k]
        BY <3>5, <4>1
      <4> QED
        BY <4>2, <4>3, <4>4, <4>5
    <3> HIDE DEF N
    <3>6. Nat \subseteq N
      BY <3>4, <3>5, Induction
    <3>7. h[i] = f[i]
      BY <3>1, <3>6 DEF N
    <3> QED
      BY <3>1, <3>3, <3>7 DEF Flat, q
  <2>3. ASSUME NEW i \in 0 .. Len(parts) PROVE Flat(parts, i) \in Seq(S)
    <3>1. CASE i = 0
      BY <1>2, <3>1, EmptySeq
    <3>2. CASE i # 0
      <4>1. i \in 1 .. Len(parts)
        BY <1>1, <3>2
      <4> QED
        BY <2>2, <4>1
    <3> QED
      BY <3>1, <3>2
  <2>4. ASSUME NEW i \in 1 .. Len(parts)
        PROVE  Flat(parts, i) = Flat(parts, i - 1) \o parts[i]
    <3>0. parts[i] \in Seq(S)
      BY <1>1
    <3>1. CASE i = 1
      <4>1. f[1] = parts[1]
        BY <2>1, <3>1 DEF Flattens
      <4>2. <<>> \o parts[i] = parts[i]
        BY <3>0, ConcatEmptySeq
      <4>3. i - 1 = 0
        BY <3>1
      <4> QED
        BY <1>2, <2>2, <3>1, <4>1, <4>2, <4>3
    <3>2. CASE i # 1
      <4>1. i - 1 \in 1 .. Len(parts)
        BY <1>1, <3>2
      <4>2. f[i] = f[i - 1] \o parts[i]
        BY <2>1, <3>2 DEF Flattens
      <4> QED
        BY <2>2, <4>1, <4>2
    <3> QED
      BY <3>1, <3>2
  <2>5. FlattenSeq(parts) = Flat(parts, Len(parts))
    BY <1>1 DEF Flat
  <2> QED
    BY <1>2, <2>3, <2>4, <2>5
<1> QED
  BY <1>3, <1>4

LEMMA ConcatParts ==
  ASSUME NEW S, NEW a \in Seq(S), NEW b \in Seq(S), NEW c, c = a \o b
  PROVE  /\ c \in Seq(S) /\ Len(c) = Len(a) + Len(b)
         /\ Len(a) \in Nat /\ Len(b) \in Nat /\ Len(c) \in Nat
         /\ \A j \in 1 .. Len(a) : c[j] = a[j]
         /\ \A j \in 1 .. Len(b) : c[Len(a) + j] = b[j]
<1>1. /\ c \in Seq(S) /\ Len(c) = Len(a) + Len(b)
      /\ \A i \in 1 .. Len(a) + Len(b) : c[i] = IF i <= Len(a) THEN a[i] ELSE b[i - Len(a)]
  BY ConcatProperties
<1>2. Len(a) \in Nat /\ Len(b) \in Nat
  OBVIOUS
<1>3. ASSUME NEW j \in 1 .. Len(a) PROVE c[j] = a[j]
  <2>1. j \in 1 .. Len(a) + Len(b) /\ j <= Len(a)
    BY <1>2
  <2> QED
    BY <1>1, <2>1
<1>4. ASSUME NEW j \in 1 .. Len(b) PROVE c[Len(a) + j] = b[j]
  <2>1. /\ Len(a) + j \in 1 .. Len(a) + Len(b) /\ ~(Len(a) + j <= Len(a))
        /\ (Len(a) + j) - Len(a) = j
    BY <1>2
  <2> QED
    BY <1>1, <2>1
<1>5. Len(c) \in Nat
  BY <1>1, <1>2
<1> QED
  BY <1>1, <1>2, <1>3, <1>4, <1>5

(* Where the parts stand in what they are flattened to. *)
LEMMA Layout ==
  ASSUME NEW S, NEW parts \in Seq(Seq(S))
  PROVE  /\ FlattenSeq(parts) \in Seq(S)
         /\ Len(Flat(parts, 0)) = 0
         /\ Len(FlattenSeq(parts)) = Len(Flat(parts, Len(parts)))
         /\ \A i \in 0 .. Len(parts) :
              Len(Flat(parts, i)) \in 0 .. Len(FlattenSeq(parts))
         /\ \A i \in 1 .. Len(parts) :
              /\ Len(Flat(parts, i)) = Len(Flat(parts, i - 1)) + Len(parts[i])
              /\ \A j \in 1 .. Len(parts[i]) :
                   FlattenSeq(parts)[Len(Flat(parts, i - 1)) + j] = parts[i][j]
<1> DEFINE F(i) == Flat(parts, i)
           n == Len(parts)
<1>1. /\ \A i \in 0 .. n : F(i) \in Seq(S)
      /\ F(0) = <<>>
      /\ \A i \in 1 .. n : F(i) = F(i - 1) \o parts[i]
      /\ FlattenSeq(parts) = F(n)
  BY FlatStep
<1>2. n \in Nat /\ \A i \in 1 .. n : parts[i] \in Seq(S)
  OBVIOUS
<1> HIDE DEF F, n
<1>3. ASSUME NEW i \in 1 .. n
      PROVE  /\ Len(F(i)) = Len(F(i - 1)) + Len(parts[i])
             /\ Len(F(i)) \in Nat /\ Len(F(i - 1)) \in Nat /\ Len(parts[i]) \in Nat
             /\ \A j \in 1 .. Len(F(i - 1)) : F(i)[j] = F(i - 1)[j]
             /\ \A j \in 1 .. Len(parts[i]) : F(i)[Len(F(i - 1)) + j] = parts[i][j]
  <2>1. i - 1 \in 0 .. n /\ i \in 0 .. n
    BY <1>2
  <2>2. F(i - 1) \in Seq(S) /\ parts[i] \in Seq(S) /\ F(i) = F(i - 1) \o parts[i]
    BY <1>1, <1>2, <2>1
  <2> DEFINE a == F(i - 1)
             b == parts[i]
             c == F(i)
  <2> HIDE DEF a, b, c
  <2>3. a \in Seq(S) /\ b \in Seq(S) /\ c = a \o b
    BY <2>2 DEF a, b, c
  <2>4. /\ Len(c) = Len(a) + Len(b)
        /\ Len(a) \in Nat /\ Len(b) \in Nat /\ Len(c) \in Nat
        /\ \A j \in 1 .. Len(a) : c[j] = a[j]
        /\ \A j \in 1 .. Len(b) : c[Len(a) + j] = b[j]
    BY <2>3, ConcatParts
  <2> QED
    BY <2>4 DEF a, b, c
<1> DEFINE Extends(i, k) == /\ Len(F(i)) \in Nat /\ Len(F(k)) \in Nat
                            /\ Len(F(i)) <= Len(F(k))
                            /\ \A j \in 1 .. Len(F(i)) : F(k)[j] = F(i)[j]
<1>4. ASSUME NEW i \in 0 .. n PROVE Extends(i, n)
  <2> DEFINE N == {d \in Nat : i + d <= n => Extends(i, i + d)}
  <2>1. 0 \in N
    <3>1. Len(F(i)) \in Nat /\ i + 0 = i
      BY <1>1, <1>2
    <3> QED
      BY <3>1
  <2>2. ASSUME NEW d \in Nat, d \in N PROVE d + 1 \in N
    <3> SUFFICES ASSUME i + (d + 1) <= n PROVE Extends(i, i + (d + 1))
      OBVIOUS
    <3> DEFINE k == i + (d + 1)
               l == i + d
    <3>1. k \in 1 .. n /\ k - 1 = l /\ l <= n
      BY <1>2
    <3>2. Extends(i, l)
      BY <2>2, <3>1
    <3> HIDE DEF N, k, l
    <3>3. /\ Len(F(k)) = Len(F(l)) + Len(parts[k])
          /\ Len(F(k)) \in Nat /\ Len(F(l)) \in Nat /\ Len(parts[k]) \in Nat
          /\ \A j \in 1 .. Len(F(l)) : F(k)[j] = F(l)[j]
      BY <1>3, <3>1
    <3>4. Extends(i, k)
      BY <3>2, <3>3
    <3> QED
      BY <3>4 DEF k
  <2> HIDE DEF N, Extends
  <2>3. Nat \subseteq N
    BY <2>1, <2>2, Induction
  <2>4. n - i \in Nat /\ i + (n - i) = n /\ n <= n
    BY <1>2
  <2> QED
    BY <2>3, <2>4 DEF N
<1>5. ASSUME NEW i \in 1 .. n, NEW j \in 1 .. Len(parts[i])
      PROVE  F(n)[Len(F(i - 1)) + j] = parts[i][j]
  <2>1. i \in 0 .. n
    BY <1>2
  <2>2. Extends(i, n)
    BY <1>4, <2>1
  <2>3. /\ Len(F(i)) = Len(F(i - 1)) + Len(parts[i])
        /\ Len(F(i - 1)) \in Nat /\ Len(parts[i]) \in Nat
        /\ F(i)[Len(F(i - 1)) + j] = parts[i][j]
    BY <1>3
  <2>4. Len(F(i - 1)) + j \in 1 .. Len(F(i))
    BY <2>3
  <2> QED
    BY <2>2, <2>3, <2>4
<1>6. \A i \in 0 .. n : Len(F(i)) \in 0 .. Len(F(n))
  BY <1>4
<1>7. n \in 0 .. n
  BY <1>2
<1>8. F(n) \in Seq(S) /\ Len(F(0)) = 0
  BY <1>1, <1>7, EmptySeq
<1> HIDE DEF Extends
<1> QED
  BY <1>1, <1>3, <1>5, <1>6, <1>8 DEF F, n
-----------------------------------------------------------------------------
(* --- one string in a buffer --- *)

(* From position p on, b holds s. *)
Holds(b, p, s) ==
  p - 1 + Len(s) <= Len(b) /\ \A j \in 1 .. Len(s) : b[p - 1 + j] = s[j]

(* The buffer is the beginning of full. *)
Begins(full) ==
  /\ buffer \in Seq(Symbol) /\ Len(buffer) <= Len(full)
  /\ \A i \in 1 .. Len(buffer) : buffer[i] = full[i]

LEMMA HoldsConcat ==
  ASSUME NEW S, NEW b \in Seq(S), NEW p \in Nat \ {0},
         NEW s \in Seq(S), NEW t \in Seq(S), Holds(b, p, s \o t)
  PROVE  Holds(b, p, s) /\ p + Len(s) \in Nat \ {0} /\ Holds(b, p + Len(s), t)
<1> DEFINE c == s \o t
           m == Len(s)
           k == Len(t)
<1>1. /\ Len(c) = m + k /\ m \in Nat /\ k \in Nat
      /\ \A j \in 1 .. m : c[j] = s[j]
      /\ \A j \in 1 .. k : c[m + j] = t[j]
  BY ConcatParts
<1>2. p - 1 + Len(c) <= Len(b) /\ \A j \in 1 .. Len(c) : b[p - 1 + j] = c[j]
  BY DEF Holds
<1> HIDE DEF c
<1>3. Len(b) \in Nat
  OBVIOUS
<1> HIDE DEF m, k
<1>4. ASSUME NEW j \in 1 .. m PROVE b[p - 1 + j] = s[j]
  <2>1. j \in 1 .. Len(c)
    BY <1>1
  <2> QED
    BY <1>1, <1>2, <2>1
<1>5. ASSUME NEW j \in 1 .. k PROVE b[(p + m) - 1 + j] = t[j]
  <2>1. m + j \in 1 .. Len(c) /\ (p + m) - 1 + j = p - 1 + (m + j)
    BY <1>1
  <2>2. b[p - 1 + (m + j)] = c[m + j]
    BY <1>2, <2>1
  <2> QED
    BY <1>1, <2>1, <2>2
<1>6. p - 1 + m <= Len(b) /\ (p + m) - 1 + k <= Len(b) /\ p + m \in Nat \ {0}
  BY <1>1, <1>2, <1>3
<1> QED
  BY <1>4, <1>5, <1>6 DEF Holds, m, k

LEMMA StringType ==
  ASSUME NEW s \in Seq(Symbol)
  PROVE  LET d == DecimalText[Len(s)]
         IN  /\ EncodeString(s) \in Seq(Symbol)
             /\ d \in Seq(Digits) /\ d \in Seq(Symbol) /\ Len(d) \in Nat \ {0}
             /\ Len(s) \in Nat /\ ParseInt(d) = Len(s)
             /\ d \o <<":">> \in Seq(Symbol) /\ <<":">> \in Seq(Symbol)
             /\ EncodeString(s) = (d \o <<":">>) \o s
             /\ Len(EncodeString(s)) = Len(d) + 1 + Len(s)
<1> DEFINE d == DecimalText[Len(s)]
<1>1. Len(s) \in Nat
  OBVIOUS
<1>2. d \in Seq(Digits) /\ d \in Seq(Symbol) /\ d # <<>> /\ ParseInt(d) = Len(s)
  BY <1>1, ParseIntText
<1>3. <<":">> \in Seq(Symbol) /\ Len(<<":">>) = 1
  BY BencodeAssumption
<1>4. EncodeString(s) = (d \o <<":">>) \o s
  BY DEF EncodeString, LengthPrefix
<1> HIDE DEF d
<1>5. d \o <<":">> \in Seq(Symbol) /\ Len(d \o <<":">>) = Len(d) + 1
  BY <1>2, <1>3, ConcatParts
<1>6. EncodeString(s) \in Seq(Symbol) /\ Len(EncodeString(s)) = Len(d \o <<":">>) + Len(s)
  BY <1>4, <1>5, ConcatParts
<1>7. Len(d) \in Nat \ {0}
  BY <1>2, EmptySeq
<1> QED
  BY <1>1, <1>2, <1>3, <1>4, <1>5, <1>6, <1>7 DEF d

(* What the decoder finds where a string, or the beginning of one, stands. *)
LEMMA StringAt ==
  ASSUME NEW full \in Seq(Symbol), Begins(full), NEW p \in Nat \ {0},
         NEW s \in Seq(Symbol), Holds(full, p, EncodeString(s))
  PROVE  LET colon == IndexOf(":", p)
         IN  /\ ByteAt(p) \in Digits \cup {"undefined"}
             /\ colon # 0 => /\ colon \in p .. Len(buffer)
                             /\ colon + Len(s) + 1 = p + Len(EncodeString(s))
                             /\ ParseInt(SubSeq(buffer, p, colon - 1)) = Len(s)
             /\ p - 1 + Len(EncodeString(s)) <= Len(buffer) =>
                  /\ ByteAt(p) # "undefined"
                  /\ colon # 0 /\ colon + Len(s) <= Len(buffer)
                  /\ SubSeq(buffer, colon + 1, colon + Len(s)) = s
<1> DEFINE d == DecimalText[Len(s)]
           w == Len(d)
           l == Len(buffer)
           n == Len(s)
           colon == IndexOf(":", p)
<1>1. /\ d \in Seq(Digits) /\ d \in Seq(Symbol) /\ w \in Nat \ {0} /\ n \in Nat
      /\ ParseInt(d) = n /\ d \o <<":">> \in Seq(Symbol) /\ <<":">> \in Seq(Symbol)
      /\ EncodeString(s) = (d \o <<":">>) \o s
      /\ Len(EncodeString(s)) = w + 1 + n
  BY StringType
<1>2. /\ buffer \in Seq(Symbol) /\ l \in Nat /\ l <= Len(full) /\ Len(full) \in Nat
      /\ \A i \in 1 .. l : buffer[i] = full[i]
  BY DEF Begins
<1>3. /\ \A j \in 1 .. w : full[p - 1 + j] = d[j] /\ d[j] \in Digits
      /\ full[p + w] = ":"
      /\ \A j \in 1 .. n : full[p + w + j] = s[j]
  <2> HIDE DEF d
  <2>1. /\ Holds(full, p, d \o <<":">>)
        /\ Holds(full, p + Len(d \o <<":">>), s)
    <3> DEFINE c == d \o <<":">>
    <3>1. c \in Seq(Symbol) /\ EncodeString(s) = c \o s
      BY <1>1
    <3> HIDE DEF c
    <3>2. Holds(full, p, c \o s)
      BY <3>1
    <3>3. Holds(full, p, c) /\ Holds(full, p + Len(c), s)
      BY <3>1, <3>2, HoldsConcat
    <3> QED
      BY <3>3 DEF c
  <2>2. Len(d \o <<":">>) = w + 1
    BY <1>1, ConcatParts
  <2>3. Holds(full, p, d) /\ Holds(full, p + Len(d), <<":">>)
    BY <1>1, <2>1, HoldsConcat
  <2> HIDE DEF w
  <2>4. \A j \in 1 .. w : full[p - 1 + j] = d[j] /\ d[j] \in Digits
    BY <1>1, <2>3 DEF Holds, w
  <2>5. full[p + w] = ":"
    <3>1. full[(p + w) - 1 + 1] = <<":">>[1]
      BY <2>3 DEF Holds, w
    <3>2. (p + w) - 1 + 1 = p + w
      BY <1>1
    <3> QED
      BY <3>1, <3>2
  <2>6. ASSUME NEW j \in 1 .. n PROVE full[p + w + j] = s[j]
    <3>1. full[(p + (w + 1)) - 1 + j] = s[j]
      BY <2>1, <2>2 DEF Holds
    <3>2. (p + (w + 1)) - 1 + j = p + w + j
      BY <1>1
    <3> QED
      BY <3>1, <3>2
  <2> QED
    BY <2>4, <2>5, <2>6
<1> HIDE DEF d, w, l, n, colon
<1>4. \A i \in p .. p + w - 1 : full[i] \in Digits /\ full[i] # ":"
  <2> SUFFICES ASSUME NEW i \in p .. p + w - 1 PROVE full[i] \in Digits /\ full[i] # ":"
    OBVIOUS
  <2>1. i - p + 1 \in 1 .. w /\ p - 1 + (i - p + 1) = i
    BY <1>1
  <2>2. full[p - 1 + (i - p + 1)] \in Digits
    BY <1>3, <2>1
  <2>3. ":" \notin Digits
    BY DigitValues
  <2> QED
    BY <2>1, <2>2, <2>3
<1>5. ByteAt(p) = IF p <= l THEN full[p] ELSE "undefined"
  BY <1>2 DEF ByteAt, l
<1>6. full[p] \in Digits /\ full[p] # "undefined"
  <2>1. p \in p .. p + w - 1
    BY <1>1
  <2>2. "undefined" \notin Digits
    BY DigitValues
  <2> QED
    BY <1>4, <2>1, <2>2
<1>7. \/ colon = 0 /\ \A i \in p .. l : buffer[i] # ":"
      \/ \E k \in p .. l : /\ colon = k /\ buffer[k] = ":"
                           /\ \A i \in p .. k - 1 : buffer[i] # ":"
  BY <1>2, IndexOfFirst DEF colon, l
<1>8. ASSUME colon # 0 PROVE colon = p + w /\ colon <= l
  <2>1. PICK k \in p .. l : /\ colon = k /\ buffer[k] = ":"
                            /\ \A i \in p .. k - 1 : buffer[i] # ":"
    BY <1>7, <1>8
  <2>2. full[k] = ":" /\ \A i \in p .. k - 1 : full[i] # ":"
    BY <1>2, <2>1
  <2>3. ~(k < p + w)
    <3> SUFFICES ASSUME k < p + w PROVE FALSE
      OBVIOUS
    <3>1. k \in p .. p + w - 1
      BY <1>1
    <3> QED
      BY <1>4, <2>2, <3>1
  <2>4. ~(p + w < k)
    <3> SUFFICES ASSUME p + w < k PROVE FALSE
      OBVIOUS
    <3>1. p + w \in p .. k - 1
      BY <1>1
    <3> QED
      BY <1>3, <2>2, <3>1
  <2> QED
    BY <1>1, <1>2, <2>1, <2>3, <2>4
<1>9. ASSUME colon # 0 PROVE ParseInt(SubSeq(buffer, p, colon - 1)) = n
  <2> DEFINE t == SubSeq(buffer, p, colon - 1)
  <2>1. colon = p + w /\ colon <= l
    BY <1>8, <1>9
  <2>2. p \in Int /\ colon - 1 \in Int /\ \A i \in p .. colon - 1 : buffer[i] \in Symbol
    BY <1>1, <1>2, <2>1 DEF l
  <2>3. /\ t \in Seq(Symbol)
        /\ Len(t) = IF p <= colon - 1 THEN (colon - 1) - p + 1 ELSE 0
        /\ \A i \in 1 .. (colon - 1) - p + 1 : t[i] = buffer[p + i - 1]
    BY <2>2, SubSeqProperties
  <2> HIDE DEF t
  <2>4. (colon - 1) - p + 1 = w /\ p <= colon - 1
    BY <1>1, <2>1
  <2>5. Len(t) = w
    BY <2>3, <2>4
  <2>6. ASSUME NEW j \in 1 .. w PROVE t[j] = d[j]
    <3>1. p + j - 1 = p - 1 + j /\ p - 1 + j \in 1 .. l
      BY <1>1, <1>2, <2>1
    <3>2. t[j] = buffer[p + j - 1]
      BY <2>3, <2>4
    <3>3. buffer[p - 1 + j] = full[p - 1 + j]
      BY <1>2, <3>1
    <3> QED
      BY <1>3, <3>1, <3>2, <3>3
  <2>7. t = d
    BY <1>1, <2>3, <2>5, <2>6, SeqEqual DEF w
  <2> QED
    BY <1>1, <2>7 DEF t
<1>10. ASSUME p - 1 + (w + 1 + n) <= l
       PROVE  /\ colon # 0 /\ p <= l /\ colon + n <= l
              /\ SubSeq(buffer, colon + 1, colon + n) = s
  <2>1. p + w \in p .. l /\ p <= l /\ p + w + n <= l
    BY <1>1, <1>2, <1>10
  <2>2. p + w \in 1 .. l
    BY <1>1, <1>2, <2>1
  <2>3. buffer[p + w] = ":"
    BY <1>2, <1>3, <2>2
  <2>4. colon # 0
    <3> SUFFICES ASSUME colon = 0 PROVE FALSE
      OBVIOUS
    <3>1. \A k \in p .. l : k # 0
      OBVIOUS
    <3> QED
      BY <1>7, <2>1, <2>3, <3>1
  <2>5. colon = p + w
    BY <1>8, <2>4
  <2> DEFINE t == SubSeq(buffer, colon + 1, colon + n)
  <2>6. /\ colon + 1 \in Int /\ colon + n \in Int
        /\ \A i \in colon + 1 .. colon + n : buffer[i] \in Symbol
    BY <1>1, <1>2, <2>1, <2>5 DEF l
  <2>7. /\ t \in Seq(Symbol)
        /\ Len(t) = IF colon + 1 <= colon + n THEN (colon + n) - (colon + 1) + 1 ELSE 0
        /\ \A i \in 1 .. (colon + n) - (colon + 1) + 1 : t[i] = buffer[(colon + 1) + i - 1]
    BY <2>6, SubSeqProperties
  <2> HIDE DEF t
  <2>8. Len(t) = n /\ (colon + n) - (colon + 1) + 1 = n
    BY <1>1, <2>5, <2>7
  <2>9. ASSUME NEW j \in 1 .. n PROVE t[j] = s[j]
    <3>1. (colon + 1) + j - 1 = p + w + j /\ p + w + j \in 1 .. l
      BY <1>1, <1>2, <2>1, <2>5
    <3>2. t[j] = buffer[(colon + 1) + j - 1]
      BY <2>7, <2>8
    <3>3. buffer[p + w + j] = full[p + w + j]
      BY <1>2, <3>1
    <3> QED
      BY <1>3, <3>1, <3>2, <3>3
  <2>10. t = s
    BY <2>7, <2>8, <2>9, SeqEqual DEF n
  <2> QED
    BY <2>1, <2>4, <2>5, <2>10 DEF t
<1>11. colon # 0 => colon \in p .. l /\ colon + n + 1 = p + (w + 1 + n)
  <2> SUFFICES ASSUME colon # 0
               PROVE  colon \in p .. l /\ colon + n + 1 = p + (w + 1 + n)
    OBVIOUS
  <2>1. colon = p + w /\ colon <= l
    BY <1>8
  <2> QED
    BY <1>1, <1>2, <2>1
<1> QED
  BY <1>1, <1>5, <1>6, <1>9, <1>10, <1>11 DEF colon, l, n
-----------------------------------------------------------------------------
(* --- entries in the order of their keys --- *)

LEMMA InjectionCovers ==
  ASSUME NEW n \in Nat, NEW f \in [1 .. n -> 1 .. n],
         \A i, j \in 1 .. n : f[i] = f[j] => i = j
  PROVE  \A r \in 1 .. n : \E i \in 1 .. n : f[i] = r
<1>1. f \in Injection(1 .. n, 1 .. n)
  BY DEF Injection, IsInjective
<1>2. IsFiniteSet(1 .. n)
  BY FS_Interval
<1>3. f \in Surjection(1 .. n, 1 .. n)
  BY <1>1, <1>2, FS_Injection
<1> QED
  BY <1>3 DEF Surjection

LEMMA SortedEntries ==
  ASSUME NEW S, NEW entries \in Seq(S),
         \A i \in 1 .. Len(entries) :
           \E k \in DOMAIN KeyOrder : <<KeyOrder[k]>> = entries[i][1],
         \A i, j \in 1 .. Len(entries) : entries[i][1] = entries[j][1] => i = j
  PROVE  /\ Sorted(entries) \in Seq(S) /\ Len(Sorted(entries)) = Len(entries)
         /\ \A r \in 1 .. Len(entries) :
              \E i \in 1 .. Len(entries) : Sorted(entries)[r] = entries[i]
         /\ \A i \in 1 .. Len(entries) :
              \E r \in 1 .. Len(entries) : Sorted(entries)[r] = entries[i]
         /\ \A r, q \in 1 .. Len(entries) :
              Sorted(entries)[r][1] = Sorted(entries)[q][1] => r = q
<1> DEFINE n == Len(entries)
           place(i) == CHOOSE k \in DOMAIN KeyOrder : <<KeyOrder[k]>> = entries[i][1]
           Before(i) == {j \in 1 .. n : place(j) <= place(i)}
           rank(i) == Cardinality(Before(i))
           f == [i \in 1 .. n |-> rank(i)]
<1>1. n \in Nat /\ DOMAIN entries = 1 .. n /\ \A i \in 1 .. n : entries[i] \in S
  OBVIOUS
<1>2. Sorted(entries) = [r \in 1 .. n |-> entries[CHOOSE i \in 1 .. n : rank(i) = r]]
  BY <1>1 DEF Sorted
<1>3. ASSUME NEW i \in 1 .. n
      PROVE  place(i) \in Nat /\ <<KeyOrder[place(i)]>> = entries[i][1]
  <2>1. place(i) \in DOMAIN KeyOrder /\ <<KeyOrder[place(i)]>> = entries[i][1]
    OBVIOUS
  <2>2. DOMAIN KeyOrder \subseteq Nat
    BY BencodeAssumption
  <2> QED
    BY <2>1, <2>2
<1>4. \A i, j \in 1 .. n : place(i) = place(j) => i = j
  BY <1>3
<1> HIDE DEF n, place
<1>5. ASSUME NEW i \in 1 .. n
      PROVE  IsFiniteSet(Before(i)) /\ rank(i) \in 1 .. n /\ i \in Before(i)
  <2>1. IsFiniteSet(1 .. n) /\ Cardinality(1 .. n) = n
    BY <1>1, FS_Interval
  <2>2. i \in Before(i)
    BY <1>3
  <2> HIDE DEF Before
  <2>3. Before(i) \in SUBSET (1 .. n)
    BY DEF Before
  <2> DEFINE B == Before(i)
             I == 1 .. n
  <2> HIDE DEF B, I
  <2>6. IsFiniteSet(I) /\ B \in SUBSET I
    BY <2>1, <2>3 DEF B, I
  <2>7. IsFiniteSet(B) /\ Cardinality(B) <= Cardinality(I)
    BY <2>6, FS_Subset
  <2>4. IsFiniteSet(Before(i)) /\ rank(i) <= n
    BY <2>1, <2>7 DEF B, I
  <2>5. rank(i) \in Nat /\ rank(i) # 0
    BY <2>2, <2>4, FS_CardinalityType, FS_EmptySet
  <2> QED
    BY <1>1, <2>2, <2>4, <2>5
<1>6. ASSUME NEW i \in 1 .. n, NEW j \in 1 .. n, place(i) < place(j)
      PROVE  rank(i) # rank(j)
  <2>1. Before(i) \in SUBSET Before(j)
    BY <1>3, <1>6
  <2>2. j \notin Before(i)
    BY <1>3, <1>6
  <2> HIDE DEF Before
  <2>3. IsFiniteSet(Before(j)) /\ j \in Before(j)
    BY <1>5
  <2>4. rank(i) = rank(j) => Before(i) = Before(j)
    BY <2>1, <2>3, FS_Subset
  <2> QED
    BY <2>2, <2>3, <2>4
<1>7. ASSUME NEW i \in 1 .. n, NEW j \in 1 .. n, rank(i) = rank(j) PROVE i = j
  <2> HIDE DEF rank
  <2>1. ~(place(i) < place(j)) /\ ~(place(j) < place(i))
    BY <1>6, <1>7
  <2>2. place(i) = place(j)
    BY <1>3, <2>1
  <2> QED
    BY <1>4, <2>2
<1> HIDE DEF rank
<1>8. \A r \in 1 .. n : \E i \in 1 .. n : rank(i) = r
  <2>1. f \in [1 .. n -> 1 .. n] /\ \A i, j \in 1 .. n : f[i] = f[j] => i = j
    BY <1>5, <1>7
  <2>2. \A i \in 1 .. n : f[i] = rank(i)
    OBVIOUS
  <2> HIDE DEF f
  <2>3. \A r \in 1 .. n : \E i \in 1 .. n : f[i] = r
    BY <1>1, <2>1, InjectionCovers
  <2> QED
    BY <2>2, <2>3
<1> DEFINE at(r) == CHOOSE i \in 1 .. n : rank(i) = r
<1>9. \A r \in 1 .. n : at(r) \in 1 .. n /\ rank(at(r)) = r
  BY <1>8
<1>10. \A i \in 1 .. n : rank(i) \in 1 .. n /\ at(rank(i)) = i
  BY <1>5, <1>7, <1>9
<1>11. Sorted(entries) = [r \in 1 .. n |-> entries[at(r)]]
  BY <1>2
<1> HIDE DEF at
<1>12. Sorted(entries) \in Seq(S) /\ Len(Sorted(entries)) = n
  BY <1>1, <1>9, <1>11
<1>13. \A r \in 1 .. n : Sorted(entries)[r] = entries[at(r)]
  BY <1>11
<1>14. ASSUME NEW r \in 1 .. n, NEW q \in 1 .. n,
              Sorted(entries)[r][1] = Sorted(entries)[q][1]
       PROVE  r = q
  <2>1. entries[at(r)][1] = entries[at(q)][1]
    BY <1>13, <1>14
  <2>2. at(r) = at(q)
    BY <1>9, <2>1 DEF n
  <2> HIDE DEF rank
  <2> QED
    BY <1>9, <2>2
<1> QED
  BY <1>9, <1>10, <1>12, <1>13, <1>14 DEF n
-----------------------------------------------------------------------------
(* --- an encoded dictionary --- *)

(* What the dictionaries of messages and handshakes hold. *)
Mapped == LocalHandshakeEntry(LocalId)
Texts == {Text(s) : s \in Seq(Symbol)}
FieldValues == Texts \cup {Mapped}
FieldEntries == Seq(Symbol) \X FieldValues

Dictionary(entries) ==
  /\ entries \in Seq(FieldEntries)
  /\ \A i \in 1 .. Len(entries) :
       \E k \in DOMAIN KeyOrder : <<KeyOrder[k]>> = entries[i][1]
  /\ \A i, j \in 1 .. Len(entries) : entries[i][1] = entries[j][1] => i = j

Parts(entries) ==
  [i \in DOMAIN entries |-> EncodeString(entries[i][1]) \o EncodeFlat(entries[i][2])]

(* Where the i-th entry of a dictionary begins, and where its value does. *)
Start(entries, i) == 2 + Len(Flat(Parts(entries), i - 1))
ValueStart(entries, i) == Start(entries, i) + Len(EncodeString(entries[i][1]))

LEMMA KeyWords ==
  \A w \in ToSet(KeyOrder) :
    /\ w \in Symbol /\ <<w>> \in Seq(Symbol)
    /\ \E k \in DOMAIN KeyOrder : KeyOrder[k] = w
  BY BencodeAssumption DEF ToSet

(* The entry "m" is encoded as d1:seedpayi1ee. *)
LEMMA MappedType ==
  /\ <<"seedpay">> \in Seq(Symbol) /\ DecimalText[1] \in Seq(Symbol)
  /\ Mapped = <<"dict", <<<<<<"seedpay">>, Number(1)>>>>>>
  /\ LET body == EncodeString(<<"seedpay">>) \o ((<<"i">> \o DecimalText[1]) \o <<"e">>)
     IN  /\ EncodeFlat(Mapped) = (<<"d">> \o body) \o <<"e">>
         /\ body \in Seq(Symbol)
         /\ EncodeFlat(Mapped) \in Seq(Symbol)
<1> DEFINE word == <<"seedpay">>
           entry == <<word, Number(1)>>
           number == (<<"i">> \o DecimalText[1]) \o <<"e">>
           body == EncodeString(word) \o number
<1>1. word \in Seq(Symbol) /\ \E k \in DOMAIN KeyOrder : <<KeyOrder[k]>> = word
  <2>1. "seedpay" \in ToSet(KeyOrder)
    BY WireAssumption
  <2> QED
    BY <2>1, KeyWords
<1>2. Mapped = <<"dict", <<entry>>>>
  BY DEF Mapped, LocalHandshakeEntry, LocalId, Dict
<1>3. Sorted(<<entry>>) = <<entry>>
  <2> DEFINE t == <<entry>>
  <2> HIDE DEF word
  <2>1. t \in Seq({entry}) /\ Len(t) = 1 /\ t[1] = entry /\ entry[1] = word
    OBVIOUS
  <2> HIDE DEF t, entry
  <2>2. /\ \A i \in 1 .. Len(t) : \E k \in DOMAIN KeyOrder : <<KeyOrder[k]>> = t[i][1]
        /\ \A i, j \in 1 .. Len(t) : t[i][1] = t[j][1] => i = j
    BY <1>1, <2>1
  <2>3. /\ Sorted(t) \in Seq({entry}) /\ Len(Sorted(t)) = Len(t)
    BY <2>1, <2>2, SortedEntries
  <2>4. Sorted(t)[1] = entry
    BY <2>1, <2>3
  <2>5. Sorted(t) = t
    BY <2>1, <2>3, <2>4, SeqEqual
  <2> QED
    BY <2>5 DEF t
<1>4. /\ DecimalText[1] \in Seq(Symbol) /\ number \in Seq(Symbol)
      /\ <<"d">> \in Seq(Symbol) /\ <<"e">> \in Seq(Symbol)
  <2>1. <<"i">> \in Seq(Symbol) /\ <<"e">> \in Seq(Symbol) /\ <<"d">> \in Seq(Symbol)
    BY BencodeAssumption
  <2>2. 1 \in Nat
    OBVIOUS
  <2>3. DecimalText[1] \in Seq(Symbol)
    BY <2>2, ParseIntText
  <2> QED
    BY <2>1, <2>3
<1>5. EncodeScalar(Number(1)) = number
  BY DEF EncodeScalar, Number
<1>6. body \in Seq(Symbol)
  <2> HIDE DEF number, word
  <2> QED
    BY <1>1, <1>4, StringType
<1>7. EncodeFlat(Mapped) =
        (<<"d">> \o FlattenSeq([i \in DOMAIN <<entry>> |->
                     EncodeString(<<entry>>[i][1]) \o EncodeScalar(<<entry>>[i][2])])) \o <<"e">>
  <2>1. EncodeFlat(Mapped) = EncodeContainer(Mapped, EncodeScalar)
    BY <1>2 DEF EncodeFlat, IsContainer
  <2>2. Mapped[1] # "list" /\ Sorted(Mapped[2]) = <<entry>>
    BY <1>2, <1>3
  <2> HIDE DEF entry
  <2> QED
    BY <2>1, <2>2 DEF EncodeContainer
<1>8. [i \in DOMAIN <<entry>> |->
         EncodeString(<<entry>>[i][1]) \o EncodeScalar(<<entry>>[i][2])] = <<body>>
  <2>1. entry[1] = word /\ entry[2] = Number(1)
    OBVIOUS
  <2> HIDE DEF entry, word, number
  <2>2. EncodeString(entry[1]) \o EncodeScalar(entry[2]) = body
    BY <1>5, <2>1
  <2> HIDE DEF body
  <2>3. DOMAIN <<entry>> = 1 .. 1 /\ <<entry>>[1] = entry
    OBVIOUS
  <2>4. \A i \in 1 .. 1 : i = 1
    OBVIOUS
  <2>5. [i \in DOMAIN <<entry>> |->
          EncodeString(<<entry>>[i][1]) \o EncodeScalar(<<entry>>[i][2])]
          = [i \in 1 .. 1 |-> body]
    BY <2>2, <2>3, <2>4
  <2>6. [i \in 1 .. 1 |-> body] = <<body>>
    OBVIOUS
  <2> QED
    BY <2>5, <2>6
<1>9. FlattenSeq(<<body>>) = body
  <2> HIDE DEF body
  <2>1. <<body>> \in Seq(Seq(Symbol)) /\ Len(<<body>>) = 1 /\ <<body>>[1] = body
    BY <1>6
  <2> DEFINE q == <<body>>
  <2> HIDE DEF q
  <2>3. /\ Flat(q, 0) = <<>> /\ Flat(q, 1) = Flat(q, 1 - 1) \o q[1]
        /\ FlattenSeq(q) = Flat(q, Len(q))
    <3>1. q \in Seq(Seq(Symbol)) /\ 1 \in 1 .. Len(q)
      BY <2>1 DEF q
    <3> QED
      BY <3>1, FlatStep
  <2>4. 1 - 1 = 0
    OBVIOUS
  <2>2. FlattenSeq(<<body>>) = <<>> \o body
    BY <2>1, <2>3, <2>4 DEF q
  <2> QED
    BY <1>6, <2>2, ConcatEmptySeq
<1>10. EncodeFlat(Mapped) = (<<"d">> \o body) \o <<"e">>
  BY <1>7, <1>8, <1>9
<1>11. EncodeFlat(Mapped) \in Seq(Symbol)
  <2> HIDE DEF body
  <2> QED
    BY <1>4, <1>6, <1>10
<1> QED
  BY <1>1, <1>2, <1>4, <1>6, <1>10, <1>11

LEMMA FieldType ==
  /\ \A s \in Seq(Symbol) : EncodeFlat(Text(s)) = EncodeString(s)
  /\ \A v \in FieldValues : EncodeFlat(v) \in Seq(Symbol)
<1>1. \A s \in Seq(Symbol) : EncodeFlat(Text(s)) = EncodeString(s)
  BY DEF EncodeFlat, IsContainer, EncodeScalar, Text
<1>2. \A s \in Seq(Symbol) : EncodeString(s) \in Seq(Symbol)
  BY StringType
<1>3. EncodeFlat(Mapped) \in Seq(Symbol)
  BY MappedType
<1> QED
  BY <1>1, <1>2, <1>3 DEF FieldValues, Texts

Encoded(entries) == (<<"d">> \o FlattenSeq(Parts(entries))) \o <<"e">>

LEMMA EncodeDict ==
  ASSUME NEW entries
  PROVE  EncodeValue(Dict(entries)) = Encoded(Sorted(entries))
  BY DEF EncodeValue, IsContainer, EncodeContainer, Dict, Encoded, Parts

LEMMA DictLayout ==
  ASSUME NEW e \in Seq(FieldEntries)
  PROVE  LET full == Encoded(e)
             n == Len(e)
         IN  /\ full \in Seq(Symbol) /\ full[1] = "d"
             /\ Start(e, 1) = 2
             /\ Start(e, n + 1) = Len(full) /\ full[Start(e, n + 1)] = "e"
             /\ \A i \in 1 .. n + 1 : Start(e, i) \in 2 .. Len(full)
             /\ \A i \in 1 .. n :
                  /\ e[i][1] \in Seq(Symbol) /\ e[i][2] \in FieldValues
                  /\ ValueStart(e, i) \in Nat \ {0}
                  /\ Holds(full, Start(e, i), EncodeString(e[i][1]))
                  /\ Holds(full, ValueStart(e, i), EncodeFlat(e[i][2]))
                  /\ Start(e, i + 1) = ValueStart(e, i) + Len(EncodeFlat(e[i][2]))
<1> DEFINE n == Len(e)
           parts == Parts(e)
           body == FlattenSeq(parts)
           full == Encoded(e)
           O(i) == Len(Flat(parts, i))
<1>1. n \in Nat /\ DOMAIN e = 1 .. n
  OBVIOUS
<1>2. ASSUME NEW i \in 1 .. n
      PROVE  /\ e[i][1] \in Seq(Symbol) /\ e[i][2] \in FieldValues
             /\ EncodeString(e[i][1]) \in Seq(Symbol) /\ EncodeFlat(e[i][2]) \in Seq(Symbol)
             /\ parts[i] = EncodeString(e[i][1]) \o EncodeFlat(e[i][2])
             /\ parts[i] \in Seq(Symbol)
  <2>1. e[i] \in Seq(Symbol) \X FieldValues
    BY DEF FieldEntries
  <2>2. e[i][1] \in Seq(Symbol) /\ e[i][2] \in FieldValues
    BY <2>1
  <2>3. EncodeString(e[i][1]) \in Seq(Symbol)
    BY <2>2, StringType
  <2>4. EncodeFlat(e[i][2]) \in Seq(Symbol)
    BY <2>2, FieldType
  <2>5. parts[i] = EncodeString(e[i][1]) \o EncodeFlat(e[i][2])
    BY <1>1 DEF Parts
  <2>6. parts[i] \in Seq(Symbol)
    BY <2>3, <2>4, <2>5, ConcatProperties
  <2> QED
    BY <2>2, <2>3, <2>4, <2>5, <2>6
<1>3. parts \in Seq(Seq(Symbol)) /\ Len(parts) = n
  <2>1. parts = [i \in 1 .. n |-> EncodeString(e[i][1]) \o EncodeFlat(e[i][2])]
    BY <1>1 DEF Parts
  <2>2. \A i \in 1 .. n : EncodeString(e[i][1]) \o EncodeFlat(e[i][2]) \in Seq(Symbol)
    BY <1>2
  <2> QED
    BY <1>1, <2>1, <2>2
<1> HIDE DEF n, parts
<1>4. /\ body \in Seq(Symbol) /\ O(0) = 0 /\ Len(body) = O(n)
      /\ \A i \in 0 .. n : O(i) \in 0 .. Len(body)
      /\ \A i \in 1 .. n :
           /\ O(i) = O(i - 1) + Len(parts[i])
           /\ \A j \in 1 .. Len(parts[i]) : body[O(i - 1) + j] = parts[i][j]
  BY <1>3, Layout
<1> HIDE DEF body, O
<1>5. /\ full \in Seq(Symbol) /\ Len(full) = Len(body) + 2 /\ Len(body) \in Nat
      /\ full[1] = "d" /\ full[Len(body) + 2] = "e"
      /\ \A j \in 1 .. Len(body) : full[1 + j] = body[j]
  <2> DEFINE a == <<"d">> \o body
  <2>1. <<"d">> \in Seq(Symbol) /\ <<"e">> \in Seq(Symbol)
    BY BencodeAssumption
  <2>2. Len(<<"d">>) = 1 /\ Len(<<"e">>) = 1 /\ <<"d">>[1] = "d" /\ <<"e">>[1] = "e"
    OBVIOUS
  <2>3. full = a \o <<"e">>
    BY DEF Encoded, body, parts
  <2> HIDE DEF full
  <2>4. /\ a \in Seq(Symbol) /\ Len(a) = Len(<<"d">>) + Len(body) /\ Len(body) \in Nat
        /\ \A j \in 1 .. Len(<<"d">>) : a[j] = <<"d">>[j]
        /\ \A j \in 1 .. Len(body) : a[Len(<<"d">>) + j] = body[j]
    BY <1>4, <2>1, ConcatParts
  <2> HIDE DEF a
  <2>5. /\ full \in Seq(Symbol) /\ Len(full) = Len(a) + Len(<<"e">>) /\ Len(a) \in Nat
        /\ \A j \in 1 .. Len(a) : full[j] = a[j]
        /\ \A j \in 1 .. Len(<<"e">>) : full[Len(a) + j] = <<"e">>[j]
    BY <2>1, <2>3, <2>4, ConcatParts
  <2>6. a[1] = "d" /\ full[1] = a[1]
    BY <2>2, <2>4, <2>5
  <2>7. full[Len(a) + 1] = "e"
    BY <2>2, <2>5
  <2>8. Len(a) = 1 + Len(body)
    BY <2>2, <2>4
  <2>9. \A j \in 1 .. Len(body) : a[1 + j] = body[j] /\ full[1 + j] = a[1 + j]
    <3>1. \A j \in 1 .. Len(body) : a[1 + j] = body[j]
      BY <2>2, <2>4
    <3>2. \A j \in 1 .. Len(body) : 1 + j \in 1 .. Len(a)
      BY <2>4, <2>8
    <3> QED
      BY <2>5, <3>1, <3>2
  <2>10. Len(full) = Len(body) + 2 /\ Len(a) + 1 = Len(body) + 2
    BY <2>2, <2>4, <2>5, <2>8
  <2> QED
    BY <2>4, <2>5, <2>6, <2>7, <2>9, <2>10
<1> HIDE DEF full
<1>6. \A i \in 1 .. n + 1 : Start(e, i) = 2 + O(i - 1) /\ i - 1 \in 0 .. n
  BY <1>1 DEF Start, O, parts
<1>7. /\ Start(e, 1) = 2 /\ Start(e, n + 1) = Len(full)
      /\ \A i \in 1 .. n + 1 : Start(e, i) \in 2 .. Len(full)
  <2>1. 1 - 1 = 0 /\ (n + 1) - 1 = n /\ 1 \in 1 .. n + 1 /\ n + 1 \in 1 .. n + 1
    BY <1>1
  <2>2. Start(e, 1) = 2 + O(0) /\ Start(e, n + 1) = 2 + O(n)
    BY <1>6, <2>1
  <2> QED
    BY <1>4, <1>5, <1>6, <2>2
<1>8. ASSUME NEW i \in 1 .. n
      PROVE  /\ ValueStart(e, i) \in Nat \ {0}
             /\ Holds(full, Start(e, i), EncodeString(e[i][1]))
             /\ Holds(full, ValueStart(e, i), EncodeFlat(e[i][2]))
             /\ Start(e, i + 1) = ValueStart(e, i) + Len(EncodeFlat(e[i][2]))
  <2> DEFINE k == EncodeString(e[i][1])
             v == EncodeFlat(e[i][2])
             p == Start(e, i)
  <2>1. k \in Seq(Symbol) /\ v \in Seq(Symbol) /\ parts[i] = k \o v /\ parts[i] \in Seq(Symbol)
    BY <1>2
  <2> HIDE DEF k, v
  <2>2. /\ i \in 1 .. n + 1 /\ i + 1 \in 1 .. n + 1 /\ (i + 1) - 1 = i
        /\ i \in 0 .. n /\ i - 1 \in 0 .. n
    BY <1>1
  <2>3. p = 2 + O(i - 1) /\ Start(e, i + 1) = 2 + O(i)
    BY <1>6, <2>2
  <2>4. /\ O(i) = O(i - 1) + Len(parts[i]) /\ O(i) \in Nat /\ O(i - 1) \in Nat
        /\ O(i) <= Len(body)
        /\ \A j \in 1 .. Len(parts[i]) : body[O(i - 1) + j] = parts[i][j]
    BY <1>4, <2>2
  <2>5. Len(parts[i]) = Len(k) + Len(v) /\ Len(k) \in Nat /\ Len(v) \in Nat
    BY <2>1, ConcatParts
  <2> HIDE DEF p
  <2>6. Holds(full, p, k \o v)
    <3>1. ASSUME NEW j \in 1 .. Len(parts[i]) PROVE full[p - 1 + j] = parts[i][j]
      <4> DEFINE o == O(i - 1)
                 t == parts[i]
      <4>3. /\ o \in Nat /\ Len(t) \in Nat /\ o + Len(t) <= Len(body)
            /\ p = 2 + o /\ j \in 1 .. Len(t) /\ body[o + j] = t[j]
        BY <2>3, <2>4, <2>5
      <4> HIDE DEF o, t
      <4>1. o + j \in 1 .. Len(body) /\ p - 1 + j = 1 + (o + j)
        BY <1>5, <4>3
      <4>2. full[1 + (o + j)] = body[o + j]
        BY <1>5, <4>1
      <4>4. full[p - 1 + j] = t[j]
        BY <4>1, <4>2, <4>3
      <4> QED
        BY <4>4 DEF t
    <3>2. p - 1 + Len(parts[i]) <= Len(full)
      BY <1>5, <2>3, <2>4, <2>5
    <3> QED
      BY <2>1, <3>1, <3>2 DEF Holds
  <2>7. p \in Nat \ {0}
    BY <2>3, <2>4
  <2>8. Holds(full, p, k) /\ p + Len(k) \in Nat \ {0} /\ Holds(full, p + Len(k), v)
    BY <1>5, <2>1, <2>6, <2>7, HoldsConcat
  <2>9. ValueStart(e, i) = p + Len(k)
    BY DEF ValueStart, p, k
  <2>10. Start(e, i + 1) = (p + Len(k)) + Len(v)
    BY <2>3, <2>4, <2>5
  <2> QED
    BY <2>8, <2>9, <2>10 DEF k, v, p
<1>9. full[Start(e, n + 1)] = "e"
  BY <1>5, <1>7
<1> QED
  BY <1>2, <1>5, <1>7, <1>8, <1>9 DEF n, full
-----------------------------------------------------------------------------
(* --- hex --- *)

LEMMA HexValues ==
  /\ \A i \in 0 .. 15 : /\ HexDigit[i + 1] \in ToSet(HexDigit)
                        /\ HexDigit[i + 1] \in Symbol /\ HexValue(HexDigit[i + 1]) = i
  /\ \A c \in ToSet(HexDigit) : HexValue(c) \in 0 .. 15
  /\ Digits \subseteq ToSet(HexDigit)
  /\ ToSet(HexDigit) \subseteq {"0", "1", "2", "3", "4", "5", "6", "7", "8", "9",
                               "a", "b", "c", "d", "e", "f"}
<1> DEFINE letter == <<"a", "b", "c", "d", "e", "f">>
           S == {"0", "1", "2", "3", "4", "5", "6", "7", "8", "9",
                 "a", "b", "c", "d", "e", "f"}
<1>1. /\ Len(HexDigit) = 16 /\ HexDigit \in Seq(S)
      /\ \A i \in 1 .. 10 : HexDigit[i] = Digit[i]
      /\ \A i \in 11 .. 16 : HexDigit[i] = letter[i - 10]
  <2>1. Digit \in Seq(S) /\ Len(Digit) = 10
    BY DEF Digit
  <2>2. letter \in Seq(S) /\ Len(letter) = 6
    OBVIOUS
  <2>3. HexDigit = Digit \o letter
    BY DEF HexDigit
  <2> HIDE DEF letter, S
  <2>4. /\ HexDigit \in Seq(S) /\ Len(HexDigit) = Len(Digit) + Len(letter)
        /\ \A j \in 1 .. Len(Digit) : HexDigit[j] = Digit[j]
        /\ \A j \in 1 .. Len(letter) : HexDigit[Len(Digit) + j] = letter[j]
    <3> DEFINE a == Digit
    <3>1. a \in Seq(S) /\ letter \in Seq(S) /\ HexDigit = a \o letter
      BY <2>1, <2>2, <2>3
    <3> HIDE DEF a
    <3>2. /\ HexDigit \in Seq(S) /\ Len(HexDigit) = Len(a) + Len(letter)
          /\ \A j \in 1 .. Len(a) : HexDigit[j] = a[j]
          /\ \A j \in 1 .. Len(letter) : HexDigit[Len(a) + j] = letter[j]
      BY <3>1, ConcatParts
    <3> QED
      BY <3>2 DEF a
  <2>5. \A i \in 11 .. 16 : i - 10 \in 1 .. 6 /\ 10 + (i - 10) = i
    OBVIOUS
  <2>6. \A i \in 11 .. 16 : HexDigit[10 + (i - 10)] = letter[i - 10]
    BY <2>1, <2>2, <2>4, <2>5
  <2> QED
    BY <2>1, <2>2, <2>4, <2>5, <2>6
<1>2. DOMAIN HexDigit = 1 .. 16
  BY <1>1
<1>3. \A i, j \in 1 .. 16 : HexDigit[i] = HexDigit[j] => i = j
  <2>1. \A i, j \in 1 .. 10 : Digit[i] = Digit[j] => i = j
    BY DEF Digit
  <2>2. \A i, j \in 1 .. 6 : letter[i] = letter[j] => i = j
    OBVIOUS
  <2>3. \A i \in 1 .. 10, j \in 1 .. 6 : Digit[i] # letter[j]
    BY DEF Digit
  <2> HIDE DEF letter
  <2>4. ASSUME NEW i \in 1 .. 16
        PROVE  \/ i \in 1 .. 10 /\ HexDigit[i] = Digit[i]
               \/ i - 10 \in 1 .. 6 /\ HexDigit[i] = letter[i - 10]
    <3>1. i \in 1 .. 10 \/ i \in 11 .. 16
      OBVIOUS
    <3>2. i \in 11 .. 16 => i - 10 \in 1 .. 6
      OBVIOUS
    <3> QED
      BY <1>1, <3>1, <3>2
  <2>5. ASSUME NEW i \in 1 .. 16, NEW j \in 1 .. 16, HexDigit[i] = HexDigit[j]
        PROVE  i = j
    <3>1. i - 10 = j - 10 => i = j
      OBVIOUS
    <3> QED
      BY <2>1, <2>2, <2>3, <2>4, <2>5, <3>1
  <2> QED
    BY <2>5
<1>4. ASSUME NEW i \in 1 .. 16
      PROVE  HexDigit[i] \in ToSet(HexDigit) /\ HexValue(HexDigit[i]) = i - 1
  <2>1. HexDigit[i] \in ToSet(HexDigit)
    BY <1>2 DEF ToSet
  <2>2. (CHOOSE j \in 1 .. 16 : HexDigit[j] = HexDigit[i]) = i
    BY <1>3
  <2> QED
    BY <1>2, <2>1, <2>2 DEF HexValue
<1>5. ASSUME NEW i \in 0 .. 15
      PROVE  /\ HexDigit[i + 1] \in ToSet(HexDigit)
             /\ HexDigit[i + 1] \in Symbol /\ HexValue(HexDigit[i + 1]) = i
  <2>1. i + 1 \in 1 .. 16 /\ (i + 1) - 1 = i
    OBVIOUS
  <2> QED
    BY <1>4, <2>1, WireAssumption
<1>6. ASSUME NEW c \in ToSet(HexDigit) PROVE HexValue(c) \in 0 .. 15
  <2>1. PICK i \in 1 .. 16 : c = HexDigit[i]
    BY <1>2 DEF ToSet
  <2>2. HexValue(c) = i - 1
    BY <1>4, <2>1
  <2> QED
    BY <2>2
<1>7. Digits \subseteq ToSet(HexDigit)
  <2> SUFFICES ASSUME NEW c \in Digits PROVE c \in ToSet(HexDigit)
    OBVIOUS
  <2>0. DOMAIN Digit = 1 .. 10
    BY DEF Digit
  <2>1. PICK i \in 1 .. 10 : c = Digit[i]
    BY <2>0 DEF Digits, ToSet
  <2>2. i \in 1 .. 16 /\ HexDigit[i] = c
    BY <1>1, <2>1
  <2> QED
    BY <1>4, <2>2
<1>8. ToSet(HexDigit) \subseteq S
  <2> HIDE DEF S
  <2>1. ASSUME NEW i \in 1 .. 16 PROVE HexDigit[i] \in S
    <3>1. HexDigit \in Seq(S) /\ i \in 1 .. Len(HexDigit)
      BY <1>1
    <3> QED
      BY <3>1, ElementOfSeq
  <2> QED
    BY <1>2, <2>1 DEF ToSet
<1> QED
  BY <1>5, <1>6, <1>7, <1>8

LEMMA HexRoundTrip ==
  ASSUME NEW bytes \in Seq(0 .. 255)
  PROVE  /\ BytesToHex(bytes) \in Seq(Symbol)
         /\ IsHex(BytesToHex(bytes)) /\ HexToBytes(BytesToHex(bytes)) = bytes
<1> DEFINE n == Len(bytes)
           h == BytesToHex(bytes)
           digit(i) == IF i % 2 = 1 THEN HexDigit[bytes[(i + 1) \div 2] \div 16 + 1]
                                    ELSE HexDigit[(bytes[i \div 2] % 16) + 1]
<1>1. n \in Nat /\ \A i \in 1 .. n : bytes[i] \in 0 .. 255
  <2> DEFINE Byte == 0 .. 255
  <2>1. bytes \in Seq(Byte)
    OBVIOUS
  <2> HIDE DEF Byte
  <2>2. n \in Nat /\ \A i \in 1 .. n : bytes[i] \in Byte
    BY <2>1
  <2> QED
    BY <2>2 DEF Byte
<1>2. h = [i \in 1 .. 2 * n |-> digit(i)]
  BY DEF BytesToHex
<1>3. ASSUME NEW b \in 0 .. 255
      PROVE  b \div 16 \in 0 .. 15 /\ b % 16 \in 0 .. 15 /\ 16 * (b \div 16) + (b % 16) = b
  <2>1. b \in Nat /\ b <= 255
    OBVIOUS
  <2>2. 16 * (b \div 16) + (b % 16) = b /\ b % 16 \in 0 .. 15 /\ b \div 16 \in Int
    BY <2>1
  <2>3. b \div 16 \in 0 .. 15
    BY <2>1, <2>2
  <2> QED
    BY <2>2, <2>3
<1>4. ASSUME NEW k \in 1 .. n
      PROVE  /\ 2 * k \in 1 .. 2 * n /\ 2 * k - 1 \in 1 .. 2 * n
             /\ digit(2 * k - 1) = HexDigit[bytes[k] \div 16 + 1]
             /\ digit(2 * k) = HexDigit[(bytes[k] % 16) + 1]
  <2>1. /\ 2 * k \in 1 .. 2 * n /\ 2 * k - 1 \in 1 .. 2 * n
        /\ (2 * k - 1) % 2 = 1 /\ (2 * k) % 2 = 0
        /\ ((2 * k - 1) + 1) \div 2 = k /\ (2 * k) \div 2 = k
    BY <1>1
  <2> QED
    BY <2>1
<1>5. ASSUME NEW i \in 1 .. 2 * n
      PROVE  \E k \in 1 .. n : i = 2 * k \/ i = 2 * k - 1
  <2>1. CASE i % 2 = 1
    <3>1. (i + 1) \div 2 \in 1 .. n /\ i = 2 * ((i + 1) \div 2) - 1
      BY <1>1, <2>1
    <3> QED
      BY <3>1
  <2>2. CASE i % 2 # 1
    <3>1. i \div 2 \in 1 .. n /\ i = 2 * (i \div 2)
      BY <1>1, <2>2
    <3> QED
      BY <3>1
  <2> QED
    BY <2>1, <2>2
<1> HIDE DEF n, digit
<1>6. ASSUME NEW k \in 1 .. n
      PROVE  /\ digit(2 * k - 1) \in ToSet(HexDigit) /\ digit(2 * k - 1) \in Symbol
             /\ digit(2 * k) \in ToSet(HexDigit) /\ digit(2 * k) \in Symbol
             /\ 16 * HexValue(digit(2 * k - 1)) + HexValue(digit(2 * k)) = bytes[k]
  <2> DEFINE b == bytes[k]
  <2>1. b \in 0 .. 255
    BY <1>1
  <2>2. digit(2 * k - 1) = HexDigit[b \div 16 + 1] /\ digit(2 * k) = HexDigit[(b % 16) + 1]
    BY <1>4
  <2> HIDE DEF b
  <2>3. b \div 16 \in 0 .. 15 /\ b % 16 \in 0 .. 15 /\ 16 * (b \div 16) + (b % 16) = b
    BY <1>3, <2>1
  <2>4. /\ HexDigit[b \div 16 + 1] \in ToSet(HexDigit) /\ HexDigit[b \div 16 + 1] \in Symbol
        /\ HexValue(HexDigit[b \div 16 + 1]) = b \div 16
    BY <2>3, HexValues
  <2>5. /\ HexDigit[(b % 16) + 1] \in ToSet(HexDigit) /\ HexDigit[(b % 16) + 1] \in Symbol
        /\ HexValue(HexDigit[(b % 16) + 1]) = b % 16
    BY <2>3, HexValues
  <2>6. /\ HexValue(digit(2 * k - 1)) = b \div 16
        /\ HexValue(digit(2 * k)) = b % 16
    BY <2>2, <2>4, <2>5
  <2>7. 16 * HexValue(digit(2 * k - 1)) + HexValue(digit(2 * k)) = b
    BY <2>3, <2>6
  <2> QED
    BY <2>2, <2>4, <2>5, <2>7 DEF b
<1>7. \A i \in 1 .. 2 * n : digit(i) \in ToSet(HexDigit) /\ digit(i) \in Symbol
  BY <1>5, <1>6
<1>8. h \in Seq(Symbol) /\ Len(h) = 2 * n /\ DOMAIN h = 1 .. 2 * n
      /\ \A i \in 1 .. 2 * n : h[i] = digit(i)
  <2>1. 2 * n \in Nat
    BY <1>1
  <2> HIDE DEF h
  <2> QED
    BY <1>2, <1>7, <2>1
<1> HIDE DEF h
<1>9. IsHex(h)
  <2>1. Len(h) % 2 = 0
    BY <1>1, <1>8
  <2> QED
    BY <1>7, <1>8, <2>1 DEF IsHex, ToSet
<1>10. HexToBytes(h) = bytes
  <2>1. (2 * n) \div 2 = n
    BY <1>1
  <2>2. HexToBytes(h) =
          [k \in 1 .. n |-> 16 * HexValue(h[2 * k - 1]) + HexValue(h[2 * k])]
    BY <1>8, <2>1 DEF HexToBytes
  <2>3. \A k \in 1 .. n : 16 * HexValue(h[2 * k - 1]) + HexValue(h[2 * k]) = bytes[k]
    BY <1>4, <1>6, <1>8
  <2>4. bytes = [k \in 1 .. n |-> bytes[k]]
    BY DEF n
  <2> QED
    BY <2>2, <2>3, <2>4
<1> QED
  BY <1>8, <1>9, <1>10 DEF h

LEMMA HexDecodeType ==
  ASSUME NEW text \in Seq(Symbol), IsHex(text)
  PROVE  HexToBytes(text) \in Seq(0 .. 255)
<1>1. Len(text) \in Nat /\ Len(text) \div 2 \in Nat
  OBVIOUS
<1>3. \A j \in 1 .. Len(text) : text[j] \in ToSet(HexDigit)
  <2>1. DOMAIN text = 1 .. Len(text)
    OBVIOUS
  <2> QED
    BY <2>1 DEF IsHex, ToSet
<1>2. ASSUME NEW i \in 1 .. Len(text) \div 2
      PROVE  16 * HexValue(text[2 * i - 1]) + HexValue(text[2 * i]) \in 0 .. 255
  <2>1. 2 * i - 1 \in 1 .. Len(text) /\ 2 * i \in 1 .. Len(text)
    BY <1>1
  <2>2. text[2 * i - 1] \in ToSet(HexDigit) /\ text[2 * i] \in ToSet(HexDigit)
    BY <1>3, <2>1
  <2>3. HexValue(text[2 * i - 1]) \in 0 .. 15 /\ HexValue(text[2 * i]) \in 0 .. 15
    BY <2>2, HexValues
  <2> DEFINE x == HexValue(text[2 * i - 1])
             y == HexValue(text[2 * i])
  <2> HIDE DEF x, y
  <2>4. x \in 0 .. 15 /\ y \in 0 .. 15
    BY <2>3 DEF x, y
  <2>5. 16 * x + y \in 0 .. 255
    BY <2>4
  <2> QED
    BY <2>5 DEF x, y
<1> DEFINE byte(i) == 16 * HexValue(text[2 * i - 1]) + HexValue(text[2 * i])
           n == Len(text) \div 2
           Byte == 0 .. 255
<1>4. HexToBytes(text) = [i \in 1 .. n |-> byte(i)]
  BY DEF HexToBytes
<1>5. n \in Nat /\ \A i \in 1 .. n : byte(i) \in Byte
  BY <1>1, <1>2
<1> HIDE DEF byte, n, Byte
<1>6. HexToBytes(text) \in Seq(Byte)
  BY <1>4, <1>5
<1> QED
  BY <1>6 DEF Byte
-----------------------------------------------------------------------------
(* --- messages as dictionaries --- *)

LEMMA FieldKinds ==
  \A t \in MessageTypes :
    /\ t \in Symbol /\ "type" \notin DOMAIN Fields[t]
    /\ DOMAIN Fields[t] \subseteq ToSet(KeyOrder)
    /\ \A f \in DOMAIN Fields[t] : Fields[t][f] \in {"hex", "amount", "text"}
<1>1. \A t \in MessageTypes : "type" \notin DOMAIN Fields[t]
  BY DEF MessageTypes, Fields
<1>2. \A t \in MessageTypes : \A f \in DOMAIN Fields[t] :
        Fields[t][f] \in {"hex", "amount", "text"}
  BY DEF MessageTypes, Fields
<1>3. \A t \in MessageTypes : t \in Symbol /\ DOMAIN Fields[t] \subseteq ToSet(KeyOrder)
  BY WireAssumption
<1> QED
  BY <1>1, <1>2, <1>3

LEMMA FiniteFields ==
  ASSUME NEW t \in MessageTypes
  PROVE  IsFiniteSet(DOMAIN Fields[t])
<1> DEFINE n == Len(KeyOrder)
           K == ToSet(KeyOrder)
           D == DOMAIN Fields[t]
<1>1. n \in Nat /\ DOMAIN KeyOrder = 1 .. n
  BY BencodeAssumption
<1>2. KeyOrder \in Surjection(1 .. n, K)
  <2>1. KeyOrder = [i \in 1 .. n |-> KeyOrder[i]]
    BY BencodeAssumption
  <2>2. \A i \in 1 .. n : KeyOrder[i] \in K
    BY <1>1 DEF ToSet
  <2>3. KeyOrder \in [1 .. n -> K]
    BY <2>1, <2>2
  <2>4. \A w \in K : \E i \in 1 .. n : KeyOrder[i] = w
    BY <1>1 DEF ToSet
  <2> QED
    BY <2>3, <2>4 DEF Surjection
<1>3. IsFiniteSet(1 .. n)
  BY <1>1, FS_Interval
<1>4. IsFiniteSet(K)
  BY <1>2, <1>3, FS_Surjection
<1>5. D \in SUBSET K
  BY FieldKinds
<1> HIDE DEF D, K
<1>6. IsFiniteSet(D)
  BY <1>4, <1>5, FS_Subset
<1> QED
  BY <1>6 DEF D

LEMMA SetToSeqCovers ==
  ASSUME NEW S, IsFiniteSet(S)
  PROVE  LET s == SetToSeq(S)
         IN  /\ s \in Seq(S) /\ \A i, j \in 1 .. Len(s) : s[i] = s[j] => i = j
             /\ \A x \in S : \E i \in 1 .. Len(s) : s[i] = x
<1> DEFINE n == Cardinality(S)
           s == SetToSeq(S)
<1>1. n \in Nat /\ ExistsBijection(1 .. n, S)
  BY FS_CardinalityType
<1>2. \E f \in [1 .. n -> S] : IsInjective(f)
  BY <1>1 DEF ExistsBijection, Bijection, Injection
<1>3. s \in [1 .. n -> S] /\ IsInjective(s)
  BY <1>2 DEF SetToSeq
<1> HIDE DEF s
<1>4. s \in Injection(1 .. n, S)
  BY <1>3 DEF Injection
<1>5. IsFiniteSet(1 .. n) /\ Cardinality(1 .. n) = n
  BY <1>1, FS_Interval
<1>6. s \in Surjection(1 .. n, S)
  <2> DEFINE I == 1 .. n
  <2> HIDE DEF I
  <2>1. s \in Injection(I, S) /\ Cardinality(I) = Cardinality(S)
    BY <1>4, <1>5 DEF I
  <2>2. s \in Surjection(I, S)
    BY <2>1, FS_Injection
  <2> QED
    BY <2>2 DEF I
<1> HIDE DEF n
<1>7. s \in Seq(S) /\ Len(s) = n
  BY <1>1, <1>3
<1>8. \A x \in S : \E i \in 1 .. n : s[i] = x
  BY <1>6 DEF Surjection
<1>9. \A i, j \in 1 .. n : s[i] = s[j] => i = j
  BY <1>3 DEF IsInjective
<1> QED
  BY <1>7, <1>8, <1>9 DEF s

(* A conversion of encodeMessage gives a string, and decodeMessage undoes it. *)
LEMMA FieldRoundTrip ==
  ASSUME NEW m, IsMessage(m), NEW f \in DOMAIN Fields[m.type]
  PROVE  LET kind == Fields[m.type][f]
         IN  \E s \in Seq(Symbol) :
               /\ EncodeField(kind, m[f]) = Text(s)
               /\ kind = "hex" => IsHex(s)
               /\ kind = "amount" => IsBigInt(s)
               /\ DecodeField(kind, s) = m[f]
<1> DEFINE kind == Fields[m.type][f]
<1>1. kind \in {"hex", "amount", "text"}
  BY FieldKinds DEF IsMessage
<1>2. /\ kind = "hex" => m[f] \in Seq(0 .. 255)
      /\ kind = "amount" => m[f] \in Nat
      /\ kind = "text" => m[f] \in Seq(Symbol)
  BY DEF IsMessage
<1> HIDE DEF kind
<1>3. CASE kind = "hex"
  <2>1. /\ BytesToHex(m[f]) \in Seq(Symbol) /\ IsHex(BytesToHex(m[f]))
        /\ HexToBytes(BytesToHex(m[f])) = m[f]
    BY <1>2, <1>3, HexRoundTrip
  <2>2. /\ EncodeField(kind, m[f]) = Text(BytesToHex(m[f]))
        /\ DecodeField(kind, BytesToHex(m[f])) = HexToBytes(BytesToHex(m[f]))
    BY <1>3 DEF EncodeField, DecodeField
  <2> QED
    BY <1>3, <2>1, <2>2 DEF kind
<1>4. CASE kind = "amount"
  <2>1. /\ DecimalText[m[f]] \in Seq(Digits) /\ DecimalText[m[f]] \in Seq(Symbol)
        /\ ParseInt(DecimalText[m[f]]) = m[f]
    BY <1>2, <1>4, ParseIntText
  <2>2. IsBigInt(DecimalText[m[f]])
    BY <2>1 DEF IsBigInt, ToSet
  <2>3. /\ EncodeField(kind, m[f]) = Text(DecimalText[m[f]])
        /\ DecodeField(kind, DecimalText[m[f]]) = m[f]
    BY <1>4, <2>1 DEF EncodeField, DecodeField, BigIntOf
  <2> QED
    BY <1>4, <2>1, <2>2, <2>3 DEF kind
<1>5. CASE kind = "text"
  <2>1. EncodeField(kind, m[f]) = Text(m[f]) /\ DecodeField(kind, m[f]) = m[f]
    BY <1>5 DEF EncodeField, DecodeField
  <2> QED
    BY <1>2, <1>5, <2>1 DEF kind
<1> QED
  BY <1>1, <1>3, <1>4, <1>5

MessageEntries(m) == EncodeMessage(m)[2]

LEMMA MessageDictionary ==
  ASSUME NEW m, IsMessage(m)
  PROVE  LET fields == Fields[m.type]
             entries == MessageEntries(m)
         IN  /\ Dictionary(entries) /\ EncodeMessage(m) = Dict(entries)
             /\ \A i \in 1 .. Len(entries) : entries[i][2] \in Texts
             /\ \A i \in 1 .. Len(entries) :
                  \/ entries[i] = <<<<"type">>, Text(<<m.type>>)>>
                  \/ \E f \in DOMAIN fields :
                       entries[i] = <<<<f>>, EncodeField(fields[f], m[f])>>
             /\ \E i \in 1 .. Len(entries) :
                  entries[i] = <<<<"type">>, Text(<<m.type>>)>>
             /\ \A f \in DOMAIN fields : \E i \in 1 .. Len(entries) :
                  entries[i] = <<<<f>>, EncodeField(fields[f], m[f])>>
<1> DEFINE t == m.type
           D == DOMAIN Fields[t]
           tag == <<<<"type">>, Text(<<t>>)>>
           F(f) == <<<<f>>, EncodeField(Fields[t][f], m[f])>>
           X == {F(f) : f \in D}
           s == SetToSeq(X)
           entries == MessageEntries(m)
<1>1. EncodeMessage(m) = Dict(<<tag>> \o s) /\ entries = <<tag>> \o s
  BY DEF EncodeMessage, MessageEntries, Dict
<1>2. t \in MessageTypes
  BY DEF IsMessage
<1>3. IsFiniteSet(D)
  BY <1>2, FiniteFields
<1>4. "type" \notin D /\ D \subseteq ToSet(KeyOrder) /\ t \in Symbol
  BY <1>2, FieldKinds
<1>5. ASSUME NEW f \in D
      PROVE  F(f) \in FieldEntries /\ F(f)[1] = <<f>> /\ F(f)[2] \in Texts
  <2>1. <<f>> \in Seq(Symbol)
    BY <1>4, KeyWords
  <2>2. \E x \in Seq(Symbol) : EncodeField(Fields[t][f], m[f]) = Text(x)
    BY FieldRoundTrip
  <2>3. EncodeField(Fields[t][f], m[f]) \in Texts
    BY <2>2 DEF Texts
  <2>4. EncodeField(Fields[t][f], m[f]) \in FieldValues
    BY <2>3 DEF FieldValues
  <2> QED
    BY <2>1, <2>3, <2>4 DEF FieldEntries
<1>6. tag \in FieldEntries /\ tag[1] = <<"type">> /\ tag[2] \in Texts
  <2>1. "type" \in ToSet(KeyOrder) /\ <<t>> \in Seq(Symbol)
    BY <1>4, WireAssumption
  <2>2. <<"type">> \in Seq(Symbol) /\ Text(<<t>>) \in Texts
    BY <2>1, KeyWords DEF Texts
  <2>3. Text(<<t>>) \in FieldValues
    BY <2>2 DEF FieldValues
  <2> QED
    BY <2>2, <2>3 DEF FieldEntries
<1> HIDE DEF tag, F, t
<1>7. IsFiniteSet(X)
  <2> DEFINE g == [f \in D |-> F(f)]
  <2>1. g \in [D -> X] /\ \A x \in X : \E f \in D : g[f] = x
    OBVIOUS
  <2> HIDE DEF g, D, X
  <2>2. g \in Surjection(D, X)
    BY <2>1 DEF Surjection
  <2> QED
    BY <1>3, <2>2, FS_Surjection
<1>8. /\ s \in Seq(X) /\ \A i, j \in 1 .. Len(s) : s[i] = s[j] => i = j
      /\ \A x \in X : \E i \in 1 .. Len(s) : s[i] = x
  <2> HIDE DEF X
  <2> QED
    BY <1>7, SetToSeqCovers
<1> HIDE DEF s
<1>9. \A i \in 1 .. Len(s) : s[i] \in X
  <2> HIDE DEF X
  <2> QED
    BY <1>8
<1>10. \A i \in 1 .. Len(s) : \E f \in D : s[i] = F(f)
  BY <1>9
<1>11. \A f \in D : \E i \in 1 .. Len(s) : s[i] = F(f)
  BY <1>8
<1> HIDE DEF X, D
<1>12. s \in Seq(FieldEntries)
  <2>1. Len(s) \in Nat /\ s = [i \in 1 .. Len(s) |-> s[i]]
    BY <1>8
  <2>2. \A i \in 1 .. Len(s) : s[i] \in FieldEntries
    BY <1>5, <1>10
  <2> QED
    BY <2>1, <2>2
<1>13. /\ entries \in Seq(FieldEntries) /\ Len(entries) = 1 + Len(s) /\ Len(s) \in Nat
       /\ entries[1] = tag
       /\ \A i \in 1 .. Len(s) : entries[1 + i] = s[i]
  <2> DEFINE a == <<tag>>
             c == a \o s
  <2>1. a \in Seq(FieldEntries) /\ Len(a) = 1 /\ a[1] = tag
    BY <1>6
  <2>2. entries = c
    BY <1>1
  <2>4. c = a \o s
    OBVIOUS
  <2>5. a \in Seq(FieldEntries)
    BY <2>1
  <2> DEFINE T == FieldEntries
             b == s
  <2>6. a \in Seq(T) /\ b \in Seq(T) /\ c = a \o b
    BY <1>12, <2>4, <2>5
  <2> HIDE DEF a, b, entries, c, T
  <2>7. /\ c \in Seq(T) /\ Len(c) = Len(a) + Len(b)
        /\ Len(b) \in Nat
        /\ \A j \in 1 .. Len(a) : c[j] = a[j]
        /\ \A j \in 1 .. Len(b) : c[Len(a) + j] = b[j]
    BY <2>6, ConcatParts
  <2>3. /\ c \in Seq(FieldEntries) /\ Len(c) = Len(a) + Len(s)
        /\ Len(s) \in Nat
        /\ \A j \in 1 .. Len(a) : c[j] = a[j]
        /\ \A j \in 1 .. Len(s) : c[Len(a) + j] = s[j]
    BY <2>7 DEF b, T
  <2> QED
    BY <2>1, <2>2, <2>3
<1> HIDE DEF entries
<1>14. ASSUME NEW i \in 1 .. Len(entries)
       PROVE  \/ i = 1 /\ entries[i] = tag
              \/ i - 1 \in 1 .. Len(s) /\ entries[i] = s[i - 1]
  <2>1. CASE i = 1
    BY <1>13, <2>1
  <2>2. CASE i # 1
    <3>1. i - 1 \in 1 .. Len(s) /\ 1 + (i - 1) = i
      BY <1>13, <2>2
    <3> QED
      BY <1>13, <3>1
  <2> QED
    BY <2>1, <2>2
<1>15. ASSUME NEW i \in 1 .. Len(entries)
       PROVE  \E k \in DOMAIN KeyOrder : <<KeyOrder[k]>> = entries[i][1]
  <2>1. \E w \in ToSet(KeyOrder) : entries[i][1] = <<w>>
    <3>1. CASE entries[i] = tag
      BY <1>6, <3>1, WireAssumption
    <3>2. CASE \E f \in D : entries[i] = F(f)
      BY <1>4, <1>5, <3>2
    <3> QED
      BY <1>10, <1>14, <3>1, <3>2
  <2> QED
    BY <2>1, KeyWords
<1>16. ASSUME NEW i \in 1 .. Len(entries), NEW j \in 1 .. Len(entries),
              entries[i][1] = entries[j][1]
       PROVE  i = j
  <2>1. ASSUME NEW a \in 1 .. Len(s) PROVE s[a][1] # tag[1]
    <3>1. PICK f \in D : s[a] = F(f)
      BY <1>10
    <3>2. f # "type"
      BY <1>4
    <3> QED
      BY <1>5, <1>6, <3>1, <3>2
  <2>2. ASSUME NEW a \in 1 .. Len(s), NEW b \in 1 .. Len(s), s[a][1] = s[b][1]
        PROVE  a = b
    <3>1. PICK f \in D : s[a] = F(f)
      BY <1>10
    <3>2. PICK g \in D : s[b] = F(g)
      BY <1>10
    <3>3. F(f)[1] = <<f>> /\ F(g)[1] = <<g>>
      BY <1>5
    <3>4. <<f>> = <<g>>
      BY <2>2, <3>1, <3>2, <3>3
    <3>5. s[a] = s[b]
      BY <3>1, <3>2, <3>4
    <3> QED
      BY <1>8, <3>5
  <2>4. \A a, b \in 1 .. Len(s) : s[a][1] = s[b][1] => a = b
    BY <2>2
  <2>3. i - 1 = j - 1 => i = j
    OBVIOUS
  <2> DEFINE ei == entries[i]
             ej == entries[j]
  <2>5. /\ (i = 1 /\ ei = tag) \/ (i - 1 \in 1 .. Len(s) /\ ei = s[i - 1])
        /\ (j = 1 /\ ej = tag) \/ (j - 1 \in 1 .. Len(s) /\ ej = s[j - 1])
    BY <1>14
  <2>6. ei[1] = ej[1]
    BY <1>16
  <2> HIDE DEF ei, ej
  <2>7. CASE i = 1 /\ ei = tag
    BY <2>1, <2>5, <2>6, <2>7
  <2>8. CASE i - 1 \in 1 .. Len(s) /\ ei = s[i - 1]
    <3>1. ej # tag
      BY <2>1, <2>6, <2>8
    <3>2. j - 1 \in 1 .. Len(s) /\ ej = s[j - 1]
      BY <2>5, <3>1
    <3>3. i - 1 = j - 1
      BY <2>4, <2>6, <2>8, <3>2
    <3> QED
      BY <2>3, <3>3
  <2> QED
    BY <2>5, <2>7, <2>8
<1>17. Dictionary(entries)
  BY <1>13, <1>15, <1>16 DEF Dictionary
<1>18. \E i \in 1 .. Len(entries) : entries[i] = tag
  BY <1>13
<1>19. \A f \in D : \E i \in 1 .. Len(entries) : entries[i] = F(f)
  <2> SUFFICES ASSUME NEW f \in D PROVE \E i \in 1 .. Len(entries) : entries[i] = F(f)
    OBVIOUS
  <2>1. PICK i \in 1 .. Len(s) : s[i] = F(f)
    BY <1>11
  <2>2. 1 + i \in 1 .. Len(entries) /\ entries[1 + i] = F(f)
    BY <1>13, <2>1
  <2> QED
    BY <2>2
<1>21. \A i \in 1 .. Len(entries) : entries[i][2] \in Texts
  BY <1>5, <1>6, <1>10, <1>14
<1>22. \A i \in 1 .. Len(entries) : entries[i] = tag \/ \E f \in D : entries[i] = F(f)
  BY <1>10, <1>14
<1>20. EncodeMessage(m) = Dict(entries)
  BY <1>1 DEF entries
<1> QED
  BY <1>17, <1>18, <1>19, <1>20, <1>21, <1>22 DEF entries, tag, F, D, t

LEMMA SortedDictionary ==
  ASSUME NEW entries, Dictionary(entries)
  PROVE  /\ Sorted(entries) \in Seq(FieldEntries) /\ Len(Sorted(entries)) = Len(entries)
         /\ Len(entries) \in Nat
         /\ \A r \in 1 .. Len(entries) :
              \E i \in 1 .. Len(entries) : Sorted(entries)[r] = entries[i]
         /\ \A i \in 1 .. Len(entries) :
              \E r \in 1 .. Len(entries) : Sorted(entries)[r] = entries[i]
         /\ \A r, q \in 1 .. Len(entries) :
              Sorted(entries)[r][1] = Sorted(entries)[q][1] => r = q
<1> DEFINE S == FieldEntries
<1>1. /\ entries \in Seq(S)
      /\ \A i \in 1 .. Len(entries) :
           \E k \in DOMAIN KeyOrder : <<KeyOrder[k]>> = entries[i][1]
      /\ \A i, j \in 1 .. Len(entries) : entries[i][1] = entries[j][1] => i = j
  BY DEF Dictionary
<1>2. Len(entries) \in Nat
  BY <1>1
<1> HIDE DEF S
<1>3. /\ Sorted(entries) \in Seq(S) /\ Len(Sorted(entries)) = Len(entries)
      /\ \A r \in 1 .. Len(entries) :
           \E i \in 1 .. Len(entries) : Sorted(entries)[r] = entries[i]
      /\ \A i \in 1 .. Len(entries) :
           \E r \in 1 .. Len(entries) : Sorted(entries)[r] = entries[i]
      /\ \A r, q \in 1 .. Len(entries) :
           Sorted(entries)[r][1] = Sorted(entries)[q][1] => r = q
  BY <1>1, SortedEntries
<1> QED
  BY <1>2, <1>3 DEF S

(* The entry of a key is found after the entries were sorted. *)
LEMMA LookUp ==
  ASSUME NEW entries, Dictionary(entries), NEW w,
         NEW i \in 1 .. Len(entries), entries[i][1] = <<w>>
  PROVE  LET obj == Dict(Sorted(entries))
         IN  Has(obj, w) /\ Property(obj, w) = entries[i][2]
<1> DEFINE e == Sorted(entries)
           n == Len(entries)
           K == {r \in 1 .. n : e[r][1] = <<w>>}
<1>1. /\ e \in Seq(FieldEntries) /\ Len(e) = n /\ n \in Nat
      /\ \A r \in 1 .. n : \E j \in 1 .. n : e[r] = entries[j]
      /\ \A j \in 1 .. n : \E r \in 1 .. n : e[r] = entries[j]
  BY SortedDictionary
<1> HIDE DEF e
<1>2. \A j \in 1 .. n : entries[j][1] = <<w>> => j = i
  BY DEF Dictionary
<1>3. DOMAIN e = 1 .. n
  BY <1>1
<1> HIDE DEF n
<1>4. Entries(Dict(e), w) = K
  BY <1>3 DEF Entries, Dict
<1>5. K # {}
  <2>1. PICK r \in 1 .. n : e[r] = entries[i]
    BY <1>1 DEF n
  <2> QED
    BY <2>1
<1>6. Max(K) \in K
  <2> HIDE DEF K
  <2>1. K \subseteq 1 .. n
    BY DEF K
  <2> QED
    BY <1>1, <1>5, <2>1, MaxOf
<1>7. \A r \in K : e[r] = entries[i]
  BY <1>1, <1>2
<1>8. e[Max(K)] = entries[i]
  BY <1>6, <1>7
<1> HIDE DEF K
<1>9. Property(Dict(e), w) = entries[i][2]
  BY <1>4, <1>8 DEF Property, Dict
<1> QED
  BY <1>4, <1>5, <1>9 DEF Has, e

(* decodeMessage gives back the message whose dictionary it gets. *)
LEMMA MessageDecoded ==
  ASSUME NEW m, IsMessage(m), m = [f \in DOMAIN m |-> m[f]]
  PROVE  DecodeMessage(Dict(Sorted(MessageEntries(m)))) = m
<1> DEFINE t == m.type
           fields == Fields[t]
           entries == MessageEntries(m)
           obj == Dict(Sorted(entries))
<1>1. /\ Dictionary(entries)
      /\ \E i \in 1 .. Len(entries) : entries[i] = <<<<"type">>, Text(<<t>>)>>
      /\ \A f \in DOMAIN fields : \E i \in 1 .. Len(entries) :
           entries[i] = <<<<f>>, EncodeField(fields[f], m[f])>>
  BY MessageDictionary
<1>2. /\ t \in MessageTypes /\ DOMAIN m = {"type"} \cup DOMAIN fields
      /\ "type" \notin DOMAIN fields
  BY FieldKinds DEF IsMessage
<1> HIDE DEF entries, fields
<1>3. Has(obj, "type") /\ Property(obj, "type") = Text(<<t>>)
  <2>1. PICK i \in 1 .. Len(entries) : entries[i] = <<<<"type">>, Text(<<t>>)>>
    BY <1>1
  <2>2. entries[i][1] = <<"type">> /\ entries[i][2] = Text(<<t>>)
    BY <2>1
  <2> QED
    BY <1>1, <2>2, LookUp
<1>4. ASSUME NEW f \in DOMAIN fields
      PROVE  /\ Has(obj, f) /\ Property(obj, f) = EncodeField(fields[f], m[f])
  <2>1. PICK i \in 1 .. Len(entries) : entries[i] = <<<<f>>, EncodeField(fields[f], m[f])>>
    BY <1>1
  <2>2. entries[i][1] = <<f>> /\ entries[i][2] = EncodeField(fields[f], m[f])
    BY <2>1
  <2> QED
    BY <1>1, <2>2, LookUp
<1> HIDE DEF obj
<1>5. ASSUME NEW f \in DOMAIN fields
      PROVE  /\ IsField(obj, f, fields[f])
             /\ DecodeField(fields[f], Property(obj, f)[2]) = m[f]
  <2>1. PICK s \in Seq(Symbol) :
          /\ EncodeField(fields[f], m[f]) = Text(s)
          /\ fields[f] = "hex" => IsHex(s)
          /\ fields[f] = "amount" => IsBigInt(s)
          /\ DecodeField(fields[f], s) = m[f]
    BY FieldRoundTrip DEF fields
  <2>2. Property(obj, f) = Text(s)
    BY <1>4, <2>1
  <2>3. Property(obj, f)[1] = "text" /\ Property(obj, f)[2] = s
    BY <2>2 DEF Text
  <2> QED
    BY <1>4, <2>1, <2>3 DEF IsField
<1>6. Property(obj, "type")[2][1] = t
  BY <1>3 DEF Text
<1>7. DecodeMessage(obj) =
        [f \in {"type"} \cup DOMAIN fields |->
           IF f = "type" THEN t ELSE DecodeField(fields[f], Property(obj, f)[2])]
  BY <1>2, <1>3, <1>5, <1>6 DEF DecodeMessage, fields
<1>8. \A f \in DOMAIN m : m[f] = IF f = "type" THEN t
                                 ELSE DecodeField(fields[f], Property(obj, f)[2])
  <2> SUFFICES ASSUME NEW f \in DOMAIN m
               PROVE  m[f] = IF f = "type" THEN t
                             ELSE DecodeField(fields[f], Property(obj, f)[2])
    OBVIOUS
  <2>1. CASE f = "type"
    BY <2>1
  <2>2. CASE f # "type"
    <3>1. f \in DOMAIN fields
      BY <1>2, <2>2
    <3> QED
      BY <1>5, <2>2, <3>1
  <2> QED
    BY <2>1, <2>2
<1>9. m = [f \in DOMAIN m |-> IF f = "type" THEN t
                              ELSE DecodeField(fields[f], Property(obj, f)[2])]
  BY <1>8
<1>10. DecodeMessage(obj) = m
  BY <1>2, <1>7, <1>9
<1> QED
  BY <1>10 DEF obj, entries
-----------------------------------------------------------------------------
(* --- the extended handshake as a dictionary --- *)

HandshakeEntries(meta) == HandshakeDict(meta)[2]

LEMMA HandshakeDictionary ==
  ASSUME NEW meta \in Metadata
  PROVE  LET entries == HandshakeEntries(meta)
             price == DecimalText[meta.pricePerMb]
             minimum == DecimalText[meta.minPrepayment]
         IN  /\ Dictionary(entries) /\ HandshakeDict(meta) = Dict(entries)
             /\ Len(entries) = 5
             /\ entries[1] = <<<<"m">>, Mapped>>
             /\ entries[2] = <<<<"wallet">>, Text(meta.wallet)>>
             /\ entries[3] = <<<<"price_per_mb">>, Text(price)>>
             /\ entries[4] = <<<<"min_prepayment">>, Text(minimum)>>
             /\ entries[5] = <<<<"chain">>, Text(meta.chain)>>
             /\ meta.wallet \in Seq(Symbol) \ {<<>>} /\ meta.chain \in Seq(Symbol) \ {<<>>}
             /\ price \in Seq(Symbol) \ {<<>>} /\ minimum \in Seq(Symbol) \ {<<>>}
             /\ IsBigInt(price) /\ BigIntOf(price) = meta.pricePerMb
             /\ IsBigInt(minimum) /\ BigIntOf(minimum) = meta.minPrepayment
<1> DEFINE price == DecimalText[meta.pricePerMb]
           minimum == DecimalText[meta.minPrepayment]
           x1 == <<<<"m">>, Mapped>>
           x2 == <<<<"wallet">>, Text(meta.wallet)>>
           x3 == <<<<"price_per_mb">>, Text(price)>>
           x4 == <<<<"min_prepayment">>, Text(minimum)>>
           x5 == <<<<"chain">>, Text(meta.chain)>>
           entries == HandshakeEntries(meta)
<1>1. meta \in [wallet : Seq(Symbol) \ {<<>>}, pricePerMb : Nat,
                minPrepayment : Nat, chain : Seq(Symbol) \ {<<>>}]
  BY SentAssumption
<1>2. /\ meta.wallet \in Seq(Symbol) \ {<<>>} /\ meta.chain \in Seq(Symbol) \ {<<>>}
      /\ meta.pricePerMb \in Nat /\ meta.minPrepayment \in Nat
  BY <1>1
<1>3. ASSUME NEW n \in Nat
      PROVE  /\ DecimalText[n] \in Seq(Symbol) \ {<<>>}
             /\ IsBigInt(DecimalText[n]) /\ BigIntOf(DecimalText[n]) = n
  <2>1. /\ DecimalText[n] \in Seq(Digits) /\ DecimalText[n] \in Seq(Symbol)
        /\ DecimalText[n] # <<>> /\ ParseInt(DecimalText[n]) = n
    BY ParseIntText
  <2> QED
    BY <2>1 DEF IsBigInt, ToSet, BigIntOf
<1>4. /\ price \in Seq(Symbol) \ {<<>>} /\ IsBigInt(price) /\ BigIntOf(price) = meta.pricePerMb
      /\ minimum \in Seq(Symbol) \ {<<>>}
      /\ IsBigInt(minimum) /\ BigIntOf(minimum) = meta.minPrepayment
  BY <1>2, <1>3
<1> HIDE DEF price, minimum
<1>5. /\ HandshakeDict(meta) = Dict(<<x1>> \o <<x2, x3, x4, x5>>)
      /\ entries = <<x1>> \o <<x2, x3, x4, x5>>
  BY DEF HandshakeDict, HandshakeEntries, CreateHandshakeMetadata, Dict, Mapped, price, minimum
<1>6. /\ x1 \in FieldEntries /\ x1[1] = <<"m">>
      /\ x2 \in FieldEntries /\ x2[1] = <<"wallet">>
      /\ x3 \in FieldEntries /\ x3[1] = <<"price_per_mb">>
      /\ x4 \in FieldEntries /\ x4[1] = <<"min_prepayment">>
      /\ x5 \in FieldEntries /\ x5[1] = <<"chain">>
  <2>1. /\ <<"m">> \in Seq(Symbol) /\ <<"wallet">> \in Seq(Symbol)
        /\ <<"price_per_mb">> \in Seq(Symbol) /\ <<"min_prepayment">> \in Seq(Symbol)
        /\ <<"chain">> \in Seq(Symbol)
    BY KeyWords, WireAssumption
  <2>2. /\ Mapped \in FieldValues /\ Text(meta.wallet) \in FieldValues
        /\ Text(price) \in FieldValues /\ Text(minimum) \in FieldValues
        /\ Text(meta.chain) \in FieldValues
    BY <1>2, <1>4 DEF FieldValues, Texts
  <2> QED
    BY <2>1, <2>2 DEF FieldEntries
<1> HIDE DEF x1, x2, x3, x4, x5
<1>7. <<x1>> \o <<x2, x3, x4, x5>> = <<x1, x2, x3, x4, x5>>
  <2> DEFINE T == FieldEntries
             a == <<x1>>
             b == <<x2, x3, x4, x5>>
             d == <<x1, x2, x3, x4, x5>>
             c == a \o b
  <2> HIDE DEF T
  <2>1. x1 \in T /\ x2 \in T /\ x3 \in T /\ x4 \in T /\ x5 \in T
    BY <1>6 DEF T
  <2>2. a \in Seq(T) /\ Len(a) = 1 /\ a[1] = x1
    BY <2>1
  <2>3. b \in Seq(T) /\ Len(b) = 4 /\ b[1] = x2 /\ b[2] = x3 /\ b[3] = x4 /\ b[4] = x5
    BY <2>1
  <2>4. /\ d \in Seq(T) /\ Len(d) = 5
        /\ d[1] = x1 /\ d[2] = x2 /\ d[3] = x3 /\ d[4] = x4 /\ d[5] = x5
    BY <2>1
  <2>5. c = a \o b
    OBVIOUS
  <2> HIDE DEF a, b, c, d
  <2>6. /\ c \in Seq(T) /\ Len(c) = Len(a) + Len(b)
        /\ \A j \in 1 .. Len(a) : c[j] = a[j]
        /\ \A j \in 1 .. Len(b) : c[Len(a) + j] = b[j]
    <3>1. a \in Seq(T) /\ b \in Seq(T) /\ c = a \o b
      BY <2>2, <2>3, <2>5
    <3> QED
      BY <3>1, ConcatParts
  <2>7. /\ c[1] = x1 /\ c[1 + 1] = x2 /\ c[1 + 2] = x3 /\ c[1 + 3] = x4 /\ c[1 + 4] = x5
        /\ Len(c) = 5
    BY <2>2, <2>3, <2>6
  <2>8. \A i \in 1 .. Len(c) : c[i] = d[i]
    <3>1. \A i \in 1 .. Len(c) : i = 1 \/ i = 2 \/ i = 3 \/ i = 4 \/ i = 5
      BY <2>7
    <3> QED
      BY <2>4, <2>7, <3>1
  <2>9. c = d
    BY <2>4, <2>6, <2>7, <2>8, SeqEqual
  <2> QED
    BY <2>9 DEF a, b, c, d
<1>8. entries = <<x1, x2, x3, x4, x5>>
  BY <1>5, <1>7
<1> HIDE DEF entries
<1>9. /\ entries \in Seq(FieldEntries) /\ Len(entries) = 5
      /\ entries[1] = x1 /\ entries[2] = x2 /\ entries[3] = x3 /\ entries[4] = x4
      /\ entries[5] = x5
  BY <1>6, <1>8
<1>10. \A i \in 1 .. Len(entries) : i = 1 \/ i = 2 \/ i = 3 \/ i = 4 \/ i = 5
  BY <1>9
<1>11. \A i \in 1 .. Len(entries) :
         \E k \in DOMAIN KeyOrder : <<KeyOrder[k]>> = entries[i][1]
  <2>1. \A i \in 1 .. Len(entries) : \E w \in ToSet(KeyOrder) : entries[i][1] = <<w>>
    BY <1>6, <1>9, <1>10, WireAssumption
  <2> QED
    BY <2>1, KeyWords
<1>12. ASSUME NEW i \in 1 .. Len(entries), NEW j \in 1 .. Len(entries),
              entries[i][1] = entries[j][1]
       PROVE  i = j
  BY <1>6, <1>9, <1>10, <1>12
<1>13. Dictionary(entries)
  BY <1>9, <1>11, <1>12 DEF Dictionary
<1> QED
  BY <1>2, <1>4, <1>5, <1>9, <1>13 DEF entries, x1, x2, x3, x4, x5, price, minimum

(* What the library's decoder makes of a string still reads as that string. *)
LEMMA LookUpBytes ==
  ASSUME NEW entries, Dictionary(entries), NEW w, NEW s \in Seq(Symbol),
         NEW i \in 1 .. Len(entries), entries[i] = <<<<w>>, Text(s)>>
  PROVE  LET obj == Dict(AsBytes(Sorted(entries)))
         IN  Has(obj, w) /\ ToStr(Property(obj, w)) = s
<1> DEFINE e == Sorted(entries)
           b == AsBytes(e)
           K == Entries(Dict(e), w)
<1>1. Has(Dict(e), w) /\ Property(Dict(e), w) = Text(s)
  <2>1. entries[i][1] = <<w>> /\ entries[i][2] = Text(s)
    OBVIOUS
  <2> QED
    BY <2>1, LookUp
<1>2. e \in Seq(FieldEntries)
  BY SortedDictionary
<1> HIDE DEF e
<1>3. DOMAIN e = 1 .. Len(e) /\ Len(e) \in Nat
  BY <1>2
<1>4. DOMAIN b = DOMAIN e /\ \A r \in DOMAIN e :
        b[r] = IF e[r][2][1] = "text" THEN <<e[r][1], Bytes(e[r][2][2])>> ELSE e[r]
  BY DEF AsBytes
<1> HIDE DEF b
<1>5. K = {r \in DOMAIN e : e[r][1] = <<w>>} /\ K # {}
  BY <1>1 DEF Entries, Dict, Has
<1>6. Entries(Dict(b), w) = K
  <2>1. Entries(Dict(b), w) = {r \in DOMAIN b : b[r][1] = <<w>>}
    BY DEF Entries, Dict
  <2>2. \A r \in DOMAIN e : b[r][1] = e[r][1]
    BY <1>4
  <2> QED
    BY <1>4, <1>5, <2>1, <2>2
<1> HIDE DEF K
<1>7. Max(K) \in K
  <2>1. K \subseteq 1 .. Len(e)
    BY <1>3, <1>5
  <2> QED
    BY <1>3, <1>5, <2>1, MaxOf
<1>8. e[Max(K)][2] = Text(s)
  BY <1>1 DEF Property, Dict, K
<1>9. b[Max(K)][2] = Bytes(s)
  <2>1. Max(K) \in DOMAIN e /\ e[Max(K)][2][1] = "text" /\ e[Max(K)][2][2] = s
    BY <1>5, <1>7, <1>8 DEF Text
  <2> QED
    BY <1>4, <2>1
<1>10. Property(Dict(b), w) = Bytes(s)
  BY <1>6, <1>9 DEF Property, Dict
<1> QED
  BY <1>5, <1>6, <1>10 DEF Has, ToStr, Bytes, b, e

LEMMA HandshakeDecoded ==
  ASSUME NEW meta \in Metadata
  PROVE  LET obj == Dict(Sorted(HandshakeEntries(meta)))
         IN  /\ RemoteId(Property(obj, "m")) # 0
             /\ ParseHandshakeMetadata(Dict(AsBytes(obj[2]))) = meta
<1> DEFINE entries == HandshakeEntries(meta)
           price == DecimalText[meta.pricePerMb]
           minimum == DecimalText[meta.minPrepayment]
           e == Sorted(entries)
           d == Dict(AsBytes(e))
           field(key) == IF Has(d, key) THEN ToStr(Property(d, key)) ELSE <<>>
<1>1. /\ Dictionary(entries) /\ Len(entries) = 5
      /\ entries[1] = <<<<"m">>, Mapped>>
      /\ entries[2] = <<<<"wallet">>, Text(meta.wallet)>>
      /\ entries[3] = <<<<"price_per_mb">>, Text(price)>>
      /\ entries[4] = <<<<"min_prepayment">>, Text(minimum)>>
      /\ entries[5] = <<<<"chain">>, Text(meta.chain)>>
      /\ meta.wallet \in Seq(Symbol) \ {<<>>} /\ meta.chain \in Seq(Symbol) \ {<<>>}
      /\ price \in Seq(Symbol) \ {<<>>} /\ minimum \in Seq(Symbol) \ {<<>>}
      /\ IsBigInt(price) /\ BigIntOf(price) = meta.pricePerMb
      /\ IsBigInt(minimum) /\ BigIntOf(minimum) = meta.minPrepayment
  BY HandshakeDictionary
<1> HIDE DEF entries, price, minimum
<1>2. Property(Dict(e), "m") = Mapped
  <2>1. 1 \in 1 .. Len(entries) /\ entries[1][1] = <<"m">> /\ entries[1][2] = Mapped
    BY <1>1
  <2> QED
    BY <1>1, <2>1, LookUp
<1>3. RemoteId(Mapped) = 1
  <2>1. Mapped = <<"dict", <<<<<<"seedpay">>, Number(1)>>>>>>
    BY MappedType
  <2>2. Mapped[1] = "dict" /\ DOMAIN Mapped[2] = 1 .. 1 /\ Mapped[2][1] = <<<<"seedpay">>, Number(1)>>
    BY <2>1
  <2>3. \A i \in 1 .. 1 : i = 1
    OBVIOUS
  <2>4. Entries(Mapped, "seedpay") = {1}
    BY <2>2, <2>3 DEF Entries
  <2>5. Max({1}) = 1
    BY DEF Max
  <2>6. Property(Mapped, "seedpay") = Number(1)
    BY <2>2, <2>4, <2>5 DEF Property
  <2>7. Has(Mapped, "seedpay")
    BY <2>4 DEF Has
  <2>8. Number(1)[1] = "number" /\ Number(1)[2] = 1 /\ 1 > 0
    BY DEF Number
  <2> QED
    BY <2>6, <2>7, <2>8 DEF RemoteId
<1> HIDE DEF d
<1>4. /\ field("wallet") = meta.wallet /\ field("price_per_mb") = price
      /\ field("min_prepayment") = minimum /\ field("chain") = meta.chain
  <2>1. 2 \in 1 .. Len(entries) /\ 3 \in 1 .. Len(entries) /\ 4 \in 1 .. Len(entries)
        /\ 5 \in 1 .. Len(entries)
    BY <1>1
  <2>2. Has(d, "wallet") /\ ToStr(Property(d, "wallet")) = meta.wallet
    BY <1>1, <2>1, LookUpBytes DEF d
  <2>3. Has(d, "price_per_mb") /\ ToStr(Property(d, "price_per_mb")) = price
    BY <1>1, <2>1, LookUpBytes DEF d
  <2>4. Has(d, "min_prepayment") /\ ToStr(Property(d, "min_prepayment")) = minimum
    BY <1>1, <2>1, LookUpBytes DEF d
  <2>5. Has(d, "chain") /\ ToStr(Property(d, "chain")) = meta.chain
    BY <1>1, <2>1, LookUpBytes DEF d
  <2> QED
    BY <2>2, <2>3, <2>4, <2>5
<1>5. ParseHandshakeMetadata(d) =
        IF \/ \E key \in {"wallet", "price_per_mb", "min_prepayment", "chain"} :
                field(key) = <<>>
           \/ ~IsBigInt(field("price_per_mb")) \/ ~IsBigInt(field("min_prepayment"))
        THEN NoMetadata
        ELSE [wallet |-> field("wallet"), pricePerMb |-> BigIntOf(field("price_per_mb")),
              minPrepayment |-> BigIntOf(field("min_prepayment")), chain |-> field("chain")]
  BY DEF ParseHandshakeMetadata
<1> HIDE DEF field
<1>6. ParseHandshakeMetadata(d) =
        [wallet |-> meta.wallet, pricePerMb |-> meta.pricePerMb,
         minPrepayment |-> meta.minPrepayment, chain |-> meta.chain]
  BY <1>1, <1>4, <1>5
<1>7. meta = [wallet |-> meta.wallet, pricePerMb |-> meta.pricePerMb,
              minPrepayment |-> meta.minPrepayment, chain |-> meta.chain]
  BY SentAssumption
<1>8. Dict(e)[2] = e
  BY DEF Dict
<1> QED
  BY <1>2, <1>3, <1>6, <1>7, <1>8 DEF entries, d
-----------------------------------------------------------------------------
(* --- single steps of the decoder --- *)

(* What the symbol at the position decides. *)
LEMMA ByteStep ==
  ASSUME result = Pending, DecodeNext
  PROVE  /\ ByteAt(pos) = "d" =>
              /\ open' = Append(open, [kind |-> "dict", key |-> <<>>, items |-> <<>>])
              /\ pos' = pos + 1 /\ result' = result /\ buffer' = buffer
         /\ ByteAt(pos) = "i" => DecodeInteger
         /\ ByteAt(pos) \in Digits => DecodeString
         /\ ByteAt(pos) = "e" /\ AtContainerEnd => CloseContainer
         /\ ByteAt(pos) = "undefined" => Throw
<1>1. /\ "d" \notin Digits /\ "i" \notin Digits /\ "e" \notin Digits
      /\ "undefined" \notin Digits /\ "l" \notin Digits
  BY DigitValues
<1>2. /\ DecodeInteger => ByteAt(pos) = "i"
      /\ OpenContainer => ByteAt(pos) \in {"l", "d"}
      /\ CloseContainer => ByteAt(pos) = "e"
      /\ DecodeString => ByteAt(pos) \in Digits
      /\ UnexpectedByte => ~AtContainerEnd /\ ByteAt(pos) \notin {"i", "l", "d"} \cup Digits
  BY DEF DecodeInteger, OpenContainer, CloseContainer, DecodeString, UnexpectedByte,
         AtContainerEnd
<1>3. \/ DecodeInteger \/ OpenContainer \/ CloseContainer \/ DecodeString \/ UnexpectedByte
  BY DEF DecodeNext
<1> DEFINE byte == ByteAt(pos)
<1> HIDE DEF byte
<1>4. byte = "d" => OpenContainer
  BY <1>1, <1>2, <1>3 DEF byte
<1>5. OpenContainer /\ byte = "d" =>
        /\ open' = Append(open, [kind |-> "dict", key |-> <<>>, items |-> <<>>])
        /\ pos' = pos + 1 /\ result' = result /\ buffer' = buffer
  BY DEF OpenContainer, byte
<1>6. byte = "i" => DecodeInteger
  BY <1>1, <1>2, <1>3 DEF byte
<1>7. byte \in Digits => DecodeString
  BY <1>1, <1>2, <1>3 DEF byte
<1>8. byte = "e" /\ AtContainerEnd => CloseContainer
  BY <1>1, <1>2, <1>3 DEF byte
<1>9. byte = "undefined" => Throw
  <2>1. byte = "undefined" => UnexpectedByte
    BY <1>1, <1>2, <1>3 DEF byte
  <2> QED
    BY <2>1 DEF UnexpectedByte
<1> QED
  BY <1>4, <1>5, <1>6, <1>7, <1>8, <1>9 DEF byte

(* A string that is there is read; of one that is cut off, no more than the  *)
(* position after it would be.                                               *)
LEMMA StringStep ==
  ASSUME result = Pending, DecodeNext, pos \in Nat \ {0},
         NEW full \in Seq(Symbol), Begins(full),
         NEW s \in Seq(Symbol), Holds(full, pos, EncodeString(s))
  PROVE  LET next == pos + Len(EncodeString(s))
         IN  /\ Throw \/ \E t \in Seq(Symbol) : ReturnValue(open, Text(t), next)
             /\ next - 1 <= Len(buffer) => ReturnValue(open, Text(s), next)
<1> DEFINE next == pos + Len(EncodeString(s))
           colon == IndexOf(":", pos)
           n == Len(s)
           l == Len(buffer)
<1>1. /\ ByteAt(pos) \in Digits \cup {"undefined"}
      /\ colon # 0 => /\ colon \in pos .. l
                      /\ colon + n + 1 = next
                      /\ ParseInt(SubSeq(buffer, pos, colon - 1)) = n
      /\ pos - 1 + Len(EncodeString(s)) <= l =>
           /\ ByteAt(pos) # "undefined"
           /\ colon # 0 /\ colon + n <= l
           /\ SubSeq(buffer, colon + 1, colon + n) = s
  BY StringAt
<1>2. /\ n \in Nat /\ l \in Nat /\ Len(EncodeString(s)) \in Nat
      /\ \A i \in 1 .. l : buffer[i] \in Symbol
  BY StringType DEF Begins
<1> HIDE DEF next, colon, n, l
<1>3. ASSUME ByteAt(pos) \in Digits, colon # 0
      PROVE  \E to \in Int :
               /\ to <= l /\ (colon + n <= l => to = colon + n)
               /\ ReturnValue(open, Text(SubSeq(buffer, colon + 1, to)), colon + n + 1)
  <2>1. DecodeString
    BY <1>3, ByteStep
  <2> DEFINE to == IF colon + n < l THEN colon + n ELSE l
  <2>2. ReturnValue(open, Text(SubSeq(buffer, colon + 1, to)), colon + n + 1)
    BY <1>1, <1>3, <2>1 DEF DecodeString, colon, l
  <2>3. to \in Int /\ to <= l /\ (colon + n <= l => to = colon + n)
    BY <1>1, <1>2, <1>3
  <2> HIDE DEF to
  <2> QED
    BY <2>2, <2>3
<1>4. ASSUME ByteAt(pos) \in Digits, colon = 0 PROVE Throw
  <2>1. DecodeString
    BY <1>4, ByteStep
  <2> QED
    BY <1>4, <2>1 DEF DecodeString, colon
<1>5. Throw \/ \E t \in Seq(Symbol) : ReturnValue(open, Text(t), next)
  <2>1. CASE ByteAt(pos) \in Digits /\ colon # 0
    <3>1. PICK to \in Int :
            /\ to <= l
            /\ ReturnValue(open, Text(SubSeq(buffer, colon + 1, to)), colon + n + 1)
      BY <1>3, <2>1
    <3>2. colon + 1 \in Int /\ \A i \in colon + 1 .. to : buffer[i] \in Symbol
      <4>1. colon \in pos .. l
        BY <1>1, <2>1
      <4> QED
        BY <1>2, <3>1, <4>1
    <3>3. SubSeq(buffer, colon + 1, to) \in Seq(Symbol)
      BY <3>2, SubSeqProperties
    <3>4. colon + n + 1 = next
      BY <1>1, <2>1
    <3> QED
      BY <3>1, <3>3, <3>4
  <2>2. CASE ByteAt(pos) \in Digits /\ colon = 0
    BY <1>4, <2>2
  <2>3. CASE ByteAt(pos) = "undefined"
    BY <2>3, ByteStep
  <2> QED
    BY <1>1, <2>1, <2>2, <2>3
<1>6. ASSUME next - 1 <= l PROVE ReturnValue(open, Text(s), next)
  <2>1. pos - 1 + Len(EncodeString(s)) <= l
    BY <1>2, <1>6 DEF next
  <2>2. /\ ByteAt(pos) \in Digits /\ colon # 0 /\ colon + n <= l /\ colon + n + 1 = next
        /\ SubSeq(buffer, colon + 1, colon + n) = s
    BY <1>1, <2>1
  <2>3. PICK to \in Int :
          /\ to = colon + n
          /\ ReturnValue(open, Text(SubSeq(buffer, colon + 1, to)), colon + n + 1)
    BY <1>3, <2>2
  <2> QED
    BY <2>2, <2>3
<1> QED
  BY <1>5, <1>6 DEF next, l

(* --- messages that are cut off --- *)

DictOf(k, values) == [kind |-> "dict", key |-> k, items |-> values]

LEMMA TakeKey ==
  ASSUME NEW values, NEW value
  PROVE  Take(DictOf(<<>>, values), value) = DictOf(<<PropertyKey(value)>>, values)
  BY DEF Take, DictOf

LEMMA TakeValue ==
  ASSUME NEW k, NEW values, NEW value, k # <<>>
  PROVE  Take(DictOf(k, values), value) = DictOf(<<>>, Append(values, <<k[1], value>>))
  BY DEF Take, DictOf

LEMMA ReturnToOne ==
  ASSUME NEW c, NEW value, NEW next, ReturnValue(<<c>>, value, next)
  PROVE  /\ pos' = next /\ buffer' = buffer /\ result' = result
         /\ open' = <<Take(c, value)>>
<1> DEFINE t == Take(c, value)
           cs == <<c>>
<1>1. cs # <<>> /\ Len(cs) = 1 /\ cs[1] = c
  OBVIOUS
<1>2. /\ open' = [cs EXCEPT ![Len(cs)] = Take(cs[Len(cs)], value)]
      /\ pos' = next /\ buffer' = buffer /\ result' = result
  BY <1>1 DEF ReturnValue
<1>3. Take(cs[Len(cs)], value) = t
  BY <1>1
<1> HIDE DEF t
<1>4. open' = [cs EXCEPT ![1] = t]
  BY <1>1, <1>2, <1>3
<1>5. [cs EXCEPT ![1] = t] = <<t>>
  OBVIOUS
<1> QED
  BY <1>2, <1>4, <1>5 DEF t

WireEntries ==
  Sorted(IF way = "handshake" THEN HandshakeEntries(sent) ELSE MessageEntries(sent))

LEMMA MessageWire ==
  ASSUME NEW m \in Messages \cup Altered
  PROVE  LET e == Sorted(MessageEntries(m))
         IN  /\ e \in Seq(FieldEntries) /\ Len(e) \in Nat
             /\ EncodeBep10Message(m) = Encoded(e)
             /\ \A i \in 1 .. Len(e) : e[i][2] \in Texts
             /\ DecodeMessage(Dict(e)) = m
<1> DEFINE d == MessageEntries(m)
<1>1. IsMessage(m) /\ m = [f \in DOMAIN m |-> m[f]]
  BY SentAssumption
<1>2. /\ Dictionary(d) /\ EncodeMessage(m) = Dict(d)
      /\ \A i \in 1 .. Len(d) : d[i][2] \in Texts
  BY <1>1, MessageDictionary
<1>3. DecodeMessage(Dict(Sorted(d))) = m
  BY <1>1, MessageDecoded
<1>4. EncodeBep10Message(m) = Encoded(Sorted(d))
  BY <1>2, EncodeDict DEF EncodeBep10Message
<1> HIDE DEF d
<1>5. /\ Sorted(d) \in Seq(FieldEntries) /\ Len(Sorted(d)) = Len(d) /\ Len(d) \in Nat
      /\ \A r \in 1 .. Len(d) : \E i \in 1 .. Len(d) : Sorted(d)[r] = d[i]
  BY <1>2, SortedDictionary
<1> QED
  BY <1>2, <1>3, <1>4, <1>5 DEF d

(* A part of a message is read up to where it was cut off; the position      *)
(* stays where a key, a value or the end of the dictionary would be.         *)
CutInv ==
  way = "cut" =>
    LET e == WireEntries
    IN  /\ sent \in Messages /\ Begins(Encoded(e)) /\ Len(buffer) < Len(Encoded(e))
        /\ \/ result = Thrown
           \/ result = Pending /\ pos = 1 /\ open = <<>>
           \/ /\ result = Pending
              /\ open = <<DictOf(open[1].key, open[1].items)>>
              /\ \/ /\ open[1].key = <<>>
                    /\ \E i \in 1 .. Len(e) + 1 : pos = Start(e, i)
                 \/ /\ open[1].key # <<>>
                    /\ \E i \in 1 .. Len(e) : pos = ValueStart(e, i)

LEMMA CutInit == Init => CutInv
<1> SUFFICES ASSUME Init, way = "cut" PROVE CutInv
  BY DEF CutInv
<1>1. sent \in Messages /\ buffer \in StrictPrefixes(EncodeBep10Message(sent))
  BY DEF Init
<1> DEFINE e == WireEntries
           full == Encoded(e)
<1>2. e = Sorted(MessageEntries(sent))
  BY DEF WireEntries
<1>3. e \in Seq(FieldEntries) /\ EncodeBep10Message(sent) = full
  BY <1>1, <1>2, MessageWire
<1> HIDE DEF e
<1>4. full \in Seq(Symbol)
  BY <1>3, DictLayout
<1> HIDE DEF full
<1>5. PICK l \in 0 .. Len(full) : buffer = SubSeq(full, 1, l) /\ buffer # full
  BY <1>1, <1>3 DEF StrictPrefixes, Prefixes
<1>6. /\ buffer \in Seq(Symbol) /\ Len(buffer) = l
      /\ \A i \in 1 .. l : buffer[i] = full[i]
  BY <1>4, <1>5, FirstParts
<1>7. l # Len(full)
  BY <1>4, <1>5, SubSeqFull
<1>8. Len(full) \in Nat
  BY <1>4
<1>9. Begins(full) /\ Len(buffer) < Len(full)
  BY <1>5, <1>6, <1>7, <1>8 DEF Begins
<1> QED
  BY <1>1, <1>9 DEF CutInv, Init, e, full

LEMMA CutStep == CutInv /\ [Next]_vars => CutInv'
<1> SUFFICES ASSUME CutInv, [Next]_vars, way' = "cut" PROVE CutInv'
  BY DEF CutInv
<1> DEFINE e == WireEntries
           n == Len(e)
           full == Encoded(e)
<1>1. way' = way /\ sent' = sent /\ way = "cut"
  BY DEF Next, vars, Decode, DecodeBep10Message, OnHandshake
<1>2. /\ sent \in Messages /\ Begins(full) /\ Len(buffer) < Len(full)
      /\ \/ result = Thrown
         \/ result = Pending /\ pos = 1 /\ open = <<>>
         \/ /\ result = Pending
            /\ open = <<DictOf(open[1].key, open[1].items)>>
            /\ \/ open[1].key = <<>> /\ \E i \in 1 .. n + 1 : pos = Start(e, i)
               \/ open[1].key # <<>> /\ \E i \in 1 .. n : pos = ValueStart(e, i)
  BY <1>1 DEF CutInv
<1>3. e' = e
  BY <1>1 DEF WireEntries
<1>4. /\ e \in Seq(FieldEntries) /\ n \in Nat
      /\ \A i \in 1 .. n : e[i][2] \in Texts
  <2>1. e = Sorted(MessageEntries(sent))
    BY <1>1 DEF WireEntries
  <2> QED
    BY <1>2, <2>1, MessageWire
<1> HIDE DEF e
<1>5. /\ full \in Seq(Symbol) /\ full[1] = "d" /\ Start(e, 1) = 2
      /\ Start(e, n + 1) = Len(full)
      /\ \A i \in 1 .. n + 1 : Start(e, i) \in 2 .. Len(full)
      /\ \A i \in 1 .. n :
           /\ e[i][1] \in Seq(Symbol)
           /\ ValueStart(e, i) \in Nat \ {0}
           /\ Holds(full, Start(e, i), EncodeString(e[i][1]))
           /\ Holds(full, ValueStart(e, i), EncodeFlat(e[i][2]))
           /\ Start(e, i + 1) = ValueStart(e, i) + Len(EncodeFlat(e[i][2]))
  BY <1>4, DictLayout
<1>6. ASSUME NEW i \in 1 .. n
      PROVE  \E s \in Seq(Symbol) : EncodeFlat(e[i][2]) = EncodeString(s)
  BY <1>4, FieldType DEF Texts
<1> HIDE DEF n, full
<1>7. /\ buffer \in Seq(Symbol) /\ Len(buffer) \in Nat /\ Len(full) \in Nat
      /\ \A i \in 1 .. Len(buffer) : buffer[i] = full[i]
  BY <1>2, <1>5 DEF Begins
(* It suffices to follow the position, the container and the result. *)
<1>8. ASSUME buffer' = buffer,
             \/ result' = Thrown
             \/ /\ result' = Pending
                /\ open' = <<DictOf(open'[1].key, open'[1].items)>>
                /\ \/ open'[1].key = <<>> /\ \E i \in 1 .. n + 1 : pos' = Start(e, i)
                   \/ open'[1].key # <<>> /\ \E i \in 1 .. n : pos' = ValueStart(e, i)
      PROVE  CutInv'
  BY <1>1, <1>2, <1>3, <1>8 DEF CutInv, Begins, n, full, e
<1>9. CASE UNCHANGED decodeVars
  BY <1>1, <1>2, <1>3, <1>9 DEF CutInv, Begins, decodeVars, n, full, e
<1>10. CASE Decode
  <2>1. DecodeNext /\ result = Pending
    BY <1>10 DEF Decode, DecodeNext, DecodeInteger, OpenContainer, CloseContainer,
                 DecodeString, UnexpectedByte
  <2>2. CASE Throw
    BY <1>8, <2>2 DEF Throw
  <2>3. CASE pos = 1 /\ open = <<>>
    <3>1. ByteAt(pos) = "d" \/ ByteAt(pos) = "undefined"
      BY <1>5, <1>7, <2>3 DEF ByteAt
    <3>2. CASE ByteAt(pos) = "d"
      <4>1. /\ open' = Append(open, DictOf(<<>>, <<>>)) /\ pos' = pos + 1
            /\ result' = result /\ buffer' = buffer
        BY <2>1, <3>2, ByteStep DEF DictOf
      <4>2. open' = <<DictOf(<<>>, <<>>)>> /\ pos' = 2
        BY <2>3, <4>1
      <4>3. open'[1].key = <<>> /\ open'[1].items = <<>>
        BY <4>2 DEF DictOf
      <4>4. 1 \in 1 .. n + 1
        BY <1>4 DEF n
      <4> QED
        BY <1>5, <1>8, <2>1, <4>1, <4>2, <4>3, <4>4
    <3>3. CASE ByteAt(pos) = "undefined"
      BY <2>1, <2>2, <3>3, ByteStep
    <3> QED
      BY <3>1, <3>2, <3>3
  <2>4. CASE open # <<>> /\ open = <<DictOf(open[1].key, open[1].items)>>
    <3> DEFINE k == open[1].key
               values == open[1].items
    <3>1. open = <<DictOf(k, values)>>
      BY <2>4
    <3>2. \/ k = <<>> /\ \E i \in 1 .. n + 1 : pos = Start(e, i)
          \/ k # <<>> /\ \E i \in 1 .. n : pos = ValueStart(e, i)
      BY <1>2, <2>1, <2>4 DEF Pending, Thrown
    <3> HIDE DEF k, values
    <3>3. CASE k = <<>> /\ pos = Start(e, n + 1)
      <4>1. ByteAt(pos) = "undefined"
        BY <1>2, <1>5, <1>7, <3>3 DEF ByteAt
      <4> QED
        BY <2>1, <2>2, <4>1, ByteStep
    <3>4. ASSUME k = <<>>, NEW i \in 1 .. n, pos = Start(e, i) PROVE CutInv'
      <4>1. pos \in Nat \ {0}
        <5>1. i \in 1 .. n + 1
          BY <1>4 DEF n
        <5> QED
          BY <1>5, <1>7, <3>4, <5>1
      <4>2. \/ Throw
            \/ \E t \in Seq(Symbol) : ReturnValue(open, Text(t), ValueStart(e, i))
        <5>1. pos + Len(EncodeString(e[i][1])) = ValueStart(e, i)
          BY <3>4 DEF ValueStart
        <5> QED
          BY <1>2, <1>5, <2>1, <3>4, <4>1, <5>1, StringStep
      <4>3. ASSUME NEW t \in Seq(Symbol), ReturnValue(open, Text(t), ValueStart(e, i))
            PROVE  CutInv'
        <5>1. /\ pos' = ValueStart(e, i) /\ buffer' = buffer /\ result' = result
              /\ open' = <<Take(DictOf(k, values), Text(t))>>
          BY <3>1, <4>3, ReturnToOne
        <5>2. Take(DictOf(k, values), Text(t)) = DictOf(<<PropertyKey(Text(t))>>, values)
          BY <3>4, TakeKey
        <5>3. open'[1].key = <<PropertyKey(Text(t))>> /\ open'[1].items = values
          BY <5>1, <5>2 DEF DictOf
        <5>4. open'[1].key # <<>>
          BY <5>3
        <5> QED
          BY <1>8, <2>1, <5>1, <5>2, <5>3, <5>4
      <4> QED
        BY <2>2, <4>2, <4>3
    <3>5. ASSUME k # <<>>, NEW i \in 1 .. n, pos = ValueStart(e, i) PROVE CutInv'
      <4>1. pos \in Nat \ {0}
        BY <1>5, <3>5
      <4>2. PICK s \in Seq(Symbol) : EncodeFlat(e[i][2]) = EncodeString(s)
        BY <1>6
      <4>3. Throw \/ \E t \in Seq(Symbol) : ReturnValue(open, Text(t), Start(e, i + 1))
        <5>1. /\ pos + Len(EncodeString(s)) = Start(e, i + 1)
              /\ Holds(full, pos, EncodeString(s))
          BY <1>5, <3>5, <4>2
        <5> QED
          BY <1>2, <1>5, <2>1, <4>1, <5>1, StringStep
      <4>4. ASSUME NEW t \in Seq(Symbol), ReturnValue(open, Text(t), Start(e, i + 1))
            PROVE  CutInv'
        <5>1. /\ pos' = Start(e, i + 1) /\ buffer' = buffer /\ result' = result
              /\ open' = <<Take(DictOf(k, values), Text(t))>>
          BY <3>1, <4>4, ReturnToOne
        <5>5. k # <<>>
          BY <3>5
        <5>2. Take(DictOf(k, values), Text(t))
                = DictOf(<<>>, Append(values, <<k[1], Text(t)>>))
          BY <5>5, TakeValue
        <5>3. /\ open'[1].key = <<>>
              /\ open'[1].items = Append(values, <<k[1], Text(t)>>)
          BY <5>1, <5>2 DEF DictOf
        <5>4. i + 1 \in 1 .. n + 1
          BY <1>4 DEF n
        <5> QED
          BY <1>8, <2>1, <5>1, <5>2, <5>3, <5>4
      <4> QED
        BY <2>2, <4>3, <4>4
    <3>6. \A i \in 1 .. n + 1 : i \in 1 .. n \/ i = n + 1
      BY <1>4 DEF n
    <3> QED
      BY <3>2, <3>3, <3>4, <3>5, <3>6
  <2>5. open = <<DictOf(open[1].key, open[1].items)>> => open # <<>>
    OBVIOUS
  <2>6. Pending # Thrown
    BY DEF Pending, Thrown
  <2> QED
    BY <1>2, <2>1, <2>3, <2>4, <2>5, <2>6
<1> QED
  BY <1>9, <1>10 DEF Next, DecodeBep10Message, OnHandshake, vars, decodeVars

-----------------------------------------------------------------------------
(* No part of a message is taken for a message, wherever it was cut off.     *)
(* decode counts on it: slice returns what there is of a string.             *)
THEOREM CutRefused == Spec => []CutIsRefused
<1>1. CutInv => CutIsRefused
  BY DEF CutInv, CutIsRefused
<1> QED
  BY <1>1, CutInit, CutStep, PTL DEF Spec
-----------------------------------------------------------------------------
(* --- messages and handshakes that arrive whole --- *)

LEMMA FirstEntries ==
  ASSUME NEW e \in Seq(FieldEntries), NEW i \in 1 .. Len(e)
  PROVE  Append(SubSeq(e, 1, i - 1), <<e[i][1], e[i][2]>>) = SubSeq(e, 1, i)
<1> DEFINE a == SubSeq(e, 1, i - 1)
           x == <<e[i][1], e[i][2]>>
           b == Append(a, x)
           c == SubSeq(e, 1, i)
<1>1. Len(e) \in Nat /\ i \in 0 .. Len(e) /\ i - 1 \in 0 .. Len(e)
  OBVIOUS
<1>2. x = e[i] /\ x \in FieldEntries
  BY DEF FieldEntries
<1>3. /\ a \in Seq(FieldEntries) /\ Len(a) = i - 1
      /\ \A k \in 1 .. i - 1 : a[k] = e[k]
  BY <1>1, FirstParts
<1>4. /\ c \in Seq(FieldEntries) /\ Len(c) = i
      /\ \A k \in 1 .. i : c[k] = e[k]
  BY <1>1, FirstParts
<1>5. b = Append(a, x)
  OBVIOUS
<1> HIDE DEF a, b, c, x
<1>6. /\ b \in Seq(FieldEntries) /\ Len(b) = Len(a) + 1
      /\ \A k \in 1 .. Len(a) : b[k] = a[k]
      /\ b[Len(a) + 1] = x
  BY <1>2, <1>3, <1>5, AppendProperties
<1>7. Len(b) = i /\ (i - 1) + 1 = i
  BY <1>3, <1>6
<1>8. \A k \in 1 .. i : b[k] = c[k]
  <2> SUFFICES ASSUME NEW k \in 1 .. i PROVE b[k] = c[k]
    OBVIOUS
  <2>1. CASE k = i
    BY <1>2, <1>3, <1>4, <1>6, <1>7, <2>1
  <2>2. CASE k # i
    <3>1. k \in 1 .. i - 1
      BY <2>2
    <3> QED
      BY <1>3, <1>4, <1>6, <3>1
  <2> QED
    BY <2>1, <2>2
<1>9. b = c
  BY <1>4, <1>6, <1>7, <1>8, SeqEqual
<1> QED
  BY <1>9 DEF a, b, c, x

LEMMA ReturnToTwo ==
  ASSUME NEW o, NEW c, NEW value, NEW next, ReturnValue(<<o, c>>, value, next)
  PROVE  /\ pos' = next /\ buffer' = buffer /\ result' = result
         /\ open' = <<o, Take(c, value)>>
<1> DEFINE t == Take(c, value)
           cs == <<o, c>>
<1>1. cs # <<>> /\ Len(cs) = 2 /\ cs[2] = c
  OBVIOUS
<1>2. /\ open' = [cs EXCEPT ![Len(cs)] = Take(cs[Len(cs)], value)]
      /\ pos' = next /\ buffer' = buffer /\ result' = result
  BY <1>1 DEF ReturnValue
<1>3. Take(cs[Len(cs)], value) = t
  BY <1>1
<1> HIDE DEF t
<1>4. open' = [cs EXCEPT ![2] = t]
  BY <1>1, <1>2, <1>3
<1>5. [cs EXCEPT ![2] = t] = <<o, t>>
  OBVIOUS
<1> QED
  BY <1>2, <1>4, <1>5 DEF t

(* Where the parts of d1:seedpayi1ee stand. *)
LEMMA MappedLayout ==
  ASSUME NEW b \in Seq(Symbol), NEW v \in Nat \ {0}, Holds(b, v, EncodeFlat(Mapped))
  PROVE  /\ <<"seedpay">> \in Seq(Symbol)
         /\ b[v] = "d"
         /\ Holds(b, v + 1, EncodeString(<<"seedpay">>))
         /\ Len(EncodeString(<<"seedpay">>)) = 3
         /\ b[v + 4] = "i" /\ b[v + 5] = Digit[2] /\ b[v + 6] = "e" /\ b[v + 7] = "e"
         /\ Len(EncodeFlat(Mapped)) = 8 /\ v + 7 <= Len(b)
<1> DEFINE word == EncodeString(<<"seedpay">>)
           one == DecimalText[1]
           d == <<"d">>
           i == <<"i">>
           z == <<"e">>
           io == i \o one
           number == io \o z
           body == word \o number
           db == d \o body
           all == db \o z
<1>1. /\ <<"seedpay">> \in Seq(Symbol) /\ one \in Seq(Symbol)
      /\ EncodeFlat(Mapped) = all
  BY MappedType
<1>2. one = <<Digit[2]>> /\ Len(one) = 1 /\ one[1] = Digit[2]
  <2>1. 1 \in Nat /\ 1 < 10 /\ 1 + 1 = 2
    OBVIOUS
  <2>2. one = <<Digit[1 + 1]>>
    BY <2>1, DecimalTextDef
  <2> QED
    BY <2>1, <2>2
<1>3. word \in Seq(Symbol) /\ Len(word) = 3
  <2>1. /\ word \in Seq(Symbol)
        /\ Len(word) = Len(DecimalText[Len(<<"seedpay">>)]) + 1 + Len(<<"seedpay">>)
    BY <1>1, StringType
  <2>2. Len(<<"seedpay">>) = 1
    OBVIOUS
  <2>3. word \in Seq(Symbol) /\ Len(word) = Len(one) + 1 + 1
    BY <2>1, <2>2
  <2> HIDE DEF word, one
  <2> QED
    BY <1>2, <2>3
<1>4. /\ d \in Seq(Symbol) /\ Len(d) = 1 /\ d[1] = "d"
      /\ i \in Seq(Symbol) /\ Len(i) = 1 /\ i[1] = "i"
      /\ z \in Seq(Symbol) /\ Len(z) = 1 /\ z[1] = "e"
  BY BencodeAssumption
<1> HIDE DEF word, one, d, i, z
<1>5. io \in Seq(Symbol) /\ Len(io) = 2
  <2>1. io \in Seq(Symbol) /\ Len(io) = Len(i) + Len(one)
    BY <1>1, <1>4, ConcatProperties
  <2> QED
    BY <1>2, <1>4, <2>1
<1>6. io = i \o one
  OBVIOUS
<1> HIDE DEF io
<1>7. number \in Seq(Symbol) /\ Len(number) = 3
  <2>1. number \in Seq(Symbol) /\ Len(number) = Len(io) + Len(z)
    BY <1>4, <1>5, ConcatProperties
  <2> QED
    BY <1>4, <1>5, <2>1
<1>8. number = io \o z
  OBVIOUS
<1> HIDE DEF number
<1>9. body \in Seq(Symbol) /\ Len(body) = 6
  <2>1. body \in Seq(Symbol) /\ Len(body) = Len(word) + Len(number)
    BY <1>3, <1>7, ConcatProperties
  <2> QED
    BY <1>3, <1>7, <2>1
<1>10. body = word \o number
  OBVIOUS
<1> HIDE DEF body
<1>11. db \in Seq(Symbol) /\ Len(db) = 7
  <2>1. db \in Seq(Symbol) /\ Len(db) = Len(d) + Len(body)
    BY <1>4, <1>9, ConcatProperties
  <2> QED
    BY <1>4, <1>9, <2>1
<1>12. db = d \o body
  OBVIOUS
<1> HIDE DEF db
<1>13. Len(all) = 8
  <2>1. Len(all) = Len(db) + Len(z)
    BY <1>4, <1>11, ConcatProperties
  <2> QED
    BY <1>4, <1>11, <2>1
<1>14. Holds(b, v, all) /\ all = db \o z
  BY <1>1
<1> HIDE DEF all
<1>15. Holds(b, v, db) /\ Holds(b, v + 7, z)
  <2>1. Holds(b, v, db \o z)
    BY <1>14
  <2>2. Holds(b, v, db) /\ Holds(b, v + Len(db), z)
    BY <1>4, <1>11, <2>1, HoldsConcat
  <2> QED
    BY <1>11, <2>2
<1>16. Holds(b, v, d) /\ Holds(b, v + 1, body) /\ v + 1 \in Nat \ {0}
  <2>1. Holds(b, v, d \o body)
    BY <1>12, <1>15
  <2>2. Holds(b, v, d) /\ Holds(b, v + Len(d), body)
    BY <1>4, <1>9, <2>1, HoldsConcat
  <2> QED
    BY <1>4, <2>2
<1>17. Holds(b, v + 1, word) /\ Holds(b, v + 4, number) /\ v + 4 \in Nat \ {0}
  <2>1. Holds(b, v + 1, word \o number)
    BY <1>10, <1>16
  <2>2. Holds(b, v + 1, word) /\ Holds(b, (v + 1) + Len(word), number)
    BY <1>3, <1>7, <1>16, <2>1, HoldsConcat
  <2>3. (v + 1) + Len(word) = v + 4
    BY <1>3
  <2> QED
    BY <2>2, <2>3
<1>18. Holds(b, v + 4, io) /\ Holds(b, v + 6, z)
  <2>1. Holds(b, v + 4, io \o z)
    BY <1>8, <1>17
  <2>2. Holds(b, v + 4, io) /\ Holds(b, (v + 4) + Len(io), z)
    BY <1>4, <1>5, <1>17, <2>1, HoldsConcat
  <2>3. (v + 4) + Len(io) = v + 6
    BY <1>5
  <2> QED
    BY <2>2, <2>3
<1>19. Holds(b, v + 4, i) /\ Holds(b, v + 5, one)
  <2>1. Holds(b, v + 4, i \o one)
    BY <1>6, <1>18
  <2>2. Holds(b, v + 4, i) /\ Holds(b, (v + 4) + Len(i), one)
    BY <1>1, <1>4, <1>17, <2>1, HoldsConcat
  <2>3. (v + 4) + Len(i) = v + 5
    BY <1>4
  <2> QED
    BY <2>2, <2>3
<1>20. ASSUME NEW p \in Nat \ {0}, NEW s, Len(s) = 1, Holds(b, p, s)
       PROVE  b[p] = s[1] /\ p <= Len(b)
  <2>1. p - 1 + 1 = p /\ 1 \in 1 .. Len(s) /\ Len(b) \in Nat
    BY <1>20
  <2> QED
    BY <1>20, <2>1 DEF Holds
<1>21. /\ v + 5 \in Nat \ {0} /\ v + 6 \in Nat \ {0} /\ v + 7 \in Nat \ {0}
  OBVIOUS
<1>22. /\ b[v] = "d" /\ b[v + 4] = "i" /\ b[v + 5] = Digit[2]
       /\ b[v + 6] = "e" /\ b[v + 7] = "e" /\ v + 7 <= Len(b)
  BY <1>2, <1>4, <1>15, <1>16, <1>17, <1>18, <1>19, <1>20, <1>21
<1> QED
  BY <1>1, <1>3, <1>13, <1>17, <1>22 DEF word

(* The number of an entry "m": i1e. *)
LEMMA NumberStep ==
  ASSUME result = Pending, DecodeNext, pos \in Nat \ {0}, buffer \in Seq(Symbol),
         buffer[pos] = "i", buffer[pos + 1] = Digit[2], buffer[pos + 2] = "e",
         pos + 2 <= Len(buffer)
  PROVE  ReturnValue(open, Number(1), pos + 3)
<1> DEFINE from == pos + 1
           end == IndexOf("e", from)
<1>1. from \in Nat \ {0} /\ Len(buffer) \in Nat /\ pos <= Len(buffer)
  OBVIOUS
<1>2. DecodeInteger
  <2>1. ByteAt(pos) = "i"
    BY <1>1 DEF ByteAt
  <2> QED
    BY <2>1, ByteStep
<1>3. buffer[from] = Digit[2] /\ buffer[from + 1] = "e" /\ Digit[2] # "e"
      /\ from \in from .. Len(buffer) /\ from + 1 \in from .. Len(buffer)
  <2>1. (pos + 1) + 1 = pos + 2 /\ pos + 1 <= Len(buffer)
    BY <1>1
  <2>2. Digit[2] = "1"
    BY DEF Digit
  <2> QED
    BY <1>1, <2>1, <2>2
<1> HIDE DEF from
<1>4. end = from + 1
  <2>1. \/ /\ end = 0
           /\ \A i \in from .. Len(buffer) : buffer[i] # "e"
        \/ \E n \in from .. Len(buffer) :
             /\ end = n /\ buffer[n] = "e"
             /\ \A i \in from .. n - 1 : buffer[i] # "e"
    BY <1>1, IndexOfFirst
  <2>2. PICK n \in from .. Len(buffer) :
          end = n /\ buffer[n] = "e" /\ \A i \in from .. n - 1 : buffer[i] # "e"
    BY <1>3, <2>1
  <2>3. n # from
    BY <1>3, <2>2
  <2>4. ~(from + 1 \in from .. n - 1)
    BY <1>3, <2>2
  <2>5. n = from + 1
    BY <1>1, <2>3, <2>4
  <2> QED
    BY <2>2, <2>5
<1> DEFINE text == SubSeq(buffer, from, end - 1)
<1>5. text = DecimalText[1]
  <2>1. (end - 1) = from
    BY <1>1, <1>4
  <2>2. text = SubSeq(buffer, from, from)
    BY <2>1
  <2>3. SubSeq(buffer, from, from) = <<buffer[from]>>
    <3> DEFINE s == SubSeq(buffer, from, from)
               t == <<buffer[from]>>
    <3>1. from \in Int /\ \A i \in from .. from : buffer[i] \in Symbol
      BY <1>1, <1>3
    <3>2. /\ s \in Seq(Symbol)
          /\ Len(s) = IF from <= from THEN from - from + 1 ELSE 0
          /\ \A i \in 1 .. from - from + 1 : s[i] = buffer[from + i - 1]
      BY <3>1, SubSeqProperties
    <3>3. from - from + 1 = 1 /\ from <= from /\ from + 1 - 1 = from /\ 1 \in 1 .. 1
      BY <1>1
    <3>4. Len(s) = 1 /\ s[1] = buffer[from]
      BY <3>2, <3>3
    <3> HIDE DEF s
    <3>5. t \in Seq(Symbol) /\ Len(t) = 1 /\ t[1] = buffer[from]
      BY <3>1, <1>1
    <3> HIDE DEF t
    <3>6. \A i \in 1 .. 1 : s[i] = t[i]
      BY <3>4, <3>5
    <3>7. s = t
      BY <3>2, <3>4, <3>5, <3>6, SeqEqual
    <3> QED
      BY <3>7 DEF s, t
  <2>4. 1 < 10 /\ 1 \in Nat /\ 1 + 1 = 2
    OBVIOUS
  <2>5. DecimalText[1] = <<Digit[1 + 1]>>
    BY <2>4, DecimalTextDef
  <2> QED
    BY <1>3, <2>2, <2>3, <2>4, <2>5
<1>6. ReturnValue(open, IntegerValue(text), end + 1)
  BY <1>1, <1>2, <1>4 DEF DecodeInteger, from
<1> HIDE DEF text
<1>7. IntegerValue(text) = Number(1)
  <2>1. text # <<>> /\ ParseInt(text) = 1 /\ 1 <= MaxSafeInteger
    BY <1>5, ParseIntText, BencodeAssumption
  <2> QED
    BY <1>5, <2>1 DEF IntegerValue
<1>8. end + 1 = pos + 3
  BY <1>1, <1>4 DEF from
<1> QED
  BY <1>6, <1>7, <1>8

(* The end of the outermost dictionary is the end of decode. *)
LEMMA CloseOne ==
  ASSUME NEW values, open = <<DictOf(<<>>, values)>>, CloseContainer
  PROVE  result' = Dict(values) /\ buffer' = buffer
<1> DEFINE c == DictOf(<<>>, values)
           none == Front(open)
<1>1. c.kind = "dict" /\ c.items = values
  BY DEF DictOf
<1> HIDE DEF c
<1>2. Last(open) = c /\ Front(open) = <<>>
  BY DEF Front, Last, c
<1>3. ReturnValue(none, <<c.kind, c.items>>, pos + 1)
  BY <1>2 DEF CloseContainer
<1>4. none = <<>>
  BY <1>2
<1> HIDE DEF none
<1> QED
  BY <1>1, <1>3, <1>4 DEF ReturnValue, Dict

LEMMA CloseTwo ==
  ASSUME NEW o, NEW values, open = <<o, DictOf(<<>>, values)>>, CloseContainer
  PROVE  ReturnValue(<<o>>, Dict(values), pos + 1)
<1> DEFINE c == DictOf(<<>>, values)
<1>1. c.kind = "dict" /\ c.items = values
  BY DEF DictOf
<1>2. open = <<o, c>>
  OBVIOUS
<1> HIDE DEF c
<1>3. Last(open) = c /\ Front(open) = <<o>>
  <2>1. Len(open) = 2 /\ open[2] = c /\ open[1] = o
    BY <1>2
  <2>2. Front(open) = [i \in 1 .. 1 |-> open[i]]
    BY <2>1 DEF Front
  <2>3. [i \in 1 .. 1 |-> open[i]] = <<o>>
    BY <2>1
  <2> QED
    BY <2>1, <2>2, <2>3 DEF Last
<1> QED
  BY <1>1, <1>3 DEF CloseContainer, Dict

(* In a buffer that was not cut off every string is read. *)
LEMMA StringRead ==
  ASSUME result = Pending, DecodeNext, pos \in Nat \ {0}, buffer \in Seq(Symbol),
         NEW s \in Seq(Symbol), Holds(buffer, pos, EncodeString(s)),
         NEW next, next = pos + Len(EncodeString(s))
  PROVE  ReturnValue(open, Text(s), next)
<1>1. Begins(buffer)
  BY DEF Begins
<1>2. Len(EncodeString(s)) \in Nat /\ Len(buffer) \in Nat
  BY StringType
<1>3. pos - 1 + Len(EncodeString(s)) <= Len(buffer)
  BY DEF Holds
<1>4. next - 1 <= Len(buffer)
  BY <1>2, <1>3
<1> QED
  BY <1>1, <1>4, StringStep

LEMMA AppendToOne ==
  ASSUME NEW c, NEW d
  PROVE  Append(<<c>>, d) = <<c, d>>
<1> DEFINE S == {c, d}
           a == <<c>>
           b == Append(a, d)
           t == <<c, d>>
<1>1. a \in Seq(S) /\ d \in S /\ Len(a) = 1 /\ a[1] = c
  OBVIOUS
<1>2. t \in Seq(S) /\ Len(t) = 2 /\ t[1] = c /\ t[2] = d
  OBVIOUS
<1>3. b = Append(a, d)
  OBVIOUS
<1> HIDE DEF S, a, b, t
<1>4. /\ b \in Seq(S) /\ Len(b) = Len(a) + 1
      /\ \A k \in 1 .. Len(a) : b[k] = a[k]
      /\ b[Len(a) + 1] = d
  <2>1. a \in Seq(S) /\ d \in S
    BY <1>1
  <2> QED
    BY <2>1, <1>3, AppendProperties
<1>5. Len(b) = 2 /\ b[1] = c /\ b[2] = d
  <2>1. 1 \in 1 .. 1 /\ 1 + 1 = 2
    OBVIOUS
  <2> QED
    BY <1>1, <1>4, <2>1
<1>6. \A k \in 1 .. 2 : b[k] = t[k]
  BY <1>2, <1>5
<1>7. b = t
  BY <1>2, <1>4, <1>5, <1>6, SeqEqual
<1> QED
  BY <1>7 DEF a, b, t

(* What is open when the value of the i-th entry is due, and how far a       *)
(* dictionary has been read when the position is p and o is open.            *)
Awaiting(e, i) == DictOf(<<e[i][1]>>, SubSeq(e, 1, i - 1))

InMapped(c, v, p, o) ==
  \/ p = v + 1 /\ o = <<c, DictOf(<<>>, <<>>)>>
  \/ p = v + 4 /\ o = <<c, DictOf(<<<<"seedpay">>>>, <<>>)>>
  \/ p = v + 7 /\ o = <<c, DictOf(<<>>, <<<<<<"seedpay">>, Number(1)>>>>)>>

Reading(e, p, o) ==
  \/ p = 1 /\ o = <<>>
  \/ \E i \in 1 .. Len(e) + 1 :
       p = Start(e, i) /\ o = <<DictOf(<<>>, SubSeq(e, 1, i - 1))>>
  \/ \E i \in 1 .. Len(e) : p = ValueStart(e, i) /\ o = <<Awaiting(e, i)>>
  \/ \E i \in 1 .. Len(e) :
       e[i][2] = Mapped /\ InMapped(Awaiting(e, i), ValueStart(e, i), p, o)

(* A value of the i-th entry that is read ends the entry. *)
LEMMA EntryRead ==
  ASSUME NEW e \in Seq(FieldEntries), NEW i \in 1 .. Len(e),
         ReturnValue(<<Awaiting(e, i)>>, e[i][2], Start(e, i + 1))
  PROVE  /\ buffer' = buffer /\ result' = result
         /\ Reading(e, pos', open')
<1> DEFINE k == <<e[i][1]>>
           values == SubSeq(e, 1, i - 1)
           rest == SubSeq(e, 1, i)
<1>1. Awaiting(e, i) = DictOf(k, values)
  BY DEF Awaiting
<1>2. /\ pos' = Start(e, i + 1) /\ buffer' = buffer /\ result' = result
      /\ open' = <<Take(DictOf(k, values), e[i][2])>>
  BY <1>1, ReturnToOne
<1>3. k # <<>> /\ k[1] = e[i][1]
  OBVIOUS
<1>4. Append(values, <<k[1], e[i][2]>>) = rest
  BY FirstEntries
<1> HIDE DEF k, values
<1>5. Take(DictOf(k, values), e[i][2]) = DictOf(<<>>, Append(values, <<k[1], e[i][2]>>))
  BY <1>3, TakeValue
<1>6. open' = <<DictOf(<<>>, rest)>>
  BY <1>2, <1>4, <1>5
<1>7. i + 1 \in 1 .. Len(e) + 1 /\ (i + 1) - 1 = i
  OBVIOUS
<1>8. pos' = Start(e, i + 1) /\ open' = <<DictOf(<<>>, SubSeq(e, 1, (i + 1) - 1))>>
  BY <1>2, <1>6, <1>7
<1>9. Reading(e, pos', open')
  BY <1>7, <1>8 DEF Reading
<1> QED
  BY <1>2, <1>9

(* A whole dictionary is read up to its end, and nothing is thrown. *)
LEMMA ReadStep ==
  ASSUME NEW e \in Seq(FieldEntries), buffer = Encoded(e), result = Pending, DecodeNext,
         Reading(e, pos, open)
  PROVE  /\ buffer' = buffer
         /\ \/ result' = Pending /\ Reading(e, pos', open')
            \/ result' = Dict(e)
<1> DEFINE n == Len(e)
<1>1. /\ buffer \in Seq(Symbol) /\ buffer[1] = "d" /\ Start(e, 1) = 2
      /\ Start(e, n + 1) = Len(buffer) /\ buffer[Start(e, n + 1)] = "e"
      /\ \A i \in 1 .. n + 1 : Start(e, i) \in 2 .. Len(buffer)
      /\ \A i \in 1 .. n :
           /\ e[i][1] \in Seq(Symbol) /\ e[i][2] \in FieldValues
           /\ ValueStart(e, i) \in Nat \ {0}
           /\ Holds(buffer, Start(e, i), EncodeString(e[i][1]))
           /\ Holds(buffer, ValueStart(e, i), EncodeFlat(e[i][2]))
           /\ Start(e, i + 1) = ValueStart(e, i) + Len(EncodeFlat(e[i][2]))
  BY DictLayout
<1>2. n \in Nat /\ Len(buffer) \in Nat /\ Begins(buffer) /\ 1 \in 1 .. n + 1
  BY <1>1 DEF Begins
<1>3. ASSUME NEW s \in Seq(Symbol), NEW next, pos \in Nat \ {0},
             Holds(buffer, pos, EncodeString(s)), pos + Len(EncodeString(s)) = next
      PROVE  ReturnValue(open, Text(s), next)
  BY <1>1, <1>3, StringRead
<1> HIDE DEF n
<1>4. CASE pos = 1 /\ open = <<>>
  <2>1. ByteAt(pos) = "d"
    <3>1. 1 <= Len(buffer)
      BY <1>1, <1>2
    <3> QED
      BY <1>1, <1>4, <3>1 DEF ByteAt
  <2>2. /\ open' = Append(open, DictOf(<<>>, <<>>)) /\ pos' = pos + 1
        /\ result' = result /\ buffer' = buffer
    BY <2>1, ByteStep DEF DictOf
  <2>3. open' = <<DictOf(<<>>, <<>>)>> /\ pos' = Start(e, 1)
    BY <1>1, <1>4, <2>2
  <2>4. SubSeq(e, 1, 1 - 1) = <<>>
    BY SubSeqEmpty
  <2>5. pos' = Start(e, 1) /\ open' = <<DictOf(<<>>, SubSeq(e, 1, 1 - 1))>>
    BY <2>3, <2>4
  <2>6. Reading(e, pos', open')
    BY <1>2, <2>5 DEF Reading, n
  <2> QED
    BY <2>2, <2>6
<1>5. CASE pos = Start(e, n + 1) /\ open = <<DictOf(<<>>, SubSeq(e, 1, (n + 1) - 1))>>
  <2>1. ByteAt(pos) = "e"
    BY <1>1, <1>2, <1>5 DEF ByteAt
  <2>2. SubSeq(e, 1, (n + 1) - 1) = e
    <3>1. (n + 1) - 1 = Len(e)
      BY <1>2 DEF n
    <3> QED
      BY <3>1, SubSeqFull
  <2>3. open = <<DictOf(<<>>, e)>>
    BY <1>5, <2>2
  <2>4. AtContainerEnd
    <3>1. Last(open) = DictOf(<<>>, e) /\ open # <<>>
      BY <2>3 DEF Last
    <3> QED
      BY <2>1, <3>1 DEF AtContainerEnd, DictOf
  <2>5. CloseContainer
    BY <2>1, <2>4, ByteStep
  <2> QED
    BY <2>3, <2>5, CloseOne
<1>6. ASSUME NEW i \in 1 .. n, pos = Start(e, i),
             open = <<DictOf(<<>>, SubSeq(e, 1, i - 1))>>
      PROVE  /\ buffer' = buffer /\ result' = Pending /\ Reading(e, pos', open')
  <2> DEFINE s == e[i][1]
             values == SubSeq(e, 1, i - 1)
  <2>1. pos \in Nat \ {0}
    <3>1. i \in 1 .. n + 1
      BY <1>2
    <3> QED
      BY <1>1, <1>2, <1>6, <3>1
  <2>2. s \in Seq(Symbol) /\ Holds(buffer, pos, EncodeString(s))
        /\ pos + Len(EncodeString(s)) = ValueStart(e, i)
    BY <1>1, <1>6 DEF ValueStart
  <2>5. ReturnValue(open, Text(s), ValueStart(e, i))
    BY <1>3, <2>1, <2>2
  <2>6. open = <<DictOf(<<>>, values)>>
    BY <1>6
  <2>7. PropertyKey(Text(s)) = s
    BY DEF PropertyKey, Text
  <2> HIDE DEF values, s
  <2>8. /\ pos' = ValueStart(e, i) /\ buffer' = buffer /\ result' = result
        /\ open' = <<Take(DictOf(<<>>, values), Text(s))>>
    BY <2>5, <2>6, ReturnToOne
  <2>9. Take(DictOf(<<>>, values), Text(s)) = DictOf(<<s>>, values)
    BY <2>7, TakeKey
  <2>10. open' = <<Awaiting(e, i)>>
    BY <2>8, <2>9 DEF Awaiting, s, values
  <2>11. Reading(e, pos', open')
    BY <2>8, <2>10 DEF Reading, n
  <2> QED
    BY <2>8, <2>11
<1>7. ASSUME NEW i \in 1 .. n, pos = ValueStart(e, i), open = <<Awaiting(e, i)>>
      PROVE  /\ buffer' = buffer /\ result' = Pending /\ Reading(e, pos', open')
  <2>1. pos \in Nat \ {0} /\ Holds(buffer, pos, EncodeFlat(e[i][2])) /\ i \in 1 .. Len(e)
    BY <1>1, <1>7 DEF n
  <2>2. CASE e[i][2] \in Texts
    <3>1. PICK s \in Seq(Symbol) : e[i][2] = Text(s)
      BY <2>2 DEF Texts
    <3>2. EncodeFlat(e[i][2]) = EncodeString(s)
      BY <3>1, FieldType
    <3>4. /\ Holds(buffer, pos, EncodeString(s))
          /\ pos + Len(EncodeString(s)) = Start(e, i + 1)
      BY <1>1, <1>7, <2>1, <3>2
    <3>6. ReturnValue(open, Text(s), Start(e, i + 1))
      BY <1>3, <2>1, <3>4
    <3>7. ReturnValue(<<Awaiting(e, i)>>, e[i][2], Start(e, i + 1))
      BY <1>7, <3>1, <3>6
    <3> QED
      BY <2>1, <3>7, EntryRead
  <2>3. CASE e[i][2] = Mapped
    <3> DEFINE c == Awaiting(e, i)
    <3>1. buffer[pos] = "d" /\ pos + 7 <= Len(buffer)
      BY <1>1, <2>1, <2>3, MappedLayout
    <3>2. ByteAt(pos) = "d"
      BY <1>2, <2>1, <3>1 DEF ByteAt
    <3>3. /\ open' = Append(open, DictOf(<<>>, <<>>)) /\ pos' = pos + 1
          /\ result' = result /\ buffer' = buffer
      BY <3>2, ByteStep DEF DictOf
    <3> HIDE DEF c
    <3>4. open' = <<c, DictOf(<<>>, <<>>)>>
      <4>1. open = <<c>>
        BY <1>7 DEF c
      <4> DEFINE d == DictOf(<<>>, <<>>)
      <4> HIDE DEF d
      <4>2. Append(<<c>>, d) = <<c, d>>
        BY AppendToOne
      <4> QED
        BY <3>3, <4>1, <4>2 DEF d
    <3>5. InMapped(c, ValueStart(e, i), pos', open')
      BY <1>7, <3>3, <3>4 DEF InMapped
    <3>6. Reading(e, pos', open')
      BY <2>1, <2>3, <3>5 DEF Reading, c
    <3> QED
      BY <3>3, <3>6
  <2> QED
    BY <1>1, <2>2, <2>3 DEF FieldValues
<1>8. ASSUME NEW i \in 1 .. n, e[i][2] = Mapped,
             InMapped(Awaiting(e, i), ValueStart(e, i), pos, open)
      PROVE  /\ buffer' = buffer /\ result' = Pending /\ Reading(e, pos', open')
  <2> DEFINE c == Awaiting(e, i)
             v == ValueStart(e, i)
             word == <<"seedpay">>
  <2>1. /\ word \in Seq(Symbol)
        /\ Holds(buffer, v + 1, EncodeString(word)) /\ Len(EncodeString(word)) = 3
        /\ buffer[v + 4] = "i" /\ buffer[v + 5] = Digit[2]
        /\ buffer[v + 6] = "e" /\ buffer[v + 7] = "e"
        /\ v + 7 <= Len(buffer) /\ v \in Nat \ {0}
        /\ Start(e, i + 1) = v + 8
    <3>1. v \in Nat \ {0} /\ Holds(buffer, v, EncodeFlat(Mapped)) /\ buffer \in Seq(Symbol)
      BY <1>1, <1>8
    <3> HIDE DEF v
    <3>2. /\ word \in Seq(Symbol)
          /\ Holds(buffer, v + 1, EncodeString(word)) /\ Len(EncodeString(word)) = 3
          /\ buffer[v + 4] = "i" /\ buffer[v + 5] = Digit[2]
          /\ buffer[v + 6] = "e" /\ buffer[v + 7] = "e"
          /\ Len(EncodeFlat(Mapped)) = 8 /\ v + 7 <= Len(buffer)
      BY <3>1, MappedLayout
    <3>3. Start(e, i + 1) = v + Len(EncodeFlat(Mapped))
      BY <1>1, <1>8 DEF v
    <3> QED
      BY <3>1, <3>2, <3>3
  <2>2. i \in 1 .. Len(e)
    BY DEF n
  <2>3. InMapped(c, v, pos, open)
    BY <1>8
  <2>4. ASSUME InMapped(c, v, pos', open') PROVE Reading(e, pos', open')
    BY <1>8, <2>2, <2>4 DEF Reading
  <2>5. ASSUME ReturnValue(<<c>>, Mapped, v + 8)
        PROVE  buffer' = buffer /\ result' = result /\ Reading(e, pos', open')
    <3>1. e[i][2] = Mapped /\ Start(e, i + 1) = v + 8
      BY <1>8, <2>1
    <3>2. ReturnValue(<<c>>, e[i][2], Start(e, i + 1))
      BY <2>5, <3>1
    <3> QED
      BY <2>2, <3>2, EntryRead
  <2> HIDE DEF c, v
  <2>6. CASE pos = v + 1 /\ open = <<c, DictOf(<<>>, <<>>)>>
    <3>1. pos \in Nat \ {0} /\ pos + Len(EncodeString(word)) = v + 4
      <4> DEFINE l == Len(EncodeString(word))
      <4>1. l = 3 /\ pos = v + 1 /\ v \in Nat \ {0}
        BY <2>1, <2>6
      <4> HIDE DEF l
      <4>2. pos \in Nat \ {0} /\ pos + l = v + 4
        BY <4>1
      <4> QED
        BY <4>2 DEF l
    <3>2. Holds(buffer, pos, EncodeString(word)) /\ word \in Seq(Symbol)
      BY <2>1, <2>6
    <3>3. ReturnValue(open, Text(word), v + 4)
      BY <1>3, <3>1, <3>2
    <3>4. /\ pos' = v + 4 /\ buffer' = buffer /\ result' = result
          /\ open' = <<c, Take(DictOf(<<>>, <<>>), Text(word))>>
      BY <2>6, <3>3, ReturnToTwo
    <3>5. PropertyKey(Text(word)) = word
      BY DEF PropertyKey, Text
    <3>6. Take(DictOf(<<>>, <<>>), Text(word)) = DictOf(<<PropertyKey(Text(word))>>, <<>>)
      BY TakeKey
    <3>7. open' = <<c, DictOf(<<word>>, <<>>)>>
      BY <3>4, <3>5, <3>6
    <3>8. InMapped(c, v, pos', open')
      BY <3>4, <3>7 DEF InMapped
    <3> QED
      BY <2>4, <3>4, <3>8
  <2>7. CASE pos = v + 4 /\ open = <<c, DictOf(<<word>>, <<>>)>>
    <3>1. /\ pos \in Nat \ {0} /\ pos + 1 = v + 5 /\ pos + 2 = v + 6 /\ pos + 3 = v + 7
          /\ pos + 2 <= Len(buffer)
      BY <1>2, <2>1, <2>7
    <3>2. buffer[pos] = "i" /\ buffer[pos + 1] = Digit[2] /\ buffer[pos + 2] = "e"
      BY <2>1, <2>7, <3>1
    <3>3. ReturnValue(open, Number(1), v + 7)
      BY <1>1, <3>1, <3>2, NumberStep
    <3> DEFINE k == <<word>>
    <3>4. k # <<>> /\ k[1] = word
      OBVIOUS
    <3>5. Append(<<>>, <<word, Number(1)>>) = <<<<word, Number(1)>>>>
      OBVIOUS
    <3> HIDE DEF k
    <3>6. /\ pos' = v + 7 /\ buffer' = buffer /\ result' = result
          /\ open' = <<c, Take(DictOf(k, <<>>), Number(1))>>
      BY <2>7, <3>3, ReturnToTwo DEF k
    <3>7. Take(DictOf(k, <<>>), Number(1)) = DictOf(<<>>, Append(<<>>, <<k[1], Number(1)>>))
      BY <3>4, TakeValue
    <3>8. open' = <<c, DictOf(<<>>, <<<<word, Number(1)>>>>)>>
      BY <3>4, <3>5, <3>6, <3>7
    <3>9. InMapped(c, v, pos', open')
      BY <3>6, <3>8 DEF InMapped
    <3> QED
      BY <2>4, <3>6, <3>9
  <2>8. CASE pos = v + 7 /\ open = <<c, DictOf(<<>>, <<<<word, Number(1)>>>>)>>
    <3> DEFINE values == <<<<word, Number(1)>>>>
    <3>1. Dict(values) = Mapped
      BY MappedType DEF Dict
    <3> HIDE DEF values
    <3>2. open = <<c, DictOf(<<>>, values)>>
      BY <2>8 DEF values
    <3>3. ByteAt(pos) = "e" /\ pos + 1 = v + 8
      BY <1>2, <2>1, <2>8 DEF ByteAt
    <3>4. AtContainerEnd
      <4>1. Last(open) = DictOf(<<>>, values) /\ open # <<>>
        BY <3>2 DEF Last
      <4> QED
        BY <3>3, <4>1 DEF AtContainerEnd, DictOf
    <3>5. CloseContainer
      BY <3>3, <3>4, ByteStep
    <3>6. ReturnValue(<<c>>, Dict(values), pos + 1)
      BY <3>2, <3>5, CloseTwo
    <3>7. ReturnValue(<<c>>, Mapped, v + 8)
      BY <3>1, <3>3, <3>6
    <3> QED
      BY <2>5, <3>7
  <2> QED
    BY <2>3, <2>6, <2>7, <2>8 DEF InMapped
<1>9. \A i \in 1 .. n + 1 : i \in 1 .. n \/ i = n + 1
  BY <1>2
<1> QED
  BY <1>4, <1>5, <1>6, <1>7, <1>8, <1>9 DEF Reading, n

LEMMA HandshakeWire ==
  ASSUME NEW meta \in Metadata
  PROVE  LET e == Sorted(HandshakeEntries(meta))
         IN  /\ e \in Seq(FieldEntries)
             /\ EncodeValue(HandshakeDict(meta)) = Encoded(e)
             /\ RemoteId(Property(Dict(e), "m")) # 0
             /\ ParseHandshakeMetadata(Dict(AsBytes(Dict(e)[2]))) = meta
<1> DEFINE d == HandshakeEntries(meta)
<1>1. Dictionary(d) /\ HandshakeDict(meta) = Dict(d)
  BY HandshakeDictionary
<1>2. EncodeValue(HandshakeDict(meta)) = Encoded(Sorted(d))
  BY <1>1, EncodeDict
<1>3. Sorted(d) \in Seq(FieldEntries)
  BY <1>1, SortedDictionary
<1> QED
  BY <1>2, <1>3, HandshakeDecoded

(* What is sent whole is read from its beginning to its end, and what comes  *)
(* out is what went in.                                                      *)
ReadInv ==
  way \in {"whole", "handshake"} =>
    LET e == WireEntries
    IN  /\ way = "whole" => sent \in Messages
        /\ way = "handshake" => sent \in Metadata
        /\ buffer = Encoded(e)
        /\ \/ result = Pending /\ delivered = Undecided /\ Reading(e, pos, open)
           \/ result = Dict(e) /\ delivered \in {Undecided, sent}

LEMMA ReadInit == Init => ReadInv
<1> SUFFICES ASSUME Init, way \in {"whole", "handshake"} PROVE ReadInv
  BY DEF ReadInv
<1>1. /\ way = "whole" => sent \in Messages /\ buffer = EncodeBep10Message(sent)
      /\ way = "handshake" => sent \in Metadata /\ buffer = EncodeValue(HandshakeDict(sent))
  BY DEF Init
<1>2. CASE way = "whole"
  <2>1. sent \in Messages /\ WireEntries = Sorted(MessageEntries(sent))
    BY <1>1, <1>2 DEF WireEntries
  <2>2. buffer = Encoded(WireEntries)
    BY <1>1, <1>2, <2>1, MessageWire
  <2> QED
    BY <1>2, <2>1, <2>2 DEF ReadInv, Reading, Init
<1>3. CASE way = "handshake"
  <2>1. sent \in Metadata /\ WireEntries = Sorted(HandshakeEntries(sent))
    BY <1>1, <1>3 DEF WireEntries
  <2>2. buffer = Encoded(WireEntries)
    BY <1>1, <1>3, <2>1, HandshakeWire
  <2> QED
    BY <1>3, <2>1, <2>2 DEF ReadInv, Reading, Init
<1> QED
  BY <1>2, <1>3

LEMMA ReadInvStep == ReadInv /\ [Next]_vars => ReadInv'
<1> SUFFICES ASSUME ReadInv, [Next]_vars, way' \in {"whole", "handshake"} PROVE ReadInv'
  BY DEF ReadInv
<1> DEFINE e == WireEntries
<1>1. way' = way /\ sent' = sent /\ way \in {"whole", "handshake"}
  BY DEF Next, vars, Decode, DecodeBep10Message, OnHandshake
<1>2. /\ way = "whole" => sent \in Messages
      /\ way = "handshake" => sent \in Metadata
      /\ buffer = Encoded(e)
      /\ \/ result = Pending /\ delivered = Undecided /\ Reading(e, pos, open)
         \/ result = Dict(e) /\ delivered \in {Undecided, sent}
  BY <1>1 DEF ReadInv
<1>3. e' = e
  BY <1>1 DEF WireEntries
<1>4. e \in Seq(FieldEntries)
  <2>1. CASE way = "whole"
    BY <1>2, <2>1, MessageWire DEF WireEntries
  <2>2. CASE way = "handshake"
    BY <1>2, <2>2, HandshakeWire DEF WireEntries
  <2> QED
    BY <1>1, <2>1, <2>2
<1>5. Dict(e) # Pending /\ Dict(e) # Thrown
  <2>1. Dict(e)[1] = "dict" /\ Pending[1] = "pending" /\ Thrown[1] = "error"
    BY DEF Dict, Pending, Thrown
  <2> QED
    BY <2>1
<1>6. ASSUME buffer' = buffer,
             \/ result' = Pending /\ delivered' = Undecided /\ Reading(e, pos', open')
             \/ result' = Dict(e) /\ delivered' \in {Undecided, sent}
      PROVE  ReadInv'
  BY <1>1, <1>2, <1>3, <1>6 DEF ReadInv
<1>7. CASE UNCHANGED decodeVars /\ delivered' = delivered
  BY <1>2, <1>6, <1>7 DEF decodeVars
<1>8. CASE Decode
  <2>1. DecodeNext /\ result = Pending /\ delivered' = delivered
    BY <1>8 DEF Decode, DecodeNext, DecodeInteger, OpenContainer, CloseContainer,
                DecodeString, UnexpectedByte
  <2>2. delivered = Undecided /\ Reading(e, pos, open)
    BY <1>2, <1>5, <2>1
  <2> HIDE DEF e
  <2>3. /\ buffer' = buffer
        /\ \/ result' = Pending /\ Reading(e, pos', open')
           \/ result' = Dict(e)
    BY <1>2, <1>4, <2>1, <2>2, ReadStep
  <2> QED
    BY <1>6, <2>1, <2>2, <2>3
<1>9. CASE DecodeBep10Message
  <2>1. way = "whole" /\ result = Dict(e) /\ UNCHANGED decodeVars
    BY <1>1, <1>2, <1>9 DEF DecodeBep10Message
  <2>2. delivered' = DecodeMessage(Dict(e))
    BY <1>5, <1>9, <2>1 DEF DecodeBep10Message
  <2>3. sent \in Messages /\ e = Sorted(MessageEntries(sent))
    BY <1>2, <2>1 DEF WireEntries
  <2>4. DecodeMessage(Dict(e)) = sent
    BY <2>3, MessageWire
  <2> QED
    BY <1>6, <2>1, <2>2, <2>4 DEF decodeVars
<1>10. CASE OnHandshake
  <2>1. way = "handshake" /\ result = Dict(e) /\ UNCHANGED decodeVars
    BY <1>1, <1>2, <1>10 DEF OnHandshake
  <2>2. delivered' = IF RemoteId(Property(Dict(e), "m")) = 0 THEN Refused
                     ELSE ParseHandshakeMetadata(Dict(AsBytes(Dict(e)[2])))
    BY <1>10, <2>1 DEF OnHandshake
  <2>3. sent \in Metadata /\ e = Sorted(HandshakeEntries(sent))
    BY <1>2, <2>1 DEF WireEntries
  <2>4. /\ RemoteId(Property(Dict(e), "m")) # 0
        /\ ParseHandshakeMetadata(Dict(AsBytes(Dict(e)[2]))) = sent
    BY <2>3, HandshakeWire
  <2> QED
    BY <1>6, <2>1, <2>2, <2>4 DEF decodeVars
<1> QED
  BY <1>7, <1>8, <1>9, <1>10 DEF Next, vars

(* A payment check comes out of its message as it went in. *)
LEMMA CheckBridge ==
  ASSUME NEW m, IsMessage(m), m = [f \in DOMAIN m |-> m[f]], m.type = "payment_check"
  PROVE  PaymentCheckToMessage(MessageToPaymentCheck(m)) = m
<1> DEFINE c == PaymentCheckToMessage(MessageToPaymentCheck(m))
<1>1. DOMAIN m = {"type"} \cup DOMAIN Fields["payment_check"]
  BY DEF IsMessage
<1>2. DOMAIN Fields["payment_check"] = {"channelId", "amount", "nonce", "signature"}
  BY DEF Fields
<1>3. DOMAIN m = {"type", "channelId", "amount", "nonce", "signature"}
  BY <1>1, <1>2
<1>4. /\ DOMAIN c = {"type", "channelId", "amount", "nonce", "signature"}
      /\ c = [f \in DOMAIN c |-> c[f]]
      /\ c.type = m.type /\ c.channelId = m.channelId /\ c.amount = m.amount
      /\ c.nonce = m.nonce /\ c.signature = m.signature
  BY DEF PaymentCheckToMessage, MessageToPaymentCheck
<1>5. \A f \in DOMAIN m : c[f] = m[f]
  BY <1>3, <1>4
<1> HIDE DEF c
<1>6. c = m
  BY <1>3, <1>4, <1>5
<1> QED
  BY <1>6 DEF c

-----------------------------------------------------------------------------
(* A message that arrives whole is the message that was sent, whatever its   *)
(* type and its fields: encodeBep10Message, decode and decodeMessage lose    *)
(* nothing, and a payment check keeps what its signature covers.             *)
THEOREM WholeDelivered == Spec => []DeliveredAsSent
<1>1. ReadInv => DeliveredAsSent
  <2> SUFFICES ASSUME ReadInv, way = "whole", delivered # Undecided
               PROVE  /\ delivered = sent
                      /\ sent.type = "payment_check" =>
                           PaymentCheckToMessage(MessageToPaymentCheck(delivered)) = sent
    BY DEF DeliveredAsSent
  <2>1. sent \in Messages /\ delivered = sent
    BY DEF ReadInv
  <2>2. IsMessage(sent) /\ sent = [f \in DOMAIN sent |-> sent[f]]
    BY <2>1, SentAssumption
  <2> QED
    BY <2>1, <2>2, CheckBridge
<1> QED
  BY <1>1, ReadInit, ReadInvStep, PTL DEF Spec

(* The terms in a handshake are read as the peer wrote them, for every       *)
(* wallet, chain, price and minimum: a price of 0 is not taken for none.     *)
THEOREM HandshakeDelivered == Spec => []HandshakeSurvives
<1>1. ReadInv => HandshakeSurvives
  BY DEF ReadInv, HandshakeSurvives
<1> QED
  BY <1>1, ReadInit, ReadInvStep, PTL DEF Spec
-----------------------------------------------------------------------------
(* --- what decoding keeps of types, whatever the buffer holds --- *)

IsSequence(s) == s \in Seq({s[i] : i \in DOMAIN s})

TextValue(v) == v[1] = "text" => v[2] \in Seq(Symbol)
IsItems(s) == IsSequence(s) /\ \A i \in DOMAIN s : TextValue(s[i][2])
IsValue(v) ==
  /\ TextValue(v)
  /\ v[1] = "number" => v[2] \in Nat
  /\ v[1] = "dict" => IsItems(v[2])

IsOpen(c) ==
  /\ c = [kind |-> c.kind, key |-> c.key, items |-> c.items]
  /\ c.kind \in {"list", "dict"}
  /\ c.key # <<>> => c.key[1] \in Seq(Symbol)
  /\ IsSequence(c.items)
  /\ c.kind = "dict" => IsItems(c.items)

LEMMA IsSequenceFacts ==
  ASSUME NEW S, NEW s \in Seq(S)
  PROVE  IsSequence(s) /\ Len(s) \in Nat /\ DOMAIN s = 1 .. Len(s)
<1> DEFINE R == {s[i] : i \in DOMAIN s}
<1>1. Len(s) \in Nat /\ DOMAIN s = 1 .. Len(s) /\ s \in [1 .. Len(s) -> S]
  BY LenProperties
<1>2. s \in [1 .. Len(s) -> R]
  BY <1>1
<1> HIDE DEF R
<1>3. s \in Seq(R)
  BY <1>1, <1>2
<1> QED
  BY <1>1, <1>3 DEF IsSequence, R

LEMMA AppendIsSequence ==
  ASSUME NEW s, IsSequence(s), NEW x
  PROVE  LET a == Append(s, x)
         IN  /\ IsSequence(a) /\ Len(a) = Len(s) + 1 /\ Len(s) \in Nat
             /\ DOMAIN a = 1 .. Len(s) + 1 /\ DOMAIN s = 1 .. Len(s)
             /\ \A i \in 1 .. Len(s) : a[i] = s[i]
             /\ a[Len(s) + 1] = x
<1> DEFINE R == {s[i] : i \in DOMAIN s}
           S == R \cup {x}
           a == Append(s, x)
<1>1. s \in Seq(R) /\ R \subseteq S /\ x \in S
  BY DEF IsSequence
<1> HIDE DEF R, S
<1>2. s \in Seq(S)
  BY <1>1
<1>3. a = Append(s, x)
  OBVIOUS
<1> HIDE DEF a
<1>4. /\ a \in Seq(S) /\ Len(a) = Len(s) + 1
      /\ \A i \in 1 .. Len(s) : a[i] = s[i]
      /\ a[Len(s) + 1] = x
  <2>1. x \in S
    BY <1>1
  <2> QED
    BY <1>2, <1>3, <2>1, AppendProperties
<1>5. IsSequence(a) /\ DOMAIN a = 1 .. Len(a)
  BY <1>4, IsSequenceFacts
<1>6. Len(s) \in Nat /\ DOMAIN s = 1 .. Len(s)
  BY <1>2, IsSequenceFacts
<1> QED
  BY <1>4, <1>5, <1>6 DEF a

LEMMA AppendItem ==
  ASSUME NEW s, IsItems(s), NEW k, NEW v, TextValue(v)
  PROVE  IsItems(Append(s, <<k, v>>))
<1> DEFINE x == <<k, v>>
           a == Append(s, x)
<1>1. x[2] = v
  OBVIOUS
<1>2. a = Append(s, x) /\ IsSequence(s) /\ \A i \in DOMAIN s : TextValue(s[i][2])
  BY DEF IsItems
<1> HIDE DEF x, a
<1>3. /\ IsSequence(a) /\ Len(s) \in Nat
      /\ DOMAIN a = 1 .. Len(s) + 1 /\ DOMAIN s = 1 .. Len(s)
      /\ \A i \in 1 .. Len(s) : a[i] = s[i]
      /\ a[Len(s) + 1] = x
  BY <1>2, AppendIsSequence
<1>4. ASSUME NEW i \in DOMAIN a PROVE TextValue(a[i][2])
  <2>1. i \in 1 .. Len(s) \/ i = Len(s) + 1
    BY <1>3
  <2>2. CASE i \in 1 .. Len(s)
    BY <1>2, <1>3, <2>2
  <2>3. CASE i = Len(s) + 1
    BY <1>1, <1>3, <2>3
  <2> QED
    BY <2>1, <2>2, <2>3
<1>5. IsItems(a)
  BY <1>3, <1>4 DEF IsItems
<1> QED
  BY <1>5 DEF a, x

(* A property key is a string, whatever stands for it. *)
LEMMA KeyType ==
  ASSUME NEW v, IsValue(v)
  PROVE  PropertyKey(v) \in Seq(Symbol)
<1>1. CASE v[1] = "text"
  BY <1>1 DEF PropertyKey, IsValue, TextValue
<1>2. CASE v[1] = "number"
  <2>1. v[2] \in Nat
    BY <1>2 DEF IsValue
  <2>2. DecimalText[v[2]] \in Seq(Symbol)
    BY <2>1, ParseIntText
  <2> QED
    BY <1>2, <2>2 DEF PropertyKey
<1>3. CASE v[1] # "text" /\ v[1] # "number"
  <2>1. PropertyKey(v) = <<"object">>
    BY <1>3 DEF PropertyKey
  <2> QED
    BY <2>1, BencodeAssumption
<1> QED
  BY <1>1, <1>2, <1>3

LEMMA TakeType ==
  ASSUME NEW c, IsOpen(c), NEW v, IsValue(v)
  PROVE  IsOpen(Take(c, v))
<1> DEFINE kind == c.kind
           key == c.key
           items == c.items
           k == PropertyKey(v)
           t == Take(c, v)
<1>1. /\ c = [kind |-> kind, key |-> key, items |-> items] /\ kind \in {"list", "dict"}
      /\ key # <<>> => key[1] \in Seq(Symbol)
      /\ IsSequence(items) /\ (kind = "dict" => IsItems(items))
  BY DEF IsOpen
<1>2. k \in Seq(Symbol)
  BY KeyType
<1>3. TextValue(v)
  BY DEF IsValue
<1> HIDE DEF kind, key, items, k
<1>4. CASE kind = "list"
  <2> DEFINE more == Append(items, v)
  <2>1. IsSequence(more)
    BY <1>1, AppendIsSequence
  <2> HIDE DEF more
  <2>2. t = [kind |-> kind, key |-> key, items |-> more]
    BY <1>1, <1>4 DEF Take, more
  <2> HIDE DEF t
  <2>3. t.kind = kind /\ t.key = key /\ t.items = more
    BY <2>2
  <2> QED
    BY <1>1, <1>4, <2>1, <2>2, <2>3 DEF IsOpen, t
<1>5. CASE kind # "list" /\ key = <<>>
  <2> DEFINE ks == <<k>>
  <2>1. ks # <<>> /\ ks[1] = k
    OBVIOUS
  <2> HIDE DEF ks
  <2>2. t = [kind |-> kind, key |-> ks, items |-> items]
    BY <1>1, <1>5 DEF Take, ks, k
  <2> HIDE DEF t
  <2>3. t.kind = kind /\ t.key = ks /\ t.items = items
    BY <2>2
  <2> QED
    BY <1>1, <1>2, <2>1, <2>2, <2>3 DEF IsOpen, t
<1>6. CASE kind # "list" /\ key # <<>>
  <2> DEFINE x == <<key[1], v>>
             more == Append(items, x)
  <2>1. IsSequence(more)
    BY <1>1, AppendIsSequence
  <2>2. kind = "dict" => IsItems(more)
    BY <1>1, <1>3, AppendItem
  <2> HIDE DEF more
  <2>3. t = [kind |-> kind, key |-> <<>>, items |-> more]
    BY <1>1, <1>6 DEF Take, more
  <2> HIDE DEF t
  <2>4. t.kind = kind /\ t.key = <<>> /\ t.items = more
    BY <2>3
  <2> QED
    BY <1>1, <2>1, <2>2, <2>3, <2>4 DEF IsOpen, t
<1> QED
  BY <1>4, <1>5, <1>6 DEF t

IsStack(s) == IsSequence(s) /\ \A i \in DOMAIN s : IsOpen(s[i])

LEMMA PushType ==
  ASSUME NEW s, IsStack(s), NEW c, IsOpen(c)
  PROVE  IsStack(Append(s, c))
<1> DEFINE a == Append(s, c)
<1>1. a = Append(s, c) /\ IsSequence(s) /\ \A i \in DOMAIN s : IsOpen(s[i])
  BY DEF IsStack
<1> HIDE DEF a
<1>2. /\ IsSequence(a) /\ Len(s) \in Nat
      /\ DOMAIN a = 1 .. Len(s) + 1 /\ DOMAIN s = 1 .. Len(s)
      /\ \A i \in 1 .. Len(s) : a[i] = s[i]
      /\ a[Len(s) + 1] = c
  BY <1>1, AppendIsSequence
<1>3. ASSUME NEW i \in DOMAIN a PROVE IsOpen(a[i])
  <2>1. i \in 1 .. Len(s) \/ i = Len(s) + 1
    BY <1>2
  <2>2. CASE i \in 1 .. Len(s)
    BY <1>1, <1>2, <2>2
  <2>3. CASE i = Len(s) + 1
    BY <1>2, <2>3
  <2> QED
    BY <2>1, <2>2, <2>3
<1>4. IsStack(a)
  BY <1>2, <1>3 DEF IsStack
<1> QED
  BY <1>4 DEF a

LEMMA TopType ==
  ASSUME NEW s, IsStack(s), s # <<>>
  PROVE  IsStack(Front(s)) /\ IsOpen(Last(s)) /\ Len(s) \in Nat \ {0}
<1> DEFINE R == {s[i] : i \in DOMAIN s}
           f == Front(s)
<1>1. s \in Seq(R) /\ \A i \in DOMAIN s : IsOpen(s[i])
  BY DEF IsStack, IsSequence
<1>2. \A x \in R : IsOpen(x)
  BY <1>1
<1> HIDE DEF R, f
<1>3. /\ f \in Seq(R) /\ Last(s) \in R /\ Len(s) \in Nat \ {0}
  BY <1>1, FrontLast DEF f
<1>4. IsSequence(f) /\ DOMAIN f = 1 .. Len(f)
  BY <1>3, IsSequenceFacts
<1>5. \A i \in DOMAIN f : f[i] \in R
  BY <1>3, <1>4
<1>6. IsStack(f)
  BY <1>2, <1>4, <1>5 DEF IsStack
<1> QED
  BY <1>2, <1>3, <1>6 DEF f

LEMMA ReplaceType ==
  ASSUME NEW s, IsStack(s), s # <<>>, NEW c, IsOpen(c)
  PROVE  IsStack([s EXCEPT ![Len(s)] = c])
<1> DEFINE R == {s[i] : i \in DOMAIN s}
           S == R \cup {c}
           n == Len(s)
           a == [s EXCEPT ![n] = c]
<1>1. s \in Seq(R) /\ \A i \in DOMAIN s : IsOpen(s[i])
  BY DEF IsStack, IsSequence
<1>2. \A x \in S : IsOpen(x)
  BY <1>1
<1>3. R \subseteq S /\ c \in S
  OBVIOUS
<1> HIDE DEF R, S
<1>4. s \in Seq(S)
  BY <1>1, <1>3
<1>5. n \in 1 .. Len(s)
  <2>1. n \in Nat \ {0}
    BY TopType
  <2> QED
    BY <2>1
<1>6. a = [s EXCEPT ![n] = c]
  OBVIOUS
<1> HIDE DEF n, a
<1>7. a \in Seq(S)
  BY <1>3, <1>4, <1>5, <1>6, ExceptSeq
<1>8. IsSequence(a) /\ DOMAIN a = 1 .. Len(a)
  BY <1>7, IsSequenceFacts
<1>9. \A i \in DOMAIN a : a[i] \in S
  BY <1>7, <1>8
<1>10. IsStack(a)
  BY <1>2, <1>8, <1>9 DEF IsStack
<1> QED
  BY <1>10 DEF a, n

LEMMA EmptyTypes ==
  IsStack(<<>>) /\ IsItems(<<>>) /\ IsSequence(<<>>)
<1> DEFINE s == <<>>
<1>1. s \in Seq({}) /\ Len(s) = 0
  OBVIOUS
<1> HIDE DEF s
<1>2. IsSequence(s) /\ DOMAIN s = 1 .. 0
  BY <1>1, IsSequenceFacts
<1>3. \A i \in DOMAIN s : FALSE
  BY <1>2
<1> QED
  BY <1>2, <1>3 DEF s, IsStack, IsItems

LEMMA ReturnType ==
  ASSUME NEW cs, IsStack(cs), NEW value, IsValue(value), NEW next, IsValue(result),
         ReturnValue(cs, value, next)
  PROVE  /\ IsStack(open') /\ IsValue(result') /\ pos' = next /\ buffer' = buffer
<1>1. pos' = next /\ buffer' = buffer
  BY DEF ReturnValue
<1>2. CASE cs = <<>>
  <2>1. result' = value /\ open' = <<>>
    BY <1>2 DEF ReturnValue
  <2> QED
    BY <1>1, <2>1, EmptyTypes
<1>3. CASE cs # <<>>
  <2> DEFINE c == Take(cs[Len(cs)], value)
  <2>1. open' = [cs EXCEPT ![Len(cs)] = c] /\ result' = result
    BY <1>3 DEF ReturnValue
  <2>2. IsOpen(cs[Len(cs)])
    BY <1>3, TopType DEF Last
  <2>3. IsOpen(c)
    BY <2>2, TakeType
  <2> HIDE DEF c
  <2>4. IsStack([cs EXCEPT ![Len(cs)] = c])
    BY <1>3, <2>3, ReplaceType
  <2> QED
    BY <1>1, <2>1, <2>4
<1> QED
  BY <1>2, <1>3

(* The symbols between two places of the buffer. *)
LEMMA SliceType ==
  ASSUME buffer \in Seq(Symbol), NEW m \in Nat \ {0}, NEW n \in Int, n <= Len(buffer)
  PROVE  SubSeq(buffer, m, n) \in Seq(Symbol)
<1>1. \A i \in m .. n : buffer[i] \in Symbol
  OBVIOUS
<1> QED
  BY <1>1, SubSeqProperties

LEMMA IndexType ==
  ASSUME buffer \in Seq(Symbol), NEW from \in Nat \ {0}, NEW byte
  PROVE  LET n == IndexOf(byte, from)
         IN  n = 0 \/ n \in from .. Len(buffer)
  BY IndexOfFirst

LEMMA DecodeNextType ==
  ASSUME buffer \in Seq(Symbol), pos \in Nat \ {0}, IsStack(open), IsValue(result),
         DecodeNext
  PROVE  /\ buffer' = buffer /\ pos' \in Nat \ {0} /\ IsStack(open') /\ IsValue(result')
<1>0. Len(buffer) \in Nat
  OBVIOUS
<1>1. CASE Throw
  <2>1. IsValue(Thrown)
    BY DEF Thrown, IsValue, TextValue
  <2> QED
    BY <1>1, <2>1 DEF Throw
<1>2. CASE DecodeInteger
  <2> DEFINE end == IndexOf("e", pos + 1)
             text == SubSeq(buffer, pos + 1, end - 1)
  <2>1. pos + 1 \in Nat \ {0}
    OBVIOUS
  <2>2. end = 0 \/ end \in pos + 1 .. Len(buffer)
    BY <2>1, IndexType
  <2>3. Throw \/ (end # 0 /\ ReturnValue(open, IntegerValue(text), end + 1))
    BY <1>2 DEF DecodeInteger
  <2> HIDE DEF end
  <2>4. CASE end # 0 /\ ReturnValue(open, IntegerValue(text), end + 1)
    <3>1. end - 1 \in Int /\ end - 1 <= Len(buffer) /\ end + 1 \in Nat \ {0}
      BY <1>0, <2>2, <2>4
    <3>2. text \in Seq(Symbol)
      BY <2>1, <3>1, SliceType
    <3> HIDE DEF text
    <3>3. ParseInt(text) \in Nat
      BY <3>2, ParseIntType
    <3>4. IsValue(IntegerValue(text))
      <4>1. IsValue(Number(ParseInt(text)))
        BY <3>3 DEF IsValue, TextValue, Number
      <4>2. IsValue(Text(text))
        BY <3>2 DEF IsValue, TextValue, Text
      <4> QED
        BY <4>1, <4>2 DEF IntegerValue
    <3> QED
      BY <2>4, <3>1, <3>4, ReturnType
  <2> QED
    BY <1>1, <2>3, <2>4
<1>3. CASE OpenContainer
  <2> DEFINE kind == IF ByteAt(pos) = "l" THEN "list" ELSE "dict"
             c == [kind |-> kind, key |-> <<>>, items |-> <<>>]
  <2>1. open' = Append(open, c) /\ pos' = pos + 1 /\ buffer' = buffer /\ result' = result
    BY <1>3 DEF OpenContainer
  <2>2. kind \in {"list", "dict"}
    OBVIOUS
  <2> HIDE DEF kind
  <2>3. c.kind = kind /\ c.key = <<>> /\ c.items = <<>>
    OBVIOUS
  <2>4. IsOpen(c)
    BY <2>2, <2>3, EmptyTypes DEF IsOpen
  <2> HIDE DEF c
  <2>5. IsStack(Append(open, c))
    BY <2>4, PushType
  <2> QED
    BY <2>1, <2>5
<1>4. CASE CloseContainer
  <2> DEFINE c == Last(open)
             value == <<c.kind, c.items>>
  <2>1. open # <<>> /\ ReturnValue(Front(open), value, pos + 1)
    BY <1>4 DEF CloseContainer, AtContainerEnd
  <2>2. IsStack(Front(open)) /\ IsOpen(c)
    BY <2>1, TopType
  <2> HIDE DEF c
  <2>3. value[1] = c.kind /\ value[2] = c.items
    OBVIOUS
  <2>4. c.kind \in {"list", "dict"} /\ (c.kind = "dict" => IsItems(c.items))
    BY <2>2 DEF IsOpen
  <2> HIDE DEF value
  <2>5. IsValue(value)
    BY <2>3, <2>4 DEF IsValue, TextValue
  <2>6. /\ IsStack(open') /\ IsValue(result') /\ pos' = pos + 1 /\ buffer' = buffer
    BY <2>1, <2>2, <2>5, ReturnType
  <2> QED
    BY <2>6
<1>5. CASE DecodeString
  <2> DEFINE colon == IndexOf(":", pos)
             digits == SubSeq(buffer, pos, colon - 1)
             len == ParseInt(digits)
             to == IF colon + len < Len(buffer) THEN colon + len ELSE Len(buffer)
             text == SubSeq(buffer, colon + 1, to)
  <2>1. colon = 0 \/ colon \in pos .. Len(buffer)
    BY IndexType
  <2>2. Throw \/ (colon # 0 /\ ReturnValue(open, Text(text), colon + len + 1))
    BY <1>5 DEF DecodeString
  <2> HIDE DEF colon
  <2>3. CASE colon # 0 /\ ReturnValue(open, Text(text), colon + len + 1)
    <3>1. /\ colon \in Nat \ {0} /\ colon + 1 \in Nat \ {0}
          /\ colon - 1 \in Int /\ colon - 1 <= Len(buffer)
      BY <1>0, <2>1, <2>3
    <3>2. digits \in Seq(Symbol)
      BY <3>1, SliceType
    <3> HIDE DEF digits
    <3>3. len \in Nat
      BY <3>2, ParseIntType
    <3> HIDE DEF len
    <3>4. to \in Int /\ to <= Len(buffer) /\ colon + len + 1 \in Nat \ {0}
      BY <1>0, <3>1, <3>3
    <3> HIDE DEF to
    <3>5. text \in Seq(Symbol)
      BY <3>1, <3>4, SliceType
    <3> HIDE DEF text
    <3>6. IsValue(Text(text))
      BY <3>5 DEF IsValue, TextValue, Text
    <3>7. /\ IsStack(open') /\ IsValue(result') /\ pos' = colon + len + 1
          /\ buffer' = buffer
      BY <2>3, <3>6, ReturnType
    <3> QED
      BY <3>4, <3>7
  <2> QED
    BY <1>1, <2>2, <2>3
<1>6. CASE UnexpectedByte
  BY <1>1, <1>6 DEF UnexpectedByte
<1> QED
  BY <1>2, <1>3, <1>4, <1>5, <1>6 DEF DecodeNext

(* Whatever was decoded, a message has all its fields, of their types. *)
LEMMA DecodeMessageType ==
  ASSUME NEW obj, IsValue(obj)
  PROVE  DecodeMessage(obj) = Refused \/ IsMessage(DecodeMessage(obj))
<1>1. ASSUME NEW key, Has(obj, key) PROVE TextValue(Property(obj, key))
  <2> DEFINE items == obj[2]
             I == Entries(obj, key)
  <2>1. obj[1] = "dict" /\ I # {} /\ I \subseteq DOMAIN items
    BY <1>1 DEF Has, Entries
  <2>2. IsItems(items)
    BY <2>1 DEF IsValue
  <2> HIDE DEF items, I
  <2>3. DOMAIN items = 1 .. Len(items) /\ Len(items) \in Nat
    BY <2>2, IsSequenceFacts DEF IsItems, IsSequence
  <2>4. Max(I) \in I
    BY <2>1, <2>3, MaxOf
  <2>5. TextValue(items[Max(I)][2])
    BY <2>1, <2>2, <2>4 DEF IsItems
  <2> QED
    BY <2>5 DEF Property, items, I
<1>2. CASE ~(\E t \in MessageTypes : Has(obj, "type") /\ Property(obj, "type") = Text(<<t>>))
  BY <1>2 DEF DecodeMessage
<1>3. CASE \E t \in MessageTypes : Has(obj, "type") /\ Property(obj, "type") = Text(<<t>>)
  <2>1. PICK t \in MessageTypes : Property(obj, "type") = Text(<<t>>)
    BY <1>3
  <2>2. Property(obj, "type")[2][1] = t
    BY <2>1 DEF Text
  <2> DEFINE fields == Fields[t]
             m == [f \in {"type"} \cup DOMAIN fields |->
                     IF f = "type" THEN t ELSE DecodeField(fields[f], Property(obj, f)[2])]
  <2>3. DecodeMessage(obj) = IF \E f \in DOMAIN fields : ~IsField(obj, f, fields[f])
                             THEN Refused ELSE m
    BY <1>3, <2>2 DEF DecodeMessage
  <2>4. ASSUME \A f \in DOMAIN fields : IsField(obj, f, fields[f]) PROVE IsMessage(m)
    <3>1. "type" \notin DOMAIN fields
      BY FieldKinds
    <3>2. \A f \in DOMAIN fields : fields[f] \in {"hex", "amount", "text"}
      BY FieldKinds
    <3>3. DOMAIN m = {"type"} \cup DOMAIN fields /\ m.type = t
      OBVIOUS
    <3>4. ASSUME NEW f \in DOMAIN fields
          PROVE  CASE fields[f] = "hex" -> m[f] \in Seq(0 .. 255)
                   [] fields[f] = "amount" -> m[f] \in Nat
                   [] fields[f] = "text" -> m[f] \in Seq(Symbol)
      <4> DEFINE text == Property(obj, f)[2]
                 kind == fields[f]
      <4>1. m[f] = DecodeField(kind, text)
        BY <3>1
      <4>2. /\ Has(obj, f) /\ Property(obj, f)[1] = "text"
            /\ (kind = "hex" => IsHex(text))
        BY <2>4 DEF IsField
      <4>3. text \in Seq(Symbol)
        BY <1>1, <4>2 DEF TextValue
      <4>4. kind \in {"hex", "amount", "text"}
        BY <3>2
      <4> DEFINE value == m[f]
      <4>5. value = DecodeField(kind, text)
        BY <4>1
      <4> HIDE DEF text, kind, value
      <4>6. CASE kind = "hex"
        <5>1. value = HexToBytes(text)
          BY <4>5, <4>6 DEF DecodeField
        <5>2. value \in Seq(0 .. 255)
          BY <4>2, <4>3, <4>6, <5>1, HexDecodeType
        <5> QED
          BY <4>6, <5>2 DEF kind, value
      <4>7. CASE kind = "amount"
        <5>1. value = ParseInt(text)
          BY <4>5, <4>7 DEF DecodeField, BigIntOf
        <5>2. value \in Nat
          BY <4>3, <5>1, ParseIntType
        <5> QED
          BY <4>7, <5>2 DEF kind, value
      <4>8. CASE kind = "text"
        <5>1. value \in Seq(Symbol)
          BY <4>3, <4>5, <4>8 DEF DecodeField
        <5> QED
          BY <4>8, <5>1 DEF kind, value
      <4> QED
        BY <4>4, <4>6, <4>7, <4>8
    <3> HIDE DEF m
    <3> QED
      BY <3>3, <3>4 DEF IsMessage
  <2> QED
    BY <2>3, <2>4
<1> QED
  BY <1>2, <1>3

(* The buffer holds symbols, however it came about. *)
LEMMA BufferType == Init => buffer \in Seq(Symbol)
<1> SUFFICES ASSUME Init PROVE buffer \in Seq(Symbol)
  OBVIOUS
<1>1. ASSUME NEW m \in Messages \cup Altered
      PROVE  EncodeBep10Message(m) \in Seq(Symbol)
  BY MessageWire, DictLayout
<1>2. ASSUME NEW meta \in Metadata
      PROVE  EncodeValue(HandshakeDict(meta)) \in Seq(Symbol)
  BY HandshakeWire, DictLayout
<1>3. CASE way = "whole"
  BY <1>1, <1>3 DEF Init
<1>4. CASE way = "cut"
  <2>1. EncodeBep10Message(sent) \in Seq(Symbol)
    BY <1>1, <1>4 DEF Init
  <2> DEFINE full == EncodeBep10Message(sent)
  <2>2. PICK l \in 0 .. Len(full) : buffer = SubSeq(full, 1, l)
    BY <1>4 DEF Init, StrictPrefixes, Prefixes
  <2> HIDE DEF full
  <2> QED
    BY <2>1, <2>2, FirstParts DEF full
<1>5. CASE way = "altered"
  <2> DEFINE full == EncodeBep10Message(sent)
  <2>1. full \in Seq(Symbol) /\ buffer \in Changes(full)
    BY <1>1, <1>5 DEF Init
  <2> HIDE DEF full
  <2>2. PICK i \in DOMAIN full, c \in Alphabet : buffer = [full EXCEPT ![i] = c]
    BY <2>1 DEF Changes
  <2>3. c \in Symbol /\ i \in 1 .. Len(full)
    BY <2>1, <2>2, SentAssumption
  <2> QED
    BY <2>1, <2>2, <2>3, ExceptSeq
<1>6. CASE way = "foreign"
  <2>1. PICK n \in 0 .. ForeignLen : buffer \in [1 .. n -> Alphabet]
    BY <1>6 DEF Init
  <2>2. n \in Nat /\ buffer \in [1 .. n -> Symbol]
    BY <2>1, SentAssumption
  <2> QED
    BY <2>2
<1>7. CASE way = "handshake"
  BY <1>2, <1>7 DEF Init
<1> QED
  BY <1>3, <1>4, <1>5, <1>6, <1>7 DEF Init

TypeInv ==
  /\ buffer \in Seq(Symbol) /\ pos \in Nat \ {0}
  /\ IsStack(open) /\ IsValue(result)
  /\ (way # "handshake" /\ delivered \notin {Undecided, Refused}) => IsMessage(delivered)

LEMMA TypeInit == Init => TypeInv
<1> SUFFICES ASSUME Init PROVE TypeInv
  OBVIOUS
<1>1. pos = 1 /\ open = <<>> /\ result = Pending /\ delivered = Undecided
  BY DEF Init
<1>2. IsValue(Pending)
  BY DEF Pending, IsValue, TextValue
<1> QED
  BY <1>1, <1>2, BufferType, EmptyTypes DEF TypeInv

LEMMA TypeStep == TypeInv /\ [Next]_vars => TypeInv'
<1> SUFFICES ASSUME TypeInv, [Next]_vars PROVE TypeInv'
  OBVIOUS
<1>1. /\ buffer \in Seq(Symbol) /\ pos \in Nat \ {0}
      /\ IsStack(open) /\ IsValue(result)
      /\ (way # "handshake" /\ delivered \notin {Undecided, Refused}) => IsMessage(delivered)
  BY DEF TypeInv
<1>2. CASE Decode
  <2>1. DecodeNext /\ UNCHANGED <<sent, way, delivered>>
    BY <1>2 DEF Decode
  <2>2. /\ buffer' = buffer /\ pos' \in Nat \ {0} /\ IsStack(open') /\ IsValue(result')
    BY <1>1, <2>1, DecodeNextType
  <2> QED
    BY <1>1, <2>1, <2>2 DEF TypeInv
<1>3. CASE DecodeBep10Message
  <2>1. /\ UNCHANGED <<decodeVars, sent, way>>
        /\ delivered' = IF result = Thrown THEN Refused ELSE DecodeMessage(result)
    BY <1>3 DEF DecodeBep10Message
  <2>2. delivered' = Refused \/ IsMessage(delivered')
    BY <1>1, <2>1, DecodeMessageType
  <2> QED
    BY <1>1, <2>1, <2>2 DEF TypeInv, decodeVars
<1>4. CASE OnHandshake
  <2>1. way = "handshake" /\ UNCHANGED <<decodeVars, sent, way>>
    BY <1>4 DEF OnHandshake
  <2> QED
    BY <1>1, <2>1 DEF TypeInv, decodeVars
<1>5. CASE UNCHANGED vars
  BY <1>1, <1>5 DEF TypeInv, vars, decodeVars
<1> QED
  BY <1>2, <1>3, <1>4, <1>5 DEF Next
-----------------------------------------------------------------------------
(* Whatever a peer sends - a message, a part of one, one with a changed      *)
(* symbol, or symbols that never were a message - decode never looks before  *)
(* the buffer, its keys are strings, and what the session methods get is a   *)
(* message with all the fields of its type.                                  *)
THEOREM CodecTypeCorrect == Spec => []TypeOK
<1>1. TypeInv => TypeOK
  BY DEF TypeInv, TypeOK, IsStack, IsOpen
<1> QED
  BY <1>1, TypeInit, TypeStep, PTL DEF Spec
-----------------------------------------------------------------------------
(* --- one changed symbol --- *)

FieldNames == {"type"} \cup UNION {DOMAIN Fields[t] : t \in MessageTypes}
Coding == Digits \cup {":"}

LEMMA WordFacts ==
  /\ FieldNames \subseteq Words /\ MessageTypes \subseteq Words
  /\ FieldNames \cap MessageTypes = {}
  /\ \A w \in Words : /\ w \notin ToSet(HexDigit) /\ w \notin Coding
                      /\ w \notin {"d", "e", "object"}
<1> DEFINE S == {"0", "1", "2", "3", "4", "5", "6", "7", "8", "9",
                 "a", "b", "c", "d", "e", "f"}
<1>1. ToSet(HexDigit) \subseteq S /\ Digits \subseteq ToSet(HexDigit)
  BY HexValues
<1>2. MessageTypes \cap (S \cup {":", "object", "type"}) = {}
  BY DEF MessageTypes, Fields
<1>3. \A t \in MessageTypes : DOMAIN Fields[t] \cap (S \cup {":", "object"}) = {}
  BY DEF MessageTypes, Fields
<1>4. \A t \in MessageTypes : DOMAIN Fields[t] \cap MessageTypes = {}
  BY DEF MessageTypes, Fields
<1>5. FieldNames \subseteq Words /\ MessageTypes \subseteq Words
  BY DEF FieldNames, Words
<1>6. FieldNames \cap MessageTypes = {}
  BY <1>2, <1>4 DEF FieldNames
<1>7. \A w \in Words : w \notin S \cup {":", "object"}
  BY <1>2, <1>3 DEF Words
<1> QED
  BY <1>1, <1>5, <1>6, <1>7 DEF Coding

(* A dictionary as an altered message of type t has it: its keys are names   *)
(* of fields, its values are hex or decimal, or the type.                    *)
Plain(e, t) ==
  /\ e \in Seq(FieldEntries) /\ t \in MessageTypes
  /\ \A i \in 1 .. Len(e) :
       /\ \E w \in FieldNames : e[i][1] = <<w>>
       /\ \E s \in Seq(Symbol) : /\ e[i][2] = Text(s)
                                 /\ \A j \in 1 .. Len(s) : s[j] \in ToSet(HexDigit) \cup {t}
  /\ \A i, j \in 1 .. Len(e) : e[i][1] = e[j][1] => i = j

LEMMA PlainMessage ==
  ASSUME NEW m \in Altered
  PROVE  LET e == Sorted(MessageEntries(m))
             fields == Fields[m.type]
         IN  /\ Plain(e, m.type)
             /\ \A i \in 1 .. Len(e) : e[i][1] = <<"type">> => e[i][2] = Text(<<m.type>>)
             /\ \A f \in DOMAIN fields : \E i \in 1 .. Len(e) :
                  e[i] = <<<<f>>, EncodeField(fields[f], m[f])>>
<1> DEFINE d == MessageEntries(m)
           e == Sorted(d)
           t == m.type
           fields == Fields[t]
           Content == ToSet(HexDigit) \cup {t}
<1>1. /\ IsMessage(m) /\ t \in MessageTypes
      /\ \A f \in DOMAIN fields : fields[f] # "text"
  BY SentAssumption DEF IsMessage
<1>2. /\ Dictionary(d)
      /\ \A i \in 1 .. Len(d) :
           \/ d[i] = <<<<"type">>, Text(<<t>>)>>
           \/ \E f \in DOMAIN fields : d[i] = <<<<f>>, EncodeField(fields[f], m[f])>>
      /\ \A f \in DOMAIN fields : \E i \in 1 .. Len(d) :
           d[i] = <<<<f>>, EncodeField(fields[f], m[f])>>
  BY <1>1, MessageDictionary
<1>3. /\ t \in Symbol /\ "type" \notin DOMAIN fields
      /\ \A f \in DOMAIN fields : f \in FieldNames /\ fields[f] \in {"hex", "amount", "text"}
  BY <1>1, FieldKinds DEF FieldNames
<1> HIDE DEF d
<1>4. /\ e \in Seq(FieldEntries) /\ Len(e) = Len(d) /\ Len(d) \in Nat
      /\ \A r \in 1 .. Len(d) : \E i \in 1 .. Len(d) : e[r] = d[i]
      /\ \A i \in 1 .. Len(d) : \E r \in 1 .. Len(d) : e[r] = d[i]
      /\ \A r, q \in 1 .. Len(d) : e[r][1] = e[q][1] => r = q
  BY <1>2, SortedDictionary
<1> HIDE DEF e
<1>5. ASSUME NEW f \in DOMAIN fields
      PROVE  \E s \in Seq(Symbol) : /\ EncodeField(fields[f], m[f]) = Text(s)
                                    /\ \A j \in 1 .. Len(s) : s[j] \in Content
  <2>1. PICK s \in Seq(Symbol) : /\ EncodeField(fields[f], m[f]) = Text(s)
                                 /\ fields[f] = "hex" => IsHex(s)
                                 /\ fields[f] = "amount" => IsBigInt(s)
    BY <1>1, FieldRoundTrip
  <2>2. ToSet(s) \subseteq ToSet(HexDigit)
    <3>1. IsHex(s) \/ IsBigInt(s)
      BY <1>1, <1>3, <2>1
    <3> QED
      BY <3>1, HexValues DEF IsHex, IsBigInt
  <2>3. \A j \in 1 .. Len(s) : s[j] \in ToSet(s)
    BY DEF ToSet
  <2> QED
    BY <2>1, <2>2, <2>3
<1>6. ASSUME NEW r \in 1 .. Len(e)
      PROVE  \/ e[r] = <<<<"type">>, Text(<<t>>)>>
             \/ \E f \in DOMAIN fields : e[r] = <<<<f>>, EncodeField(fields[f], m[f])>>
  <2>1. PICK i \in 1 .. Len(d) : e[r] = d[i]
    BY <1>4
  <2>2. \/ d[i] = <<<<"type">>, Text(<<t>>)>>
        \/ \E f \in DOMAIN fields : d[i] = <<<<f>>, EncodeField(fields[f], m[f])>>
    BY <1>2
  <2> HIDE DEF fields, t
  <2> QED
    BY <2>1, <2>2
<1>7. ASSUME NEW r \in 1 .. Len(e)
      PROVE  /\ \E w \in FieldNames : e[r][1] = <<w>>
             /\ \E s \in Seq(Symbol) : /\ e[r][2] = Text(s)
                                       /\ \A j \in 1 .. Len(s) : s[j] \in Content
  <2>1. CASE e[r] = <<<<"type">>, Text(<<t>>)>>
    <3>1. "type" \in FieldNames
      BY DEF FieldNames
    <3> DEFINE s == <<t>>
    <3>2. s \in Seq(Symbol) /\ \A j \in 1 .. Len(s) : s[j] \in Content
      BY <1>3
    <3>3. e[r][1] = <<"type">> /\ e[r][2] = Text(s)
      BY <2>1
    <3> HIDE DEF s
    <3> QED
      BY <3>1, <3>2, <3>3
  <2>2. ASSUME NEW f \in DOMAIN fields, e[r] = <<<<f>>, EncodeField(fields[f], m[f])>>
        PROVE  /\ \E w \in FieldNames : e[r][1] = <<w>>
               /\ \E s \in Seq(Symbol) : /\ e[r][2] = Text(s)
                                         /\ \A j \in 1 .. Len(s) : s[j] \in Content
    <3>1. e[r][1] = <<f>> /\ e[r][2] = EncodeField(fields[f], m[f]) /\ f \in FieldNames
      BY <1>3, <2>2
    <3> HIDE DEF Content, fields
    <3> QED
      BY <1>5, <3>1
  <2> QED
    BY <1>6, <2>1, <2>2
<1>8. ASSUME NEW r \in 1 .. Len(e), e[r][1] = <<"type">> PROVE e[r][2] = Text(<<t>>)
  <2>1. ASSUME NEW f \in DOMAIN fields, e[r] = <<<<f>>, EncodeField(fields[f], m[f])>>
        PROVE  FALSE
    <3>1. e[r][1] = <<f>>
      BY <2>1
    <3>2. f = "type"
      BY <1>8, <3>1
    <3> QED
      BY <1>3, <3>2
  <2>2. e[r] = <<<<"type">>, Text(<<t>>)>>
    BY <1>6, <2>1
  <2> QED
    BY <2>2
<1>9. ASSUME NEW f \in DOMAIN fields
      PROVE  \E i \in 1 .. Len(e) : e[i] = <<<<f>>, EncodeField(fields[f], m[f])>>
  <2>1. PICK i \in 1 .. Len(d) : d[i] = <<<<f>>, EncodeField(fields[f], m[f])>>
    BY <1>2
  <2>2. PICK r \in 1 .. Len(d) : e[r] = d[i]
    BY <1>4
  <2> HIDE DEF fields
  <2> QED
    BY <1>4, <2>1, <2>2
<1> QED
  BY <1>1, <1>4, <1>7, <1>8, <1>9 DEF Plain, e, d

(* Entries stand one after the other, each key before its value. *)
LEMMA StartOrder ==
  ASSUME NEW e \in Seq(FieldEntries)
  PROVE  /\ \A i \in 1 .. Len(e) : /\ Start(e, i) \in Nat /\ ValueStart(e, i) \in Nat
                                   /\ Start(e, i + 1) \in Nat
                                   /\ Start(e, i) + 1 < ValueStart(e, i)
                                   /\ ValueStart(e, i) <= Start(e, i + 1)
         /\ \A i, k \in 1 .. Len(e) + 1 : i <= k => Start(e, i) <= Start(e, k)
<1> DEFINE n == Len(e)
<1>1. /\ \A i \in 1 .. n + 1 : Start(e, i) \in 2 .. Len(Encoded(e))
      /\ \A i \in 1 .. n : /\ e[i][1] \in Seq(Symbol) /\ e[i][2] \in FieldValues
                           /\ Start(e, i + 1) = ValueStart(e, i) + Len(EncodeFlat(e[i][2]))
  BY DictLayout
<1>2. n \in Nat
  OBVIOUS
<1> HIDE DEF n
<1>3. \A i \in 1 .. n + 1 : Start(e, i) \in Nat
  BY <1>1
<1>4. ASSUME NEW i \in 1 .. n
      PROVE  /\ Start(e, i) \in Nat /\ ValueStart(e, i) \in Nat /\ Start(e, i + 1) \in Nat
             /\ Start(e, i) + 1 < ValueStart(e, i) /\ ValueStart(e, i) <= Start(e, i + 1)
  <2> DEFINE l == Len(EncodeString(e[i][1]))
             k == Len(EncodeFlat(e[i][2]))
  <2>1. i \in 1 .. n + 1 /\ i + 1 \in 1 .. n + 1
    BY <1>2
  <2>2. l \in Nat /\ l >= 2
    <3> DEFINE s == e[i][1]
               d == Len(DecimalText[Len(s)])
    <3>0. s \in Seq(Symbol)
      BY <1>1
    <3> HIDE DEF s
    <3>1. l = d + 1 + Len(s) /\ d \in Nat \ {0} /\ Len(s) \in Nat
      BY <3>0, StringType DEF s
    <3> HIDE DEF d, l
    <3> QED
      BY <3>1
  <2>3. k \in Nat
    <3>1. EncodeFlat(e[i][2]) \in Seq(Symbol)
      BY <1>1, FieldType
    <3> QED
      BY <3>1
  <2>4. ValueStart(e, i) = Start(e, i) + l /\ Start(e, i + 1) = ValueStart(e, i) + k
    BY <1>1 DEF ValueStart
  <2> HIDE DEF l, k
  <2> QED
    BY <1>3, <2>1, <2>2, <2>3, <2>4
<1>5. ASSUME NEW i \in 1 .. n + 1, NEW k \in 1 .. n + 1, i <= k
      PROVE  Start(e, i) <= Start(e, k)
  <2> DEFINE S == {d \in Nat : i + d <= n + 1 => Start(e, i) <= Start(e, i + d)}
  <2>1. 0 \in S
    <3>1. i + 0 = i /\ Start(e, i) <= Start(e, i)
      BY <1>3
    <3> QED
      BY <3>1
  <2>2. ASSUME NEW d \in Nat, d \in S PROVE d + 1 \in S
    <3>1. CASE i + (d + 1) <= n + 1
      <4> DEFINE j == i + d
      <4>1. j \in 1 .. n /\ j + 1 = i + (d + 1)
        BY <1>2, <3>1
      <4>2. Start(e, i) <= Start(e, j)
        BY <1>2, <2>2, <4>1
      <4> HIDE DEF j
      <4>3. Start(e, i) <= Start(e, j + 1)
        BY <1>3, <1>4, <4>1, <4>2
      <4> QED
        BY <4>1, <4>3
    <3> QED
      BY <3>1
  <2>3. \A d \in Nat : d \in S => d + 1 \in S
    BY <2>2
  <2> HIDE DEF S
  <2>4. Nat \subseteq S
    BY <2>1, <2>3, Induction
  <2> DEFINE d == k - i
  <2>5. d \in Nat /\ i + d = k
    BY <1>2, <1>5
  <2> HIDE DEF d
  <2>6. i + d <= n + 1 => Start(e, i) <= Start(e, i + d)
    BY <2>4, <2>5 DEF S
  <2>7. k <= n + 1
    BY <1>2
  <2> QED
    BY <2>5, <2>6, <2>7
<1> QED
  BY <1>4, <1>5 DEF n

(* Whether the changed symbol stands in the value of the i-th entry. *)
Inside(e, q, i) == ValueStart(e, i) <= q /\ q < Start(e, i + 1)

LEMMA InsideOne ==
  ASSUME NEW e \in Seq(FieldEntries), NEW q \in Nat,
         NEW i \in 1 .. Len(e), NEW k \in 1 .. Len(e), Inside(e, q, i), Inside(e, q, k)
  PROVE  i = k
<1>1. ASSUME NEW a \in 1 .. Len(e), NEW b \in 1 .. Len(e), a < b,
             Inside(e, q, a), Inside(e, q, b)
      PROVE  FALSE
  <2>1. a + 1 \in 1 .. Len(e) + 1 /\ b \in 1 .. Len(e) + 1 /\ a + 1 <= b
    BY <1>1
  <2>2. Start(e, a + 1) <= Start(e, b)
    BY <2>1, StartOrder
  <2>3. /\ Start(e, a + 1) \in Nat /\ Start(e, b) \in Nat /\ ValueStart(e, b) \in Nat
        /\ Start(e, b) + 1 < ValueStart(e, b)
    BY StartOrder
  <2>4. q < Start(e, a + 1) /\ ValueStart(e, b) <= q
    BY <1>1 DEF Inside
  <2> QED
    BY <2>2, <2>3, <2>4
<1>2. ~(i < k) /\ ~(k < i)
  BY <1>1
<1> QED
  BY <1>2

(* Every symbol between the first and the last belongs to an entry. *)
LEMMA Between ==
  ASSUME NEW e \in Seq(FieldEntries), NEW p \in 2 .. Len(Encoded(e)) - 1
  PROVE  \E i \in 1 .. Len(e) : Start(e, i) <= p /\ p < Start(e, i + 1)
<1> DEFINE n == Len(e)
           S == {i \in 1 .. n + 1 : Start(e, i) <= p}
<1>1. /\ Start(e, 1) = 2 /\ Start(e, n + 1) = Len(Encoded(e))
      /\ \A i \in 1 .. n + 1 : Start(e, i) \in 2 .. Len(Encoded(e))
      /\ Encoded(e) \in Seq(Symbol)
  BY DictLayout
<1>2. n \in Nat /\ Len(Encoded(e)) \in Nat
  BY <1>1
<1> HIDE DEF n
<1>3. 1 \in S /\ n + 1 \notin S
  BY <1>1, <1>2
<1>4. S \subseteq 1 .. n + 1 /\ S # {} /\ n + 1 \in Nat
  BY <1>2, <1>3
<1> DEFINE i == Max(S)
<1>5. i \in S /\ \A y \in S : y <= i
  <2> HIDE DEF S
  <2> QED
    BY <1>4, MaxOf
<1> HIDE DEF i
<1>6. i \in 1 .. n /\ i + 1 \in 1 .. n + 1 /\ ~(i + 1 <= i)
  BY <1>2, <1>3, <1>5
<1>7. i + 1 \notin S
  BY <1>5, <1>6
<1>8. Start(e, i) <= p /\ p < Start(e, i + 1)
  BY <1>1, <1>5, <1>6, <1>7
<1> QED
  BY <1>6, <1>8 DEF n

(* The symbol at x is of the length or of the content of a string at p. *)
OfString(b, p, s, x) ==
  \/ b[x] \in Coding
  \/ \E j \in 1 .. Len(s) :
       b[x] = s[j] /\ x = p + Len(EncodeString(s)) - Len(s) - 1 + j

LEMMA StringSymbols ==
  ASSUME NEW b \in Seq(Symbol), NEW p \in Nat \ {0}, NEW s \in Seq(Symbol),
         Holds(b, p, EncodeString(s)), NEW x \in Nat,
         p <= x, x < p + Len(EncodeString(s))
  PROVE  OfString(b, p, s, x)
<1> SUFFICES \/ b[x] \in Coding
             \/ \E j \in 1 .. Len(s) :
                  b[x] = s[j] /\ x = p + Len(EncodeString(s)) - Len(s) - 1 + j
  BY DEF OfString
<1> DEFINE d == DecimalText[Len(s)]
           colon == <<":">>
           dc == d \o colon
           code == EncodeString(s)
<1>1. /\ d \in Seq(Digits) /\ d \in Seq(Symbol) /\ Len(d) \in Nat \ {0} /\ Len(s) \in Nat
      /\ dc \in Seq(Symbol) /\ colon \in Seq(Symbol)
      /\ code = dc \o s /\ Len(code) = Len(d) + 1 + Len(s) /\ code \in Seq(Symbol)
  BY StringType
<1>2. Holds(b, p, code) /\ p <= x /\ x < p + Len(code) /\ dc = d \o colon
      /\ Len(colon) = 1 /\ colon[1] = ":"
  OBVIOUS
<1> HIDE DEF d, colon, dc, code
<1>3. /\ Len(dc) = Len(d) + 1
      /\ \A j \in 1 .. Len(d) : dc[j] = d[j]
      /\ dc[Len(d) + 1] = ":"
  <2>1. /\ Len(dc) = Len(d) + Len(colon)
        /\ \A j \in 1 .. Len(d) : dc[j] = d[j]
        /\ \A j \in 1 .. Len(colon) : dc[Len(d) + j] = colon[j]
    <3>1. d \in Seq(Symbol) /\ colon \in Seq(Symbol) /\ dc = d \o colon
      BY <1>1, <1>2
    <3> QED
      BY <3>1, ConcatParts
  <2>2. 1 \in 1 .. 1
    OBVIOUS
  <2> QED
    BY <1>2, <2>1, <2>2
<1>4. /\ \A j \in 1 .. Len(dc) : code[j] = dc[j]
      /\ \A j \in 1 .. Len(s) : code[Len(dc) + j] = s[j]
  <2>1. dc \in Seq(Symbol) /\ s \in Seq(Symbol) /\ code = dc \o s
    BY <1>1
  <2> QED
    BY <2>1, ConcatParts
<1> DEFINE y == x - p + 1
<1>5. y \in 1 .. Len(code) /\ p - 1 + y = x
  BY <1>1, <1>2
<1>6. b[x] = code[y]
  BY <1>2, <1>5 DEF Holds
<1> HIDE DEF y
<1>7. CASE y <= Len(d)
  <2>1. y \in 1 .. Len(d) /\ y \in 1 .. Len(dc)
    BY <1>1, <1>3, <1>5, <1>7
  <2>2. b[x] = d[y]
    BY <1>3, <1>4, <1>6, <2>1
  <2>3. d[y] \in Digits
    BY <1>1, <2>1
  <2> QED
    BY <2>2, <2>3 DEF Coding
<1>8. CASE y = Len(d) + 1
  <2>1. y \in 1 .. Len(dc)
    BY <1>1, <1>3, <1>5, <1>8
  <2>2. b[x] = ":"
    BY <1>3, <1>4, <1>6, <1>8, <2>1
  <2> QED
    BY <2>2 DEF Coding
<1>9. CASE y > Len(d) + 1
  <2> DEFINE j == y - (Len(d) + 1)
  <2> DEFINE w == Len(d)
             l == Len(s)
             k == Len(code)
  <2>3. /\ w \in Nat \ {0} /\ l \in Nat /\ k = w + 1 + l /\ y \in 1 .. k
        /\ p - 1 + y = x /\ Len(dc) = w + 1 /\ j = y - (w + 1) /\ y > w + 1
    BY <1>1, <1>3, <1>5, <1>9
  <2> HIDE DEF w, l, k, j
  <2>4. j \in 1 .. l /\ Len(dc) + j = y /\ x = p + k - l - 1 + j
    BY <2>3
  <2>1. j \in 1 .. Len(s) /\ Len(dc) + j = y /\ x = p + Len(code) - Len(s) - 1 + j
    BY <2>4 DEF l, k
  <2> HIDE DEF j
  <2>2. b[x] = s[j]
    BY <1>4, <1>6, <2>1
  <2> QED
    BY <2>1, <2>2 DEF code
<1> QED
  BY <1>1, <1>5, <1>7, <1>8, <1>9

LEMMA KeyCode ==
  ASSUME NEW w, <<w>> \in Seq(Symbol)
  PROVE  LET c == EncodeString(<<w>>)
         IN  c \in Seq(Symbol) /\ Len(c) = 3 /\ c[1] = Digit[2] /\ c[2] = ":" /\ c[3] = w
<1> DEFINE s == <<w>>
           d == DecimalText[1]
           colon == <<":">>
           dc == d \o colon
           c == EncodeString(s)
<1>1. Len(s) = 1 /\ s[1] = w /\ s \in Seq(Symbol)
  OBVIOUS
<1>2. d = <<Digit[2]>>
  <2>1. 1 \in Nat /\ 1 < 10 /\ 1 + 1 = 2
    OBVIOUS
  <2>2. d = <<Digit[1 + 1]>>
    BY <2>1, DecimalTextDef
  <2> QED
    BY <2>1, <2>2
<1>3. Len(d) = 1 /\ d[1] = Digit[2]
  BY <1>2
<1>4. colon \in Seq(Symbol) /\ Len(colon) = 1 /\ colon[1] = ":" /\ dc = d \o colon
  BY BencodeAssumption
<1>5. d \in Seq(Symbol) /\ dc \in Seq(Symbol) /\ c = dc \o s /\ c \in Seq(Symbol)
  <2> HIDE DEF s
  <2>1. LET x == DecimalText[Len(s)]
        IN  /\ x \in Seq(Symbol) /\ x \o <<":">> \in Seq(Symbol)
            /\ EncodeString(s) \in Seq(Symbol) /\ EncodeString(s) = (x \o <<":">>) \o s
    BY <1>1, StringType
  <2>2. DecimalText[Len(s)] = d
    BY <1>1
  <2> QED
    BY <2>1, <2>2
<1> HIDE DEF s, d, colon, dc, c
<1>6. /\ Len(dc) = Len(d) + Len(colon)
      /\ \A j \in 1 .. Len(d) : dc[j] = d[j]
      /\ \A j \in 1 .. Len(colon) : dc[Len(d) + j] = colon[j]
  <2>1. d \in Seq(Symbol) /\ colon \in Seq(Symbol) /\ dc = d \o colon
    BY <1>4, <1>5
  <2> QED
    BY <2>1, ConcatParts
<1>7. /\ Len(c) = Len(dc) + Len(s)
      /\ \A j \in 1 .. Len(dc) : c[j] = dc[j]
      /\ \A j \in 1 .. Len(s) : c[Len(dc) + j] = s[j]
  <2>1. dc \in Seq(Symbol) /\ s \in Seq(Symbol) /\ c = dc \o s
    BY <1>1, <1>5
  <2> QED
    BY <2>1, ConcatParts
<1>8. 1 \in 1 .. 1 /\ 1 \in 1 .. 2 /\ 2 \in 1 .. 2 /\ 1 + 1 = 2 /\ 2 + 1 = 3
  OBVIOUS
<1>9. Len(dc) = 2 /\ dc[1] = Digit[2] /\ dc[2] = ":"
  BY <1>3, <1>4, <1>6, <1>8
<1>10. Len(c) = 3 /\ c[1] = Digit[2] /\ c[2] = ":" /\ c[3] = w
  BY <1>1, <1>7, <1>8, <1>9
<1> QED
  BY <1>5, <1>10 DEF c, s

LEMMA PlainEntry ==
  ASSUME NEW e, NEW t, Plain(e, t), NEW i \in 1 .. Len(e)
  PROVE  /\ e \in Seq(FieldEntries) /\ e[i][1] \in Seq(Symbol)
         /\ Start(e, i) \in Nat \ {0} /\ ValueStart(e, i) \in Nat \ {0}
         /\ Start(e, i + 1) \in Nat
         /\ \E w \in FieldNames : e[i][1] = <<w>> /\ <<w>> \in Seq(Symbol)
         /\ \E s \in Seq(Symbol) : /\ e[i][2] = Text(s) /\ EncodeFlat(e[i][2]) = EncodeString(s)
                                   /\ \A j \in 1 .. Len(s) : s[j] \in ToSet(HexDigit) \cup {t}
<1>1. e \in Seq(FieldEntries)
  BY DEF Plain
<1>2. i \in 1 .. Len(e) + 1 /\ Len(e) \in Nat
  BY <1>1
<1>3. /\ e[i][1] \in Seq(Symbol) /\ ValueStart(e, i) \in Nat \ {0}
      /\ Start(e, i) \in 2 .. Len(Encoded(e)) /\ Encoded(e) \in Seq(Symbol)
  BY <1>1, <1>2, DictLayout
<1>4. Start(e, i) \in Nat \ {0} /\ Start(e, i + 1) \in Nat
  BY <1>1, <1>3, StartOrder
<1>5. PICK w \in FieldNames : e[i][1] = <<w>>
  BY DEF Plain
<1>6. PICK s \in Seq(Symbol) : /\ e[i][2] = Text(s)
                               /\ \A j \in 1 .. Len(s) : s[j] \in ToSet(HexDigit) \cup {t}
  BY DEF Plain
<1>7. EncodeFlat(e[i][2]) = EncodeString(s)
  BY <1>6, FieldType
<1>8. \E x \in FieldNames : e[i][1] = <<x>> /\ <<x>> \in Seq(Symbol)
  BY <1>3, <1>5
<1> QED
  BY <1>1, <1>3, <1>4, <1>6, <1>7, <1>8

(* The words of an encoded message are its keys and its type. *)
LEMMA WordPlace ==
  ASSUME NEW e, NEW t, Plain(e, t),
         NEW p \in 1 .. Len(Encoded(e)), Encoded(e)[p] \in Words
  PROVE  \/ Encoded(e)[p] = t
         \/ \E i \in 1 .. Len(e) :
              e[i][1] = <<Encoded(e)[p]>> /\ p = ValueStart(e, i) - 1
<1> DEFINE full == Encoded(e)
           n == Len(e)
<1>0. e \in Seq(FieldEntries)
  BY DEF Plain
<1>1. /\ full \in Seq(Symbol) /\ full[1] = "d"
      /\ Start(e, n + 1) = Len(full) /\ full[Start(e, n + 1)] = "e"
      /\ \A i \in 1 .. n :
           /\ Holds(full, Start(e, i), EncodeString(e[i][1]))
           /\ Holds(full, ValueStart(e, i), EncodeFlat(e[i][2]))
           /\ Start(e, i + 1) = ValueStart(e, i) + Len(EncodeFlat(e[i][2]))
  BY <1>0, DictLayout
<1>2. /\ full[p] \notin ToSet(HexDigit) /\ full[p] \notin Coding
      /\ full[p] \notin {"d", "e"}
  BY WordFacts
<1>3. Len(full) \in Nat
  BY <1>1
<1>4. p \in 2 .. Len(full) - 1
  BY <1>1, <1>2, <1>3
<1>5. PICK i \in 1 .. n : Start(e, i) <= p /\ p < Start(e, i + 1)
  BY <1>0, <1>4, Between
<1>6. /\ Start(e, i) \in Nat \ {0} /\ ValueStart(e, i) \in Nat \ {0}
      /\ p \in Nat /\ e[i][1] \in Seq(Symbol)
  BY PlainEntry
<1>7. PICK w \in FieldNames : e[i][1] = <<w>>
  BY DEF Plain
<1>8. PICK s \in Seq(Symbol) : /\ e[i][2] = Text(s)
                               /\ \A j \in 1 .. Len(s) : s[j] \in ToSet(HexDigit) \cup {t}
  BY DEF Plain
<1> HIDE DEF full, n
<1>9. CASE p < ValueStart(e, i)
  <2> DEFINE k == <<w>>
  <2>1. k \in Seq(Symbol) /\ Len(k) = 1 /\ k[1] = w /\ e[i][1] = k
    BY <1>6, <1>7
  <2> HIDE DEF k
  <2>2. Holds(full, Start(e, i), EncodeString(k))
        /\ ValueStart(e, i) = Start(e, i) + Len(EncodeString(k))
    BY <1>1, <2>1 DEF ValueStart
  <2>3. p < Start(e, i) + Len(EncodeString(k))
    BY <1>9, <2>2
  <2>4. PICK j \in 1 .. Len(k) :
          /\ full[p] = k[j]
          /\ p = Start(e, i) + Len(EncodeString(k)) - Len(k) - 1 + j
    <3>1. \/ full[p] \in Coding
          \/ \E j \in 1 .. Len(k) :
               /\ full[p] = k[j]
               /\ p = Start(e, i) + Len(EncodeString(k)) - Len(k) - 1 + j
      <4> DEFINE x == Start(e, i)
      <4>1. /\ full \in Seq(Symbol) /\ x \in Nat \ {0} /\ k \in Seq(Symbol)
            /\ Holds(full, x, EncodeString(k)) /\ p \in Nat /\ x <= p
            /\ p < x + Len(EncodeString(k))
        BY <1>1, <1>5, <1>6, <2>1, <2>2, <2>3
      <4> HIDE DEF x
      <4>2. OfString(full, x, k, p)
        BY <4>1, StringSymbols
      <4> QED
        BY <4>2 DEF x, OfString
    <3> QED
      BY <1>2, <3>1
  <2>5. j = 1
    BY <2>1
  <2>6. p = ValueStart(e, i) - 1 /\ full[p] = w
    <3> DEFINE v == ValueStart(e, i)
               b == Start(e, i)
               c == Len(EncodeString(k))
    <3>1. v = b + c /\ p = b + c - Len(k) - 1 + j /\ b \in Nat /\ v \in Nat
      BY <1>6, <2>2, <2>4
    <3>3. c \in Nat
      BY <2>1, StringType
    <3> HIDE DEF v, b, c
    <3>2. p = v - 1
      BY <2>1, <2>5, <3>1, <3>3
    <3> QED
      BY <2>1, <2>4, <2>5, <3>2 DEF v
  <2>7. e[i][1] = <<full[p]>>
    BY <1>7, <2>6
  <2> QED
    BY <2>6, <2>7 DEF full, n
<1>10. CASE ~(p < ValueStart(e, i))
  <2>1. EncodeFlat(e[i][2]) = EncodeString(s)
    BY <1>8, FieldType
  <2>2. /\ Holds(full, ValueStart(e, i), EncodeString(s))
        /\ Start(e, i + 1) = ValueStart(e, i) + Len(EncodeString(s))
    BY <1>1, <2>1
  <2>3. ValueStart(e, i) <= p /\ p < ValueStart(e, i) + Len(EncodeString(s))
    BY <1>5, <1>6, <1>10, <2>2
  <2>4. PICK j \in 1 .. Len(s) : full[p] = s[j]
    <3>1. \/ full[p] \in Coding
          \/ \E j \in 1 .. Len(s) :
               /\ full[p] = s[j]
               /\ p = ValueStart(e, i) + Len(EncodeString(s)) - Len(s) - 1 + j
      <4> DEFINE x == ValueStart(e, i)
      <4>1. /\ full \in Seq(Symbol) /\ x \in Nat \ {0} /\ s \in Seq(Symbol)
            /\ Holds(full, x, EncodeString(s)) /\ p \in Nat /\ x <= p
            /\ p < x + Len(EncodeString(s))
        BY <1>1, <1>6, <2>2, <2>3
      <4> HIDE DEF x
      <4>2. OfString(full, x, s, p)
        BY <4>1, StringSymbols
      <4> QED
        BY <4>2 DEF x, OfString
    <3> QED
      BY <1>2, <3>1
  <2>5. full[p] = t
    BY <1>2, <1>8, <2>4
  <2> QED
    BY <2>5 DEF full
<1> QED
  BY <1>9, <1>10

(* What stands around a key. *)
LEMMA AroundKey ==
  ASSUME NEW e, NEW t, Plain(e, t), NEW i \in 1 .. Len(e)
  PROVE  LET v == ValueStart(e, i)
             full == Encoded(e)
         IN  /\ v \in Nat /\ v > 3 /\ v <= Len(full)
             /\ full[v - 2] = ":" /\ full[v] \in Digits
<1> DEFINE full == Encoded(e)
           v == ValueStart(e, i)
           b == Start(e, i)
<1>0. e \in Seq(FieldEntries)
  BY DEF Plain
<1>1. /\ full \in Seq(Symbol)
      /\ Holds(full, b, EncodeString(e[i][1]))
      /\ Holds(full, v, EncodeFlat(e[i][2]))
  BY <1>0, DictLayout
<1>2. PICK w \in FieldNames : e[i][1] = <<w>> /\ <<w>> \in Seq(Symbol)
  BY PlainEntry
<1>3. PICK s \in Seq(Symbol) : e[i][2] = Text(s) /\ EncodeFlat(e[i][2]) = EncodeString(s)
  BY PlainEntry
<1>4. <<w>> \in Seq(Symbol)
  BY <1>2
<1> DEFINE c == EncodeString(<<w>>)
<1>5. Len(c) = 3 /\ c[2] = ":"
  BY <1>4, KeyCode
<1>6. v = b + Len(c) /\ Holds(full, b, c)
  BY <1>1, <1>2 DEF ValueStart
<1>7. b \in Nat \ {0} /\ v \in Nat
  BY PlainEntry
<1> HIDE DEF b, v, c, full
<1>8. v = b + 3 /\ v > 3 /\ b - 1 + 2 = v - 2 /\ 2 \in 1 .. Len(c)
  BY <1>5, <1>6, <1>7
<1>9. full[v - 2] = ":"
  BY <1>5, <1>6, <1>8 DEF Holds
<1>10. Holds(full, v, EncodeString(s))
  BY <1>1, <1>3 DEF full, v
<1>11. full[v] \in Digits /\ v <= Len(full)
  <2> DEFINE d == DecimalText[Len(s)]
             colon == <<":">>
             dc == d \o colon
             code == EncodeString(s)
  <2>1. /\ d \in Seq(Digits) /\ d \in Seq(Symbol) /\ Len(d) \in Nat \ {0} /\ Len(s) \in Nat
        /\ dc \in Seq(Symbol) /\ colon \in Seq(Symbol)
        /\ code = dc \o s /\ Len(code) = Len(d) + 1 + Len(s) /\ dc = d \o colon
    BY StringType
  <2>2. Holds(full, v, code)
    BY <1>10
  <2> HIDE DEF d, colon, dc, code
  <2>3. \A j \in 1 .. Len(d) : dc[j] = d[j]
    <3>1. d \in Seq(Symbol) /\ colon \in Seq(Symbol) /\ dc = d \o colon
      BY <2>1
    <3> QED
      BY <3>1, ConcatParts
  <2>4. Len(dc) = Len(d) + Len(colon) /\ Len(colon) \in Nat
    <3>1. d \in Seq(Symbol) /\ colon \in Seq(Symbol) /\ dc = d \o colon
      BY <2>1
    <3> QED
      BY <3>1, ConcatParts
  <2>5. \A j \in 1 .. Len(dc) : code[j] = dc[j]
    <3>1. dc \in Seq(Symbol) /\ s \in Seq(Symbol) /\ code = dc \o s
      BY <2>1
    <3> QED
      BY <3>1, ConcatParts
  <2>6. 1 \in 1 .. Len(d) /\ 1 \in 1 .. Len(dc) /\ 1 \in 1 .. Len(code)
    BY <2>1, <2>4
  <2>7. code[1] = d[1] /\ d[1] \in Digits
    BY <2>1, <2>3, <2>5, <2>6
  <2>8. v - 1 + 1 = v /\ Len(full) \in Nat /\ Len(code) \in Nat
    BY <1>1, <1>7, <2>1 DEF full
  <2>9. full[v] = code[1]
    BY <2>2, <2>6, <2>8 DEF Holds
  <2>10. v - 1 + Len(code) <= Len(full)
    BY <2>2 DEF Holds
  <2>11. v <= Len(full)
    BY <1>7, <2>6, <2>8, <2>10
  <2> QED
    BY <2>7, <2>9, <2>11
<1> QED
  BY <1>7, <1>8, <1>9, <1>11 DEF v, full

(* The buffer of these entries with the symbol at q changed. *)
OneChange(e, q, b) ==
  /\ b \in Seq(Symbol) /\ Len(b) = Len(Encoded(e)) /\ q \in 1 .. Len(b)
  /\ b[q] \notin Words
  /\ \A p \in 1 .. Len(b) : p # q => b[p] = Encoded(e)[p]

(* A value that names no other message type, and one that can only be a key  *)
(* where it was one.                                                         *)
Typed(t, v) == \A u \in MessageTypes : v = Text(<<u>>) => u = t
Fits(e, v, next) ==
  \A i \in 1 .. Len(e) : PropertyKey(v) = e[i][1] => next = ValueStart(e, i)

(* Decoded entries hold the values that were encoded under their keys, but   *)
(* for the value with the changed symbol.                                    *)
Keeps(e, q, t, k, v) ==
  /\ Typed(t, v)
  /\ \A i \in 1 .. Len(e) : k = e[i][1] /\ ~Inside(e, q, i) => v = e[i][2]
Kept(e, q, t, items) == \A j \in DOMAIN items : Keeps(e, q, t, items[j][1], items[j][2])

(* The dictionary waits for an unchanged value. *)
Waits(e, q, c, i) ==
  c.kind = "dict" /\ c.key # <<>> /\ c.key[1] = e[i][1] /\ ~Inside(e, q, i)

(* The outermost container, however deep the changed symbol made the others. *)
Outer(e, q, t, o, p) ==
  o # <<>> =>
    /\ o[1].kind = "dict" => Kept(e, q, t, o[1].items)
    /\ \A i \in 1 .. Len(e) : Waits(e, q, o[1], i) => Len(o) = 1 /\ p = ValueStart(e, i)

(* A word in the changed buffer stands where it stood. *)
LEMMA WordsStay ==
  ASSUME NEW e, NEW t, Plain(e, t), NEW q, NEW b, OneChange(e, q, b), NEW p \in 1 .. Len(b)
  PROVE  /\ \A i \in 1 .. Len(e) : e[i][1] = <<b[p]>> => p = ValueStart(e, i) - 1
         /\ b[p] \in MessageTypes => b[p] = t
<1>1. /\ Len(b) = Len(Encoded(e)) /\ b[q] \notin Words
      /\ p # q => b[p] = Encoded(e)[p]
  BY DEF OneChange
<1>2. t \in MessageTypes /\ \A i, j \in 1 .. Len(e) : e[i][1] = e[j][1] => i = j
  BY DEF Plain
<1>3. ASSUME b[p] \in Words
      PROVE  \/ b[p] = t
             \/ \E k \in 1 .. Len(e) : e[k][1] = <<b[p]>> /\ p = ValueStart(e, k) - 1
  <2>1. b[p] = Encoded(e)[p] /\ p \in 1 .. Len(Encoded(e)) /\ Encoded(e)[p] \in Words
    BY <1>1, <1>3
  <2>2. \/ Encoded(e)[p] = t
        \/ \E k \in 1 .. Len(e) :
             e[k][1] = <<Encoded(e)[p]>> /\ p = ValueStart(e, k) - 1
    BY <2>1, WordPlace
  <2> QED
    BY <2>1, <2>2
<1>4. ASSUME NEW i \in 1 .. Len(e), e[i][1] = <<b[p]>>
      PROVE  p = ValueStart(e, i) - 1
  <2>1. PICK w \in FieldNames : e[i][1] = <<w>>
    BY PlainEntry
  <2>2. b[p] = w
    BY <1>4, <2>1
  <2>3. b[p] \in Words /\ b[p] # t
    BY <1>2, <2>2, WordFacts
  <2>4. PICK k \in 1 .. Len(e) : e[k][1] = <<b[p]>> /\ p = ValueStart(e, k) - 1
    BY <1>3, <2>3
  <2>5. k = i
    BY <1>2, <1>4, <2>4
  <2> QED
    BY <2>4, <2>5
<1>5. ASSUME b[p] \in MessageTypes PROVE b[p] = t
  <2>1. b[p] \in Words
    BY <1>5, WordFacts
  <2>2. ASSUME NEW k \in 1 .. Len(e), e[k][1] = <<b[p]>> PROVE FALSE
    <3>1. PICK w \in FieldNames : e[k][1] = <<w>>
      BY PlainEntry
    <3>2. b[p] = w
      BY <2>2, <3>1
    <3> QED
      BY <1>5, <3>2, WordFacts
  <2> QED
    BY <1>3, <2>1, <2>2
<1> QED
  BY <1>4, <1>5

LEMMA SliceSymbols ==
  ASSUME buffer \in Seq(Symbol), NEW m \in Nat \ {0}, NEW n \in Int, n <= Len(buffer)
  PROVE  LET s == SubSeq(buffer, m, n)
         IN  /\ s \in Seq(Symbol) /\ Len(s) = IF m <= n THEN n - m + 1 ELSE 0
             /\ \A i \in 1 .. n - m + 1 : s[i] = buffer[m + i - 1]
<1>1. m \in Int /\ \A i \in m .. n : buffer[i] \in Symbol
  OBVIOUS
<1> QED
  BY <1>1, SubSeqProperties

LEMMA OneSymbolSlice ==
  ASSUME buffer \in Seq(Symbol), NEW m \in Nat \ {0}, NEW n \in Int, n <= Len(buffer),
         NEW w, SubSeq(buffer, m, n) = <<w>>
  PROVE  n = m /\ m \in 1 .. Len(buffer) /\ buffer[m] = w
<1> DEFINE s == SubSeq(buffer, m, n)
<1>1. /\ Len(s) = IF m <= n THEN n - m + 1 ELSE 0
      /\ \A i \in 1 .. n - m + 1 : s[i] = buffer[m + i - 1]
  BY SliceSymbols
<1>2. Len(s) = 1 /\ s[1] = w
  OBVIOUS
<1> DEFINE l == Len(s)
<1>3. l = 1 /\ l = IF m <= n THEN n - m + 1 ELSE 0
  BY <1>1, <1>2
<1> HIDE DEF s, l
<1>4. n = m
  BY <1>3
<1>5. 1 \in 1 .. n - m + 1 /\ m + 1 - 1 = m
  BY <1>4
<1>6. buffer[m] = w
  BY <1>1, <1>2, <1>5
<1> QED
  BY <1>4, <1>6

(* A slice of the changed buffer names no other type, and a key only where   *)
(* that key stood.                                                           *)
LEMMA SliceNames ==
  ASSUME NEW e, NEW t, Plain(e, t), NEW q, OneChange(e, q, buffer),
         NEW m \in Nat \ {0}, NEW n \in Int, n <= Len(buffer)
  PROVE  LET s == SubSeq(buffer, m, n)
         IN  /\ Typed(t, Text(s))
             /\ \A i \in 1 .. Len(e) :
                  s = e[i][1] => /\ n = m /\ m \in 1 .. Len(buffer)
                                 /\ m = ValueStart(e, i) - 1 /\ m < Len(buffer)
<1> DEFINE s == SubSeq(buffer, m, n)
<1>1. buffer \in Seq(Symbol) /\ Len(buffer) = Len(Encoded(e)) /\ Len(buffer) \in Nat
  BY DEF OneChange
<1>2. ASSUME NEW w, s = <<w>> PROVE n = m /\ m \in 1 .. Len(buffer) /\ buffer[m] = w
  BY <1>1, <1>2, OneSymbolSlice
<1> HIDE DEF s
<1>3. ASSUME NEW u \in MessageTypes, Text(s) = Text(<<u>>) PROVE u = t
  <2>1. s = <<u>>
    BY <1>3 DEF Text
  <2>2. m \in 1 .. Len(buffer) /\ buffer[m] = u
    BY <1>2, <2>1
  <2> QED
    BY <2>2, WordsStay
<1>4. ASSUME NEW i \in 1 .. Len(e), s = e[i][1]
      PROVE  /\ n = m /\ m \in 1 .. Len(buffer)
             /\ m = ValueStart(e, i) - 1 /\ m < Len(buffer)
  <2>1. PICK w \in FieldNames : e[i][1] = <<w>>
    BY PlainEntry
  <2>2. n = m /\ m \in 1 .. Len(buffer) /\ buffer[m] = w
    BY <1>2, <1>4, <2>1
  <2>3. e[i][1] = <<buffer[m]>>
    BY <2>1, <2>2
  <2>4. m = ValueStart(e, i) - 1
    BY <2>2, <2>3, WordsStay
  <2> DEFINE v == ValueStart(e, i)
  <2>5. v \in Nat /\ v <= Len(buffer)
    BY <1>1, AroundKey
  <2> HIDE DEF v
  <2>6. m = v - 1
    BY <2>4 DEF v
  <2>7. m < Len(buffer)
    BY <1>1, <2>5, <2>6
  <2> QED
    BY <2>2, <2>4, <2>7
<1> QED
  BY <1>3, <1>4 DEF Typed, s

LEMMA StringFits ==
  ASSUME NEW e, NEW t, Plain(e, t), NEW q, OneChange(e, q, buffer), pos \in Nat \ {0},
         DecodeString
  PROVE  \/ Throw
         \/ \E v, next : /\ ReturnValue(open, v, next) /\ IsValue(v) /\ v[1] # "dict"
                         /\ Typed(t, v) /\ Fits(e, v, next)
<1> DEFINE colon == IndexOf(":", pos)
           digits == SubSeq(buffer, pos, colon - 1)
           len == ParseInt(digits)
           l == Len(buffer)
           to == IF colon + len < l THEN colon + len ELSE l
           m == colon + 1
           text == SubSeq(buffer, m, to)
           next == colon + len + 1
           v == Text(text)
<1>1. buffer \in Seq(Symbol) /\ l \in Nat
  BY DEF OneChange
<1>2. colon = 0 \/ colon \in pos .. l
  BY <1>1, IndexType
<1>3. Throw \/ (colon # 0 /\ ReturnValue(open, v, next))
  BY DEF DecodeString
<1> HIDE DEF colon, l
<1>4. CASE colon # 0 /\ ReturnValue(open, v, next)
  <2>1. colon \in Nat \ {0} /\ m \in Nat \ {0} /\ colon - 1 \in Int /\ colon - 1 <= l
    BY <1>1, <1>2, <1>4
  <2>2. digits \in Seq(Symbol)
    BY <1>1, <2>1, SliceType DEF l
  <2> HIDE DEF digits
  <2>3. len \in Nat
    BY <2>2, ParseIntType
  <2> HIDE DEF len
  <2>4. to \in Int /\ to <= l
    BY <1>1, <2>1, <2>3
  <2>5. to = m /\ m < l => next = m + 1
    BY <1>1, <2>1, <2>3
  <2> HIDE DEF to, m
  <2>6. /\ Typed(t, v)
        /\ \A i \in 1 .. Len(e) :
             text = e[i][1] => to = m /\ m \in 1 .. l /\ m = ValueStart(e, i) - 1 /\ m < l
    BY <2>1, <2>4, SliceNames DEF l
  <2>7. text \in Seq(Symbol)
    BY <1>1, <2>1, <2>4, SliceType DEF l
  <2> HIDE DEF text, next
  <2>8. v[1] = "text" /\ v[2] = text
    BY DEF Text
  <2> HIDE DEF v
  <2>9. PropertyKey(v) = text /\ IsValue(v)
    BY <2>7, <2>8 DEF PropertyKey, IsValue, TextValue
  <2>10. ASSUME NEW i \in 1 .. Len(e), PropertyKey(v) = e[i][1]
         PROVE  next = ValueStart(e, i)
    <3>1. next = m + 1 /\ m = ValueStart(e, i) - 1
      BY <2>5, <2>6, <2>9, <2>10
    <3>2. ValueStart(e, i) \in Nat
      BY PlainEntry
    <3> QED
      BY <2>1, <3>1, <3>2
  <2>11. Fits(e, v, next)
    BY <2>10 DEF Fits
  <2>12. ReturnValue(open, v, next)
    BY <1>4
  <2> QED
    BY <2>6, <2>8, <2>9, <2>11, <2>12
<1> QED
  BY <1>3, <1>4

LEMMA IntegerFits ==
  ASSUME NEW e, NEW t, Plain(e, t), NEW q, OneChange(e, q, buffer), pos \in Nat \ {0},
         DecodeInteger
  PROVE  \/ Throw
         \/ \E v, next : /\ ReturnValue(open, v, next) /\ IsValue(v) /\ v[1] # "dict"
                         /\ Typed(t, v) /\ Fits(e, v, next)
<1> DEFINE l == Len(buffer)
           end == IndexOf("e", pos + 1)
           m == pos + 1
           n == end - 1
           text == SubSeq(buffer, m, n)
           v == IntegerValue(text)
           next == end + 1
<1>1. /\ buffer \in Seq(Symbol) /\ l \in Nat /\ l = Len(Encoded(e))
      /\ \A p \in 1 .. l : p # q => buffer[p] = Encoded(e)[p]
  BY DEF OneChange
<1>2. end = 0 \/ (end \in m .. l /\ buffer[end] = "e")
  <2>1. m \in Nat \ {0}
    OBVIOUS
  <2> QED
    BY <1>1, <2>1, IndexOfFirst
<1>3. Throw \/ (end # 0 /\ ReturnValue(open, v, next))
  BY DEF DecodeInteger
<1>4. ByteAt(pos) = "i"
  BY DEF DecodeInteger
<1> HIDE DEF end, l
<1>5. CASE end # 0 /\ ReturnValue(open, v, next)
  <2>1. m \in Nat \ {0} /\ n \in Int /\ n <= l /\ end \in Nat /\ end <= l
    BY <1>1, <1>2, <1>5
  <2>2. pos \in 1 .. l /\ end \in 1 .. l /\ buffer[pos] = "i" /\ buffer[end] = "e"
    BY <1>1, <1>2, <1>4, <1>5 DEF ByteAt, l
  <2>3. /\ Typed(t, Text(text))
        /\ \A i \in 1 .. Len(e) : text = e[i][1] => n = m /\ m = ValueStart(e, i) - 1
    BY <2>1, SliceNames DEF l
  <2>4. text \in Seq(Symbol)
    BY <1>1, <2>1, SliceType DEF l
  <2>5. ASSUME NEW i \in 1 .. Len(e), text = e[i][1] PROVE FALSE
    <3> DEFINE x == ValueStart(e, i)
               full == Encoded(e)
    <3>1. n = m /\ m = x - 1
      BY <2>3, <2>5
    <3>2. x \in Nat /\ x > 3 /\ x <= l /\ full[x - 2] = ":" /\ full[x] \in Digits
      BY <1>1, AroundKey
    <3>3. \A p \in 1 .. l : p # q => buffer[p] = full[p]
      BY <1>1
    <3> HIDE DEF x, full
    <3>4. pos = x - 2 /\ end = x
      BY <2>1, <3>1, <3>2
    <3>5. full[pos] = ":" /\ full[end] \in Digits /\ pos # end
      BY <3>2, <3>4
    <3>6. pos = q /\ end = q
      <4>1. "e" \notin Digits
        BY DigitValues
      <4>2. buffer[pos] # full[pos] /\ buffer[end] # full[end]
        BY <2>2, <3>5, <4>1
      <4> QED
        BY <2>2, <3>3, <4>2
    <3> QED
      BY <3>5, <3>6
  <2> HIDE DEF text, m, n
  <2>6. ParseInt(text) \in Nat
    BY <2>4, ParseIntType
  <2>7. v = Text(text) \/ (v = Number(ParseInt(text)) /\ DecimalText[ParseInt(text)] = text)
    BY DEF IntegerValue
  <2>8. ReturnValue(open, v, next)
    BY <1>5
  <2> HIDE DEF v
  <2>9. /\ PropertyKey(v) = text /\ IsValue(v) /\ v[1] \in {"text", "number"}
        /\ Typed(t, v)
    <3>1. CASE v = Text(text)
      <4>1. v[1] = "text" /\ v[2] = text
        BY <3>1 DEF Text
      <4> QED
        BY <2>3, <2>4, <3>1, <4>1 DEF PropertyKey, IsValue, TextValue
    <3>2. CASE v = Number(ParseInt(text)) /\ DecimalText[ParseInt(text)] = text
      <4>1. v[1] = "number" /\ v[2] = ParseInt(text)
        BY <3>2 DEF Number
      <4>2. \A u \in MessageTypes : v # Text(<<u>>)
        BY <4>1 DEF Text
      <4> QED
        BY <2>6, <3>2, <4>1, <4>2 DEF PropertyKey, IsValue, TextValue, Typed
    <3> QED
      BY <2>7, <3>1, <3>2
  <2>10. Fits(e, v, next)
    BY <2>5, <2>9 DEF Fits
  <2> QED
    BY <2>8, <2>9, <2>10
<1> QED
  BY <1>3, <1>5

LEMMA KeptAppend ==
  ASSUME NEW e, NEW q, NEW t, NEW items, IsItems(items), Kept(e, q, t, items),
         NEW k, NEW v, Keeps(e, q, t, k, v)
  PROVE  Kept(e, q, t, Append(items, <<k, v>>))
<1> DEFINE x == <<k, v>>
           a == Append(items, x)
<1>1. x[1] = k /\ x[2] = v
  OBVIOUS
<1>2. a = Append(items, x) /\ IsSequence(items)
  BY DEF IsItems
<1> HIDE DEF x, a
<1>3. /\ Len(items) \in Nat
      /\ DOMAIN a = 1 .. Len(items) + 1 /\ DOMAIN items = 1 .. Len(items)
      /\ \A j \in 1 .. Len(items) : a[j] = items[j]
      /\ a[Len(items) + 1] = x
  BY <1>2, AppendIsSequence
<1>4. ASSUME NEW j \in DOMAIN a PROVE Keeps(e, q, t, a[j][1], a[j][2])
  <2>1. j \in 1 .. Len(items) \/ j = Len(items) + 1
    BY <1>3
  <2>2. CASE j \in 1 .. Len(items)
    <3>1. Keeps(e, q, t, items[j][1], items[j][2])
      BY <1>3, <2>2 DEF Kept
    <3>2. a[j] = items[j]
      BY <1>3, <2>2
    <3> QED
      BY <3>1, <3>2
  <2>3. CASE j = Len(items) + 1
    <3>1. a[j] = x
      BY <1>3, <2>3
    <3> QED
      BY <1>1, <3>1
  <2> QED
    BY <2>1, <2>2, <2>3
<1>5. Kept(e, q, t, a)
  BY <1>4 DEF Kept
<1> QED
  BY <1>5 DEF a, x

(* One more value keeps a container as it should be. *)
LEMMA TakeKept ==
  ASSUME NEW e, NEW q, NEW t, NEW c, IsOpen(c), NEW v, NEW next,
         c.kind = "dict" => Kept(e, q, t, c.items),
         Typed(t, v), c.key = <<>> => Fits(e, v, next),
         \A i \in 1 .. Len(e) : Waits(e, q, c, i) => v = e[i][2]
  PROVE  LET d == Take(c, v)
         IN  /\ d.kind = "dict" => Kept(e, q, t, d.items)
             /\ \A i \in 1 .. Len(e) : Waits(e, q, d, i) => next = ValueStart(e, i)
<1> DEFINE kind == c.kind
           key == c.key
           items == c.items
           k == PropertyKey(v)
           d == Take(c, v)
<1>1. /\ c = [kind |-> kind, key |-> key, items |-> items] /\ kind \in {"list", "dict"}
      /\ kind = "dict" => IsItems(items)
  BY DEF IsOpen
<1> HIDE DEF kind, key, items
<1>2. CASE kind = "list"
  <2> DEFINE more == Append(items, v)
  <2> HIDE DEF more
  <2>1. d = [kind |-> kind, key |-> key, items |-> more]
    BY <1>1, <1>2 DEF Take, more
  <2> HIDE DEF d
  <2>2. d.kind # "dict"
    BY <1>2, <2>1
  <2> QED
    BY <2>2 DEF Waits, d
<1>3. CASE kind = "dict" /\ key = <<>>
  <2> DEFINE ks == <<k>>
  <2>1. ks # <<>> /\ ks[1] = k
    OBVIOUS
  <2> HIDE DEF ks
  <2>2. d = [kind |-> kind, key |-> ks, items |-> items]
    BY <1>1, <1>3 DEF Take, ks
  <2> HIDE DEF d
  <2>3. d.kind = kind /\ d.key = ks /\ d.items = items
    BY <2>2
  <2>4. Kept(e, q, t, d.items)
    BY <1>3, <2>3 DEF kind, items
  <2>5. ASSUME NEW i \in 1 .. Len(e), Waits(e, q, d, i) PROVE next = ValueStart(e, i)
    <3>1. k = e[i][1]
      BY <2>1, <2>3, <2>5 DEF Waits
    <3> QED
      BY <1>3, <3>1 DEF Fits, key
  <2> QED
    BY <2>4, <2>5 DEF d
<1>4. CASE kind = "dict" /\ key # <<>>
  <2> DEFINE x == <<key[1], v>>
             more == Append(items, x)
  <2>1. ASSUME NEW i \in 1 .. Len(e), key[1] = e[i][1], ~Inside(e, q, i)
        PROVE  v = e[i][2]
    BY <1>4, <2>1 DEF Waits, kind, key
  <2>2. Keeps(e, q, t, key[1], v)
    BY <2>1 DEF Keeps
  <2>3. IsItems(items) /\ Kept(e, q, t, items)
    BY <1>1, <1>4 DEF kind, items
  <2>4. Kept(e, q, t, more)
    BY <2>2, <2>3, KeptAppend
  <2> HIDE DEF more
  <2>5. d = [kind |-> kind, key |-> <<>>, items |-> more]
    BY <1>1, <1>4 DEF Take, more
  <2> HIDE DEF d
  <2>6. d.kind = kind /\ d.key = <<>> /\ d.items = more
    BY <2>5
  <2> QED
    BY <2>4, <2>6 DEF Waits, d
<1> QED
  BY <1>1, <1>2, <1>3, <1>4

(* A value that decodeNext returns, to whichever container. *)
LEMMA OuterReturn ==
  ASSUME NEW e, NEW q, NEW t, NEW o, IsStack(o), NEW v, NEW next,
         o # <<>> /\ o[1].kind = "dict" => Kept(e, q, t, o[1].items),
         Len(o) = 1 => /\ o[1].key = <<>> => Fits(e, v, next)
                       /\ \A i \in 1 .. Len(e) : Waits(e, q, o[1], i) => v = e[i][2],
         Len(o) > 1 => \A i \in 1 .. Len(e) : ~Waits(e, q, o[1], i),
         Typed(t, v), ReturnValue(o, v, next)
  PROVE  /\ Outer(e, q, t, open', pos')
         /\ o # <<>> => result' = result
         /\ o = <<>> => result' = v
<1>1. CASE o = <<>>
  BY <1>1 DEF ReturnValue, Outer
<1>2. CASE o # <<>>
  <2> DEFINE n == Len(o)
             c == Take(o[n], v)
             R == {o[i] : i \in DOMAIN o}
             S == R \cup {c}
             a == [o EXCEPT ![n] = c]
  <2>1. open' = a /\ result' = result /\ pos' = next
    BY <1>2 DEF ReturnValue
  <2>2. o \in Seq(R) /\ n \in Nat \ {0} /\ R \subseteq S /\ c \in S
    BY <1>2, TopType DEF IsStack, IsSequence
  <2> HIDE DEF R, S
  <2>3. o \in Seq(S)
    BY <2>2
  <2>4. n \in 1 .. Len(o) /\ 1 \in 1 .. Len(o)
    BY <2>2
  <2>5. /\ Len(a) = n /\ \A j \in 1 .. n : a[j] = IF j = n THEN c ELSE o[j]
        /\ a # <<>>
    <3> HIDE DEF c
    <3>1. /\ a \in Seq(S) /\ Len(a) = Len(o)
          /\ \A j \in 1 .. Len(o) : a[j] = IF j = n THEN c ELSE o[j]
      BY <2>2, <2>3, <2>4, ExceptSeq
    <3>2. a # <<>>
      BY <2>2, <3>1, EmptySeq
    <3> QED
      BY <3>1, <3>2
  <2>6. IsOpen(o[1])
    <3>1. 1 \in DOMAIN o
      BY <2>3, <2>4
    <3> QED
      BY <3>1 DEF IsStack
  <2> HIDE DEF a
  <2>7. CASE n = 1
    <3>1. a[1] = c /\ Len(a) = 1 /\ c = Take(o[1], v)
      BY <2>5, <2>7
    <3> DEFINE f == o[1]
    <3>2. /\ IsOpen(f) /\ (f.kind = "dict" => Kept(e, q, t, f.items))
          /\ (f.key = <<>> => Fits(e, v, next))
          /\ \A i \in 1 .. Len(e) : Waits(e, q, f, i) => v = e[i][2]
      BY <1>2, <2>6, <2>7
    <3> HIDE DEF f, c, n
    <3>3. /\ Take(f, v).kind = "dict" => Kept(e, q, t, Take(f, v).items)
          /\ \A i \in 1 .. Len(e) : Waits(e, q, Take(f, v), i) => next = ValueStart(e, i)
      BY <3>2, TakeKept
    <3>4. a[1] = Take(f, v)
      BY <3>1 DEF f
    <3>5. Outer(e, q, t, a, next)
      BY <3>1, <3>3, <3>4 DEF Outer
    <3> QED
      BY <1>2, <2>1, <3>5
  <2>8. CASE n # 1
    <3>1. a[1] = o[1] /\ n > 1
      BY <2>2, <2>4, <2>5, <2>8
    <3> HIDE DEF c
    <3>2. Outer(e, q, t, a, next)
      BY <1>2, <3>1 DEF Outer
    <3> QED
      BY <1>2, <2>1, <3>2
  <2> QED
    BY <2>7, <2>8
<1> QED
  BY <1>1, <1>2

(* Every call of decodeNext, and every closed container, in a changed buffer. *)
LEMMA OuterStep ==
  ASSUME NEW e, NEW t, Plain(e, t), NEW q, OneChange(e, q, buffer), pos \in Nat \ {0},
         IsStack(open), result = Pending, DecodeNext, Outer(e, q, t, open, pos)
  PROVE  /\ Outer(e, q, t, open', pos')
         /\ result'[1] = "dict" => Kept(e, q, t, result'[2])
<1>0. Pending[1] # "dict" /\ Thrown[1] # "dict"
  BY DEF Pending, Thrown
<1>1. CASE Throw
  BY <1>0, <1>1 DEF Throw
<1>2. ASSUME open # <<>>, NEW i \in 1 .. Len(e), Waits(e, q, open[1], i)
      PROVE  /\ Outer(e, q, t, open', pos')
             /\ result'[1] = "dict" => Kept(e, q, t, result'[2])
  <2>1. Len(open) = 1 /\ pos = ValueStart(e, i) /\ ~Inside(e, q, i)
        /\ open[1].key # <<>> /\ open[1].key[1] = e[i][1]
        /\ (open[1].kind = "dict" => Kept(e, q, t, open[1].items))
    BY <1>2 DEF Outer, Waits
  <2>2. PICK s \in Seq(Symbol) :
          /\ e[i][2] = Text(s) /\ EncodeFlat(e[i][2]) = EncodeString(s)
          /\ \A j \in 1 .. Len(s) : s[j] \in ToSet(HexDigit) \cup {t}
    BY PlainEntry
  <2> DEFINE next == pos + Len(EncodeString(s))
             v == Text(s)
  <2>3. Holds(buffer, pos, EncodeString(s))
    <3> DEFINE full == Encoded(e)
               code == EncodeString(s)
               l == Len(code)
    <3>1. /\ full \in Seq(Symbol) /\ Holds(full, ValueStart(e, i), EncodeFlat(e[i][2]))
          /\ Start(e, i + 1) = ValueStart(e, i) + Len(EncodeFlat(e[i][2]))
      <4>1. e \in Seq(FieldEntries)
        BY PlainEntry
      <4> QED
        BY <4>1, DictLayout
    <3>2. Holds(full, pos, code) /\ Start(e, i + 1) = pos + l
      BY <2>1, <2>2, <3>1
    <3>3. /\ Len(buffer) = Len(full) /\ q \in Nat /\ Len(full) \in Nat
          /\ \A p \in 1 .. Len(full) : p # q => buffer[p] = full[p]
      BY DEF OneChange
    <3>4. l \in Nat
      BY StringType
    <3>5. ~(pos <= q /\ q < pos + l)
      BY <2>1, <3>2 DEF Inside
    <3> HIDE DEF full, l, code
    <3>6. pos - 1 + l <= Len(full) /\ \A j \in 1 .. l : full[pos - 1 + j] = code[j]
      BY <3>2 DEF Holds, l
    <3>7. ASSUME NEW j \in 1 .. l PROVE buffer[pos - 1 + j] = code[j]
      <4>1. pos - 1 + j \in 1 .. Len(full) /\ pos - 1 + j # q
        BY <3>3, <3>4, <3>5, <3>6
      <4> QED
        BY <3>3, <3>6, <4>1
    <3> QED
      BY <3>3, <3>6, <3>7 DEF Holds, l, code
  <2>4. ReturnValue(open, v, next)
    <3>1. buffer \in Seq(Symbol)
      BY DEF OneChange
    <3> QED
      BY <2>3, <3>1, StringRead
  <2>5. \A k \in 1 .. Len(e) : Waits(e, q, open[1], k) => v = e[k][2]
    <3>1. ASSUME NEW k \in 1 .. Len(e), Waits(e, q, open[1], k) PROVE k = i
      <4>1. e[k][1] = e[i][1]
        BY <2>1, <3>1 DEF Waits
      <4> QED
        BY <4>1 DEF Plain
    <3> QED
      BY <2>2, <3>1
  <2>6. Typed(t, v)
    <3>1. ASSUME NEW u \in MessageTypes, v = Text(<<u>>) PROVE u = t
      <4>1. s = <<u>>
        BY <3>1 DEF Text
      <4>2. Len(s) = 1 /\ s[1] = u /\ 1 \in 1 .. 1
        BY <4>1
      <4>3. s[1] \in ToSet(HexDigit) \cup {t}
        BY <2>2, <4>2
      <4> QED
        BY <4>2, <4>3, WordFacts
    <3> QED
      BY <3>1 DEF Typed
  <2> HIDE DEF v, next
  <2>8. /\ open # <<>> /\ open[1].kind = "dict" => Kept(e, q, t, open[1].items)
        /\ Len(open) = 1 => /\ open[1].key = <<>> => Fits(e, v, next)
                            /\ \A k \in 1 .. Len(e) : Waits(e, q, open[1], k) => v = e[k][2]
        /\ ~(Len(open) > 1)
    BY <2>1, <2>5
  <2>7. Outer(e, q, t, open', pos') /\ result' = result
    BY <1>2, <2>4, <2>6, <2>8, OuterReturn
  <2> QED
    BY <1>0, <2>7
<1>3. ASSUME open # <<>> => \A i \in 1 .. Len(e) : ~Waits(e, q, open[1], i)
      PROVE  /\ Outer(e, q, t, open', pos')
             /\ result'[1] = "dict" => Kept(e, q, t, result'[2])
  <2>1. /\ open # <<>> /\ open[1].kind = "dict" => Kept(e, q, t, open[1].items)
        /\ Len(open) > 0 => open # <<>>
    BY DEF Outer
  <2>2. ASSUME NEW v, NEW next, ReturnValue(open, v, next), v[1] # "dict",
               Typed(t, v), Fits(e, v, next)
        PROVE  /\ Outer(e, q, t, open', pos')
               /\ result'[1] = "dict" => Kept(e, q, t, result'[2])
    <3>1. Len(open) = 1 \/ Len(open) > 1 => open # <<>>
      BY <2>1
    <3>2. /\ Outer(e, q, t, open', pos') /\ (open # <<>> => result' = result)
          /\ (open = <<>> => result' = v)
      BY <1>3, <2>1, <2>2, <3>1, OuterReturn
    <3> QED
      BY <1>0, <2>2, <3>2
  <2>3. CASE DecodeString
    BY <1>1, <2>2, <2>3, StringFits
  <2>4. CASE DecodeInteger
    BY <1>1, <2>2, <2>4, IntegerFits
  <2>5. CASE UnexpectedByte
    BY <1>1, <2>5 DEF UnexpectedByte
  <2>6. CASE OpenContainer
    <3> DEFINE kind == IF ByteAt(pos) = "l" THEN "list" ELSE "dict"
               c == [kind |-> kind, key |-> <<>>, items |-> <<>>]
    <3>1. open' = Append(open, c) /\ pos' = pos + 1 /\ result' = result
      BY <2>6 DEF OpenContainer
    <3> HIDE DEF kind
    <3>2. c.kind = kind /\ c.key = <<>> /\ c.items = <<>>
      OBVIOUS
    <3> HIDE DEF c
    <3> DEFINE a == Append(open, c)
    <3>3. IsSequence(open)
      BY DEF IsStack
    <3>4. /\ Len(a) = Len(open) + 1 /\ Len(open) \in Nat /\ DOMAIN open = 1 .. Len(open)
          /\ \A i \in 1 .. Len(open) : a[i] = open[i]
          /\ a[Len(open) + 1] = c
      BY <3>3, AppendIsSequence
    <3>5. CASE Len(open) = 0
      <4>1. a[1] = c
        BY <3>4, <3>5
      <4>2. Kept(e, q, t, c.items)
        BY <3>2 DEF Kept
      <4>3. Outer(e, q, t, a, pos + 1)
        BY <3>2, <4>1, <4>2 DEF Outer, Waits
      <4> QED
        BY <1>0, <3>1, <4>3
    <3>6. CASE Len(open) # 0
      <4>1. 1 \in 1 .. Len(open) /\ Len(open) > 0
        BY <3>4, <3>6
      <4>2. a[1] = open[1] /\ open # <<>>
        BY <2>1, <3>4, <4>1
      <4> HIDE DEF a
      <4>3. Outer(e, q, t, a, pos + 1)
        BY <1>3, <2>1, <4>2 DEF Outer
      <4> QED
        BY <1>0, <3>1, <4>3 DEF a
    <3> QED
      BY <3>5, <3>6
  <2>7. CASE CloseContainer
    <3> DEFINE o == Front(open)
               c == Last(open)
               v == <<c.kind, c.items>>
               n == Len(open)
               R == {open[i] : i \in DOMAIN open}
    <3>1. open # <<>> /\ ReturnValue(o, v, pos + 1)
      BY <2>7 DEF CloseContainer, AtContainerEnd
    <3>2. IsStack(o) /\ IsOpen(c) /\ n \in Nat \ {0} /\ c = open[n]
      BY <3>1, TopType DEF Last
    <3>3. Len(o) = n - 1 /\ \A i \in 1 .. n - 1 : o[i] = open[i]
      <4>1. open \in Seq(R)
        BY DEF IsStack, IsSequence
      <4> HIDE DEF R
      <4> QED
        BY <3>1, <4>1, FrontLast
    <3>4. c.kind \in {"list", "dict"}
      BY <3>2 DEF IsOpen
    <3>5. v[1] = c.kind /\ v[2] = c.items
      OBVIOUS
    <3> HIDE DEF o, v, n
    <3>6. Typed(t, v)
      BY <3>4, <3>5 DEF Typed, Text
    <3>7. Fits(e, v, pos + 1)
      <4>1. PropertyKey(v) = <<"object">>
        BY <3>4, <3>5 DEF PropertyKey
      <4>2. ASSUME NEW i \in 1 .. Len(e), PropertyKey(v) = e[i][1] PROVE FALSE
        <5>1. PICK w \in FieldNames : e[i][1] = <<w>>
          BY PlainEntry
        <5>2. w = "object"
          BY <4>1, <4>2, <5>1
        <5> QED
          BY <5>2, WordFacts
      <4> QED
        BY <4>2 DEF Fits
    <3>8. CASE n = 1
      <4>1. Len(o) = 0 /\ c = open[1]
        BY <3>2, <3>3, <3>8
      <4>2. o = <<>>
        <5>1. IsSequence(o)
          BY <3>2 DEF IsStack
        <5> QED
          BY <4>1, <5>1 DEF IsSequence
      <4>3. result' = v /\ open' = <<>>
        BY <3>1, <4>2 DEF ReturnValue
      <4>4. Outer(e, q, t, open', pos')
        BY <4>3 DEF Outer
      <4> QED
        BY <2>1, <3>1, <3>5, <4>1, <4>3, <4>4
    <3>9. CASE n # 1
      <4>1. Len(o) \in Nat \ {0} /\ 1 \in 1 .. n - 1
        BY <3>2, <3>3, <3>9
      <4>2. o[1] = open[1] /\ o # <<>>
        BY <3>3, <4>1
      <4>3. /\ o[1].kind = "dict" => Kept(e, q, t, o[1].items)
            /\ \A i \in 1 .. Len(e) : ~Waits(e, q, o[1], i)
        BY <1>3, <2>1, <3>1, <4>2
      <4>4. Outer(e, q, t, open', pos') /\ result' = result
        BY <3>1, <3>2, <3>6, <3>7, <4>2, <4>3, OuterReturn
      <4> QED
        BY <1>0, <4>4
    <3> QED
      BY <3>8, <3>9
  <2> QED
    BY <2>3, <2>4, <2>5, <2>6, <2>7 DEF DecodeNext
<1> QED
  BY <1>2, <1>3

(* What was received differs from the message in one field at most. *)
Local(m, d) ==
  /\ DOMAIN d = DOMAIN m
  /\ \E f \in DOMAIN m : \A g \in DOMAIN m \ {f} : d[g] = m[g]

LEMMA DecodedLocally ==
  ASSUME NEW m \in Altered, NEW e, e = Sorted(MessageEntries(m)), NEW q \in Nat,
         NEW obj, IsValue(obj), obj[1] = "dict" => Kept(e, q, m.type, obj[2]),
         DecodeMessage(obj) # Refused
  PROVE  Local(m, DecodeMessage(obj))
<1> DEFINE t == m.type
           fields == Fields[t]
           d == DecodeMessage(obj)
<1>1. /\ Plain(e, t)
      /\ \A f \in DOMAIN fields : \E i \in 1 .. Len(e) :
           e[i] = <<<<f>>, EncodeField(fields[f], m[f])>>
  BY PlainMessage
<1>2. IsMessage(m)
  BY SentAssumption
<1>3. /\ t \in MessageTypes /\ DOMAIN m = {"type"} \cup DOMAIN fields
      /\ "type" \notin DOMAIN fields
  BY <1>2, FieldKinds DEF IsMessage
<1>4. ASSUME NEW key, Has(obj, key)
      PROVE  Keeps(e, q, t, <<key>>, Property(obj, key))
  <2> DEFINE items == obj[2]
             I == Entries(obj, key)
  <2>1. /\ obj[1] = "dict" /\ I # {} /\ I \subseteq DOMAIN items
        /\ \A i \in I : items[i][1] = <<key>>
    BY <1>4 DEF Has, Entries
  <2>2. IsItems(items) /\ Kept(e, q, t, items)
    BY <2>1 DEF IsValue
  <2> HIDE DEF items, I
  <2>3. DOMAIN items = 1 .. Len(items) /\ Len(items) \in Nat
    BY <2>2, IsSequenceFacts DEF IsItems, IsSequence
  <2>4. Max(I) \in I
    BY <2>1, <2>3, MaxOf
  <2> DEFINE j == Max(I)
  <2>5. j \in DOMAIN items /\ items[j][1] = <<key>>
    BY <2>1, <2>4
  <2>6. Property(obj, key) = items[j][2]
    BY DEF Property, items, I
  <2> HIDE DEF j
  <2>7. Keeps(e, q, t, items[j][1], items[j][2])
    BY <2>2, <2>5 DEF Kept
  <2> QED
    BY <2>5, <2>6, <2>7
<1> HIDE DEF t, fields
<1>5. PICK u \in MessageTypes : Has(obj, "type") /\ Property(obj, "type") = Text(<<u>>)
  BY DEF DecodeMessage
<1>6. u = t
  BY <1>4, <1>5 DEF Keeps, Typed
<1>7. Property(obj, "type")[2][1] = t
  BY <1>5, <1>6 DEF Text
<1>8. /\ \A f \in DOMAIN fields : IsField(obj, f, fields[f])
      /\ d = [f \in {"type"} \cup DOMAIN fields |->
                IF f = "type" THEN t ELSE DecodeField(fields[f], Property(obj, f)[2])]
  <2>1. d = IF \E f \in DOMAIN fields : ~IsField(obj, f, fields[f]) THEN Refused
            ELSE [f \in {"type"} \cup DOMAIN fields |->
                    IF f = "type" THEN t ELSE DecodeField(fields[f], Property(obj, f)[2])]
    BY <1>5, <1>7 DEF DecodeMessage, fields
  <2>2. d # Refused
    OBVIOUS
  <2> HIDE DEF d
  <2> QED
    BY <2>1, <2>2
<1> HIDE DEF d
<1>9. DOMAIN d = DOMAIN m /\ d["type"] = m["type"]
  BY <1>3, <1>8 DEF t
<1>10. ASSUME NEW f \in DOMAIN fields, NEW i \in 1 .. Len(e),
              e[i] = <<<<f>>, EncodeField(fields[f], m[f])>>, ~Inside(e, q, i)
       PROVE  d[f] = m[f]
  <2>1. e[i][1] = <<f>> /\ e[i][2] = EncodeField(fields[f], m[f])
    BY <1>10
  <2>2. Has(obj, f)
    BY <1>8 DEF IsField
  <2>3. Property(obj, f) = EncodeField(fields[f], m[f])
    BY <1>4, <1>10, <2>1, <2>2 DEF Keeps
  <2>4. PICK s \in Seq(Symbol) : /\ EncodeField(fields[f], m[f]) = Text(s)
                                 /\ DecodeField(fields[f], s) = m[f]
    BY <1>2, FieldRoundTrip DEF fields, t
  <2>5. Property(obj, f)[2] = s
    BY <2>3, <2>4 DEF Text
  <2>6. d[f] = DecodeField(fields[f], Property(obj, f)[2])
    BY <1>3, <1>8
  <2> QED
    BY <2>4, <2>5, <2>6
<1>11. \E f \in DOMAIN m : \A g \in DOMAIN m \ {f} : d[g] = m[g]
  <2>1. CASE \E f \in DOMAIN fields : \E i \in 1 .. Len(e) :
               e[i] = <<<<f>>, EncodeField(fields[f], m[f])>> /\ Inside(e, q, i)
    <3>1. PICK f \in DOMAIN fields, i \in 1 .. Len(e) :
            e[i] = <<<<f>>, EncodeField(fields[f], m[f])>> /\ Inside(e, q, i)
      BY <2>1
    <3>2. ASSUME NEW g \in DOMAIN fields, g # f PROVE d[g] = m[g]
      <4>1. PICK k \in 1 .. Len(e) : e[k] = <<<<g>>, EncodeField(fields[g], m[g])>>
        BY <1>1 DEF fields
      <4>2. e[k][1] = <<g>> /\ e[i][1] = <<f>>
        BY <3>1, <4>1
      <4>3. <<g>> # <<f>>
        BY <3>2
      <4>4. k # i
        BY <4>2, <4>3
      <4>5. ~Inside(e, q, k)
        <5>1. e \in Seq(FieldEntries)
          BY <1>1 DEF Plain
        <5> QED
          BY <3>1, <4>4, <5>1, InsideOne
      <4> QED
        BY <1>10, <4>1, <4>5
    <3>3. \A g \in DOMAIN m \ {f} : d[g] = m[g]
      BY <1>3, <1>9, <3>2
    <3> QED
      BY <1>3, <3>3
  <2>2. CASE ~(\E f \in DOMAIN fields : \E i \in 1 .. Len(e) :
                 e[i] = <<<<f>>, EncodeField(fields[f], m[f])>> /\ Inside(e, q, i))
    <3>1. \A g \in DOMAIN fields : d[g] = m[g]
      BY <1>1, <1>10, <2>2 DEF fields
    <3>2. \A g \in DOMAIN m \ {"type"} : d[g] = m[g]
      BY <1>3, <3>1
    <3> QED
      BY <1>3, <3>2
  <2> QED
    BY <2>1, <2>2
<1> QED
  BY <1>9, <1>11 DEF Local, d

(* An altered buffer differs from the encoded message in one symbol; what    *)
(* was decoded of it keeps the unchanged values, and what was delivered      *)
(* differs in one field at most.                                             *)
AlterInv ==
  way = "altered" =>
    /\ sent \in Altered
    /\ \E q \in 1 .. Len(buffer) :
         /\ OneChange(WireEntries, q, buffer)
         /\ Outer(WireEntries, q, sent.type, open, pos)
         /\ result[1] = "dict" => Kept(WireEntries, q, sent.type, result[2])
    /\ delivered \notin {Undecided, Refused} => Local(sent, delivered)

LEMMA AlterInit == Init => AlterInv
<1> SUFFICES ASSUME Init, way = "altered" PROVE AlterInv
  BY DEF AlterInv
<1>1. /\ pos = 1 /\ open = <<>> /\ result = Pending /\ delivered = Undecided
      /\ sent \in Altered /\ buffer \in Changes(EncodeBep10Message(sent))
  BY DEF Init
<1> DEFINE e == WireEntries
           full == Encoded(e)
<1>2. e = Sorted(MessageEntries(sent))
  BY DEF WireEntries
<1>3. e \in Seq(FieldEntries) /\ EncodeBep10Message(sent) = full
  BY <1>1, <1>2, MessageWire
<1>4. full \in Seq(Symbol)
  <2> HIDE DEF e
  <2> QED
    BY <1>3, DictLayout
<1> HIDE DEF e, full
<1>5. PICK q \in DOMAIN full, c \in Alphabet \ Words : buffer = [full EXCEPT ![q] = c]
  BY <1>1, <1>3 DEF Changes
<1>6. c \in Symbol /\ q \in 1 .. Len(full)
  BY <1>4, <1>5, SentAssumption
<1>7. /\ buffer \in Seq(Symbol) /\ Len(buffer) = Len(full)
      /\ \A j \in 1 .. Len(full) : buffer[j] = IF j = q THEN c ELSE full[j]
  BY <1>4, <1>5, <1>6, ExceptSeq
<1>8. OneChange(e, q, buffer) /\ q \in 1 .. Len(buffer)
  BY <1>5, <1>6, <1>7 DEF OneChange, full
<1>9. Outer(e, q, sent.type, open, pos)
  BY <1>1 DEF Outer
<1>10. result[1] # "dict"
  BY <1>1 DEF Pending
<1> QED
  BY <1>1, <1>8, <1>9, <1>10 DEF AlterInv, e

LEMMA AlterStep == TypeInv /\ AlterInv /\ [Next]_vars => AlterInv'
<1> SUFFICES ASSUME TypeInv, AlterInv, [Next]_vars, way' = "altered" PROVE AlterInv'
  BY DEF AlterInv
<1>1. sent' = sent /\ way' = way
  BY DEF Next, Decode, DecodeBep10Message, OnHandshake, vars
<1> DEFINE e == WireEntries
           t == sent.type
<1>2. WireEntries' = e /\ sent'.type = t
  BY <1>1 DEF WireEntries
<1>3. /\ sent \in Altered
      /\ delivered \notin {Undecided, Refused} => Local(sent, delivered)
  BY <1>1 DEF AlterInv
<1>4. PICK q \in 1 .. Len(buffer) :
        /\ OneChange(e, q, buffer) /\ Outer(e, q, t, open, pos)
        /\ result[1] = "dict" => Kept(e, q, t, result[2])
  BY <1>1 DEF AlterInv
<1>5. e = Sorted(MessageEntries(sent))
  BY <1>1 DEF WireEntries
<1>6. Plain(e, t)
  BY <1>3, <1>5, PlainMessage
<1>7. pos \in Nat \ {0} /\ IsStack(open) /\ IsValue(result)
  BY DEF TypeInv
<1>8. ASSUME buffer' = buffer, Outer(e, q, t, open', pos'),
             result'[1] = "dict" => Kept(e, q, t, result'[2]),
             delivered' \notin {Undecided, Refused} => Local(sent, delivered')
      PROVE  AlterInv'
  <2> HIDE DEF e, t
  <2>1. OneChange(e, q, buffer') /\ q \in 1 .. Len(buffer')
    BY <1>4, <1>8
  <2>2. \E x \in 1 .. Len(buffer') :
          /\ OneChange(e, x, buffer') /\ Outer(e, x, t, open', pos')
          /\ result'[1] = "dict" => Kept(e, x, t, result'[2])
    BY <1>8, <2>1
  <2> QED
    BY <1>1, <1>2, <1>3, <1>8, <2>2 DEF AlterInv
<1> HIDE DEF e, t
<1>9. CASE Decode
  <2>1. DecodeNext /\ UNCHANGED <<sent, way, delivered>>
    BY <1>9 DEF Decode
  <2>2. result = Pending /\ buffer' = buffer
    BY <2>1 DEF DecodeNext, DecodeInteger, OpenContainer, CloseContainer, DecodeString,
                UnexpectedByte, Throw, ReturnValue
  <2>3. /\ Outer(e, q, t, open', pos')
        /\ result'[1] = "dict" => Kept(e, q, t, result'[2])
    BY <1>4, <1>6, <1>7, <2>1, <2>2, OuterStep
  <2> QED
    BY <1>3, <1>8, <2>1, <2>2, <2>3
<1>10. CASE DecodeBep10Message
  <2>1. /\ buffer' = buffer /\ pos' = pos /\ open' = open /\ result' = result
        /\ delivered' = IF result = Thrown THEN Refused ELSE DecodeMessage(result)
    BY <1>10 DEF DecodeBep10Message, decodeVars
  <2>2. delivered' \notin {Undecided, Refused} => Local(sent, delivered')
    <3>1. ASSUME delivered' # Refused PROVE Local(sent, delivered')
      <4>1. delivered' = DecodeMessage(result) /\ DecodeMessage(result) # Refused
        BY <2>1, <3>1
      <4>2. q \in Nat
        BY <1>4 DEF OneChange
      <4>3. Local(sent, DecodeMessage(result))
        BY <1>3, <1>4, <1>5, <1>7, <4>1, <4>2, DecodedLocally DEF t
      <4> QED
        BY <4>1, <4>3
    <3> QED
      BY <3>1
  <2> QED
    BY <1>4, <1>8, <2>1, <2>2
<1>11. CASE OnHandshake
  BY <1>1, <1>11 DEF OnHandshake
<1>12. CASE UNCHANGED vars
  BY <1>3, <1>4, <1>8, <1>12 DEF vars, decodeVars
<1> QED
  BY <1>9, <1>10, <1>11, <1>12 DEF Next
-----------------------------------------------------------------------------
(* One changed symbol in a message of hex and decimal fields, in a length,   *)
(* a key, the type or a value, never makes decodeBep10Message return a       *)
(* message of a type with other fields, nor one in which two fields differ   *)
(* from what was sent: the words that the change cannot make stand where     *)
(* they stood, so that every unchanged value is read under its own key.      *)
THEOREM ChangesStayLocal == Spec => []ChangeStaysLocal
<1>1. AlterInv => ChangeStaysLocal
  BY DEF AlterInv, ChangeStaysLocal, Local
<1>2. Init => TypeInv /\ AlterInv
  BY TypeInit, AlterInit
<1>3. (TypeInv /\ AlterInv) /\ [Next]_vars => (TypeInv /\ AlterInv)'
  BY TypeStep, AlterStep
<1> QED
  BY <1>1, <1>2, <1>3, PTL DEF Spec
=============================================================================
