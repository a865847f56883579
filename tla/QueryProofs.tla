----------------------------- MODULE QueryProofs -----------------------------
(* Theorems about Query, for any class, filters, orders, limits and offsets: *)
(* select, count and remove answer what their builder asks for.              *)

EXTENDS Query, FiniteSetTheorems, FunctionTheorems, NaturalsInduction, SequenceTheorems, TLAPS

-----------------------------------------------------------------------------
(* Induction and recursion over numbers.                                     *)

LEMMA Below ==
    ASSUME NEW I \in SUBSET Nat, NEW S,
           \A i \in I : (\A j \in I : j < i => j \in S) => i \in S
    PROVE  I \subseteq S
<1> DEFINE T == I \ S
           R == OpToRel(<, Nat)
<1>1. SUFFICES ASSUME T # {} PROVE FALSE
  OBVIOUS
<1>2. R = {ss \in Nat \X Nat : ss[1] < ss[2]}
  BY DEF OpToRel
<1>3. IsWellFoundedOn(R, Nat)
  BY NatLessThanWellFounded
<1>4. T \subseteq Nat
  OBVIOUS
<1> HIDE DEF R
<1>5. PICK x \in T : \A y \in T : ~ (<<y, x>> \in R)
  <2> HIDE DEF T
  <2>1. QED
    BY <1>1, <1>3, <1>4, WFMin
<1>6. ASSUME NEW y \in T PROVE ~(y < x)
  <2>1. <<y, x>> \in R <=> y < x
    BY <1>2, <1>4
  <2>2. QED
    BY <1>5, <2>1
<1>7. \A j \in I : j < x => j \in S
  BY <1>6
<1>8. QED
  BY <1>5, <1>7

\* A function may be defined from its values at smaller numbers.
Definition(D, I, T) ==
    /\ I \in SUBSET Nat /\ T # {} /\ D \in [[I -> T] \X I -> T]
    /\ \A f, g \in [I -> T], i \in I :
           (\A j \in I : j < i => f[j] = g[j]) => D[<<f, i>>] = D[<<g, i>>]

Defined(f, D, I, T) == f \in [I -> T] /\ \A i \in I : f[i] = D[<<f, i>>]

LEMMA Recursion ==
    ASSUME NEW I, NEW T, NEW D, Definition(D, I, T)
    PROVE  \E f : Defined(f, D, I, T)
<1> USE DEF Definition, Defined
<1> DEFINE Upto(f, m) == f \in [I -> T] /\ \A i \in I : i < m => f[i] = D[<<f, i>>]
           E == {m \in Nat : \E f : Upto(f, m)}
<1>1. Nat \subseteq E
  <2>1. ASSUME NEW m \in Nat, \A k \in Nat : k < m => k \in E PROVE m \in E
    <3>1. CASE m = 0
      <4>1. PICK t \in T : TRUE
        OBVIOUS
      <4>2. [i \in I |-> t] \in [I -> T] /\ \A i \in I : ~(i < m)
        BY <3>1
      <4> DEFINE f == [i \in I |-> t]
      <4>3. Upto(f, m)
        BY <4>2
      <4>4. QED
        BY <4>3
    <3>2. CASE m # 0
      <4>1. m - 1 \in E /\ m - 1 \in Nat
        <5>1. m - 1 \in Nat /\ m - 1 < m
          BY <3>2
        <5> HIDE DEF E
        <5>2. QED
          BY <2>1, <5>1
      <4>2. PICK g : Upto(g, m - 1)
        BY <4>1
      <4> DEFINE h == [i \in I |-> IF i = m - 1 THEN D[<<g, i>>] ELSE g[i]]
      <4>3. h \in [I -> T]
        BY <4>2
      <4>4. ASSUME NEW i \in I, i < m PROVE h[i] = D[<<h, i>>]
        <5>1. \A j \in I : j < i => g[j] = h[j]
          BY <4>4
        <5>2. D[<<g, i>>] = D[<<h, i>>]
          <6> HIDE DEF h
          <6>1. QED
            BY <4>2, <4>3, <5>1
        <5>3. h[i] = D[<<g, i>>]
          <6>1. i = m - 1 \/ i < m - 1
            BY <4>1, <4>4
          <6>2. QED
            BY <4>2, <6>1
        <5>4. QED
          BY <5>2, <5>3
      <4>5. Upto(h, m)
        BY <4>3, <4>4
      <4> HIDE DEF h, Upto
      <4>6. QED
        BY <4>5
    <3>3. QED
      BY <3>1, <3>2
  <2> HIDE DEF E
  <2>2. QED
    BY <2>1, Below
<1>2. ASSUME NEW f, NEW g, NEW m \in Nat, Upto(f, m), Upto(g, m)
      PROVE  \A i \in I : i < m => f[i] = g[i]
  <2> DEFINE S == {i \in I : i < m => f[i] = g[i]}
  <2>1. ASSUME NEW i \in I, \A j \in I : j < i => j \in S PROVE i \in S
    <3>1. SUFFICES ASSUME i < m PROVE f[i] = g[i]
      OBVIOUS
    <3>2. \A j \in I : j < i => f[j] = g[j]
      BY <2>1, <3>1
    <3>3. D[<<f, i>>] = D[<<g, i>>]
      BY <1>2, <3>2
    <3>4. QED
      BY <1>2, <3>1, <3>3
  <2>2. I \subseteq S
    <3> HIDE DEF S
    <3>1. QED
      BY <2>1, Below
  <2>3. QED
    BY <2>2
<1> DEFINE F == [m \in Nat |-> CHOOSE f : Upto(f, m)]
           h == [i \in I |-> F[i + 1][i]]
<1>3. ASSUME NEW m \in Nat PROVE Upto(F[m], m)
  <2>1. \E f : Upto(f, m)
    BY <1>1
  <2>2. F[m] = CHOOSE f : Upto(f, m)
    OBVIOUS
  <2> HIDE DEF Upto, F
  <2>3. QED
    BY <2>1, <2>2
<1> HIDE DEF F
<1>4. \A i \in I : i + 1 \in Nat /\ i < i + 1
  OBVIOUS
<1>5. h \in [I -> T]
  BY <1>3, <1>4
<1>6. ASSUME NEW i \in I PROVE h[i] = D[<<h, i>>]
  <2>1. Upto(F[i + 1], i + 1)
    BY <1>3, <1>4
  <2>2. ASSUME NEW j \in I, j < i PROVE F[i + 1][j] = h[j]
    <3>1. Upto(F[j + 1], j + 1)
      BY <1>3, <1>4
    <3>2. Upto(F[i + 1], j + 1)
      <4>1. \A k \in I : k < j + 1 => k < i + 1
        BY <2>2
      <4>2. QED
        BY <2>1, <4>1
    <3> HIDE DEF Upto
    <3>3. F[i + 1][j] = F[j + 1][j]
      BY <1>2, <1>4, <3>1, <3>2
    <3>4. QED
      BY <3>3
  <2>3. D[<<F[i + 1], i>>] = D[<<h, i>>]
    <3> HIDE DEF h
    <3>1. QED
      BY <1>5, <2>1, <2>2
  <2>4. h[i] = F[i + 1][i] /\ F[i + 1][i] = D[<<F[i + 1], i>>]
    BY <1>4, <2>1
  <2>5. QED
    BY <2>3, <2>4
<1> HIDE DEF h
<1>7. QED
  BY <1>5, <1>6

LEMMA UpTo ==
    ASSUME NEW n \in Nat, NEW S, 0 \in S, \A i \in 1..n : i - 1 \in S => i \in S
    PROVE  \A i \in 0..n : i \in S
<1>1. ASSUME NEW i \in 0..n, \A j \in 0..n : j < i => j \in S PROVE i \in S
  <2>1. CASE i = 0
    BY <2>1
  <2>2. CASE i # 0
    <3>1. i \in 1..n /\ i - 1 \in 0..n /\ i - 1 < i
      BY <2>2
    <3>2. QED
      BY <1>1, <3>1
  <2>3. QED
    BY <2>1, <2>2
<1>2. 0..n \in SUBSET Nat
  OBVIOUS
<1>3. 0..n \subseteq S
  BY <1>1, <1>2, Below
<1>4. QED
  BY <1>3

\* Or from its value at the number before.
IsStep(Step, n, T) == Step \in [T \X (1..n) -> T]
Follows(f, base, Step, n, T) ==
    f \in [0..n -> T] /\ f[0] = base /\ \A i \in 1..n : f[i] = Step[<<f[i - 1], i>>]

LEMMA StepByStep ==
    ASSUME NEW n \in Nat, NEW T, NEW base \in T, NEW Step, IsStep(Step, n, T)
    PROVE  \E f : Follows(f, base, Step, n, T)
<1> USE DEF IsStep
<1> DEFINE I == 0..n
           D == [p \in [I -> T] \X I |-> IF p[2] = 0 THEN base ELSE Step[<<p[1][p[2] - 1], p[2]>>]]
<1>1. \A i \in I : i = 0 \/ (i \in 1..n /\ i - 1 \in I /\ i - 1 < i)
  OBVIOUS
<1>2. 0 \in I /\ I \in SUBSET Nat /\ \A i \in 1..n : i \in I /\ i # 0
  OBVIOUS
<1> HIDE DEF I
<1>3. ASSUME NEW f \in [I -> T], NEW i \in I
      PROVE  D[<<f, i>>] = (IF i = 0 THEN base ELSE Step[<<f[i - 1], i>>]) /\ D[<<f, i>>] \in T
  BY <1>1
<1>4. D \in [[I -> T] \X I -> T]
  BY <1>1
<1> HIDE DEF D
<1>5. Definition(D, I, T)
  <2>1. ASSUME NEW f \in [I -> T], NEW g \in [I -> T], NEW i \in I,
               \A j \in I : j < i => f[j] = g[j]
        PROVE  D[<<f, i>>] = D[<<g, i>>]
    <3>1. i = 0 \/ f[i - 1] = g[i - 1]
      BY <1>1, <2>1
    <3>2. QED
      BY <1>3, <3>1
  <2>2. T # {}
    OBVIOUS
  <2>3. QED
    BY <1>2, <1>4, <2>1, <2>2 DEF Definition
<1>6. PICK f \in [I -> T] : \A i \in I : f[i] = D[<<f, i>>]
  BY <1>5, Recursion DEF Defined
<1>7. f[0] = base /\ \A i \in 1..n : f[i] = Step[<<f[i - 1], i>>]
  BY <1>2, <1>3, <1>6
<1>8. QED
  BY <1>6, <1>7 DEF I, Follows

-----------------------------------------------------------------------------
(* The names of parameters.                                                  *)

LEMMA DigitTyped == Digit \in Seq(Words) /\ \A d \in 1..10 : Digit[d] \in Words
<1>1. Len(Digit) = 10
  BY DEF Digit
<1>2. Digit \in Seq(Words)
  <2>1. \A i \in 1..10 : Digit[i] \in ToSet(Digit)
    BY <1>1 DEF ToSet, Digit
  <2>2. ToSet(Digit) \subseteq Words
    BY QueryAssumption
  <2>3. {"0", "1", "2", "3", "4", "5", "6", "7", "8", "9"} \subseteq Words
    BY <2>1, <2>2 DEF Digit
  <2>4. QED
    BY <2>3 DEF Digit
<1>3. QED
  BY <1>1, <1>2

LEMMA DecimalSteps ==
    /\ Decimal \in [Nat -> Seq(Words)]
    /\ \A i \in Nat : Decimal[i] = IF i < 10 THEN <<Digit[i + 1]>>
                                   ELSE Append(Decimal[i \div 10], Digit[(i % 10) + 1])
<1> DEFINE T == Seq(Words)
           Body(f, i) == IF i < 10 THEN <<Digit[i + 1]>>
                         ELSE Append(f[i \div 10], Digit[(i % 10) + 1])
           D == [p \in [Nat -> T] \X Nat |-> Body(p[1], p[2])]
           Rec(f) == f = [i \in Nat |-> Body(f, i)]
<1>1. \A i \in Nat : ~(i < 10) => i \div 10 \in Nat /\ i \div 10 < i
  OBVIOUS
<1>2. \A i \in Nat : (i % 10) + 1 \in 1..10 /\ (i < 10 => i + 1 \in 1..10)
  OBVIOUS
<1>3. \A d \in 1..10 : Digit[d] \in Words
  BY DigitTyped
<1>4. ASSUME NEW f, NEW i \in Nat, \A j \in Nat : j < i => f[j] \in T PROVE Body(f, i) \in T
  <2>1. CASE i < 10
    <3>1. Digit[i + 1] \in Words
      BY <1>2, <1>3, <2>1
    <3>2. QED
      BY <2>1, <3>1
  <2>2. CASE ~(i < 10)
    <3>1. f[i \div 10] \in T /\ Digit[(i % 10) + 1] \in Words
      BY <1>1, <1>2, <1>3, <1>4, <2>2
    <3>2. QED
      BY <2>2, <3>1, AppendProperties
  <2>3. QED
    BY <2>1, <2>2
<1>5. ASSUME NEW f, NEW g, NEW i \in Nat, \A j \in Nat : j < i => f[j] = g[j]
      PROVE  Body(f, i) = Body(g, i)
  BY <1>1, <1>5
<1>6. T # {}
  BY EmptySeq
<1> HIDE DEF Body, T
<1>7. D \in [[Nat -> T] \X Nat -> T]
  BY <1>4
<1>8. \E f \in [Nat -> T] : \A i \in Nat : f[i] = D[<<f, i>>]
  <2>1. Definition(D, Nat, T)
    BY <1>5, <1>6, <1>7 DEF Definition
  <2> HIDE DEF D
  <2>2. QED
    BY <2>1, Recursion DEF Defined
<1>9. \E f : Rec(f)
  BY <1>8
<1>10. Rec(Decimal)
  <2>1. Decimal = CHOOSE f : Rec(f)
    BY DEF Decimal, Body
  <2> HIDE DEF Rec
  <2>2. QED
    BY <1>9, <2>1
<1> DEFINE S == {i \in Nat : Decimal[i] \in T}
<1>11. Nat \subseteq S
  <2>1. \A i \in Nat : Decimal[i] = Body(Decimal, i)
    BY <1>10
  <2>2. ASSUME NEW i \in Nat, \A j \in Nat : j < i => Decimal[j] \in T PROVE Decimal[i] \in T
    BY <1>4, <2>1, <2>2
  <2>3. \A i \in Nat : (\A j \in Nat : j < i => j \in S) => i \in S
    BY <2>2
  <2> HIDE DEF S
  <2>4. QED
    BY <2>3, Below
<1>12. QED
  BY <1>10, <1>11 DEF T, Body

LEMMA DecimalDiffer == \A i, j \in Nat : Decimal[i] = Decimal[j] => i = j
<1> DEFINE S == {i \in Nat : \A j \in Nat : Decimal[i] = Decimal[j] => i = j}
<1>1. \A a, b \in 1..10 : Digit[a] = Digit[b] => a = b
  BY DEF Digit
<1>2. \A d \in 1..10 : Digit[d] \in Words
  BY DigitTyped
<1>3. \A i \in Nat : (i % 10) + 1 \in 1..10 /\ (i < 10 => i + 1 \in 1..10)
  OBVIOUS
<1>4. \A i \in Nat : ~(i < 10) => i \div 10 \in Nat /\ i \div 10 < i /\ i = 10 * (i \div 10) + (i % 10)
  OBVIOUS
<1> HIDE DEF S
<1>5. ASSUME NEW i \in Nat, i < 10 PROVE Len(Decimal[i]) = 1 /\ Decimal[i][1] = Digit[i + 1]
  <2>1. Decimal[i] = <<Digit[i + 1]>>
    BY <1>5, DecimalSteps
  <2>2. QED
    BY <2>1
<1>6. ASSUME NEW i \in Nat, ~(i < 10)
      PROVE  LET s == Decimal[i \div 10]
             IN  /\ s \in Seq(Words) /\ Decimal[i] = Append(s, Digit[(i % 10) + 1])
  BY <1>4, <1>6, DecimalSteps
<1>7. \A i \in Nat : Len(Decimal[i]) >= 1
  <2> SUFFICES ASSUME NEW i \in Nat PROVE Len(Decimal[i]) >= 1
    OBVIOUS
  <2>1. CASE i < 10
    BY <1>5, <2>1
  <2>2. CASE ~(i < 10)
    BY <1>6, <2>2, <1>2, <1>3, AppendProperties
  <2>3. QED
    BY <2>1, <2>2
<1>8. ASSUME NEW i \in Nat, \A k \in Nat : k < i => k \in S PROVE i \in S
  <2> SUFFICES ASSUME NEW j \in Nat, Decimal[i] = Decimal[j] PROVE i = j
    BY DEF S
  <2>1. \A k \in Nat : ~(k < 10) => Len(Decimal[k]) # 1
    <3> SUFFICES ASSUME NEW k \in Nat, ~(k < 10) PROVE Len(Decimal[k]) # 1
      OBVIOUS
    <3>1. k \div 10 \in Nat
      BY <1>4
    <3> DEFINE s == Decimal[k \div 10]
               a == Digit[(k % 10) + 1]
    <3>2. s \in Seq(Words) /\ Len(s) >= 1 /\ a \in Words /\ Decimal[k] = Append(s, a)
      BY <3>1, <1>6, <1>7, <1>2, <1>3
    <3> HIDE DEF s, a
    <3>3. QED
      BY <3>2, AppendProperties
  <2>2. CASE i < 10
    <3>1. j < 10
      BY <1>5, <2>1, <2>2
    <3>2. QED
      BY <1>1, <1>3, <1>5, <2>2, <3>1
  <2>3. CASE ~(i < 10)
    <3>1. ~(j < 10)
      BY <1>5, <2>1, <2>3
    <3> DEFINE s == Decimal[i \div 10]
               t == Decimal[j \div 10]
               a == Digit[(i % 10) + 1]
               b == Digit[(j % 10) + 1]
    <3>2. s \in Seq(Words) /\ t \in Seq(Words) /\ a \in Words /\ b \in Words /\ Append(s, a) = Append(t, b)
      BY <1>2, <1>3, <1>6, <2>3, <3>1
    <3>3. s = t /\ a = b
      <4> HIDE DEF s, t, a, b
      <4>1. QED
        BY <3>2
    <3>4. i \div 10 = j \div 10
      BY <1>4, <1>8, <2>3, <3>1, <3>3 DEF S
    <3>5. i % 10 = j % 10
      <4>1. (i % 10) + 1 = (j % 10) + 1
        BY <1>1, <1>3, <3>3
      <4>2. i % 10 \in Int /\ j % 10 \in Int
        BY <1>3
      <4>3. QED
        BY <4>1, <4>2
    <3>6. QED
      BY <1>4, <2>3, <3>1, <3>4, <3>5
  <2>4. QED
    BY <2>2, <2>3
<1>9. Nat \subseteq S
  BY <1>8, Below
<1>10. QED
  BY <1>9 DEF S

Bound == Int \cup {Null}
Parameters == UNION {[K -> Bound] : K \in {L \in SUBSET Seq(Words) : IsFiniteSet(L)}}

LEMMA ParametersTyped ==
    \A p \in Parameters :
        /\ IsFiniteSet(DOMAIN p) /\ DOMAIN p \subseteq Seq(Words)
        /\ p \in [DOMAIN p -> Bound]
<1> SUFFICES ASSUME NEW p \in Parameters
             PROVE  /\ IsFiniteSet(DOMAIN p) /\ DOMAIN p \subseteq Seq(Words)
                    /\ p \in [DOMAIN p -> Bound]
  OBVIOUS
<1>1. PICK K \in SUBSET Seq(Words) : IsFiniteSet(K) /\ p \in [K -> Bound]
  BY DEF Parameters
<1>2. QED
  BY <1>1

\* A new parameter has a name of its own, whatever names are taken.
LEMMA NewKeyIsNew ==
    ASSUME NEW p \in Parameters, NEW name \in Seq(Words)
    PROVE  NewKey(p, name) \in Seq(Words) /\ NewKey(p, name) \notin DOMAIN p
<1> DEFINE numbered(i) == name \o Decimal[i]
           n == Cardinality(DOMAIN p)
           free == {i \in 0..n : numbered(i) \notin DOMAIN p}
<1>1. IsFiniteSet(DOMAIN p) /\ n \in Nat
  BY ParametersTyped, FS_CardinalityType
<1>2. CASE name \notin DOMAIN p
  BY <1>2 DEF NewKey
<1>3. CASE name \in DOMAIN p
  <2>1. \A i \in 0..n : numbered(i) \in Seq(Words)
    BY <1>1, DecimalSteps
  <2>2. \A i, j \in 0..n : numbered(i) = numbered(j) => i = j
    <3> SUFFICES ASSUME NEW i \in 0..n, NEW j \in 0..n, numbered(i) = numbered(j) PROVE i = j
      OBVIOUS
    <3>1. i \in Nat /\ j \in Nat /\ Decimal[i] \in Seq(Words) /\ Decimal[j] \in Seq(Words)
      BY <1>1, DecimalSteps
    <3>2. Decimal[i] = Decimal[j]
      BY <3>1, ConcatSimplifications
    <3>3. QED
      BY <3>1, <3>2, DecimalDiffer
  <2>3. free # {}
    <3>1. SUFFICES ASSUME free = {} PROVE FALSE
      OBVIOUS
    <3> DEFINE f == [i \in 0..n |-> numbered(i)]
    <3>2. f \in [0..n -> DOMAIN p]
      BY <3>1
    <3>3. IsFiniteSet(0..n) /\ Cardinality(0..n) = n + 1
      BY <1>1, FS_Interval
    <3>4. \A i, j \in 0..n : i # j => f[i] # f[j]
      BY <2>2
    <3> HIDE DEF f
    <3>5. QED
      BY <1>1, <3>2, <3>3, <3>4, FS_PigeonHole
  <2>4. \E i \in free : \A j \in free : i <= j
    <3> DEFINE S == Nat \ free
    <3>1. SUFFICES ASSUME \A i \in free : \E j \in free : ~(i <= j) PROVE FALSE
      OBVIOUS
    <3>2. free \subseteq Nat
      BY <1>1
    <3> HIDE DEF free
    <3>3. ASSUME NEW i \in Nat, \A j \in Nat : j < i => j \in S PROVE i \in S
      BY <3>1, <3>2, <3>3
    <3>4. Nat \subseteq S
      <4> HIDE DEF S
      <4>1. QED
        BY <3>3, Below
    <3>5. QED
      BY <2>3, <3>2, <3>4
  <2> DEFINE i == CHOOSE i \in free : \A j \in free : i <= j
  <2>5. i \in free
    <3> HIDE DEF free
    <3>1. QED
      BY <2>4
  <2>6. NewKey(p, name) = numbered(i)
    BY <1>3 DEF NewKey
  <2> HIDE DEF i
  <2>7. QED
    BY <2>1, <2>5, <2>6
<1>4. QED
  BY <1>2, <1>3

Extends(p, q) == DOMAIN p \subseteq DOMAIN q /\ \A k \in DOMAIN p : q[k] = p[k]

LEMMA ExtendsTransitive ==
    ASSUME NEW p, NEW q, NEW r, Extends(p, q), Extends(q, r)
    PROVE  Extends(p, r)
BY DEF Extends

LEMMA BindTyped ==
    ASSUME NEW p \in Parameters, NEW key \in Seq(Words), key \notin DOMAIN p, NEW value \in Bound
    PROVE  LET q == Bind(p, key, value)
           IN  q \in Parameters /\ Extends(p, q) /\ key \in DOMAIN q /\ q[key] = value
<1> DEFINE K == DOMAIN p \cup {key}
           q == Bind(p, key, value)
<1>1. IsFiniteSet(DOMAIN p) /\ DOMAIN p \subseteq Seq(Words) /\ p \in [DOMAIN p -> Bound]
  BY ParametersTyped
<1>2. K \in {L \in SUBSET Seq(Words) : IsFiniteSet(L)}
  BY <1>1, FS_AddElement
<1>3. q \in [K -> Bound] /\ q[key] = value /\ \A k \in DOMAIN p : q[k] = p[k]
  BY <1>1 DEF Bind
<1> HIDE DEF K, q
<1>4. q \in Parameters
  BY <1>2, <1>3 DEF Parameters
<1>5. DOMAIN q = K
  BY <1>3
<1>6. QED
  BY <1>3, <1>4, <1>5 DEF Extends, K, q

Bindings == [keys : Seq(Seq(Words)), parameters : Parameters]

\* The parameters there were stay as they are, and each new one has its value.
LEMMA Inserted ==
    ASSUME NEW p \in Parameters, NEW values \in Seq(Bound),
           NEW names \in [1..Len(values) -> Seq(Words)]
    PROVE  LET r == InsertParameters(p, names, values)
           IN  /\ r \in Bindings /\ Extends(p, r.parameters)
               /\ Len(r.keys) = Len(values)
               /\ \A i \in 1..Len(values) : /\ r.keys[i] \in DOMAIN r.parameters
                                            /\ r.parameters[r.keys[i]] = values[i]
<1> DEFINE n == Len(values)
           key(a, i) == NewKey(a.parameters, names[i])
           Step(a, i) == [keys |-> Append(a.keys, key(a, i)),
                          parameters |-> Bind(a.parameters, key(a, i), values[i])]
           base == [keys |-> <<>>, parameters |-> p]
           Rec(f) == f = [i \in 0..n |-> IF i = 0 THEN base ELSE Step(f[i - 1], i)]
           from == CHOOSE f : Rec(f)
           Good(a, i) == /\ a \in Bindings /\ Extends(p, a.parameters) /\ Len(a.keys) = i
                         /\ \A j \in 1..i : /\ a.keys[j] \in DOMAIN a.parameters
                                            /\ a.parameters[a.keys[j]] = values[j]
<1>1. n \in Nat /\ base \in Bindings /\ \A i \in 1..n : values[i] \in Bound
  BY DEF Bindings
<1>2. ASSUME NEW a \in Bindings, NEW i \in 1..n
      PROVE  /\ a.keys \in Seq(Seq(Words)) /\ a.parameters \in Parameters
             /\ key(a, i) \in Seq(Words)
             /\ LET q == Bind(a.parameters, key(a, i), values[i])
                IN  /\ q \in Parameters /\ Extends(a.parameters, q)
                    /\ key(a, i) \in DOMAIN q /\ q[key(a, i)] = values[i]
  <2>1. a.keys \in Seq(Seq(Words)) /\ a.parameters \in Parameters /\ names[i] \in Seq(Words)
    BY DEF Bindings
  <2>2. key(a, i) \in Seq(Words) /\ key(a, i) \notin DOMAIN a.parameters
    BY <2>1, NewKeyIsNew
  <2>3. values[i] \in Bound
    BY <1>1
  <2> HIDE DEF key
  <2>4. QED
    BY <2>1, <2>2, <2>3, BindTyped
<1> HIDE DEF key
<1>3. \A a \in Bindings, i \in 1..n : Step(a, i) \in Bindings
  <2> SUFFICES ASSUME NEW a \in Bindings, NEW i \in 1..n PROVE Step(a, i) \in Bindings
    OBVIOUS
  <2>1. Append(a.keys, key(a, i)) \in Seq(Seq(Words))
    BY <1>2, AppendProperties
  <2>2. QED
    BY <1>2, <2>1 DEF Bindings
<1>4. InsertParameters(p, names, values) = from[n]
  BY DEF InsertParameters, key
<1> HIDE DEF Step, base
<1>5. Rec(from)
  <2> DEFINE S == [q \in Bindings \X (1..n) |-> Step(q[1], q[2])]
  <2>1. IsStep(S, n, Bindings)
    BY <1>3 DEF IsStep
  <2>2. \A a \in Bindings, i \in 1..n : S[<<a, i>>] = Step(a, i)
    OBVIOUS
  <2> HIDE DEF S, n
  <2>3. PICK f : Follows(f, base, S, n, Bindings)
    BY <1>1, <2>1, StepByStep
  <2>4. \A i \in 0..n : i = 0 \/ (i \in 1..n /\ i - 1 \in 0..n)
    BY <1>1
  <2>5. \A i \in 0..n : f[i] = IF i = 0 THEN base ELSE Step(f[i - 1], i)
    BY <2>2, <2>3, <2>4 DEF Follows
  <2>6. Rec(f)
    BY <2>3, <2>5 DEF Follows
  <2> HIDE DEF Rec
  <2>7. QED
    BY <2>6
<1> HIDE DEF from
<1> DEFINE S == {i \in 0..n : Good(from[i], i)}
<1>6. 0 \in S
  <2>1. from[0] = base /\ 0 \in 0..n
    BY <1>1, <1>5
  <2>2. Good(base, 0)
    BY <1>1 DEF base, Extends
  <2>3. QED
    BY <2>1, <2>2
<1>7. ASSUME NEW i \in 1..n, i - 1 \in S PROVE i \in S
  <2> DEFINE a == from[i - 1]
             q == Bind(a.parameters, key(a, i), values[i])
  <2>1. Good(a, i - 1) /\ i \in 0..n /\ i \in Nat
    BY <1>1, <1>7
  <2>2. from[i] = Step(a, i)
    BY <1>1, <1>5
  <2>3. Step(a, i) \in Bindings /\ Step(a, i).parameters = q /\ Step(a, i).keys = Append(a.keys, key(a, i))
    BY <1>3, <2>1 DEF Step
  <2> HIDE DEF a
  <2>4. /\ a.keys \in Seq(Seq(Words)) /\ key(a, i) \in Seq(Words)
        /\ Extends(a.parameters, q) /\ key(a, i) \in DOMAIN q /\ q[key(a, i)] = values[i]
    BY <1>2, <2>1
  <2> HIDE DEF q
  <2>5. Extends(p, q)
    BY <2>1, <2>4, ExtendsTransitive
  <2> DEFINE keys == Append(a.keys, key(a, i))
  <2>6. /\ Len(keys) = i /\ keys[i] = key(a, i)
        /\ \A j \in 1..i - 1 : keys[j] = a.keys[j]
    BY <2>1, <2>4, AppendProperties
  <2> HIDE DEF keys
  <2>7. ASSUME NEW j \in 1..i PROVE keys[j] \in DOMAIN q /\ q[keys[j]] = values[j]
    <3>1. CASE j = i
      BY <2>4, <2>6, <3>1
    <3>2. CASE j # i
      <4>1. j \in 1..i - 1
        BY <2>1, <3>2
      <4>2. QED
        BY <2>1, <2>4, <2>6, <4>1 DEF Extends
    <3>3. QED
      BY <3>1, <3>2
  <2>8. Good(Step(a, i), i)
    BY <2>3, <2>5, <2>6, <2>7 DEF keys
  <2> HIDE DEF Good
  <2>9. QED
    BY <2>1, <2>2, <2>8
<1>8. n \in S
  <2> HIDE DEF S
  <2>1. \A i \in 0..n : i \in S
    BY <1>1, <1>6, <1>7, UpTo
  <2>2. QED
    BY <1>1, <2>1
<1>9. QED
  BY <1>4, <1>8

-----------------------------------------------------------------------------
(* A condition has the form of its expression, and its parameters have the   *)
(* values of the expression, whatever parameters there are besides.          *)

LEMMA NodeTyped ==
    ASSUME NEW n \in Node
    PROVE  /\ n.type \in {"terminal", "unary", "binary"}
           /\ n.type = "terminal" => n.comparison \in Comparisons /\ n.values \in Seq(Values \cup {Null})
           /\ n.type = "binary" => n.operator \in {"AND", "OR"} /\ n.span \in Nat
BY DEF Node

ConditionNode ==
    [op : {"IS NULL", "IS NOT NULL"}, field : Fields]
    \cup [op : Comparisons, field : Fields, keys : Seq(Seq(Words))]
    \cup [op : {"NOT"}] \cup [op : {"AND", "OR"}, span : Nat]

NullTest(n) == n.values = <<Null>> /\ ~IsList(n.comparison)

NodeFor(c, n, p) ==
    /\ n.type = "terminal" /\ NullTest(n) =>
         c.op = (IF n.comparison = "=" THEN "IS NULL" ELSE "IS NOT NULL") /\ c.field = n.property
    /\ n.type = "terminal" /\ ~NullTest(n) =>
         /\ c.op = n.comparison /\ c.field = n.property
         /\ c.keys \in Seq(Seq(Words)) /\ Len(c.keys) = Len(n.values)
         /\ \A j \in 1..Len(n.values) : c.keys[j] \in DOMAIN p /\ p[c.keys[j]] = n.values[j]
    /\ n.type = "unary" => c.op = "NOT"
    /\ n.type = "binary" => c.op = n.operator /\ c.span = n.span

ConditionFor(c, e, p) ==
    /\ c \in Seq(ConditionNode) /\ Len(c) = Len(e)
    /\ \A i \in 1..Len(e) : NodeFor(c[i], e[i], p)

LEMMA NodeForMore ==
    ASSUME NEW c, NEW n, NEW p, NEW q, Extends(p, q), NodeFor(c, n, p)
    PROVE  NodeFor(c, n, q)
BY DEF NodeFor, Extends

LEMMA ConditionForMore ==
    ASSUME NEW c, NEW e, NEW p, NEW q, Extends(p, q), ConditionFor(c, e, p)
    PROVE  ConditionFor(c, e, q)
BY NodeForMore DEF ConditionFor

Resolved(e) == e \in Seq(Node) /\ ~Unresolved(e)

LEMMA ResolvedNode ==
    ASSUME NEW e, Resolved(e), NEW i \in 1..Len(e)
    PROVE  e[i] \in Node /\ (e[i].type = "terminal" => e[i].property \in Fields)
<1>1. e[i] \in Node /\ e[i] \in ToSet(e)
  BY DEF Resolved, ToSet
<1>2. QED
  BY <1>1 DEF Resolved, Unresolved

LEMMA NodeConditionIs ==
    ASSUME NEW p \in Parameters, NEW n \in Node, n.type = "terminal" => n.property \in Fields
    PROVE  LET r == NodeCondition(n, p)
           IN  /\ r = [condition |-> r.condition, parameters |-> r.parameters]
               /\ r.condition \in ConditionNode /\ r.parameters \in Parameters
               /\ Extends(p, r.parameters) /\ NodeFor(r.condition, n, r.parameters)
<1> DEFINE r == NodeCondition(n, p)
<1>1. Extends(p, p)
  BY DEF Extends
<1>2. CASE n.type = "unary"
  <2>1. r = [condition |-> [op |-> "NOT"], parameters |-> p]
    BY <1>2 DEF NodeCondition
  <2>2. QED
    BY <1>1, <1>2, <2>1 DEF ConditionNode, NodeFor
<1>3. CASE n.type = "binary"
  <2>1. r = [condition |-> [op |-> n.operator, span |-> n.span], parameters |-> p]
    BY <1>3 DEF NodeCondition
  <2>2. n.operator \in {"AND", "OR"} /\ n.span \in Nat
    BY <1>3, NodeTyped
  <2>3. r.condition \in ConditionNode
    BY <2>1, <2>2 DEF ConditionNode
  <2>4. QED
    BY <1>1, <1>3, <2>1, <2>3 DEF NodeFor
<1>4. CASE n.type = "terminal" /\ NullTest(n)
  <2> DEFINE op == IF n.comparison = "=" THEN "IS NULL" ELSE "IS NOT NULL"
  <2>1. r = [condition |-> [op |-> op, field |-> n.property], parameters |-> p]
    BY <1>4 DEF NodeCondition, TerminalCondition, NullTest
  <2>2. op \in {"IS NULL", "IS NOT NULL"} /\ n.property \in Fields
    BY <1>4
  <2> HIDE DEF op, r
  <2>3. r.condition \in ConditionNode
    BY <2>1, <2>2 DEF ConditionNode
  <2>4. NodeFor(r.condition, n, r.parameters)
    BY <1>4, <2>1 DEF NodeFor, op
  <2>5. QED
    BY <1>1, <2>1, <2>3, <2>4 DEF r
<1>5. CASE n.type = "terminal" /\ ~NullTest(n)
  <2> DEFINE names == [i \in 1..Len(n.values) |->
                         IF IsList(n.comparison) THEN Column[n.property] \o <<"_">> \o Decimal[i - 1]
                         ELSE Column[n.property]]
             inserted == InsertParameters(p, names, n.values)
  <2>1. r = [condition |-> [op |-> n.comparison, field |-> n.property, keys |-> inserted.keys],
             parameters |-> inserted.parameters]
    BY <1>5 DEF NodeCondition, TerminalCondition, NullTest
  <2>2. n.comparison \in Comparisons /\ n.values \in Seq(Values \cup {Null}) /\ n.property \in Fields
    BY <1>5, NodeTyped
  <2>3. n.values \in Seq(Bound) /\ Len(n.values) \in Nat
    <3>1. Values \cup {Null} \subseteq Bound
      BY QueryAssumption DEF Bound
    <3>2. QED
      BY <2>2, <3>1, SeqMonotonic
  <2>4. Column[n.property] \in Seq(Words) /\ <<"_">> \in Seq(Words)
    <3>1. "_" \in Words /\ \A f \in Fields : Column[f] \in Seq(Words)
      BY QueryAssumption
    <3>2. Column[n.property] \in Seq(Words)
      BY <2>2, <3>1
    <3>3. <<"_">> \in Seq(Words)
      <4>1. \A w \in Words : <<w>> \in Seq(Words)
        OBVIOUS
      <4>2. QED
        BY <3>1, <4>1
    <3>4. QED
      BY <3>2, <3>3
  <2>5. names \in [1..Len(n.values) -> Seq(Words)]
    <3>1. ASSUME NEW i \in 1..Len(n.values)
          PROVE  Column[n.property] \o <<"_">> \o Decimal[i - 1] \in Seq(Words)
      <4>1. Decimal[i - 1] \in Seq(Words)
        BY <2>3, DecimalSteps
      <4>2. QED
        BY <2>4, <4>1, ConcatProperties
    <3>2. QED
      BY <2>4, <3>1
  <2> HIDE DEF names
  <2>6. /\ inserted \in Bindings /\ Extends(p, inserted.parameters)
        /\ Len(inserted.keys) = Len(n.values)
        /\ \A j \in 1..Len(n.values) : /\ inserted.keys[j] \in DOMAIN inserted.parameters
                                       /\ inserted.parameters[inserted.keys[j]] = n.values[j]
    BY <2>3, <2>5, Inserted
  <2> HIDE DEF inserted, r
  <2>7. inserted.keys \in Seq(Seq(Words)) /\ inserted.parameters \in Parameters
    BY <2>6 DEF Bindings
  <2>8. r.condition \in ConditionNode
    BY <2>1, <2>2, <2>7 DEF ConditionNode
  <2>9. NodeFor(r.condition, n, r.parameters)
    BY <1>5, <2>1, <2>6, <2>7 DEF NodeFor
  <2>10. QED
    BY <2>1, <2>6, <2>7, <2>8, <2>9 DEF r
<1>6. QED
  BY <1>2, <1>3, <1>4, <1>5, NodeTyped

LEMMA ConditionIs ==
    ASSUME NEW p \in Parameters, NEW e, Resolved(e)
    PROVE  LET r == Condition(e, p)
           IN  /\ r.parameters \in Parameters /\ Extends(p, r.parameters)
               /\ ConditionFor(r.condition, e, r.parameters)
<1> DEFINE n == Len(e)
           T == [condition : Seq(ConditionNode), parameters : Parameters]
           node(a, i) == NodeCondition(e[i], a.parameters)
           Step(a, i) == [condition |-> Append(a.condition, node(a, i).condition),
                          parameters |-> node(a, i).parameters]
           base == [condition |-> <<>>, parameters |-> p]
           Rec(f) == f = [i \in 0..n |-> IF i = 0 THEN base ELSE Step(f[i - 1], i)]
           from == CHOOSE f : Rec(f)
           Good(a, i) == /\ a \in T /\ Extends(p, a.parameters) /\ Len(a.condition) = i
                         /\ \A j \in 1..i : NodeFor(a.condition[j], e[j], a.parameters)
<1>1. n \in Nat /\ base \in T
  BY DEF Resolved
<1>2. ASSUME NEW a \in T, NEW i \in 1..n
      PROVE  /\ a.condition \in Seq(ConditionNode) /\ a.parameters \in Parameters
             /\ node(a, i).condition \in ConditionNode /\ node(a, i).parameters \in Parameters
             /\ Extends(a.parameters, node(a, i).parameters)
             /\ NodeFor(node(a, i).condition, e[i], node(a, i).parameters)
  <2>1. a.condition \in Seq(ConditionNode) /\ a.parameters \in Parameters
    OBVIOUS
  <2>2. e[i] \in Node /\ (e[i].type = "terminal" => e[i].property \in Fields)
    BY ResolvedNode
  <2>3. QED
    BY <2>1, <2>2, NodeConditionIs
<1> HIDE DEF node
<1>3. \A a \in T, i \in 1..n : Step(a, i) \in T
  <2> SUFFICES ASSUME NEW a \in T, NEW i \in 1..n PROVE Step(a, i) \in T
    OBVIOUS
  <2>1. Append(a.condition, node(a, i).condition) \in Seq(ConditionNode)
    BY <1>2, AppendProperties
  <2>2. QED
    BY <1>2, <2>1
<1>4. Condition(e, p) = from[n]
  BY DEF Condition, node
<1> HIDE DEF Step, base, T
<1>5. Rec(from)
  <2> DEFINE S == [q \in T \X (1..n) |-> Step(q[1], q[2])]
  <2>1. IsStep(S, n, T)
    BY <1>3 DEF IsStep
  <2>2. \A a \in T, i \in 1..n : S[<<a, i>>] = Step(a, i)
    OBVIOUS
  <2> HIDE DEF S, n
  <2>3. PICK f : Follows(f, base, S, n, T)
    BY <1>1, <2>1, StepByStep
  <2>4. \A i \in 0..n : i = 0 \/ (i \in 1..n /\ i - 1 \in 0..n)
    BY <1>1
  <2>5. \A i \in 0..n : f[i] = IF i = 0 THEN base ELSE Step(f[i - 1], i)
    BY <2>2, <2>3, <2>4 DEF Follows
  <2>6. Rec(f)
    BY <2>3, <2>5 DEF Follows
  <2> HIDE DEF Rec
  <2>7. QED
    BY <2>6
<1> HIDE DEF from
<1> DEFINE S == {i \in 0..n : Good(from[i], i)}
<1>6. 0 \in S
  <2>1. from[0] = base /\ 0 \in 0..n
    BY <1>1, <1>5
  <2>2. Good(base, 0)
    BY <1>1 DEF base, Extends
  <2>3. QED
    BY <2>1, <2>2
<1>7. ASSUME NEW i \in 1..n, i - 1 \in S PROVE i \in S
  <2> DEFINE a == from[i - 1]
             q == node(a, i).parameters
             c == Append(a.condition, node(a, i).condition)
  <2>1. Good(a, i - 1) /\ i \in 0..n /\ i \in Nat
    BY <1>1, <1>7
  <2>2. from[i] = Step(a, i)
    BY <1>1, <1>5
  <2>3. Step(a, i) \in T /\ Step(a, i).parameters = q /\ Step(a, i).condition = c
    BY <1>3, <2>1 DEF Step
  <2> HIDE DEF a
  <2>4. /\ a.condition \in Seq(ConditionNode) /\ node(a, i).condition \in ConditionNode
        /\ Extends(a.parameters, q) /\ NodeFor(node(a, i).condition, e[i], q)
    BY <1>2, <2>1
  <2> HIDE DEF q
  <2>5. Extends(p, q)
    BY <2>1, <2>4, ExtendsTransitive
  <2>6. /\ Len(c) = i /\ c[i] = node(a, i).condition
        /\ \A j \in 1..i - 1 : c[j] = a.condition[j]
    BY <2>1, <2>4, AppendProperties
  <2> HIDE DEF c
  <2>7. ASSUME NEW j \in 1..i PROVE NodeFor(c[j], e[j], q)
    <3>1. CASE j = i
      BY <2>4, <2>6, <3>1
    <3>2. CASE j # i
      <4>1. j \in 1..i - 1
        BY <2>1, <3>2
      <4>2. NodeFor(a.condition[j], e[j], a.parameters) /\ c[j] = a.condition[j]
        BY <2>1, <2>6, <4>1
      <4>3. QED
        BY <2>4, <4>2, NodeForMore
    <3>3. QED
      BY <3>1, <3>2
  <2>8. Good(Step(a, i), i)
    BY <2>3, <2>5, <2>6, <2>7
  <2> HIDE DEF Good
  <2>9. QED
    BY <2>1, <2>2, <2>8
<1>8. n \in S
  <2> HIDE DEF S
  <2>1. \A i \in 0..n : i \in S
    BY <1>1, <1>6, <1>7, UpTo
  <2>2. QED
    BY <1>1, <2>1
<1>9. QED
  BY <1>4, <1>8 DEF ConditionFor, T

-----------------------------------------------------------------------------
(* SQLite finds a condition true of a row when the expression surely holds,  *)
(* and false when it surely fails.                                           *)

LEMMA LargestOfTwo ==
    ASSUME NEW a \in Int, NEW b \in Int
    PROVE  Largest({a, b}) = IF a >= b THEN a ELSE b
<1> DEFINE m == IF a >= b THEN a ELSE b
           IsLargest(x) == x \in {a, b} /\ \A y \in {a, b} : y <= x
<1>1. IsLargest(m)
  OBVIOUS
<1>2. \A x : IsLargest(x) => x = m
  OBVIOUS
<1>3. Largest({a, b}) = CHOOSE x \in {a, b} : \A y \in {a, b} : y <= x
  BY DEF Largest
<1>4. (CHOOSE x \in {a, b} : \A y \in {a, b} : y <= x) = CHOOSE x : IsLargest(x)
  OBVIOUS
<1>5. IsLargest(CHOOSE x : IsLargest(x))
  <2> HIDE DEF IsLargest
  <2>1. QED
    BY <1>1
<1> HIDE DEF IsLargest, m
<1>6. QED
  BY <1>2, <1>3, <1>4, <1>5 DEF m

Truths == {-1, 0, 1}

LEMMA LargestTruth ==
    ASSUME NEW S \in SUBSET Truths, S # {}
    PROVE  Largest(S) \in S /\ \A y \in S : y <= Largest(S)
<1>1. \E x \in S : \A y \in S : y <= x
  <2>1. CASE 1 \in S
    BY <2>1 DEF Truths
  <2>2. CASE 1 \notin S /\ 0 \in S
    BY <2>2 DEF Truths
  <2>3. CASE 1 \notin S /\ 0 \notin S
    <3>1. \A y \in S : y = -1
      BY <2>3 DEF Truths
    <3>2. QED
      BY <3>1
  <2>4. QED
    BY <2>1, <2>2, <2>3
<1>2. QED
  BY <1>1 DEF Largest

LEMMA CompareIs ==
    ASSUME NEW a \in Values \cup {Null}, NEW b \in Values \cup {Null}, NEW op \in Comparisons, ~IsList(op)
    PROVE  /\ Compare(op, a, b) \in Truths
           /\ a = Null \/ b = Null => Compare(op, a, b) = 0
           /\ a # Null /\ b # Null =>
                /\ Compare(op, a, b) = 1 <=> Satisfies(a, op, <<b>>)
                /\ Compare(op, a, b) = -1 <=> Satisfies(a, Opposite(op), <<b>>)
<1>1. op \in {"=", "<>", "<", ">=", ">", "<=", "LIKE", "NOT LIKE"}
  BY DEF Comparisons, IsList
<1>2. a # Null /\ b # Null => a \in Int /\ b \in Int
  BY QueryAssumption
<1>3. CASE a = Null \/ b = Null
  BY <1>3 DEF Compare, Truths
<1>4. CASE a # Null /\ b # Null
  <2>1. CASE op = "="
    BY <1>4, <2>1 DEF Compare, Truth, Truths, Satisfies, Opposite
  <2>2. CASE op = "<>"
    BY <1>4, <2>2 DEF Compare, Truth, Truths, Satisfies, Opposite
  <2>3. CASE op = "<"
    BY <1>2, <1>4, <2>3 DEF Compare, Truth, Truths, Satisfies, Opposite
  <2>4. CASE op = ">="
    BY <1>2, <1>4, <2>4 DEF Compare, Truth, Truths, Satisfies, Opposite
  <2>5. CASE op = ">"
    BY <1>2, <1>4, <2>5 DEF Compare, Truth, Truths, Satisfies, Opposite
  <2>6. CASE op = "<="
    BY <1>2, <1>4, <2>6 DEF Compare, Truth, Truths, Satisfies, Opposite
  <2>7. CASE op = "LIKE"
    BY <1>4, <2>7 DEF Compare, Truth, Truths, Satisfies, Opposite
  <2>8. CASE op = "NOT LIKE"
    <3>1. Opposite(op) = "LIKE"
      BY <2>8 DEF Opposite
    <3>2. Compare(op, a, b) = Truth(<<a, b>> \notin Like)
      BY <1>4, <2>8 DEF Compare
    <3>3. /\ Satisfies(a, op, <<b>>) <=> <<a, b>> \notin Like
          /\ Satisfies(a, "LIKE", <<b>>) <=> <<a, b>> \in Like
      BY <1>4, <2>8 DEF Satisfies
    <3>4. CASE <<a, b>> \in Like
      <4>1. Compare(op, a, b) = -1
        BY <3>2, <3>4 DEF Truth
      <4>2. QED
        BY <1>4, <3>1, <3>3, <3>4, <4>1 DEF Truths
    <3>5. CASE <<a, b>> \notin Like
      <4>1. Compare(op, a, b) = 1
        BY <3>2, <3>5 DEF Truth
      <4>2. QED
        BY <1>4, <3>1, <3>3, <3>5, <4>1 DEF Truths
    <3>6. QED
      BY <3>4, <3>5
  <2>9. QED
    BY <1>1, <2>1, <2>2, <2>3, <2>4, <2>5, <2>6, <2>7, <2>8
<1>5. QED
  BY <1>3, <1>4

Agrees(v, x, comparison, values) ==
    /\ v \in Truths
    /\ v = 1 <=> Satisfies(x, comparison, values)
    /\ v = -1 <=> Satisfies(x, Opposite(comparison), values)

LEMMA NullComparesToNothing ==
    ASSUME NEW op \in Comparisons, ~IsList(op), NEW b \in Values \cup {Null}, NEW a \in Values \cup {Null},
           a = Null, b # Null
    PROVE  ~Satisfies(a, op, <<b>>) /\ ~Satisfies(a, Opposite(op), <<b>>)
<1>1. op \in {"=", "<>", "<", ">=", ">", "<=", "LIKE", "NOT LIKE"}
  BY DEF Comparisons, IsList
<1>2. QED
  BY <1>1 DEF Satisfies, Opposite

\* A list has the element, surely has not, or it is unknown.
LEMMA ListCompares ==
    ASSUME NEW x \in Values \cup {Null}, NEW values \in Seq(Values \cup {Null}), Null \notin ToSet(values),
           NEW p, NEW keys \in Seq(Seq(Words)), Len(keys) = Len(values),
           \A j \in 1..Len(values) : p[keys[j]] = values[j]
    PROVE  LET in == Largest({-1} \cup {Compare("=", x, p[k]) : k \in ToSet(keys)})
           IN  Agrees(in, x, "IN", values) /\ Agrees(-in, x, "NOT IN", values)
<1> DEFINE S == {-1} \cup {Compare("=", x, p[k]) : k \in ToSet(keys)}
           in == Largest(S)
<1>1. ASSUME NEW j \in 1..Len(values)
      PROVE  /\ values[j] \in Values \cup {Null} /\ values[j] # Null /\ values[j] \in ToSet(values)
             /\ keys[j] \in ToSet(keys) /\ p[keys[j]] = values[j]
  BY DEF ToSet
<1>2. \A k \in ToSet(keys) : \E j \in 1..Len(values) : k = keys[j]
  BY DEF ToSet
<1>3. \A v \in ToSet(values) : \E j \in 1..Len(values) : v = values[j]
  BY DEF ToSet
<1>4. \A t \in S : t = -1 \/ \E j \in 1..Len(values) : t = Compare("=", x, values[j])
  BY <1>1, <1>2
<1>5. \A j \in 1..Len(values) : Compare("=", x, values[j]) \in S
  BY <1>1
<1>6. ASSUME NEW j \in 1..Len(values)
      PROVE  Compare("=", x, values[j]) = IF x = Null THEN 0 ELSE IF x = values[j] THEN 1 ELSE -1
  BY <1>1 DEF Compare, Truth
<1>7. S \in SUBSET Truths /\ -1 \in S
  BY <1>4, <1>6 DEF Truths
<1> HIDE DEF S
<1>8. in \in S /\ \A y \in S : y <= in
  BY <1>7, LargestTruth
<1>9. in \in Truths
  BY <1>7, <1>8
<1> HIDE DEF in
<1>10. in = 1 <=> \E v \in ToSet(values) : x = v
  <2>1. ASSUME in = 1 PROVE \E v \in ToSet(values) : x = v
    <3>1. PICK j \in 1..Len(values) : in = Compare("=", x, values[j])
      BY <1>4, <1>8, <2>1
    <3>2. Compare("=", x, values[j]) = IF x = Null THEN 0 ELSE IF x = values[j] THEN 1 ELSE -1
      BY <1>6
    <3>3. x = values[j]
      BY <2>1, <3>1, <3>2
    <3>4. QED
      BY <1>1, <3>3
  <2>2. ASSUME NEW v \in ToSet(values), x = v PROVE in = 1
    <3>1. PICK j \in 1..Len(values) : v = values[j]
      BY <1>3
    <3>2. 1 \in S
      BY <1>1, <1>5, <1>6, <2>2, <3>1
    <3>3. QED
      BY <1>8, <1>9, <3>2 DEF Truths
  <2>3. QED
    BY <2>1, <2>2
<1>11. in = -1 <=> \A v \in ToSet(values) : x # v /\ (x # Null \/ v = Null)
  <2>1. ASSUME in = -1, NEW v \in ToSet(values) PROVE x # v /\ x # Null
    <3>1. PICK j \in 1..Len(values) : v = values[j]
      BY <1>3
    <3>2. Compare("=", x, values[j]) <= -1
      BY <1>5, <1>8, <2>1
    <3>3. QED
      BY <1>6, <3>1, <3>2
  <2>2. ASSUME \A v \in ToSet(values) : x # v /\ (x # Null \/ v = Null) PROVE in = -1
    <3>1. \A j \in 1..Len(values) : x # values[j] /\ x # Null
      BY <1>1, <2>2
    <3>2. \A t \in S : t = -1
      BY <1>4, <1>6, <3>1
    <3>3. QED
      BY <1>8, <3>2
  <2>3. QED
    BY <2>1, <2>2
<1>12. Agrees(in, x, "IN", values)
  BY <1>9, <1>10, <1>11 DEF Agrees, Satisfies, Opposite
<1>13. Agrees(-in, x, "NOT IN", values)
  <2>1. -in \in Truths /\ (-in = 1 <=> in = -1) /\ (-in = -1 <=> in = 1)
    BY <1>9 DEF Truths
  <2>2. QED
    BY <2>1, <1>10, <1>11 DEF Agrees, Satisfies, Opposite
<1>14. QED
  BY <1>12, <1>13 DEF in, S

Askable(e) ==
    /\ WellFormed(e) /\ Resolved(e)
    /\ ~UnsupportedExpression(e) /\ ~HasNullInList(e)

LEMMA AskableNode ==
    ASSUME NEW e, Askable(e), NEW i \in 1..Len(e)
    PROVE  /\ Len(e) \in Nat /\ e[i] \in Node
           /\ e[i].type = "terminal" =>
                /\ e[i].property \in Fields /\ e[i].comparison \in Comparisons
                /\ e[i].values \in Seq(Values \cup {Null})
                /\ IsList(e[i].comparison) => Null \notin ToSet(e[i].values)
                /\ ~IsList(e[i].comparison) => Len(e[i].values) = 1
                /\ NullTest(e[i]) => e[i].comparison \in {"=", "<>"}
           /\ e[i].type = "unary" => i - 1 \in 1..Len(e)
           /\ e[i].type = "binary" =>
                /\ e[i].operator \in {"AND", "OR"} /\ e[i].span \in 1..i - 2
                /\ i - 1 \in 1..Len(e) /\ i - 1 - e[i].span \in 1..i - 1 /\ i - 1 - e[i].span \in 1..Len(e)
<1>1. /\ e[i] \in Node /\ e[i] \in ToSet(e) /\ Len(e) \in Nat /\ i \in Nat /\ i >= 1 /\ i <= Len(e)
  BY DEF Askable, Resolved, ToSet
<1>2. /\ e[i].type = "terminal" => e[i].comparison \in Comparisons /\ e[i].values \in Seq(Values \cup {Null})
      /\ e[i].type = "binary" => e[i].operator \in {"AND", "OR"} /\ e[i].span \in Nat
  BY <1>1, NodeTyped
<1>3. e[i].type = "terminal" => e[i].property \in Fields
  BY ResolvedNode DEF Askable
<1>4. /\ e[i].type = "terminal" => IsList(e[i].comparison) \/ Len(e[i].values) = 1
      /\ e[i].type = "unary" => i > 1
      /\ e[i].type = "binary" => e[i].span \in 1..i - 2
  BY <1>1 DEF Askable, WellFormed
<1>5. e[i].type = "terminal" /\ IsList(e[i].comparison) => Null \notin ToSet(e[i].values)
  BY <1>1 DEF Askable, HasNullInList
<1>6. e[i].type = "terminal" /\ NullTest(e[i]) => e[i].comparison \in {"=", "<>"}
  BY <1>1 DEF Askable, UnsupportedExpression, NullTest
<1>7. e[i].type = "unary" => i - 1 \in 1..Len(e)
  BY <1>1, <1>4
<1>8. ASSUME e[i].type = "binary"
      PROVE  i - 1 \in 1..Len(e) /\ i - 1 - e[i].span \in 1..i - 1 /\ i - 1 - e[i].span \in 1..Len(e)
  <2> DEFINE s == e[i].span
  <2>1. s \in Nat /\ 1 <= s /\ s <= i - 2
    BY <1>1, <1>4, <1>8
  <2> HIDE DEF s
  <2>2. i - 1 \in 1..Len(e) /\ i - 1 - s \in 1..i - 1 /\ i - 1 - s \in 1..Len(e)
    BY <1>1, <2>1
  <2>3. QED
    BY <2>2 DEF s
<1>9. QED
  BY <1>1, <1>2, <1>3, <1>4, <1>5, <1>6, <1>7, <1>8

LEMMA TerminalAgrees ==
    ASSUME NEW n \in Node, n.type = "terminal", n.property \in Fields, n.comparison \in Comparisons,
           n.values \in Seq(Values \cup {Null}),
           IsList(n.comparison) => Null \notin ToSet(n.values),
           ~IsList(n.comparison) => Len(n.values) = 1,
           NullTest(n) => n.comparison \in {"=", "<>"},
           NEW c, NEW p, NodeFor(c, n, p), NEW row \in Row
    PROVE  /\ c.op \notin {"NOT", "AND", "OR"}
           /\ Agrees(Compares(c, row, p), row[n.property], n.comparison, n.values)
<1> DEFINE x == row[n.property]
<1>1. x \in Values \cup {Null}
  BY DEF Row
<1> HIDE DEF x
<1>2. CASE NullTest(n)
  <2>1. c.op = (IF n.comparison = "=" THEN "IS NULL" ELSE "IS NOT NULL") /\ c.field = n.property
    BY <1>2 DEF NodeFor
  <2>2. n.values = <<Null>> /\ n.values[1] = Null
    BY <1>2 DEF NullTest
  <2>3. c.op \notin {"NOT", "AND", "OR"}
    BY <2>1
  <2>4. CASE n.comparison = "="
    <3>1. Compares(c, row, p) = Truth(x = Null)
      <4>1. c.op = "IS NULL" /\ row[c.field] = x
        BY <2>1, <2>4 DEF x
      <4>2. QED
        BY <4>1 DEF Compares, IsList, Truth
    <3>2. Agrees(Truth(x = Null), x, n.comparison, n.values)
      BY <2>2, <2>4 DEF Agrees, Satisfies, Opposite, Truth, Truths
    <3>3. QED
      BY <2>3, <3>1, <3>2 DEF x
  <2>5. CASE n.comparison = "<>"
    <3>1. Compares(c, row, p) = Truth(x # Null)
      <4>1. c.op = "IS NOT NULL" /\ row[c.field] = x
        BY <2>1, <2>5 DEF x
      <4>2. QED
        BY <4>1 DEF Compares, IsList, Truth
    <3>2. Agrees(Truth(x # Null), x, n.comparison, n.values)
      BY <2>2, <2>5 DEF Agrees, Satisfies, Opposite, Truth, Truths
    <3>3. QED
      BY <2>3, <3>1, <3>2 DEF x
  <2>6. QED
    BY <1>2, <2>4, <2>5
<1>3. CASE ~NullTest(n) /\ IsList(n.comparison)
  <2> DEFINE in == Largest({-1} \cup {Compare("=", x, p[k]) : k \in ToSet(c.keys)})
  <2>1. /\ c.op = n.comparison /\ c.field = n.property
        /\ c.keys \in Seq(Seq(Words)) /\ Len(c.keys) = Len(n.values)
        /\ \A j \in 1..Len(n.values) : p[c.keys[j]] = n.values[j]
    BY <1>3 DEF NodeFor
  <2>2. Agrees(in, x, "IN", n.values) /\ Agrees(-in, x, "NOT IN", n.values)
    BY <1>1, <1>3, <2>1, ListCompares
  <2>3. c.op \in {"IN", "NOT IN"}
    BY <1>3, <2>1 DEF IsList
  <2>4. Compares(c, row, p) = IF c.op = "IN" THEN in ELSE -in
    BY <2>1, <2>3 DEF Compares, IsList, x
  <2> HIDE DEF in
  <2>5. QED
    BY <2>1, <2>2, <2>3, <2>4 DEF x
<1>4. CASE ~NullTest(n) /\ ~IsList(n.comparison)
  <2> DEFINE b == n.values[1]
  <2>1. n.values = <<b>> /\ b \in Values \cup {Null} /\ b # Null
    <3>1. Len(n.values) = 1
      BY <1>4
    <3>2. n.values = <<b>>
      BY <3>1
    <3>3. b \in Values \cup {Null}
      BY <3>1
    <3>4. QED
      BY <1>4, <3>2, <3>3 DEF NullTest
  <2>2. c.op = n.comparison /\ c.field = n.property /\ p[c.keys[1]] = b
    <3>1. Len(n.values) = 1
      BY <1>4
    <3>2. 1 \in 1..Len(n.values)
      BY <3>1
    <3>3. QED
      BY <1>4, <3>2 DEF NodeFor
  <2>3. n.comparison \in {"=", "<>", "<", ">=", ">", "<=", "LIKE", "NOT LIKE"}
    BY <1>4 DEF Comparisons, IsList
  <2>4. Compares(c, row, p) = Compare(n.comparison, x, b)
    BY <2>2, <2>3 DEF Compares, IsList, x
  <2> HIDE DEF b
  <2>5. Agrees(Compare(n.comparison, x, b), x, n.comparison, <<b>>)
    <3>1. CASE x = Null
      <4>1. Compare(n.comparison, x, b) = 0
        BY <1>1, <1>4, <2>1, <3>1, CompareIs
      <4>2. ~Satisfies(x, n.comparison, <<b>>) /\ ~Satisfies(x, Opposite(n.comparison), <<b>>)
        BY <1>1, <1>4, <2>1, <3>1, NullComparesToNothing
      <4>3. QED
        BY <4>1, <4>2 DEF Agrees, Truths
    <3>2. CASE x # Null
      BY <1>1, <1>4, <2>1, <3>2, CompareIs DEF Agrees
    <3>3. QED
      BY <3>1, <3>2
  <2>6. c.op \notin {"NOT", "AND", "OR"}
    BY <2>2, <2>3
  <2>7. QED
    BY <2>1, <2>4, <2>5, <2>6 DEF x
<1>5. QED
  BY <1>2, <1>3, <1>4

LEMMA WellFormedNode ==
    ASSUME NEW e, WellFormed(e), NEW i \in 1..Len(e)
    PROVE  /\ e[i] \in Node /\ e[i].type \in {"terminal", "unary", "binary"}
           /\ e[i].type = "unary" => i - 1 \in 1..Len(e)
           /\ e[i].type = "binary" =>
                /\ e[i].operator \in {"AND", "OR"} /\ e[i].span \in 1..i - 2
                /\ i - 1 \in 1..Len(e) /\ i - 1 - e[i].span \in 1..i - 1 /\ i - 1 - e[i].span \in 1..Len(e)
<1>1. e[i] \in Node /\ Len(e) \in Nat /\ i \in Nat /\ i >= 1 /\ i <= Len(e)
  BY DEF WellFormed
<1>2. e[i].type = "unary" => i > 1
  BY DEF WellFormed
<1>3. e[i].type = "binary" => e[i].span \in 1..i - 2
  BY DEF WellFormed
<1>4. e[i].type = "unary" => i - 1 \in 1..Len(e)
  BY <1>1, <1>2
<1>5. ASSUME e[i].type = "binary"
      PROVE  i - 1 \in 1..Len(e) /\ i - 1 - e[i].span \in 1..i - 1 /\ i - 1 - e[i].span \in 1..Len(e)
  <2> DEFINE s == e[i].span
  <2>1. s \in Nat /\ 1 <= s /\ s <= i - 2
    BY <1>1, <1>3, <1>5
  <2> HIDE DEF s
  <2>2. i - 1 \in 1..Len(e) /\ i - 1 - s \in 1..i - 1 /\ i - 1 - s \in 1..Len(e)
    BY <1>1, <2>1
  <2>3. QED
    BY <2>2 DEF s
<1>6. QED
  BY <1>1, <1>3, <1>4, <1>5, NodeTyped

Sure == {"holds", "fails"}

LEMMA SaysAtTyped ==
    ASSUME NEW e, WellFormed(e), NEW row, NEW i \in 1..Len(e),
           NEW f, \A j \in 1..Len(e) : j < i => f[j] \in SUBSET Sure
    PROVE  SaysAt(e, row, f, i) \in SUBSET Sure
<1>1. CASE e[i].type = "terminal"
  BY <1>1 DEF SaysAt, Sure, Verdict
<1>2. CASE e[i].type = "unary"
  BY <1>2 DEF SaysAt, Sure, Negated
<1>3. CASE e[i].type = "binary"
  <2> DEFINE l == i - 1 - e[i].span
  <2>1. l \in 1..Len(e) /\ l < i /\ i - 1 \in 1..Len(e) /\ i - 1 < i
    BY <1>3, WellFormedNode
  <2>2. f[l] \in SUBSET Sure /\ f[i - 1] \in SUBSET Sure
    BY <2>1
  <2> HIDE DEF l
  <2>3. SaysAt(e, row, f, i) = Joined(f[l], e[i].operator, f[i - 1])
    BY <1>3 DEF SaysAt, l
  <2>4. QED
    BY <2>2, <2>3 DEF Joined
<1>4. QED
  BY <1>1, <1>2, <1>3, WellFormedNode

LEMMA SaysAtBefore ==
    ASSUME NEW e, WellFormed(e), NEW row, NEW i \in 1..Len(e),
           NEW f, NEW g, \A j \in 1..Len(e) : j < i => f[j] = g[j]
    PROVE  SaysAt(e, row, f, i) = SaysAt(e, row, g, i)
<1>1. CASE e[i].type = "terminal"
  BY <1>1 DEF SaysAt
<1>2. CASE e[i].type = "unary"
  <2>1. f[i - 1] = g[i - 1]
    BY <1>2, WellFormedNode
  <2>2. QED
    BY <1>2, <2>1 DEF SaysAt
<1>3. CASE e[i].type = "binary"
  <2> DEFINE l == i - 1 - e[i].span
  <2>1. l \in 1..Len(e) /\ l < i /\ i - 1 \in 1..Len(e) /\ i - 1 < i
    BY <1>3, WellFormedNode
  <2>2. f[l] = g[l] /\ f[i - 1] = g[i - 1]
    BY <2>1
  <2>3. QED
    BY <1>3, <2>2 DEF SaysAt
<1>4. QED
  BY <1>1, <1>2, <1>3, WellFormedNode

SaysAll(e, row, f) ==
    /\ f \in [1..Len(e) -> SUBSET Sure]
    /\ \A i \in 1..Len(e) : f[i] = SaysAt(e, row, f, i)

LEMMA SaysIs ==
    ASSUME NEW e, WellFormed(e), NEW row
    PROVE  \E f : SaysAll(e, row, f) /\ Says(e, row) = f[Len(e)]
<1> DEFINE I == 1..Len(e)
           T == SUBSET Sure
           D == [q \in [I -> T] \X I |-> SaysAt(e, row, q[1], q[2])]
           Rec(f) == f = [i \in I |-> SaysAt(e, row, f, i)]
           says == CHOOSE f : Rec(f)
<1>1. I \in SUBSET Nat /\ T # {}
  OBVIOUS
<1>2. \A f \in [I -> T], i \in I : D[<<f, i>>] = SaysAt(e, row, f, i)
  OBVIOUS
<1>3. PICK f \in [I -> T] : \A i \in I : f[i] = D[<<f, i>>]
  <2>1. D \in [[I -> T] \X I -> T]
    BY SaysAtTyped
  <2>2. ASSUME NEW f \in [I -> T], NEW g \in [I -> T], NEW i \in I, \A j \in I : j < i => f[j] = g[j]
        PROVE  D[<<f, i>>] = D[<<g, i>>]
    <3>1. SaysAt(e, row, f, i) = SaysAt(e, row, g, i)
      BY <2>2, SaysAtBefore
    <3> HIDE DEF D
    <3>2. QED
      BY <1>2, <3>1
  <2> HIDE DEF D, I, T
  <2>3. Definition(D, I, T)
    BY <1>1, <2>1, <2>2 DEF Definition
  <2>4. QED
    BY <2>3, Recursion DEF Defined
<1>4. Rec(f)
  BY <1>2, <1>3
<1>5. Rec(says)
  <2> HIDE DEF Rec
  <2>1. QED
    BY <1>4
<1>6. Says(e, row) = says[Len(e)]
  BY DEF Says
<1> HIDE DEF says
<1> DEFINE S == {i \in I : says[i] \in T}
<1>7. ASSUME NEW i \in I, \A j \in I : j < i => j \in S PROVE i \in S
  <2>1. SaysAt(e, row, says, i) \in T
    BY <1>7, SaysAtTyped
  <2>2. QED
    BY <1>5, <2>1
<1>8. I \subseteq S
  <2> HIDE DEF S, I
  <2>1. QED
    BY <1>1, <1>7, Below
<1>9. QED
  BY <1>5, <1>6, <1>8 DEF SaysAll

-----------------------------------------------------------------------------
(* What the statement finds of a row is what the expression says of it.      *)

EvalAtIs(value, e, f, i, compares) ==
    /\ e[i].type = "terminal" => value = compares
    /\ e[i].type = "unary" => value = -f[i - 1]
    /\ e[i].type = "binary" /\ e[i].operator = "AND" =>
         value = -Largest({-f[i - 1 - e[i].span], -f[i - 1]})
    /\ e[i].type = "binary" /\ e[i].operator = "OR" =>
         value = Largest({f[i - 1 - e[i].span], f[i - 1]})

LEMMA EvalAtNode ==
    ASSUME NEW e, Askable(e), NEW c, NEW p, ConditionFor(c, e, p), NEW row \in Row,
           NEW i \in 1..Len(e), NEW f
    PROVE  EvalAtIs(EvalAt(c, row, p, f, i), e, f, i, Compares(c[i], row, p))
<1>1. NodeFor(c[i], e[i], p)
  BY DEF ConditionFor
<1>2. CASE e[i].type = "terminal"
  <2>1. c[i].op \notin {"NOT", "AND", "OR"}
    BY <1>1, <1>2, AskableNode, TerminalAgrees
  <2>2. QED
    BY <1>2, <2>1 DEF EvalAt, EvalAtIs
<1>3. CASE e[i].type = "unary"
  BY <1>1, <1>3 DEF EvalAt, EvalAtIs, NodeFor
<1>4. CASE e[i].type = "binary"
  <2>1. c[i].op = e[i].operator /\ c[i].span = e[i].span
    BY <1>1, <1>4 DEF NodeFor
  <2>2. QED
    BY <1>4, <2>1 DEF EvalAt, EvalAtIs
<1>5. e[i].type \in {"terminal", "unary", "binary"}
  BY AskableNode, NodeTyped
<1>6. QED
  BY <1>2, <1>3, <1>4, <1>5

LEMMA NegatedTruth == \A v \in Truths : -v \in Truths
BY DEF Truths

LEMMA LargerTruth ==
    ASSUME NEW a \in Truths, NEW b \in Truths
    PROVE  /\ Largest({a, b}) \in Truths
           /\ Largest({a, b}) = 1 <=> a = 1 \/ b = 1
           /\ Largest({a, b}) = -1 <=> a = -1 /\ b = -1
<1>1. a \in Int /\ b \in Int
  BY DEF Truths
<1>2. QED
  BY <1>1, LargestOfTwo DEF Truths

LEMMA EvalAtTyped ==
    ASSUME NEW e, Askable(e), NEW c, NEW p, ConditionFor(c, e, p), NEW row \in Row,
           NEW i \in 1..Len(e), NEW f, \A j \in 1..Len(e) : j < i => f[j] \in Truths
    PROVE  EvalAt(c, row, p, f, i) \in Truths
<1>0. EvalAtIs(EvalAt(c, row, p, f, i), e, f, i, Compares(c[i], row, p))
  BY EvalAtNode
<1>1. CASE e[i].type = "terminal"
  <2>1. NodeFor(c[i], e[i], p)
    BY DEF ConditionFor
  <2>2. Agrees(Compares(c[i], row, p), row[e[i].property], e[i].comparison, e[i].values)
    BY <1>1, <2>1, AskableNode, TerminalAgrees
  <2>3. EvalAt(c, row, p, f, i) = Compares(c[i], row, p)
    BY <1>1, <1>0 DEF EvalAtIs
  <2>4. QED
    BY <2>2, <2>3 DEF Agrees
<1>2. CASE e[i].type = "unary"
  <2>1. f[i - 1] \in Truths
    BY <1>2, AskableNode
  <2>2. EvalAt(c, row, p, f, i) = -f[i - 1]
    BY <1>2, <1>0 DEF EvalAtIs
  <2>3. QED
    BY <2>1, <2>2, NegatedTruth
<1>3. CASE e[i].type = "binary"
  <2> DEFINE l == i - 1 - e[i].span
  <2>1. l \in 1..Len(e) /\ l < i /\ i - 1 \in 1..Len(e) /\ i - 1 < i /\ e[i].operator \in {"AND", "OR"}
    BY <1>3, AskableNode
  <2>2. f[l] \in Truths /\ f[i - 1] \in Truths
    BY <2>1
  <2> DEFINE a == f[l]
             b == f[i - 1]
  <2>3. /\ e[i].operator = "AND" => EvalAt(c, row, p, f, i) = -Largest({-a, -b})
        /\ e[i].operator = "OR" => EvalAt(c, row, p, f, i) = Largest({a, b})
    BY <1>3, <1>0 DEF EvalAtIs
  <2> HIDE DEF a, b
  <2>4. -Largest({-a, -b}) \in Truths /\ Largest({a, b}) \in Truths
    BY <2>2, LargerTruth, NegatedTruth DEF a, b
  <2>5. QED
    BY <2>1, <2>3, <2>4
<1>4. e[i].type \in {"terminal", "unary", "binary"}
  BY AskableNode, NodeTyped
<1>5. QED
  BY <1>1, <1>2, <1>3, <1>4

LEMMA EvalAtBefore ==
    ASSUME NEW e, Askable(e), NEW c, NEW p, ConditionFor(c, e, p), NEW row \in Row,
           NEW i \in 1..Len(e), NEW f, NEW g, \A j \in 1..Len(e) : j < i => f[j] = g[j]
    PROVE  EvalAt(c, row, p, f, i) = EvalAt(c, row, p, g, i)
<1> DEFINE v == EvalAt(c, row, p, f, i)
           w == EvalAt(c, row, p, g, i)
           compares == Compares(c[i], row, p)
<1>1. EvalAtIs(v, e, f, i, compares) /\ EvalAtIs(w, e, g, i, compares)
  BY EvalAtNode
<1> HIDE DEF v, w, compares
<1>2. CASE e[i].type = "terminal"
  BY <1>1, <1>2 DEF EvalAtIs, v, w
<1>3. CASE e[i].type = "unary"
  <2>1. f[i - 1] = g[i - 1]
    BY <1>3, AskableNode
  <2>2. QED
    BY <1>1, <1>3, <2>1 DEF EvalAtIs, v, w
<1>4. CASE e[i].type = "binary"
  <2> DEFINE l == i - 1 - e[i].span
  <2>1. l \in 1..Len(e) /\ l < i /\ i - 1 \in 1..Len(e) /\ i - 1 < i /\ e[i].operator \in {"AND", "OR"}
    BY <1>4, AskableNode
  <2>2. f[l] = g[l] /\ f[i - 1] = g[i - 1]
    BY <2>1
  <2>3. QED
    BY <1>1, <1>4, <2>1, <2>2 DEF EvalAtIs, v, w
<1>5. e[i].type \in {"terminal", "unary", "binary"}
  BY AskableNode, NodeTyped
<1>6. QED
  BY <1>2, <1>3, <1>4, <1>5

EvalAll(e, c, row, p, f) ==
    /\ f \in [1..Len(e) -> Truths]
    /\ \A i \in 1..Len(e) : f[i] = EvalAt(c, row, p, f, i)

LEMMA EvalIs ==
    ASSUME NEW e, Askable(e), NEW c, NEW p, ConditionFor(c, e, p), NEW row \in Row
    PROVE  \E f : EvalAll(e, c, row, p, f) /\ Eval(c, row, p) = f[Len(e)]
<1> DEFINE I == 1..Len(e)
           T == Truths
           D == [q \in [I -> T] \X I |-> EvalAt(c, row, p, q[1], q[2])]
           Rec(f) == f = [i \in 1..Len(c) |-> EvalAt(c, row, p, f, i)]
           value == CHOOSE f : Rec(f)
<1>0. Len(c) = Len(e)
  BY DEF ConditionFor
<1>1. I \in SUBSET Nat /\ T # {}
  BY DEF Truths
<1>2. \A f \in [I -> T], i \in I : D[<<f, i>>] = EvalAt(c, row, p, f, i)
  OBVIOUS
<1>3. PICK f \in [I -> T] : \A i \in I : f[i] = D[<<f, i>>]
  <2>1. D \in [[I -> T] \X I -> T]
    BY EvalAtTyped
  <2>2. ASSUME NEW f \in [I -> T], NEW g \in [I -> T], NEW i \in I, \A j \in I : j < i => f[j] = g[j]
        PROVE  D[<<f, i>>] = D[<<g, i>>]
    <3>1. EvalAt(c, row, p, f, i) = EvalAt(c, row, p, g, i)
      BY <2>2, EvalAtBefore
    <3> HIDE DEF D
    <3>2. QED
      BY <1>2, <3>1
  <2> HIDE DEF D, I, T
  <2>3. Definition(D, I, T)
    BY <1>1, <2>1, <2>2 DEF Definition
  <2>4. QED
    BY <2>3, Recursion DEF Defined
<1>4. Rec(f)
  BY <1>0, <1>2, <1>3
<1>5. Rec(value)
  <2> HIDE DEF Rec
  <2>1. QED
    BY <1>4
<1>6. Eval(c, row, p) = value[Len(c)]
  BY DEF Eval
<1> HIDE DEF value
<1> DEFINE S == {i \in I : value[i] \in T}
<1>7. ASSUME NEW i \in I, \A j \in I : j < i => j \in S PROVE i \in S
  <2>1. EvalAt(c, row, p, value, i) \in T
    BY <1>7, EvalAtTyped
  <2>2. QED
    BY <1>0, <1>5, <2>1
<1>8. I \subseteq S
  <2> HIDE DEF S, I
  <2>1. QED
    BY <1>1, <1>7, Below
<1>9. QED
  BY <1>0, <1>5, <1>6, <1>8 DEF EvalAll

\* A truth value says the same as a verdict.
SameVerdict(v, verdict) ==
    v \in Truths /\ (v = 1 <=> "holds" \in verdict) /\ (v = -1 <=> "fails" \in verdict)

LEMMA AgreesVerdict ==
    ASSUME NEW v, NEW x, NEW comparison, NEW values, Agrees(v, x, comparison, values)
    PROVE  SameVerdict(v, Verdict(x, comparison, values))
BY DEF Agrees, SameVerdict, Verdict

LEMMA NegatedVerdict ==
    ASSUME NEW v, NEW verdict \in SUBSET Sure, SameVerdict(v, verdict)
    PROVE  SameVerdict(-v, Negated(verdict))
<1>1. "holds" \in Negated(verdict) <=> "fails" \in verdict
  BY DEF Negated, Sure
<1>2. "fails" \in Negated(verdict) <=> "holds" \in verdict
  BY DEF Negated, Sure
<1>3. -v \in Truths /\ (-v = 1 <=> v = -1) /\ (-v = -1 <=> v = 1)
  BY DEF SameVerdict, Truths
<1>4. QED
  BY <1>1, <1>2, <1>3 DEF SameVerdict

LEMMA JoinedVerdict ==
    ASSUME NEW a, NEW b, NEW l, NEW r, SameVerdict(a, l), SameVerdict(b, r)
    PROVE  /\ SameVerdict(-Largest({-a, -b}), Joined(l, "AND", r))
           /\ SameVerdict(Largest({a, b}), Joined(l, "OR", r))
<1>1. a \in Truths /\ b \in Truths
  BY DEF SameVerdict
<1>2. -a \in Truths /\ -b \in Truths /\ (-a = 1 <=> a = -1) /\ (-a = -1 <=> a = 1)
      /\ (-b = 1 <=> b = -1) /\ (-b = -1 <=> b = 1)
  BY <1>1 DEF Truths
<1> DEFINE m == Largest({-a, -b})
           k == Largest({a, b})
<1>3. m \in Truths /\ (m = 1 <=> -a = 1 \/ -b = 1) /\ (m = -1 <=> -a = -1 /\ -b = -1)
  BY <1>2, LargerTruth
<1>4. k \in Truths /\ (k = 1 <=> a = 1 \/ b = 1) /\ (k = -1 <=> a = -1 /\ b = -1)
  BY <1>1, LargerTruth
<1>5. /\ "holds" \in Joined(l, "AND", r) <=> "holds" \in l /\ "holds" \in r
      /\ "fails" \in Joined(l, "AND", r) <=> "fails" \in l \/ "fails" \in r
      /\ "holds" \in Joined(l, "OR", r) <=> "holds" \in l \/ "holds" \in r
      /\ "fails" \in Joined(l, "OR", r) <=> "fails" \in l /\ "fails" \in r
  BY DEF Joined
<1> HIDE DEF m, k
<1>6. -m \in Truths /\ (-m = 1 <=> m = -1) /\ (-m = -1 <=> m = 1)
  BY <1>3 DEF Truths
<1>7. SameVerdict(-m, Joined(l, "AND", r))
  BY <1>2, <1>3, <1>5, <1>6 DEF SameVerdict
<1>8. SameVerdict(k, Joined(l, "OR", r))
  BY <1>4, <1>5 DEF SameVerdict
<1>9. QED
  BY <1>7, <1>8 DEF m, k

\* SQLite finds a condition true of a row if and only if its expression says
\* that it holds, and false if and only if it says that it fails.
LEMMA ConditionTrue ==
    ASSUME NEW e, Askable(e), NEW c, NEW p, ConditionFor(c, e, p), NEW row \in Row
    PROVE  SameVerdict(Eval(c, row, p), Says(e, row))
<1> DEFINE I == 1..Len(e)
<1>1. PICK f : EvalAll(e, c, row, p, f) /\ Eval(c, row, p) = f[Len(e)]
  BY EvalIs
<1>2. PICK g : SaysAll(e, row, g) /\ Says(e, row) = g[Len(e)]
  BY SaysIs DEF Askable
<1> DEFINE S == {i \in I : SameVerdict(f[i], g[i])}
<1>3. ASSUME NEW i \in I, \A j \in I : j < i => j \in S PROVE SameVerdict(f[i], g[i])
  <2> DEFINE compares == Compares(c[i], row, p)
  <2>1. EvalAtIs(f[i], e, f, i, compares)
    <3>1. EvalAtIs(EvalAt(c, row, p, f, i), e, f, i, compares)
      BY EvalAtNode
    <3>2. QED
      BY <1>1, <3>1 DEF EvalAll
  <2>2. g[i] = SaysAt(e, row, g, i)
    BY <1>2 DEF SaysAll
  <2>3. CASE e[i].type = "terminal"
    <3>1. NodeFor(c[i], e[i], p)
      BY DEF ConditionFor
    <3>2. Agrees(compares, row[e[i].property], e[i].comparison, e[i].values)
      BY <2>3, <3>1, AskableNode, TerminalAgrees
    <3> HIDE DEF compares
    <3>3. f[i] = compares
      BY <2>1, <2>3 DEF EvalAtIs
    <3>4. g[i] = Verdict(row[e[i].property], e[i].comparison, e[i].values)
      BY <2>2, <2>3 DEF SaysAt
    <3>5. QED
      BY <3>2, <3>3, <3>4, AgreesVerdict
  <2> HIDE DEF compares
  <2>4. CASE e[i].type = "unary"
    <3>1. i - 1 \in I /\ i - 1 < i
      BY <2>4, AskableNode
    <3>2. SameVerdict(f[i - 1], g[i - 1]) /\ g[i - 1] \in SUBSET Sure
      BY <1>2, <1>3, <3>1 DEF SaysAll
    <3>3. f[i] = -f[i - 1]
      BY <2>1, <2>4 DEF EvalAtIs
    <3>4. g[i] = Negated(g[i - 1])
      BY <2>2, <2>4 DEF SaysAt
    <3>5. QED
      BY <3>2, <3>3, <3>4, NegatedVerdict
  <2>5. CASE e[i].type = "binary"
    <3> DEFINE l == i - 1 - e[i].span
               a == f[l]
               b == f[i - 1]
    <3>1. l \in I /\ l < i /\ i - 1 \in I /\ i - 1 < i /\ e[i].operator \in {"AND", "OR"}
      BY <2>5, AskableNode
    <3>2. SameVerdict(a, g[l]) /\ SameVerdict(b, g[i - 1])
      BY <1>3, <3>1
    <3>3. /\ e[i].operator = "AND" => f[i] = -Largest({-a, -b})
          /\ e[i].operator = "OR" => f[i] = Largest({a, b})
      BY <2>1, <2>5 DEF EvalAtIs
    <3>4. g[i] = Joined(g[l], e[i].operator, g[i - 1])
      BY <2>2, <2>5 DEF SaysAt
    <3> HIDE DEF a, b, l
    <3>5. SameVerdict(-Largest({-a, -b}), Joined(g[l], "AND", g[i - 1]))
      BY <3>2, JoinedVerdict
    <3>6. SameVerdict(Largest({a, b}), Joined(g[l], "OR", g[i - 1]))
      BY <3>2, JoinedVerdict
    <3>7. QED
      BY <3>1, <3>3, <3>4, <3>5, <3>6
  <2>6. e[i].type \in {"terminal", "unary", "binary"}
    BY AskableNode, NodeTyped
  <2>7. QED
    BY <2>3, <2>4, <2>5, <2>6
<1>4. I \subseteq S
  <2>1. I \in SUBSET Nat /\ \A i \in I : (\A j \in I : j < i => j \in S) => i \in S
    BY <1>3
  <2> HIDE DEF S, I
  <2>2. QED
    BY <2>1, Below
<1>5. Len(e) \in I
  <2>1. Len(e) \in Nat /\ Len(e) # 0
    BY DEF Askable, WellFormed
  <2>2. QED
    BY <2>1
<1>6. QED
  BY <1>1, <1>2, <1>4, <1>5

-----------------------------------------------------------------------------
(* Filters that are folded into one expression.                              *)

BinaryNode(operator, r) == [type |-> "binary", operator |-> operator, span |-> Len(r)]

LEMMA BinaryIs ==
    ASSUME NEW l \in Seq(Node), NEW r \in Seq(Node), NEW operator \in {"AND", "OR"}
    PROVE  LET e == Binary(l, operator, r)
           IN  /\ e \in Seq(Node) /\ Len(e) = Len(l) + Len(r) + 1
               /\ \A i \in 1..Len(l) : e[i] = l[i]
               /\ \A i \in 1..Len(r) : e[Len(l) + i] = r[i]
               /\ e[Len(e)] = BinaryNode(operator, r)
<1> DEFINE b == BinaryNode(operator, r)
           lr == l \o r
           e == Append(lr, b)
<1>1. Len(l) \in Nat /\ Len(r) \in Nat
  OBVIOUS
<1>2. b \in Node
  BY <1>1 DEF BinaryNode, Node
<1>3. /\ lr \in Seq(Node) /\ Len(lr) = Len(l) + Len(r)
      /\ \A i \in 1..Len(lr) : lr[i] = IF i <= Len(l) THEN l[i] ELSE r[i - Len(l)]
  BY ConcatProperties
<1> HIDE DEF b, lr
<1>4. Binary(l, operator, r) = lr \o <<b>>
  BY DEF Binary, BinaryNode, b, lr
<1>5. lr \o <<b>> = e
  BY <1>2, <1>3
<1>6. /\ e \in Seq(Node) /\ Len(e) = Len(lr) + 1 /\ e[Len(lr) + 1] = b
      /\ \A i \in 1..Len(lr) : e[i] = lr[i]
  <2>1. lr \in Seq(Node) /\ b \in Node
    BY <1>2, <1>3
  <2>2. QED
    BY <2>1, AppendProperties
<1> HIDE DEF e
<1>7. \A i \in 1..Len(l) : e[i] = l[i]
  BY <1>1, <1>3, <1>6
<1>8. ASSUME NEW i \in 1..Len(r) PROVE e[Len(l) + i] = r[i]
  <2>1. Len(l) + i \in 1..Len(lr) /\ ~(Len(l) + i <= Len(l)) /\ Len(l) + i - Len(l) = i
    BY <1>1, <1>3
  <2>2. QED
    BY <1>3, <1>6, <2>1
<1>9. QED
  BY <1>3, <1>4, <1>5, <1>6, <1>7, <1>8 DEF b

LEMMA BinaryWellFormed ==
    ASSUME NEW l, NEW r, WellFormed(l), WellFormed(r), NEW operator \in {"AND", "OR"}
    PROVE  WellFormed(Binary(l, operator, r))
<1> DEFINE e == Binary(l, operator, r)
           n == Len(l)
           m == Len(r)
<1>1. l \in Seq(Node) /\ r \in Seq(Node) /\ n \in Nat /\ m \in Nat /\ n >= 1 /\ m >= 1
  BY DEF WellFormed
<1>2. /\ e \in Seq(Node) /\ Len(e) = n + m + 1
      /\ \A i \in 1..n : e[i] = l[i]
      /\ \A i \in 1..m : e[n + i] = r[i]
      /\ e[Len(e)] = BinaryNode(operator, r)
  BY <1>1, BinaryIs
<1> HIDE DEF e
<1> DEFINE Sound(x, i) == CASE x.type = "terminal" -> IsList(x.comparison) \/ Len(x.values) = 1
                            [] x.type = "unary" -> i > 1
                            [] x.type = "binary" -> x.span \in 1..i - 2
<1>3. /\ \A i \in 1..n : Sound(l[i], i)
      /\ \A i \in 1..m : Sound(r[i], i)
  BY DEF WellFormed
<1>4. ASSUME NEW x \in Node, NEW i \in Nat, NEW k \in Nat, Sound(x, i) PROVE Sound(x, k + i)
  <2>1. CASE x.type = "terminal"
    BY <1>4, <2>1
  <2>2. CASE x.type = "unary"
    BY <1>4, <2>2
  <2>3. CASE x.type = "binary"
    <3>1. x.span \in Nat /\ x.span \in 1..i - 2
      BY <1>4, <2>3, NodeTyped
    <3>2. x.span \in 1..k + i - 2
      BY <3>1
    <3>3. QED
      BY <2>3, <3>2
  <2>4. QED
    BY <2>1, <2>2, <2>3, NodeTyped
<1>5. Sound(BinaryNode(operator, r), n + m + 1)
  <2>1. m \in 1..n + m + 1 - 2
    BY <1>1
  <2>2. QED
    BY <2>1 DEF BinaryNode
<1> HIDE DEF Sound
<1>6. ASSUME NEW i \in 1..Len(e) PROVE Sound(e[i], i)
  <2>1. CASE i <= n
    BY <1>1, <1>2, <1>3, <2>1
  <2>2. CASE i > n /\ i <= n + m
    <3> DEFINE j == i - n
    <3>1. j \in 1..m /\ j \in Nat /\ i = n + j
      BY <1>1, <1>2, <2>2
    <3> HIDE DEF j
    <3>2. r[j] \in Node /\ Sound(r[j], j) /\ e[i] = r[j]
      BY <1>1, <1>2, <1>3, <3>1
    <3>3. QED
      BY <1>1, <1>4, <3>1, <3>2
  <2>3. CASE i = n + m + 1
    <3>1. e[i] = BinaryNode(operator, r)
      BY <1>2, <2>3
    <3>2. QED
      BY <1>5, <2>3, <3>1
  <2>4. i <= n \/ (i > n /\ i <= n + m) \/ i = n + m + 1
    <3>1. Len(e) = n + m + 1
      BY <1>2
    <3>2. QED
      BY <1>1, <3>1
  <2>5. QED
    BY <2>1, <2>2, <2>3, <2>4
<1>7. e # <<>>
  BY <1>1, <1>2
<1>8. WellFormed(e)
  BY <1>2, <1>6, <1>7 DEF WellFormed, Sound
<1>9. QED
  BY <1>8 DEF e

LEMMA BinaryNodes ==
    ASSUME NEW l \in Seq(Node), NEW r \in Seq(Node), NEW operator \in {"AND", "OR"},
           NEW n \in ToSet(Binary(l, operator, r)), n.type = "terminal"
    PROVE  n \in ToSet(l) \/ n \in ToSet(r)
<1> DEFINE e == Binary(l, operator, r)
<1>1. Len(l) \in Nat /\ Len(r) \in Nat
  OBVIOUS
<1>2. /\ e \in Seq(Node) /\ Len(e) = Len(l) + Len(r) + 1
      /\ \A i \in 1..Len(l) : e[i] = l[i]
      /\ \A i \in 1..Len(r) : e[Len(l) + i] = r[i]
      /\ e[Len(e)] = BinaryNode(operator, r)
  BY BinaryIs
<1>3. PICK i \in 1..Len(e) : n = e[i]
  BY <1>2 DEF ToSet
<1> HIDE DEF e
<1>4. i # Len(e)
  BY <1>2, <1>3 DEF BinaryNode
<1>5. CASE i <= Len(l)
  <2>1. i \in 1..Len(l)
    BY <1>1, <1>2, <1>5
  <2>2. QED
    BY <1>2, <1>3, <2>1 DEF ToSet
<1>6. CASE ~(i <= Len(l))
  <2> DEFINE j == i - Len(l)
  <2>1. j \in 1..Len(r) /\ i = Len(l) + j
    <3>1. Len(e) = Len(l) + Len(r) + 1
      BY <1>2
    <3>2. QED
      BY <1>1, <1>4, <1>6, <3>1
  <2> HIDE DEF j
  <2>2. QED
    BY <1>2, <1>3, <2>1 DEF ToSet
<1>7. QED
  BY <1>5, <1>6

\* A part of an expression says what it says alone.
LEMMA PartSays ==
    ASSUME NEW e, WellFormed(e), NEW x, WellFormed(x), NEW row, NEW k \in Nat,
           k + Len(e) <= Len(x), \A i \in 1..Len(e) : x[k + i] = e[i],
           NEW f, NEW g, SaysAll(x, row, f), SaysAll(e, row, g)
    PROVE  f[k + Len(e)] = g[Len(e)]
<1> DEFINE I == 1..Len(e)
           S == {i \in I : f[k + i] = g[i]}
<1>0. Len(e) \in Nat /\ Len(x) \in Nat /\ Len(e) >= 1
  BY DEF WellFormed
<1>1. \A i \in I : k + i \in 1..Len(x)
  BY <1>0
<1>2. ASSUME NEW i \in I, \A j \in I : j < i => j \in S PROVE f[k + i] = g[i]
  <2>1. f[k + i] = SaysAt(x, row, f, k + i) /\ g[i] = SaysAt(e, row, g, i) /\ x[k + i] = e[i]
    BY <1>1 DEF SaysAll
  <2>2. CASE e[i].type = "terminal"
    BY <2>1, <2>2 DEF SaysAt
  <2>3. CASE e[i].type = "unary"
    <3>1. i - 1 \in I /\ i - 1 < i
      BY <2>3, WellFormedNode
    <3>2. f[k + (i - 1)] = g[i - 1] /\ k + (i - 1) = k + i - 1
      BY <1>2, <3>1
    <3>3. f[k + i - 1] = g[i - 1]
      BY <3>2
    <3>4. SaysAt(x, row, f, k + i) = Negated(f[k + i - 1])
      BY <2>1, <2>3 DEF SaysAt
    <3>5. SaysAt(e, row, g, i) = Negated(g[i - 1])
      BY <2>3 DEF SaysAt
    <3>6. QED
      BY <2>1, <3>3, <3>4, <3>5
  <2>4. CASE e[i].type = "binary"
    <3> DEFINE s == e[i].span
    <3>0. i - 1 \in I /\ i - 1 - s \in 1..i - 1 /\ i - 1 - s \in I /\ s \in 1..i - 2
      BY <2>4, WellFormedNode
    <3>1. /\ i - 1 \in I /\ i - 1 < i /\ i - 1 - s \in I /\ i - 1 - s < i /\ s \in Nat
      <4> HIDE DEF s
      <4>1. QED
        BY <1>0, <3>0
    <3>2. f[k + (i - 1)] = g[i - 1] /\ f[k + (i - 1 - s)] = g[i - 1 - s]
      BY <1>2, <3>1
    <3> HIDE DEF s
    <3>3. k + (i - 1) = (k + i) - 1 /\ k + (i - 1 - s) = (k + i) - 1 - s
      BY <3>1
    <3>4. f[(k + i) - 1] = g[i - 1] /\ f[(k + i) - 1 - s] = g[i - 1 - s]
      BY <3>2, <3>3
    <3>5. SaysAt(x, row, f, k + i) = Joined(f[(k + i) - 1 - s], e[i].operator, f[(k + i) - 1])
      <4>1. x[k + i].type = "binary" /\ x[k + i].span = s /\ x[k + i].operator = e[i].operator
        BY <2>1, <2>4 DEF s
      <4>2. QED
        BY <4>1 DEF SaysAt
    <3>6. SaysAt(e, row, g, i) = Joined(g[i - 1 - s], e[i].operator, g[i - 1])
      BY <2>4 DEF SaysAt, s
    <3>7. QED
      BY <2>1, <3>4, <3>5, <3>6
  <2>5. QED
    BY <2>2, <2>3, <2>4, WellFormedNode
<1>3. I \subseteq S
  <2>1. I \in SUBSET Nat /\ \A i \in I : (\A j \in I : j < i => j \in S) => i \in S
    BY <1>2
  <2> HIDE DEF S, I
  <2>2. QED
    BY <2>1, Below
<1>4. QED
  BY <1>0, <1>3

LEMMA BinarySays ==
    ASSUME NEW l, NEW r, WellFormed(l), WellFormed(r), NEW operator \in {"AND", "OR"}, NEW row
    PROVE  Says(Binary(l, operator, r), row) = Joined(Says(l, row), operator, Says(r, row))
<1> DEFINE e == Binary(l, operator, r)
           n == Len(l)
           m == Len(r)
<1>1. l \in Seq(Node) /\ r \in Seq(Node) /\ n \in Nat /\ m \in Nat /\ n >= 1 /\ m >= 1
  BY DEF WellFormed
<1>2. /\ e \in Seq(Node) /\ Len(e) = n + m + 1
      /\ \A i \in 1..n : e[i] = l[i]
      /\ \A i \in 1..m : e[n + i] = r[i]
      /\ e[Len(e)] = BinaryNode(operator, r)
  BY <1>1, BinaryIs
<1>3. WellFormed(e)
  BY BinaryWellFormed
<1> HIDE DEF e
<1>4. PICK f : SaysAll(e, row, f) /\ Says(e, row) = f[Len(e)]
  BY <1>3, SaysIs
<1>5. PICK g : SaysAll(l, row, g) /\ Says(l, row) = g[Len(l)]
  BY SaysIs
<1>6. PICK h : SaysAll(r, row, h) /\ Says(r, row) = h[Len(r)]
  BY SaysIs
<1>7. f[n] = g[n]
  <2> DEFINE k == 0
  <2>1. k \in Nat /\ k + Len(l) <= Len(e) /\ \A i \in 1..Len(l) : e[k + i] = l[i]
    BY <1>1, <1>2
  <2>2. k + Len(l) = n
    BY <1>1
  <2> HIDE DEF k
  <2>3. f[k + Len(l)] = g[Len(l)]
    BY <1>3, <1>4, <1>5, <2>1, PartSays
  <2>4. QED
    BY <2>2, <2>3
<1>8. f[n + m] = h[m]
  <2>1. n + Len(r) <= Len(e) /\ \A i \in 1..Len(r) : e[n + i] = r[i]
    BY <1>1, <1>2
  <2>2. QED
    BY <1>1, <1>3, <1>4, <1>6, <2>1, PartSays
<1>9. f[Len(e)] = SaysAt(e, row, f, Len(e))
  BY <1>1, <1>2, <1>4 DEF SaysAll
<1>10. SaysAt(e, row, f, Len(e)) = Joined(f[Len(e) - 1 - m], operator, f[Len(e) - 1])
  BY <1>2 DEF SaysAt, BinaryNode
<1>11. Len(e) - 1 - m = n /\ Len(e) - 1 = n + m
  BY <1>1, <1>2
<1>12. QED
  BY <1>4, <1>5, <1>6, <1>7, <1>8, <1>9, <1>10, <1>11 DEF e

\* Whether an expression says of a row what all of some expressions say.
SaysAllOf(e, E, row) == "holds" \in Says(e, row) <=> \A x \in E : "holds" \in Says(x, row)

Folds(e, E) ==
    /\ e \in Seq(Node) /\ (e = <<>> <=> E = {})
    /\ e # <<>> => WellFormed(e) /\ \A row : SaysAllOf(e, E, row)
    /\ \A n \in ToSet(e) : n.type = "terminal" => \E x \in E : n \in ToSet(x)

LEMMA FoldsOne ==
    ASSUME NEW x, WellFormed(x)
    PROVE  Folds(x, {x})
<1>1. x \in Seq(Node) /\ x # <<>>
  BY DEF WellFormed
<1>2. QED
  BY <1>1 DEF Folds, SaysAllOf

LEMMA FoldsMore ==
    ASSUME NEW e, NEW E, Folds(e, E), e # <<>>, NEW x, WellFormed(x)
    PROVE  Folds(Binary(e, "AND", x), E \cup {x})
<1> DEFINE b == Binary(e, "AND", x)
<1>1. e \in Seq(Node) /\ WellFormed(e) /\ E # {}
  BY DEF Folds
<1>2. x \in Seq(Node)
  BY DEF WellFormed
<1>3. WellFormed(b)
  BY <1>1, BinaryWellFormed
<1>4. b \in Seq(Node) /\ b # <<>>
  BY <1>3 DEF WellFormed
<1>5. ASSUME NEW row PROVE SaysAllOf(b, E \cup {x}, row)
  <2>1. Says(b, row) = Joined(Says(e, row), "AND", Says(x, row))
    BY <1>1, BinarySays
  <2> HIDE DEF b
  <2>2. SaysAllOf(e, E, row)
    BY DEF Folds
  <2>3. "holds" \in Says(b, row) <=> "holds" \in Says(e, row) /\ "holds" \in Says(x, row)
    BY <2>1 DEF Joined
  <2>4. QED
    BY <2>2, <2>3 DEF SaysAllOf
<1>6. ASSUME NEW n \in ToSet(b), n.type = "terminal" PROVE \E y \in E \cup {x} : n \in ToSet(y)
  <2>1. n \in ToSet(e) \/ n \in ToSet(x)
    BY <1>1, <1>2, <1>6, BinaryNodes
  <2>2. QED
    BY <1>6, <2>1 DEF Folds
<1> HIDE DEF b
<1>7. Folds(b, E \cup {x})
  BY <1>3, <1>4, <1>5, <1>6 DEF Folds
<1>8. QED
  BY <1>7 DEF b

LEMMA FilterIs ==
    ASSUME NEW f \in Filters
    PROVE  \/ f.type = "expression" /\ WellFormed(f.expression)
           \/ f.type = "invokable" /\ f.accepts \subseteq Row
BY QueryAssumption

\* The filters of a query are one expression that holds when all of them do.
LEMMA FoldIs ==
    ASSUME NEW filters \in Seq(Filters)
    PROVE  Folds(FoldExpressions(filters), ExpressionsIn(filters))
<1> DEFINE n == Len(filters)
           T == Seq(Node)
           Step(a, i) == IF filters[i].type = "invokable" THEN a
                         ELSE IF a = <<>> THEN filters[i].expression
                         ELSE Binary(a, "AND", filters[i].expression)
           base == <<>>
           Rec(f) == f = [i \in 0..n |-> IF i = 0 THEN base ELSE Step(f[i - 1], i)]
           folded == CHOOSE f : Rec(f)
           E(i) == {filters[j].expression : j \in {k \in 1..i : filters[k].type = "expression"}}
<1>1. n \in Nat /\ base \in T
  OBVIOUS
<1>2. ASSUME NEW i \in 1..n
      PROVE  \/ filters[i].type = "expression" /\ WellFormed(filters[i].expression)
             \/ filters[i].type = "invokable"
  <2>1. filters[i] \in Filters
    OBVIOUS
  <2>2. QED
    BY <2>1, FilterIs
<1>3. ASSUME NEW a \in T, NEW i \in 1..n PROVE Step(a, i) \in T
  <2> DEFINE x == filters[i].expression
  <2>1. CASE filters[i].type = "invokable"
    BY <2>1
  <2>2. CASE filters[i].type # "invokable"
    <3>1. x \in Seq(Node)
      BY <1>2, <2>2 DEF WellFormed
    <3> HIDE DEF x
    <3>2. Binary(a, "AND", x) \in Seq(Node)
      BY <3>1, BinaryIs
    <3>3. Step(a, i) = IF a = <<>> THEN x ELSE Binary(a, "AND", x)
      BY <2>2 DEF x
    <3> HIDE DEF Step
    <3>4. QED
      BY <3>1, <3>2, <3>3
  <2>3. QED
    BY <2>1, <2>2
<1>4. FoldExpressions(filters) = folded[n]
  BY DEF FoldExpressions
<1> HIDE DEF Step, base, T
<1>5. Rec(folded)
  <2> DEFINE S == [q \in T \X (1..n) |-> Step(q[1], q[2])]
  <2>1. IsStep(S, n, T)
    BY <1>3 DEF IsStep
  <2>2. \A a \in T, i \in 1..n : S[<<a, i>>] = Step(a, i)
    OBVIOUS
  <2> HIDE DEF S, n
  <2>3. PICK f : Follows(f, base, S, n, T)
    BY <1>1, <2>1, StepByStep
  <2>4. \A i \in 0..n : i = 0 \/ (i \in 1..n /\ i - 1 \in 0..n)
    BY <1>1
  <2>5. \A i \in 0..n : f[i] = IF i = 0 THEN base ELSE Step(f[i - 1], i)
    BY <2>2, <2>3, <2>4 DEF Follows
  <2>6. Rec(f)
    BY <2>3, <2>5 DEF Follows
  <2> HIDE DEF Rec
  <2>7. QED
    BY <2>6
<1> HIDE DEF folded
<1> DEFINE S == {i \in 0..n : Folds(folded[i], E(i))}
<1>6. 0 \in S
  <2>1. folded[0] = base /\ 0 \in 0..n
    BY <1>1, <1>5
  <2>2. E(0) = {}
    OBVIOUS
  <2>3. Folds(base, {})
    BY DEF base, Folds, ToSet
  <2> HIDE DEF E
  <2>4. QED
    BY <2>1, <2>2, <2>3
<1>7. ASSUME NEW i \in 1..n, i - 1 \in S PROVE i \in S
  <2> DEFINE a == folded[i - 1]
             x == filters[i].expression
  <2>1. Folds(a, E(i - 1)) /\ i \in 0..n /\ i \in Nat
    BY <1>1, <1>7
  <2>2. folded[i] = Step(a, i)
    BY <1>1, <1>5
  <2>3. \A j \in 1..i : j \in 1..i - 1 \/ j = i
    BY <2>1
  <2>4. \A j \in 1..i - 1 : j \in 1..i
    BY <2>1
  <2>5. i \in 1..i
    BY <1>1
  <2>6. CASE filters[i].type = "invokable"
    <3>1. E(i) = E(i - 1)
      BY <2>3, <2>4, <2>6
    <3>2. Step(a, i) = a
      BY <2>6 DEF Step
    <3> HIDE DEF E, a
    <3>3. QED
      BY <2>1, <2>2, <3>1, <3>2
  <2>7. CASE filters[i].type # "invokable"
    <3>1. filters[i].type = "expression" /\ WellFormed(x)
      BY <1>2, <2>7
    <3>2. E(i) = E(i - 1) \cup {x}
      BY <2>3, <2>4, <2>5, <3>1
    <3>3. Step(a, i) = IF a = <<>> THEN x ELSE Binary(a, "AND", x)
      BY <2>7 DEF Step
    <3> HIDE DEF E, a, x, S
    <3>4. CASE a = <<>>
      <4>1. E(i - 1) = {}
        BY <2>1, <3>4 DEF Folds
      <4>2. Folds(x, {x})
        BY <3>1, FoldsOne
      <4>3. E(i) = {x} /\ folded[i] = x
        BY <2>2, <3>2, <3>3, <3>4, <4>1
      <4>4. Folds(folded[i], E(i))
        BY <4>2, <4>3
      <4>5. QED
        BY <2>1, <4>4 DEF S
    <3>5. CASE a # <<>>
      <4>1. Folds(Binary(a, "AND", x), E(i - 1) \cup {x})
        BY <2>1, <3>1, <3>5, FoldsMore
      <4>2. Folds(folded[i], E(i))
        BY <2>2, <3>2, <3>3, <3>5, <4>1
      <4>3. QED
        BY <2>1, <4>2 DEF S
    <3>6. QED
      BY <3>4, <3>5
  <2>8. QED
    BY <2>6, <2>7
<1>8. n \in S
  <2> HIDE DEF S
  <2>1. \A i \in 0..n : i \in S
    BY <1>1, <1>6, <1>7, UpTo
  <2>2. QED
    BY <1>1, <2>1
<1>9. E(n) = ExpressionsIn(filters)
  BY DEF ExpressionsIn, ToSet
<1>10. QED
  <2> HIDE DEF E
  <2>1. QED
    BY <1>4, <1>8, <1>9

-----------------------------------------------------------------------------
(* LIMIT and OFFSET cut a page out of the sorted rows.                       *)

LimitTyped(limit) == limit \in Limits \cup {None}
OffsetTyped(offset) == offset \in Offsets \cup {None}

\* The parameters of the clause have the values that were asked for.
CutFor(keys, limit, offset, p) ==
    /\ offset # None =>
         /\ Len(keys) = 2 /\ keys[1] \in DOMAIN p /\ keys[2] \in DOMAIN p
         /\ p[keys[1]] = (IF limit = None THEN -1 ELSE limit)
         /\ p[keys[2]] = offset
    /\ offset = None /\ limit # None => Len(keys) = 1 /\ keys[1] \in DOMAIN p /\ p[keys[1]] = limit
    /\ offset = None /\ limit = None => Len(keys) = 0

LEMMA CutForMore ==
    ASSUME NEW keys, NEW limit, NEW offset, NEW p, NEW q, Extends(p, q), CutFor(keys, limit, offset, p)
    PROVE  CutFor(keys, limit, offset, q)
BY DEF CutFor, Extends

LEMMA LimitTypedIs ==
    ASSUME NEW limit, LimitTyped(limit), NEW offset, OffsetTyped(offset)
    PROVE  /\ limit = None \/ limit \in Int
           /\ offset = None \/ offset \in Int
BY QueryAssumption DEF LimitTyped, OffsetTyped

LEMMA LimitOffsetIs ==
    ASSUME NEW p \in Parameters, NEW limit, LimitTyped(limit), NEW offset, OffsetTyped(offset)
    PROVE  LET r == LimitOffset(limit, offset, p)
           IN  /\ r \in Bindings /\ Extends(p, r.parameters)
               /\ CutFor(r.keys, limit, offset, r.parameters)
<1> DEFINE r == LimitOffset(limit, offset, p)
           first == IF limit = None THEN -1 ELSE limit
           l == <<"limit">>
           o == <<"offset">>
<1>1. first \in Bound /\ (offset = None \/ offset \in Bound) /\ (limit = None \/ limit \in Bound)
  BY LimitTypedIs DEF Bound
<1>2. l \in Seq(Words) /\ o \in Seq(Words)
  <2>1. "limit" \in Words /\ "offset" \in Words
    BY QueryAssumption
  <2>2. \A w \in Words : <<w>> \in Seq(Words)
    OBVIOUS
  <2>3. QED
    BY <2>1, <2>2
<1> HIDE DEF l, o
<1>3. CASE offset # None
  <2> DEFINE values == <<first, offset>>
             names == <<l, o>>
  <2>1. r = InsertParameters(p, names, values)
    BY <1>3 DEF LimitOffset, l, o
  <2> HIDE DEF first
  <2>2. values \in Seq(Bound) /\ Len(values) = 2 /\ values[1] = first /\ values[2] = offset
    BY <1>1, <1>3
  <2>3. names \in [1..Len(values) -> Seq(Words)]
    <3>1. names \in [1..2 -> Seq(Words)]
      BY <1>2
    <3>2. QED
      BY <2>2, <3>1
  <2> HIDE DEF values, names, r
  <2>4. /\ r \in Bindings /\ Extends(p, r.parameters) /\ Len(r.keys) = Len(values)
        /\ \A i \in 1..Len(values) : r.keys[i] \in DOMAIN r.parameters /\ r.parameters[r.keys[i]] = values[i]
    BY <2>1, <2>2, <2>3, Inserted
  <2>5. CutFor(r.keys, limit, offset, r.parameters)
    BY <1>3, <2>2, <2>4 DEF CutFor, first
  <2>6. QED
    BY <2>4, <2>5 DEF r
<1>4. CASE offset = None /\ limit # None
  <2> DEFINE values == <<limit>>
             names == <<l>>
  <2>1. r = InsertParameters(p, names, values)
    BY <1>4 DEF LimitOffset, l
  <2>2. values \in Seq(Bound) /\ Len(values) = 1 /\ values[1] = limit
    BY <1>1, <1>4
  <2>3. names \in [1..Len(values) -> Seq(Words)]
    <3>1. names \in [1..1 -> Seq(Words)]
      BY <1>2
    <3>2. QED
      BY <2>2, <3>1
  <2> HIDE DEF values, names, r
  <2>4. /\ r \in Bindings /\ Extends(p, r.parameters) /\ Len(r.keys) = Len(values)
        /\ \A i \in 1..Len(values) : r.keys[i] \in DOMAIN r.parameters /\ r.parameters[r.keys[i]] = values[i]
    BY <2>1, <2>2, <2>3, Inserted
  <2>5. CutFor(r.keys, limit, offset, r.parameters)
    BY <1>4, <2>2, <2>4 DEF CutFor
  <2>6. QED
    BY <2>4, <2>5 DEF r
<1>5. CASE offset = None /\ limit = None
  <2> DEFINE values == <<>>
  <2>1. r = InsertParameters(p, values, values)
    BY <1>5 DEF LimitOffset
  <2>2. values \in Seq(Bound) /\ Len(values) = 0 /\ values \in [1..0 -> Seq(Words)]
    OBVIOUS
  <2> HIDE DEF values, r
  <2>3. r \in Bindings /\ Extends(p, r.parameters) /\ Len(r.keys) = 0
    BY <2>1, <2>2, Inserted
  <2>4. CutFor(r.keys, limit, offset, r.parameters)
    BY <1>5, <2>3 DEF CutFor
  <2>5. QED
    BY <2>3, <2>4 DEF r
<1>6. QED
  BY <1>3, <1>4, <1>5

Skipped(offset) == IF offset = None \/ offset < 0 THEN 0 ELSE offset
Left(n, offset) == IF n >= Skipped(offset) THEN n - Skipped(offset) ELSE 0
PageLength(n, limit, offset) ==
    IF limit = None \/ limit < 0 \/ limit > Left(n, offset) THEN Left(n, offset) ELSE limit

IsCut(c, s, S, limit, offset) ==
    /\ c \in Seq(S) /\ Len(c) = PageLength(Len(s), limit, offset)
    /\ \A i \in 1..Len(c) : Skipped(offset) + i \in 1..Len(s) /\ c[i] = s[Skipped(offset) + i]

LEMMA CutIs ==
    ASSUME NEW keys, NEW p, NEW limit, LimitTyped(limit), NEW offset, OffsetTyped(offset),
           CutFor(keys, limit, offset, p), NEW S, NEW s \in Seq(S)
    PROVE  IsCut(Cut(s, keys, p), s, S, limit, offset)
<1> DEFINE n == Len(s)
           l == IF Len(keys) = 0 THEN -1 ELSE p[keys[1]]
           o == IF Len(keys) < 2 THEN 0 ELSE p[keys[2]]
           d == Skipped(offset)
           first == 1 + Largest({0, o})
           last == IF l < 0 \/ first + l - 1 > n THEN n ELSE first + l - 1
           c == SubSeq(s, first, last)
<1>1. (limit = None \/ limit \in Int) /\ (offset = None \/ offset \in Int) /\ n \in Nat /\ None \notin Int
  <2>1. None \notin Int
    BY QueryAssumption
  <2>2. (limit = None \/ limit \in Int) /\ (offset = None \/ offset \in Int)
    BY LimitTypedIs
  <2>3. QED
    BY <2>1, <2>2
<1>2. /\ l \in Int /\ (l < 0 <=> limit = None \/ limit < 0) /\ (limit # None => l = limit)
      /\ o = IF offset = None THEN 0 ELSE offset
  BY <1>1 DEF CutFor
<1>3. Cut(s, keys, p) = c
  BY DEF Cut
<1> HIDE DEF l, o
<1>4. first = 1 + d /\ d \in Nat
  <2>1. o \in Int
    BY <1>1, <1>2
  <2>2. Largest({0, o}) = IF 0 >= o THEN 0 ELSE o
    BY <2>1, LargestOfTwo
  <2> DEFINE m == Largest({0, o})
  <2>3. m = d
    BY <1>1, <1>2, <2>1, <2>2 DEF Skipped
  <2>4. d \in Nat
    BY <1>1 DEF Skipped
  <2> HIDE DEF m, d
  <2>5. QED
    BY <2>3, <2>4 DEF m
<1> HIDE DEF first, d, n
<1>5. last = (IF l < 0 \/ d + l > n THEN n ELSE d + l) /\ last \in Int /\ last <= n
  BY <1>1, <1>2, <1>4
<1> HIDE DEF last
<1>6. \A i \in first..last : s[i] \in S
  BY <1>1, <1>4, <1>5 DEF n
<1>7. /\ c \in Seq(S) /\ Len(c) = (IF first <= last THEN last - first + 1 ELSE 0)
      /\ \A i \in 1..last - first + 1 : c[i] = s[first + i - 1]
  BY <1>1, <1>4, <1>5, <1>6, SubSeqProperties
<1> HIDE DEF c
<1>8. Len(c) = PageLength(n, limit, offset)
  <2>1. Len(c) = IF last > d THEN last - d ELSE 0
    BY <1>4, <1>5, <1>7
  <2>2. n \in Nat /\ d \in Nat
    BY <1>1, <1>4
  <2> DEFINE left == Left(n, offset)
  <2>3. left = (IF n >= d THEN n - d ELSE 0) /\ left \in Nat
    BY <2>2 DEF Left, d
  <2> HIDE DEF left
  <2>4. Len(c) = IF l < 0 \/ l > left THEN left ELSE l
    BY <1>2, <1>5, <2>1, <2>2, <2>3
  <2>5. PageLength(n, limit, offset) = IF limit = None \/ limit < 0 \/ limit > left THEN left ELSE limit
    BY DEF PageLength, left
  <2>6. QED
    BY <1>1, <1>2, <2>3, <2>4, <2>5
<1>9. ASSUME NEW i \in 1..Len(c) PROVE d + i \in 1..n /\ c[i] = s[d + i]
  <2>1. i \in 1..last - first + 1 /\ first + i - 1 = d + i /\ d + i \in 1..n
    BY <1>1, <1>4, <1>5, <1>7
  <2>2. QED
    BY <1>7, <2>1
<1>10. QED
  BY <1>3, <1>7, <1>8, <1>9 DEF d, n, IsCut

LEMMA BeforeIrreflexive ==
    ASSUME NEW row \in Row, NEW order \in Seq(Orders)
    PROVE  ~Before(row, row, order)
<1>1. SUFFICES ASSUME NEW i \in 1..Len(order),
                      \/ Less(row[order[i].field], row[order[i].field])
               PROVE  FALSE
  BY DEF Before
<1>2. order[i] \in Orders
  OBVIOUS
<1>3. order[i].field \in Fields
  BY <1>2, QueryAssumption
<1> DEFINE x == row[order[i].field]
<1>4. x \in Values \cup {Null}
  BY <1>3 DEF Row
<1>5. Values \subseteq Int
  BY QueryAssumption
<1> HIDE DEF x
<1>6. Less(x, x)
  BY <1>1 DEF x
<1>7. QED
  BY <1>4, <1>5, <1>6 DEF Less

InOrder(a, order) == \A i, j \in 1..Len(a) : i < j => ~Before(a[j], a[i], order)

LEMMA SortingIs ==
    ASSUME NEW rows, IsFiniteSet(rows), NEW order, NEW a \in Sortings(rows, order)
    PROVE  /\ a \in Seq(rows) /\ Len(a) = Cardinality(rows) /\ Len(a) \in Nat
           /\ \A i, j \in 1..Len(a) : a[i] = a[j] => i = j
           /\ \A r \in rows : \E i \in 1..Len(a) : a[i] = r
           /\ InOrder(a, order)
<1> DEFINE n == Cardinality(rows)
<1>1. n \in Nat
  BY FS_CardinalityType
<1>2. a \in SetToSeqs(rows) /\ InOrder(a, order)
  BY DEF Sortings, InOrder
<1>3. a \in [1..n -> rows] /\ \A i, j \in 1..n : i # j => a[i] # a[j]
  BY <1>2 DEF SetToSeqs
<1>4. a \in Seq(rows) /\ Len(a) = n
  BY <1>1, <1>3
<1>5. \A r \in rows : \E i \in 1..n : a[i] = r
  <2>1. a \in Injection(1..n, rows)
    BY <1>3 DEF Injection, IsInjective
  <2>2. Cardinality(1..n) = n
    BY <1>1, FS_Interval
  <2>3. a \in Surjection(1..n, rows)
    BY <2>1, <2>2, FS_Injection
  <2>4. QED
    BY <2>3 DEF Surjection
<1>6. QED
  BY <1>1, <1>2, <1>3, <1>4, <1>5

\* How many elements the first or the last indices of a sequence have.
LEMMA CountedByIndex ==
    ASSUME NEW a, NEW n \in Nat, \A i, j \in 1..n : a[i] = a[j] => i = j,
           NEW S,
           \A i \in 1..n : a[i] \in S, \A x \in S : \E i \in 1..n : a[i] = x
    PROVE  IsFiniteSet(S) /\ Cardinality(S) = n
<1> DEFINE f == [i \in 1..n |-> a[i]]
<1>1. f \in Surjection(1..n, S) /\ f \in Injection(1..n, S)
  BY DEF Surjection, Injection, IsInjective
<1>2. IsFiniteSet(1..n) /\ Cardinality(1..n) = n
  BY FS_Interval
<1> HIDE DEF f
<1>3. QED
  BY <1>1, <1>2, FS_Surjection

\* A page of a sorting of the rows.
LEMMA CutIsPage ==
    ASSUME NEW rows \in SUBSET Row, IsFiniteSet(rows), NEW order \in Seq(Orders),
           NEW limit, LimitTyped(limit), NEW offset, OffsetTyped(offset),
           NEW keys, NEW p, CutFor(keys, limit, offset, p), NEW a \in Sortings(rows, order)
    PROVE  LET s == Cut(a, keys, p)
           IN  /\ s \in Seq(rows) /\ Page(s, rows, order, limit, offset)
               /\ s \in SetToSeqs(ToSet(s)) /\ ToSet(s) \in SUBSET rows
<1> DEFINE s == Cut(a, keys, p)
           n == Len(a)
           d == Skipped(offset)
           m == Len(s)
<1>1. /\ a \in Seq(rows) /\ n = Cardinality(rows) /\ n \in Nat
      /\ \A i, j \in 1..n : a[i] = a[j] => i = j
      /\ \A r \in rows : \E i \in 1..n : a[i] = r
      /\ InOrder(a, order)
  BY SortingIs
<1>2. /\ s \in Seq(rows) /\ m = PageLength(n, limit, offset)
      /\ \A i \in 1..m : d + i \in 1..n /\ s[i] = a[d + i]
  <2>1. a \in Seq(rows)
    BY <1>1
  <2>2. IsCut(s, a, rows, limit, offset)
    <3> HIDE DEF m, n, d
    <3>1. QED
      BY <2>1, CutIs
  <2>3. QED
    BY <2>2 DEF IsCut
<1>3. (limit = None \/ limit \in Int) /\ (offset = None \/ offset \in Int) /\ d \in Nat
  <2>1. (limit = None \/ limit \in Int) /\ (offset = None \/ offset \in Int)
    BY LimitTypedIs
  <2>2. QED
    BY <2>1 DEF Skipped
<1> HIDE DEF s, d
<1>4. m \in Nat
  BY <1>2
<1>5. \A i, j \in 1..m : s[i] = s[j] => i = j
  <2> SUFFICES ASSUME NEW i \in 1..m, NEW j \in 1..m, s[i] = s[j] PROVE i = j
    OBVIOUS
  <2>1. d + i \in 1..n /\ d + j \in 1..n /\ a[d + i] = a[d + j]
    BY <1>2
  <2>2. d + i = d + j
    BY <1>1, <2>1
  <2>3. QED
    BY <1>3, <1>4, <2>2
<1>6. ToSet(s) = {s[i] : i \in 1..m}
  BY <1>2 DEF ToSet
<1>7. Cardinality(ToSet(s)) = m
  <2> DEFINE F == ToSet(s)
  <2>1. (\A i \in 1..m : s[i] \in F) /\ \A x \in F : \E i \in 1..m : s[i] = x
    BY <1>6
  <2> HIDE DEF F, m
  <2>2. Cardinality(F) = m
    BY <1>4, <1>5, <2>1, CountedByIndex
  <2>3. QED
    BY <2>2 DEF F
<1>8. ToSet(s) \in SUBSET rows
  BY <1>2, <1>6
<1>9. s \in SetToSeqs(ToSet(s))
  <2>1. s \in [1..m -> ToSet(s)]
    BY <1>2, <1>6
  <2>2. QED
    BY <1>5, <1>7, <2>1 DEF SetToSeqs
<1>10. m = LET skipped == IF offset = None \/ offset < 0 THEN 0 ELSE offset
               left == Largest({0, Cardinality(rows) - skipped})
           IN  IF limit = None \/ limit < 0 \/ limit > left THEN left ELSE limit
  <2>1. n - d \in Int
    BY <1>1, <1>3
  <2>2. Largest({0, n - d}) = Left(n, offset)
    <3>1. Largest({0, n - d}) = IF 0 >= n - d THEN 0 ELSE n - d
      BY <2>1, LargestOfTwo
    <3>2. Left(n, offset) = IF n >= d THEN n - d ELSE 0
      BY DEF Left, d
    <3>3. (IF 0 >= n - d THEN 0 ELSE n - d) = (IF n >= d THEN n - d ELSE 0)
      BY <1>1, <1>3
    <3>4. QED
      BY <3>1, <3>2, <3>3
  <2>3. QED
    BY <1>1, <1>2, <2>2 DEF PageLength, d, Skipped
<1>11. ASSUME NEW i \in 1..m
       PROVE  /\ Cardinality({r \in rows : Before(r, s[i], order)}) < d + i
              /\ Cardinality({r \in rows : ~Before(s[i], r, order)}) >= d + i
              /\ \A j \in i + 1..m : ~Before(s[j], s[i], order)
  <2> DEFINE k == d + i
  <2>1. k \in 1..n /\ s[i] = a[k] /\ k \in Nat
    BY <1>1, <1>2
  <2>2. ~Before(a[k], a[k], order)
    <3>1. a[k] \in Row
      BY <1>1, <2>1
    <3>2. QED
      BY <3>1, BeforeIrreflexive
  <2>3. \A j \in 1..n : (j < k => ~Before(a[k], a[j], order)) /\ (k < j => ~Before(a[j], a[k], order))
    BY <1>1, <2>1 DEF InOrder
  <2> HIDE DEF k
  <2>4. Cardinality({r \in rows : Before(r, a[k], order)}) < k
    <3> DEFINE F == {a[j] : j \in 1..k - 1}
               B == {r \in rows : Before(r, a[k], order)}
    <3>1. \A j, l \in 1..k - 1 : a[j] = a[l] => j = l
      BY <1>1, <2>1
    <3>2. k - 1 \in Nat
      BY <2>1
    <3>3. IsFiniteSet(F) /\ Cardinality(F) = k - 1
      <4>1. (\A j \in 1..k - 1 : a[j] \in F) /\ \A x \in F : \E j \in 1..k - 1 : a[j] = x
        OBVIOUS
      <4> HIDE DEF F
      <4>2. QED
        BY <3>1, <3>2, <4>1, CountedByIndex
    <3>4. B \subseteq F
      <4> SUFFICES ASSUME NEW r \in rows, Before(r, a[k], order) PROVE r \in F
        OBVIOUS
      <4>1. PICK j \in 1..n : a[j] = r
        BY <1>1
      <4>2. ~(k < j) /\ j # k
        BY <2>2, <2>3, <4>1
      <4>3. j \in 1..k - 1
        BY <1>1, <2>1, <4>2
      <4>4. QED
        BY <4>1, <4>3
    <3> HIDE DEF B, F
    <3>5. Cardinality(B) <= k - 1 /\ Cardinality(B) \in Nat
      BY <3>3, <3>4, FS_Subset, FS_CardinalityType
    <3>6. Cardinality(B) < k
      BY <2>1, <3>5
    <3>7. QED
      BY <3>6 DEF B
  <2>5. Cardinality({r \in rows : ~Before(a[k], r, order)}) >= k
    <3> DEFINE F == {a[j] : j \in 1..k}
               B == {r \in rows : ~Before(a[k], r, order)}
    <3>1. \A j, l \in 1..k : a[j] = a[l] => j = l
      BY <1>1, <2>1
    <3>2. IsFiniteSet(F) /\ Cardinality(F) = k
      <4>1. (\A j \in 1..k : a[j] \in F) /\ \A x \in F : \E j \in 1..k : a[j] = x
        OBVIOUS
      <4> HIDE DEF F
      <4>2. k \in Nat
        BY <2>1
      <4>3. QED
        BY <3>1, <4>1, <4>2, CountedByIndex
    <3>3. F \subseteq B
      <4> SUFFICES ASSUME NEW j \in 1..k PROVE a[j] \in B
        OBVIOUS
      <4>1. j \in 1..n /\ (j < k \/ j = k)
        BY <1>1, <2>1
      <4>2. a[j] \in rows
        BY <1>1, <4>1
      <4>3. ~Before(a[k], a[j], order)
        BY <2>2, <2>3, <4>1
      <4>4. QED
        BY <4>2, <4>3
    <3>4. IsFiniteSet(B)
      BY FS_Subset
    <3> HIDE DEF B, F
    <3>5. k <= Cardinality(B) /\ Cardinality(B) \in Nat
      BY <3>2, <3>3, <3>4, FS_Subset, FS_CardinalityType
    <3>6. Cardinality(B) >= k
      BY <2>1, <3>5
    <3>7. QED
      BY <3>6 DEF B
  <2>6. ASSUME NEW j \in i + 1..m PROVE ~Before(s[j], s[i], order)
    <3>1. j \in 1..m /\ i < j
      BY <1>4
    <3>2. d + j \in 1..n /\ s[j] = a[d + j] /\ k < d + j
      <4>1. d + j \in 1..n /\ s[j] = a[d + j]
        BY <1>2, <3>1
      <4>2. k < d + j
        BY <1>3, <1>4, <3>1 DEF k
      <4>3. QED
        BY <4>1, <4>2
    <3>3. QED
      BY <2>1, <2>3, <3>2
  <2>7. QED
    BY <2>1, <2>4, <2>5, <2>6 DEF k
<1>12. Page(s, rows, order, limit, offset)
  <2>1. d = IF offset = None \/ offset < 0 THEN 0 ELSE offset
    BY DEF d, Skipped
  <2>2. QED
    BY <1>7, <1>8, <1>10, <1>11, <2>1 DEF Page
<1>13. QED
  BY <1>2, <1>8, <1>9, <1>12 DEF s

-----------------------------------------------------------------------------
(* The statement of a query.                                                 *)

Stage ==
    [expression : {e \in Seq(Node) : e = <<>> \/ WellFormed(e)}, invokables : SUBSET (SUBSET Row),
     order : Seq(Orders), limit : Limits \cup {None}, offset : Offsets \cup {None}]

StatementStage == [where : Seq(ConditionNode), order : Seq(Orders), cut : Seq(Seq(Words))]

StageFor(t, s, p) ==
    /\ ConditionFor(t.where, s.expression, p) /\ t.order = s.order
    /\ CutFor(t.cut, s.limit, s.offset, p)

LEMMA StageForMore ==
    ASSUME NEW t, NEW s, NEW p, NEW q, Extends(p, q), StageFor(t, s, p)
    PROVE  StageFor(t, s, q)
BY ConditionForMore, CutForMore DEF StageFor

\* What generateSelectStatement() makes of a query whose relation it has done.
Selecting(s, from) ==
    LET where == Condition(s.expression, from.parameters)
        cut == LimitOffset(s.limit, s.offset, where.parameters)
    IN  [statement |-> Append(from.statement, [where |-> where.condition,
                                               order |-> s.order, cut |-> cut.keys]),
         parameters |-> cut.parameters]

Statements == [statement : Seq(StatementStage), parameters : Parameters]

SelectingMore(a, b, s) ==
    /\ b \in Statements /\ Extends(a.parameters, b.parameters)
    /\ Len(b.statement) = Len(a.statement) + 1
    /\ \A j \in 1..Len(a.statement) : b.statement[j] = a.statement[j]
    /\ StageFor(b.statement[Len(b.statement)], s, b.parameters)

LEMMA SelectingIs ==
    ASSUME NEW s \in Stage, Resolved(s.expression), NEW a \in Statements
    PROVE  SelectingMore(a, Selecting(s, a), s)
<1> DEFINE where == Condition(s.expression, a.parameters)
           cut == LimitOffset(s.limit, s.offset, where.parameters)
           t == [where |-> where.condition, order |-> s.order, cut |-> cut.keys]
           b == Selecting(s, a)
<1>1. a.statement \in Seq(StatementStage) /\ a.parameters \in Parameters
  BY DEF Statements
<1>2. s.order \in Seq(Orders) /\ LimitTyped(s.limit) /\ OffsetTyped(s.offset)
  BY DEF Stage, LimitTyped, OffsetTyped
<1>3. b = [statement |-> Append(a.statement, t), parameters |-> cut.parameters]
  BY DEF Selecting
<1>4. /\ where.parameters \in Parameters /\ Extends(a.parameters, where.parameters)
      /\ ConditionFor(where.condition, s.expression, where.parameters)
  BY <1>1, ConditionIs
<1> HIDE DEF where
<1>5. /\ cut \in Bindings /\ Extends(where.parameters, cut.parameters)
      /\ CutFor(cut.keys, s.limit, s.offset, cut.parameters)
  BY <1>2, <1>4, LimitOffsetIs
<1> HIDE DEF cut
<1>6. Extends(a.parameters, cut.parameters)
  BY <1>4, <1>5, ExtendsTransitive
<1>7. ConditionFor(where.condition, s.expression, cut.parameters)
  BY <1>4, <1>5, ConditionForMore
<1>8. t \in StatementStage /\ StageFor(t, s, cut.parameters)
  <2>1. where.condition \in Seq(ConditionNode)
    BY <1>4 DEF ConditionFor
  <2>2. cut.keys \in Seq(Seq(Words))
    BY <1>5 DEF Bindings
  <2>3. t \in StatementStage
    BY <1>2, <2>1, <2>2 DEF StatementStage
  <2>4. StageFor(t, s, cut.parameters)
    BY <1>5, <1>7 DEF StageFor
  <2>5. QED
    BY <2>3, <2>4
<1> HIDE DEF t, b
<1>9. /\ Append(a.statement, t) \in Seq(StatementStage)
      /\ Len(Append(a.statement, t)) = Len(a.statement) + 1
      /\ \A j \in 1..Len(a.statement) : Append(a.statement, t)[j] = a.statement[j]
      /\ Append(a.statement, t)[Len(a.statement) + 1] = t
  BY <1>1, <1>8, AppendProperties
<1>10. cut.parameters \in Parameters
  BY <1>5 DEF Bindings
<1>11. b.statement = Append(a.statement, t) /\ b.parameters = cut.parameters /\ b \in Statements
  BY <1>3, <1>9, <1>10 DEF Statements
<1>12. SelectingMore(a, b, s)
  BY <1>6, <1>8, <1>9, <1>11 DEF SelectingMore
<1>13. QED
  BY <1>12 DEF b

StatementFor(g, q) ==
    /\ g \in Statements /\ Len(g.statement) = Len(q)
    /\ \A k \in 1..Len(q) : StageFor(g.statement[k], q[k], g.parameters)

\* A query is one statement: of what its parameters are called and whatever
\* its relations bind, each part finds the values that are its own.
LEMMA SelectStatementIs ==
    ASSUME NEW q \in Seq(Stage), \A k \in 1..Len(q) : Resolved(q[k].expression)
    PROVE  StatementFor(SelectStatement(q), q)
<1> DEFINE n == Len(q)
           T == Statements
           Step(a, i) == Selecting(q[i], a)
           base == [statement |-> <<>>, parameters |-> NoParameters]
           Rec(f) == f = [i \in 0..n |-> IF i = 0 THEN base ELSE Step(f[i - 1], i)]
           generated == CHOOSE f : Rec(f)
           Good(a, i) == /\ a \in T /\ Len(a.statement) = i
                         /\ \A j \in 1..i : StageFor(a.statement[j], q[j], a.parameters)
<1>1. n \in Nat /\ base \in T
  <2>1. NoParameters \in [{} -> Bound] /\ IsFiniteSet({}) /\ {} \in SUBSET Seq(Words)
    BY FS_EmptySet DEF NoParameters
  <2>2. NoParameters \in Parameters
    BY <2>1 DEF Parameters
  <2>3. QED
    BY <2>2 DEF Statements
<1>2. ASSUME NEW a \in T, NEW i \in 1..n PROVE SelectingMore(a, Step(a, i), q[i])
  <2>1. q[i] \in Stage
    OBVIOUS
  <2>2. QED
    BY <2>1, SelectingIs
<1>3. ASSUME NEW a \in T, NEW i \in 1..n PROVE Step(a, i) \in T
  <2> HIDE DEF Step, T
  <2>1. SelectingMore(a, Step(a, i), q[i])
    BY <1>2
  <2>2. QED
    BY <2>1 DEF SelectingMore, T
<1>4. SelectStatement(q) = generated[n]
  BY DEF SelectStatement, Selecting
<1> HIDE DEF Step, base, T
<1>5. Rec(generated)
  <2> DEFINE S == [r \in T \X (1..n) |-> Step(r[1], r[2])]
  <2>1. IsStep(S, n, T)
    BY <1>3 DEF IsStep
  <2>2. \A a \in T, i \in 1..n : S[<<a, i>>] = Step(a, i)
    OBVIOUS
  <2> HIDE DEF S, n
  <2>3. PICK f : Follows(f, base, S, n, T)
    BY <1>1, <2>1, StepByStep
  <2>4. \A i \in 0..n : i = 0 \/ (i \in 1..n /\ i - 1 \in 0..n)
    BY <1>1
  <2>5. \A i \in 0..n : f[i] = IF i = 0 THEN base ELSE Step(f[i - 1], i)
    BY <2>2, <2>3, <2>4 DEF Follows
  <2>6. Rec(f)
    BY <2>3, <2>5 DEF Follows
  <2> HIDE DEF Rec
  <2>7. QED
    BY <2>6
<1> HIDE DEF generated
<1> DEFINE S == {i \in 0..n : Good(generated[i], i)}
<1>6. 0 \in S
  <2>1. generated[0] = base /\ 0 \in 0..n
    BY <1>1, <1>5
  <2>2. Good(base, 0)
    BY <1>1 DEF base
  <2>3. QED
    BY <2>1, <2>2
<1>7. ASSUME NEW i \in 1..n, i - 1 \in S PROVE i \in S
  <2> DEFINE a == generated[i - 1]
             b == Step(a, i)
  <2>1. Good(a, i - 1) /\ i \in 0..n /\ i \in Nat
    BY <1>1, <1>7
  <2>2. generated[i] = b
    BY <1>1, <1>5
  <2> HIDE DEF a
  <2>3. SelectingMore(a, b, q[i])
    BY <1>2, <2>1
  <2> HIDE DEF b
  <2>4. /\ b \in T /\ Extends(a.parameters, b.parameters) /\ Len(b.statement) = i
        /\ \A j \in 1..i - 1 : b.statement[j] = a.statement[j]
        /\ StageFor(b.statement[i], q[i], b.parameters)
    <3>1. Len(a.statement) = i - 1
      BY <2>1
    <3>2. Len(b.statement) = i
      BY <2>1, <2>3, <3>1 DEF SelectingMore
    <3>3. QED
      BY <2>3, <3>1, <3>2 DEF SelectingMore, T
  <2>5. ASSUME NEW j \in 1..i PROVE StageFor(b.statement[j], q[j], b.parameters)
    <3>1. CASE j = i
      BY <2>4, <3>1
    <3>2. CASE j # i
      <4>1. j \in 1..i - 1
        BY <2>1, <3>2
      <4>2. StageFor(a.statement[j], q[j], a.parameters) /\ b.statement[j] = a.statement[j]
        BY <2>1, <2>4, <4>1
      <4>3. QED
        BY <2>4, <4>2, StageForMore
    <3>3. QED
      BY <3>1, <3>2
  <2>6. Good(b, i)
    BY <2>4, <2>5
  <2> HIDE DEF Good
  <2>7. QED
    BY <2>1, <2>2, <2>6
<1>8. n \in S
  <2> HIDE DEF S
  <2>1. \A i \in 0..n : i \in S
    BY <1>1, <1>6, <1>7, UpTo
  <2>2. QED
    BY <1>1, <2>1
<1>9. QED
  BY <1>4, <1>8 DEF StatementFor, T

-----------------------------------------------------------------------------
(* What the statement of a query may return.                                 *)

StageAsked(s, rows) == {r \in rows : s.expression = <<>> \/ "holds" \in Says(s.expression, r)}

AskableStage(s) == s \in Stage /\ (s.expression # <<>> => Askable(s.expression))

LEMMA MatchingIs ==
    ASSUME NEW s, AskableStage(s), NEW c, NEW p, ConditionFor(c, s.expression, p), NEW rows \in SUBSET Row
    PROVE  Matching(c, rows, p) = StageAsked(s, rows)
<1> DEFINE e == s.expression
<1>1. e \in Seq(Node)
  BY DEF AskableStage, Stage
<1>2. c \in Seq(ConditionNode) /\ Len(c) = Len(e)
  BY DEF ConditionFor
<1> HIDE DEF e
<1>3. c = <<>> <=> e = <<>>
  BY <1>1, <1>2
<1>4. CASE e = <<>>
  BY <1>3, <1>4 DEF Matching, StageAsked, e
<1>5. CASE e # <<>>
  <2>1. Askable(e) /\ ConditionFor(c, e, p)
    BY <1>5 DEF AskableStage, e
  <2>2. ASSUME NEW r \in rows PROVE Eval(c, r, p) = 1 <=> "holds" \in Says(e, r)
    <3>1. r \in Row
      OBVIOUS
    <3>2. SameVerdict(Eval(c, r, p), Says(e, r))
      BY <2>1, <3>1, ConditionTrue
    <3>3. QED
      BY <3>2 DEF SameVerdict
  <2>3. Matching(c, rows, p) = {r \in rows : Eval(c, r, p) = 1}
    BY <1>3, <1>5 DEF Matching
  <2>4. StageAsked(s, rows) = {r \in rows : "holds" \in Says(e, r)}
    BY <1>5 DEF StageAsked, e
  <2>5. QED
    BY <2>2, <2>3, <2>4
<1>6. QED
  BY <1>4, <1>5

\* What a SELECT returns is a page of the rows that are asked for.
IsSelection(x, s, rows) ==
    /\ x \in Seq(rows) /\ x \in SetToSeqs(ToSet(x)) /\ ToSet(x) \in SUBSET rows
    /\ Page(x, StageAsked(s, rows), s.order, s.limit, s.offset)

LEMMA SelectedIs ==
    ASSUME NEW s, AskableStage(s), NEW t, NEW p, StageFor(t, s, p),
           NEW rows \in SUBSET Row, IsFiniteSet(rows), NEW x \in Selected(t, rows, p)
    PROVE  IsSelection(x, s, rows)
<1> DEFINE asked == StageAsked(s, rows)
<1>1. /\ s.order \in Seq(Orders) /\ LimitTyped(s.limit) /\ OffsetTyped(s.offset)
      /\ t.order = s.order /\ CutFor(t.cut, s.limit, s.offset, p)
      /\ ConditionFor(t.where, s.expression, p)
  BY DEF AskableStage, Stage, StageFor, LimitTyped, OffsetTyped
<1>2. Matching(t.where, rows, p) = asked
  BY <1>1, MatchingIs
<1>3. asked \in SUBSET rows
  BY DEF StageAsked
<1> HIDE DEF asked
<1>4. PICK a \in Sortings(asked, s.order) : x = Cut(a, t.cut, p)
  BY <1>1, <1>2 DEF Selected
<1>5. IsFiniteSet(asked) /\ asked \in SUBSET Row
  BY <1>3, FS_Subset
<1>6. /\ x \in Seq(asked) /\ Page(x, asked, s.order, s.limit, s.offset)
      /\ x \in SetToSeqs(ToSet(x)) /\ ToSet(x) \in SUBSET asked
  <2> DEFINE y == Cut(a, t.cut, p)
  <2>1. /\ y \in Seq(asked) /\ Page(y, asked, s.order, s.limit, s.offset)
        /\ y \in SetToSeqs(ToSet(y)) /\ ToSet(y) \in SUBSET asked
    BY <1>1, <1>4, <1>5, CutIsPage
  <2>2. QED
    BY <1>4, <2>1
<1>7. x \in Seq(rows)
  BY <1>3, <1>6, SeqMonotonic
<1>8. QED
  BY <1>3, <1>6, <1>7 DEF IsSelection, asked

FromStep(t, a, p) == UNION {{ToSet(x) : x \in Selected(t, source, p)} : source \in a}

SourceStep(s, a) ==
    UNION {{rows \in SUBSET all :
              \E x \in SetToSeqs(rows) : Page(x, StageAsked(s, all), s.order, s.limit, s.offset)} :
             all \in a}

LEMMA FromStepIs ==
    ASSUME NEW s, AskableStage(s), NEW t, NEW p, StageFor(t, s, p),
           NEW rows \in SUBSET Row, IsFiniteSet(rows), NEW a \in SUBSET (SUBSET rows)
    PROVE  FromStep(t, a, p) \in SUBSET (SUBSET rows) /\ FromStep(t, a, p) \subseteq SourceStep(s, a)
<1> SUFFICES ASSUME NEW y \in FromStep(t, a, p)
             PROVE  y \in SUBSET rows /\ y \in SourceStep(s, a)
  OBVIOUS
<1>1. PICK source \in a : \E x \in Selected(t, source, p) : y = ToSet(x)
  BY DEF FromStep
<1>0. PICK x \in Selected(t, source, p) : y = ToSet(x)
  BY <1>1
<1>2. source \in SUBSET rows /\ source \in SUBSET Row /\ IsFiniteSet(source)
  <2>1. source \in SUBSET rows
    OBVIOUS
  <2>2. QED
    BY <2>1, FS_Subset
<1>3. IsSelection(x, s, source)
  BY <1>2, SelectedIs
<1>4. y \in SUBSET source /\ x \in SetToSeqs(y)
      /\ Page(x, StageAsked(s, source), s.order, s.limit, s.offset)
  BY <1>0, <1>3 DEF IsSelection
<1>5. y \in SourceStep(s, a)
  BY <1>4 DEF SourceStep
<1>6. QED
  BY <1>2, <1>4, <1>5

LEMMA SourceStepTyped ==
    ASSUME NEW s, NEW rows, NEW a \in SUBSET (SUBSET rows)
    PROVE  SourceStep(s, a) \in SUBSET (SUBSET rows)
<1> SUFFICES ASSUME NEW y \in SourceStep(s, a) PROVE y \in SUBSET rows
  OBVIOUS
<1>1. PICK all \in a : y \in SUBSET all
  BY DEF SourceStep
<1>2. QED
  BY <1>1

LEMMA SourceStepMore ==
    ASSUME NEW s, NEW b, NEW a \in SUBSET b
    PROVE  SourceStep(s, a) \subseteq SourceStep(s, b)
BY DEF SourceStep

SourcesBy(g, relation, all) ==
    /\ g \in [0..Len(relation) -> SUBSET (SUBSET all)]
    /\ g[0] = {all} /\ Sources(relation, all) = g[Len(relation)]
    /\ \A k \in 1..Len(relation) : g[k] = SourceStep(relation[k], g[k - 1])

LEMMA SourcesAre ==
    ASSUME NEW relation \in Seq(Stage), NEW all
    PROVE  \E g : SourcesBy(g, relation, all)
<1> DEFINE n == Len(relation)
           T == SUBSET (SUBSET all)
           base == {all}
           Step(a, k) == SourceStep(relation[k], a)
           Rec(f) == f = [k \in 0..n |-> IF k = 0 THEN base ELSE Step(f[k - 1], k)]
           source == CHOOSE f : Rec(f)
<1>1. n \in Nat /\ base \in T
  OBVIOUS
<1>2. Sources(relation, all) = source[n]
  BY DEF Sources, SourceStep, StageAsked
<1>3. \A a \in T, k \in 1..n : Step(a, k) \in T
  BY SourceStepTyped
<1> HIDE DEF Step, base, T
<1>4. \E f : Follows(f, base, [q \in T \X (1..n) |-> Step(q[1], q[2])], n, T)
  <2> DEFINE S == [q \in T \X (1..n) |-> Step(q[1], q[2])]
  <2>1. IsStep(S, n, T)
    BY <1>3 DEF IsStep
  <2> HIDE DEF S, n
  <2>2. \E f : Follows(f, base, S, n, T)
    BY <1>1, <2>1, StepByStep
  <2>3. QED
    BY <2>2 DEF S
<1>5. PICK f : Follows(f, base, [q \in T \X (1..n) |-> Step(q[1], q[2])], n, T)
  BY <1>4
<1>6. f \in [0..n -> T] /\ f[0] = base /\ \A k \in 1..n : f[k - 1] \in T /\ f[k] = Step(f[k - 1], k)
  <2>1. \A k \in 1..n : k - 1 \in 0..n
    BY <1>1
  <2>2. f \in [0..n -> T] /\ f[0] = base
    BY <1>5 DEF Follows
  <2>3. \A k \in 1..n : f[k] = Step(f[k - 1], k)
    BY <1>5, <2>1, <2>2 DEF Follows
  <2>4. QED
    BY <2>1, <2>2, <2>3
<1>7. \A k \in 0..n : k = 0 \/ k \in 1..n
  BY <1>1
<1>8. Rec(f)
  BY <1>6, <1>7
<1>9. Rec(source)
  <2> HIDE DEF Rec
  <2>1. QED
    BY <1>8
<1> HIDE DEF source
<1> DEFINE S == {k \in 0..n : source[k] \in T}
<1>10. \A k \in 1..n : source[k] = Step(source[k - 1], k)
  BY <1>1, <1>9
<1>11. 0 \in S /\ source[0] = base
  BY <1>1, <1>9
<1>12. ASSUME NEW k \in 1..n, k - 1 \in S PROVE k \in S
  <2>1. k \in 0..n
    BY <1>1
  <2>2. QED
    BY <1>3, <1>10, <1>12, <2>1
<1>13. \A k \in 0..n : k \in S
  <2> HIDE DEF S
  <2>1. QED
    BY <1>1, <1>11, <1>12, UpTo
<1>14. source \in [0..n -> T]
  BY <1>9, <1>13
<1>15. QED
  BY <1>2, <1>10, <1>11, <1>14 DEF T, base, Step, SourcesBy

\* A subquery selects from what its relation may stand for.
LEMMA FromIs ==
    ASSUME NEW all \in SUBSET Row, IsFiniteSet(all), NEW relation \in Seq(Stage), NEW statement, NEW p,
           Len(statement) = Len(relation) + 1,
           \A k \in 1..Len(relation) : AskableStage(relation[k]) /\ StageFor(statement[k], relation[k], p)
    PROVE  LET from == FromClause(statement, all, p)
           IN  from \in SUBSET (SUBSET all) /\ from \subseteq Sources(relation, all)
<1> DEFINE m == Len(relation)
           n == Len(statement)
           T == SUBSET (SUBSET all)
           base == {all}
           Step(a, k) == FromStep(statement[k], a, p)
           Rec(f) == f = [k \in 1..n |-> IF k = 1 THEN base ELSE Step(f[k - 1], k - 1)]
           from == CHOOSE f : Rec(f)
<1>1. m \in Nat /\ n = m + 1 /\ base \in T
  OBVIOUS
<1>2. FromClause(statement, all, p) = from[n]
  BY DEF FromClause, FromStep
<1>3. ASSUME NEW a \in T, NEW k \in 1..m
      PROVE  Step(a, k) \in T /\ Step(a, k) \subseteq SourceStep(relation[k], a)
  BY FromStepIs
<1> HIDE DEF Step, base, T, n
<1>4. \E f : Follows(f, base, [q \in T \X (1..m) |-> Step(q[1], q[2])], m, T)
  <2> DEFINE S == [q \in T \X (1..m) |-> Step(q[1], q[2])]
  <2>1. IsStep(S, m, T)
    BY <1>3 DEF IsStep
  <2> HIDE DEF S, m
  <2>2. \E f : Follows(f, base, S, m, T)
    BY <1>1, <2>1, StepByStep
  <2>3. QED
    BY <2>2 DEF S
<1>5. PICK f : Follows(f, base, [q \in T \X (1..m) |-> Step(q[1], q[2])], m, T)
  BY <1>4
<1>6. f \in [0..m -> T] /\ f[0] = base /\ \A k \in 1..m : f[k] = Step(f[k - 1], k)
  <2>1. \A k \in 1..m : k - 1 \in 0..m
    BY <1>1
  <2>2. f \in [0..m -> T] /\ f[0] = base
    BY <1>5 DEF Follows
  <2>3. \A k \in 1..m : f[k] = Step(f[k - 1], k)
    BY <1>5, <2>1, <2>2 DEF Follows
  <2>4. QED
    BY <2>2, <2>3
<1>7. Rec([k \in 1..n |-> f[k - 1]])
  <2> DEFINE h == [k \in 1..n |-> f[k - 1]]
  <2>1. ASSUME NEW k \in 1..n PROVE h[k] = IF k = 1 THEN base ELSE Step(h[k - 1], k - 1)
    <3>1. CASE k = 1
      BY <1>6, <3>1
    <3>2. CASE k # 1
      <4> DEFINE j == k - 1
      <4>1. j \in 1..m /\ j \in 1..n
        BY <1>1, <3>2
      <4>2. h[k] = f[j] /\ h[j] = f[j - 1]
        BY <4>1
      <4> HIDE DEF h, j
      <4>3. h[k] = Step(h[j], j)
        BY <1>6, <4>1, <4>2
      <4>4. QED
        BY <3>2, <4>3 DEF j
    <3>3. QED
      BY <3>1, <3>2
  <2>2. h = [k \in 1..n |-> h[k]]
    OBVIOUS
  <2> HIDE DEF h
  <2>3. Rec(h)
    BY <2>1, <2>2
  <2>4. QED
    BY <2>3 DEF h
<1>8. Rec(from)
  <2> HIDE DEF Rec
  <2>1. QED
    BY <1>7
<1> HIDE DEF from
<1>9. PICK g : /\ g \in [0..m -> T] /\ g[0] = {all} /\ Sources(relation, all) = g[m]
               /\ \A k \in 1..m : g[k] = SourceStep(relation[k], g[k - 1])
  <2>1. PICK g : SourcesBy(g, relation, all)
    BY SourcesAre
  <2>2. QED
    BY <2>1 DEF SourcesBy, T
<1> DEFINE S == {k \in 0..m : from[k + 1] \in T /\ from[k + 1] \subseteq g[k]}
<1>10. 0 \in S
  <2>1. from[1] = base
    BY <1>1, <1>8
  <2>2. 0 \in 0..m /\ 0 + 1 = 1
    BY <1>1
  <2>3. QED
    BY <1>1, <1>9, <2>1, <2>2 DEF base
<1>11. ASSUME NEW k \in 1..m, k - 1 \in S PROVE k \in S
  <2> DEFINE a == from[k]
  <2>1. k \in 0..m /\ k - 1 \in 0..m /\ (k - 1) + 1 = k
    BY <1>1
  <2>2. a \in T /\ a \subseteq g[k - 1]
    BY <1>11, <2>1
  <2>3. k + 1 \in 1..n /\ k + 1 # 1 /\ (k + 1) - 1 = k
    BY <1>1
  <2>4. from[k + 1] = Step(a, k)
    BY <1>8, <2>3
  <2> HIDE DEF a
  <2>5. Step(a, k) \in T /\ Step(a, k) \subseteq SourceStep(relation[k], a)
    BY <1>3, <2>2
  <2>6. SourceStep(relation[k], a) \subseteq SourceStep(relation[k], g[k - 1])
    BY <2>2, SourceStepMore
  <2>7. g[k] = SourceStep(relation[k], g[k - 1])
    BY <1>9
  <2>8. QED
    BY <2>1, <2>4, <2>5, <2>6, <2>7
<1>12. m \in S
  <2> HIDE DEF S
  <2>1. \A k \in 0..m : k \in S
    BY <1>1, <1>10, <1>11, UpTo
  <2>2. QED
    BY <1>1, <2>1
<1>13. QED
  BY <1>1, <1>2, <1>9, <1>12 DEF T

-----------------------------------------------------------------------------
(* From the builder to the answer.                                           *)

BuilderOK(b) ==
    /\ b \in [relation : Seq(Stage), filters : Seq(Filters), order : Seq(Orders),
              limit : Limits \cup {None}, offset : Offsets \cup {None}]
    /\ \A k \in 1..Len(b.relation) : Resolved(b.relation[k].expression)

\* The query of a builder: its relation and, last, what it adds.
Builds(q, b) ==
    LET s == q[Len(q)]
    IN  /\ q \in Seq(Stage) /\ Len(q) = Len(b.relation) + 1
        /\ \A k \in 1..Len(b.relation) : q[k] = b.relation[k]
        /\ \A k \in 1..Len(q) : Resolved(q[k].expression)
        /\ s.expression = FoldExpressions(b.filters) /\ s.invokables = FoldInvokables(b.filters)
        /\ s.order = b.order /\ s.limit = b.limit /\ s.offset = b.offset

LEMMA BuildIs ==
    ASSUME NEW b, BuilderOK(b), ~Malformed(b)
    PROVE  Builds(Build(b), b)
<1> DEFINE e == FoldExpressions(b.filters)
           s == [expression |-> e, invokables |-> FoldInvokables(b.filters),
                 order |-> b.order, limit |-> b.limit, offset |-> b.offset]
           q == Append(b.relation, s)
           m == Len(b.relation)
<1>1. /\ b.relation \in Seq(Stage) /\ b.filters \in Seq(Filters) /\ b.order \in Seq(Orders)
      /\ b.limit \in Limits \cup {None} /\ b.offset \in Offsets \cup {None}
  BY DEF BuilderOK
<1>2. Folds(e, ExpressionsIn(b.filters))
  BY <1>1, FoldIs
<1>3. FoldInvokables(b.filters) \in SUBSET (SUBSET Row)
  <2> SUFFICES ASSUME NEW f \in ToSet(b.filters), f.type = "invokable" PROVE f.accepts \in SUBSET Row
    BY DEF FoldInvokables
  <2>1. f \in Filters
    BY <1>1 DEF ToSet
  <2>2. QED
    BY <2>1, FilterIs
<1> HIDE DEF e
<1>4. s \in Stage
  <2>1. e \in {x \in Seq(Node) : x = <<>> \/ WellFormed(x)}
    BY <1>2 DEF Folds
  <2>2. QED
    BY <1>1, <1>3, <2>1 DEF Stage
<1>5. Resolved(e)
  <2>1. e \in Seq(Node)
    BY <1>2 DEF Folds
  <2>2. ASSUME NEW n \in ToSet(e), n.type = "terminal" PROVE n.property \in Fields
    <3>1. PICK x \in ExpressionsIn(b.filters) : n \in ToSet(x)
      BY <1>2, <2>2 DEF Folds
    <3>2. ~Unresolved(x)
      BY DEF Malformed
    <3>3. QED
      BY <2>2, <3>1, <3>2 DEF Unresolved
  <2>3. QED
    BY <2>1, <2>2 DEF Resolved, Unresolved
<1>6. Build(b) = q
  BY DEF Build, e
<1>7. s.expression = e
  OBVIOUS
<1>8. /\ s.invokables = FoldInvokables(b.filters)
      /\ s.order = b.order /\ s.limit = b.limit /\ s.offset = b.offset
  OBVIOUS
<1> HIDE DEF s
<1>9. /\ q \in Seq(Stage) /\ Len(q) = m + 1 /\ q[m + 1] = s
      /\ \A k \in 1..m : q[k] = b.relation[k]
  BY <1>1, <1>4, AppendProperties
<1>10. m \in Nat
  BY <1>1
<1> HIDE DEF q
<1>11. ASSUME NEW k \in 1..Len(q) PROVE Resolved(q[k].expression)
  <2>1. CASE k = m + 1
    BY <1>5, <1>7, <1>9, <2>1
  <2>2. CASE k # m + 1
    <3>1. k \in 1..m
      BY <1>9, <1>10, <2>2
    <3>2. QED
      BY <1>9, <3>1 DEF BuilderOK
  <2>3. QED
    BY <2>1, <2>2
<1>12. q[Len(q)] = s
  BY <1>9
<1>13. Builds(q, b)
  BY <1>7, <1>8, <1>9, <1>11, <1>12 DEF Builds, e
<1>14. QED
  BY <1>6, <1>13

\* No null in a list, neither in the filters nor in the relation.
NullFree(b) ==
    \A e \in ExpressionsIn(b.filters) \cup {q.expression : q \in ToSet(b.relation)} : ~HasNullInList(e)

LEMMA BuildIsAskable ==
    ASSUME NEW b, BuilderOK(b), ~Malformed(b), ~Unsupported(Build(b)), NullFree(b)
    PROVE  \A k \in 1..Len(Build(b)) : AskableStage(Build(b)[k])
<1> DEFINE q == Build(b)
           m == Len(b.relation)
<1>1. Builds(q, b)
  BY BuildIs
<1>2. b.relation \in Seq(Stage) /\ b.filters \in Seq(Filters) /\ m \in Nat
  BY DEF BuilderOK
<1> HIDE DEF q
<1>3. /\ q \in Seq(Stage) /\ Len(q) = m + 1
      /\ \A k \in 1..m : q[k] = b.relation[k]
      /\ q[m + 1].expression = FoldExpressions(b.filters)
  <2>1. Len(q) = m + 1
    BY <1>1 DEF Builds
  <2>2. QED
    BY <1>1, <2>1 DEF Builds
<1>4. ASSUME NEW k \in 1..Len(q), q[k].expression # <<>> PROVE Askable(q[k].expression)
  <2> DEFINE e == q[k].expression
  <2>1. q[k] \in Stage /\ q[k] \in ToSet(q)
    BY <1>3 DEF ToSet
  <2>2. WellFormed(e)
    BY <1>4, <2>1 DEF Stage
  <2>3. Resolved(e)
    BY <1>1 DEF Builds
  <2>4. ~UnsupportedExpression(e)
    BY <2>1 DEF Unsupported, q
  <2>5. ~HasNullInList(e)
    <3>1. CASE k = m + 1
      <4>1. Folds(e, ExpressionsIn(b.filters))
        BY <1>2, <1>3, <3>1, FoldIs
      <4> HIDE DEF e
      <4>2. SUFFICES ASSUME NEW n \in ToSet(e), n.type = "terminal", IsList(n.comparison),
                            Null \in ToSet(n.values)
                     PROVE  FALSE
        BY DEF HasNullInList
      <4>3. PICK x \in ExpressionsIn(b.filters) : n \in ToSet(x)
        BY <4>1, <4>2 DEF Folds
      <4>4. ~HasNullInList(x)
        BY DEF NullFree
      <4>5. QED
        BY <4>2, <4>3, <4>4 DEF HasNullInList
    <3>2. CASE k # m + 1
      <4>1. k \in 1..m
        BY <1>2, <1>3, <3>2
      <4>2. q[k] = b.relation[k] /\ b.relation[k] \in ToSet(b.relation)
        BY <1>2, <1>3, <4>1 DEF ToSet
      <4>3. e \in {s.expression : s \in ToSet(b.relation)}
        BY <4>2
      <4>4. QED
        BY <4>3 DEF NullFree
    <3>3. QED
      BY <3>1, <3>2
  <2>6. QED
    BY <2>2, <2>3, <2>4, <2>5 DEF Askable
<1>5. QED
  BY <1>3, <1>4 DEF AskableStage, q

\* The folded expression asks for what all filters ask for.
LEMMA AskedIs ==
    ASSUME NEW filters \in Seq(Filters), NEW s, s.expression = FoldExpressions(filters), NEW rows
    PROVE  StageAsked(s, rows) = Asked(filters, rows)
<1> DEFINE e == FoldExpressions(filters)
           E == ExpressionsIn(filters)
<1>1. Folds(e, E)
  BY FoldIs
<1> HIDE DEF e, E
<1>2. \A r : (e = <<>> \/ "holds" \in Says(e, r)) <=> \A x \in E : "holds" \in Says(x, r)
  <2>1. CASE e = <<>>
    BY <1>1, <2>1 DEF Folds
  <2>2. CASE e # <<>>
    BY <1>1, <2>2 DEF Folds, SaysAllOf
  <2>3. QED
    BY <2>1, <2>2
<1>3. StageAsked(s, rows) = {r \in rows : e = <<>> \/ "holds" \in Says(e, r)}
  BY DEF StageAsked, e
<1>4. Asked(filters, rows) = {r \in rows : \A x \in E : "holds" \in Says(x, r)}
  BY DEF Asked, E
<1>5. QED
  BY <1>2, <1>3, <1>4

Answerable(b) == BuilderOK(b) /\ ~Malformed(b) /\ ~Unsupported(Build(b)) /\ NullFree(b)

\* The outermost SELECT: its stage t selects what the builder's own stage s asks.
Outermost(t, s, b, p) ==
    /\ AskableStage(s) /\ StageFor(t, s, p) /\ s.expression = FoldExpressions(b.filters)
    /\ s.order = b.order /\ s.limit = b.limit /\ s.offset = b.offset

LEMMA StatementIs ==
    ASSUME NEW b, Answerable(b), NEW all \in SUBSET Row, IsFiniteSet(all)
    PROVE  LET g == SelectStatement(Build(b))
               from == FromClause(g.statement, all, g.parameters)
           IN  /\ \E s : Outermost(Last(g.statement), s, b, g.parameters)
               /\ from \in SUBSET (SUBSET all) /\ from \subseteq Sources(b.relation, all)
<1> DEFINE q == Build(b)
           g == SelectStatement(q)
           m == Len(b.relation)
           s == q[Len(q)]
<1>1. Builds(q, b)
  BY BuildIs DEF Answerable
<1>2. \A k \in 1..Len(q) : AskableStage(q[k])
  BY BuildIsAskable DEF Answerable
<1>3. b.relation \in Seq(Stage) /\ m \in Nat
  BY DEF Answerable, BuilderOK
<1> HIDE DEF q
<1>4. StatementFor(g, q)
  BY <1>1, SelectStatementIs DEF Builds
<1> HIDE DEF g
<1>5. /\ Len(q) = m + 1 /\ Len(g.statement) = m + 1
      /\ \A k \in 1..m : q[k] = b.relation[k]
      /\ \A k \in 1..m + 1 : AskableStage(q[k]) /\ StageFor(g.statement[k], q[k], g.parameters)
  <2>1. Len(q) = m + 1
    BY <1>1 DEF Builds
  <2>2. \A k \in 1..m : q[k] = b.relation[k]
    BY <1>1 DEF Builds
  <2>3. QED
    BY <1>2, <1>4, <2>1, <2>2 DEF StatementFor
<1>6. Outermost(Last(g.statement), s, b, g.parameters)
  <2>1. AskableStage(q[m + 1]) /\ StageFor(g.statement[m + 1], q[m + 1], g.parameters)
    BY <1>3, <1>5
  <2>2. Last(g.statement) = g.statement[m + 1] /\ s = q[m + 1]
    BY <1>5 DEF Last
  <2>3. /\ s.expression = FoldExpressions(b.filters)
        /\ s.order = b.order /\ s.limit = b.limit /\ s.offset = b.offset
    BY <1>1 DEF Builds
  <2> HIDE DEF s
  <2>4. QED
    BY <2>1, <2>2, <2>3 DEF Outermost
<1>7. \A k \in 1..m : AskableStage(b.relation[k]) /\ StageFor(g.statement[k], b.relation[k], g.parameters)
  <2> SUFFICES ASSUME NEW k \in 1..m
               PROVE  AskableStage(b.relation[k]) /\ StageFor(g.statement[k], b.relation[k], g.parameters)
    OBVIOUS
  <2>1. k \in 1..m + 1 /\ q[k] = b.relation[k]
    BY <1>3, <1>5
  <2>2. AskableStage(q[k]) /\ StageFor(g.statement[k], q[k], g.parameters)
    BY <1>5, <2>1
  <2>3. QED
    BY <2>1, <2>2
<1> DEFINE from == FromClause(g.statement, all, g.parameters)
<1>8. from \in SUBSET (SUBSET all) /\ from \subseteq Sources(b.relation, all)
  BY <1>3, <1>5, <1>7, FromIs
<1>9. QED
  BY <1>6, <1>8 DEF g, q

AnswerFor(x, b, all) ==
    \E source \in Sources(b.relation, all) :
        /\ Page(x, Asked(b.filters, source), b.order, b.limit, b.offset)
        /\ x \in SetToSeqs(ToSet(x)) /\ ToSet(x) \in SUBSET all

LEMMA AnswerIs ==
    ASSUME NEW b, Answerable(b), NEW all \in SUBSET Row, IsFiniteSet(all),
           NEW g, g = SelectStatement(Build(b)), NEW x \in Answers(g.statement, all, g.parameters)
    PROVE  AnswerFor(x, b, all)
<1> DEFINE from == FromClause(g.statement, all, g.parameters)
           t == Last(g.statement)
<1>1. (\E s : Outermost(t, s, b, g.parameters)) /\ from \in SUBSET (SUBSET all)
      /\ from \subseteq Sources(b.relation, all)
  BY StatementIs
<1>2. PICK s : Outermost(t, s, b, g.parameters)
  BY <1>1
<1>3. PICK source \in from : x \in Selected(t, source, g.parameters)
  BY DEF Answers
<1> HIDE DEF from, t
<1>4. source \in SUBSET all /\ source \in SUBSET Row /\ IsFiniteSet(source)
  <2>1. source \in SUBSET all
    BY <1>1
  <2>2. QED
    BY <2>1, FS_Subset
<1>5. IsSelection(x, s, source)
  BY <1>2, <1>3, <1>4, SelectedIs DEF Outermost
<1>6. StageAsked(s, source) = Asked(b.filters, source)
  BY <1>2, AskedIs DEF Outermost, Answerable, BuilderOK
<1>7. Page(x, Asked(b.filters, source), b.order, b.limit, b.offset)
  BY <1>2, <1>5, <1>6 DEF IsSelection, Outermost
<1>8. QED
  BY <1>1, <1>4, <1>5, <1>7 DEF AnswerFor, IsSelection

\* One row with a number, or none because of the limit or the offset.
CountFor(x, b, all) ==
    /\ x # <<>> => \E source \in Sources(b.relation, all) : x[1] = Cardinality(Asked(b.filters, source))
    /\ x = <<>> => b.limit = 0 \/ (b.offset # None /\ b.offset > 0)

LEMMA CountIs ==
    ASSUME NEW b, Answerable(b), NEW all \in SUBSET Row, IsFiniteSet(all),
           NEW g, g = SelectStatement(Build(b)), NEW x \in Counts(g.statement, all, g.parameters)
    PROVE  CountFor(x, b, all)
<1> DEFINE from == FromClause(g.statement, all, g.parameters)
           t == Last(g.statement)
<1>1. (\E s : Outermost(t, s, b, g.parameters)) /\ from \in SUBSET (SUBSET all)
      /\ from \subseteq Sources(b.relation, all)
  BY StatementIs
<1>2. PICK s : Outermost(t, s, b, g.parameters)
  BY <1>1
<1>3. PICK source \in from :
        x = Cut(<<Cardinality(Matching(t.where, source, g.parameters))>>, t.cut, g.parameters)
  BY DEF Counts
<1> HIDE DEF from, t
<1>4. source \in SUBSET Row /\ source \in Sources(b.relation, all)
  BY <1>1
<1>5. Matching(t.where, source, g.parameters) = StageAsked(s, source)
  BY <1>2, <1>4, MatchingIs DEF Outermost, StageFor
<1>6. StageAsked(s, source) = Asked(b.filters, source)
  BY <1>2, AskedIs DEF Outermost, Answerable, BuilderOK
<1> DEFINE c == Cardinality(Asked(b.filters, source))
           row == <<c>>
<1>7. x = Cut(row, t.cut, g.parameters)
  BY <1>3, <1>5, <1>6
<1>8. row \in Seq({c}) /\ Len(row) = 1 /\ row[1] = c
  OBVIOUS
<1> HIDE DEF row
<1>9. LimitTyped(b.limit) /\ OffsetTyped(b.offset) /\ CutFor(t.cut, b.limit, b.offset, g.parameters)
  BY <1>2 DEF Outermost, StageFor, Answerable, BuilderOK, LimitTyped, OffsetTyped
<1>10. IsCut(x, row, {c}, b.limit, b.offset)
  <2>1. IsCut(Cut(row, t.cut, g.parameters), row, {c}, b.limit, b.offset)
    BY <1>8, <1>9, CutIs
  <2>2. QED
    BY <1>7, <2>1
<1>11. /\ x \in Seq({c}) /\ Len(x) = PageLength(1, b.limit, b.offset)
  BY <1>8, <1>10 DEF IsCut
<1>12. CASE x # <<>>
  <2>1. Len(x) >= 1 /\ 1 \in 1..Len(x)
    BY <1>11, <1>12
  <2>2. x[1] = c
    BY <1>11, <2>1
  <2>3. QED
    BY <1>4, <1>12, <2>2 DEF CountFor
<1>13. CASE x = <<>>
  <2>1. PageLength(1, b.limit, b.offset) = 0
    BY <1>11, <1>13
  <2>2. (b.limit = None \/ b.limit \in Int) /\ (b.offset = None \/ b.offset \in Int)
    BY <1>9, LimitTypedIs
  <2>3. b.limit = 0 \/ (b.offset # None /\ b.offset > 0)
    BY <2>1, <2>2 DEF PageLength, Left, Skipped
  <2>4. QED
    BY <1>13, <2>3 DEF CountFor
<1>14. QED
  BY <1>12, <1>13

LEMMA NoParametersTyped == NoParameters \in Parameters
<1>1. NoParameters \in [{} -> Bound] /\ IsFiniteSet({}) /\ {} \in SUBSET Seq(Words)
  BY FS_EmptySet DEF NoParameters
<1>2. QED
  BY <1>1 DEF Parameters

LEMMA DeleteIs ==
    ASSUME NEW b, Answerable(b), NEW all \in SUBSET Row,
           NEW where, where = Condition(Last(Build(b)).expression, NoParameters)
    PROVE  Matching(where.condition, all, where.parameters) = Asked(b.filters, all)
<1> DEFINE q == Build(b)
           s == q[Len(q)]
<1>1. Builds(q, b)
  BY BuildIs DEF Answerable
<1>2. \A k \in 1..Len(q) : AskableStage(q[k])
  BY BuildIsAskable DEF Answerable
<1>3. Len(b.relation) \in Nat /\ b.filters \in Seq(Filters)
  BY DEF Answerable, BuilderOK
<1>4. Last(q) = s
  BY DEF Last
<1> HIDE DEF q
<1>5. Len(q) \in 1..Len(q)
  BY <1>1, <1>3 DEF Builds
<1>6. AskableStage(s) /\ Resolved(s.expression) /\ s.expression = FoldExpressions(b.filters)
  BY <1>1, <1>2, <1>5 DEF Builds
<1> HIDE DEF s
<1>7. ConditionFor(where.condition, s.expression, where.parameters)
  BY <1>4, <1>6, ConditionIs, NoParametersTyped DEF q
<1>8. Matching(where.condition, all, where.parameters) = StageAsked(s, all)
  BY <1>6, <1>7, MatchingIs
<1>9. StageAsked(s, all) = Asked(b.filters, all)
  BY <1>3, <1>6, AskedIs
<1>10. QED
  BY <1>8, <1>9

-----------------------------------------------------------------------------
(* The client.                                                               *)

QueryInv == IsFiniteSet(table) /\ table \in SUBSET Row /\ BuilderOK(builder)

LEMMA FirstBuilder == BuilderOK(Builder(<<>>))
BY DEF BuilderOK, Builder

LEMMA NextBuilder ==
    ASSUME NEW b, BuilderOK(b), ~Malformed(b)
    PROVE  BuilderOK(Builder(Build(b)))
<1> DEFINE q == Build(b)
<1>1. Builds(q, b)
  BY BuildIs
<1> HIDE DEF q
<1>2. q \in Seq(Stage) /\ \A k \in 1..Len(q) : Resolved(q[k].expression)
  BY <1>1 DEF Builds
<1>3. BuilderOK(Builder(q))
  BY <1>2 DEF BuilderOK, Builder
<1>4. QED
  BY <1>3 DEF q

LEMMA CalledBuilder ==
    ASSUME NEW b, BuilderOK(b)
    PROVE  /\ \A f \in Filters : BuilderOK([b EXCEPT !.filters = Append(@, f)])
           /\ \A o \in Orders : BuilderOK([b EXCEPT !.order = Append(@, o)])
           /\ \A limit \in Limits : BuilderOK([b EXCEPT !.limit = limit])
           /\ \A offset \in Offsets : BuilderOK([b EXCEPT !.offset = offset])
<1>1. /\ b \in [relation : Seq(Stage), filters : Seq(Filters), order : Seq(Orders),
                limit : Limits \cup {None}, offset : Offsets \cup {None}]
      /\ b.filters \in Seq(Filters) /\ b.order \in Seq(Orders)
      /\ \A k \in 1..Len(b.relation) : Resolved(b.relation[k].expression)
  BY DEF BuilderOK
<1>2. ASSUME NEW f \in Filters PROVE BuilderOK([b EXCEPT !.filters = Append(@, f)])
  <2>1. Append(b.filters, f) \in Seq(Filters)
    BY <1>1
  <2>2. QED
    BY <1>1, <2>1 DEF BuilderOK
<1>3. ASSUME NEW o \in Orders PROVE BuilderOK([b EXCEPT !.order = Append(@, o)])
  <2>1. Append(b.order, o) \in Seq(Orders)
    BY <1>1
  <2>2. QED
    BY <1>1, <2>1 DEF BuilderOK
<1>4. ASSUME NEW limit \in Limits PROVE BuilderOK([b EXCEPT !.limit = limit])
  BY <1>1 DEF BuilderOK
<1>5. ASSUME NEW offset \in Offsets PROVE BuilderOK([b EXCEPT !.offset = offset])
  BY <1>1 DEF BuilderOK
<1>6. QED
  BY <1>2, <1>3, <1>4, <1>5

LEMMA QueryInit == Init => QueryInv
<1> SUFFICES ASSUME Init PROVE QueryInv
  OBVIOUS
<1>1. table \in Tables /\ builder = Builder(<<>>)
  BY DEF Init
<1>2. IsFiniteSet(table) /\ table \subseteq Row
  BY <1>1, QueryAssumption
<1>3. QED
  BY <1>1, <1>2, FirstBuilder DEF QueryInv

LEMMA QueryNext == QueryInv /\ [Next]_vars => QueryInv'
<1> SUFFICES ASSUME QueryInv, [Next]_vars PROVE QueryInv'
  OBVIOUS
<1>1. IsFiniteSet(table) /\ table \in SUBSET Row /\ BuilderOK(builder)
  BY DEF QueryInv
<1>2. CASE UNCHANGED vars
  BY <1>1, <1>2 DEF QueryInv, vars
<1>3. ASSUME NEW b, Call(b), BuilderOK(b) PROVE QueryInv'
  BY <1>1, <1>3 DEF QueryInv, Call
<1>4. ASSUME NEW f \in Filters, AddFilter(f) PROVE QueryInv'
  BY <1>1, <1>3, <1>4, CalledBuilder DEF AddFilter
<1>5. ASSUME NEW o \in Orders, AddOrder(o) PROVE QueryInv'
  BY <1>1, <1>3, <1>5, CalledBuilder DEF AddOrder
<1>6. ASSUME NEW limit \in Limits, SetLimit(limit) PROVE QueryInv'
  BY <1>1, <1>3, <1>6, CalledBuilder DEF SetLimit
<1>7. ASSUME NEW offset \in Offsets, SetOffset(offset) PROVE QueryInv'
  BY <1>1, <1>3, <1>7, CalledBuilder DEF SetOffset
<1>8. CASE From
  BY <1>1, <1>8, FirstBuilder DEF QueryInv, From
<1>9. ASSUME Die PROVE QueryInv'
  BY <1>1, <1>9 DEF QueryInv, Die
<1>10. CASE FromQuery
  <2>1. CASE Malformed(builder)
    BY <1>9, <1>10, <2>1 DEF FromQuery
  <2>2. CASE ~Malformed(builder)
    <3>1. builder' = Builder(Build(builder)) /\ table' = table
      BY <1>10, <2>2 DEF FromQuery
    <3>2. QED
      BY <1>1, <2>2, <3>1, NextBuilder DEF QueryInv
  <2>3. QED
    BY <2>1, <2>2
<1>11. CASE Select
  <2>1. Die \/ UNCHANGED <<table, builder>>
    BY <1>11 DEF Select
  <2>2. QED
    BY <1>1, <1>9, <2>1 DEF QueryInv
<1>12. CASE Count
  <2>1. Die \/ UNCHANGED <<table, builder>>
    BY <1>12 DEF Count
  <2>2. QED
    BY <1>1, <1>9, <2>1 DEF QueryInv
<1>13. CASE Delete
  <2>1. Die \/ (table' \in SUBSET table /\ builder' = builder)
    BY <1>13 DEF Delete
  <2>2. CASE table' \in SUBSET table /\ builder' = builder
    <3>1. IsFiniteSet(table') /\ table' \in SUBSET Row
      BY <1>1, <2>2, FS_Subset
    <3>2. QED
      BY <1>1, <2>2, <3>1 DEF QueryInv
  <2>3. QED
    BY <1>9, <2>1, <2>2
<1>14. QED
  BY <1>2, <1>4, <1>5, <1>6, <1>7, <1>8, <1>10, <1>11, <1>12, <1>13 DEF Next

\* AnswersAsked of an answer a, a builder b and a table.
AcceptedBy(b, all) == {r \in all : \A f \in ToSet(b.filters) : f.type = "invokable" => r \in f.accepts}

PageOf(page, b, all) ==
    \E source \in Sources(b.relation, all) :
        Page(page, Asked(b.filters, source), b.order, b.limit, b.offset)

RowsRight(a, b, all) ==
    a.kind = "rows" /\ NullFree(b) =>
        \E page \in UNION {SetToSeqs(S) : S \in SUBSET all} :
            /\ PageOf(page, b, all)
            /\ a.rows = Kept(page, AcceptedBy(b, all)) /\ a.n = Len(a.rows)

CountRight(a, b, all) ==
    NullFree(b) =>
        /\ a.kind = "count" =>
             \E source \in Sources(b.relation, all) : a.n = Cardinality(Asked(b.filters, source))
        /\ a.kind = "error" => b.limit = 0 \/ (b.offset # None /\ b.offset > 0)

AnswerRight(a, b, all) == RowsRight(a, b, all) /\ CountRight(a, b, all)

LEMMA RowsRightIs == RowsRight(answer, builder, table) <=> SelectAnswers
<1>1. NullFree(builder) <=> NoNullInLists
  BY DEF NullFree, NoNullInLists
<1>2. AcceptedBy(builder, table) = Accepted
  BY DEF AcceptedBy, Accepted
<1>3. QED
  BY <1>1, <1>2 DEF RowsRight, PageOf, SelectAnswers

LEMMA CountRightIs == CountRight(answer, builder, table) <=> CountAnswers
<1>1. NullFree(builder) <=> NoNullInLists
  BY DEF NullFree, NoNullInLists
<1>2. QED
  BY <1>1 DEF CountRight, CountAnswers

LEMMA NothingAnswered ==
    ASSUME NEW a, a.kind \in {"none", "removed"}, NEW b, NEW all
    PROVE  AnswerRight(a, b, all)
BY DEF AnswerRight, RowsRight, CountRight

LEMMA SelectRight ==
    ASSUME QueryInv, Select, ~Die
    PROVE  AnswerRight(answer', builder, table)
<1> DEFINE q == Build(builder)
           g == SelectStatement(q)
           kept == {r \in table : \A a \in Last(q).invokables : r \in a}
<1>1. ~Malformed(builder) /\ ~Unsupported(q)
  BY DEF Select
<1>2. IsFiniteSet(table) /\ table \in SUBSET Row /\ BuilderOK(builder)
  BY DEF QueryInv
<1>3. PICK x \in Answers(g.statement, table, g.parameters) : ReturnRows(Kept(x, kept))
  BY <1>1 DEF Select
<1>4. kept = AcceptedBy(builder, table)
  <2>1. Builds(q, builder)
    BY <1>1, <1>2, BuildIs
  <2> HIDE DEF q
  <2>2. Last(q).invokables = FoldInvokables(builder.filters)
    BY <2>1 DEF Builds, Last
  <2>3. QED
    BY <2>2 DEF AcceptedBy, FoldInvokables
<1> HIDE DEF kept
<1>5. answer' = [kind |-> "rows", rows |-> Kept(x, kept), n |-> Len(Kept(x, kept))]
  BY <1>3 DEF ReturnRows, Return
<1>6. ASSUME NullFree(builder) PROVE RowsRight(answer', builder, table)
  <2>1. Answerable(builder)
    BY <1>1, <1>2, <1>6 DEF Answerable
  <2>2. AnswerFor(x, builder, table)
    BY <1>2, <2>1, AnswerIs
  <2>3. PageOf(x, builder, table) /\ x \in UNION {SetToSeqs(S) : S \in SUBSET table}
    BY <2>2 DEF AnswerFor, PageOf
  <2>4. answer'.rows = Kept(x, AcceptedBy(builder, table)) /\ answer'.n = Len(answer'.rows)
    BY <1>4, <1>5
  <2>5. QED
    BY <2>3, <2>4 DEF RowsRight
<1>7. RowsRight(answer', builder, table)
  BY <1>6 DEF RowsRight
<1>8. CountRight(answer', builder, table)
  BY <1>5 DEF CountRight
<1>9. QED
  BY <1>7, <1>8 DEF AnswerRight

LEMMA CountsRight ==
    ASSUME QueryInv, Count, ~Die
    PROVE  AnswerRight(answer', builder, table)
<1> DEFINE q == Build(builder)
           g == SelectStatement(q)
<1>1. ~Malformed(builder) /\ ~Unsupported(q)
  BY DEF Count
<1>2. IsFiniteSet(table) /\ table \in SUBSET Row /\ BuilderOK(builder)
  BY DEF QueryInv
<1>3. PICK x \in Counts(g.statement, table, g.parameters) :
        IF x = <<>> THEN Return("error", <<>>, 0) ELSE Return("count", <<>>, x[1])
  BY <1>1 DEF Count
<1>4. /\ x = <<>> => answer'.kind = "error"
      /\ x # <<>> => answer'.kind = "count" /\ answer'.n = x[1]
  BY <1>3 DEF Return
<1>5. ASSUME NullFree(builder) PROVE CountRight(answer', builder, table)
  <2>1. Answerable(builder)
    BY <1>1, <1>2, <1>5 DEF Answerable
  <2>2. CountFor(x, builder, table)
    BY <1>2, <2>1, CountIs
  <2>3. QED
    BY <1>4, <2>2 DEF CountFor, CountRight
<1>6. CountRight(answer', builder, table)
  BY <1>5 DEF CountRight
<1>7. RowsRight(answer', builder, table)
  BY <1>4 DEF RowsRight
<1>8. QED
  BY <1>6, <1>7 DEF AnswerRight

LEMMA AnswersNext ==
    ASSUME QueryInv, AnswersAsked, [Next]_vars
    PROVE  AnswersAsked'
<1>1. AnswerRight(answer, builder, table)
  BY RowsRightIs, CountRightIs DEF AnswersAsked, AnswerRight
<1> DEFINE right == AnswerRight(answer', builder', table')
<1>2. AnswersAsked' <=> right
  <2>1. NullFree(builder)' <=> NoNullInLists'
    BY DEF NullFree, NoNullInLists
  <2>2. AcceptedBy(builder, table)' = Accepted'
    BY DEF AcceptedBy, Accepted
  <2>3. RowsRight(answer, builder, table)' <=> SelectAnswers'
    BY <2>1, <2>2 DEF RowsRight, PageOf, SelectAnswers
  <2>4. CountRight(answer, builder, table)' <=> CountAnswers'
    BY <2>1 DEF CountRight, CountAnswers
  <2>5. QED
    BY <2>3, <2>4 DEF AnswersAsked, AnswerRight
<1> SUFFICES right
  BY <1>2
<1>3. ASSUME answer' = NoAnswer PROVE right
  BY <1>3, NothingAnswered DEF NoAnswer
<1>4. ASSUME UNCHANGED <<answer, builder, table>> PROVE right
  BY <1>1, <1>4
<1>5. ASSUME Die PROVE right
  BY <1>4, <1>5 DEF Die
<1>6. CASE UNCHANGED vars
  BY <1>4, <1>6 DEF vars
<1>7. ASSUME NEW b, Call(b) PROVE right
  BY <1>3, <1>7 DEF Call
<1>8. ASSUME NEW f \in Filters, AddFilter(f) PROVE right
  BY <1>7, <1>8 DEF AddFilter
<1>9. ASSUME NEW o \in Orders, AddOrder(o) PROVE right
  BY <1>7, <1>9 DEF AddOrder
<1>10. ASSUME NEW limit \in Limits, SetLimit(limit) PROVE right
  BY <1>7, <1>10 DEF SetLimit
<1>11. ASSUME NEW offset \in Offsets, SetOffset(offset) PROVE right
  BY <1>7, <1>11 DEF SetOffset
<1>12. CASE From
  BY <1>3, <1>12 DEF From
<1>13. CASE FromQuery
  BY <1>3, <1>5, <1>13 DEF FromQuery
<1>14. CASE Select
  <2>1. CASE Die
    BY <1>5, <2>1
  <2>2. CASE ~Die
    <3>1. AnswerRight(answer', builder, table)
      BY <1>14, <2>2, SelectRight
    <3>2. table' = table /\ builder' = builder
      BY <1>14, <2>2 DEF Select
    <3>3. QED
      BY <3>1, <3>2
  <2>3. QED
    BY <2>1, <2>2
<1>15. CASE Count
  <2>1. CASE Die
    BY <1>5, <2>1
  <2>2. CASE ~Die
    <3>1. AnswerRight(answer', builder, table)
      BY <1>15, <2>2, CountsRight
    <3>2. table' = table /\ builder' = builder
      BY <1>15, <2>2 DEF Count
    <3>3. QED
      BY <3>1, <3>2
  <2>3. QED
    BY <2>1, <2>2
<1>16. CASE Delete
  <2>1. CASE Die
    BY <1>5, <2>1
  <2>2. CASE ~Die
    <3>1. answer'.kind = "removed"
      BY <1>16, <2>2 DEF Delete, Return
    <3>2. QED
      BY <3>1, NothingAnswered
  <2>3. QED
    BY <2>1, <2>2
<1>17. QED
  BY <1>6, <1>8, <1>9, <1>10, <1>11, <1>12, <1>13, <1>14, <1>15, <1>16 DEF Next

\* select() and count() answer what the builder asks for, for any class, table,
\* filters, orders, limits and offsets, and however many queries deep the
\* relation is: SQLite, given the statement and the parameters, returns a page
\* of the rows that all filters hold of.
THEOREM AnswersMatch == Spec => []AnswersAsked
<1>1. Init => QueryInv /\ AnswersAsked
  <2> SUFFICES ASSUME Init PROVE QueryInv /\ AnswersAsked
    OBVIOUS
  <2>1. answer = NoAnswer
    BY DEF Init
  <2>2. AnswerRight(answer, builder, table)
    BY <2>1, NothingAnswered DEF NoAnswer
  <2>3. QED
    BY <2>2, QueryInit, RowsRightIs, CountRightIs DEF AnswersAsked, AnswerRight
<1>2. QueryInv /\ AnswersAsked /\ [Next]_vars => (QueryInv /\ AnswersAsked)'
  BY QueryNext, AnswersNext
<1>3. QED
  BY <1>1, <1>2, PTL DEF Spec

LEMMA DeletesRight ==
    ASSUME QueryInv, Delete, ~Die, NoNullInLists
    PROVE  /\ table' = table \ Asked(builder.filters, table)
           /\ answer'.n = Cardinality(table) - Cardinality(table')
<1> DEFINE q == Build(builder)
           where == Condition(Last(q).expression, NoParameters)
           gone == Matching(where.condition, table, where.parameters)
<1>1. ~Malformed(builder) /\ ~Unsupported(q)
  BY DEF Delete
<1>2. IsFiniteSet(table) /\ table \in SUBSET Row /\ BuilderOK(builder)
  BY DEF QueryInv
<1>3. table' = table \ gone /\ answer'.n = Cardinality(gone)
  BY DEF Delete, Return
<1>4. Answerable(builder)
  BY <1>1, <1>2 DEF Answerable, NullFree, NoNullInLists
<1>5. gone = Asked(builder.filters, table)
  BY <1>2, <1>4, DeleteIs
<1> HIDE DEF gone
<1>6. gone \in SUBSET table
  BY <1>5 DEF Asked
<1>7. Cardinality(table \ gone) = Cardinality(table) - Cardinality(table \cap gone) /\ table \cap gone = gone
  BY <1>2, <1>6, FS_Difference
<1>8. Cardinality(gone) \in Nat /\ Cardinality(table) \in Nat
  BY <1>2, <1>6, FS_Subset, FS_CardinalityType
<1>9. QED
  BY <1>3, <1>5, <1>7, <1>8

\* remove() removes the rows all filters hold of and reports how many these
\* are, and nothing else changes the table.
THEOREM DeletesMatch == Spec => DeletesAsked
<1> DEFINE Right == IF answer.kind = "none" /\ answer'.kind = "removed"
                    THEN NoNullInLists => /\ table' = table \ Asked(builder.filters, table)
                                          /\ answer'.n = Cardinality(table) - Cardinality(table')
                    ELSE table' = table
<1>1. QueryInv /\ [Next]_vars => [Right]_vars
  <2> SUFFICES ASSUME QueryInv, Next PROVE Right
    OBVIOUS
  <2>1. ASSUME table' = table, ~(answer.kind = "none" /\ answer'.kind = "removed") PROVE Right
    BY <2>1
  <2>2. ASSUME Die PROVE Right
    BY <2>1, <2>2 DEF Die
  <2>3. ASSUME table' = table, answer' = NoAnswer PROVE Right
    BY <2>1, <2>3 DEF NoAnswer
  <2>4. ASSUME NEW b, Call(b) PROVE Right
    BY <2>3, <2>4 DEF Call
  <2>5. ASSUME NEW f \in Filters, AddFilter(f) PROVE Right
    BY <2>4, <2>5 DEF AddFilter
  <2>6. ASSUME NEW o \in Orders, AddOrder(o) PROVE Right
    BY <2>4, <2>6 DEF AddOrder
  <2>7. ASSUME NEW limit \in Limits, SetLimit(limit) PROVE Right
    BY <2>4, <2>7 DEF SetLimit
  <2>8. ASSUME NEW offset \in Offsets, SetOffset(offset) PROVE Right
    BY <2>4, <2>8 DEF SetOffset
  <2>9. CASE From
    BY <2>3, <2>9 DEF From
  <2>10. CASE FromQuery
    BY <2>2, <2>3, <2>10 DEF FromQuery
  <2>11. CASE Select
    <3>1. Die \/ (table' = table /\ answer'.kind = "rows")
      <4>1. Die \/ (table' = table /\ \E rows : ReturnRows(rows))
        BY <2>11 DEF Select
      <4>2. \A rows : ReturnRows(rows) => answer'.kind = "rows"
        BY DEF ReturnRows, Return
      <4>3. QED
        BY <4>1, <4>2
    <3>2. QED
      BY <2>1, <2>2, <3>1
  <2>12. CASE Count
    <3>1. Die \/ (table' = table /\ answer'.kind \in {"error", "count"})
      BY <2>12 DEF Count, Return
    <3>2. QED
      BY <2>1, <2>2, <3>1
  <2>13. CASE Delete
    <3>1. CASE Die
      BY <2>2, <3>1
    <3>2. CASE ~Die
      <4>1. answer.kind = "none" /\ answer'.kind = "removed"
        BY <2>13, <3>2 DEF Delete, Return, NoAnswer
      <4>2. QED
        BY <2>13, <3>2, <4>1, DeletesRight
    <3>3. QED
      BY <3>1, <3>2
  <2>14. QED
    BY <2>5, <2>6, <2>7, <2>8, <2>9, <2>10, <2>11, <2>12, <2>13 DEF Next
<1>2. QED
  BY <1>1, QueryInit, QueryNext, PTL DEF Spec, DeletesAsked

=============================================================================
