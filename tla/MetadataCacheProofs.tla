------------------------- MODULE MetadataCacheProofs -------------------------
(* Theorems about MetadataCache, for any finite set of classes and whatever  *)
(* they declare: the text of an entry is read as it was written, and classes *)
(* are handed out complete, as declared and valid, or the process ends for a *)
(* reason.                                                                   *)

EXTENDS MetadataCache, FiniteSetTheorems, NaturalsInduction, SequenceTheorems, TLAPS

-----------------------------------------------------------------------------
(* Least elements, and induction up to a number.                             *)

LEMMA Least ==
    ASSUME NEW T, T \subseteq Nat, T # {}
    PROVE  \E x \in T : \A y \in T : x <= y
<1> DEFINE R == OpToRel(<, Nat)
<1>1. R = {ss \in Nat \X Nat : ss[1] < ss[2]}
  BY DEF OpToRel
<1>2. IsWellFoundedOn(R, Nat)
  BY NatLessThanWellFounded
<1> HIDE DEF R
<1>3. PICK x \in T : \A y \in T : ~ (<<y, x>> \in R)
  BY <1>2, WFMin
<1>4. ASSUME NEW y \in T PROVE x <= y
  <2>1. x \in Nat /\ y \in Nat
    OBVIOUS
  <2>2. <<y, x>> \in R <=> y < x
    BY <1>1, <2>1
  <2>3. QED
    BY <1>3, <2>1, <2>2
<1>5. QED
  BY <1>4

LEMMA UpTo ==
    ASSUME NEW n \in Nat, NEW S, 0 \in S, \A i \in 1..n : i - 1 \in S => i \in S
    PROVE  \A i \in 0..n : i \in S
<1> DEFINE T == {i \in 0..n : i \notin S}
<1>1. SUFFICES ASSUME T # {} PROVE FALSE
  OBVIOUS
<1>2. PICK x \in T : \A y \in T : x <= y
  <2>1. T \subseteq Nat
    OBVIOUS
  <2> HIDE DEF T
  <2>2. QED
    BY <1>1, <2>1, Least
<1>3. x \in 1..n /\ x - 1 \notin T
  BY <1>2
<1>4. QED
  BY <1>3

LEMMA Greatest ==
    ASSUME NEW n \in Nat, NEW T, T \subseteq 1..n, T # {}
    PROVE  \E x \in T : \A y \in T : y <= x
<1> DEFINE U == {k \in 0..n : n - k \in T}
<1>1. PICK z : z \in T
  OBVIOUS
<1>2. n - z \in U
  BY <1>1
<1>3. PICK k \in U : \A j \in U : k <= j
  <2>1. U \subseteq Nat
    OBVIOUS
  <2> HIDE DEF U
  <2>2. QED
    BY <1>2, <2>1, Least
<1>4. n - k \in T
  OBVIOUS
<1>5. ASSUME NEW y \in T PROVE y <= n - k
  <2>1. n - y \in U
    OBVIOUS
  <2>2. k <= n - y
    BY <1>3, <2>1
  <2>3. QED
    BY <2>2
<1>6. QED
  BY <1>4, <1>5

-----------------------------------------------------------------------------
(* How the text of an entry is made up.                                      *)

Token == Words \cup Keywords
KeywordsOf(e) == IF e.about = "class" THEN ClassKeywords ELSE PropertyKeywords

LEMMA EntryTyped ==
    ASSUME NEW e \in Entry
    PROVE  /\ Len(e.clauses) \in Nat /\ e.name \in Seq(Words)
           /\ e.about \in {"class", "property"}
           /\ KeywordsOf(e) \subseteq Keywords
           /\ \A i \in 1..Len(e.clauses) :
                 e.clauses[i].key \in KeywordsOf(e) /\ e.clauses[i].arg \in Seq(Words)
<1>1. \A K : \A c \in Clause(K) : c.key \in K /\ c.arg \in Seq(Words)
  BY DEF Clause
<1>2. /\ e.about \in {"class", "property"} /\ e.name \in Seq(Words)
      /\ e.clauses \in Seq(Clause(KeywordsOf(e)))
  BY DEF Entry, KeywordsOf
<1>3. KeywordsOf(e) \subseteq Keywords
  BY DEF KeywordsOf, Keywords
<1>4. ASSUME NEW i \in 1..Len(e.clauses)
      PROVE  e.clauses[i].key \in KeywordsOf(e) /\ e.clauses[i].arg \in Seq(Words)
  <2>1. e.clauses[i] \in Clause(KeywordsOf(e))
    BY <1>2
  <2>2. QED
    BY <1>1, <2>1
<1>5. QED
  BY <1>2, <1>3, <1>4

\* The recursion of Written has a value.
LEMMA WrittenSteps ==
    ASSUME NEW e \in Entry
    PROVE  \E f \in [0..Len(e.clauses) -> Seq(Token)] :
              /\ f[0] = e.name /\ Written(e) = f[Len(e.clauses)]
              /\ \A i \in 1..Len(e.clauses) :
                    f[i] = f[i - 1] \o <<e.clauses[i].key>> \o e.clauses[i].arg
<1> DEFINE n == Len(e.clauses)
           Next1(s, i) == s \o <<e.clauses[i].key>> \o e.clauses[i].arg
           Steps(f, m) == /\ f \in [0..m -> Seq(Token)] /\ f[0] = e.name
                          /\ \A i \in 1..m : f[i] = Next1(f[i - 1], i)
<1>1. n \in Nat /\ e.name \in Seq(Token)
  BY EntryTyped DEF Token
<1>2. ASSUME NEW i \in 1..n, NEW s \in Seq(Token) PROVE Next1(s, i) \in Seq(Token)
  <2>1. e.clauses[i].key \in Token /\ e.clauses[i].arg \in Seq(Token)
    BY EntryTyped DEF Token
  <2>2. QED
    BY <2>1
<1> HIDE DEF Next1, n
<1> DEFINE S == {m \in 0..n : \E f : Steps(f, m)}
<1>3. 0 \in S
  <2> DEFINE g == [i \in 0..0 |-> e.name]
  <2>1. g \in [0..0 -> Seq(Token)] /\ g[0] = e.name /\ 1..0 = {}
    BY <1>1
  <2> HIDE DEF g
  <2>2. Steps(g, 0)
    BY <2>1
  <2>3. 0 \in 0..n
    BY <1>1
  <2>4. QED
    BY <2>2, <2>3
<1>4. ASSUME NEW m \in 1..n, m - 1 \in S PROVE m \in S
  <2>1. PICK g : Steps(g, m - 1)
    BY <1>4
  <2> DEFINE h == [i \in 0..m |-> IF i = m THEN Next1(g[m - 1], m) ELSE g[i]]
  <2>2. m \in Nat /\ m - 1 \in 0..m - 1 /\ g[m - 1] \in Seq(Token)
    BY <1>1, <2>1
  <2>3. \A i \in 0..m : i # m => i \in 0..m - 1
    BY <2>2
  <2>4. h \in [0..m -> Seq(Token)]
    BY <1>2, <2>1, <2>2, <2>3
  <2>5. h[0] = e.name
    BY <2>1, <2>2
  <2>6. ASSUME NEW i \in 1..m PROVE h[i] = Next1(h[i - 1], i)
    BY <2>1, <2>2
  <2>7. Steps(h, m)
    BY <2>4, <2>5, <2>6
  <2> HIDE DEF h, Steps
  <2>8. m \in 0..n
    BY <1>1
  <2>9. QED
    BY <2>7, <2>8
<1>5. n \in S
  <2> HIDE DEF S
  <2>1. \A i \in 0..n : i \in S
    BY <1>1, <1>3, <1>4, UpTo
  <2>2. QED
    BY <1>1, <2>1
<1>6. PICK g : Steps(g, n)
  BY <1>5
<1> DEFINE Rec(f) == f = [i \in 0..n |-> IF i = 0 THEN e.name ELSE Next1(f[i - 1], i)]
           from == CHOOSE f : Rec(f)
<1>7. Rec(g)
  <2>1. \A i \in 0..n : g[i] = IF i = 0 THEN e.name ELSE Next1(g[i - 1], i)
    BY <1>1, <1>6
  <2>2. QED
    BY <1>6, <2>1
<1>8. Rec(from)
  <2> HIDE DEF Rec
  <2>1. QED
    BY <1>7
<1>9. Written(e) = from[n]
  BY DEF Written, n, Next1
<1> HIDE DEF from
<1> DEFINE Q == {m \in 0..n : from[m] \in Seq(Token)}
<1>10. \A i \in 0..n : from[i] \in Seq(Token)
  <2>1. from[0] = e.name
    BY <1>1, <1>8
  <2>2. 0 \in Q
    BY <1>1, <2>1
  <2>3. ASSUME NEW i \in 1..n, i - 1 \in Q PROVE i \in Q
    <3>1. from[i] = Next1(from[i - 1], i) /\ i \in 0..n
      BY <1>1, <1>8
    <3>2. QED
      BY <1>2, <2>3, <3>1
  <2> HIDE DEF Q
  <2>4. \A i \in 0..n : i \in Q
    BY <1>1, <2>2, <2>3, UpTo
  <2>5. QED
    BY <2>4 DEF Q
<1>11. Steps(from, n)
  BY <1>1, <1>8, <1>10
<1>12. QED
  BY <1>9, <1>11 DEF n, Next1

LEMMA Joined ==
    ASSUME NEW T, NEW s \in Seq(T), NEW x \in T, NEW a \in Seq(T), NEW d,
           d = s \o <<x>> \o a
    PROVE  /\ d \in Seq(T) /\ Len(d) = Len(s) + 1 + Len(a)
           /\ \A k \in 1..Len(s) : d[k] = s[k]
           /\ d[Len(s) + 1] = x
           /\ \A k \in 1..Len(a) : d[Len(s) + 1 + k] = a[k]
OBVIOUS

\* The keywords of the clauses stand at pos, and everything else in the text is
\* words.
Laid(e, data, pos) ==
    /\ data \in Seq(Token)
    /\ pos \in [1..Len(e.clauses) + 1 -> Nat \ {0}]
    /\ pos[1] = Len(e.name) + 1 /\ pos[Len(e.clauses) + 1] = Len(data) + 1
    /\ \A k \in 1..Len(e.name) : data[k] = e.name[k]
    /\ \A i \in 1..Len(e.clauses) :
          /\ pos[i + 1] = pos[i] + 1 + Len(e.clauses[i].arg)
          /\ data[pos[i]] = e.clauses[i].key
          /\ \A k \in 1..Len(e.clauses[i].arg) : data[pos[i] + k] = e.clauses[i].arg[k]
    /\ \A k \in 1..Len(data) : data[k] \in Keywords => \E i \in 1..Len(e.clauses) : k = pos[i]

LEMMA Layout == ASSUME NEW e \in Entry PROVE \E pos : Laid(e, Written(e), pos)
<1> DEFINE n == Len(e.clauses)
           key(i) == e.clauses[i].key
           arg(i) == e.clauses[i].arg
<1>1. PICK f \in [0..n -> Seq(Token)] :
         /\ f[0] = e.name /\ Written(e) = f[n]
         /\ \A i \in 1..n : f[i] = f[i - 1] \o <<key(i)>> \o arg(i)
  BY WrittenSteps
<1>2. /\ n \in Nat /\ e.name \in Seq(Words)
      /\ \A i \in 1..n : key(i) \in Keywords /\ arg(i) \in Seq(Words)
  BY EntryTyped
<1>3. Words \cap Keywords = {}
  BY ProgramsAssumption
<1> HIDE DEF n, key, arg
<1>4. ASSUME NEW m \in 1..n
      PROVE  /\ Len(f[m - 1]) \in Nat /\ Len(arg(m)) \in Nat
             /\ Len(f[m]) = Len(f[m - 1]) + 1 + Len(arg(m))
             /\ \A k \in 1..Len(f[m - 1]) : f[m][k] = f[m - 1][k]
             /\ f[m][Len(f[m - 1]) + 1] = key(m)
             /\ \A k \in 1..Len(arg(m)) : f[m][Len(f[m - 1]) + 1 + k] = arg(m)[k]
  <2>1. f[m - 1] \in Seq(Token) /\ key(m) \in Token /\ arg(m) \in Seq(Token)
    BY <1>1, <1>2 DEF Token
  <2>2. f[m] = f[m - 1] \o <<key(m)>> \o arg(m)
    BY <1>1
  <2>3. QED
    BY <2>1, <2>2, Joined
<1> DEFINE at(i) == Len(f[i - 1]) + 1
           LaidTo(m) ==
             /\ \A i \in 0..m : Len(f[i]) \in Nat /\ Len(f[i]) <= Len(f[m])
             /\ \A k \in 1..Len(e.name) : f[m][k] = e.name[k]
             /\ \A i \in 1..m : /\ f[m][at(i)] = key(i)
                                /\ \A k \in 1..Len(arg(i)) : f[m][at(i) + k] = arg(i)[k]
             /\ \A k \in 1..Len(f[m]) : f[m][k] \in Keywords => \E i \in 1..m : k = at(i)
           S == {m \in 0..n : LaidTo(m)}
<1>5. 0 \in S
  <2>1. f[0] = e.name /\ Len(e.name) \in Nat /\ 0 \in 0..n
    BY <1>1, <1>2
  <2>2. \A k \in 1..Len(e.name) : e.name[k] \notin Keywords
    BY <1>2, <1>3
  <2>3. QED
    BY <2>1, <2>2
<1>6. ASSUME NEW m \in 1..n, m - 1 \in S PROVE m \in S
  <2> DEFINE L == Len(f[m - 1])
  <2>1. m \in Nat /\ m \in 0..n /\ LaidTo(m - 1)
    BY <1>2, <1>6
  <2>2. /\ L \in Nat /\ Len(arg(m)) \in Nat /\ Len(f[m]) = L + 1 + Len(arg(m))
        /\ \A k \in 1..L : f[m][k] = f[m - 1][k]
        /\ f[m][L + 1] = key(m)
        /\ \A k \in 1..Len(arg(m)) : f[m][L + 1 + k] = arg(m)[k]
    BY <1>4
  <2>3. \A i \in 0..m : Len(f[i]) \in Nat /\ Len(f[i]) <= Len(f[m])
    <3>1. \A i \in 0..m - 1 : Len(f[i]) \in Nat /\ Len(f[i]) <= L
      BY <2>1
    <3>2. \A i \in 0..m : i = m \/ i \in 0..m - 1
      BY <2>1
    <3> HIDE DEF L
    <3>3. QED
      BY <2>2, <3>1, <3>2
  <2>4. \A k \in 1..Len(e.name) : f[m][k] = e.name[k]
    <3>1. Len(f[0]) <= L /\ Len(e.name) \in Nat /\ f[0] = e.name
      BY <1>1, <1>2, <2>1
    <3>2. \A k \in 1..Len(e.name) : k \in 1..L /\ f[m - 1][k] = e.name[k]
      BY <2>1, <2>2, <3>1
    <3>3. QED
      BY <2>2, <3>2
  <2>5. ASSUME NEW i \in 1..m
        PROVE  /\ f[m][at(i)] = key(i)
               /\ \A k \in 1..Len(arg(i)) : f[m][at(i) + k] = arg(i)[k]
    <3>1. CASE i = m
      BY <2>2, <3>1
    <3>2. CASE i # m
      <4>1. i \in 1..m - 1 /\ i - 1 \in 0..m - 1 /\ i \in 1..n
        BY <1>2, <2>1, <3>2
      <4>2. /\ Len(f[i]) = at(i) + Len(arg(i)) /\ Len(f[i]) <= L
            /\ at(i) \in Nat /\ at(i) >= 1 /\ Len(arg(i)) \in Nat
        BY <1>4, <2>1, <4>1
      <4>3. at(i) \in 1..L /\ \A k \in 1..Len(arg(i)) : at(i) + k \in 1..L
        <5>1. L \in Nat
          BY <2>2
        <5> HIDE DEF at, L
        <5>2. QED
          BY <4>2, <5>1
      <4>4. /\ f[m - 1][at(i)] = key(i)
            /\ \A k \in 1..Len(arg(i)) : f[m - 1][at(i) + k] = arg(i)[k]
        BY <2>1, <4>1
      <4>5. QED
        BY <2>2, <4>3, <4>4
    <3>3. QED
      BY <3>1, <3>2
  <2>6. ASSUME NEW k \in 1..Len(f[m]), f[m][k] \in Keywords PROVE \E i \in 1..m : k = at(i)
    <3>1. CASE k \in 1..L
      <4>1. PICK i \in 1..m - 1 : k = at(i)
        BY <2>1, <2>2, <2>6, <3>1
      <4>2. QED
        BY <2>1, <4>1
    <3>2. CASE k = L + 1
      BY <2>1, <3>2
    <3>3. CASE k > L + 1
      <4>1. k - (L + 1) \in 1..Len(arg(m)) /\ k = L + 1 + (k - (L + 1))
        <5>1. L \in Nat /\ Len(arg(m)) \in Nat /\ k \in 1..L + 1 + Len(arg(m))
          BY <2>2
        <5> HIDE DEF L
        <5>2. QED
          BY <3>3, <5>1
      <4>2. f[m][k] = arg(m)[k - (L + 1)]
        BY <2>2, <4>1
      <4>3. arg(m)[k - (L + 1)] \in Words
        BY <1>2, <4>1
      <4>4. QED
        BY <1>3, <2>6, <4>2, <4>3
    <3>4. QED
      BY <2>2, <3>1, <3>2, <3>3
  <2>7. LaidTo(m)
    BY <2>3, <2>4, <2>5, <2>6
  <2> HIDE DEF LaidTo
  <2>8. QED
    BY <2>1, <2>7
<1>7. n \in S
  <2> HIDE DEF S
  <2>1. \A i \in 0..n : i \in S
    BY <1>2, <1>5, <1>6, UpTo
  <2>2. QED
    BY <1>2, <2>1
<1>8. LaidTo(n)
  BY <1>7
<1> DEFINE pos == [i \in 1..n + 1 |-> at(i)]
<1>9. Laid(e, f[n], pos)
  <2>1. f[n] \in Seq(Token) /\ f[0] = e.name
    BY <1>1, <1>2
  <2>2. \A i \in 1..n + 1 : i - 1 \in 0..n /\ Len(f[i - 1]) \in Nat
    BY <1>2, <1>8
  <2>3. /\ pos \in [1..n + 1 -> Nat \ {0}]
        /\ pos[1] = Len(e.name) + 1 /\ pos[n + 1] = Len(f[n]) + 1
    <3>1. \A i \in 1..n + 1 : at(i) \in Nat \ {0}
      BY <2>2
    <3>2. /\ 1 \in 1..n + 1 /\ n + 1 \in 1..n + 1
          /\ at(1) = Len(e.name) + 1 /\ at(n + 1) = Len(f[n]) + 1
      BY <1>2, <2>1
    <3> HIDE DEF at
    <3>3. QED
      BY <3>1, <3>2
  <2>4. \A k \in 1..Len(e.name) : f[n][k] = e.name[k]
    BY <1>8
  <2>5. ASSUME NEW i \in 1..n
        PROVE  /\ pos[i + 1] = pos[i] + 1 + Len(arg(i))
               /\ f[n][pos[i]] = key(i)
               /\ \A k \in 1..Len(arg(i)) : f[n][pos[i] + k] = arg(i)[k]
    <3>1. i \in 1..n + 1 /\ i + 1 \in 1..n + 1
      BY <1>2
    <3>2. pos[i] = at(i) /\ pos[i + 1] = Len(f[i]) + 1
      BY <3>1
    <3>3. Len(f[i]) = Len(f[i - 1]) + 1 + Len(arg(i)) /\ Len(f[i - 1]) \in Nat
          /\ Len(arg(i)) \in Nat
      BY <1>4
    <3>4. pos[i + 1] = pos[i] + 1 + Len(arg(i))
      <4> HIDE DEF pos
      <4>1. QED
        BY <3>2, <3>3
    <3>5. /\ f[n][at(i)] = key(i)
          /\ \A k \in 1..Len(arg(i)) : f[n][at(i) + k] = arg(i)[k]
      BY <1>8
    <3> HIDE DEF pos, at
    <3>6. QED
      BY <3>2, <3>4, <3>5
  <2>6. ASSUME NEW k \in 1..Len(f[n]), f[n][k] \in Keywords PROVE \E i \in 1..n : k = pos[i]
    <3>1. PICK i \in 1..n : k = at(i)
      BY <1>8, <2>6
    <3>2. i \in 1..n + 1
      BY <1>2
    <3>3. QED
      BY <3>1, <3>2
  <2> HIDE DEF pos
  <2>7. QED
    BY <2>1, <2>3, <2>4, <2>5, <2>6 DEF Laid, n, key, arg
<1>10. QED
  BY <1>1, <1>9

-----------------------------------------------------------------------------
(* How the text of an entry is read.                                         *)

LEMMA Ascends ==
    ASSUME NEW e \in Entry, NEW data, NEW pos, Laid(e, data, pos)
    PROVE  /\ \A i, j \in 1..Len(e.clauses) + 1 : i < j => pos[i] < pos[j]
           /\ \A i \in 1..Len(e.clauses) : pos[i] \in 1..Len(data)
<1> DEFINE n == Len(e.clauses)
           S == {j \in 0..n : \A i \in 1..j : pos[i] < pos[j + 1]}
<1>1. /\ n \in Nat /\ pos \in [1..n + 1 -> Nat \ {0}]
      /\ pos[n + 1] = Len(data) + 1 /\ Len(data) \in Nat
  BY EntryTyped DEF Laid
<1>2. \A i \in 1..n : pos[i + 1] = pos[i] + 1 + Len(e.clauses[i].arg)
  BY DEF Laid
<1>3. \A i \in 1..n : Len(e.clauses[i].arg) \in Nat
  BY EntryTyped
<1> HIDE DEF n
<1>4. ASSUME NEW i \in 1..n PROVE pos[i] < pos[i + 1]
  <2>1. i \in 1..n + 1 /\ Len(e.clauses[i].arg) \in Nat
    BY <1>1, <1>3
  <2>2. pos[i] \in Nat /\ pos[i + 1] = pos[i] + 1 + Len(e.clauses[i].arg)
    BY <1>1, <1>2, <2>1
  <2>3. QED
    BY <2>1, <2>2
<1>5. 0 \in S
  BY <1>1
<1>6. ASSUME NEW j \in 1..n, j - 1 \in S PROVE j \in S
  <2>1. pos[j] < pos[j + 1] /\ j \in 0..n
    BY <1>1, <1>4
  <2>2. ASSUME NEW i \in 1..j PROVE pos[i] < pos[j + 1]
    <3>1. CASE i = j
      BY <2>1, <3>1
    <3>2. CASE i # j
      <4>1. i \in 1..j - 1 /\ (j - 1) + 1 = j
        BY <1>1, <3>2
      <4>2. pos[i] < pos[j]
        BY <1>6, <4>1
      <4>3. pos[i] \in Nat /\ pos[j] \in Nat /\ pos[j + 1] \in Nat
        BY <1>1
      <4>4. QED
        BY <2>1, <4>2, <4>3
    <3>3. QED
      BY <3>1, <3>2
  <2>3. QED
    BY <2>1, <2>2
<1>7. \A j \in 0..n : j \in S
  <2> HIDE DEF S
  <2>1. QED
    BY <1>1, <1>5, <1>6, UpTo
<1>8. \A i, j \in 1..n + 1 : i < j => pos[i] < pos[j]
  <2> SUFFICES ASSUME NEW i \in 1..n + 1, NEW j \in 1..n + 1, i < j PROVE pos[i] < pos[j]
    OBVIOUS
  <2>1. j - 1 \in 0..n /\ i \in 1..j - 1 /\ (j - 1) + 1 = j
    BY <1>1
  <2>2. QED
    BY <1>7, <2>1
<1>9. ASSUME NEW i \in 1..n PROVE pos[i] \in 1..Len(data)
  <2>1. i \in 1..n + 1 /\ n + 1 \in 1..n + 1 /\ i < n + 1
    BY <1>1
  <2>2. pos[i] < pos[n + 1] /\ pos[i] \in Nat \ {0}
    BY <1>1, <1>8, <2>1
  <2>3. QED
    BY <1>1, <2>2
<1>10. QED
  BY <1>8, <1>9 DEF n

\* Where a keyword stands, and which one.
LEMMA KeywordsStand ==
    ASSUME NEW e \in Entry, NEW data, NEW pos, Laid(e, data, pos)
    PROVE  \A k \in 1..Len(data) :
              data[k] \in KeywordsOf(e) <=> \E i \in 1..Len(e.clauses) : k = pos[i]
BY EntryTyped DEF Laid

\* findNextKeyword() finds the next clause.
LEMMA NextFrom ==
    ASSUME NEW e \in Entry, NEW data, NEW pos, Laid(e, data, pos),
           NEW i \in 1..Len(e.clauses) + 1, NEW start \in Nat \ {0}, start <= pos[i],
           i = 1 \/ pos[i - 1] < start
    PROVE  NextKeyword(data, start, KeywordsOf(e)) =
               IF i = Len(e.clauses) + 1 THEN 0 ELSE pos[i]
<1> DEFINE n == Len(e.clauses)
           at == {k \in start..Len(data) : data[k] \in KeywordsOf(e)}
<1>1. n \in Nat /\ pos \in [1..n + 1 -> Nat \ {0}] /\ Len(data) \in Nat
  BY EntryTyped DEF Laid
<1>2. /\ \A j, k \in 1..n + 1 : j < k => pos[j] < pos[k]
      /\ \A j \in 1..n : pos[j] \in 1..Len(data)
  BY Ascends
<1>3. NextKeyword(data, start, KeywordsOf(e)) =
        IF at = {} THEN 0 ELSE CHOOSE k \in at : \A j \in at : k <= j
  BY DEF NextKeyword
<1>4. ASSUME NEW k \in at PROVE \E j \in i..n : k = pos[j]
  <2>1. k \in 1..Len(data) /\ start <= k
    BY <1>1
  <2>2. PICK j \in 1..n : k = pos[j]
    BY <2>1, KeywordsStand
  <2>3. ~ (j < i)
    <3> SUFFICES ASSUME j < i PROVE FALSE
      OBVIOUS
    <3>1. i - 1 \in 1..n + 1 /\ j \in 1..n + 1 /\ pos[i - 1] < start /\ (j < i - 1 \/ j = i - 1)
      BY <1>1
    <3>2. pos[j] < start
      <4>1. pos[j] \in Nat /\ pos[i - 1] \in Nat /\ (j = i - 1 \/ pos[j] < pos[i - 1])
        BY <1>1, <1>2, <3>1
      <4>2. QED
        BY <3>1, <4>1
    <3>3. QED
      BY <1>1, <2>1, <2>2, <3>1, <3>2
  <2>4. j \in i..n
    BY <1>1, <2>3
  <2>5. QED
    BY <2>2, <2>4
<1>5. CASE i = n + 1
  <2>1. at = {}
    BY <1>1, <1>4, <1>5
  <2>2. QED
    BY <1>3, <1>5, <2>1
<1>6. CASE i # n + 1
  <2>1. i \in 1..n
    BY <1>1, <1>6
  <2>2. pos[i] \in at
    BY <1>1, <1>2, <2>1, KeywordsStand
  <2>3. ASSUME NEW k \in at PROVE pos[i] <= k
    <3>1. PICK j \in i..n : k = pos[j]
      BY <1>4
    <3>2. j \in 1..n + 1 /\ (i < j \/ i = j)
      BY <1>1, <2>1
    <3>3. pos[i] \in Nat /\ pos[j] \in Nat
      BY <1>1, <3>2
    <3>4. QED
      BY <1>2, <3>1, <3>2, <3>3
  <2>4. at \subseteq Nat
    BY <1>1
  <2> HIDE DEF at
  <2>5. ASSUME NEW k \in at, \A j \in at : k <= j PROVE k = pos[i]
    <3>1. k \in Nat /\ pos[i] \in Nat /\ pos[i] <= k /\ k <= pos[i]
      BY <2>2, <2>3, <2>4, <2>5
    <3>2. QED
      BY <3>1
  <2>6. (CHOOSE k \in at : \A j \in at : k <= j) = pos[i]
    BY <2>2, <2>3, <2>5
  <2>7. QED
    BY <1>3, <1>6, <2>2, <2>6
<1>7. QED
  BY <1>5, <1>6

\* A sequence is known by its elements.
LEMMA SubSeqIs ==
    ASSUME NEW T, NEW s \in Seq(T), NEW a \in Seq(T), NEW p \in Nat, NEW q \in Int,
           p + Len(a) = q, q <= Len(s), \A k \in 1..Len(a) : s[p + k] = a[k]
    PROVE  SubSeq(s, p + 1, q) = a
<1>1. Len(a) \in Nat /\ Len(s) \in Nat
  OBVIOUS
<1>2. SubSeq(s, p + 1, q) \in Seq(T) /\ Len(SubSeq(s, p + 1, q)) = Len(a)
  BY <1>1
<1>3. \A k \in 1..Len(a) : SubSeq(s, p + 1, q)[k] = a[k]
  BY <1>1
<1>4. QED
  BY <1>2, <1>3, SeqEqual

\* extractString() reads the argument of a clause.
LEMMA ArgumentAt ==
    ASSUME NEW e \in Entry, NEW data, NEW pos, Laid(e, data, pos),
           NEW i \in 1..Len(e.clauses)
    PROVE  Argument(data, pos[i], KeywordsOf(e)) = e.clauses[i].arg
<1> DEFINE n == Len(e.clauses)
           a == e.clauses[i].arg
           next == NextKeyword(data, pos[i] + 1, KeywordsOf(e))
<1>1. /\ n \in Nat /\ pos \in [1..n + 1 -> Nat \ {0}] /\ data \in Seq(Token)
      /\ pos[n + 1] = Len(data) + 1 /\ pos[i + 1] = pos[i] + 1 + Len(a)
      /\ \A k \in 1..Len(a) : data[pos[i] + k] = a[k]
  BY EntryTyped DEF Laid
<1>2. a \in Seq(Token) /\ i + 1 \in 1..n + 1 /\ i \in 1..n + 1 /\ Len(a) \in Nat
  BY <1>1, EntryTyped DEF Token
<1>3. pos[i] \in Nat \ {0} /\ pos[i + 1] \in Nat \ {0}
  BY <1>1, <1>2
<1>4. next = IF i + 1 = n + 1 THEN 0 ELSE pos[i + 1]
  <2>1. pos[i] + 1 \in Nat \ {0} /\ pos[i] + 1 <= pos[i + 1] /\ (i + 1) - 1 = i
        /\ pos[i] < pos[i] + 1
    BY <1>1, <1>2, <1>3, SMTT(30)
  <2>2. QED
    BY <1>2, <2>1, NextFrom
<1>5. (IF next = 0 THEN Len(data) ELSE next - 1) = pos[i + 1] - 1
  BY <1>1, <1>3, <1>4
<1>6. pos[i + 1] - 1 <= Len(data)
  <2>1. i + 1 = n + 1 \/ (i + 1 < n + 1 /\ n + 1 \in 1..n + 1)
    BY <1>1, <1>2
  <2>2. pos[i + 1] <= pos[n + 1]
    <3>1. \A j, k \in 1..n + 1 : j < k => pos[j] < pos[k]
      BY Ascends
    <3>2. pos[n + 1] \in Nat
      BY <1>1
    <3>3. QED
      BY <1>2, <1>3, <2>1, <3>1, <3>2
  <2>3. QED
    BY <1>1, <1>3, <2>2
<1>7. Argument(data, pos[i], KeywordsOf(e)) = SubSeq(data, pos[i] + 1, pos[i + 1] - 1)
  BY <1>5 DEF Argument
<1> HIDE DEF a
<1>8. SubSeq(data, pos[i] + 1, pos[i + 1] - 1) = a
  <2>1. pos[i] + Len(a) = pos[i + 1] - 1 /\ pos[i + 1] - 1 \in Int
    BY <1>1, <1>2, <1>3
  <2>2. QED
    BY <1>1, <1>2, <1>3, <1>6, <2>1, SubSeqIs
<1>9. QED
  BY <1>7, <1>8 DEF a

\* The first keyword, and the name before it.
LEMMA FirstAt ==
    ASSUME NEW e \in Entry, NEW data, NEW pos, Laid(e, data, pos)
    PROVE  /\ NextKeyword(data, 1, KeywordsOf(e)) =
                  IF e.clauses = <<>> THEN 0 ELSE Len(e.name) + 1
           /\ e.clauses # <<>> /\ e.about = "property" => NameIn(data) = e.name
<1> DEFINE n == Len(e.clauses)
           first == NextKeyword(data, 1, KeywordsOf(e))
<1>1. /\ n \in Nat /\ pos \in [1..n + 1 -> Nat \ {0}] /\ data \in Seq(Token)
      /\ pos[1] = Len(e.name) + 1 /\ pos[n + 1] = Len(data) + 1
      /\ \A k \in 1..Len(e.name) : data[k] = e.name[k]
  BY EntryTyped DEF Laid
<1>2. e.clauses = <<>> <=> n = 0
  BY DEF Entry
<1>3. /\ e.name \in Seq(Token) /\ Len(e.name) \in Nat
      /\ e.about = "property" => KeywordsOf(e) = PropertyKeywords
  BY EntryTyped DEF Token, KeywordsOf
<1>4. 1 \in 1..n + 1 /\ pos[1] \in Nat \ {0}
  BY <1>1
<1>5. first = IF n = 0 THEN 0 ELSE pos[1]
  <2>1. first = IF 1 = n + 1 THEN 0 ELSE pos[1]
    BY <1>4, NextFrom
  <2>2. QED
    BY <1>1, <2>1
<1>6. ASSUME n # 0 PROVE SubSeq(data, 1, Len(e.name)) = e.name
  <2>1. Len(e.name) <= Len(data)
    <3>1. 1 \in 1..n /\ Len(data) \in Nat
      BY <1>1, <1>6
    <3>2. pos[1] \in 1..Len(data)
      BY <3>1, Ascends
    <3>3. QED
      BY <1>1, <1>3, <3>1, <3>2
  <2>2. \A k \in 1..Len(e.name) : data[0 + k] = e.name[k]
    BY <1>1, <1>3
  <2>3. SubSeq(data, 0 + 1, Len(e.name)) = e.name
    <3>1. 0 + Len(e.name) = Len(e.name) /\ Len(e.name) \in Int /\ 0 \in Nat
      BY <1>3
    <3>2. QED
      BY <1>1, <1>3, <2>1, <2>2, <3>1, SubSeqIs
  <2>4. QED
    BY <2>3
<1>7. ASSUME e.clauses # <<>>, e.about = "property" PROVE NameIn(data) = e.name
  <2>1. NextKeyword(data, 1, PropertyKeywords) - 1 = Len(e.name)
    BY <1>1, <1>2, <1>3, <1>5, <1>7
  <2>2. QED
    BY <1>2, <1>6, <1>7, <2>1 DEF NameIn
<1>8. QED
  BY <1>1, <1>2, <1>5, <1>7

\* A clause whose argument is refused.
BadClause(k) ==
    \/ k.key \in {"TABLE", "SCHEMA", "COLUMN"} /\ k.arg = <<>>
    \/ k.key \notin {"TABLE", "SCHEMA", "COLUMN", "UNIQUE"} /\ ~IsBoolean(k.arg)

LEMMA BadAt ==
    ASSUME NEW e \in Entry, NEW data, NEW pos, Laid(e, data, pos)
    PROVE  BadArguments(data, KeywordsOf(e)) <=>
               \E i \in 1..Len(e.clauses) : BadClause(e.clauses[i])
<1>1. ASSUME NEW i \in 1..Len(e.clauses)
      PROVE  /\ pos[i] \in Positions(data, KeywordsOf(e))
             /\ BadArgument(data, pos[i], KeywordsOf(e)) <=> BadClause(e.clauses[i])
  <2>1. pos[i] \in 1..Len(data) /\ data[pos[i]] = e.clauses[i].key
    BY Ascends DEF Laid
  <2>2. Argument(data, pos[i], KeywordsOf(e)) = e.clauses[i].arg
    BY ArgumentAt
  <2>3. data[pos[i]] \in KeywordsOf(e)
    BY <2>1, KeywordsStand
  <2>4. BadArgument(data, pos[i], KeywordsOf(e)) <=> BadClause(e.clauses[i])
    BY <2>1, <2>2 DEF BadArgument, BadClause
  <2>5. QED
    BY <2>1, <2>3, <2>4 DEF Positions
<1>2. \A k \in Positions(data, KeywordsOf(e)) : \E i \in 1..Len(e.clauses) : k = pos[i]
  BY KeywordsStand DEF Positions
<1>3. QED
  BY <1>1, <1>2 DEF BadArguments

\* The last clause with a keyword.
Saying(e, key) == {i \in 1..Len(e.clauses) : e.clauses[i].key = key}
LastSaying(e, key) == CHOOSE i \in Saying(e, key) : \A j \in Saying(e, key) : j <= i

\* A keyword is found if a clause has it, and what it says is what the last
\* such clause says.
LEMMA ValueAt ==
    ASSUME NEW e \in Entry, NEW data, NEW pos, Laid(e, data, pos),
           NEW key \in KeywordsOf(e)
    PROVE  /\ Has(data, key) <=> Saying(e, key) # {}
           /\ Saying(e, key) # {} =>
                 /\ LastSaying(e, key) \in Saying(e, key)
                 /\ ValueOf(data, key, KeywordsOf(e)) = e.clauses[LastSaying(e, key)].arg
<1> DEFINE n == Len(e.clauses)
           S == Saying(e, key)
           l == LastSaying(e, key)
<1>1. n \in Nat /\ pos \in [1..n + 1 -> Nat \ {0}] /\ Len(data) \in Nat
  BY EntryTyped DEF Laid
<1>2. \A k \in 1..Len(data) : data[k] = key <=> \E i \in S : k = pos[i]
  <2>1. \A k \in 1..Len(data) : data[k] = key => \E i \in 1..n : k = pos[i]
    BY KeywordsStand
  <2>2. \A i \in 1..n : data[pos[i]] = e.clauses[i].key
    BY DEF Laid
  <2>3. QED
    BY <2>1, <2>2 DEF Saying
<1>3. S \subseteq 1..n /\ \A i \in S : pos[i] \in 1..Len(data)
  BY Ascends DEF Saying
<1>4. Has(data, key) <=> S # {}
  BY <1>2, <1>3 DEF Has
<1>5. ASSUME S # {}
      PROVE  l \in S /\ ValueOf(data, key, KeywordsOf(e)) = e.clauses[l].arg
  <2>1. l \in S /\ \A j \in S : j <= l
    <3>1. \E i \in S : \A j \in S : j <= i
      <4> HIDE DEF S
      <4>1. QED
        BY <1>1, <1>3, <1>5, Greatest
    <3>2. QED
      BY <3>1 DEF LastSaying
  <2> HIDE DEF l, S
  <2>2. pos[l] \in 1..Len(data) /\ data[pos[l]] = key /\ l \in 1..n
    BY <1>2, <1>3, <2>1
  <2>3. ASSUME NEW j \in pos[l] + 1..Len(data) PROVE data[j] # key
    <3> SUFFICES ASSUME data[j] = key PROVE FALSE
      OBVIOUS
    <3>1. j \in 1..Len(data) /\ pos[l] < j
      BY <1>1, <2>2
    <3>2. PICK i \in S : j = pos[i]
      BY <1>2, <3>1
    <3>3. i \in 1..n + 1 /\ l \in 1..n + 1 /\ (i < l \/ i = l)
      BY <1>1, <1>3, <2>1, <2>2
    <3>4. i < l => pos[i] < pos[l]
      BY <3>3, Ascends
    <3>5. QED
      BY <1>1, <3>1, <3>2, <3>3, <3>4
  <2>4. ASSUME NEW i \in 1..Len(data), data[i] = key, \A j \in i + 1..Len(data) : data[j] # key
        PROVE  i = pos[l]
    <3>1. PICK m \in S : i = pos[m]
      BY <1>2, <2>4
    <3>2. m \in 1..n + 1 /\ l \in 1..n + 1 /\ (m < l \/ m = l)
      BY <1>1, <1>3, <2>1, <2>2
    <3>3. ~ (m < l)
      <4> SUFFICES ASSUME m < l PROVE FALSE
        OBVIOUS
      <4>1. pos[m] < pos[l]
        BY <3>2, Ascends
      <4>2. pos[l] \in i + 1..Len(data)
        BY <1>1, <2>2, <3>1, <3>2, <4>1
      <4>3. QED
        BY <2>2, <2>4, <4>2
    <3>4. QED
      BY <3>1, <3>2, <3>3
  <2> DEFINE Last(i) == data[i] = key /\ \A j \in i + 1..Len(data) : data[j] # key
  <2>5. (CHOOSE i \in 1..Len(data) : Last(i)) = pos[l]
    BY <2>2, <2>3, <2>4
  <2>6. ValueOf(data, key, KeywordsOf(e)) = Argument(data, pos[l], KeywordsOf(e))
    BY <2>5 DEF ValueOf
  <2>7. QED
    BY <2>1, <2>2, <2>6, ArgumentAt
<1>6. QED
  BY <1>4, <1>5

-----------------------------------------------------------------------------
(* The entries of a class.                                                   *)

LEMMA TwoElements ==
    ASSUME NEW S, IsFiniteSet(S)
    PROVE  Cardinality(S) > 1 <=> \E x, y \in S : x # y
<1>1. Cardinality(S) \in Nat
  BY FS_CardinalityType
<1>2. ASSUME Cardinality(S) > 1 PROVE \E x, y \in S : x # y
  <2>1. Cardinality(S) # 0 /\ Cardinality(S) # 1
    BY <1>1, <1>2
  <2>2. S # {} /\ ~\E x : S = {x}
    BY <2>1, FS_EmptySet, FS_Singleton
  <2>3. QED
    BY <2>2
<1>3. ASSUME \E x, y \in S : x # y PROVE Cardinality(S) > 1
  <2>1. S # {} /\ ~\E x : S = {x}
    BY <1>3
  <2>2. Cardinality(S) # 0 /\ Cardinality(S) # 1
    BY <2>1, FS_EmptySet, FS_Singleton
  <2>3. QED
    BY <1>1, <2>2
<1>4. QED
  BY <1>2, <1>3

\* The text is what was written.
WrittenText ==
    /\ decl \in [Classes -> Declaration]
    /\ text = [c \in Classes |-> [i \in 1..Len(decl[c].entries) |-> Written(decl[c].entries[i])]]

LEMMA DeclTyped ==
    ASSUME WrittenText, NEW c \in Classes
    PROVE  /\ Len(decl[c].entries) \in Nat /\ Len(decl[c].props) \in Nat
           /\ \A i \in 1..Len(decl[c].entries) : decl[c].entries[i] \in Entry
           /\ \A i \in 1..Len(decl[c].props) : decl[c].props[i] \in Property
<1>1. decl[c] \in Declaration
  BY DEF WrittenText
<1>2. decl[c].entries \in Seq(Entry) /\ decl[c].props \in Seq(Property)
  BY <1>1 DEF Declaration
<1>3. QED
  BY <1>2

\* What the previous section says of the text of an entry.
LEMMA EntryRead ==
    ASSUME WrittenText, NEW c \in Classes, NEW i \in 1..Len(decl[c].entries),
           NEW e, e = decl[c].entries[i]
    PROVE  /\ e \in Entry
           /\ NextKeyword(Text(c, i), 1, KeywordsOf(e)) =
                  IF e.clauses = <<>> THEN 0 ELSE Len(e.name) + 1
           /\ e.clauses # <<>> /\ e.about = "property" => NameIn(Text(c, i)) = e.name
           /\ BadArguments(Text(c, i), KeywordsOf(e)) <=>
                  \E j \in 1..Len(e.clauses) : BadClause(e.clauses[j])
           /\ \A key \in KeywordsOf(e) :
                 /\ Has(Text(c, i), key) <=> Saying(e, key) # {}
                 /\ Saying(e, key) # {} =>
                       /\ LastSaying(e, key) \in Saying(e, key)
                       /\ ValueOf(Text(c, i), key, KeywordsOf(e)) =
                              e.clauses[LastSaying(e, key)].arg
<1>1. e \in Entry
  BY DeclTyped
<1>2. Text(c, i) = Written(e)
  BY DEF WrittenText, Text
<1>3. PICK pos : Laid(e, Text(c, i), pos)
  BY <1>1, <1>2, Layout
<1>4. NextKeyword(Text(c, i), 1, KeywordsOf(e)) =
          IF e.clauses = <<>> THEN 0 ELSE Len(e.name) + 1
  BY <1>1, <1>3, FirstAt
<1>5. e.clauses # <<>> /\ e.about = "property" => NameIn(Text(c, i)) = e.name
  BY <1>1, <1>3, FirstAt
<1>6. BadArguments(Text(c, i), KeywordsOf(e)) <=>
          \E j \in 1..Len(e.clauses) : BadClause(e.clauses[j])
  BY <1>1, <1>3, BadAt
<1>7. ASSUME NEW key \in KeywordsOf(e)
      PROVE  /\ Has(Text(c, i), key) <=> Saying(e, key) # {}
             /\ Saying(e, key) # {} =>
                   /\ LastSaying(e, key) \in Saying(e, key)
                   /\ ValueOf(Text(c, i), key, KeywordsOf(e)) =
                          e.clauses[LastSaying(e, key)].arg
  BY <1>1, <1>3, ValueAt
<1>8. QED
  BY <1>1, <1>4, <1>5, <1>6, <1>7

\* What is wrong with an entry by itself, and two entries about the same.
BadEntry(c, i) ==
    LET e == decl[c].entries[i]
    IN  \/ e.clauses = <<>>
        \/ e.about = "class" /\ e.name # <<>>
        \/ e.about = "property" /\ ~\E p \in PropertiesOf(c) : e.name = <<p.name>>
        \/ \E j \in 1..Len(e.clauses) : BadClause(e.clauses[j])

AboutSame(c, i, j) ==
    /\ i # j /\ decl[c].entries[i].about = decl[c].entries[j].about
    /\ decl[c].entries[i].name = decl[c].entries[j].name

Refusable(c) ==
    \E i \in 1..Len(decl[c].entries) :
        BadEntry(c, i) \/ \E j \in 1..Len(decl[c].entries) : AboutSame(c, i, j)

LEMMA BadEntryRead ==
    ASSUME WrittenText, NEW c \in Classes, NEW i \in 1..Len(decl[c].entries)
    PROVE  IF decl[c].entries[i].about = "class" THEN BadClassEntry(Text(c, i)) <=> BadEntry(c, i)
           ELSE BadPropertyEntry(Text(c, i), decl[c].props) <=> BadEntry(c, i)
<1> DEFINE e == decl[c].entries[i]
<1>1. /\ e \in Entry
      /\ NextKeyword(Text(c, i), 1, KeywordsOf(e)) =
             IF e.clauses = <<>> THEN 0 ELSE Len(e.name) + 1
      /\ e.clauses # <<>> /\ e.about = "property" => NameIn(Text(c, i)) = e.name
      /\ BadArguments(Text(c, i), KeywordsOf(e)) <=>
             \E j \in 1..Len(e.clauses) : BadClause(e.clauses[j])
  BY EntryRead
<1>2. e.about \in {"class", "property"} /\ e.name \in Seq(Words)
  BY <1>1, EntryTyped
<1>3. BadEntry(c, i) <=>
          \/ e.clauses = <<>>
          \/ e.about = "class" /\ e.name # <<>>
          \/ e.about = "property" /\ ~\E p \in PropertiesOf(c) : e.name = <<p.name>>
          \/ BadArguments(Text(c, i), KeywordsOf(e))
  BY <1>1 DEF BadEntry
<1>4. Len(e.name) \in Nat /\ (Len(e.name) = 0 <=> e.name = <<>>)
  BY <1>2
<1> HIDE DEF e
<1>5. CASE e.about = "class"
  <2>1. KeywordsOf(e) = ClassKeywords
    BY <1>5 DEF KeywordsOf
  <2>2. NextKeyword(Text(c, i), 1, ClassKeywords) # 1 <=> e.clauses = <<>> \/ e.name # <<>>
    BY <1>1, <1>4, <2>1
  <2>3. QED
    BY <1>3, <1>5, <2>1, <2>2 DEF BadClassEntry, e
<1>6. CASE e.about = "property"
  <2>1. KeywordsOf(e) = PropertyKeywords
    BY <1>6 DEF KeywordsOf
  <2>2. NextKeyword(Text(c, i), 1, PropertyKeywords) = 0 <=> e.clauses = <<>>
    BY <1>1, <1>4, <2>1
  <2>3. \A n : (\E p \in PropertiesOf(c) : n = <<p.name>>)
                   <=> \E k \in 1..Len(decl[c].props) : <<decl[c].props[k].name>> = n
    BY DEF PropertiesOf
  <2>4. e.clauses # <<>> => NameIn(Text(c, i)) = e.name
    BY <1>1, <1>6
  <2>5. QED
    BY <1>3, <1>6, <2>1, <2>2, <2>3, <2>4 DEF BadPropertyEntry, e
<1>7. QED
  BY <1>2, <1>5, <1>6

\* The loop over the entries refuses a class whose entries break a rule, and
\* no other.
LEMMA BadEntriesRead ==
    ASSUME WrittenText, NEW c \in Classes
    PROVE  BadEntries(c) <=> Refusable(c)
<1> DEFINE n == Len(decl[c].entries)
           about(i) == decl[c].entries[i].about
           name(i) == decl[c].entries[i].name
<1>1. n \in Nat /\ \A i \in 1..n : about(i) \in {"class", "property"}
  <2>1. n \in Nat /\ \A i \in 1..n : decl[c].entries[i] \in Entry
    BY DeclTyped
  <2>2. \A i \in 1..n : about(i) \in {"class", "property"}
    BY <2>1, EntryTyped
  <2>3. QED
    BY <2>1, <2>2
<1>2. /\ Entries(c, "class") = {i \in 1..n : about(i) = "class"}
      /\ Entries(c, "property") = {i \in 1..n : about(i) = "property"}
  BY DEF Entries
<1>3. Cardinality(Entries(c, "class")) > 1
          <=> \E i, j \in 1..n : i # j /\ about(i) = "class" /\ about(j) = "class"
  <2>1. IsFiniteSet(Entries(c, "class"))
    <3>1. IsFiniteSet(1..n)
      BY <1>1, FS_Interval
    <3>2. Entries(c, "class") \in SUBSET (1..n)
      BY <1>2
    <3> HIDE DEF n
    <3>3. QED
      BY <3>1, <3>2, FS_Subset
  <2>2. Cardinality(Entries(c, "class")) > 1 <=> \E i, j \in Entries(c, "class") : i # j
    BY <2>1, TwoElements
  <2>3. QED
    BY <1>2, <2>2
<1>4. \A i \in 1..n : about(i) = "class" => (BadClassEntry(Text(c, i)) <=> BadEntry(c, i))
  BY BadEntryRead
<1>5. \A i \in 1..n : about(i) = "property"
          => (BadPropertyEntry(Text(c, i), decl[c].props) <=> BadEntry(c, i))
  BY BadEntryRead
<1>6. \A i \in 1..n : about(i) = "class" /\ ~BadEntry(c, i) => name(i) = <<>>
  BY DEF BadEntry
<1>7. \A i \in 1..n : about(i) = "property" /\ ~BadEntry(c, i) => NameIn(Text(c, i)) = name(i)
  <2> SUFFICES ASSUME NEW i \in 1..n, about(i) = "property", ~BadEntry(c, i)
               PROVE  NameIn(Text(c, i)) = name(i)
    OBVIOUS
  <2>1. decl[c].entries[i].clauses # <<>>
    BY DEF BadEntry
  <2>2. QED
    BY <2>1, EntryRead
<1>8. Refusable(c) <=> \/ \E i \in 1..n : BadEntry(c, i)
                       \/ \E i, j \in 1..n : i # j /\ about(i) = about(j) /\ name(i) = name(j)
  BY DEF Refusable, AboutSame
<1>9. BadEntries(c) <=>
          \/ \E i, j \in 1..n : i # j /\ about(i) = "class" /\ about(j) = "class"
          \/ \E i \in 1..n : about(i) = "class" /\ BadClassEntry(Text(c, i))
          \/ \E i \in 1..n : about(i) = "property" /\ BadPropertyEntry(Text(c, i), decl[c].props)
          \/ \E i, j \in 1..n : /\ about(i) = "property" /\ about(j) = "property"
                                /\ i # j /\ NameIn(Text(c, i)) = NameIn(Text(c, j))
  BY <1>2, <1>3 DEF BadEntries
<1> HIDE DEF n, about, name
<1>10. ASSUME BadEntries(c) PROVE Refusable(c)
  BY <1>4, <1>5, <1>6, <1>7, <1>8, <1>9, <1>10
<1>11. ASSUME Refusable(c) PROVE BadEntries(c)
  BY <1>1, <1>4, <1>5, <1>6, <1>7, <1>8, <1>9, <1>11
<1>12. QED
  BY <1>10, <1>11

-----------------------------------------------------------------------------
(* What a class and its properties are mapped to.                            *)

\* What an entry that has the keyword says last.
Says(e, key) == e.clauses[LastSaying(e, key)].arg

LEMMA SaidBy ==
    ASSUME NEW c, NEW about, NEW name, NEW key
    PROVE  Said(c, about, name, key) =
               {Says(decl[c].entries[i], key) :
                   i \in {i \in Entries(c, about) : /\ decl[c].entries[i].name = name
                                                    /\ Saying(decl[c].entries[i], key) # {}}}
<1> DEFINE es == {decl[c].entries[i] : i \in Entries(c, about)}
<1>1. Said(c, about, name, key) = {Says(e, key) : e \in {e \in es : e.name = name /\ Saying(e, key) # {}}}
  BY DEF Said, Says, Saying, LastSaying
<1>2. QED
  BY <1>1

\* With one entry about something, what is found in its text is what is said.
LEMMA OneSays ==
    ASSUME WrittenText, NEW c \in Classes, ~Refusable(c),
           NEW about \in {"class", "property"}, NEW name, NEW i \in 1..Len(decl[c].entries),
           {j \in Entries(c, about) : decl[c].entries[j].name = name} = {i},
           NEW keywords, keywords = (IF about = "class" THEN ClassKeywords ELSE PropertyKeywords),
           NEW key \in keywords
    PROVE  /\ Said(c, about, name, key) =
                  IF Has(Text(c, i), key) THEN {ValueOf(Text(c, i), key, keywords)} ELSE {}
           /\ Has(Text(c, i), key) =>
                  /\ ValueOf(Text(c, i), key, keywords) \in Seq(Words)
                  /\ key \in {"TABLE", "SCHEMA", "COLUMN"}
                         => ValueOf(Text(c, i), key, keywords) # <<>>
<1> DEFINE e == decl[c].entries[i]
<1>1. e.about = about /\ e.name = name
  BY DEF Entries
<1>2. KeywordsOf(e) = keywords
  BY <1>1 DEF KeywordsOf
<1>3. /\ e \in Entry
      /\ Has(Text(c, i), key) <=> Saying(e, key) # {}
      /\ Saying(e, key) # {} => /\ LastSaying(e, key) \in Saying(e, key)
                                /\ ValueOf(Text(c, i), key, keywords) = Says(e, key)
  <2>1. key \in KeywordsOf(e)
    BY <1>2
  <2>2. /\ e \in Entry
        /\ Has(Text(c, i), key) <=> Saying(e, key) # {}
        /\ Saying(e, key) # {} =>
              /\ LastSaying(e, key) \in Saying(e, key)
              /\ ValueOf(Text(c, i), key, KeywordsOf(e)) = e.clauses[LastSaying(e, key)].arg
    BY <2>1, EntryRead
  <2>3. QED
    BY <1>2, <2>2 DEF Says
<1>4. Said(c, about, name, key) = IF Saying(e, key) # {} THEN {Says(e, key)} ELSE {}
  <2> DEFINE I == {j \in Entries(c, about) : /\ decl[c].entries[j].name = name
                                             /\ Saying(decl[c].entries[j], key) # {}}
  <2>1. Said(c, about, name, key) = {Says(decl[c].entries[j], key) : j \in I}
    BY SaidBy
  <2>2. I = IF Saying(e, key) # {} THEN {i} ELSE {}
    OBVIOUS
  <2> HIDE DEF I
  <2>3. QED
    BY <2>1, <2>2
<1>5. ASSUME Saying(e, key) # {}
      PROVE  /\ Says(e, key) \in Seq(Words)
             /\ key \in {"TABLE", "SCHEMA", "COLUMN"} => Says(e, key) # <<>>
  <2> DEFINE l == LastSaying(e, key)
  <2>1. l \in 1..Len(e.clauses) /\ e.clauses[l].key = key
    BY <1>3, <1>5 DEF Saying
  <2>2. e.clauses[l].arg \in Seq(Words)
    BY <1>3, <2>1, EntryTyped
  <2>3. ~BadClause(e.clauses[l])
    BY <2>1 DEF Refusable, BadEntry
  <2>4. QED
    BY <2>1, <2>2, <2>3 DEF Says, BadClause
<1> HIDE DEF e
<1>6. QED
  BY <1>3, <1>4, <1>5

LEMMA NoneSays ==
    ASSUME NEW c, NEW about, NEW name, NEW key,
           {j \in Entries(c, about) : decl[c].entries[j].name = name} = {}
    PROVE  Said(c, about, name, key) = {}
BY SaidBy

LEMMA InfoSays ==
    ASSUME WrittenText, NEW c \in Classes, ~Refusable(c)
    PROVE  /\ ClassInfoOf(c) \in ClassInfo
           /\ (IF ClassInfoOf(c).table = <<>> THEN {} ELSE {ClassInfoOf(c).table})
                  = Said(c, "class", <<>>, "TABLE")
           /\ (IF ClassInfoOf(c).schema = <<>> THEN {} ELSE {ClassInfoOf(c).schema})
                  = Said(c, "class", <<>>, "SCHEMA")
<1> DEFINE A == Entries(c, "class")
           I == {j \in A : decl[c].entries[j].name = <<>>}
           t == IF A = {} THEN <<>> ELSE Text(c, CHOOSE i \in A : TRUE)
           said(key) == IF Has(t, key) THEN ValueOf(t, key, ClassKeywords) ELSE <<>>
<1>1. ClassInfoOf(c) = [table |-> said("TABLE"), schema |-> said("SCHEMA")]
  BY DEF ClassInfoOf
<1>2. A \subseteq 1..Len(decl[c].entries) /\ \A i \in A : decl[c].entries[i].about = "class"
  BY DEF Entries
<1>3. I = A /\ \A i, j \in A : i = j
  <2>1. \A i \in A : decl[c].entries[i].name = <<>>
    BY <1>2 DEF Refusable, BadEntry
  <2>2. \A i, j \in A : i = j
    BY <1>2, <2>1 DEF Refusable, AboutSame
  <2>3. QED
    BY <2>1, <2>2
<1>4. ASSUME NEW key \in ClassKeywords
      PROVE  /\ said(key) \in Seq(Words)
             /\ key \in {"TABLE", "SCHEMA"} =>
                    (IF said(key) = <<>> THEN {} ELSE {said(key)}) = Said(c, "class", <<>>, key)
  <2>1. CASE A = {}
    <3>1. Said(c, "class", <<>>, key) = {}
      BY <1>3, <2>1, NoneSays
    <3>2. said(key) = <<>> /\ <<>> \in Seq(Words)
      BY <2>1 DEF Has
    <3> HIDE DEF said
    <3>3. QED
      BY <3>1, <3>2
  <2>2. CASE A # {}
    <3>1. PICK i \in A : TRUE
      BY <2>2
    <3>2. I = {i} /\ i \in 1..Len(decl[c].entries)
      BY <1>2, <1>3, <3>1
    <3>3. t = Text(c, i)
      <4>1. (CHOOSE j \in A : TRUE) = i
        BY <1>3, <3>1
      <4>2. QED
        BY <2>2, <4>1
    <3> HIDE DEF t, A
    <3>4. /\ Said(c, "class", <<>>, key) = IF Has(t, key) THEN {ValueOf(t, key, ClassKeywords)} ELSE {}
          /\ Has(t, key) => /\ ValueOf(t, key, ClassKeywords) \in Seq(Words)
                            /\ key \in {"TABLE", "SCHEMA"} => ValueOf(t, key, ClassKeywords) # <<>>
      <4>1. {j \in Entries(c, "class") : decl[c].entries[j].name = <<>>} = {i}
        BY <3>2 DEF A
      <4>2. QED
        BY <3>2, <3>3, <4>1, OneSays
    <3>5. <<>> \in Seq(Words)
      OBVIOUS
    <3>6. QED
      BY <3>4, <3>5
  <2>3. QED
    BY <2>1, <2>2
<1> HIDE DEF said
<1>5. said("TABLE") \in Seq(Words) /\ said("SCHEMA") \in Seq(Words)
  BY <1>4 DEF ClassKeywords
<1>6. QED
  BY <1>1, <1>4, <1>5 DEF ClassInfo, ClassKeywords

\* The user metadata of a property says what the entry about it says.
LEMMA UserTextSays ==
    ASSUME WrittenText, NEW c \in Classes, ~Refusable(c), NEW p \in PropertiesOf(c),
           NEW key \in PropertyKeywords
    PROVE  /\ Said(c, "property", <<p.name>>, key) =
                  IF Has(UserText(c, p), key)
                  THEN {ValueOf(UserText(c, p), key, PropertyKeywords)} ELSE {}
           /\ Has(UserText(c, p), key) =>
                  ValueOf(UserText(c, p), key, PropertyKeywords) \in Seq(Words)
<1> DEFINE A == {i \in Entries(c, "property") : NameIn(Text(c, i)) = <<p.name>>}
           I == {j \in Entries(c, "property") : decl[c].entries[j].name = <<p.name>>}
           t == UserText(c, p)
<1>1. t = IF A = {} THEN <<>> ELSE Text(c, CHOOSE i \in A : TRUE)
  BY DEF UserText
<1>2. I \subseteq 1..Len(decl[c].entries) /\ \A i \in I : decl[c].entries[i].about = "property"
  BY DEF Entries
<1>3. A = I
  <2>1. ASSUME NEW i \in Entries(c, "property")
        PROVE  NameIn(Text(c, i)) = decl[c].entries[i].name
    <3>1. i \in 1..Len(decl[c].entries) /\ decl[c].entries[i].about = "property"
      BY DEF Entries
    <3>2. decl[c].entries[i].clauses # <<>>
      BY <3>1 DEF Refusable, BadEntry
    <3>3. QED
      BY <3>1, <3>2, EntryRead
  <2>2. QED
    BY <2>1
<1>4. \A i, j \in I : i = j
  BY <1>2 DEF Refusable, AboutSame
<1>5. CASE I = {}
  <2>1. Said(c, "property", <<p.name>>, key) = {}
    BY <1>5, NoneSays
  <2>2. ~Has(t, key)
    BY <1>1, <1>3, <1>5 DEF Has
  <2>3. QED
    BY <2>1, <2>2
<1>6. CASE I # {}
  <2>1. PICK i \in I : I = {i}
    BY <1>4, <1>6
  <2>2. t = Text(c, i)
    BY <1>1, <1>3, <2>1
  <2>3. i \in 1..Len(decl[c].entries)
    BY <1>2
  <2>4. {j \in Entries(c, "property") : decl[c].entries[j].name = <<p.name>>} = {i}
    BY <2>1
  <2> HIDE DEF I, A, t
  <2>5. /\ Said(c, "property", <<p.name>>, key) =
                IF Has(Text(c, i), key) THEN {ValueOf(Text(c, i), key, PropertyKeywords)} ELSE {}
        /\ Has(Text(c, i), key) => ValueOf(Text(c, i), key, PropertyKeywords) \in Seq(Words)
    BY <2>3, <2>4, OneSays
  <2>6. QED
    BY <2>2, <2>5 DEF t
<1>7. QED
  BY <1>5, <1>6

LEMMA FlagSays ==
    ASSUME WrittenText, NEW c \in Classes, ~Refusable(c), NEW p \in PropertiesOf(c),
           NEW key \in PropertyKeywords, NEW default \in BOOLEAN
    PROVE  /\ Flag(UserText(c, p), key, default) = IsSet(c, p, key, default)
           /\ IsSet(c, p, key, default) \in BOOLEAN
<1> DEFINE t == UserText(c, p)
           v == ValueOf(t, key, PropertyKeywords)
<1>1. Said(c, "property", <<p.name>>, key) = IF Has(t, key) THEN {v} ELSE {}
  BY UserTextSays
<1>2. Flag(t, key, default) = IF Has(t, key) THEN v # <<"false">> ELSE default
  BY DEF Flag, Boolean
<1> HIDE DEF t, v
<1>3. IsSet(c, p, key, default) = IF Has(t, key) THEN v # <<"false">> ELSE default
  <2>1. CASE Has(t, key)
    BY <1>1, <2>1 DEF IsSet
  <2>2. CASE ~Has(t, key)
    BY <1>1, <2>2 DEF IsSet
  <2>3. QED
    BY <2>1, <2>2
<1>4. (IF Has(t, key) THEN v # <<"false">> ELSE default) \in BOOLEAN
  OBVIOUS
<1>5. Flag(t, key, default) = IsSet(c, p, key, default)
  BY <1>2, <1>3
<1>6. IsSet(c, p, key, default) \in BOOLEAN
  BY <1>3, <1>4, Zenon
<1>7. QED
  BY <1>5, <1>6 DEF t

LEMMA PropertyTyped ==
    ASSUME WrittenText, NEW c \in Classes, NEW p \in PropertiesOf(c)
    PROVE  /\ p.name \in Words /\ p.type \in {"value", "enum", "pointer", "list"}
           /\ p.stored \in BOOLEAN /\ p.access \in BOOLEAN
           /\ IF IsReference(p) THEN p.target \in Classes ELSE p.target = NoClass
<1>1. p \in Property
  BY DeclTyped DEF PropertiesOf
<1>2. QED
  BY <1>1 DEF Property, IsReference

\* A mapping says what the entry about its property does.
LEMMA DescriptorSays ==
    ASSUME WrittenText, NEW c \in Classes, ~Refusable(c), NEW p \in PropertiesOf(c),
           NEW m, m = Descriptor(c, p)
    PROVE  /\ m \in Mapping /\ m.name = p.name
           /\ IsStored(c, p) /\ Said(c, "property", <<p.name>>, "COLUMN") # {}
                  => {m.column} = Said(c, "property", <<p.name>>, "COLUMN")
           /\ m.transient = ~IsStored(c, p)
           /\ m.objectId = IsObjectId(c, p)
           /\ m.autogenerated = IsSet(c, p, "AUTOGENERATED", p.name = Id)
           /\ m.notNull = IsSet(c, p, "NOT_NULL", FALSE)
           /\ m.foreignKey = IsSet(c, p, "FOREIGN_KEY", FALSE)
           /\ (IF m.unique = NoGroup THEN {} ELSE {m.unique})
                  = Said(c, "property", <<p.name>>, "UNIQUE")
           /\ m.ref = IF IsReference(p) THEN p.target ELSE NoClass
<1> DEFINE t == UserText(c, p)
           transient == IF p.type = "value" THEN Flag(t, "TRANSIENT", ~p.stored)
                        ELSE p.type = "list"
           value(key) == ValueOf(t, key, PropertyKeywords)
           own == IF Has(t, "COLUMN") THEN value("COLUMN") ELSE <<p.name>>
           column == CASE p.type = "list" -> <<>>
                       [] p.type = "pointer" /\ ~Has(t, "COLUMN") -> own \o <<"_id">>
                       [] OTHER -> own
           unique == IF Has(t, "UNIQUE") THEN value("UNIQUE") ELSE NoGroup
           ref == IF p.type \in {"pointer", "list"} THEN p.target ELSE NoClass
           flag(key, default) == Flag(t, key, default)
<1>1. m = [name |-> p.name, column |-> column,
           objectId |-> flag("IDENTITY", p.name = Id),
           autogenerated |-> flag("AUTOGENERATED", p.name = Id),
           transient |-> transient, notNull |-> flag("NOT_NULL", FALSE),
           foreignKey |-> flag("FOREIGN_KEY", FALSE), unique |-> unique, ref |-> ref]
  BY DEF Descriptor
<1>2. /\ p.name \in Words /\ p.type \in {"value", "enum", "pointer", "list"}
      /\ p.stored \in BOOLEAN
      /\ IF IsReference(p) THEN p.target \in Classes ELSE p.target = NoClass
  BY PropertyTyped
<1>3. \A key \in PropertyKeywords :
          /\ Said(c, "property", <<p.name>>, key) = IF Has(t, key) THEN {value(key)} ELSE {}
          /\ Has(t, key) => value(key) \in Seq(Words)
  BY UserTextSays
<1>4. \A key \in PropertyKeywords : \A default \in BOOLEAN :
          /\ flag(key, default) = IsSet(c, p, key, default)
          /\ IsSet(c, p, key, default) \in BOOLEAN
  BY FlagSays
<1>5. /\ "COLUMN" \in PropertyKeywords /\ "IDENTITY" \in PropertyKeywords
      /\ "TRANSIENT" \in PropertyKeywords /\ "AUTOGENERATED" \in PropertyKeywords
      /\ "NOT_NULL" \in PropertyKeywords /\ "FOREIGN_KEY" \in PropertyKeywords
      /\ "UNIQUE" \in PropertyKeywords
      /\ (p.name = Id) \in BOOLEAN /\ FALSE \in BOOLEAN /\ (~p.stored) \in BOOLEAN
  BY DEF PropertyKeywords
<1>6. transient = ~IsStored(c, p) /\ transient \in BOOLEAN
  <2>1. CASE p.type = "value"
    <3>1. transient = IsSet(c, p, "TRANSIENT", ~p.stored)
      BY <1>4, <1>5, <2>1
    <3>2. IsStored(c, p) <=> ~IsSet(c, p, "TRANSIENT", ~p.stored)
      BY <2>1 DEF IsStored
    <3>3. IsSet(c, p, "TRANSIENT", ~p.stored) \in BOOLEAN
      BY <1>4, <1>5
    <3> HIDE DEF transient
    <3>4. QED
      BY <3>1, <3>2, <3>3
  <2>2. CASE p.type # "value"
    <3>1. transient = (p.type = "list")
      BY <2>2
    <3>2. IsStored(c, p) <=> p.type # "list"
      BY <2>2 DEF IsStored
    <3> HIDE DEF transient
    <3>3. QED
      BY <3>1, <3>2
  <2>3. QED
    BY <2>1, <2>2
<1>7. column \in Seq(Words \cup {"_id"})
  <2>1. own \in Seq(Words \cup {"_id"})
    <3>1. Has(t, "COLUMN") => value("COLUMN") \in Seq(Words)
      BY <1>3, <1>5
    <3>2. own \in Seq(Words)
      <4> HIDE DEF value, t
      <4>1. QED
        BY <1>2, <3>1
    <3> HIDE DEF own
    <3>3. QED
      BY <3>2
  <2>2. <<>> \in Seq(Words \cup {"_id"}) /\ own \o <<"_id">> \in Seq(Words \cup {"_id"})
    BY <2>1
  <2> HIDE DEF own
  <2>3. QED
    BY <2>1, <2>2
<1>8. IsStored(c, p) /\ Said(c, "property", <<p.name>>, "COLUMN") # {}
          => {column} = Said(c, "property", <<p.name>>, "COLUMN")
  <2> SUFFICES ASSUME IsStored(c, p), Said(c, "property", <<p.name>>, "COLUMN") # {}
               PROVE  {column} = Said(c, "property", <<p.name>>, "COLUMN")
    OBVIOUS
  <2>1. Has(t, "COLUMN") /\ Said(c, "property", <<p.name>>, "COLUMN") = {value("COLUMN")}
    BY <1>3, <1>5
  <2>2. p.type # "list"
    BY DEF IsStored
  <2>3. column = value("COLUMN")
    BY <2>1, <2>2
  <2>4. QED
    BY <2>1, <2>3
<1>9. /\ unique \in Seq(Words) \cup {NoGroup}
      /\ (IF unique = NoGroup THEN {} ELSE {unique}) = Said(c, "property", <<p.name>>, "UNIQUE")
  <2>1. NoGroup \notin Seq(Words)
    BY ProgramsAssumption
  <2>2. CASE Has(t, "UNIQUE")
    <3>1. unique = value("UNIQUE") /\ unique \in Seq(Words)
          /\ Said(c, "property", <<p.name>>, "UNIQUE") = {unique}
      BY <1>3, <1>5, <2>2
    <3> HIDE DEF unique
    <3>2. QED
      BY <2>1, <3>1
  <2>3. CASE ~Has(t, "UNIQUE")
    BY <1>3, <1>5, <2>3
  <2>4. QED
    BY <2>2, <2>3
<1>10. ref = (IF IsReference(p) THEN p.target ELSE NoClass) /\ ref \in Classes \cup {NoClass}
  BY <1>2 DEF IsReference
<1> HIDE DEF transient, column, unique, ref, flag
<1>11. m \in Mapping
  <2> DEFINE i == flag("IDENTITY", p.name = Id)
             a == flag("AUTOGENERATED", p.name = Id)
             n == flag("NOT_NULL", FALSE)
             f == flag("FOREIGN_KEY", FALSE)
             name == p.name
  <2>1. i \in BOOLEAN /\ a \in BOOLEAN /\ n \in BOOLEAN /\ f \in BOOLEAN
    BY <1>4, <1>5
  <2>2. m = [name |-> name, column |-> column, objectId |-> i, autogenerated |-> a,
             transient |-> transient, notNull |-> n, foreignKey |-> f, unique |-> unique,
             ref |-> ref]
    BY <1>1
  <2>3. name \in Words
    BY <1>2
  <2> HIDE DEF i, a, n, f, name
  <2>4. [name |-> name, column |-> column, objectId |-> i, autogenerated |-> a,
         transient |-> transient, notNull |-> n, foreignKey |-> f, unique |-> unique,
         ref |-> ref] \in Mapping
    <3>1. column \in Seq(Words \cup {"_id"})
      BY <1>7
    <3>2. transient \in BOOLEAN
      BY <1>6
    <3>3. unique \in Seq(Words) \cup {NoGroup}
      BY <1>9
    <3>4. ref \in Classes \cup {NoClass}
      BY <1>10
    <3>5. QED
      BY <2>1, <2>3, <3>1, <3>2, <3>3, <3>4 DEF Mapping
  <2>5. QED
    BY <2>2, <2>4
<1>12. /\ m.name = p.name /\ m.column = column /\ m.objectId = flag("IDENTITY", p.name = Id)
       /\ m.autogenerated = flag("AUTOGENERATED", p.name = Id)
       /\ m.transient = transient /\ m.notNull = flag("NOT_NULL", FALSE)
       /\ m.foreignKey = flag("FOREIGN_KEY", FALSE) /\ m.unique = unique /\ m.ref = ref
  BY <1>1
<1>13. /\ flag("IDENTITY", p.name = Id) = IsSet(c, p, "IDENTITY", p.name = Id)
       /\ flag("AUTOGENERATED", p.name = Id) = IsSet(c, p, "AUTOGENERATED", p.name = Id)
       /\ flag("NOT_NULL", FALSE) = IsSet(c, p, "NOT_NULL", FALSE)
       /\ flag("FOREIGN_KEY", FALSE) = IsSet(c, p, "FOREIGN_KEY", FALSE)
  BY <1>4, <1>5
<1>14. IsObjectId(c, p) = IsSet(c, p, "IDENTITY", p.name = Id)
  BY DEF IsObjectId
<1>15. /\ m.objectId = IsObjectId(c, p)
       /\ m.autogenerated = IsSet(c, p, "AUTOGENERATED", p.name = Id)
       /\ m.notNull = IsSet(c, p, "NOT_NULL", FALSE)
       /\ m.foreignKey = IsSet(c, p, "FOREIGN_KEY", FALSE)
  BY <1>12, <1>13, <1>14, Zenon
<1>16. m.transient = ~IsStored(c, p)
  BY <1>6, <1>12, Zenon
<1>17. /\ IsStored(c, p) /\ Said(c, "property", <<p.name>>, "COLUMN") # {}
             => {m.column} = Said(c, "property", <<p.name>>, "COLUMN")
       /\ (IF m.unique = NoGroup THEN {} ELSE {m.unique})
             = Said(c, "property", <<p.name>>, "UNIQUE")
       /\ m.ref = IF IsReference(p) THEN p.target ELSE NoClass
  BY <1>8, <1>9, <1>10, <1>12
<1>18. QED
  BY <1>11, <1>12, <1>15, <1>16, <1>17

-----------------------------------------------------------------------------
(* The inductive invariant.                                                  *)

StackTyped == stack \in Seq([cls : Classes, next : Nat])

\* Classes that reference each other are initialized one inside the other, each
\* at most once.
OnStack ==
    /\ under = {stack[i].cls : i \in 1..Len(stack)}
    /\ \A i, j \in 1..Len(stack) : i # j => stack[i].cls # stack[j].cls
    /\ under \cap constructed = {}
    /\ cached = under \cup constructed

\* The mapping of a property that has been looked at.
MappedAt(c, i) ==
    /\ mappings[c][i] = Descriptor(c, Props(c)[i])
    /\ ~BadMapping(mappings[c][i], Props(c)[i])
    /\ IsReference(Props(c)[i]) => Props(c)[i].target \in cached

\* How far each class has come.
Progress ==
    /\ \A i \in 1..Len(stack) : stack[i].next = Len(mappings[stack[i].cls]) + 1
    /\ \A c \in cached : /\ CanConstruct(c) /\ ~Refusable(c) /\ info[c] = ClassInfoOf(c)
                         /\ Len(mappings[c]) <= Len(Props(c))
                         /\ \A i \in 1..Len(mappings[c]) : MappedAt(c, i)
    /\ \A c \in Classes \ cached : mappings[c] = <<>>
    /\ \A c \in constructed : Len(mappings[c]) = Len(Props(c))

\* What is handed out has been validated.
Validated ==
    /\ handed \subseteq constructed
    /\ stack = <<>> /\ ~dead => CrossReferencesValid(constructed)
    /\ dead => \E c \in Classes : BreaksRule(c)

CacheInv == TypeOK /\ StackTyped /\ WrittenText /\ OnStack /\ Progress /\ Validated

\* What a property breaks.
BadProperty(c, p) ==
    \/ IsStored(c, p) /\ ~p.access
    \/ ~IsStored(c, p) /\ IsObjectId(c, p)
    \/ ~IsObjectId(c, p) /\ IsSet(c, p, "AUTOGENERATED", p.name = Id)

BadReference(c, p) ==
    \/ p.type = "list" /\ ~\E q \in PropertiesOf(p.target) : IsReference(q) /\ q.target = c
    \/ p.type = "pointer" /\ ~\E q \in PropertiesOf(p.target) : IsObjectId(p.target, q)

LEMMA Rules ==
    ASSUME NEW c
    PROVE  BreaksRule(c) <=> \/ ~CanConstruct(c) \/ Refusable(c)
                             \/ \E p \in PropertiesOf(c) : BadProperty(c, p) \/ BadReference(c, p)
<1>1. Refusable(c) <=>
        \E i \in 1..Len(decl[c].entries) :
          LET e == decl[c].entries[i]
          IN  \/ e.clauses = <<>>
              \/ e.about = "class" /\ e.name # <<>>
              \/ e.about = "property" /\ ~\E p \in PropertiesOf(c) : e.name = <<p.name>>
              \/ \E j \in 1..Len(decl[c].entries) :
                    i # j /\ e.about = decl[c].entries[j].about /\ e.name = decl[c].entries[j].name
              \/ \E j \in 1..Len(e.clauses) :
                    LET k == e.clauses[j]
                    IN  \/ k.key \in {"TABLE", "SCHEMA", "COLUMN"} /\ k.arg = <<>>
                        \/ k.key \notin {"TABLE", "SCHEMA", "COLUMN", "UNIQUE"} /\ ~IsBoolean(k.arg)
  BY DEF Refusable, BadEntry, AboutSame, BadClause
<1>2. (\E p \in PropertiesOf(c) : BadProperty(c, p) \/ BadReference(c, p)) <=>
        \E p \in PropertiesOf(c) :
          \/ IsStored(c, p) /\ ~p.access
          \/ ~IsStored(c, p) /\ IsObjectId(c, p)
          \/ ~IsObjectId(c, p) /\ IsSet(c, p, "AUTOGENERATED", p.name = Id)
          \/ p.type = "list" /\ ~\E q \in PropertiesOf(p.target) : IsReference(q) /\ q.target = c
          \/ p.type = "pointer" /\ ~\E q \in PropertiesOf(p.target) : IsObjectId(p.target, q)
  BY DEF BadProperty, BadReference
<1>3. QED
  BY <1>1, <1>2, Zenon DEF BreaksRule

\* initialize() refuses a property that breaks a rule, and no other.
LEMMA BadMappingRead ==
    ASSUME WrittenText, NEW c \in Classes, ~Refusable(c), NEW p \in PropertiesOf(c)
    PROVE  BadMapping(Descriptor(c, p), p) <=> BadProperty(c, p)
<1> DEFINE m == Descriptor(c, p)
<1>1. /\ m.transient = ~IsStored(c, p) /\ m.objectId = IsObjectId(c, p)
      /\ m.autogenerated = IsSet(c, p, "AUTOGENERATED", p.name = Id)
  BY DescriptorSays
<1> HIDE DEF m
<1>2. BadMapping(m, p) <=> \/ IsStored(c, p) /\ ~p.access
                           \/ ~IsStored(c, p) /\ IsObjectId(c, p)
                           \/ IsSet(c, p, "AUTOGENERATED", p.name = Id) /\ ~IsObjectId(c, p)
  BY <1>1 DEF BadMapping
<1>3. QED
  BY <1>2, Zenon DEF BadProperty, m

\* Classes that are completely mapped and reference no others.
Complete(classes) ==
    /\ classes \subseteq Classes
    /\ \A c \in classes :
          /\ CanConstruct(c) /\ ~Refusable(c) /\ Len(mappings[c]) = Len(Props(c))
          /\ \A i \in 1..Len(Props(c)) :
                /\ mappings[c][i] = Descriptor(c, Props(c)[i])
                /\ ~BadMapping(mappings[c][i], Props(c)[i])
                /\ IsReference(Props(c)[i]) => Props(c)[i].target \in classes

LEMMA MappingsAre ==
    ASSUME NEW classes, Complete(classes), NEW c \in classes
    PROVE  MappingsOf(c) = {Descriptor(c, p) : p \in PropertiesOf(c)}
<1>1. /\ Len(mappings[c]) = Len(Props(c)) /\ Props(c) = decl[c].props
      /\ \A i \in 1..Len(Props(c)) : mappings[c][i] = Descriptor(c, Props(c)[i])
  BY DEF Complete, Props
<1>2. QED
  BY <1>1 DEF MappingsOf, PropertiesOf

\* The references that are validated are those that the rules are about.
LEMMA ValidReferenceRead ==
    ASSUME WrittenText, NEW classes, Complete(classes), NEW c \in classes,
           NEW p \in PropertiesOf(c)
    PROVE  ValidReference(c, Descriptor(c, p)) <=> ~BadReference(c, p)
<1> DEFINE m == Descriptor(c, p)
<1>1. c \in Classes /\ ~Refusable(c) /\ NoClass \notin Classes
  BY ProgramsAssumption DEF Complete
<1>2. /\ m.transient = ~IsStored(c, p)
      /\ m.ref = IF IsReference(p) THEN p.target ELSE NoClass
  BY <1>1, DescriptorSays
<1>3. p.type \in {"value", "enum", "pointer", "list"} /\ (IsReference(p) => p.target \in Classes)
  BY <1>1, PropertyTyped
<1>4. CASE ~IsReference(p)
  <2>1. m.ref = NoClass
    BY <1>2, <1>4
  <2>2. QED
    BY <1>4, <2>1 DEF ValidReference, BadReference, IsReference
<1>5. CASE IsReference(p)
  <2> DEFINE d == p.target
  <2>1. d \in classes /\ d \in Classes /\ ~Refusable(d)
    <3>1. PICK i \in 1..Len(Props(c)) : p = Props(c)[i]
      BY DEF PropertiesOf, Props
    <3>2. QED
      BY <1>5, <3>1 DEF Complete
  <2>2. m.ref = d /\ m.ref # NoClass
    BY <1>1, <1>2, <1>5, <2>1
  <2>3. MappingsOf(d) = {Descriptor(d, q) : q \in PropertiesOf(d)}
    BY <2>1, MappingsAre
  <2>4. ASSUME NEW q \in PropertiesOf(d)
        PROVE  /\ Descriptor(d, q).objectId = IsObjectId(d, q)
               /\ Descriptor(d, q).ref = c <=> IsReference(q) /\ q.target = c
    <3>1. /\ Descriptor(d, q).objectId = IsObjectId(d, q)
          /\ Descriptor(d, q).ref = IF IsReference(q) THEN q.target ELSE NoClass
      BY <2>1, DescriptorSays
    <3>2. QED
      BY <1>1, <3>1
  <2> HIDE DEF m, d
  <2>5. (\E back \in MappingsOf(d) : back.ref = c)
            <=> \E q \in PropertiesOf(d) : IsReference(q) /\ q.target = c
    BY <2>3, <2>4
  <2>6. (\E o \in MappingsOf(d) : o.objectId) <=> \E q \in PropertiesOf(d) : IsObjectId(d, q)
    BY <2>3, <2>4
  <2>7. m.transient <=> p.type = "list"
    <3>1. p.type = "list" \/ p.type = "pointer"
      BY <1>5 DEF IsReference
    <3>2. IsStored(c, p) <=> p.type # "list"
      BY <3>1 DEF IsStored
    <3>3. QED
      BY <1>2, <3>2
  <2>8. ValidReference(c, m) <=>
            \/ m.transient /\ \E back \in MappingsOf(d) : back.ref = c
            \/ ~m.transient /\ \E o \in MappingsOf(d) : o.objectId
    BY <2>2 DEF ValidReference
  <2>9. p.type = "list" \/ p.type = "pointer"
    BY <1>5 DEF IsReference
  <2>10. QED
    BY <2>5, <2>6, <2>7, <2>8, <2>9 DEF BadReference, m, d
<1>6. QED
  BY <1>4, <1>5

\* validateCrossReferences() refuses complete classes if one of them breaks a
\* rule, and only then.
LEMMA Validates ==
    ASSUME WrittenText, NEW classes, Complete(classes)
    PROVE  CrossReferencesValid(classes) <=> \A c \in classes : ~BreaksRule(c)
<1>1. ASSUME NEW c \in classes
      PROVE  (\A m \in MappingsOf(c) : ValidReference(c, m)) <=> ~BreaksRule(c)
  <2>1. c \in Classes /\ CanConstruct(c) /\ ~Refusable(c)
    BY DEF Complete
  <2>2. \A p \in PropertiesOf(c) : ~BadProperty(c, p)
    <3> SUFFICES ASSUME NEW p \in PropertiesOf(c) PROVE ~BadProperty(c, p)
      OBVIOUS
    <3>1. PICK i \in 1..Len(Props(c)) : p = Props(c)[i]
      BY DEF PropertiesOf, Props
    <3>2. ~BadMapping(Descriptor(c, p), p)
      BY <3>1 DEF Complete
    <3>3. QED
      BY <2>1, <3>2, BadMappingRead
  <2>3. MappingsOf(c) = {Descriptor(c, p) : p \in PropertiesOf(c)}
    BY MappingsAre
  <2>4. \A p \in PropertiesOf(c) : ValidReference(c, Descriptor(c, p)) <=> ~BadReference(c, p)
    BY ValidReferenceRead
  <2>5. QED
    BY <2>1, <2>2, <2>3, <2>4, Rules
<1>2. QED
  BY <1>1 DEF CrossReferencesValid

-----------------------------------------------------------------------------
(* What can be reached over references.                                      *)

\* A recursion whose step is a function has a value.
Iteration(f, F, x, n) == f[0] = x /\ \A i \in 1..n : f[i] = F[f[i - 1]]

LEMMA Iterates ==
    ASSUME NEW T, NEW F \in [T -> T], NEW x \in T, NEW n \in Nat
    PROVE  \E f \in [0..n -> T] : Iteration(f, F, x, n)
<1> DEFINE Steps(f, m) == f \in [0..m -> T] /\ f[0] = x /\ \A i \in 1..m : f[i] = F[f[i - 1]]
           S == {m \in 0..n : \E f : Steps(f, m)}
<1>1. 0 \in S
  <2> DEFINE g == [i \in 0..0 |-> x]
  <2>1. g \in [0..0 -> T] /\ g[0] = x /\ 1..0 = {} /\ 0 \in 0..n
    OBVIOUS
  <2> HIDE DEF g
  <2>2. Steps(g, 0)
    BY <2>1
  <2>3. QED
    BY <2>1, <2>2
<1>2. ASSUME NEW m \in 1..n, m - 1 \in S PROVE m \in S
  <2>1. PICK g : Steps(g, m - 1)
    BY <1>2
  <2> DEFINE h == [i \in 0..m |-> IF i = m THEN F[g[m - 1]] ELSE g[i]]
  <2>2. m \in Nat /\ m - 1 \in 0..m - 1 /\ g[m - 1] \in T
    BY <2>1
  <2>3. \A i \in 0..m : i # m => i \in 0..m - 1
    BY <2>2
  <2>4. h \in [0..m -> T]
    BY <2>1, <2>2, <2>3
  <2>5. h[0] = x
    BY <2>1, <2>2
  <2>6. ASSUME NEW i \in 1..m PROVE h[i] = F[h[i - 1]]
    BY <2>1, <2>2
  <2>7. Steps(h, m)
    BY <2>4, <2>5, <2>6
  <2> HIDE DEF h, Steps
  <2>8. m \in 0..n
    OBVIOUS
  <2>9. QED
    BY <2>7, <2>8
<1>3. n \in S
  <2> HIDE DEF S
  <2>1. \A i \in 0..n : i \in S
    BY <1>1, <1>2, UpTo
  <2>2. QED
    BY <2>1
<1>4. QED
  BY <1>3 DEF Iteration

LEMMA ReachableWithin ==
    ASSUME NEW classes \in SUBSET Classes, NEW from \in SUBSET classes, WrittenText,
           \A c \in classes : \A p \in PropertiesOf(c) : IsReference(p) => p.target \in classes
    PROVE  Reachable(from) \subseteq classes
<1> DEFINE n == Cardinality(Classes)
           T == SUBSET classes
           targets(X) == {p.target : p \in {p \in UNION {PropertiesOf(c) : c \in X} :
                                            IsReference(p)}}
           F == [X \in T |-> X \cup targets(X)]
           W(w) == [i \in 0..n |-> IF i = 0 THEN from ELSE w[i - 1] \cup targets(w[i - 1])]
           Rec(w) == w = W(w)
           within == CHOOSE w : Rec(w)
<1>1. n \in Nat
  BY ProgramsAssumption, FS_CardinalityType
<1>2. Reachable(from) = within[n]
  BY DEF Reachable
<1>3. \A X \in T : targets(X) \in T
  OBVIOUS
<1>4. F \in [T -> T] /\ (\A X \in T : F[X] = X \cup targets(X)) /\ from \in T
  BY <1>3
<1> HIDE DEF targets, n, F, T
<1>5. PICK f \in [0..n -> T] : f[0] = from /\ \A i \in 1..n : f[i] = F[f[i - 1]]
  <2>1. F \in [T -> T]
    BY <1>4
  <2>2. from \in T
    BY <1>4
  <2>3. \E f \in [0..n -> T] : Iteration(f, F, from, n)
    BY <1>1, <2>1, <2>2, Iterates
  <2>4. QED
    BY <2>3 DEF Iteration
<1>6. Rec(f)
  <2>1. ASSUME NEW i \in 0..n, i # 0 PROVE f[i] = f[i - 1] \cup targets(f[i - 1])
    <3>1. i \in 1..n /\ i - 1 \in 0..n
      BY <1>1, <2>1
    <3>2. f[i - 1] \in T
      BY <3>1
    <3>3. QED
      BY <1>4, <1>5, <3>1, <3>2
  <2>2. \A i \in 0..n : f[i] = IF i = 0 THEN from ELSE f[i - 1] \cup targets(f[i - 1])
    BY <1>5, <2>1
  <2>3. QED
    BY <1>5, <2>2
<1>7. Rec(within)
  <2> HIDE DEF Rec
  <2>1. QED
    BY <1>6
<1> HIDE DEF within
<1>8. /\ within[0] = from
      /\ \A i \in 1..n : within[i] = within[i - 1] \cup targets(within[i - 1])
  <2>1. \A i \in 0..n : within[i] = IF i = 0 THEN from
                                    ELSE within[i - 1] \cup targets(within[i - 1])
    BY <1>7
  <2>2. 0 \in 0..n /\ \A i \in 1..n : i \in 0..n /\ i # 0
    BY <1>1
  <2> HIDE DEF Rec
  <2>3. QED
    BY <2>1, <2>2
<1> DEFINE Q == {m \in 0..n : within[m] \in T}
<1>9. 0 \in Q
  BY <1>1, <1>4, <1>8
<1>10. ASSUME NEW i \in 1..n, i - 1 \in Q PROVE i \in Q
  <2>1. within[i - 1] \in T /\ targets(within[i - 1]) \in T
    BY <1>3, <1>10
  <2>2. within[i] \in T
    BY <1>8, <2>1 DEF T
  <2>3. QED
    BY <1>1, <2>2
<1>11. n \in Q
  <2> HIDE DEF Q
  <2>1. \A i \in 0..n : i \in Q
    BY <1>1, <1>9, <1>10, UpTo
  <2>2. QED
    BY <1>1, <2>1
<1>12. QED
  BY <1>2, <1>11 DEF T

-----------------------------------------------------------------------------
(* The invariant is inductive.                                               *)

LEMMA DeclKept ==
    ASSUME decl' = decl, text' = text
    PROVE  /\ WrittenText => WrittenText'
           /\ \A c : /\ CanConstruct(c)' <=> CanConstruct(c)
                     /\ Refusable(c)' <=> Refusable(c)
                     /\ BreaksRule(c)' <=> BreaksRule(c)
                     /\ ClassInfoOf(c)' = ClassInfoOf(c)
                     /\ Props(c)' = Props(c)
                     /\ \A p : Descriptor(c, p)' = Descriptor(c, p)
<1>1. \A c, about : Entries(c, about)' = Entries(c, about)
  BY DEF Entries
<1>2. \A c, i : Text(c, i)' = Text(c, i)
  BY DEF Text
<1>3. \A c : PropertiesOf(c)' = PropertiesOf(c) /\ Props(c)' = Props(c)
  BY DEF PropertiesOf, Props
<1>4. \A c, about, name, key : Said(c, about, name, key)' = Said(c, about, name, key)
  BY <1>1 DEF Said
<1>5. \A c, p, key, default : IsSet(c, p, key, default)' = IsSet(c, p, key, default)
  BY <1>4 DEF IsSet
<1>6. \A c, p : IsObjectId(c, p)' = IsObjectId(c, p) /\ IsStored(c, p)' = IsStored(c, p)
  BY <1>5 DEF IsObjectId, IsStored
<1>7. \A c : CanConstruct(c)' <=> CanConstruct(c)
  BY DEF CanConstruct
<1>8. \A c : Refusable(c)' <=> Refusable(c)
  BY <1>3 DEF Refusable, BadEntry, AboutSame
<1>9. \A c : BreaksRule(c)' <=> BreaksRule(c)
  BY <1>3, <1>5, <1>6, <1>7 DEF BreaksRule
<1>10. \A c : ClassInfoOf(c)' = ClassInfoOf(c)
  BY <1>1, <1>2 DEF ClassInfoOf
<1>11. ASSUME NEW c, NEW p PROVE UserText(c, p)' = UserText(c, p)
  <2> DEFINE A == {i \in Entries(c, "property") : NameIn(Text(c, i)) = <<p.name>>}
  <2>1. A' = A
    BY <1>1, <1>2
  <2>2. UserText(c, p) = IF A = {} THEN <<>> ELSE text[c][CHOOSE i \in A : TRUE]
    BY DEF UserText, Text
  <2>3. UserText(c, p)' = IF A' = {} THEN <<>> ELSE text'[c][CHOOSE i \in A' : TRUE]
    BY DEF UserText, Text
  <2> HIDE DEF A
  <2>4. QED
    BY <2>1, <2>2, <2>3
<1>12. ASSUME NEW c, NEW p PROVE Descriptor(c, p)' = Descriptor(c, p)
  <2>1. UserText(c, p)' = UserText(c, p)
    BY <1>11
  <2>2. QED
    BY <2>1, Zenon DEF Descriptor
<1>13. WrittenText => WrittenText'
  BY DEF WrittenText
<1>14. QED
  BY <1>3, <1>7, <1>8, <1>9, <1>10, <1>12, <1>13

LEMMA MappedStill ==
    ASSUME decl' = decl, text' = text, cached \subseteq cached', NEW c, NEW i, MappedAt(c, i),
           mappings'[c][i] = mappings[c][i]
    PROVE  MappedAt(c, i)'
<1>1. Props(c)' = Props(c) /\ Descriptor(c, Props(c)[i])' = Descriptor(c, Props(c)[i])
  BY DeclKept
<1>2. (mappings[c][i])' = mappings[c][i] /\ BadMapping(mappings[c][i], Props(c)[i])'
          = BadMapping(mappings[c][i], Props(c)[i])
  BY <1>1
<1>3. QED
  BY <1>1, <1>2 DEF MappedAt

LEMMA DieKeeps ==
    ASSUME CacheInv, Die, NEW c \in Classes, BreaksRule(c)
    PROVE  CacheInv'
<1> USE DEF Die
<1>1. TypeOK'
  BY DEF CacheInv, TypeOK
<1>2. StackTyped' /\ OnStack'
  BY DEF CacheInv, StackTyped, OnStack
<1>3. WrittenText'
  BY DeclKept DEF CacheInv
<1>4. Progress'
  <2>1. \A i \in 1..Len(stack) : stack[i].next = Len(mappings[stack[i].cls]) + 1
    BY DEF CacheInv, Progress
  <2>2. \A b \in cached : /\ CanConstruct(b) /\ ~Refusable(b) /\ info[b] = ClassInfoOf(b)
                          /\ Len(mappings[b]) <= Len(Props(b))
                          /\ \A i \in 1..Len(mappings[b]) : MappedAt(b, i)
    BY DEF CacheInv, Progress
  <2>3. \A b \in cached : \A i \in 1..Len(mappings[b]) : MappedAt(b, i)'
    BY <2>2, MappedStill
  <2>4. \A b \in cached : /\ CanConstruct(b)' /\ ~Refusable(b)' /\ info[b] = ClassInfoOf(b)'
                          /\ Len(mappings[b]) <= Len(Props(b)')
    BY <2>2, DeclKept
  <2>5. /\ \A b \in Classes \ cached : mappings[b] = <<>>
        /\ \A b \in constructed : Len(mappings[b]) = Len(Props(b)')
    BY DeclKept DEF CacheInv, Progress
  <2>6. QED
    BY <2>1, <2>3, <2>4, <2>5 DEF Progress
<1>5. Validated'
  <2>1. BreaksRule(c)'
    BY DeclKept
  <2>2. QED
    BY <2>1 DEF CacheInv, Validated
<1>6. QED
  BY <1>1, <1>2, <1>3, <1>4, <1>5 DEF CacheInv

LEMMA Pushed ==
    ASSUME NEW T, NEW s \in Seq(T), NEW x \in T
    PROVE  /\ <<x>> \o s \in Seq(T) /\ Len(<<x>> \o s) = Len(s) + 1
           /\ (<<x>> \o s)[1] = x
           /\ \A i \in 1..Len(s) : (<<x>> \o s)[i + 1] = s[i]
           /\ \A i \in 2..Len(s) + 1 : i - 1 \in 1..Len(s) /\ (<<x>> \o s)[i] = s[i - 1]
OBVIOUS

LEMMA StartKeeps ==
    ASSUME CacheInv, NEW c \in Classes \ cached, CanConstruct(c), ~Refusable(c), Start(c)
    PROVE  CacheInv'
<1> DEFINE f == [cls |-> c, next |-> 1]
           R == [cls : Classes, next : Nat]
           n == Len(stack)
<1>1. /\ under' = under \cup {c} /\ cached' = cached \cup {c}
      /\ info' = [info EXCEPT ![c] = ClassInfoOf(c)] /\ stack' = <<f>> \o stack
      /\ decl' = decl /\ text' = text /\ mappings' = mappings
      /\ constructed' = constructed /\ dead' = dead /\ handed' = handed
  BY DEF Start
<1>2. f \in R /\ stack \in Seq(R) /\ n \in Nat /\ f.cls = c /\ f.next = 1
  BY DEF CacheInv, StackTyped
<1> HIDE DEF f
<1>3. /\ stack' \in Seq(R) /\ Len(stack') = n + 1 /\ stack'[1] = f
      /\ \A i \in 1..n : stack'[i + 1] = stack[i]
      /\ \A i \in 2..n + 1 : i - 1 \in 1..n /\ stack'[i] = stack[i - 1]
  BY <1>1, <1>2, Pushed
<1>4. \A i \in 1..n + 1 : i = 1 \/ i \in 2..n + 1
  BY <1>2
<1>5. WrittenText /\ WrittenText'
  BY <1>1, DeclKept DEF CacheInv
<1>6. StackTyped'
  BY <1>3 DEF StackTyped
<1>7. TypeOK'
  <2>1. ClassInfoOf(c) \in ClassInfo
    BY <1>5, InfoSays
  <2>2. \A i \in 1..Len(stack') : stack'[i] \in R
    <3>1. stack' \in Seq(R)
      BY <1>3
    <3> HIDE DEF R
    <3>2. QED
      BY <3>1
  <2>3. QED
    BY <1>1, <2>1, <2>2 DEF CacheInv, TypeOK
<1>8. OnStack'
  <2>1. /\ under = {stack[i].cls : i \in 1..n}
        /\ \A i, j \in 1..n : i # j => stack[i].cls # stack[j].cls
        /\ under \cap constructed = {} /\ cached = under \cup constructed
    BY DEF CacheInv, OnStack
  <2>2. under' = {stack'[i].cls : i \in 1..Len(stack')}
    <3>1. 1 \in 1..n + 1 /\ \A i \in 1..n : i + 1 \in 1..n + 1
      BY <1>2
    <3>2. QED
      BY <1>1, <1>2, <1>3, <1>4, <2>1, <3>1
  <2>3. ASSUME NEW i \in 1..n + 1, NEW j \in 1..n + 1, i # j
        PROVE  stack'[i].cls # stack'[j].cls
    <3>1. \A k \in 1..n : stack[k].cls # c
      BY <2>1
    <3>2. CASE i = 1
      BY <1>2, <1>3, <1>4, <2>3, <3>1, <3>2
    <3>3. CASE j = 1
      BY <1>2, <1>3, <1>4, <2>3, <3>1, <3>3
    <3>4. CASE i # 1 /\ j # 1
      <4>1. /\ i - 1 \in 1..n /\ j - 1 \in 1..n
            /\ stack'[i] = stack[i - 1] /\ stack'[j] = stack[j - 1]
        BY <1>3, <1>4, <3>4
      <4>2. i - 1 # j - 1
        BY <1>2, <2>3
      <4>3. QED
        BY <2>1, <4>1, <4>2
    <3>5. QED
      BY <3>2, <3>3, <3>4
  <2>4. QED
    BY <1>1, <1>3, <2>1, <2>2, <2>3 DEF OnStack
<1>9. Progress'
  <2>1. mappings[c] = <<>>
    BY DEF CacheInv, Progress
  <2>2. \A i \in 1..Len(stack') : stack'[i].next = Len(mappings[stack'[i].cls]) + 1
    <3>1. \A i \in 1..n : stack[i].next = Len(mappings[stack[i].cls]) + 1
      BY DEF CacheInv, Progress
    <3>2. stack'[1].next = Len(mappings[stack'[1].cls]) + 1
      BY <1>2, <1>3, <2>1
    <3>3. ASSUME NEW i \in 2..n + 1
          PROVE  stack'[i].next = Len(mappings[stack'[i].cls]) + 1
      <4>1. i - 1 \in 1..n /\ stack'[i] = stack[i - 1]
        BY <1>3
      <4>2. QED
        BY <3>1, <4>1
    <3> HIDE DEF n
    <3>4. QED
      BY <1>3, <1>4, <3>2, <3>3
  <2>3. ASSUME NEW b \in cached'
        PROVE  /\ CanConstruct(b) /\ ~Refusable(b) /\ info'[b] = ClassInfoOf(b)
               /\ Len(mappings[b]) <= Len(Props(b))
               /\ \A i \in 1..Len(mappings[b]) : MappedAt(b, i)
    <3>1. CASE b = c
      <4>1. info'[b] = ClassInfoOf(b)
        BY <1>1, <3>1 DEF CacheInv, TypeOK
      <4>2. Len(Props(b)) \in Nat
        BY <1>5, <3>1, DeclTyped DEF Props
      <4>3. Len(mappings[b]) = 0
        BY <2>1, <3>1
      <4>4. QED
        BY <3>1, <4>1, <4>2, <4>3
    <3>2. CASE b # c
      <4>1. b \in cached /\ b \in Classes
        BY <1>1, <3>2 DEF CacheInv, TypeOK
      <4>2. info'[b] = info[b]
        BY <1>1, <3>2, <4>1 DEF CacheInv, TypeOK
      <4>3. QED
        BY <4>1, <4>2 DEF CacheInv, Progress
    <3>3. QED
      BY <3>1, <3>2
  <2>4. \A b \in cached' : \A i \in 1..Len(mappings[b]) : MappedAt(b, i)'
    <3>1. cached \subseteq cached'
      BY <1>1
    <3>2. QED
      BY <1>1, <2>3, <3>1, MappedStill
  <2>5. \A b \in cached' : /\ CanConstruct(b)' /\ ~Refusable(b)' /\ info'[b] = ClassInfoOf(b)'
                           /\ Len(mappings[b]) <= Len(Props(b)')
    BY <1>1, <2>3, DeclKept
  <2>6. /\ \A b \in Classes \ cached' : mappings[b] = <<>>
        /\ \A b \in constructed : Len(mappings[b]) = Len(Props(b)')
    BY <1>1, DeclKept DEF CacheInv, Progress
  <2>7. QED
    BY <1>1, <2>2, <2>4, <2>5, <2>6 DEF Progress
<1>10. Validated'
  <2>1. Len(stack') # 0
    BY <1>2, <1>3
  <2>2. stack' # <<>>
    BY <2>1
  <2>3. \A b : BreaksRule(b)' <=> BreaksRule(b)
    BY <1>1, DeclKept
  <2>4. QED
    BY <1>1, <2>2, <2>3 DEF CacheInv, Validated
<1>11. QED
  BY <1>5, <1>6, <1>7, <1>8, <1>9, <1>10 DEF CacheInv

LEMMA InitializeKeeps ==
    ASSUME CacheInv, NEW c \in Classes \ cached, Initialize(c)
    PROVE  CacheInv'
<1>1. BadEntries(c) <=> Refusable(c)
  BY BadEntriesRead DEF CacheInv
<1>2. CASE ~CanConstruct(c) \/ BadEntries(c)
  <2>1. BreaksRule(c)
    BY <1>1, <1>2, Rules
  <2>2. Die
    BY <1>2 DEF Initialize
  <2>3. QED
    BY <2>1, <2>2, DieKeeps
<1>3. CASE ~(~CanConstruct(c) \/ BadEntries(c))
  <2>1. Start(c)
    BY <1>3 DEF Initialize
  <2>2. QED
    BY <1>1, <1>3, <2>1, StartKeeps
<1>4. QED
  BY <1>2, <1>3

\* The class that is being initialized.
LEMMA AtTop ==
    ASSUME CacheInv, stack # <<>>
    PROVE  /\ Len(stack) \in Nat /\ 1 \in 1..Len(stack)
           /\ Top = stack[1] /\ Top \in [cls : Classes, next : Nat]
           /\ Top.cls \in Classes /\ Top.cls \in under /\ Top.cls \in cached
           /\ Top.cls \notin constructed
           /\ mappings[Top.cls] \in Seq(Mapping) /\ Len(mappings[Top.cls]) \in Nat
           /\ Top.next = Len(mappings[Top.cls]) + 1
           /\ Len(mappings[Top.cls]) <= Len(Props(Top.cls))
           /\ CanConstruct(Top.cls) /\ ~Refusable(Top.cls)
<1>1. stack \in Seq([cls : Classes, next : Nat])
  BY DEF CacheInv, StackTyped
<1>2. Len(stack) \in Nat /\ 1 \in 1..Len(stack) /\ Top = stack[1]
  BY <1>1 DEF Top
<1>3. Top \in [cls : Classes, next : Nat] /\ Top.cls \in Classes
  <2>1. \A T : stack \in Seq(T) => stack[1] \in T
    BY <1>2
  <2>2. Top \in [cls : Classes, next : Nat]
    BY <1>1, <1>2, <2>1, Zenon
  <2>3. QED
    BY <2>2
<1>4. Top.cls \in under /\ Top.cls \in cached /\ Top.cls \notin constructed
  BY <1>2 DEF CacheInv, OnStack
<1>5. mappings[Top.cls] \in Seq(Mapping) /\ Len(mappings[Top.cls]) \in Nat
  <2>1. mappings[Top.cls] \in Seq(Mapping)
    BY <1>3 DEF CacheInv, TypeOK
  <2>2. QED
    BY <2>1
<1>6. /\ Top.next = Len(mappings[Top.cls]) + 1
      /\ Len(mappings[Top.cls]) <= Len(Props(Top.cls))
      /\ CanConstruct(Top.cls) /\ ~Refusable(Top.cls)
  BY <1>2, <1>4 DEF CacheInv, Progress
<1>7. QED
  BY <1>2, <1>3, <1>4, <1>5, <1>6

LEMMA AddKeeps ==
    ASSUME CacheInv, stack # <<>>, ~dead, NEW c, NEW k, NEW p, NEW m,
           c = Top.cls, k = Top.next, k <= Len(Props(c)),
           p = Props(c)[k], m = Descriptor(c, p), ~BadMapping(m, p),
           IsReference(p) => p.target \in cached,
           AddMapping(c, m),
           UNCHANGED <<decl, text, cached, info, under, constructed, dead, handed>>
    PROVE  CacheInv'
<1> DEFINE R == [cls : Classes, next : Nat]
           n == Len(stack)
<1>1. /\ n \in Nat /\ 1 \in 1..n /\ Top = stack[1] /\ Top \in R
      /\ c \in Classes /\ c \in cached /\ c \notin constructed
      /\ mappings[c] \in Seq(Mapping) /\ Len(mappings[c]) \in Nat
      /\ k = Len(mappings[c]) + 1 /\ ~Refusable(c)
  BY AtTop
<1>2. WrittenText /\ WrittenText'
  BY DeclKept DEF CacheInv
<1>3. k \in 1..Len(Props(c)) /\ p \in PropertiesOf(c) /\ Len(Props(c)) \in Nat
  <2>1. Len(Props(c)) \in Nat
    BY <1>1, <1>2, DeclTyped DEF Props
  <2>2. k \in 1..Len(Props(c))
    BY <1>1, <2>1
  <2>3. QED
    BY <2>1, <2>2, SMTT(30) DEF PropertiesOf, Props
<1>4. m \in Mapping
  BY <1>1, <1>2, <1>3, DescriptorSays
<1>5. /\ mappings' = [mappings EXCEPT ![c] = Append(mappings[c], m)]
      /\ stack' = [stack EXCEPT ![1].next = @ + 1]
  BY <1>1 DEF AddMapping, Mapped, CacheInv, TypeOK
<1>6. /\ mappings'[c] \in Seq(Mapping) /\ Len(mappings'[c]) = k /\ mappings'[c][k] = m
      /\ \A i \in 1..Len(mappings[c]) : mappings'[c][i] = mappings[c][i]
      /\ \A i \in 1..k : i = k \/ i \in 1..Len(mappings[c])
      /\ \A b \in Classes : b # c => mappings'[b] = mappings[b]
      /\ mappings' \in [Classes -> Seq(Mapping)]
  <2> DEFINE s == mappings[c]
             t == Append(s, m)
  <2>1. mappings \in [Classes -> Seq(Mapping)]
    BY DEF CacheInv, TypeOK
  <2>2. mappings'[c] = t /\ \A b \in Classes : b # c => mappings'[b] = mappings[b]
    BY <1>1, <1>5, <2>1
  <2>3. /\ t \in Seq(Mapping) /\ Len(t) = Len(s) + 1 /\ t[Len(s) + 1] = m
        /\ \A i \in 1..Len(s) : t[i] = s[i]
    <3> HIDE DEF s
    <3>1. s \in Seq(Mapping)
      BY <1>1 DEF s
    <3>2. QED
      BY <1>4, <3>1
  <2> HIDE DEF t
  <2>4. \A i \in 1..k : i = k \/ i \in 1..Len(mappings[c])
    BY <1>1
  <2>5. mappings' \in [Classes -> Seq(Mapping)]
    BY <1>5, <2>1, <2>3 DEF t
  <2>6. QED
    BY <1>1, <2>2, <2>3, <2>4, <2>5
<1>7. /\ stack' \in Seq(R) /\ Len(stack') = n
      /\ \A i \in 1..n : stack'[i].cls = stack[i].cls
      /\ stack'[1].next = k + 1
      /\ \A i \in 1..n : i # 1 => stack'[i].next = stack[i].next
  <2>1. stack \in Seq(R) /\ stack \in [1..n -> R]
    <3>1. stack \in Seq(R)
      BY DEF CacheInv, StackTyped
    <3> HIDE DEF R
    <3>2. QED
      BY <3>1
  <2>2. stack' = [stack EXCEPT ![1] = [stack[1] EXCEPT !.next = @ + 1]]
    BY <1>1, <1>5
  <2>3. [stack[1] EXCEPT !.next = @ + 1] \in R
    BY <1>1
  <2>4. \A i \in 1..n : stack[i] \in R
    BY <2>1
  <2>5. stack' \in [1..n -> R]
    <3> DEFINE f == [stack[1] EXCEPT !.next = @ + 1]
    <3> HIDE DEF f
    <3>1. QED
      BY <2>1, <2>2, <2>3, <2>4 DEF f
  <2>6. stack' \in Seq(R) /\ Len(stack') = n
    <3> HIDE DEF R, n
    <3>1. QED
      BY <1>1, <2>5
  <2>7. stack'[1].cls = stack[1].cls /\ stack'[1].next = stack[1].next + 1
    BY <1>1, <2>1, <2>2
  <2>8. \A i \in 1..n : i # 1 => stack'[i] = stack[i]
    BY <2>1, <2>2
  <2>9. QED
    BY <1>1, <2>6, <2>7, <2>8
<1> HIDE DEF R
<1>8. TypeOK'
  <2>1. \A i \in 1..Len(stack') : stack'[i] \in R
    BY <1>7
  <2>2. QED
    BY <1>6, <2>1 DEF CacheInv, TypeOK, R
<1>9. StackTyped'
  BY <1>7 DEF StackTyped, R
<1>10. OnStack'
  BY <1>7 DEF CacheInv, OnStack
<1>11. Progress'
  <2>1. \A i \in 1..Len(stack') : stack'[i].next = Len(mappings'[stack'[i].cls]) + 1
    <3>1. \A i \in 1..n : stack[i].next = Len(mappings[stack[i].cls]) + 1
      BY DEF CacheInv, Progress
    <3>2. \A i \in 1..n : i # 1 => stack[i].cls # c /\ stack[i].cls \in Classes
      BY <1>1 DEF CacheInv, OnStack, TypeOK
    <3>3. ASSUME NEW i \in 1..n, i # 1
          PROVE  stack'[i].next = Len(mappings'[stack'[i].cls]) + 1
      <4> DEFINE b == stack[i].cls
      <4>1. b \in Classes /\ b # c /\ stack'[i].cls = b
            /\ stack'[i].next = stack[i].next /\ stack[i].next = Len(mappings[b]) + 1
        BY <1>7, <3>1, <3>2, <3>3
      <4> HIDE DEF b
      <4>2. QED
        BY <1>6, <4>1
    <3>4. stack'[1].next = Len(mappings'[stack'[1].cls]) + 1
      BY <1>1, <1>6, <1>7
    <3>5. QED
      BY <1>7, <3>3, <3>4
  <2>2. ASSUME NEW b \in cached
        PROVE  /\ CanConstruct(b) /\ ~Refusable(b) /\ info[b] = ClassInfoOf(b)
               /\ Len(mappings'[b]) <= Len(Props(b))
               /\ \A i \in 1..Len(mappings'[b]) : MappedAt(b, i)'
    <3>1. /\ CanConstruct(b) /\ ~Refusable(b) /\ info[b] = ClassInfoOf(b)
          /\ Len(mappings[b]) <= Len(Props(b))
          /\ \A i \in 1..Len(mappings[b]) : MappedAt(b, i)
      BY DEF CacheInv, Progress
    <3>2. b \in Classes
      BY DEF CacheInv, TypeOK
    <3>3. CASE b # c
      <4>1. mappings'[b] = mappings[b]
        BY <1>6, <3>2, <3>3
      <4>2. \A i \in 1..Len(mappings[b]) : MappedAt(b, i)'
        BY <3>1, <4>1, MappedStill
      <4>3. QED
        BY <3>1, <4>1, <4>2
    <3>4. CASE b = c
      <4>1. Len(mappings'[b]) <= Len(Props(b))
        BY <1>3, <1>6, <3>4
      <4>2. \A i \in 1..Len(mappings[c]) : MappedAt(c, i)'
        BY <1>6, <3>1, <3>4, MappedStill
      <4>3. MappedAt(c, k)'
        <5>1. Props(c)' = Props(c) /\ Descriptor(c, p)' = Descriptor(c, p)
          BY DeclKept
        <5>2. (Props(c)[k])' = p
          BY <5>1
        <5>3. (mappings[c][k])' = m
          BY <1>6
        <5>4. (mappings[c][k])' = Descriptor(c, Props(c)[k])'
          BY <5>1, <5>2, <5>3
        <5>5. ~BadMapping(mappings[c][k], Props(c)[k])'
          BY <5>2, <5>3
        <5>6. QED
          BY <5>2, <5>4, <5>5 DEF MappedAt
      <4>4. QED
        BY <1>6, <3>1, <3>4, <4>1, <4>2, <4>3
    <3>5. QED
      BY <3>3, <3>4
  <2>3. \A b \in cached : /\ CanConstruct(b)' /\ ~Refusable(b)' /\ info[b] = ClassInfoOf(b)'
                          /\ Len(mappings'[b]) <= Len(Props(b)')
    BY <2>2, DeclKept
  <2>4. /\ \A b \in Classes \ cached : mappings'[b] = <<>>
        /\ \A b \in constructed : Len(mappings'[b]) = Len(Props(b)')
    <3>1. \A b \in Classes \ cached : mappings'[b] = <<>>
      BY <1>1, <1>6 DEF CacheInv, Progress
    <3>2. ASSUME NEW b \in constructed PROVE Len(mappings'[b]) = Len(Props(b)')
      <4>1. b \in Classes /\ b # c
        BY <1>1 DEF CacheInv, TypeOK
      <4>2. Len(mappings[b]) = Len(Props(b)) /\ Props(b)' = Props(b)
        BY DeclKept DEF CacheInv, Progress
      <4>3. QED
        BY <1>6, <4>1, <4>2
    <3>3. QED
      BY <3>1, <3>2
  <2>5. QED
    BY <2>1, <2>2, <2>3, <2>4 DEF Progress
<1>12. Validated'
  <2>1. Len(stack') # 0
    BY <1>1, <1>7
  <2>2. stack' # <<>>
    BY <2>1
  <2>3. \A b : BreaksRule(b)' <=> BreaksRule(b)
    BY DeclKept
  <2>4. QED
    BY <2>2, <2>3 DEF CacheInv, Validated
<1>13. QED
  BY <1>2, <1>8, <1>9, <1>10, <1>11, <1>12 DEF CacheInv

LEMMA MapPropertyKeeps ==
    ASSUME CacheInv, MapProperty
    PROVE  CacheInv'
<1>1. stack # <<>> /\ ~dead /\ Top.next <= Len(Props(Top.cls))
  BY DEF MapProperty
<1>2. PICK c \in {Top.cls}, p \in {Props(Top.cls)[Top.next]} :
         \E m \in {Descriptor(c, p)} :
          \/ /\ p.type \in {"pointer", "list"} /\ p.target \notin cached
             /\ Initialize(p.target)
          \/ /\ p.type \in {"value", "enum"} \/ p.target \in cached
             /\ IF BadMapping(m, p) THEN Die
                ELSE /\ AddMapping(c, m)
                     /\ UNCHANGED <<decl, text, cached, info, under, constructed, dead, handed>>
  BY DEF MapProperty
<1>3. PICK m \in {Descriptor(c, p)} :
          \/ /\ p.type \in {"pointer", "list"} /\ p.target \notin cached
             /\ Initialize(p.target)
          \/ /\ p.type \in {"value", "enum"} \/ p.target \in cached
             /\ IF BadMapping(m, p) THEN Die
                ELSE /\ AddMapping(c, m)
                     /\ UNCHANGED <<decl, text, cached, info, under, constructed, dead, handed>>
  BY <1>2
<1>4. PICK k : k = Top.next
  OBVIOUS
<1>5. c = Top.cls /\ p = Props(c)[k] /\ m = Descriptor(c, p) /\ k <= Len(Props(c))
  BY <1>1, <1>4
<1>6. WrittenText /\ c \in Classes /\ CanConstruct(c) /\ ~Refusable(c)
  BY <1>1, <1>5, AtTop DEF CacheInv
<1>7. p \in PropertiesOf(c)
  <2>1. k \in Nat /\ k >= 1 /\ Len(Props(c)) \in Nat
    BY <1>1, <1>4, <1>5, <1>6, AtTop, DeclTyped DEF Props
  <2>2. k \in 1..Len(Props(c))
    BY <1>5, <2>1
  <2>3. QED
    BY <1>5, <2>2 DEF PropertiesOf, Props
<1>8. /\ p.type \in {"value", "enum", "pointer", "list"}
      /\ IsReference(p) => p.target \in Classes
  BY <1>6, <1>7, PropertyTyped
<1>9. CASE p.type \in {"pointer", "list"} /\ p.target \notin cached /\ Initialize(p.target)
  <2>1. p.target \in Classes \ cached
    BY <1>8, <1>9 DEF IsReference
  <2>2. QED
    BY <1>9, <2>1, InitializeKeeps
<1>10. CASE BadMapping(m, p) /\ Die
  <2>1. BadProperty(c, p)
    BY <1>5, <1>6, <1>7, <1>10, BadMappingRead
  <2>2. BreaksRule(c)
    BY <1>7, <2>1, Rules
  <2>3. QED
    BY <1>6, <1>10, <2>2, DieKeeps
<1>11. CASE /\ p.type \in {"value", "enum"} \/ p.target \in cached
            /\ ~BadMapping(m, p) /\ AddMapping(c, m)
            /\ UNCHANGED <<decl, text, cached, info, under, constructed, dead, handed>>
  <2>1. IsReference(p) => p.target \in cached
    BY <1>11 DEF IsReference
  <2>2. QED
    BY <1>1, <1>4, <1>5, <1>11, <2>1, AddKeeps
<1>12. QED
  BY <1>3, <1>9, <1>10, <1>11

LEMMA FinishKeeps ==
    ASSUME CacheInv, Finish
    PROVE  CacheInv'
<1>1. PICK c : c = Top.cls
  OBVIOUS
<1> DEFINE open == under \ {c}
           done == constructed \cup {c}
           R == [cls : Classes, next : Nat]
           n == Len(stack)
<1>2. /\ stack # <<>> /\ ~dead /\ Top.next > Len(Props(c))
      /\ under' = open /\ constructed' = done /\ stack' = Tail(stack)
      /\ dead' = Refused(open, done)
      /\ handed' = IF n = 1 /\ ~Refused(open, done) THEN handed \cup {c} ELSE handed
      /\ decl' = decl /\ text' = text /\ cached' = cached /\ mappings' = mappings
      /\ info' = info
  BY <1>1 DEF Finish
<1>3. /\ n \in Nat /\ 1 \in 1..n /\ Top = stack[1]
      /\ c \in Classes /\ c \in under /\ c \in cached /\ c \notin constructed
      /\ Len(mappings[c]) \in Nat /\ Top.next = Len(mappings[c]) + 1
      /\ Len(mappings[c]) <= Len(Props(c))
  BY <1>1, <1>2, AtTop
<1>4. WrittenText /\ WrittenText'
  BY <1>2, DeclKept DEF CacheInv
<1>5. Len(mappings[c]) = Len(Props(c))
  <2>1. Len(Props(c)) \in Nat
    BY <1>3, <1>4, DeclTyped DEF Props
  <2>2. QED
    BY <1>2, <1>3, <2>1
<1>6. /\ stack' \in Seq(R) /\ Len(stack') = n - 1
      /\ \A i \in 1..n - 1 : stack'[i] = stack[i + 1]
  <2>1. stack \in Seq(R)
    BY DEF CacheInv, StackTyped
  <2> HIDE DEF R
  <2>2. QED
    BY <1>2, <2>1
<1> HIDE DEF R
<1>7. /\ under = {stack[i].cls : i \in 1..n}
      /\ \A i, j \in 1..n : i # j => stack[i].cls # stack[j].cls
      /\ under \cap constructed = {} /\ cached = under \cup constructed
  BY DEF CacheInv, OnStack
<1>8. OnStack'
  <2>1. \A i \in 1..n - 1 : i + 1 \in 1..n /\ stack'[i] = stack[i + 1]
    BY <1>3, <1>6
  <2>2. stack[1].cls = c
    BY <1>1, <1>3
  <2>3. under' = {stack'[i].cls : i \in 1..Len(stack')}
    <3>1. ASSUME NEW i \in 1..n - 1 PROVE stack'[i].cls \in under'
      <4>1. i + 1 \in 1..n /\ i + 1 # 1 /\ stack'[i].cls = stack[i + 1].cls
        BY <2>1
      <4>2. stack[i + 1].cls \in under /\ stack[i + 1].cls # c
        BY <1>3, <1>7, <2>2, <4>1
      <4>3. QED
        BY <1>2, <4>1, <4>2
    <3>2. ASSUME NEW b \in under' PROVE \E i \in 1..n - 1 : b = stack'[i].cls
      <4>1. b \in under /\ b # c
        BY <1>2
      <4>2. PICK i \in 1..n : b = stack[i].cls
        BY <1>7, <4>1
      <4>3. i - 1 \in 1..n - 1 /\ (i - 1) + 1 = i
        BY <1>3, <2>2, <4>1, <4>2
      <4>4. QED
        BY <2>1, <4>2, <4>3
    <3>3. under' = {stack'[i].cls : i \in 1..n - 1}
      BY <3>1, <3>2
    <3>4. QED
      BY <1>6, <3>3
  <2>4. ASSUME NEW i \in 1..n - 1, NEW j \in 1..n - 1, i # j
        PROVE  stack'[i].cls # stack'[j].cls
    <3>1. /\ i + 1 \in 1..n /\ j + 1 \in 1..n /\ i + 1 # j + 1
          /\ stack'[i] = stack[i + 1] /\ stack'[j] = stack[j + 1]
      BY <2>1, <2>4
    <3>2. QED
      BY <1>7, <3>1
  <2>5. \A i, j \in 1..Len(stack') : i # j => stack'[i].cls # stack'[j].cls
    BY <1>6, <2>4
  <2>6. under' \cap constructed' = {} /\ cached' = under' \cup constructed'
    BY <1>2, <1>3, <1>7
  <2>7. QED
    BY <2>3, <2>5, <2>6 DEF OnStack
<1>9. TypeOK' /\ StackTyped'
  <2>1. \A i \in 1..Len(stack') : stack'[i] \in R
    BY <1>6
  <2>2. dead' \in BOOLEAN
    BY <1>2 DEF Refused
  <2>3. QED
    BY <1>2, <1>3, <1>6, <2>1, <2>2 DEF CacheInv, TypeOK, StackTyped, R
<1>10. Progress'
  <2>1. \A i \in 1..Len(stack') : stack'[i].next = Len(mappings[stack'[i].cls]) + 1
    <3>1. \A i \in 1..n : stack[i].next = Len(mappings[stack[i].cls]) + 1
      BY DEF CacheInv, Progress
    <3>2. ASSUME NEW i \in 1..n - 1
          PROVE  stack'[i].next = Len(mappings[stack'[i].cls]) + 1
      <4>1. i + 1 \in 1..n /\ stack'[i] = stack[i + 1]
        BY <1>3, <1>6
      <4>2. QED
        BY <3>1, <4>1
    <3>3. QED
      BY <1>6, <3>2
  <2>2. \A b \in cached : /\ CanConstruct(b) /\ ~Refusable(b) /\ info[b] = ClassInfoOf(b)
                          /\ Len(mappings[b]) <= Len(Props(b))
                          /\ \A i \in 1..Len(mappings[b]) : MappedAt(b, i)
    BY DEF CacheInv, Progress
  <2>3. \A b \in cached : \A i \in 1..Len(mappings[b]) : MappedAt(b, i)'
    BY <1>2, <2>2, MappedStill
  <2>4. \A b \in cached : /\ CanConstruct(b)' /\ ~Refusable(b)' /\ info[b] = ClassInfoOf(b)'
                          /\ Len(mappings[b]) <= Len(Props(b)')
    BY <1>2, <2>2, DeclKept
  <2>5. \A b \in Classes \ cached : mappings[b] = <<>>
    BY DEF CacheInv, Progress
  <2>6. \A b \in done : Len(mappings[b]) = Len(Props(b)')
    <3>1. \A b \in done : Len(mappings[b]) = Len(Props(b))
      BY <1>5 DEF CacheInv, Progress
    <3>2. \A b : Props(b)' = Props(b)
      BY <1>2, DeclKept
    <3>3. QED
      BY <3>1, <3>2
  <2>7. QED
    BY <1>2, <2>1, <2>3, <2>4, <2>5, <2>6 DEF Progress
<1>11. Validated'
  <2>1. handed' \subseteq constructed'
    BY <1>2 DEF CacheInv, Validated
  <2>2. ASSUME open = {} PROVE Complete(done)
    <3>1. done = cached
      BY <1>3, <1>7, <2>2
    <3>2. \A b \in cached : /\ CanConstruct(b) /\ ~Refusable(b)
                            /\ \A i \in 1..Len(mappings[b]) : MappedAt(b, i)
      BY DEF CacheInv, Progress
    <3>3. \A b \in done : Len(mappings[b]) = Len(Props(b))
      BY <1>5 DEF CacheInv, Progress
    <3>4. done \subseteq Classes
      BY <1>3 DEF CacheInv, TypeOK
    <3>5. QED
      BY <3>1, <3>2, <3>3, <3>4 DEF Complete, MappedAt
  <2>3. ASSUME stack' = <<>>, ~dead' PROVE CrossReferencesValid(constructed)'
    <3>1. open = {}
      <4>1. 1..Len(stack') = {}
        BY <2>3
      <4>2. under' = {stack'[i].cls : i \in 1..Len(stack')}
        BY <1>8 DEF OnStack
      <4>3. QED
        BY <1>2, <4>1, <4>2
    <3>2. CrossReferencesValid(done)
      BY <1>2, <2>3, <3>1 DEF Refused
    <3>3. \A b, m : ValidReference(b, m)' <=> ValidReference(b, m)
      BY <1>2 DEF ValidReference, MappingsOf
    <3>4. \A b : MappingsOf(b)' = MappingsOf(b)
      BY <1>2 DEF MappingsOf
    <3>5. QED
      BY <1>2, <3>2, <3>3, <3>4 DEF CrossReferencesValid
  <2>4. ASSUME dead' PROVE \E b \in Classes : BreaksRule(b)'
    <3>1. open = {} /\ ~CrossReferencesValid(done)
      BY <1>2, <2>4 DEF Refused
    <3>2. PICK b \in done : BreaksRule(b)
      BY <1>4, <2>2, <3>1, Validates
    <3>3. b \in Classes
      BY <1>3 DEF CacheInv, TypeOK
    <3>4. BreaksRule(b)'
      BY <1>2, <3>2, DeclKept
    <3>5. QED
      BY <3>3, <3>4
  <2>5. QED
    BY <2>1, <2>3, <2>4 DEF Validated
<1>12. QED
  BY <1>4, <1>8, <1>9, <1>10, <1>11 DEF CacheInv

LEMMA GetKeeps ==
    ASSUME CacheInv, NEW c \in Classes, Get(c)
    PROVE  CacheInv'
<1>1. stack = <<>> /\ ~dead
  BY DEF Get
<1>2. CASE c \notin cached
  <2>1. Initialize(c)
    BY <1>2 DEF Get
  <2>2. QED
    BY <1>2, <2>1, InitializeKeeps
<1>3. CASE c \in cached
  <2>1. /\ handed' = handed \cup {c} /\ decl' = decl /\ text' = text /\ cached' = cached
        /\ mappings' = mappings /\ info' = info /\ under' = under
        /\ constructed' = constructed /\ stack' = stack /\ dead' = dead
    BY <1>3 DEF Get
  <2>2. TypeOK' /\ StackTyped' /\ OnStack'
    BY <2>1 DEF CacheInv, TypeOK, StackTyped, OnStack
  <2>3. WrittenText'
    BY <2>1, DeclKept DEF CacheInv
  <2>4. Progress'
    <3>1. \A i \in 1..Len(stack) : stack[i].next = Len(mappings[stack[i].cls]) + 1
      BY DEF CacheInv, Progress
    <3>2. \A b \in cached : /\ CanConstruct(b) /\ ~Refusable(b) /\ info[b] = ClassInfoOf(b)
                            /\ Len(mappings[b]) <= Len(Props(b))
                            /\ \A i \in 1..Len(mappings[b]) : MappedAt(b, i)
      BY DEF CacheInv, Progress
    <3>3. \A b \in cached : \A i \in 1..Len(mappings[b]) : MappedAt(b, i)'
      BY <2>1, <3>2, MappedStill
    <3>4. \A b \in cached : /\ CanConstruct(b)' /\ ~Refusable(b)' /\ info[b] = ClassInfoOf(b)'
                            /\ Len(mappings[b]) <= Len(Props(b)')
      BY <2>1, <3>2, DeclKept
    <3>5. /\ \A b \in Classes \ cached : mappings[b] = <<>>
          /\ \A b \in constructed : Len(mappings[b]) = Len(Props(b)')
      BY <2>1, DeclKept DEF CacheInv, Progress
    <3>6. QED
      BY <2>1, <3>1, <3>3, <3>4, <3>5 DEF Progress
  <2>5. Validated'
    <3>1. c \in constructed
      <4>1. 1..Len(stack) = {}
        BY <1>1
      <4>2. under = {}
        BY <4>1 DEF CacheInv, OnStack
      <4>3. QED
        BY <1>3, <4>2 DEF CacheInv, OnStack
    <3>2. CrossReferencesValid(constructed)
      BY <1>1 DEF CacheInv, Validated
    <3>3. CrossReferencesValid(constructed)'
      <4>1. \A b, m : ValidReference(b, m)' <=> ValidReference(b, m)
        BY <2>1 DEF ValidReference, MappingsOf
      <4>2. \A b : MappingsOf(b)' = MappingsOf(b)
        BY <2>1 DEF MappingsOf
      <4>3. QED
        BY <2>1, <3>2, <4>1, <4>2 DEF CrossReferencesValid
    <3>4. QED
      BY <1>1, <2>1, <3>1, <3>3 DEF CacheInv, Validated
  <2>6. QED
    BY <2>2, <2>3, <2>4, <2>5 DEF CacheInv
<1>4. QED
  BY <1>2, <1>3

LEMMA StutterKeeps ==
    ASSUME CacheInv, UNCHANGED vars
    PROVE  CacheInv'
<1>1. /\ handed' = handed /\ decl' = decl /\ text' = text /\ cached' = cached
      /\ mappings' = mappings /\ info' = info /\ under' = under
      /\ constructed' = constructed /\ stack' = stack /\ dead' = dead
  BY DEF vars
<1>2. TypeOK' /\ StackTyped' /\ OnStack'
  BY <1>1 DEF CacheInv, TypeOK, StackTyped, OnStack
<1>3. WrittenText'
  BY <1>1, DeclKept DEF CacheInv
<1>4. Progress'
  <2>1. \A i \in 1..Len(stack) : stack[i].next = Len(mappings[stack[i].cls]) + 1
    BY DEF CacheInv, Progress
  <2>2. \A b \in cached : /\ CanConstruct(b) /\ ~Refusable(b) /\ info[b] = ClassInfoOf(b)
                          /\ Len(mappings[b]) <= Len(Props(b))
                          /\ \A i \in 1..Len(mappings[b]) : MappedAt(b, i)
    BY DEF CacheInv, Progress
  <2>3. \A b \in cached : \A i \in 1..Len(mappings[b]) : MappedAt(b, i)'
    BY <1>1, <2>2, MappedStill
  <2>4. \A b \in cached : /\ CanConstruct(b)' /\ ~Refusable(b)' /\ info[b] = ClassInfoOf(b)'
                          /\ Len(mappings[b]) <= Len(Props(b)')
    BY <1>1, <2>2, DeclKept
  <2>5. /\ \A b \in Classes \ cached : mappings[b] = <<>>
        /\ \A b \in constructed : Len(mappings[b]) = Len(Props(b)')
    BY <1>1, DeclKept DEF CacheInv, Progress
  <2>6. QED
    BY <1>1, <2>1, <2>3, <2>4, <2>5 DEF Progress
<1>5. Validated'
  <2>1. \A b, m : ValidReference(b, m)' <=> ValidReference(b, m)
    BY <1>1 DEF ValidReference, MappingsOf
  <2>2. \A b : MappingsOf(b)' = MappingsOf(b)
    BY <1>1 DEF MappingsOf
  <2>3. CrossReferencesValid(constructed)' <=> CrossReferencesValid(constructed)
    BY <1>1, <2>1, <2>2 DEF CrossReferencesValid
  <2>4. \A b : BreaksRule(b)' <=> BreaksRule(b)
    BY <1>1, DeclKept
  <2>5. QED
    BY <1>1, <2>3, <2>4 DEF CacheInv, Validated
<1>6. QED
  BY <1>2, <1>3, <1>4, <1>5 DEF CacheInv

LEMMA AtInit ==
    ASSUME Init
    PROVE  CacheInv
<1>1. WrittenText
  BY ProgramsAssumption DEF Init, WrittenText
<1>2. text \in [Classes -> Seq(Seq(Words \cup Keywords))]
  <2>1. ASSUME NEW c \in Classes
        PROVE  [i \in 1..Len(decl[c].entries) |-> Written(decl[c].entries[i])]
                   \in Seq(Seq(Words \cup Keywords))
    <3> DEFINE n == Len(decl[c].entries)
               T == Seq(Words \cup Keywords)
    <3>1. n \in Nat
      BY <1>1, DeclTyped
    <3>2. \A i \in 1..n : Written(decl[c].entries[i]) \in T
      <4>1. \A i \in 1..n : decl[c].entries[i] \in Entry
        BY <1>1, DeclTyped
      <4>2. \A e \in Entry : Written(e) \in T
        BY Layout DEF Laid, Token
      <4>3. QED
        BY <4>1, <4>2
    <3> HIDE DEF n, T
    <3>3. [i \in 1..n |-> Written(decl[c].entries[i])] \in Seq(T)
      BY <3>1, <3>2
    <3>4. QED
      BY <3>3 DEF n, T
  <2>2. QED
    BY <2>1 DEF Init
<1>3. TypeOK
  <2>1. decl \in [Classes -> Declaration]
    BY <1>1 DEF WrittenText
  <2>2. mappings \in [Classes -> Seq(Mapping)] /\ info \in [Classes -> ClassInfo]
    <3>1. <<>> \in Seq(Mapping) /\ <<>> \in Seq(Words)
      OBVIOUS
    <3>2. [table |-> <<>>, schema |-> <<>>] \in ClassInfo
      BY <3>1 DEF ClassInfo
    <3>3. QED
      BY <3>1, <3>2 DEF Init
  <2>3. /\ cached = {} /\ handed = {} /\ under = {} /\ constructed = {} /\ dead = FALSE
        /\ 1..Len(stack) = {}
    BY DEF Init
  <2>4. QED
    BY <1>2, <2>1, <2>2, <2>3 DEF TypeOK
<1>4. StackTyped /\ OnStack
  <2>1. stack = <<>> /\ Len(stack) = 0 /\ 1..Len(stack) = {}
    BY DEF Init
  <2>2. QED
    BY <2>1 DEF Init, StackTyped, OnStack
<1>5. Progress /\ Validated
  <2>1. /\ stack = <<>> /\ 1..Len(stack) = {} /\ cached = {} /\ constructed = {}
        /\ handed = {} /\ ~dead /\ \A c \in Classes : mappings[c] = <<>>
    BY DEF Init
  <2>2. CrossReferencesValid(constructed)
    BY <2>1 DEF CrossReferencesValid
  <2>3. QED
    BY <2>1, <2>2 DEF Progress, Validated
<1>6. QED
  BY <1>1, <1>3, <1>4, <1>5 DEF CacheInv

LEMMA Inductive == Spec => []CacheInv
<1>1. ASSUME CacheInv, [Next]_vars PROVE CacheInv'
  <2>1. CASE \E c \in Classes : Get(c)
    BY <1>1, <2>1, GetKeeps
  <2>2. CASE MapProperty
    BY <1>1, <2>2, MapPropertyKeeps
  <2>3. CASE Finish
    BY <1>1, <2>3, FinishKeeps
  <2>4. CASE UNCHANGED vars
    BY <1>1, <2>4, StutterKeeps
  <2>5. QED
    BY <1>1, <2>1, <2>2, <2>3, <2>4 DEF Next, Step
<1>2. QED
  BY <1>1, AtInit, PTL DEF Spec

-----------------------------------------------------------------------------
(* What the invariant says of the classes that are handed out.               *)

LEMMA InvHandsOut ==
    ASSUME CacheInv
    PROVE  HandedOutConsistent
<1> SUFFICES ASSUME stack = <<>>, ~dead
             PROVE  \A c \in Reachable(handed) :
                        /\ c \in constructed /\ Len(mappings[c]) = Len(decl[c].props)
                        /\ ~BreaksRule(c)
  BY DEF HandedOutConsistent
<1>1. WrittenText /\ constructed \subseteq Classes /\ handed \subseteq constructed
  BY DEF CacheInv, TypeOK, Validated
<1>2. cached = constructed
  <2>1. 1..Len(stack) = {}
    OBVIOUS
  <2>2. under = {}
    BY <2>1 DEF CacheInv, OnStack
  <2>3. QED
    BY <2>2 DEF CacheInv, OnStack
<1>3. Complete(constructed)
  <2>1. \A b \in cached : /\ CanConstruct(b) /\ ~Refusable(b)
                          /\ \A i \in 1..Len(mappings[b]) : MappedAt(b, i)
    BY DEF CacheInv, Progress
  <2>2. \A b \in constructed : Len(mappings[b]) = Len(Props(b))
    BY DEF CacheInv, Progress
  <2>3. QED
    BY <1>1, <1>2, <2>1, <2>2 DEF Complete, MappedAt
<1>4. \A c \in constructed : ~BreaksRule(c)
  BY <1>1, <1>3, Validates DEF CacheInv, Validated
<1>5. \A c \in constructed : \A p \in PropertiesOf(c) : IsReference(p) => p.target \in constructed
  <2> SUFFICES ASSUME NEW c \in constructed, NEW p \in PropertiesOf(c), IsReference(p)
               PROVE  p.target \in constructed
    OBVIOUS
  <2>1. PICK i \in 1..Len(Props(c)) : p = Props(c)[i]
    BY DEF PropertiesOf, Props
  <2>2. QED
    BY <1>3, <2>1 DEF Complete
<1>6. Reachable(handed) \subseteq constructed
  BY <1>1, <1>5, ReachableWithin
<1>7. \A c \in constructed : Len(mappings[c]) = Len(decl[c].props)
  BY <1>3 DEF Complete, Props
<1>8. QED
  BY <1>4, <1>6, <1>7

LEMMA InvMapsAsDeclared ==
    ASSUME CacheInv
    PROVE  MappedAsDeclared
<1> SUFFICES ASSUME NEW c \in cached
             PROVE  /\ (IF info[c].table = <<>> THEN {} ELSE {info[c].table})
                           = Said(c, "class", <<>>, "TABLE")
                    /\ (IF info[c].schema = <<>> THEN {} ELSE {info[c].schema})
                           = Said(c, "class", <<>>, "SCHEMA")
                    /\ \A i \in 1..Len(mappings[c]) :
                          LET p == decl[c].props[i]
                              m == mappings[c][i]
                              said(key) == Said(c, "property", <<p.name>>, key)
                          IN  /\ m.name = p.name
                              /\ IsStored(c, p) /\ said("COLUMN") # {} => {m.column} = said("COLUMN")
                              /\ m.transient = ~IsStored(c, p)
                              /\ m.objectId = IsObjectId(c, p)
                              /\ m.autogenerated = IsSet(c, p, "AUTOGENERATED", p.name = Id)
                              /\ m.notNull = IsSet(c, p, "NOT_NULL", FALSE)
                              /\ m.foreignKey = IsSet(c, p, "FOREIGN_KEY", FALSE)
                              /\ (IF m.unique = NoGroup THEN {} ELSE {m.unique}) = said("UNIQUE")
                              /\ m.ref # NoClass => m.ref = p.target /\ m.ref \in cached
  BY DEF MappedAsDeclared
<1>1. c \in Classes /\ WrittenText /\ NoClass \notin Classes
  BY ProgramsAssumption DEF CacheInv, TypeOK
<1>2. /\ ~Refusable(c) /\ info[c] = ClassInfoOf(c) /\ Len(mappings[c]) <= Len(Props(c))
      /\ \A i \in 1..Len(mappings[c]) : MappedAt(c, i)
  BY DEF CacheInv, Progress
<1>3. /\ (IF info[c].table = <<>> THEN {} ELSE {info[c].table}) = Said(c, "class", <<>>, "TABLE")
      /\ (IF info[c].schema = <<>> THEN {} ELSE {info[c].schema}) = Said(c, "class", <<>>, "SCHEMA")
  BY <1>1, <1>2, InfoSays
<1>4. ASSUME NEW i \in 1..Len(mappings[c]), NEW p, p = decl[c].props[i],
             NEW m, m = mappings[c][i]
      PROVE  /\ m.name = p.name
             /\ IsStored(c, p) /\ Said(c, "property", <<p.name>>, "COLUMN") # {}
                    => {m.column} = Said(c, "property", <<p.name>>, "COLUMN")
             /\ m.transient = ~IsStored(c, p)
             /\ m.objectId = IsObjectId(c, p)
             /\ m.autogenerated = IsSet(c, p, "AUTOGENERATED", p.name = Id)
             /\ m.notNull = IsSet(c, p, "NOT_NULL", FALSE)
             /\ m.foreignKey = IsSet(c, p, "FOREIGN_KEY", FALSE)
             /\ (IF m.unique = NoGroup THEN {} ELSE {m.unique})
                    = Said(c, "property", <<p.name>>, "UNIQUE")
             /\ m.ref # NoClass => m.ref = p.target /\ m.ref \in cached
  <2>1. m = Descriptor(c, p) /\ (IsReference(p) => p.target \in cached)
    BY <1>2, <1>4 DEF MappedAt, Props
  <2>2. p \in PropertiesOf(c)
    <3>1. Len(mappings[c]) \in Nat /\ Len(decl[c].props) \in Nat
          /\ Len(mappings[c]) <= Len(decl[c].props)
      BY <1>1, <1>2, DeclTyped DEF CacheInv, TypeOK, Props
    <3>2. i \in 1..Len(decl[c].props)
      BY <3>1
    <3>3. QED
      BY <1>4, <3>2 DEF PropertiesOf
  <2>3. m.ref = IF IsReference(p) THEN p.target ELSE NoClass
    BY <1>1, <1>2, <2>1, <2>2, DescriptorSays
  <2>4. m.ref # NoClass => m.ref = p.target /\ m.ref \in cached
    BY <2>1, <2>3
  <2>5. ~Refusable(c) /\ WrittenText /\ c \in Classes
    BY <1>1, <1>2
  <2>6. /\ m.name = p.name
        /\ IsStored(c, p) /\ Said(c, "property", <<p.name>>, "COLUMN") # {}
               => {m.column} = Said(c, "property", <<p.name>>, "COLUMN")
        /\ (IF m.unique = NoGroup THEN {} ELSE {m.unique})
               = Said(c, "property", <<p.name>>, "UNIQUE")
    BY <2>1, <2>2, <2>5, DescriptorSays, ZenonT(40)
  <2>7. m.transient = ~IsStored(c, p) /\ m.objectId = IsObjectId(c, p)
    BY <2>1, <2>2, <2>5, DescriptorSays
  <2>8. m.autogenerated = IsSet(c, p, "AUTOGENERATED", p.name = Id)
    BY <2>1, <2>2, <2>5, DescriptorSays
  <2>9. m.notNull = IsSet(c, p, "NOT_NULL", FALSE) /\ m.foreignKey = IsSet(c, p, "FOREIGN_KEY", FALSE)
    BY <2>1, <2>2, <2>5, DescriptorSays
  <2>10. QED
    BY <2>4, <2>6, <2>7, <2>8, <2>9, Zenon
<1>5. QED
  BY <1>3, <1>4

\* The metadata cache keeps its types.
THEOREM TypesKept == Spec => []TypeOK
<1>1. CacheInv => TypeOK
  BY DEF CacheInv
<1>2. QED
  BY <1>1, Inductive, PTL

\* Every class that can be reached from those a client was given is completely
\* mapped, means what the program declares and keeps the rules
\* (qormmetadatacache.cpp:405-560).
THEOREM HandsOutAsDeclared == Spec => []HandedOutAsDeclared
<1>1. CacheInv => HandedOutAsDeclared
  BY InvHandsOut, InvMapsAsDeclared DEF HandedOutAsDeclared
<1>2. QED
  BY <1>1, Inductive, PTL

\* The process is ended only over a program that breaks a rule, never because a
\* class is validated before what it references has been mapped.
THEOREM DeathHasReason == Spec => []DiesForAReason
<1>1. CacheInv => DiesForAReason
  BY DEF CacheInv, Validated, DiesForAReason
<1>2. QED
  BY <1>1, Inductive, PTL
=============================================================================
