------------------------- MODULE EntityLoaderProofs -------------------------
(***************************************************************************)
(* Theorems about EntityLoader: for any classes, tables, orders of         *)
(* properties and histories of changes, failures and rollbacks, reading    *)
(* makes of the rows the graph of instances that they describe.            *)
(*                                                                         *)
(* The predicates take what they are about as parameters, the program w    *)
(* (classes and tables), the cache c, the instances j and the stack s, so  *)
(* that a step is a change of the arguments.                               *)
(***************************************************************************)
EXTENDS EntityLoader, FiniteSetTheorems, FunctionTheorems, TLAPS

-----------------------------------------------------------------------------
(* Rows: for any finite set of rows with different ids, a query returns    *)
(* each of them once, and the CHOOSE of Ordered has a value.               *)

StrictOrder(R, S) ==
    /\ \A x \in S : <<x, x>> \notin R
    /\ \A x, y \in S : x # y => <<x, y>> \in R \/ <<y, x>> \in R
    /\ \A x, y, z \in S : <<x, y>> \in R /\ <<y, z>> \in R => <<x, z>> \in R

LEMMA SortedExists ==
    ASSUME NEW S, IsFiniteSet(S), NEW R, StrictOrder(R, S)
    PROVE  \E s \in [1..Cardinality(S) -> S] :
               /\ \A j, k \in 1..Cardinality(S) : j < k => <<s[j], s[k]>> \in R
               /\ \A x \in S : \E j \in 1..Cardinality(S) : s[j] = x
<1> DEFINE N == Cardinality(S)
           Upto(x) == {y \in S : y = x \/ <<y, x>> \in R}
           pos == [x \in S |-> Cardinality(Upto(x))]
<1>1. N \in Nat
  BY FS_CardinalityType
<1>2. ASSUME NEW x \in S
      PROVE  IsFiniteSet(Upto(x)) /\ Cardinality(Upto(x)) \in 1..N
  <2>1. Upto(x) \in SUBSET S /\ x \in Upto(x)
    OBVIOUS
  <2>2. IsFiniteSet(Upto(x)) /\ Cardinality(Upto(x)) <= N
    BY <2>1, FS_Subset
  <2>3. Cardinality(Upto(x)) \in Nat /\ Cardinality(Upto(x)) # 0
    BY <2>1, <2>2, FS_CardinalityType, FS_EmptySet
  <2>4. QED
    BY <1>1, <2>2, <2>3
<1>3. ASSUME NEW x \in S, NEW y \in S, <<x, y>> \in R
      PROVE  pos[x] < pos[y]
  <2>1. Upto(x) \in SUBSET Upto(y) /\ y \in Upto(y) /\ y \notin Upto(x)
    BY <1>3 DEF StrictOrder
  <2>2. /\ Cardinality(Upto(x)) <= Cardinality(Upto(y))
        /\ Cardinality(Upto(x)) # Cardinality(Upto(y))
    BY <2>1, <1>2, FS_Subset
  <2> HIDE DEF Upto
  <2>3. Cardinality(Upto(x)) \in Nat /\ Cardinality(Upto(y)) \in Nat
    BY <1>1, <1>2
  <2>4. QED
    BY <2>2, <2>3
<1> HIDE DEF Upto
<1>4. pos \in [S -> 1..N]
  BY <1>2
<1>5. \A x, y \in S : x # y => pos[x] # pos[y]
  <2> HIDE DEF pos
  <2> SUFFICES ASSUME NEW x \in S, NEW y \in S, x # y
               PROVE  pos[x] # pos[y]
    OBVIOUS
  <2>1. pos[x] \in Int /\ pos[y] \in Int
    BY <1>1, <1>4
  <2>2. <<x, y>> \in R \/ <<y, x>> \in R
    BY DEF StrictOrder
  <2>3. QED
    BY <1>3, <2>1, <2>2
<1> HIDE DEF pos
<1>6. pos \in Injection(S, 1..N)
  BY <1>4, <1>5 DEF Injection, IsInjective
<1>7. IsFiniteSet(1..N) /\ Cardinality(1..N) = N
  <2> HIDE DEF N
  <2>1. 1 \in Int /\ N \in Int
    BY <1>1
  <2>2. /\ IsFiniteSet(1..N)
        /\ Cardinality(1..N) = IF 1 > N THEN 0 ELSE N - 1 + 1
    BY <2>1, FS_Interval
  <2>3. QED
    BY <1>1, <2>2
<1>8. pos \in Surjection(S, 1..N)
  <2>1. Cardinality(S) = Cardinality(1..N) <=> pos \in Surjection(S, 1..N)
    BY <1>6, <1>7, FS_Injection
  <2>2. QED
    BY <1>7, <2>1
<1> HIDE DEF N
<1>9. \A j \in 1..N : \E x \in S : pos[x] = j
  BY <1>8 DEF Surjection
<1> DEFINE s == [j \in 1..N |-> CHOOSE x \in S : pos[x] = j]
<1>10. \A j \in 1..N : s[j] \in S /\ pos[s[j]] = j
  BY <1>9
<1>11. s \in [1..N -> S]
  BY <1>10
<1> HIDE DEF s
<1>12. \A j, k \in 1..N : j < k => <<s[j], s[k]>> \in R
  <2> SUFFICES ASSUME NEW j \in 1..N, NEW k \in 1..N, j < k
               PROVE  <<s[j], s[k]>> \in R
    OBVIOUS
  <2>1. s[j] \in S /\ s[k] \in S /\ pos[s[j]] = j /\ pos[s[k]] = k
    BY <1>10
  <2>2. j \in Nat /\ k \in Nat /\ j # k /\ ~ (k < j)
    BY <1>1
  <2>3. s[j] # s[k]
    BY <2>1, <2>2
  <2>4. <<s[k], s[j]>> \notin R
    BY <2>1, <2>2, <1>3
  <2>5. QED
    BY <2>1, <2>3, <2>4 DEF StrictOrder
<1>13. \A x \in S : \E j \in 1..N : s[j] = x
  BY <1>10, <1>4, <1>5
<1>14. QED
  BY <1>11, <1>12, <1>13 DEF N

\* Rows of different ids are strictly ordered, up and down.
LEMMA ByIdIsStrict ==
    ASSUME NEW S, \A x \in S : x[2] \in Int,
           \A x, y \in S : x # y => x[2] # y[2]
    PROVE  StrictOrder(Ascending(S), S) /\ StrictOrder(Descending(S), S)
<1>1. \A x, y \in S : <<x, y>> \in Ascending(S) <=> x[2] < y[2]
  BY DEF Ascending
<1>2. \A x, y \in S : <<x, y>> \in Descending(S) <=> x[2] > y[2]
  BY DEF Descending
<1>3. StrictOrder(Ascending(S), S)
  BY <1>1 DEF StrictOrder
<1>4. StrictOrder(Descending(S), S)
  BY <1>2 DEF StrictOrder
<1>5. QED
  BY <1>3, <1>4

\* What Ordered returns.
LEMMA OrderedIsSorted ==
    ASSUME NEW S, IsFiniteSet(S), NEW R, StrictOrder(R, S)
    PROVE  /\ Ordered(S, R) \in [1..Cardinality(S) -> S]
           /\ \A j, k \in 1..Cardinality(S) :
                  j < k => <<Ordered(S, R)[j], Ordered(S, R)[k]>> \in R
<1> DEFINE N == Cardinality(S)
           Sorted(s) == \A j, k \in 1..N : j < k => <<s[j], s[k]>> \in R
<1>1. \E s \in [1..N -> S] : Sorted(s)
  BY SortedExists
<1>2. Ordered(S, R) = CHOOSE s \in [1..N -> S] : Sorted(s)
  BY DEF Ordered
<1> HIDE DEF N, Sorted
<1>3. Ordered(S, R) \in [1..N -> S] /\ Sorted(Ordered(S, R))
  BY <1>1, <1>2
<1>4. QED
  BY <1>3 DEF N, Sorted

\* It is a sequence of rows.
LEMMA OrderedIsSeq ==
    ASSUME NEW S, IsFiniteSet(S), NEW R, StrictOrder(R, S)
    PROVE  Ordered(S, R) \in Seq(S) /\ Len(Ordered(S, R)) = Cardinality(S)
<1>1. Cardinality(S) \in Nat
  BY FS_CardinalityType
<1>2. Ordered(S, R) \in [1..Cardinality(S) -> S]
  BY OrderedIsSorted
<1>3. QED
  BY <1>1, <1>2

\* Each row comes once.
LEMMA OrderedIsOnto ==
    ASSUME NEW S, IsFiniteSet(S), NEW R, StrictOrder(R, S)
    PROVE  \A x \in S : \E n \in 1..Len(Ordered(S, R)) : Ordered(S, R)[n] = x
<1> DEFINE N == Cardinality(S)
<1> DEFINE f == Ordered(S, R)
<1>1. N \in Nat /\ Len(f) = N
  BY FS_CardinalityType, OrderedIsSeq
<1>2. f \in [1..N -> S] /\ \A j, k \in 1..N : j < k => <<f[j], f[k]>> \in R
  BY OrderedIsSorted
<1> HIDE DEF f, N
<1>3. \A j, k \in 1..N : j < k => f[j] # f[k]
  BY <1>2 DEF StrictOrder
<1>4. \A j, k \in 1..N : f[j] = f[k] => j = k
  <2> SUFFICES ASSUME NEW j \in 1..N, NEW k \in 1..N, f[j] = f[k], j # k
               PROVE  FALSE
    OBVIOUS
  <2>1. j < k \/ k < j
    BY <1>1
  <2>2. QED
    BY <1>3, <2>1
<1>5. f \in Injection(1..N, S)
  BY <1>2, <1>4 DEF Injection, IsInjective
<1>6. IsFiniteSet(1..N) /\ Cardinality(1..N) = N
  BY <1>1, FS_Interval
<1>7. f \in Surjection(1..N, S)
  BY <1>5, <1>6, FS_Injection DEF N
<1>8. QED
  BY <1>1, <1>7 DEF Surjection, f

-----------------------------------------------------------------------------
(* What a program says of a row.                                           *)

IsProgram(w) == w = <<w[1], w[2]>> /\ w[1] \in Shapes /\ w[2] \in TablesOf(w[1])
HasRow(w, k) == w[2][k] # NoRow
IsNull(w, k) == w[2][k].ref = SqlNull
Ref(w, k) == <<w[1][k[1]].ref, w[2][k].ref>>
Props(w, k) == w[1][k[1]].props

ListedRows(w, k) ==
    {l \in Keys : l[1] = w[1][k[1]].list /\ w[2][l] # NoRow /\ w[2][l].ref = k[2]}
RefRows(w, k) == {l \in Keys : l = Ref(w, k) /\ w[2][l] # NoRow}

\* The rows a fill waits for.
AskedRows(w, f) ==
    IF Props(w, f.key)[f.at] = "list" THEN ListedRows(w, f.key) ELSE RefRows(w, f.key)

ClosedIn(w, S) == \A k \in S : ListedRows(w, k) \subseteq S
\* The rows of lists that lead away from a row.
Below(w, k) ==
    {m \in Keys : \A S \in SUBSET Keys :
                      ListedRows(w, k) \subseteq S /\ ClosedIn(w, S) => m \in S}

-----------------------------------------------------------------------------
(* The inductive invariant.                                                *)

\* An instance is in the cache, under its row, unless the client has it.
IdentityIn(w, c, j, g, b) ==
    /\ \A o \in Objects :
           /\ Contains(c, o) <=> j[o] # NoObject /\ o \notin g
           /\ Contains(c, o) <=> Get(c, o[1]) = o
           /\ Contains(c, o) => c.ids[o] = o[1] /\ HasRow(w, o[1])
           /\ o \in g \cup b \cup c.connected => j[o] # NoObject
           /\ o \in c.modified => Contains(c, o) /\ o \in c.connected
    /\ \A k \in Keys : Get(c, k) # NoInstance => Get(c, k) \in Objects /\ Get(c, k)[1] = k
    /\ b \cap c.connected = {}

\* A list m holds the instances of the rows q.
MembersIn(c, m, q) ==
    Len(m) = Len(q) /\ \A n \in 1..Len(q) : m[n] \in Cached(c) /\ m[n][1] = q[n]

AgreesOn(w, c, j, o, p) ==
    /\ p = "value" => j[o].val = "stored"
    /\ p = "ref" /\ ~IsNull(w, o[1]) => j[o].ref \in Cached(c) /\ j[o].ref[1] = Ref(w, o[1])
    /\ p = "list" => MembersIn(c, j[o].list, InOrder(ListedRows(w, o[1])))
\* The first n properties agree.
AgreesUpto(w, c, j, o, n) == \A m \in 1..n : AgreesOn(w, c, j, o, Props(w, o[1])[m])
FullyAgrees(w, c, j, o) == AgreesUpto(w, c, j, o, Len(Props(w, o[1])))

Frames == ReadFrame \cup FillFrame

\* A fill has set the properties before the one it is at.
FillIn(w, c, j, b, f) ==
    /\ f \in FillFrame
    /\ f.inst[1] = f.key /\ Contains(c, f.inst)
    /\ f.at \in 1..(Len(Props(w, f.key)) + 1)
    /\ f.fresh <=> ~f.overwrite
    /\ f.fresh => f.inst \notin c.connected \cup c.modified \cup b
    /\ AgreesUpto(w, c, j, f.inst, f.at - 1)

ReadIn(w, c, f) ==
    /\ f \in ReadFrame
    /\ \A n \in 1..Len(f.left) : HasRow(w, f.left[n])
    /\ \A n \in 1..Len(f.result) : Contains(c, f.result[n])

IsRead(s, i) == (Len(s) - i) % 2 = 0
FrameIn(w, c, j, b, s, i) ==
    /\ IsRead(s, i) => ReadIn(w, c, s[i])
    /\ ~IsRead(s, i) => FillIn(w, c, j, b, s[i])

\* A read r for the fill f has come so far: its results, the row that is being
\* filled if there is one (h is 1, and k the row), and the rows left.
ReadFor(w, r, f, h, k) ==
    LET q == InOrder(AskedRows(w, f))
    IN  /\ f.at <= Len(Props(w, f.key))
        /\ Props(w, f.key)[f.at] \in {"ref", "list"}
        /\ Props(w, f.key)[f.at] = "ref" => ~IsNull(w, f.key)
        /\ r.overwrite = f.overwrite
        /\ Len(q) = Len(r.result) + h + Len(r.left)
        /\ \A n \in 1..Len(r.result) : r.result[n][1] = q[n]
        /\ h = 1 => q[Len(r.result) + 1] = k
        /\ \A n \in 1..Len(r.left) : q[Len(r.result) + h + n] = r.left[n]

WaitsForRef(w, f) == Props(w, f.key)[f.at] = "ref"

\* The read at i is for the fill below it, and the fill above it is for the read.
\* What is read for a reference is new.
LinkIn(w, s, i) ==
    /\ ReadFor(w, s[i], s[i + 1], 1, s[i - 1].key)
    /\ WaitsForRef(w, s[i + 1]) => s[i - 1].fresh
TopIn(w, c, s) ==
    Len(s) >= 2 /\ IsRead(s, 1) =>
        /\ ReadFor(w, s[1], s[2], 0, s[2].key)
        /\ WaitsForRef(w, s[2]) /\ s[1].left # <<>> => Get(c, s[1].left[1]) = NoInstance

FramesIn(w, c, j, b, s, a) ==
    /\ s \in Seq(Frames) /\ Len(s) + (Len(s) % 2) <= MaxStack
    /\ \A i \in 1..Len(s) : FrameIn(w, c, j, b, s, i)
    /\ \A i \in 2..(Len(s) - 1) : IsRead(s, i) => LinkIn(w, s, i)
    /\ \A i, k \in 1..Len(s) : i < k /\ s[i].overwrite => s[k].overwrite
    /\ s # <<>> => a.why # "none" /\ (s[Len(s)].overwrite <=> a.why = "rollback")

StackIn(w, c, j, b, s, a) == FramesIn(w, c, j, b, s, a) /\ TopIn(w, c, s)

FillsOf(s) == {i \in 1..Len(s) : ~IsRead(s, i)}

\* The instance o is filled for the first time, the row k is read again, the read of
\* the client has still to come to k.
Completing(s, o) == \E i \in FillsOf(s) : s[i].fresh /\ s[i].inst = o
Overwriting(s, k) == \E i \in FillsOf(s) : s[i].overwrite /\ s[i].key = k
Waiting(s, k) == s # <<>> /\ \E n \in 1..Len(s[Len(s)].left) : s[Len(s)].left[n] = k

\* What is read again is below what is read again.  A row that is filled for a new
\* instance is not filled already, and no row is, unless lists lead back.
Rings(w, a) == a.why = "rollback" /\ \E k \in Keys : k \in Below(w, k)
IsBelow(w, a, f, g) ==
    /\ f.fresh => f.key # g.key
    /\ f.overwrite => f.key \in Below(w, g.key)
    /\ f.key # g.key \/ Rings(w, a)
Descent(w, s, a) == \A i, k \in FillsOf(s) : i < k => IsBelow(w, a, s[i], s[k])

\* A rollback has begun, or is still to begin, to read the row k again.
Rereading(s, a, k) ==
    /\ a.why = "rollback"
    /\ Overwriting(s, k) \/ Waiting(s, k) \/ \E n \in 1..Len(a.queue) : a.queue[n][1] = k

\* What is not marked agrees, but for what the rollback will read again: what was
\* merged before is marked no more.
AgreedIn(w, c, j, g, s, a, o) ==
    \/ Completing(s, o)
    \/ /\ o \in c.connected
       /\ \/ j[o].ref \in g \/ \E n \in 1..Len(j[o].list) : j[o].list[n] \in g
          \/ FullyAgrees(w, c, j, o)
          \/ o \in a.dirty /\ Rereading(s, a, o[1])
Agreement(w, c, j, g, b, s, a) ==
    \A o \in Cached(c) \ (b \cup c.modified) : AgreedIn(w, c, j, g, s, a, o)

\* What is marked was before, or a removed instance was in the way.
Marks(c, g, a) ==
    a.why # "none" => c.modified \subseteq a.dirty \/ (a.why = "rollback" /\ g # {})

CallIn(w, s, a) ==
    /\ a \in [why : {"none", "select", "rollback"}, queue : Seq(Objects), roots : SUBSET Keys,
              dirty : SUBSET Objects, known : SUBSET Keys]
    /\ a.why = "none" => a = NoCall /\ s = <<>>
    /\ a.why # "rollback" => a.queue = <<>>
    /\ \A n \in 1..Len(a.queue) : a.queue[n][1] \in a.roots /\ HasRow(w, a.queue[n][1])

ReachIn(w, roots, known) ==
    {k \in Keys : \A S \in SUBSET Keys :
                      /\ roots \cap known \subseteq S
                      /\ \A m \in S : ListedRows(w, m) \cap known \subseteq S
                      => k \in S}

\* A rollback reads again only what it can come to.
Reached(w, s, a) ==
    a.why = "rollback" =>
        \A k \in Keys : /\ Overwriting(s, k) => k \in ReachIn(w, a.roots, Keys)
                        /\ Waiting(s, k) => k \in a.roots

\* V are the rows it has begun to read again.
VisitedRows(w, c, s, a, V) ==
    /\ \A k \in V : \/ Overwriting(s, k)
                    \/ ListedRows(w, k) \cap a.known \subseteq V /\ Get(c, k) \notin c.modified
    /\ \A k \in a.roots \cap a.known : k \in V \/ Rereading(s, a, k)
    /\ \A k \in a.known : Get(c, k) # NoInstance
VisitedFill(w, a, V, f) ==
    IF f.overwrite
    THEN /\ f.key \in V
         /\ \A n \in 1..(f.at - 1) :
                Props(w, f.key)[n] = "list" => ListedRows(w, f.key) \cap a.known \subseteq V
    ELSE f.key \notin a.known
VisitedRead(a, V, f) ==
    f.overwrite => \A n \in 1..Len(f.result) : f.result[n][1] \in a.known => f.result[n][1] \in V
VisitedFrames(w, s, a, V) ==
    \A i \in 1..Len(s) : IF IsRead(s, i) THEN VisitedRead(a, V, s[i]) ELSE VisitedFill(w, a, V, s[i])
Visited(w, c, s, a) ==
    a.why = "rollback" =>
        \E V \in SUBSET Keys : VisitedRows(w, c, s, a, V) /\ VisitedFrames(w, s, a, V)

Types ==
    /\ IsProgram(program)
    /\ obj \in [Objects -> Object \cup {NoObject}]
    /\ cache \in Caches
    /\ given \subseteq Objects /\ broken \subseteq Objects /\ IsFiniteSet(given)
    /\ faults \in Nat /\ Cardinality(given) + faults <= MaxEvents
    /\ fatal \in {"no", "modifiedReference", "danglingReference", "rollbackFailed", "overflow"}

Held(w, c, j, g, b, s, a) ==
    /\ IdentityIn(w, c, j, g, b)
    /\ CallIn(w, s, a)
    /\ FramesIn(w, c, j, b, s, a)
    /\ Descent(w, s, a)
    /\ Agreement(w, c, j, g, b, s, a)
    /\ Marks(c, g, a)
    /\ Reached(w, s, a)
Reading(w, c, j, g, b, s, a) ==
    Held(w, c, j, g, b, s, a) /\ TopIn(w, c, s) /\ Visited(w, c, s, a)

IInv ==
    /\ Types
    /\ Reading(program, cache, obj, given, broken, stack, call)
    /\ DiesForAReason

-----------------------------------------------------------------------------
(* Keys, rows and the order they come in.                                  *)

LEMMA Bounds == /\ MaxId \in Nat /\ MaxModified \in Nat /\ MaxTracked \in Nat
                /\ MaxStack \in Nat /\ MaxEvents \in Nat
BY BoundAssumption

LEMMA KeyForm ==
    /\ \A k \in Keys : k[1] \in Classes /\ k[2] \in 1..MaxId /\ k = <<k[1], k[2]>>
    /\ \A o \in Objects : o[1] \in Keys /\ o[2] \in 1..(MaxEvents + 1) /\ o = <<o[1], o[2]>>
    /\ \A k \in Keys : \A n \in 1..(MaxEvents + 1) :
           <<k, n>> \in Objects /\ <<k, n>>[1] = k /\ <<k, n>>[2] = n
BY DEF Keys, Objects

LEMMA KeysAreFinite ==
    ASSUME IsFiniteSet(Classes)
    PROVE  IsFiniteSet(Keys) /\ Cardinality(Keys) \in Nat
<1>1. IsFiniteSet(1..MaxId)
  BY Bounds, FS_Interval
<1>2. IsFiniteSet(Classes \X (1..MaxId))
  BY <1>1, FS_Product, Zenon
<1>3. QED
  BY <1>2, FS_CardinalityType DEF Keys

LEMMA InOrderIsSeq ==
    ASSUME NEW S \in SUBSET Keys, \A x, y \in S : x[1] = y[1]
    PROVE  /\ InOrder(S) \in Seq(S) /\ InOrder(S) \in Seq(Keys)
           /\ IsFiniteSet(S) /\ Len(InOrder(S)) = Cardinality(S)
           /\ \A n \in 1..Len(InOrder(S)) : InOrder(S)[n] \in S
           /\ \A x \in S : \E n \in 1..Len(InOrder(S)) : InOrder(S)[n] = x
<1>1. IsFiniteSet(S)
  <2>1. CASE S = {}
    BY <2>1, FS_EmptySet
  <2>2. CASE S # {}
    <3>1. PICK x : x \in S
      BY <2>2
    <3> DEFINE f == [k \in S |-> k[2]]
    <3>2. f \in Injection(S, 1..MaxId)
      BY KeyForm DEF Injection, IsInjective
    <3>3. IsFiniteSet(1..MaxId)
      BY Bounds, FS_Interval
    <3>4. QED
      BY <3>2, <3>3, FS_Injection
  <2>3. QED
    BY <2>1, <2>2
<1>2. StrictOrder(Ascending(S), S)
  <2>1. /\ \A x \in S : x[2] \in Int
        /\ \A x, y \in S : x # y => x[2] # y[2]
    BY KeyForm
  <2>2. QED
    BY <2>1, ByIdIsStrict
<1>3. InOrder(S) = Ordered(S, Ascending(S))
  BY DEF InOrder
<1>4. InOrder(S) \in Seq(S) /\ Len(InOrder(S)) = Cardinality(S)
  BY <1>1, <1>2, <1>3, OrderedIsSeq
<1>5. \A x \in S : \E n \in 1..Len(InOrder(S)) : InOrder(S)[n] = x
  BY <1>1, <1>2, <1>3, OrderedIsOnto
<1> DEFINE q == InOrder(S)
<1> HIDE DEF q
<1>6. q \in Seq(S) => q \in Seq(Keys) /\ \A n \in 1..Len(q) : q[n] \in S
  OBVIOUS
<1>7. QED
  BY <1>1, <1>4, <1>5, <1>6 DEF q

LEMMA InOrderOne ==
    ASSUME NEW k \in Keys
    PROVE  /\ InOrder({k}) \in Seq(Keys) /\ Len(InOrder({k})) = 1 /\ InOrder({k})[1] = k
           /\ InOrder({}) \in Seq(Keys) /\ Len(InOrder({})) = 0
<1>1. Cardinality({k}) = 1 /\ Cardinality({}) = 0
  BY FS_Singleton, FS_EmptySet
<1>2. {k} \in SUBSET Keys /\ (\A x, y \in {k} : x[1] = y[1]) /\ {} \in SUBSET Keys
      /\ (\A x, y \in {} : x[1] = y[1])
  OBVIOUS
<1>3. /\ InOrder({k}) \in Seq(Keys) /\ Len(InOrder({k})) = 1
      /\ \A n \in 1..Len(InOrder({k})) : InOrder({k})[n] \in {k}
  BY <1>1, <1>2, InOrderIsSeq, Zenon
<1>4. InOrder({}) \in Seq(Keys) /\ Len(InOrder({})) = 0
  BY <1>1, <1>2, InOrderIsSeq
<1>5. QED
  BY <1>3, <1>4, SMTT(30)

\* The classes and tables of a program.
LEMMA ProgramFacts ==
    ASSUME NEW w, IsProgram(w)
    PROVE  /\ w[1] \in Shapes /\ w[2] \in Tables
           /\ \A k \in Keys : Props(w, k) \in Seq({"value", "ref", "list"})
           /\ \A k \in Keys : HasRow(w, k) => w[2][k] \in [ref : 0..MaxId]
           /\ \A k \in Keys : \E n \in 1..Len(Props(w, k)) : Props(w, k)[n] = "value"
           /\ \A k \in Keys : HasRow(w, k) /\ ~IsNull(w, k) =>
                  \E n \in 1..Len(Props(w, k)) : Props(w, k)[n] = "ref"
           /\ \A k \in Keys : ListedRows(w, k) # {} =>
                  \E n \in 1..Len(Props(w, k)) : Props(w, k)[n] = "list"
           /\ \A k \in Keys : w[1][k[1]].list # NoClass =>
                  \E n \in 1..Len(Props(w, k)) : Props(w, k)[n] = "list"
<1>1. w[1] \in Shapes /\ w[2] \in TablesOf(w[1])
  BY DEF IsProgram
<1>2. /\ w[1] \in [Classes -> [props : Seq({"value", "ref", "list"}),
                              ref : Classes \cup {NoClass}, list : Classes \cup {NoClass}]]
      /\ \A c \in Classes :
             /\ \E n \in 1..Len(w[1][c].props) : w[1][c].props[n] = "value"
             /\ (\E n \in 1..Len(w[1][c].props) : w[1][c].props[n] = "ref") <=> w[1][c].ref # NoClass
             /\ (\E n \in 1..Len(w[1][c].props) : w[1][c].props[n] = "list") <=> w[1][c].list # NoClass
      /\ w[2] \in Tables
      /\ \A k \in Keys : w[2][k] # NoRow /\ w[1][k[1]].ref = NoClass => w[2][k].ref = SqlNull
  BY <1>1, ShapeAssumption
<1>3. \A k \in Keys : k[1] \in Classes
  BY KeyForm
<1>4. \A k \in Keys : Props(w, k) = w[1][k[1]].props /\ Props(w, k) \in Seq({"value", "ref", "list"})
  BY <1>2, <1>3 DEF Props
<1>5. \A k \in Keys : HasRow(w, k) => w[2][k] \in [ref : 0..MaxId]
  BY <1>2 DEF HasRow, Tables, SqlNull
<1>6. \A k \in Keys : ListedRows(w, k) # {} => w[1][k[1]].list # NoClass
  BY <1>3, NoneAssumption DEF ListedRows
<1>7. ASSUME NEW k \in Keys
      PROVE  /\ \E n \in 1..Len(Props(w, k)) : Props(w, k)[n] = "value"
             /\ HasRow(w, k) /\ ~IsNull(w, k) =>
                    \E n \in 1..Len(Props(w, k)) : Props(w, k)[n] = "ref"
             /\ w[1][k[1]].list # NoClass =>
                    \E n \in 1..Len(Props(w, k)) : Props(w, k)[n] = "list"
  <2>1. k[1] \in Classes /\ Props(w, k) = w[1][k[1]].props
    BY <1>3, <1>4
  <2>2. HasRow(w, k) /\ ~IsNull(w, k) => w[1][k[1]].ref # NoClass
    BY <1>2 DEF IsNull, HasRow
  <2>3. QED
    BY <1>2, <2>1, <2>2
<1>8. QED
  BY <1>1, <1>2, <1>4, <1>5, <1>6, <1>7

LEMMA PropsLength ==
    ASSUME NEW w, IsProgram(w), NEW k \in Keys
    PROVE  Len(Props(w, k)) \in Nat
<1>1. Props(w, k) \in Seq({"value", "ref", "list"})
  BY ProgramFacts
<1>2. QED
  BY <1>1

LEMMA ListedFacts ==
    ASSUME NEW w, NEW k \in Keys
    PROVE  /\ ListedRows(w, k) \in SUBSET Keys
           /\ \A l \in ListedRows(w, k) : HasRow(w, l)
           /\ InOrder(ListedRows(w, k)) \in Seq(Keys)
           /\ \A n \in 1..Len(InOrder(ListedRows(w, k))) :
                  InOrder(ListedRows(w, k))[n] \in ListedRows(w, k)
           /\ \A l \in ListedRows(w, k) : \E n \in 1..Len(InOrder(ListedRows(w, k))) :
                  InOrder(ListedRows(w, k))[n] = l
<1>1. ListedRows(w, k) \in SUBSET Keys /\ \A x, y \in ListedRows(w, k) : x[1] = y[1]
  BY DEF ListedRows
<1>2. \A l \in ListedRows(w, k) : HasRow(w, l)
  BY DEF ListedRows, HasRow
<1>3. QED
  BY <1>1, <1>2, InOrderIsSeq, Zenon

LEMMA RefFacts ==
    ASSUME NEW w, NEW k
    PROVE  /\ InOrder(RefRows(w, k)) \in Seq(Keys)
           /\ Len(InOrder(RefRows(w, k))) \in {0, 1}
           /\ \A n \in 1..Len(InOrder(RefRows(w, k))) :
                  /\ InOrder(RefRows(w, k))[n] = Ref(w, k)
                  /\ Ref(w, k) \in Keys /\ HasRow(w, Ref(w, k))
           /\ Ref(w, k) \in Keys /\ HasRow(w, Ref(w, k)) => Len(InOrder(RefRows(w, k))) = 1
<1>1. CASE Ref(w, k) \in Keys /\ HasRow(w, Ref(w, k))
  <2>1. RefRows(w, k) = {Ref(w, k)}
    BY <1>1 DEF RefRows, HasRow
  <2>2. QED
    BY <1>1, <2>1, InOrderOne
<1>2. CASE ~(Ref(w, k) \in Keys /\ HasRow(w, Ref(w, k)))
  <2>1. RefRows(w, k) = {}
    BY <1>2 DEF RefRows, HasRow
  <2>2. {} \in SUBSET Keys /\ (\A x, y \in {} : x[1] = y[1]) /\ Cardinality({}) = 0
    BY FS_EmptySet
  <2>3. InOrder({}) \in Seq(Keys) /\ Len(InOrder({})) = 0
    BY <2>2, InOrderIsSeq
  <2>4. QED
    BY <1>2, <2>1, <2>3
<1>3. QED
  BY <1>1, <1>2

LEMMA AskedFacts ==
    ASSUME NEW w, NEW f, f.key \in Keys
    PROVE  /\ InOrder(AskedRows(w, f)) \in Seq(Keys)
           /\ \A n \in 1..Len(InOrder(AskedRows(w, f))) :
                  /\ InOrder(AskedRows(w, f))[n] \in AskedRows(w, f)
                  /\ HasRow(w, InOrder(AskedRows(w, f))[n])
<1>1. CASE Props(w, f.key)[f.at] = "list"
  BY <1>1, ListedFacts DEF AskedRows
<1>2. CASE Props(w, f.key)[f.at] # "list"
  <2>1. AskedRows(w, f) = RefRows(w, f.key)
    BY <1>2 DEF AskedRows
  <2>2. QED
    BY <2>1, RefFacts DEF RefRows, HasRow
<1>3. QED
  BY <1>1, <1>2

-----------------------------------------------------------------------------
(* The identity map.                                                       *)

LEMMA NoObjectFacts ==
    /\ NoObject \notin Object /\ NewObject \in Object /\ NewObject # NoObject
    /\ NoInstance \notin Objects /\ NoKey \notin Keys
<1>1. NoObject.val = "none" /\ \A x \in Object : x.val # "none"
  BY DEF NoObject, NewObject, Object
<1>2. NewObject \in Object
  BY DEF NewObject, Object
<1>3. QED
  BY <1>1, <1>2, NoneAssumption

SameIdentity(c, j, d, i, b) ==
    /\ d.ids = c.ids /\ d.byId = c.byId
    /\ \A o \in Objects : i[o] # NoObject <=> j[o] # NoObject
    /\ \A o \in d.connected : j[o] # NoObject /\ o \notin b
    /\ \A o \in d.modified : Contains(c, o) /\ o \in d.connected
    /\ \A o \in b : j[o] # NoObject

\* A step that neither inserts nor takes.
LEMMA IdentityStays ==
    ASSUME NEW w, NEW c \in Caches, NEW j, NEW g, NEW b, IdentityIn(w, c, j, g, b),
           NEW d \in Caches, NEW i, NEW b2,
           SameIdentity(c, j, d, i, b2)
    PROVE  IdentityIn(w, d, i, g, b2)
<1>0. /\ d.ids = c.ids /\ d.byId = c.byId
      /\ \A o \in Objects : i[o] # NoObject <=> j[o] # NoObject
      /\ \A o \in d.connected : j[o] # NoObject /\ o \notin b2
      /\ \A o \in d.modified : Contains(c, o) /\ o \in d.connected
      /\ \A o \in b2 : j[o] # NoObject
  BY DEF SameIdentity
<1>1. d.connected \subseteq Objects
  BY DEF Caches
<1>2. \A o \in Objects : Contains(d, o) <=> Contains(c, o)
  BY <1>0 DEF Contains
<1>3. \A k \in Keys : Get(d, k) = Get(c, k)
  BY <1>0 DEF Get
<1>4. ASSUME NEW o \in Objects
      PROVE  /\ Contains(d, o) <=> i[o] # NoObject /\ o \notin g
             /\ Contains(d, o) <=> Get(d, o[1]) = o
             /\ Contains(d, o) => d.ids[o] = o[1] /\ HasRow(w, o[1])
             /\ o \in g \cup b2 \cup d.connected => i[o] # NoObject
             /\ o \in d.modified => Contains(d, o) /\ o \in d.connected
  <2>1. o[1] \in Keys
    BY KeyForm
  <2>2. QED
    BY <2>1, <1>0, <1>2, <1>3 DEF IdentityIn
<1>5. \A k \in Keys : Get(d, k) # NoInstance => Get(d, k) \in Objects /\ Get(d, k)[1] = k
  BY <1>3 DEF IdentityIn
<1>6. b2 \cap d.connected = {}
  BY <1>0, <1>1
<1>7. QED
  BY <1>4, <1>5, <1>6 DEF IdentityIn

Inserted(w, c, j, g, b, o, d, i) ==
    /\ d \in Caches /\ i \in [Objects -> Object \cup {NoObject}]
    /\ IdentityIn(w, d, i, g, b)
    /\ d.connected = c.connected /\ d.modified = c.modified
    /\ Cached(d) = Cached(c) \cup {o} /\ o \notin Cached(c)
    /\ o \notin c.connected \cup c.modified \cup b \cup g
    /\ \A x \in Objects \ {o} : i[x] = j[x]
    /\ \A k \in Keys : k # o[1] => Get(d, k) = Get(c, k)
    /\ Get(d, o[1]) = o

\* newInstance() and insert().
LEMMA InsertIdentity ==
    ASSUME NEW w, NEW c \in Caches, NEW j \in [Objects -> Object \cup {NoObject}],
           NEW g \in SUBSET Objects, NEW b \in SUBSET Objects, IdentityIn(w, c, j, g, b),
           NEW o \in Objects, j[o] = NoObject, HasRow(w, o[1]), Get(c, o[1]) = NoInstance,
           NEW d, d = Insert(c, o, o[1]), NEW i, i = [j EXCEPT ![o] = NewObject]
    PROVE  Inserted(w, c, j, g, b, o, d, i)
<1>1. o[1] \in Keys /\ NoKey \notin Keys /\ NoInstance \notin Objects
  BY KeyForm, NoObjectFacts
<1>2. ~Contains(c, o) /\ o \notin c.connected \cup c.modified \cup b \cup g
  BY DEF IdentityIn
<1>3. /\ d \in Caches /\ d.connected = c.connected /\ d.modified = c.modified
      /\ d.ids = [c.ids EXCEPT ![o] = o[1]] /\ d.byId = [c.byId EXCEPT ![o[1]] = o]
  BY <1>1, <1>2, Zenon DEF Insert, Contains, Caches
<1>4. /\ \A x \in Objects : Contains(d, x) <=> Contains(c, x) \/ x = o
      /\ \A x \in Objects \ {o} : d.ids[x] = c.ids[x]
      /\ d.ids[o] = o[1]
  BY <1>1, <1>3 DEF Contains, Caches
<1>5. (\A k \in Keys : k # o[1] => Get(d, k) = Get(c, k)) /\ Get(d, o[1]) = o
  BY <1>1, <1>3 DEF Get, Caches
<1>6. /\ i \in [Objects -> Object \cup {NoObject}] /\ i[o] = NewObject /\ i[o] # NoObject
      /\ \A x \in Objects \ {o} : i[x] = j[x]
  BY NoObjectFacts
<1>7. ASSUME NEW x \in Objects
      PROVE  /\ Contains(d, x) <=> i[x] # NoObject /\ x \notin g
             /\ Contains(d, x) <=> Get(d, x[1]) = x
             /\ Contains(d, x) => d.ids[x] = x[1] /\ HasRow(w, x[1])
             /\ x \in g \cup b \cup d.connected => i[x] # NoObject
             /\ x \in d.modified => Contains(d, x) /\ x \in d.connected
  <2>1. CASE x = o
    BY <2>1, <1>2, <1>3, <1>4, <1>5, <1>6
  <2>2. CASE x # o
    <3>1. /\ Contains(c, x) <=> j[x] # NoObject /\ x \notin g
          /\ Contains(c, x) <=> Get(c, x[1]) = x
          /\ Contains(c, x) => c.ids[x] = x[1] /\ HasRow(w, x[1])
          /\ x \in g \cup b \cup c.connected => j[x] # NoObject
          /\ x \in c.modified => Contains(c, x) /\ x \in c.connected
      BY DEF IdentityIn
    <3>2. x[1] \in Keys
      BY KeyForm
    <3>3. Contains(d, x) <=> Get(d, x[1]) = x
      <4>1. CASE x[1] = o[1]
        BY <4>1, <2>2, <3>1, <1>1, <1>4, <1>5
      <4>2. CASE x[1] # o[1]
        BY <4>2, <2>2, <3>1, <3>2, <1>4, <1>5
      <4>3. QED
        BY <4>1, <4>2
    <3>4. QED
      BY <2>2, <3>1, <3>3, <1>3, <1>4, <1>6
  <2>3. QED
    BY <2>1, <2>2
<1>8. \A k \in Keys : Get(d, k) # NoInstance => Get(d, k) \in Objects /\ Get(d, k)[1] = k
  BY <1>5 DEF IdentityIn
<1>9. b \cap d.connected = {}
  BY <1>3 DEF IdentityIn
<1>10. Cached(d) = Cached(c) \cup {o} /\ o \notin Cached(c)
  BY <1>2, <1>4 DEF Cached
<1>11. QED
  BY <1>2, <1>3, <1>5, <1>6, <1>7, <1>8, <1>9, <1>10 DEF IdentityIn, Inserted

TookAll(w, c, j, g, b, m, S, d) ==
    /\ d \in Caches /\ IdentityIn(w, d, j, g \cup S, b)
    /\ d.connected = c.connected /\ d.modified = (c.modified \ m) \ S
    /\ Cached(d) = Cached(c) \ S

\* Removed instances are the client's.
LEMMA TakeIdentity ==
    ASSUME NEW w, NEW c \in Caches, NEW j, NEW g \in SUBSET Objects, NEW b,
           IdentityIn(w, c, j, g, b), NEW S \in SUBSET Cached(c), NEW m \in SUBSET Objects,
           NEW d, d = TakeAll([c EXCEPT !.modified = @ \ m], S)
    PROVE  TookAll(w, c, j, g, b, m, S, d)
<1> DEFINE e == [c EXCEPT !.modified = @ \ m]
<1>1. /\ e \in Caches /\ e.ids = c.ids /\ e.byId = c.byId /\ e.connected = c.connected
      /\ e.modified = c.modified \ m
  BY DEF Caches
<1>2. d = TakeAll(e, S)
  OBVIOUS
<1> HIDE DEF e
<1>3. S \subseteq Objects /\ \A o \in S : Contains(c, o)
  BY DEF Cached
<1>4. /\ d \in Caches
      /\ d.ids = [o \in Objects |-> IF o \in S THEN NoKey ELSE c.ids[o]]
      /\ d.byId = [k \in Keys |-> IF \E o \in S : c.ids[o] = k THEN NoInstance ELSE c.byId[k]]
      /\ d.connected = c.connected /\ d.modified = (c.modified \ m) \ S
  <2> DEFINE ids == [o \in Objects |-> IF o \in S THEN NoKey ELSE e.ids[o]]
             byId == [k \in Keys |-> IF \E o \in S : e.ids[o] = k THEN NoInstance
                                                                   ELSE e.byId[k]]
  <2>1. d = [e EXCEPT !.ids = ids, !.byId = byId, !.modified = @ \ S]
    BY <1>2 DEF TakeAll
  <2>2. ids \in [Objects -> Keys \cup {NoKey}] /\ byId \in [Keys -> Objects \cup {NoInstance}]
    BY <1>1 DEF Caches
  <2> HIDE DEF ids, byId
  <2>3. /\ d \in Caches /\ d.ids = ids /\ d.byId = byId /\ d.connected = e.connected
        /\ d.modified = e.modified \ S
    BY <1>1, <2>1, <2>2, Zenon DEF Caches
  <2>4. ids = [o \in Objects |-> IF o \in S THEN NoKey ELSE c.ids[o]]
    BY <1>1 DEF ids
  <2>5. byId = [k \in Keys |-> IF \E o \in S : c.ids[o] = k THEN NoInstance ELSE c.byId[k]]
    BY <1>1, Zenon DEF byId
  <2>6. QED
    BY <1>1, <2>3, <2>4, <2>5, Zenon
<1>5. /\ \A o \in Objects : Contains(d, o) <=> Contains(c, o) /\ o \notin S
      /\ \A o \in Objects : Contains(d, o) => d.ids[o] = c.ids[o]
  BY <1>4, Zenon DEF Contains
<1>6. \A o \in S : c.ids[o] = o[1]
  BY <1>3 DEF IdentityIn
<1>7. \A k \in Keys : Get(d, k) = IF \E o \in S : o[1] = k THEN NoInstance ELSE Get(c, k)
  BY <1>4, <1>6 DEF Get
<1>8. ASSUME NEW x \in Objects
      PROVE  /\ Contains(d, x) <=> j[x] # NoObject /\ x \notin g \cup S
             /\ Contains(d, x) <=> Get(d, x[1]) = x
             /\ Contains(d, x) => d.ids[x] = x[1] /\ HasRow(w, x[1])
             /\ x \in (g \cup S) \cup b \cup d.connected => j[x] # NoObject
             /\ x \in d.modified => Contains(d, x) /\ x \in d.connected
  <2>1. /\ Contains(c, x) <=> j[x] # NoObject /\ x \notin g
        /\ Contains(c, x) <=> Get(c, x[1]) = x
        /\ Contains(c, x) => c.ids[x] = x[1] /\ HasRow(w, x[1])
        /\ x \in g \cup b \cup c.connected => j[x] # NoObject
        /\ x \in c.modified => Contains(c, x) /\ x \in c.connected
    BY DEF IdentityIn
  <2>2. x[1] \in Keys /\ NoInstance \notin Objects
    BY KeyForm, NoObjectFacts
  <2>3. Contains(d, x) <=> Get(d, x[1]) = x
    <3>1. CASE \E o \in S : o[1] = x[1]
      <4>1. PICK o \in S : o[1] = x[1]
        BY <3>1
      <4>2. Get(c, x[1]) = o /\ Get(d, x[1]) = NoInstance
        BY <4>1, <2>2, <1>3, <1>7, Zenon DEF IdentityIn
      <4>3. QED
        BY <4>1, <4>2, <2>1, <2>2, <1>5, Zenon
    <3>2. CASE ~\E o \in S : o[1] = x[1]
      BY <3>2, <2>1, <2>2, <1>5, <1>7, Zenon
    <3>3. QED
      BY <3>1, <3>2
  <2>4. x \in S => j[x] # NoObject
    BY <1>3, <2>1
  <2>5. QED
    BY <2>1, <2>3, <2>4, <1>4, <1>5, Zenon
<1>9. \A k \in Keys : Get(d, k) # NoInstance => Get(d, k) \in Objects /\ Get(d, k)[1] = k
  BY <1>7, Zenon DEF IdentityIn
<1>10. b \cap d.connected = {}
  BY <1>4 DEF IdentityIn
<1>11. Cached(d) = Cached(c) \ S
  BY <1>5, Zenon DEF Cached
<1>12. QED
  BY <1>4, <1>8, <1>9, <1>10, <1>11, Zenon DEF IdentityIn, TookAll

-----------------------------------------------------------------------------
(* Properties that are set.                                                *)

\* The cache has one instance of a row.
LEMMA CachedIsOne ==
    ASSUME NEW w, NEW c, NEW j, NEW g, NEW b, IdentityIn(w, c, j, g, b)
    PROVE  /\ \A o \in Cached(c) : /\ o \in Objects /\ o[1] \in Keys /\ Get(c, o[1]) = o
                                   /\ Contains(c, o) /\ c.ids[o] = o[1] /\ HasRow(w, o[1])
                                   /\ j[o] # NoObject /\ o \notin g
           /\ \A o, x \in Cached(c) : o[1] = x[1] => o = x
           /\ \A k \in Keys : Get(c, k) # NoInstance =>
                  Get(c, k) \in Cached(c) /\ Get(c, k)[1] = k
<1>1. \A o \in Cached(c) : /\ o \in Objects /\ o[1] \in Keys /\ Get(c, o[1]) = o
                           /\ Contains(c, o) /\ c.ids[o] = o[1] /\ HasRow(w, o[1])
                           /\ j[o] # NoObject /\ o \notin g
  BY KeyForm DEF Cached, IdentityIn
<1>2. \A o, x \in Cached(c) : o[1] = x[1] => o = x
  BY <1>1
<1>3. \A k \in Keys : Get(c, k) # NoInstance => Get(c, k) \in Cached(c) /\ Get(c, k)[1] = k
  BY DEF IdentityIn, Cached
<1>4. QED
  BY <1>1, <1>2, <1>3

StillAgrees(w, c, j, d, i, o) ==
    /\ \A p : AgreesOn(w, c, j, o, p) => AgreesOn(w, d, i, o, p)
    /\ \A n : AgreesUpto(w, c, j, o, n) => AgreesUpto(w, d, i, o, n)
    /\ FullyAgrees(w, c, j, o) => FullyAgrees(w, d, i, o)

LEMMA AgreesStays ==
    ASSUME NEW w, NEW c, NEW j, NEW d, NEW i, NEW o,
           Cached(c) \subseteq Cached(d), i[o] = j[o]
    PROVE  StillAgrees(w, c, j, d, i, o)
<1>1. \A p : AgreesOn(w, c, j, o, p) => AgreesOn(w, d, i, o, p)
  BY DEF AgreesOn, MembersIn
<1>2. \A n : AgreesUpto(w, c, j, o, n) => AgreesUpto(w, d, i, o, n)
  BY <1>1, Zenon DEF AgreesUpto
<1>3. QED
  BY <1>1, <1>2 DEF FullyAgrees, StillAgrees

\* The value v is what the row says of property p.
Right(w, c, j, o, p, v) ==
    \/ p = "value" /\ v = "stored"
    \/ p = "ref" /\ IF IsNull(w, o[1]) THEN v = j[o].ref
                                       ELSE v \in Cached(c) /\ v[1] = Ref(w, o[1])
    \/ p = "list" /\ v \in Seq(Objects) /\ MembersIn(c, v, InOrder(ListedRows(w, o[1])))
Field(p) == IF p = "value" THEN "val" ELSE p

LEMMA MembersAreOne ==
    ASSUME NEW w, NEW c, NEW j, NEW g, NEW b, IdentityIn(w, c, j, g, b),
           NEW q, NEW l \in Seq(Objects), NEW m \in Seq(Objects),
           MembersIn(c, l, q), MembersIn(c, m, q)
    PROVE  l = m
<1>1. Len(l) = Len(m) /\ Len(q) = Len(l)
  BY DEF MembersIn
<1>2. \A n \in 1..Len(l) : l[n] = m[n]
  BY <1>1, CachedIsOne DEF MembersIn
<1>3. QED
  BY <1>1, <1>2

WasSet(w, c, j, g, b, o, p, v, i) ==
    /\ i \in [Objects -> Object \cup {NoObject}] /\ i[o] # NoObject
    /\ \A x \in Objects \ {o} : i[x] = j[x]
    /\ AgreesOn(w, c, i, o, p)
    /\ \A x \in Objects, q \in {"value", "ref", "list"} :
           AgreesOn(w, c, j, x, q) => AgreesOn(w, c, i, x, q)
    /\ AgreesOn(w, c, j, o, p) => j[o][Field(p)] = v
    /\ j[o][Field(p)] = v => i = j

LEMMA SetRight ==
    ASSUME NEW w, NEW c, NEW j \in [Objects -> Object \cup {NoObject}], NEW g, NEW b,
           IdentityIn(w, c, j, g, b), NEW o \in Objects, j[o] # NoObject, NEW p, NEW v,
           Right(w, c, j, o, p, v), NEW i, i = [j EXCEPT ![o][Field(p)] = v]
    PROVE  WasSet(w, c, j, g, b, o, p, v, i)
<1>1. j[o] \in Object
  OBVIOUS
<1>2. Cached(c) \subseteq Objects
  BY DEF Cached
<1>3. CASE p = "value" /\ v = "stored"
  <2>1. i = [j EXCEPT ![o] = [j[o] EXCEPT !.val = v]] /\ Field(p) = "val" /\ j[o]["val"] = j[o].val
    BY <1>3, Zenon DEF Field
  <2>2. /\ i[o] \in Object /\ i[o].val = v /\ i[o].ref = j[o].ref /\ i[o].list = j[o].list
        /\ j[o].val = v => i[o] = j[o]
    BY <1>1, <1>3, <2>1 DEF Object
  <2>3. /\ i \in [Objects -> Object \cup {NoObject}]
        /\ \A x \in Objects \ {o} : i[x] = j[x]
    BY <2>1, <2>2
  <2>4. j[o].val = v => i = j
    BY <2>1, <2>2, <2>3
  <2>5. QED
    BY <1>3, <2>1, <2>2, <2>3, <2>4, NoObjectFacts, Zenon DEF AgreesOn, WasSet
<1>4. CASE p = "ref" /\ IF IsNull(w, o[1]) THEN v = j[o].ref
                                           ELSE v \in Cached(c) /\ v[1] = Ref(w, o[1])
  <2>1. i = [j EXCEPT ![o] = [j[o] EXCEPT !.ref = v]] /\ Field(p) = "ref" /\ j[o]["ref"] = j[o].ref
    BY <1>4, Zenon DEF Field
  <2>2. v \in Objects \cup {NoInstance}
    BY <1>1, <1>2, <1>4 DEF Object
  <2>3. /\ i[o] \in Object /\ i[o].val = j[o].val /\ i[o].ref = v /\ i[o].list = j[o].list
        /\ j[o].ref = v => i[o] = j[o]
    BY <1>1, <2>1, <2>2 DEF Object
  <2>4. /\ i \in [Objects -> Object \cup {NoObject}]
        /\ \A x \in Objects \ {o} : i[x] = j[x]
    BY <2>1, <2>3
  <2>5. j[o].ref = v => i = j
    BY <2>1, <2>3, <2>4
  <2>6. AgreesOn(w, c, i, o, p)
    BY <1>4, <2>3 DEF AgreesOn
  <2>7. AgreesOn(w, c, j, o, p) => j[o].ref = v
    BY <1>4, CachedIsOne DEF AgreesOn
  <2>8. ASSUME NEW x \in Objects, NEW q \in {"value", "ref", "list"}, AgreesOn(w, c, j, x, q)
        PROVE  AgreesOn(w, c, i, x, q)
    BY <1>4, <2>3, <2>4, <2>8 DEF AgreesOn
  <2>9. QED
    BY <2>1, <2>3, <2>4, <2>5, <2>6, <2>7, <2>8, NoObjectFacts, Zenon DEF WasSet
<1>5. CASE p = "list" /\ v \in Seq(Objects) /\ MembersIn(c, v, InOrder(ListedRows(w, o[1])))
  <2>1. i = [j EXCEPT ![o] = [j[o] EXCEPT !.list = v]] /\ Field(p) = "list" /\ j[o]["list"] = j[o].list
    BY <1>5, Zenon DEF Field
  <2>3. /\ i[o] \in Object /\ i[o].val = j[o].val /\ i[o].ref = j[o].ref /\ i[o].list = v
        /\ j[o].list = v => i[o] = j[o]
    BY <1>1, <1>5, <2>1 DEF Object
  <2>4. /\ i \in [Objects -> Object \cup {NoObject}]
        /\ \A x \in Objects \ {o} : i[x] = j[x]
    BY <2>1, <2>3
  <2>5. j[o].list = v => i = j
    BY <2>1, <2>3, <2>4
  <2>6. AgreesOn(w, c, i, o, p)
    BY <1>5, <2>3 DEF AgreesOn
  <2>7. AgreesOn(w, c, j, o, p) => j[o].list = v
    <3>1. j[o].list \in Seq(Objects)
      BY <1>1 DEF Object
    <3>2. QED
      BY <1>5, <3>1, MembersAreOne DEF AgreesOn
  <2>8. ASSUME NEW x \in Objects, NEW q \in {"value", "ref", "list"}, AgreesOn(w, c, j, x, q)
        PROVE  AgreesOn(w, c, i, x, q)
    BY <1>5, <2>3, <2>4, <2>8 DEF AgreesOn
  <2>9. QED
    BY <2>1, <2>3, <2>4, <2>5, <2>6, <2>7, <2>8, NoObjectFacts, Zenon DEF WasSet
<1>6. QED
  BY <1>3, <1>4, <1>5, Zenon DEF Right, WasSet

Notified(c, o, changed, d) ==
    /\ d \in Caches /\ d.ids = c.ids /\ d.byId = c.byId /\ d.connected = c.connected
    /\ c.modified \subseteq d.modified /\ d.modified \subseteq c.modified \cup {o}
    /\ Cached(d) = Cached(c) /\ \A x \in Objects : Contains(d, x) <=> Contains(c, x)
    /\ \A k \in Keys : Get(d, k) = Get(c, k)
    /\ o \notin c.connected \/ ~changed => d = c
    /\ o \in c.connected /\ changed => o \in d.modified

\* What the cache learns of it.
LEMMA NotifyCache ==
    ASSUME NEW c \in Caches, NEW o \in Objects, NEW changed \in BOOLEAN,
           NEW d, d = IF changed THEN Notify(c, o) ELSE c
    PROVE  Notified(c, o, changed, d)
BY DEF Notify, Caches, Contains, Cached, Get, Notified

-----------------------------------------------------------------------------
(* The reads that are running.                                             *)

LEMMA PushFacts ==
    ASSUME NEW S, NEW s \in Seq(S), NEW f \in S
    PROVE  /\ <<f>> \o s \in Seq(S) /\ Len(<<f>> \o s) = Len(s) + 1 /\ (<<f>> \o s)[1] = f
           /\ \A i \in 1..Len(s) : (<<f>> \o s)[i + 1] = s[i]
           /\ \A i \in 2..(Len(s) + 1) : (<<f>> \o s)[i] = s[i - 1]
OBVIOUS

LEMMA PopFacts ==
    ASSUME NEW S, NEW s \in Seq(S), s # <<>>
    PROVE  /\ Len(s) \in Nat /\ Len(s) >= 1 /\ Head(s) = s[1] /\ s[1] \in S
           /\ Tail(s) \in Seq(S) /\ Len(Tail(s)) = Len(s) - 1
           /\ \A i \in 1..(Len(s) - 1) : Tail(s)[i] = s[i + 1]
OBVIOUS

LEMMA ReadForStart ==
    ASSUME NEW w, NEW f, f.key \in Keys, f.overwrite \in BOOLEAN,
           f.at <= Len(Props(w, f.key)), Props(w, f.key)[f.at] \in {"ref", "list"},
           Props(w, f.key)[f.at] = "ref" => ~IsNull(w, f.key),
           NEW r, r = Reads(AskedRows(w, f), f.overwrite), NEW k
    PROVE  ReadFor(w, r, f, 0, k) /\ \A c : ReadIn(w, c, r)
<1> DEFINE q == InOrder(AskedRows(w, f))
<1>1. q \in Seq(Keys) /\ \A n \in 1..Len(q) : HasRow(w, q[n])
  BY AskedFacts
<1>2. r = [kind |-> "read", left |-> q, result |-> <<>>, overwrite |-> f.overwrite]
  BY DEF Reads
<1>3. r.left = q /\ r.result = <<>> /\ r.overwrite = f.overwrite /\ r \in ReadFrame
  BY <1>1, <1>2 DEF ReadFrame
<1> HIDE DEF q
<1>4. /\ Len(q) = Len(r.result) + 0 + Len(r.left)
      /\ \A n \in 1..Len(r.left) : q[Len(r.result) + 0 + n] = r.left[n]
      /\ \A n \in 1..Len(r.result) : FALSE
  BY <1>1, <1>3
<1>5. ReadFor(w, r, f, 0, k)
  BY <1>3, <1>4 DEF ReadFor, q
<1>6. QED
  BY <1>1, <1>3, <1>4, <1>5 DEF ReadIn

LEMMA ReadForEnter ==
    ASSUME NEW w, NEW r \in ReadFrame, NEW f, f.key \in Keys, NEW k, ReadFor(w, r, f, 0, k),
           r.left # <<>>, NEW u, u = [r EXCEPT !.left = Tail(@)]
    PROVE  ReadFor(w, u, f, 1, Head(r.left))
<1> DEFINE q == InOrder(AskedRows(w, f))
<1>1. q \in Seq(Keys)
  BY AskedFacts
<1>2. r.left \in Seq(Keys) /\ r.result \in Seq(Objects)
  BY DEF ReadFrame
<1>3. u.left = Tail(r.left) /\ u.result = r.result /\ u.overwrite = r.overwrite
  BY DEF ReadFrame
<1>4. /\ f.at <= Len(Props(w, f.key))
      /\ Props(w, f.key)[f.at] \in {"ref", "list"}
      /\ Props(w, f.key)[f.at] = "ref" => ~IsNull(w, f.key)
      /\ r.overwrite = f.overwrite
      /\ Len(q) = Len(r.result) + 0 + Len(r.left)
      /\ \A n \in 1..Len(r.result) : r.result[n][1] = q[n]
      /\ \A n \in 1..Len(r.left) : q[Len(r.result) + 0 + n] = r.left[n]
  BY Zenon DEF ReadFor
<1> HIDE DEF q
<1>5. /\ Len(q) = Len(u.result) + 1 + Len(u.left)
      /\ q[Len(u.result) + 1] = Head(r.left)
      /\ \A n \in 1..Len(u.left) : q[Len(u.result) + 1 + n] = u.left[n]
  <2>1. Len(u.left) = Len(r.left) - 1 /\ Len(r.left) >= 1 /\ Head(r.left) = r.left[1]
        /\ \A n \in 1..Len(u.left) : u.left[n] = r.left[n + 1]
    BY <1>2, <1>3
  <2>2. PICK L \in Nat : L = Len(r.result)
    BY <1>2
  <2>3. PICK N \in Nat : N = Len(r.left)
    BY <1>2
  <2>4. Len(q) = L + 0 + N /\ \A n \in 1..N : q[L + 0 + n] = r.left[n]
    BY <1>4, <2>2, <2>3, Zenon
  <2>5. \A n \in 1..N : L + 0 + n = L + n
    OBVIOUS
  <2>6. \A n \in 1..N : q[L + n] = r.left[n]
    BY <2>4, <2>5
  <2>7. q[L + 1] = r.left[1] /\ \A n \in 1..(N - 1) : q[L + (n + 1)] = r.left[n + 1]
    BY <2>6, <2>1, <2>3
  <2>8. \A n \in 1..(N - 1) : L + 1 + n = L + (n + 1)
    OBVIOUS
  <2>9. \A n \in 1..(N - 1) : q[L + 1 + n] = r.left[n + 1]
    BY <2>7, <2>8
  <2>10. QED
    <3>1. Len(u.result) = L /\ Len(u.left) = N - 1
      BY <1>3, <2>1, <2>2, <2>3
    <3>2. Len(q) = L + 1 + (N - 1)
      BY <2>4
    <3>3. q[L + 1] = Head(r.left) /\ \A n \in 1..(N - 1) : q[L + 1 + n] = u.left[n]
      BY <2>1, <2>7, <2>9, <3>1
    <3>4. QED
      BY <3>1, <3>2, <3>3, Zenon
<1>6. QED
  BY <1>3, <1>4, <1>5, Zenon DEF ReadFor, q

LEMMA ReadForEnd ==
    ASSUME NEW w, NEW r \in ReadFrame, NEW f, f.key \in Keys, NEW x \in Objects,
           ReadFor(w, r, f, 1, x[1]), NEW u, u = [r EXCEPT !.result = Append(@, x)], NEW k
    PROVE  ReadFor(w, u, f, 0, k)
<1> DEFINE q == InOrder(AskedRows(w, f))
<1>1. q \in Seq(Keys)
  BY AskedFacts
<1>2. r.left \in Seq(Keys) /\ r.result \in Seq(Objects)
  BY DEF ReadFrame
<1>3. u.left = r.left /\ u.result = Append(r.result, x) /\ u.overwrite = r.overwrite
  BY DEF ReadFrame
<1>4. /\ f.at <= Len(Props(w, f.key))
      /\ Props(w, f.key)[f.at] \in {"ref", "list"}
      /\ Props(w, f.key)[f.at] = "ref" => ~IsNull(w, f.key)
      /\ r.overwrite = f.overwrite
      /\ Len(q) = Len(r.result) + 1 + Len(r.left)
      /\ \A n \in 1..Len(r.result) : r.result[n][1] = q[n]
      /\ q[Len(r.result) + 1] = x[1]
      /\ \A n \in 1..Len(r.left) : q[Len(r.result) + 1 + n] = r.left[n]
  BY Zenon DEF ReadFor
<1> HIDE DEF q
<1>5. /\ Len(u.result) = Len(r.result) + 1 /\ u.result[Len(r.result) + 1] = x
      /\ \A n \in 1..Len(r.result) : u.result[n] = r.result[n]
      /\ Len(r.result) \in Nat /\ Len(r.left) \in Nat
  BY <1>2, <1>3
<1>6. /\ Len(q) = Len(u.result) + 0 + Len(u.left)
      /\ \A n \in 1..Len(u.left) : q[Len(u.result) + 0 + n] = u.left[n]
  <2>1. PICK L \in Nat : L = Len(r.result)
    BY <1>5
  <2>2. PICK N \in Nat : N = Len(r.left)
    BY <1>5
  <2>3. Len(q) = L + 1 + N /\ \A n \in 1..N : q[L + 1 + n] = r.left[n]
    BY <1>4, <2>1, <2>2, Zenon
  <2>4. Len(u.result) = L + 1 /\ L + 1 + 0 = L + 1 /\ Len(u.left) = N
    BY <1>3, <1>5, <2>1, <2>2
  <2>5. \A n \in 1..N : L + 1 + 0 + n = L + 1 + n
    OBVIOUS
  <2>6. L + 1 + 0 + N = L + 1 + N
    OBVIOUS
  <2>7. QED
    BY <1>3, <2>3, <2>4, <2>5, <2>6, Zenon
<1>7. \A n \in 1..Len(u.result) : u.result[n][1] = q[n]
  <2> SUFFICES ASSUME NEW n \in 1..Len(u.result)
               PROVE  u.result[n][1] = q[n]
    OBVIOUS
  <2>1. n \in 1..Len(r.result) \/ n = Len(r.result) + 1
    BY <1>5
  <2>2. QED
    BY <2>1, <1>4, <1>5, Zenon
<1>8. u.overwrite = f.overwrite
  BY <1>3, <1>4
<1>9. QED
  <2>1. 0 # 1 /\ q[Len(r.result) + 1] = q[Len(r.result) + 1]
    OBVIOUS
  <2>2. QED
    BY <2>1, <1>4, <1>6, <1>7, <1>8, Zenon DEF ReadFor, q

\* A list that has been read is right, and a reference that was found is.
LEMMA ReadForDone ==
    ASSUME NEW w, NEW c, NEW r \in ReadFrame, NEW f, f.key \in Keys, NEW k,
           ReadFor(w, r, f, 0, k), ReadIn(w, c, r), r.left = <<>>
    PROVE  /\ Props(w, f.key)[f.at] = "list" =>
                  MembersIn(c, r.result, InOrder(ListedRows(w, f.key)))
           /\ Props(w, f.key)[f.at] = "ref" /\ Len(r.result) = 1 =>
                  Head(r.result) \in Cached(c) /\ Head(r.result)[1] = Ref(w, f.key)
           /\ Props(w, f.key)[f.at] = "ref" /\ Len(r.result) # 1 =>
                  ~(Ref(w, f.key) \in Keys /\ HasRow(w, Ref(w, f.key)))
<1> DEFINE q == InOrder(AskedRows(w, f))
<1>1. r.result \in Seq(Objects) /\ \A n \in 1..Len(r.result) : r.result[n] \in Cached(c)
  <2>1. r.result \in Seq(Objects) /\ \A n \in 1..Len(r.result) : Contains(c, r.result[n])
    BY DEF ReadFrame, ReadIn
  <2>2. QED
    BY <2>1 DEF Cached
<1>2. Len(q) = Len(r.result) /\ \A n \in 1..Len(q) : r.result[n][1] = q[n]
  <2>1. /\ Len(q) = Len(r.result) + 0 + Len(r.left)
        /\ \A n \in 1..Len(r.result) : r.result[n][1] = q[n]
    BY DEF ReadFor
  <2>2. Len(r.left) = 0 /\ Len(r.result) \in Nat
    BY <1>1
  <2> HIDE DEF q
  <2>3. QED
    BY <2>1, <2>2
<1>3. CASE Props(w, f.key)[f.at] = "list"
  <2>1. AskedRows(w, f) = ListedRows(w, f.key)
    BY <1>3 DEF AskedRows
  <2>2. QED
    BY <1>1, <1>2, <1>3, <2>1 DEF MembersIn
<1>4. CASE Props(w, f.key)[f.at] = "ref"
  <2>1. AskedRows(w, f) = RefRows(w, f.key)
    BY <1>4 DEF AskedRows
  <2>2. /\ \A n \in 1..Len(q) : q[n] = Ref(w, f.key)
        /\ Ref(w, f.key) \in Keys /\ HasRow(w, Ref(w, f.key)) => Len(q) = 1
    BY <2>1, RefFacts
  <2>3. Len(r.result) = 1 => Head(r.result) = r.result[1]
    BY <1>1
  <2> HIDE DEF q
  <2>4. QED
    BY <1>1, <1>2, <1>4, <2>2, <2>3
<1>5. QED
  BY <1>3, <1>4

-----------------------------------------------------------------------------
(* Frames that come and go.                                                *)

LEMMA Parity ==
    ASSUME NEW s, Len(s) \in Nat, NEW t, Len(t) = Len(s) + 1, NEW i \in Nat
    PROVE  /\ IsRead(t, i + 1) <=> IsRead(s, i)
           /\ IsRead(s, i + 1) <=> ~IsRead(s, i)
           /\ IsRead(s, Len(s))
<1>1. /\ (Len(s) + 1) - (i + 1) = Len(s) - i
      /\ (Len(s) - i) % 2 = 0 <=> (Len(s) - (i + 1)) % 2 # 0
      /\ (Len(s) - Len(s)) % 2 = 0
  OBVIOUS
<1>2. QED
  BY <1>1 DEF IsRead

LEMMA EvenOdd == \A n \in Nat : (n % 2 = 0 => (n + 1) % 2 = 1) /\ (n % 2 # 0 => (n + 1) % 2 = 0)
OBVIOUS

LEMMA EmptyFacts ==
    ASSUME NEW s \in Seq(Frames)
    PROVE  Len(s) \in Nat /\ (s = <<>> <=> Len(s) = 0) /\ (s # <<>> => Len(s) >= 1)
OBVIOUS

LEMMA PushFrame ==
    ASSUME NEW w, NEW c, NEW j, NEW b, NEW s, NEW a, FramesIn(w, c, j, b, s, a),
           NEW f, NEW t, t = <<f>> \o s, Len(t) + (Len(t) % 2) <= MaxStack,
           IsRead(t, 1) => ReadIn(w, c, f),
           ~IsRead(t, 1) => FillIn(w, c, j, b, f),
           s # <<>> => (f.overwrite => s[1].overwrite),
           s = <<>> => a.why # "none" /\ (f.overwrite <=> a.why = "rollback"),
           ~IsRead(t, 1) /\ Len(s) >= 2 =>
               ReadFor(w, s[1], s[2], 1, f.key) /\ (WaitsForRef(w, s[2]) => f.fresh)
    PROVE  FramesIn(w, c, j, b, t, a)
<1>1. s \in Seq(Frames) /\ f \in Frames
  BY DEF FramesIn, ReadIn, FillIn, Frames
<1>2. PICK N \in Nat : N = Len(s)
  BY <1>1
<1>3. /\ t \in Seq(Frames) /\ Len(t) = N + 1 /\ t[1] = f
      /\ \A i \in 1..N : t[i + 1] = s[i]
      /\ \A i \in 2..(N + 1) : t[i] = s[i - 1]
  BY <1>1, <1>2, PushFacts
<1>4. \A i \in Nat : (IsRead(t, i + 1) <=> IsRead(s, i)) /\ (IsRead(s, i + 1) <=> ~IsRead(s, i))
  BY <1>2, <1>3, Parity, Zenon
<1>5. \A i \in 2..(N + 1) : i - 1 \in 1..N /\ (i - 1) + 1 = i /\ (IsRead(t, i) <=> IsRead(s, i - 1))
  <2>1. \A i \in 2..(N + 1) : i - 1 \in 1..N /\ (i - 1) + 1 = i /\ i - 1 \in Nat
    OBVIOUS
  <2>2. QED
    BY <2>1, <1>4, Zenon
<1>6. ASSUME NEW i \in 1..(N + 1)
      PROVE  FrameIn(w, c, j, b, t, i)
  <2>1. CASE i = 1
    BY <2>1, <1>3 DEF FrameIn
  <2>2. CASE i # 1
    <3>1. i \in 2..(N + 1)
      BY <2>2
    <3>2. FrameIn(w, c, j, b, s, i - 1)
      BY <3>1, <1>2, <1>5 DEF FramesIn
    <3>3. QED
      BY <3>1, <3>2, <1>3, <1>5, Zenon DEF FrameIn
  <2>3. QED
    BY <2>1, <2>2
<1>7. ASSUME NEW i \in 2..N, IsRead(t, i)
      PROVE  LinkIn(w, t, i)
  <2>1. t[i] = s[i - 1] /\ t[i + 1] = s[i]
    BY <1>3
  <2>2. CASE i = 2
    <3>1. ~IsRead(t, 1)
      <4>1. 0 \in Nat /\ 1 \in Nat /\ 0 + 1 = 1 /\ 1 + 1 = 2
        OBVIOUS
      <4>2. (IsRead(t, 1) <=> IsRead(s, 0)) /\ (IsRead(s, 1) <=> ~IsRead(s, 0))
            /\ (IsRead(t, 2) <=> IsRead(s, 1))
        BY <4>1, <1>4, Zenon
      <4>3. QED
        BY <4>2, <2>2, <1>7
    <3>2. Len(s) >= 2
      BY <2>2, <1>2
    <3>3. t[2] = s[1] /\ t[3] = s[2] /\ t[i - 1] = f
      BY <2>1, <2>2, <1>3
    <3>4. QED
      BY <3>1, <3>2, <3>3, <2>2 DEF LinkIn
  <2>3. CASE i # 2
    <3>1. i - 1 \in 2..(N - 1) /\ (i - 1) + 1 = i /\ (i - 1) - 1 \in 1..N /\ i \in 2..(N + 1)
          /\ ((i - 1) - 1) + 1 = i - 1
      BY <2>3
    <3>2. LinkIn(w, s, i - 1)
      BY <3>1, <1>2, <1>5, <1>7, Zenon DEF FramesIn
    <3>3. t[i - 1] = s[(i - 1) - 1]
      BY <3>1, <1>3
    <3>4. QED
      BY <3>1, <3>2, <3>3, <2>1, Zenon DEF LinkIn
  <2>4. QED
    BY <2>2, <2>3
<1>8. ASSUME NEW i \in 1..(N + 1), NEW k \in 1..(N + 1), i < k, t[i].overwrite
      PROVE  t[k].overwrite
  <2>1. k \in 2..(N + 1) /\ t[k] = s[k - 1] /\ k - 1 \in 1..N
    BY <1>3, <1>8
  <2>2. CASE i = 1
    <3>1. s # <<>> /\ s[1].overwrite
      BY <2>1, <2>2, <1>2, <1>3, <1>8
    <3>2. CASE k - 1 = 1
      BY <3>1, <3>2, <2>1
    <3>3. CASE k - 1 # 1
      <4>1. 1 < k - 1 /\ 1 \in 1..N
        BY <3>3, <2>1
      <4>2. QED
        BY <4>1, <3>1, <2>1, <1>2 DEF FramesIn
    <3>4. QED
      BY <3>2, <3>3, Zenon
  <2>3. CASE i # 1
    <3>1. i - 1 \in 1..N /\ i - 1 < k - 1 /\ t[i] = s[i - 1]
      BY <2>3, <1>3, <1>8
    <3>2. QED
      BY <3>1, <2>1, <1>2, <1>8, Zenon DEF FramesIn
  <2>4. QED
    BY <2>2, <2>3, Zenon
<1>9. a.why # "none" /\ (t[N + 1].overwrite <=> a.why = "rollback")
  <2>1. CASE s = <<>>
    BY <2>1, <1>2, <1>3
  <2>2. CASE s # <<>>
    <3>1. N \in 1..N /\ t[N + 1] = s[N]
      BY <2>2, <1>1, <1>2, <1>3
    <3>2. QED
      BY <3>1, <2>2, <1>2 DEF FramesIn
  <2>3. QED
    BY <2>1, <2>2, Zenon
<1>10. (\A i \in 2..((N + 1) - 1) : IsRead(t, i) => LinkIn(w, t, i)) /\ (N + 1) - 1 = N
  BY <1>7
<1>11. QED
  BY <1>3, <1>6, <1>8, <1>9, <1>10, Zenon DEF FramesIn

LEMMA PopFrame ==
    ASSUME NEW w, NEW c, NEW j, NEW b, NEW s, NEW a, FramesIn(w, c, j, b, s, a), s # <<>>
    PROVE  FramesIn(w, c, j, b, Tail(s), a)
<1> DEFINE t == Tail(s)
<1>1. s \in Seq(Frames)
  BY DEF FramesIn
<1>2. PICK N \in Nat : N = Len(t)
  BY <1>1
<1>3. /\ t \in Seq(Frames) /\ Len(s) = N + 1
      /\ \A i \in 1..N : t[i] = s[i + 1]
  BY <1>1, <1>2, PopFacts
<1> HIDE DEF t
<1>4. \A i \in Nat : IsRead(t, i) <=> IsRead(s, i + 1)
  BY <1>2, <1>3, Parity, Zenon
<1>5. N + (N % 2) <= MaxStack
  <2>1. (N + 1) + ((N + 1) % 2) <= MaxStack
    BY <1>3 DEF FramesIn
  <2>2. QED
    BY <2>1, Bounds
<1>6. ASSUME NEW i \in 1..N
      PROVE  FrameIn(w, c, j, b, t, i)
  <2>1. i + 1 \in 1..(N + 1) /\ i \in Nat
    OBVIOUS
  <2>2. FrameIn(w, c, j, b, s, i + 1)
    BY <2>1, <1>3 DEF FramesIn
  <2>3. QED
    BY <2>1, <2>2, <1>3, <1>4, Zenon DEF FrameIn
<1>7. ASSUME NEW i \in 2..(N - 1), IsRead(t, i)
      PROVE  LinkIn(w, t, i)
  <2>1. /\ i + 1 \in 2..((N + 1) - 1) /\ i \in Nat /\ i \in 1..N /\ i + 1 \in 1..N /\ i - 1 \in 1..N
        /\ (i - 1) + 1 = i /\ (i + 1) - 1 = i
    OBVIOUS
  <2>2. LinkIn(w, s, i + 1)
    BY <2>1, <1>3, <1>4, <1>7 DEF FramesIn
  <2>3. t[i] = s[i + 1] /\ t[i + 1] = s[(i + 1) + 1] /\ t[i - 1] = s[(i + 1) - 1]
    BY <2>1, <1>3
  <2>4. QED
    BY <2>2, <2>3 DEF LinkIn
<1>8. ASSUME NEW i \in 1..N, NEW k \in 1..N, i < k, t[i].overwrite
      PROVE  t[k].overwrite
  <2>1. i + 1 \in 1..(N + 1) /\ k + 1 \in 1..(N + 1) /\ i + 1 < k + 1
    BY <1>8
  <2>2. QED
    BY <2>1, <1>3, <1>8, Zenon DEF FramesIn
<1>9. t # <<>> => a.why # "none" /\ (t[N].overwrite <=> a.why = "rollback")
  <2>1. t # <<>> => N \in 1..N
    BY <1>2, <1>3
  <2>2. QED
    BY <2>1, <1>3 DEF FramesIn
<1>10. QED
  BY <1>2, <1>3, <1>5, <1>6, <1>7, <1>8, <1>9 DEF FramesIn, t

\* The frames of a stack are its first one and the rest.
LEMMA Split ==
    ASSUME NEW s \in Seq(Frames), s # <<>>
    PROVE  /\ s[1] \in Frames /\ Head(s) = s[1] /\ Tail(s) \in Seq(Frames) /\ s = <<s[1]>> \o Tail(s)
           /\ Len(s) = Len(Tail(s)) + 1
           /\ IsRead(s, 1) <=> Len(Tail(s)) % 2 = 0
           /\ IsRead(s, 1) <=> (Tail(s) = <<>> \/ ~IsRead(Tail(s), 1))
<1>1. /\ s[1] \in Frames /\ Head(s) = s[1] /\ Tail(s) \in Seq(Frames) /\ s = <<s[1]>> \o Tail(s)
      /\ Len(s) = Len(Tail(s)) + 1
  OBVIOUS
<1> DEFINE r == Tail(s)
<1>2. PICK N \in Nat : N = Len(r)
  OBVIOUS
<1>3. IsRead(s, 1) <=> Len(Tail(s)) % 2 = 0
  <2>1. Len(s) - 1 = N
    BY <1>1, <1>2
  <2>2. QED
    BY <2>1, <1>2, Zenon DEF IsRead
<1>4. Tail(s) = <<>> <=> N = 0
  <2>1. r \in Seq(Frames)
    BY <1>1
  <2> HIDE DEF r
  <2>2. r = <<>> <=> Len(r) = 0
    BY <2>1
  <2>3. QED
    BY <2>2, <1>2 DEF r
<1>5. N # 0 => (IsRead(Tail(s), 1) <=> (N - 1) % 2 = 0)
  BY <1>2, Zenon DEF IsRead
<1>6. N # 0 => ((N - 1) % 2 = 0 <=> N % 2 # 0)
  OBVIOUS
<1>7. QED
  BY <1>1, <1>2, <1>3, <1>4, <1>5, <1>6

\* The stack s is the stack r with the frame f pushed on it.
Pushed(f, r, s) ==
    /\ s \in Seq(Frames) /\ s # <<>> /\ s[1] = f /\ Len(s) = Len(r) + 1 /\ Tail(s) = r
    /\ \A i \in FillsOf(r) : i + 1 \in FillsOf(s) /\ s[i + 1] = r[i]
    /\ \A i \in FillsOf(s) : i = 1 \/ (i - 1 \in FillsOf(r) /\ s[i] = r[i - 1])
    /\ 1 \in FillsOf(s) <=> ~IsRead(s, 1)
    /\ IsRead(s, 1) <=> Len(r) % 2 = 0
    /\ IsRead(s, 1) <=> (r = <<>> \/ ~IsRead(r, 1))
    /\ r # <<>> => s[Len(s)] = r[Len(r)]
    /\ r = <<>> => s[Len(s)] = f
    /\ \A i \in 1..Len(r) : s[i + 1] = r[i] /\ (IsRead(s, i + 1) <=> IsRead(r, i))
    /\ \A i \in 2..Len(s) : i - 1 \in 1..Len(r) /\ s[i] = r[i - 1]
                            /\ (IsRead(s, i) <=> IsRead(r, i - 1))

LEMMA FillsOfPush ==
    ASSUME NEW r \in Seq(Frames), NEW f \in Frames, NEW s, s = <<f>> \o r
    PROVE  Pushed(f, r, s)
<1>1. /\ s \in Seq(Frames) /\ s # <<>> /\ s[1] = f /\ Len(s) = Len(r) + 1 /\ Tail(s) = r
      /\ \A i \in 1..Len(r) : s[i + 1] = r[i]
      /\ \A i \in 2..(Len(r) + 1) : s[i] = r[i - 1]
  OBVIOUS
<1>2. PICK N \in Nat : N = Len(r)
  OBVIOUS
<1>3. \A i \in Nat : IsRead(s, i + 1) <=> IsRead(r, i)
  BY <1>1, <1>2, Parity, Zenon
<1>4. \A i \in 2..(N + 1) : i - 1 \in 1..N /\ (i - 1) + 1 = i /\ i - 1 \in Nat
  OBVIOUS
<1>5. \A i \in 1..N : s[i + 1] = r[i] /\ (IsRead(s, i + 1) <=> IsRead(r, i))
  <2>1. \A i \in 1..N : i \in Nat
    OBVIOUS
  <2>2. QED
    BY <2>1, <1>1, <1>2, <1>3, Zenon
<1>6. \A i \in 2..(N + 1) : i - 1 \in 1..N /\ s[i] = r[i - 1] /\ (IsRead(s, i) <=> IsRead(r, i - 1))
  BY <1>1, <1>2, <1>3, <1>4, Zenon
<1>7. \A i \in FillsOf(r) : i + 1 \in FillsOf(s) /\ s[i + 1] = r[i]
  <2>1. \A i \in 1..N : i + 1 \in 1..(N + 1)
    OBVIOUS
  <2>2. QED
    BY <2>1, <1>1, <1>2, <1>5 DEF FillsOf
<1>8. \A i \in FillsOf(s) : i = 1 \/ (i - 1 \in FillsOf(r) /\ s[i] = r[i - 1])
  <2>1. \A i \in 1..(N + 1) : i = 1 \/ i \in 2..(N + 1)
    OBVIOUS
  <2>2. QED
    BY <2>1, <1>1, <1>2, <1>6 DEF FillsOf
<1>9. 1 \in FillsOf(s) <=> ~IsRead(s, 1)
  BY <1>1, <1>2 DEF FillsOf
<1>10. (IsRead(s, 1) <=> Len(r) % 2 = 0) /\ (IsRead(s, 1) <=> (r = <<>> \/ ~IsRead(r, 1)))
  BY <1>1, Split, Zenon
<1>11. (r # <<>> => s[Len(s)] = r[Len(r)]) /\ (r = <<>> => s[Len(s)] = f)
  <2>1. r # <<>> => N \in 1..N
    BY <1>2
  <2>2. r = <<>> => Len(s) = 1
    BY <1>1
  <2>3. QED
    BY <2>1, <2>2, <1>1, <1>2
<1>12. QED
  BY <1>1, <1>2, <1>5, <1>6, <1>7, <1>8, <1>9, <1>10, <1>11, Zenon DEF Pushed

PushedReads(f, r, s) ==
    /\ \A o : Completing(s, o) <=> \/ ~IsRead(s, 1) /\ f.fresh /\ f.inst = o
                                   \/ Completing(r, o)
    /\ \A k : Overwriting(s, k) <=> \/ ~IsRead(s, 1) /\ f.overwrite /\ f.key = k
                                    \/ Overwriting(r, k)
    /\ \A k : r # <<>> => (Waiting(s, k) <=> Waiting(r, k))
    /\ \A k : r = <<>> => (Waiting(s, k) <=> \E n \in 1..Len(f.left) : f.left[n] = k)

LEMMA FillsSplit ==
    ASSUME NEW r \in Seq(Frames), NEW f \in Frames, NEW s, s = <<f>> \o r
    PROVE  PushedReads(f, r, s)
<1>1. /\ s # <<>> /\ s[1] = f
      /\ \A i \in FillsOf(r) : i + 1 \in FillsOf(s) /\ s[i + 1] = r[i]
      /\ \A i \in FillsOf(s) : i = 1 \/ (i - 1 \in FillsOf(r) /\ s[i] = r[i - 1])
      /\ 1 \in FillsOf(s) <=> ~IsRead(s, 1)
      /\ r # <<>> => s[Len(s)] = r[Len(r)]
      /\ r = <<>> => s[Len(s)] = f
  <2>1. Pushed(f, r, s)
    BY FillsOfPush, Zenon
  <2>2. QED
    BY <2>1, Zenon DEF Pushed
<1>2. ASSUME NEW o
      PROVE  Completing(s, o) <=> \/ ~IsRead(s, 1) /\ f.fresh /\ f.inst = o
                                \/ Completing(r, o)
  <2>1. ASSUME Completing(r, o)
        PROVE  Completing(s, o)
    <3>1. PICK i \in FillsOf(r) : r[i].fresh /\ r[i].inst = o
      BY <2>1 DEF Completing
    <3>2. i + 1 \in FillsOf(s) /\ s[i + 1].fresh /\ s[i + 1].inst = o
      BY <3>1, <1>1, Zenon
    <3>3. QED
      BY <3>2, Zenon DEF Completing
  <2>2. ASSUME ~IsRead(s, 1), f.fresh, f.inst = o
        PROVE  Completing(s, o)
    <3>1. 1 \in FillsOf(s) /\ s[1].fresh /\ s[1].inst = o
      BY <2>2, <1>1
    <3>2. QED
      BY <3>1 DEF Completing
  <2>3. ASSUME Completing(s, o)
        PROVE  (~IsRead(s, 1) /\ f.fresh /\ f.inst = o) \/ Completing(r, o)
    <3>1. PICK i \in FillsOf(s) : s[i].fresh /\ s[i].inst = o
      BY <2>3, Zenon DEF Completing
    <3>2. CASE i = 1
      BY <3>1, <3>2, <1>1
    <3>3. CASE i # 1
      <4>1. i - 1 \in FillsOf(r) /\ s[i] = r[i - 1]
        BY <3>3, <1>1, Zenon
      <4>2. QED
        BY <3>1, <4>1, Zenon DEF Completing
    <3>4. QED
      BY <3>2, <3>3
  <2>4. QED
    BY <2>1, <2>2, <2>3
<1>3. ASSUME NEW k
      PROVE  Overwriting(s, k) <=> \/ ~IsRead(s, 1) /\ f.overwrite /\ f.key = k
                                \/ Overwriting(r, k)
  <2>1. ASSUME Overwriting(r, k)
        PROVE  Overwriting(s, k)
    <3>1. PICK i \in FillsOf(r) : r[i].overwrite /\ r[i].key = k
      BY <2>1 DEF Overwriting
    <3>2. i + 1 \in FillsOf(s) /\ s[i + 1].overwrite /\ s[i + 1].key = k
      BY <3>1, <1>1, Zenon
    <3>3. QED
      BY <3>2, Zenon DEF Overwriting
  <2>2. ASSUME ~IsRead(s, 1), f.overwrite, f.key = k
        PROVE  Overwriting(s, k)
    <3>1. 1 \in FillsOf(s) /\ s[1].overwrite /\ s[1].key = k
      BY <2>2, <1>1
    <3>2. QED
      BY <3>1 DEF Overwriting
  <2>3. ASSUME Overwriting(s, k)
        PROVE  (~IsRead(s, 1) /\ f.overwrite /\ f.key = k) \/ Overwriting(r, k)
    <3>1. PICK i \in FillsOf(s) : s[i].overwrite /\ s[i].key = k
      BY <2>3, Zenon DEF Overwriting
    <3>2. CASE i = 1
      BY <3>1, <3>2, <1>1
    <3>3. CASE i # 1
      <4>1. i - 1 \in FillsOf(r) /\ s[i] = r[i - 1]
        BY <3>3, <1>1, Zenon
      <4>2. QED
        BY <3>1, <4>1, Zenon DEF Overwriting
    <3>4. QED
      BY <3>2, <3>3
  <2>4. QED
    BY <2>1, <2>2, <2>3
<1>4. \A k : r # <<>> => (Waiting(s, k) <=> Waiting(r, k))
  BY <1>1, Zenon DEF Waiting
<1>5. \A k : r = <<>> => (Waiting(s, k) <=> \E n \in 1..Len(f.left) : f.left[n] = k)
  BY <1>1, Zenon DEF Waiting
<1>6. QED
  BY <1>2, <1>3, <1>4, <1>5 DEF PushedReads

LEMMA DescentSplit ==
    ASSUME NEW w, NEW a, NEW r \in Seq(Frames), NEW f \in Frames, NEW s, s = <<f>> \o r
    PROVE  Descent(w, s, a) <=>
               /\ Descent(w, r, a)
               /\ ~IsRead(s, 1) => \A k \in FillsOf(r) : IsBelow(w, a, f, r[k])
<1>1. /\ s[1] = f
      /\ \A i \in FillsOf(r) : i + 1 \in FillsOf(s) /\ s[i + 1] = r[i]
      /\ \A i \in FillsOf(s) : i = 1 \/ (i - 1 \in FillsOf(r) /\ s[i] = r[i - 1])
      /\ 1 \in FillsOf(s) <=> ~IsRead(s, 1)
  <2>1. Pushed(f, r, s)
    BY FillsOfPush, Zenon
  <2>2. QED
    BY <2>1, Zenon DEF Pushed
<1>2. \A i \in FillsOf(r) : i \in Nat /\ i >= 1 /\ 1 < i + 1
  BY DEF FillsOf
<1>3. \A i \in FillsOf(s) : i \in Nat /\ i >= 1
  BY DEF FillsOf
<1>4. ASSUME Descent(w, s, a)
      PROVE  /\ Descent(w, r, a)
             /\ ~IsRead(s, 1) => \A k \in FillsOf(r) : IsBelow(w, a, f, r[k])
  <2>1. ASSUME NEW i \in FillsOf(r), NEW k \in FillsOf(r), i < k
        PROVE  IsBelow(w, a, r[i], r[k])
    <3>1. i + 1 < k + 1 /\ i + 1 \in FillsOf(s) /\ k + 1 \in FillsOf(s)
      BY <1>1, <1>2, <2>1
    <3>2. IsBelow(w, a, s[i + 1], s[k + 1])
      BY <3>1, <1>4, Zenon DEF Descent
    <3>3. QED
      BY <3>2, <1>1, Zenon
  <2>2. ASSUME ~IsRead(s, 1), NEW k \in FillsOf(r)
        PROVE  IsBelow(w, a, f, r[k])
    <3>1. 1 \in FillsOf(s) /\ k + 1 \in FillsOf(s) /\ 1 < k + 1
      BY <1>1, <1>2, <2>2, Zenon
    <3>2. IsBelow(w, a, s[1], s[k + 1])
      BY <3>1, <1>4, Zenon DEF Descent
    <3>3. QED
      BY <3>2, <1>1, Zenon
  <2>3. QED
    BY <2>1, <2>2 DEF Descent
<1>5. ASSUME Descent(w, r, a),
             ~IsRead(s, 1) => \A k \in FillsOf(r) : IsBelow(w, a, f, r[k])
      PROVE  Descent(w, s, a)
  <2>1. SUFFICES ASSUME NEW i \in FillsOf(s), NEW k \in FillsOf(s), i < k
                 PROVE  IsBelow(w, a, s[i], s[k])
    BY Zenon DEF Descent
  <2>2. k # 1 /\ k - 1 \in FillsOf(r) /\ s[k] = r[k - 1]
    <3>1. i >= 1 /\ i \in Nat /\ k \in Nat
      BY <1>3
    <3>2. k # 1
      BY <3>1, <2>1
    <3>3. QED
      BY <3>2, <1>1, Zenon
  <2>3. CASE i = 1
    BY <2>2, <2>3, <1>1, <1>5, Zenon
  <2>4. CASE i # 1
    <3>1. i - 1 \in FillsOf(r) /\ s[i] = r[i - 1]
      BY <2>4, <1>1, Zenon
    <3>2. i - 1 < k - 1
      BY <2>1, <1>3
    <3>3. QED
      BY <3>1, <3>2, <2>2, <1>5, Zenon DEF Descent
  <2>5. QED
    BY <2>3, <2>4, Zenon
<1>6. QED
  BY <1>4, <1>5

LEMMA VisitedSplit ==
    ASSUME NEW w, NEW a, NEW V, NEW r \in Seq(Frames), NEW f \in Frames, NEW s, s = <<f>> \o r
    PROVE  VisitedFrames(w, s, a, V) <=>
               /\ VisitedFrames(w, r, a, V)
               /\ IF IsRead(s, 1) THEN VisitedRead(a, V, f) ELSE VisitedFill(w, a, V, f)
<1> DEFINE P(g, read) == IF read THEN VisitedRead(a, V, g) ELSE VisitedFill(w, a, V, g)
<1>1. /\ s[1] = f /\ Len(s) = Len(r) + 1 /\ Len(r) \in Nat
      /\ \A i \in 1..Len(r) : s[i + 1] = r[i] /\ (IsRead(s, i + 1) <=> IsRead(r, i))
      /\ \A i \in 2..Len(s) : i - 1 \in 1..Len(r) /\ s[i] = r[i - 1]
                              /\ (IsRead(s, i) <=> IsRead(r, i - 1))
  <2>1. Len(r) \in Nat
    OBVIOUS
  <2>3. Pushed(f, r, s)
    BY FillsOfPush, Zenon
  <2>4. QED
    BY <2>1, <2>3, Zenon DEF Pushed
<1>2. VisitedFrames(w, s, a, V) <=> \A i \in 1..Len(s) : P(s[i], IsRead(s, i))
  BY DEF VisitedFrames
<1>3. VisitedFrames(w, r, a, V) <=> \A i \in 1..Len(r) : P(r[i], IsRead(r, i))
  BY DEF VisitedFrames
<1>4. \A g : (P(g, TRUE) <=> VisitedRead(a, V, g)) /\ (P(g, FALSE) <=> VisitedFill(w, a, V, g))
  OBVIOUS
<1>5. \A i : IsRead(s, i) \in BOOLEAN /\ IsRead(r, i) \in BOOLEAN
  BY DEF IsRead
<1>6. (\A i \in 1..Len(s) : P(s[i], IsRead(s, i))) <=>
         (\A i \in 1..Len(r) : P(r[i], IsRead(r, i))) /\ P(f, IsRead(s, 1))
  <2>1. \A i \in 1..Len(r) : i + 1 \in 1..Len(s) /\ P(s[i + 1], IsRead(s, i + 1)) = P(r[i], IsRead(r, i))
    BY <1>1, <1>5
  <2>2. \A i \in 2..Len(s) : i - 1 \in 1..Len(r) /\ P(s[i], IsRead(s, i)) = P(r[i - 1], IsRead(r, i - 1))
    BY <1>1, <1>5, Zenon
  <2>3. 1 \in 1..Len(s) /\ \A i \in 1..Len(s) : i = 1 \/ i \in 2..Len(s)
    BY <1>1
  <2> HIDE DEF P
  <2>4. QED
    BY <2>1, <2>2, <2>3, <1>1, Zenon
<1>7. QED
  BY <1>2, <1>3, <1>6

KeepsFrames(w, c, j, s, d, i, b) ==
    /\ \A o \in Objects : Contains(c, o) => Contains(d, o)
    /\ \A o \in Objects, p \in {"value", "ref", "list"} :
           Contains(c, o) /\ AgreesOn(w, c, j, o, p) => AgreesOn(w, d, i, o, p)
    /\ \A o \in Objects : Completing(s, o) => o \notin d.connected \cup d.modified \cup b

\* The frames stay as they are when no instance is taken and nothing that agrees is
\* changed.
LEMMA FramesStay ==
    ASSUME NEW w, IsProgram(w), NEW c, NEW j, NEW b, NEW s, NEW a, FramesIn(w, c, j, b, s, a),
           NEW d, NEW i, NEW b2, KeepsFrames(w, c, j, s, d, i, b2)
    PROVE  FramesIn(w, d, i, b2, s, a)
<1>0. /\ \A o \in Objects : Contains(c, o) => Contains(d, o)
      /\ \A o \in Objects, p \in {"value", "ref", "list"} :
             Contains(c, o) /\ AgreesOn(w, c, j, o, p) => AgreesOn(w, d, i, o, p)
      /\ \A o \in Objects : Completing(s, o) => o \notin d.connected \cup d.modified \cup b2
  BY DEF KeepsFrames
<1>1. ASSUME NEW n \in 1..Len(s)
      PROVE  FrameIn(w, d, i, b2, s, n)
  <2>1. FrameIn(w, c, j, b, s, n)
    BY DEF FramesIn
  <2>2. CASE IsRead(s, n)
    <3>1. ReadIn(w, c, s[n])
      BY <2>1, <2>2 DEF FrameIn
    <3>2. \A m \in 1..Len(s[n].result) : s[n].result[m] \in Objects
      <4>1. s[n].result \in Seq(Objects)
        BY <3>1 DEF ReadIn, ReadFrame
      <4>2. QED
        BY <4>1
    <3>3. ReadIn(w, d, s[n])
      BY <3>1, <3>2, <1>0 DEF ReadIn
    <3>4. QED
      BY <2>2, <3>3 DEF FrameIn
  <2>3. CASE ~IsRead(s, n)
    <3>1. FillIn(w, c, j, b, s[n])
      BY <2>1, <2>3 DEF FrameIn
    <3>2. s[n].inst \in Objects /\ s[n].key \in Keys /\ s[n].at \in Nat /\ s[n].inst[1] = s[n].key
      BY <3>1 DEF FillIn, FillFrame
    <3>3. s[n].fresh => s[n].inst \notin d.connected \cup d.modified \cup b2
      <4>1. s[n].fresh => Completing(s, s[n].inst)
        BY <2>3 DEF Completing, FillsOf
      <4>2. QED
        BY <4>1, <3>2, <1>0
    <3>4. AgreesUpto(w, d, i, s[n].inst, s[n].at - 1)
      <4>1. SUFFICES ASSUME NEW m \in 1..(s[n].at - 1)
                     PROVE  AgreesOn(w, d, i, s[n].inst, Props(w, s[n].key)[m])
        BY <3>2 DEF AgreesUpto
      <4>2. Props(w, s[n].key) \in Seq({"value", "ref", "list"})
        BY <3>2, ProgramFacts
      <4>3. m \in 1..Len(Props(w, s[n].key))
        BY <3>1, <3>2, <4>2 DEF FillIn
      <4>4. Props(w, s[n].key)[m] \in {"value", "ref", "list"}
        BY <4>2, <4>3
      <4>5. AgreesOn(w, c, j, s[n].inst, Props(w, s[n].key)[m])
        BY <3>1, <3>2 DEF FillIn, AgreesUpto
      <4>6. Contains(c, s[n].inst)
        BY <3>1 DEF FillIn
      <4>7. QED
        BY <3>2, <4>4, <4>5, <4>6, <1>0
    <3>5. FillIn(w, d, i, b2, s[n])
      BY <3>1, <3>2, <3>3, <3>4, <1>0 DEF FillIn
    <3>6. QED
      BY <2>3, <3>5 DEF FrameIn
  <2>4. QED
    BY <2>2, <2>3
<1>2. QED
  BY <1>1 DEF FramesIn

TopIs(w, c, j, b, s, a) ==
    /\ s \in Seq(Frames) /\ s[1] \in Frames /\ Tail(s) \in Seq(Frames)
    /\ s = <<s[1]>> \o Tail(s) /\ Head(s) = s[1]
    /\ IsRead(s, 1) => s[1] \in ReadFrame /\ s[1].kind = "read" /\ ReadIn(w, c, s[1])
    /\ ~IsRead(s, 1) =>
           /\ s[1] \in FillFrame /\ s[1].kind = "fill" /\ FillIn(w, c, j, b, s[1])
           /\ Tail(s) # <<>> /\ IsRead(Tail(s), 1)
           /\ (s[1].overwrite => s[2].overwrite)
           /\ Tail(s)[1] = s[2] /\ s[2] \in ReadFrame /\ ReadIn(w, c, s[2])
    /\ Tail(s) # <<>> /\ IsRead(s, 1) =>
           /\ ~IsRead(Tail(s), 1) /\ Tail(s)[1] = s[2]
           /\ s[2] \in FillFrame /\ FillIn(w, c, j, b, s[2])
           /\ (s[1].overwrite => s[2].overwrite)
           /\ Len(s) >= 2
    /\ s[1].overwrite => a.why = "rollback"
    /\ Tail(s) = <<>> => IsRead(s, 1) /\ (s[1].overwrite <=> a.why = "rollback")

\* The first frame.
LEMMA TopFrame ==
    ASSUME NEW w, IsProgram(w), NEW c, NEW j, NEW b, NEW s, NEW a,
           FramesIn(w, c, j, b, s, a), s # <<>>
    PROVE  TopIs(w, c, j, b, s, a)
<1>1. s \in Seq(Frames)
  BY DEF FramesIn
<1>2. /\ s[1] \in Frames /\ Head(s) = s[1] /\ Tail(s) \in Seq(Frames) /\ s = <<s[1]>> \o Tail(s)
      /\ Len(s) = Len(Tail(s)) + 1
      /\ IsRead(s, 1) <=> (Tail(s) = <<>> \/ ~IsRead(Tail(s), 1))
  BY <1>1, Split
<1>3. /\ 1 \in 1..Len(s) /\ (Tail(s) # <<>> => Len(s) >= 2 /\ Tail(s)[1] = s[2])
      /\ Len(s) \in 1..Len(s) /\ (Tail(s) = <<>> => Len(s) = 1)
  <2>1. Pushed(s[1], Tail(s), s)
    BY <1>2, FillsOfPush, Zenon
  <2>2. /\ Len(Tail(s)) \in Nat /\ Len(s) = Len(Tail(s)) + 1 /\ (Tail(s) = <<>> => Len(Tail(s)) = 0)
        /\ Tail(s) # <<>> => Len(Tail(s)) >= 1
    BY <1>2, EmptyFacts, Zenon
  <2>3. Tail(s) # <<>> => 1 \in 1..Len(Tail(s)) /\ 1 + 1 = 2
    BY <2>2
  <2>4. Tail(s) # <<>> => Tail(s)[1] = s[2]
    BY <2>1, <2>3 DEF Pushed
  <2>5. QED
    BY <2>2, <2>4
<1>4. FrameIn(w, c, j, b, s, 1)
  BY <1>3 DEF FramesIn
<1>5. IsRead(s, 1) => s[1] \in ReadFrame /\ s[1].kind = "read" /\ ReadIn(w, c, s[1])
  BY <1>4 DEF FrameIn, ReadIn, ReadFrame
<1>6. ~IsRead(s, 1) => s[1] \in FillFrame /\ s[1].kind = "fill" /\ FillIn(w, c, j, b, s[1])
  BY <1>4 DEF FrameIn, FillIn, FillFrame
<1>7. Tail(s) # <<>> => (s[1].overwrite => s[2].overwrite) /\ FrameIn(w, c, j, b, s, 2)
                        /\ (IsRead(s, 2) <=> ~IsRead(s, 1)) /\ (IsRead(Tail(s), 1) <=> IsRead(s, 2))
  <2> SUFFICES ASSUME Tail(s) # <<>>
               PROVE  (s[1].overwrite => s[2].overwrite) /\ FrameIn(w, c, j, b, s, 2)
                      /\ (IsRead(s, 2) <=> ~IsRead(s, 1)) /\ (IsRead(Tail(s), 1) <=> IsRead(s, 2))
    OBVIOUS
  <2>1. 2 \in 1..Len(s) /\ 1 < 2 /\ 1 + 1 = 2 /\ Len(Tail(s)) \in Nat
    BY <1>1, <1>2, <1>3
  <2>2. (s[1].overwrite => s[2].overwrite) /\ FrameIn(w, c, j, b, s, 2)
    BY <1>3, <2>1 DEF FramesIn
  <2>3. IsRead(Tail(s), 1) <=> IsRead(s, 2)
    BY <1>2, <2>1, Parity, ZenonT(40)
  <2>4. QED
    BY <1>2, <2>2, <2>3
<1>8. Tail(s) # <<>> /\ IsRead(s, 1) =>
          /\ ~IsRead(Tail(s), 1) /\ Tail(s)[1] = s[2]
          /\ s[2] \in FillFrame /\ FillIn(w, c, j, b, s[2])
          /\ (s[1].overwrite => s[2].overwrite) /\ Len(s) >= 2
  BY <1>2, <1>3, <1>7 DEF FrameIn, FillIn
<1>9. ~IsRead(s, 1) =>
          /\ Tail(s) # <<>> /\ IsRead(Tail(s), 1) /\ (s[1].overwrite => s[2].overwrite)
          /\ Tail(s)[1] = s[2] /\ s[2] \in ReadFrame /\ ReadIn(w, c, s[2])
  BY <1>2, <1>3, <1>7, Zenon DEF FrameIn, ReadIn
<1>10. s[Len(s)].overwrite <=> a.why = "rollback"
  BY DEF FramesIn
<1>11. s[1].overwrite => a.why = "rollback"
  <2>1. CASE Len(s) = 1
    BY <2>1, <1>10
  <2>2. CASE Len(s) # 1
    <3>1. 1 < Len(s)
      BY <1>3, <2>2
    <3>2. s[1].overwrite => s[Len(s)].overwrite
      BY <1>3, <3>1 DEF FramesIn
    <3>3. QED
      BY <3>2, <1>10
  <2>3. QED
    BY <2>1, <2>2
<1>12. Tail(s) = <<>> => IsRead(s, 1) /\ (s[1].overwrite <=> a.why = "rollback")
  BY <1>2, <1>3, <1>10
<1>13. QED
  BY <1>1, <1>2, <1>5, <1>6, <1>8, <1>9, <1>11, <1>12 DEF TopIs

\* The stacks say the same of what is being read.
SameReads(s, t) ==
    /\ \A o : Completing(s, o) <=> Completing(t, o)
    /\ \A k : Overwriting(s, k) <=> Overwriting(t, k)

Advanced(w, c, j, b, s, a, t) ==
    /\ StackIn(w, c, j, b, t, a) /\ t # <<>>
    /\ SameReads(s, t) /\ \A k : Waiting(s, k) <=> Waiting(t, k)
    /\ Descent(w, s, a) => Descent(w, t, a)
    /\ \A V : /\ VisitedFrames(w, s, a, V)
              /\ s[1].overwrite /\ Props(w, s[1].key)[s[1].at] = "list" =>
                     ListedRows(w, s[1].key) \cap a.known \subseteq V
              => VisitedFrames(w, t, a, V)

\* A property is set, and the fill goes on.
LEMMA MoveAdvance ==
    ASSUME NEW w, IsProgram(w), NEW c, NEW j, NEW b, NEW s, NEW a,
           FramesIn(w, c, j, b, s, a), s # <<>>, ~IsRead(s, 1),
           s[1].at <= Len(Props(w, s[1].key)),
           AgreesOn(w, c, j, s[1].inst, Props(w, s[1].key)[s[1].at]),
           NEW t, t = <<[Head(s) EXCEPT !.at = @ + 1]>> \o Tail(s)
    PROVE  Advanced(w, c, j, b, s, a, t)
<1> DEFINE r == Tail(s)
           f == s[1]
           g == [f EXCEPT !.at = @ + 1]
<1>1. /\ s \in Seq(Frames) /\ f \in FillFrame /\ r \in Seq(Frames) /\ r # <<>> /\ s = <<f>> \o r
      /\ FillIn(w, c, j, b, f) /\ (f.overwrite => s[2].overwrite) /\ r[1] = s[2] /\ IsRead(r, 1)
      /\ f \in Frames /\ Head(s) = f
  <2>1. TopIs(w, c, j, b, s, a)
    BY TopFrame
  <2>2. QED
    BY <2>1 DEF TopIs
<1>2. /\ g \in FillFrame /\ g \in Frames /\ g.inst = f.inst /\ g.key = f.key /\ g.at = f.at + 1
      /\ g.fresh = f.fresh /\ g.overwrite = f.overwrite /\ g.at \in Nat /\ f.at \in Nat
  <2> HIDE DEF f
  <2>1. f \in FillFrame
    BY <1>1
  <2>2. f.at \in Nat /\ f.at + 1 \in Nat
    BY <2>1 DEF FillFrame
  <2>3. QED
    BY <2>1, <2>2, Zenon DEF FillFrame, Frames
<1>3. t = <<g>> \o r
  BY <1>1
<1>4. AgreesUpto(w, c, j, g.inst, g.at - 1)
  <2>1. f.inst[1] = f.key
    BY <1>1 DEF FillIn
  <2>2. SUFFICES ASSUME NEW m \in 1..(g.at - 1)
                 PROVE  AgreesOn(w, c, j, f.inst, Props(w, f.key)[m])
    BY <1>2, <2>1 DEF AgreesUpto
  <2>3. m = f.at \/ m \in 1..(f.at - 1)
    BY <1>2
  <2>4. QED
    BY <2>1, <2>3, <1>1 DEF FillIn, AgreesUpto
<1>5. FillIn(w, c, j, b, g)
  <2>1. Len(Props(w, f.key)) \in Nat
    <3>1. f.key \in Keys
      BY <1>1 DEF FillFrame
    <3>2. Props(w, f.key) \in Seq({"value", "ref", "list"})
      BY <3>1, ProgramFacts
    <3>3. QED
      BY <3>2
  <2>2. g.at \in 1..(Len(Props(w, g.key)) + 1)
    BY <1>2, <2>1
  <2>3. QED
    BY <1>1, <1>2, <1>4, <2>2 DEF FillIn
<1> HIDE DEF r, f, g
<1>3a. Pushed(f, r, s) /\ Pushed(g, r, t) /\ PushedReads(f, r, s) /\ PushedReads(g, r, t)
  BY <1>1, <1>2, <1>3, FillsOfPush, FillsSplit, Zenon
<1>6. FramesIn(w, c, j, b, r, a)
  BY <1>1, PopFrame DEF r
<1>7. IsRead(s, 1) <=> IsRead(t, 1)
  <2>1. (IsRead(s, 1) <=> Len(r) % 2 = 0) /\ (IsRead(t, 1) <=> Len(r) % 2 = 0)
    BY <1>3a DEF Pushed
  <2>2. QED
    BY <2>1
<1>8. Len(t) = Len(s) /\ t # <<>>
  <2>1. Len(s) = Len(r) + 1 /\ Len(t) = Len(r) + 1 /\ t # <<>>
    BY <1>3a DEF Pushed
  <2>2. QED
    BY <2>1
<1>9. Len(r) >= 2 => ReadFor(w, r[1], r[2], 1, g.key) /\ (WaitsForRef(w, r[2]) => g.fresh)
  <2> SUFFICES ASSUME Len(r) >= 2
               PROVE  ReadFor(w, r[1], r[2], 1, g.key) /\ (WaitsForRef(w, r[2]) => g.fresh)
    OBVIOUS
  <2>1. Len(s) = Len(r) + 1 /\ Len(r) \in Nat /\ r[1] = s[2] /\ r[2] = s[3]
    BY <1>1 DEF r
  <2>2. 2 \in 2..(Len(s) - 1) /\ 2 - 1 = 1 /\ 2 + 1 = 3
    BY <2>1
  <2>3. IsRead(s, 2)
    BY <1>1, <2>1, Parity DEF IsRead
  <2>4. LinkIn(w, s, 2)
    BY <2>2, <2>3 DEF FramesIn
  <2>5. QED
    BY <2>1, <2>2, <2>4, <1>2 DEF LinkIn, f
<1>10. FramesIn(w, c, j, b, t, a)
  <2>1. Len(t) + (Len(t) % 2) <= MaxStack
    BY <1>8 DEF FramesIn
  <2>2. g.overwrite => r[1].overwrite
    BY <1>1, <1>2
  <2>3. ~IsRead(t, 1)
    BY <1>7
  <2>4. QED
    BY <1>1, <1>3, <1>5, <1>6, <1>9, <2>1, <2>2, <2>3, PushFrame, Zenon
<1>11. StackIn(w, c, j, b, t, a)
  BY <1>7, <1>10 DEF StackIn, TopIn
<1>12. SameReads(s, t) /\ \A k : Waiting(s, k) <=> Waiting(t, k)
  <2>1. \A o : (Completing(s, o) <=> (f.fresh /\ f.inst = o) \/ Completing(r, o))
               /\ (Completing(t, o) <=> (g.fresh /\ g.inst = o) \/ Completing(r, o))
    BY <1>1, <1>3a, <1>7, Zenon DEF PushedReads
  <2>2. \A k : (Overwriting(s, k) <=> (f.overwrite /\ f.key = k) \/ Overwriting(r, k))
               /\ (Overwriting(t, k) <=> (g.overwrite /\ g.key = k) \/ Overwriting(r, k))
    BY <1>1, <1>3a, <1>7, Zenon DEF PushedReads
  <2>3. \A k : (Waiting(s, k) <=> Waiting(r, k)) /\ (Waiting(t, k) <=> Waiting(r, k))
    BY <1>1, <1>3a, Zenon DEF PushedReads
  <2>4. QED
    BY <2>1, <2>2, <2>3, <1>2, Zenon DEF SameReads
<1>13. Descent(w, s, a) => Descent(w, t, a)
  <2>1. \A k \in FillsOf(r) : IsBelow(w, a, f, r[k]) => IsBelow(w, a, g, r[k])
    BY <1>2 DEF IsBelow
  <2>2. Descent(w, s, a) <=> Descent(w, r, a) /\ \A k \in FillsOf(r) : IsBelow(w, a, f, r[k])
    BY <1>1, DescentSplit, Zenon
  <2>3. Descent(w, t, a) <=> Descent(w, r, a) /\ \A k \in FillsOf(r) : IsBelow(w, a, g, r[k])
    BY <1>1, <1>2, <1>3, <1>7, DescentSplit, Zenon
  <2>4. QED
    BY <2>1, <2>2, <2>3
<1>14. ASSUME NEW V, VisitedFrames(w, s, a, V),
              f.overwrite /\ Props(w, f.key)[f.at] = "list" =>
                  ListedRows(w, f.key) \cap a.known \subseteq V
       PROVE  VisitedFrames(w, t, a, V)
  <2>1. VisitedFrames(w, r, a, V) /\ VisitedFill(w, a, V, f)
    BY <1>1, <1>14, VisitedSplit, Zenon
  <2>2. VisitedFill(w, a, V, g)
    <3>1. \A n \in 1..(g.at - 1) : n = f.at \/ n \in 1..(f.at - 1)
      BY <1>2
    <3>2. QED
      BY <2>1, <3>1, <1>2, <1>14, Zenon DEF VisitedFill
  <2>3. QED
    BY <2>1, <2>2, <1>1, <1>2, <1>3, <1>7, VisitedSplit, Zenon
<1>15. QED
  BY <1>8, <1>11, <1>12, <1>13, <1>14, Zenon DEF f, Advanced

Asked(w, c, j, b, s, a, t) ==
    /\ StackIn(w, c, j, b, t, a) /\ t # <<>>
    /\ SameReads(s, t) /\ \A k : Waiting(s, k) <=> Waiting(t, k)
    /\ Descent(w, s, a) => Descent(w, t, a)
    /\ \A V : VisitedFrames(w, s, a, V) => VisitedFrames(w, t, a, V)

\* A fill asks for rows.
LEMMA MoveAsk ==
    ASSUME NEW w, IsProgram(w), NEW c, NEW j, NEW b, NEW s, NEW a,
           FramesIn(w, c, j, b, s, a), s # <<>>, ~IsRead(s, 1), Len(s) + 2 <= MaxStack,
           s[1].at <= Len(Props(w, s[1].key)),
           Props(w, s[1].key)[s[1].at] \in {"ref", "list"},
           Props(w, s[1].key)[s[1].at] = "ref" =>
               ~IsNull(w, s[1].key) /\ (Ref(w, s[1].key) \in Keys => Get(c, Ref(w, s[1].key)) = NoInstance),
           NEW t, t = <<Reads(AskedRows(w, s[1]), s[1].overwrite)>> \o s
    PROVE  Asked(w, c, j, b, s, a, t)
<1> DEFINE f == s[1]
           r == Reads(AskedRows(w, f), f.overwrite)
<1>1. s \in Seq(Frames) /\ f \in FillFrame /\ FillIn(w, c, j, b, f)
  <2>1. TopIs(w, c, j, b, s, a)
    BY TopFrame
  <2>2. QED
    BY <2>1 DEF TopIs
<1>2. f.key \in Keys /\ f.overwrite \in BOOLEAN
  BY <1>1 DEF FillFrame
<1>3. ReadFor(w, r, f, 0, f.key) /\ ReadIn(w, c, r)
  <2>1. \A k : ReadFor(w, r, f, 0, k) /\ \A x : ReadIn(w, x, r)
    BY <1>2, ReadForStart, Zenon
  <2>2. QED
    BY <2>1, Zenon
<1>4. r.left = InOrder(AskedRows(w, f)) /\ r.result = <<>> /\ r.overwrite = f.overwrite
  BY DEF Reads
<1>5. r \in Frames
  BY <1>3 DEF ReadIn, Frames
<1> HIDE DEF r, f
<1>6. t = <<r>> \o s
  BY DEF r, f
<1>6a. Pushed(r, s, t) /\ PushedReads(r, s, t)
  BY <1>1, <1>5, <1>6, FillsOfPush, FillsSplit, Zenon
<1>7. /\ t # <<>> /\ t[1] = r /\ Len(t) = Len(s) + 1 /\ t[2] = f /\ Len(t) >= 2 /\ IsRead(t, 1)
      /\ Len(s) % 2 = 0
  <2>1. /\ t # <<>> /\ t[1] = r /\ Len(t) = Len(s) + 1
        /\ IsRead(t, 1) <=> Len(s) % 2 = 0
        /\ IsRead(t, 1) <=> (s = <<>> \/ ~IsRead(s, 1))
        /\ \A i \in 1..Len(s) : t[i + 1] = s[i]
    BY <1>6a DEF Pushed
  <2>2. 1 \in 1..Len(s) /\ 1 + 1 = 2 /\ Len(s) >= 1
    BY <1>1
  <2>3. QED
    BY <2>1, <2>2 DEF f
<1>8. FramesIn(w, c, j, b, t, a)
  <2>1. Len(t) + (Len(t) % 2) <= MaxStack
    <3>1. PICK N \in Nat : N = Len(s)
      BY <1>1
    <3>2. N % 2 = 0 => (N + 1) % 2 = 1
      BY EvenOdd
    <3>3. N % 2 = 0 /\ Len(t) = N + 1 /\ N + 2 <= MaxStack
      BY <3>1, <1>7
    <3>4. QED
      BY <3>2, <3>3, Bounds
  <2>2. r.overwrite => s[1].overwrite
    BY <1>4 DEF f
  <2>3. QED
    BY <1>3, <1>6, <1>7, <2>1, <2>2, PushFrame, Zenon
<1>9. TopIn(w, c, t)
  <2>1. WaitsForRef(w, f) /\ r.left # <<>> => Get(c, r.left[1]) = NoInstance
    <3> SUFFICES ASSUME WaitsForRef(w, f), r.left # <<>>
                 PROVE  Get(c, r.left[1]) = NoInstance
      OBVIOUS
    <3>1. AskedRows(w, f) = RefRows(w, f.key)
      BY DEF WaitsForRef, AskedRows
    <3>2. r.left \in Seq(Keys) /\ \A n \in 1..Len(r.left) : r.left[n] = Ref(w, f.key) /\ Ref(w, f.key) \in Keys
      BY <1>4, <3>1, RefFacts
    <3>3. 1 \in 1..Len(r.left)
      BY <3>2
    <3>4. QED
      BY <3>2, <3>3 DEF WaitsForRef, f
  <2>2. QED
    BY <2>1, <1>3, <1>7 DEF TopIn
<1>10. SameReads(s, t) /\ \A k : Waiting(s, k) <=> Waiting(t, k)
  <2>1. \A o : Completing(t, o) <=> Completing(s, o)
    BY <1>1, <1>6a, <1>7 DEF PushedReads
  <2>2. \A k : Overwriting(t, k) <=> Overwriting(s, k)
    BY <1>1, <1>6a, <1>7 DEF PushedReads
  <2>3. \A k : Waiting(t, k) <=> Waiting(s, k)
    BY <1>1, <1>6a, Zenon DEF PushedReads
  <2>4. QED
    BY <2>1, <2>2, <2>3 DEF SameReads
<1>11. Descent(w, s, a) => Descent(w, t, a)
  BY <1>1, <1>5, <1>6, <1>7, DescentSplit, Zenon
<1>12. \A V : VisitedFrames(w, s, a, V) => VisitedFrames(w, t, a, V)
  <2>1. \A V : VisitedRead(a, V, r)
    BY <1>4 DEF VisitedRead
  <2>2. QED
    BY <2>1, <1>1, <1>5, <1>6, <1>7, VisitedSplit, Zenon
<1>13. QED
  BY <1>7, <1>8, <1>9, <1>10, <1>11, <1>12 DEF StackIn, Asked

Returned(w, c, j, b, s, a, t) ==
    /\ FramesIn(w, c, j, b, t, a) /\ ~IsRead(t, 1) /\ t[1] = s[2]
    /\ SameReads(s, t) /\ \A k : Waiting(s, k) <=> Waiting(t, k)
    /\ Descent(w, s, a) => Descent(w, t, a)
    /\ \A V : VisitedFrames(w, s, a, V) => VisitedFrames(w, t, a, V) /\ VisitedRead(a, V, s[1])

\* A read returns to the fill.
LEMMA MoveReturn ==
    ASSUME NEW w, IsProgram(w), NEW c, NEW j, NEW b, NEW s, NEW a,
           FramesIn(w, c, j, b, s, a), s # <<>>, IsRead(s, 1), Tail(s) # <<>>,
           NEW t, t = Tail(s)
    PROVE  Returned(w, c, j, b, s, a, t)
<1>1. /\ s \in Seq(Frames) /\ s[1] \in Frames /\ t \in Seq(Frames) /\ s = <<s[1]>> \o t
      /\ ~IsRead(t, 1) /\ t[1] = s[2]
  <2>1. TopIs(w, c, j, b, s, a)
    BY TopFrame
  <2>2. QED
    BY <2>1 DEF TopIs
<1>1a. PushedReads(s[1], t, s)
  BY <1>1, FillsSplit, Zenon
<1>2. FramesIn(w, c, j, b, t, a)
  BY PopFrame
<1>3. SameReads(s, t) /\ \A k : Waiting(s, k) <=> Waiting(t, k)
  <2>1. \A o : Completing(s, o) <=> Completing(t, o)
    BY <1>1, <1>1a DEF PushedReads
  <2>2. \A k : Overwriting(s, k) <=> Overwriting(t, k)
    BY <1>1, <1>1a DEF PushedReads
  <2>3. \A k : Waiting(s, k) <=> Waiting(t, k)
    BY <1>1, <1>1a DEF PushedReads
  <2>4. QED
    BY <2>1, <2>2, <2>3 DEF SameReads
<1>4. Descent(w, s, a) => Descent(w, t, a)
  BY <1>1, DescentSplit, Zenon
<1>5. \A V : VisitedFrames(w, s, a, V) => VisitedFrames(w, t, a, V) /\ VisitedRead(a, V, s[1])
  BY <1>1, VisitedSplit, Zenon
<1>6. QED
  BY <1>1, <1>2, <1>3, <1>4, <1>5 DEF Returned

IsNext(r, u) ==
    /\ u \in ReadFrame /\ u.left = Tail(r.left) /\ u.result = r.result
    /\ u.overwrite = r.overwrite /\ Head(r.left) = r.left[1] /\ r.left[1] \in Keys
    /\ Len(r.left) >= 1 /\ Len(u.left) = Len(r.left) - 1
    /\ \A n \in 1..Len(u.left) : n + 1 \in 1..Len(r.left) /\ u.left[n] = r.left[n + 1]
    /\ \A n \in 1..Len(r.left) : n = 1 \/ (n - 1 \in 1..Len(u.left) /\ u.left[n - 1] = r.left[n])

LEMMA NextRowFacts ==
    ASSUME NEW r \in ReadFrame, r.left # <<>>, NEW u, u = [r EXCEPT !.left = Tail(@)]
    PROVE  IsNext(r, u)
<1>1. r.left \in Seq(Keys)
  BY DEF ReadFrame
<1>2. u \in ReadFrame /\ u.left = Tail(r.left) /\ u.result = r.result /\ u.overwrite = r.overwrite
  <2>1. Tail(r.left) \in Seq(Keys)
    BY <1>1
  <2>2. QED
    BY <2>1, Zenon DEF ReadFrame
<1> DEFINE l == r.left
<1>3. /\ Head(l) = l[1] /\ l[1] \in Keys /\ Len(l) >= 1 /\ Len(l) \in Nat /\ Len(Tail(l)) = Len(l) - 1
      /\ \A n \in 1..(Len(l) - 1) : Tail(l)[n] = l[n + 1]
  BY <1>1, PopFacts
<1> HIDE DEF l
<1>4. /\ \A n \in 1..(Len(l) - 1) : n + 1 \in 1..Len(l)
      /\ \A n \in 1..Len(l) : n = 1 \/ (n - 1 \in 1..(Len(l) - 1) /\ (n - 1) + 1 = n)
  BY <1>3
<1>5. QED
  BY <1>2, <1>3, <1>4 DEF l, IsNext

HasResult(r, x, u) ==
    /\ u \in ReadFrame /\ u.left = r.left /\ u.overwrite = r.overwrite
    /\ u.result = Append(r.result, x)
    /\ \A n \in 1..Len(u.result) : \/ n \in 1..Len(r.result) /\ u.result[n] = r.result[n]
                                   \/ u.result[n] = x

LEMMA ResultFacts ==
    ASSUME NEW r \in ReadFrame, NEW x \in Objects, NEW u, u = [r EXCEPT !.result = Append(@, x)]
    PROVE  HasResult(r, x, u)
<1>1. r.result \in Seq(Objects)
  BY DEF ReadFrame
<1>2. Append(r.result, x) \in Seq(Objects)
  BY <1>1
<1>3. u \in ReadFrame /\ u.left = r.left /\ u.result = Append(r.result, x) /\ u.overwrite = r.overwrite
  BY <1>2, Zenon DEF ReadFrame
<1> DEFINE q == r.result
<1>4. q \in Seq(Objects)
  BY <1>1
<1> HIDE DEF q
<1>5. \A n \in 1..Len(Append(q, x)) : \/ n \in 1..Len(q) /\ Append(q, x)[n] = q[n]
                                      \/ Append(q, x)[n] = x
  BY <1>4
<1>6. QED
  BY <1>3, <1>5 DEF q, HasResult

\* A reference is one row.
LEMMA OneReference ==
    ASSUME NEW w, NEW r \in ReadFrame, NEW f, f.key \in Keys, NEW h \in 0..1, NEW k,
           ReadFor(w, r, f, h, k), WaitsForRef(w, f)
    PROVE  Len(r.left) + h <= 1
<1>1. AskedRows(w, f) = RefRows(w, f.key)
  BY DEF WaitsForRef, AskedRows
<1> DEFINE q == InOrder(AskedRows(w, f))
<1>2. Len(q) \in {0, 1}
  BY <1>1, RefFacts
<1>3. Len(q) = Len(r.result) + h + Len(r.left)
  BY DEF ReadFor
<1>4. Len(r.left) \in Nat /\ Len(r.result) \in Nat
  BY DEF ReadFrame
<1> HIDE DEF q
<1>5. PICK L \in Nat : L = Len(r.left)
  BY <1>4
<1>6. PICK N \in Nat : N = Len(r.result)
  BY <1>4
<1>7. N + h + L \in {0, 1}
  BY <1>2, <1>3, <1>5, <1>6, Zenon
<1>8. L + h <= 1
  BY <1>7
<1>9. QED
  BY <1>5, <1>8

Taken(w, c, j, b, s, a, t) ==
    /\ StackIn(w, c, j, b, t, a) /\ t # <<>>
    /\ SameReads(s, t) /\ \A k : a.why = "rollback" /\ Waiting(s, k) => Waiting(t, k)
    /\ \A k : a.why = "rollback" /\ Waiting(t, k) => Waiting(s, k)
    /\ Descent(w, s, a) => Descent(w, t, a)
    /\ \A V : VisitedFrames(w, s, a, V) => VisitedFrames(w, t, a, V)

\* A read takes what is cached.
LEMMA MoveCached ==
    ASSUME NEW w, IsProgram(w), NEW c, NEW j, NEW b, NEW s, NEW a,
           StackIn(w, c, j, b, s, a), s # <<>>, IsRead(s, 1), s[1].left # <<>>, ~s[1].overwrite,
           NEW x \in Objects, Contains(c, x), x[1] = Head(s[1].left),
           Get(c, Head(s[1].left)) = x,
           NEW t, t = <<[[s[1] EXCEPT !.left = Tail(@)] EXCEPT !.result = Append(@, x)]>> \o Tail(s)
    PROVE  Taken(w, c, j, b, s, a, t)
<1> DEFINE r == Tail(s)
           g == s[1]
           u == [g EXCEPT !.left = Tail(@)]
           v == [u EXCEPT !.result = Append(@, x)]
<1>1. FramesIn(w, c, j, b, s, a) /\ TopIn(w, c, s)
  BY DEF StackIn
<1>2. /\ s \in Seq(Frames) /\ g \in Frames /\ r \in Seq(Frames) /\ s = <<g>> \o r
      /\ g \in ReadFrame /\ ReadIn(w, c, g)
      /\ r = <<>> => ~(a.why = "rollback")
      /\ r # <<>> => /\ ~IsRead(r, 1) /\ r[1] = s[2] /\ Len(s) >= 2
                     /\ s[2] \in FillFrame
  <2>1. TopIs(w, c, j, b, s, a)
    BY <1>1, TopFrame
  <2>2. QED
    BY <2>1 DEF TopIs
<1> HIDE DEF r, g
<1>3. /\ u \in ReadFrame /\ u.left = Tail(g.left) /\ u.result = g.result /\ u.overwrite = g.overwrite
      /\ Head(g.left) = g.left[1] /\ g.left[1] \in Keys
      /\ \A n \in 1..Len(u.left) : n + 1 \in 1..Len(g.left) /\ u.left[n] = g.left[n + 1]
  <2>1. IsNext(g, u)
    BY <1>2, NextRowFacts, Zenon DEF g
  <2> HIDE DEF u
  <2>2. QED
    BY <2>1 DEF IsNext
<1> HIDE DEF u
<1>4. /\ v \in ReadFrame /\ v.left = u.left /\ v.overwrite = u.overwrite
      /\ v.result = Append(u.result, x)
      /\ \A n \in 1..Len(v.result) : \/ n \in 1..Len(u.result) /\ v.result[n] = u.result[n]
                                     \/ v.result[n] = x
  <2>1. HasResult(u, x, v)
    BY <1>3, ResultFacts
  <2> HIDE DEF v
  <2>2. QED
    BY <2>1 DEF HasResult
<1>5. t = <<v>> \o r
  BY DEF r, v, u, g
<1> HIDE DEF v
<1>6. v \in Frames
  BY <1>4 DEF Frames
<1>7. Pushed(g, r, s) /\ Pushed(v, r, t) /\ PushedReads(g, r, s) /\ PushedReads(v, r, t)
  BY <1>2, <1>5, <1>6, FillsOfPush, FillsSplit, Zenon
<1>8. /\ IsRead(t, 1) /\ Len(t) = Len(s) /\ t # <<>> /\ t[1] = v
      /\ \A i \in 2..Len(s) : t[i] = s[i]
  BY <1>7 DEF Pushed
<1>9. ReadIn(w, c, v)
  <2>1. \A n \in 1..Len(v.left) : HasRow(w, v.left[n])
    BY <1>2, <1>3, <1>4 DEF ReadIn
  <2>2. \A n \in 1..Len(v.result) : Contains(c, v.result[n])
    BY <1>2, <1>3, <1>4 DEF ReadIn
  <2>3. QED
    BY <1>4, <2>1, <2>2 DEF ReadIn
<1>10. FramesIn(w, c, j, b, r, a)
  BY <1>1, PopFrame DEF r
<1>11. FramesIn(w, c, j, b, t, a)
  <2>1. Len(t) + (Len(t) % 2) <= MaxStack
    BY <1>1, <1>8 DEF FramesIn
  <2>2. ~v.overwrite
    BY <1>3, <1>4 DEF g
  <2>3. r = <<>> => a.why # "none" /\ (v.overwrite <=> a.why = "rollback")
    BY <1>1, <1>2, <2>2 DEF FramesIn
  <2>4. QED
    BY <1>5, <1>8, <1>9, <1>10, <2>1, <2>2, <2>3, PushFrame, Zenon
<1>12. TopIn(w, c, t)
  <2> SUFFICES ASSUME Len(t) >= 2
               PROVE  /\ ReadFor(w, t[1], t[2], 0, t[2].key)
                      /\ ~WaitsForRef(w, t[2])
    BY DEF TopIn
  <2>1. Len(s) >= 2 /\ t[2] = s[2] /\ s[2] \in FillFrame
    <3>1. Len(s) >= 2 /\ 2 \in 2..Len(s) /\ Len(r) \in Nat /\ Len(s) = Len(r) + 1
      BY <1>2, <1>7, <1>8 DEF Pushed
    <3>2. r # <<>>
      BY <3>1, EmptyFacts, <1>2
    <3>3. QED
      BY <3>1, <3>2, <1>2, <1>8
  <2>2. ReadFor(w, g, s[2], 0, s[2].key) /\ (WaitsForRef(w, s[2]) => Get(c, g.left[1]) = NoInstance)
    BY <1>1, <2>1 DEF TopIn, g
  <2>3. ~WaitsForRef(w, s[2])
    <3>1. x # NoInstance
      BY NoneAssumption
    <3>2. QED
      BY <2>2, <3>1, <1>3 DEF g
  <2>4. s[2].key \in Keys
    BY <2>1 DEF FillFrame
  <2>5. ReadFor(w, u, s[2], 1, Head(g.left))
    BY <2>2, <2>4, <1>2, ReadForEnter, Zenon DEF u, g
  <2>6. ReadFor(w, v, s[2], 0, s[2].key)
    <3>1. x[1] = Head(g.left)
      BY DEF g
    <3>2. QED
      BY <2>4, <2>5, <3>1, <1>3, ReadForEnd, Zenon DEF v
  <2>7. QED
    BY <2>1, <2>3, <2>6, <1>8
<1>13. SameReads(s, t)
  BY <1>2, <1>7, <1>8 DEF SameReads, PushedReads
<1>14. \A k : a.why = "rollback" => (Waiting(s, k) <=> Waiting(t, k))
  BY <1>2, <1>7, Zenon DEF PushedReads
<1>15. Descent(w, s, a) => Descent(w, t, a)
  BY <1>2, <1>5, <1>6, <1>8, DescentSplit, Zenon
<1>16. \A V : VisitedFrames(w, s, a, V) => VisitedFrames(w, t, a, V)
  <2>1. \A V : VisitedRead(a, V, v)
    BY <1>3, <1>4 DEF VisitedRead, g
  <2>2. QED
    BY <2>1, <1>2, <1>5, <1>6, <1>8, VisitedSplit, Zenon
<1>17. QED
  BY <1>8, <1>11, <1>12, <1>13, <1>14, <1>15, <1>16 DEF StackIn, Taken

Entered(w, c, d, i, b2, s, a, f, t) ==
    /\ StackIn(w, d, i, b2, t, a) /\ t # <<>>
    /\ \A o : Completing(t, o) <=> (f.fresh /\ f.inst = o) \/ Completing(s, o)
    /\ \A k : Overwriting(t, k) <=> (f.overwrite /\ f.key = k) \/ Overwriting(s, k)
    /\ \A k : Waiting(s, k) => Waiting(t, k) \/ k = f.key
    /\ \A k : Waiting(t, k) => Waiting(s, k)
    /\ Tail(s) = <<>> => Waiting(s, f.key)
    /\ Descent(w, s, a) /\ (\A k \in FillsOf(Tail(s)) : IsBelow(w, a, f, Tail(s)[k])) =>
           Descent(w, t, a)
    /\ \A V : VisitedFrames(w, s, a, V) /\ VisitedFill(w, a, V, f) => VisitedFrames(w, t, a, V)

\* A read has a row filled, after the cache c has become d and the instances j have
\* become i.
LEMMA MoveEnter ==
    ASSUME NEW w, IsProgram(w), NEW c, NEW j, NEW b, NEW s, NEW a,
           StackIn(w, c, j, b, s, a), s # <<>>, IsRead(s, 1), s[1].left # <<>>,
           NEW d, NEW i, NEW b2, FramesIn(w, d, i, b2, s, a),
           NEW f, FillIn(w, d, i, b2, f), f.key = Head(s[1].left),
           f.overwrite => s[1].overwrite,
           Get(c, f.key) = NoInstance => f.fresh,
           NEW t, t = <<f>> \o (<<[s[1] EXCEPT !.left = Tail(@)]>> \o Tail(s))
    PROVE  Entered(w, c, d, i, b2, s, a, f, t)
<1> DEFINE r == Tail(s)
           g == s[1]
           u == [g EXCEPT !.left = Tail(@)]
           m == <<u>> \o r
<1>1. FramesIn(w, c, j, b, s, a) /\ TopIn(w, c, s)
  BY DEF StackIn
<1>2. /\ s \in Seq(Frames) /\ g \in Frames /\ r \in Seq(Frames) /\ s = <<g>> \o r
      /\ g \in ReadFrame /\ ReadIn(w, d, g)
      /\ g.overwrite => a.why = "rollback"
      /\ r = <<>> => (g.overwrite <=> a.why = "rollback")
      /\ r # <<>> => /\ ~IsRead(r, 1) /\ r[1] = s[2] /\ Len(s) >= 2
                     /\ s[2] \in FillFrame /\ (g.overwrite => s[2].overwrite)
  <2>1. TopIs(w, d, i, b2, s, a)
    BY TopFrame
  <2>2. QED
    BY <2>1 DEF TopIs
<1> HIDE DEF r, g
<1>3. /\ u \in ReadFrame /\ u.left = Tail(g.left) /\ u.result = g.result /\ u.overwrite = g.overwrite
      /\ Head(g.left) = g.left[1] /\ g.left[1] \in Keys /\ Len(g.left) >= 1
      /\ \A n \in 1..Len(u.left) : n + 1 \in 1..Len(g.left) /\ u.left[n] = g.left[n + 1]
      /\ \A n \in 1..Len(g.left) : n = 1 \/ (n - 1 \in 1..Len(u.left) /\ u.left[n - 1] = g.left[n])
  <2>1. IsNext(g, u)
    BY <1>2, NextRowFacts, Zenon DEF g
  <2> HIDE DEF u
  <2>2. QED
    BY <2>1 DEF IsNext
<1>4. t = <<f>> \o m
  BY DEF r, u, g, m
<1> HIDE DEF u
<1>5. u \in Frames /\ f \in Frames
  BY <1>3 DEF Frames, FillIn
<1>6. Pushed(g, r, s) /\ Pushed(u, r, m) /\ PushedReads(g, r, s) /\ PushedReads(u, r, m)
  BY <1>2, <1>5, FillsOfPush, FillsSplit, Zenon
<1> HIDE DEF m
<1>7. /\ IsRead(m, 1) /\ Len(m) = Len(s) /\ m # <<>> /\ m[1] = u /\ m \in Seq(Frames)
      /\ \A n \in 2..Len(s) : m[n] = s[n]
  BY <1>6 DEF Pushed
<1>8. Pushed(f, m, t) /\ PushedReads(f, m, t)
  BY <1>4, <1>5, <1>7, FillsOfPush, FillsSplit, Zenon
<1>9. ~IsRead(t, 1) /\ t # <<>> /\ Len(t) = Len(s) + 1
  BY <1>7, <1>8 DEF Pushed
<1>10. ReadIn(w, d, u)
  <2>1. \A n \in 1..Len(u.left) : HasRow(w, u.left[n])
    BY <1>2, <1>3 DEF ReadIn
  <2>2. \A n \in 1..Len(u.result) : Contains(d, u.result[n])
    BY <1>2, <1>3 DEF ReadIn
  <2>3. QED
    BY <1>3, <2>1, <2>2 DEF ReadIn
<1>11. FramesIn(w, d, i, b2, m, a)
  <2>1. Len(m) + (Len(m) % 2) <= MaxStack
    BY <1>7 DEF FramesIn
  <2>2. FramesIn(w, d, i, b2, r, a)
    BY PopFrame DEF r
  <2>3. r = <<>> => a.why # "none" /\ (u.overwrite <=> a.why = "rollback")
    BY <1>2, <1>3 DEF FramesIn
  <2>4. r # <<>> => (u.overwrite => r[1].overwrite)
    BY <1>2, <1>3
  <2>5. QED
    BY <1>7, <1>10, <2>1, <2>2, <2>3, <2>4, PushFrame, Zenon DEF m
<1>12. FramesIn(w, d, i, b2, t, a)
  <2>1. Len(t) + (Len(t) % 2) <= MaxStack
    <3>1. PICK N \in Nat : N = Len(s)
      BY <1>2
    <3>2. N % 2 # 0 /\ N + (N % 2) <= MaxStack
      <4>1. N + (N % 2) <= MaxStack
        BY <3>1 DEF FramesIn
      <4>2. (IsRead(t, 1) <=> Len(m) % 2 = 0) /\ Len(m) = N
        BY <3>1, <1>7, <1>8 DEF Pushed
      <4>3. QED
        BY <4>1, <4>2, <1>9
    <3>3. (N + 1) % 2 = 0 /\ N % 2 \in {0, 1}
      BY <3>1, <3>2, EvenOdd
    <3>4. N + 1 <= MaxStack
      BY <3>2, <3>3, Bounds
    <3>5. Len(t) = N + 1 /\ (N + 1) + 0 = N + 1
      BY <3>1, <1>9
    <3>6. QED
      BY <3>3, <3>4, <3>5
  <2>2. f.overwrite => m[1].overwrite
    BY <1>3, <1>7 DEF g
  <2>3. Len(m) >= 2 => ReadFor(w, m[1], m[2], 1, f.key) /\ (WaitsForRef(w, m[2]) => f.fresh)
    <3> SUFFICES ASSUME Len(m) >= 2
                 PROVE  ReadFor(w, m[1], m[2], 1, f.key) /\ (WaitsForRef(w, m[2]) => f.fresh)
      OBVIOUS
    <3>1. Len(s) >= 2 /\ m[2] = s[2] /\ s[2] \in FillFrame
      <4>1. Len(s) >= 2 /\ 2 \in 2..Len(s) /\ Len(r) \in Nat /\ Len(s) = Len(r) + 1
        BY <1>2, <1>6, <1>7 DEF Pushed
      <4>2. r # <<>>
        BY <4>1, EmptyFacts, <1>2
      <4>3. QED
        BY <4>1, <4>2, <1>2, <1>7
    <3>2. ReadFor(w, g, s[2], 0, s[2].key) /\ (WaitsForRef(w, s[2]) => Get(c, g.left[1]) = NoInstance)
      BY <1>1, <3>1 DEF TopIn, g
    <3>3. s[2].key \in Keys /\ f.key = g.left[1]
      BY <3>1, <1>3 DEF FillFrame, g
    <3>4. ReadFor(w, u, s[2], 1, Head(g.left))
      BY <3>2, <3>3, <1>2, ReadForEnter, Zenon DEF u, g
    <3>5. QED
      BY <3>1, <3>2, <3>3, <3>4, <1>3, <1>7
  <2>4. QED
    BY <1>4, <1>7, <1>9, <1>11, <2>1, <2>2, <2>3, PushFrame, Zenon
<1>13. StackIn(w, d, i, b2, t, a)
  BY <1>9, <1>12 DEF StackIn, TopIn
<1>14. /\ \A o : Completing(t, o) <=> (f.fresh /\ f.inst = o) \/ Completing(s, o)
       /\ \A k : Overwriting(t, k) <=> (f.overwrite /\ f.key = k) \/ Overwriting(s, k)
  BY <1>6, <1>7, <1>8, <1>9, Zenon DEF PushedReads
<1>15. \A k : (Waiting(s, k) => Waiting(t, k) \/ k = f.key) /\ (Waiting(t, k) => Waiting(s, k))
  <2>1. \A k : Waiting(t, k) <=> Waiting(m, k)
    BY <1>7, <1>8, Zenon DEF PushedReads
  <2>2. CASE r # <<>>
    BY <2>1, <2>2, <1>6, Zenon DEF PushedReads
  <2>3. CASE r = <<>>
    <3>1. \A k : /\ Waiting(s, k) <=> \E n \in 1..Len(g.left) : g.left[n] = k
                 /\ Waiting(m, k) <=> \E n \in 1..Len(u.left) : u.left[n] = k
      BY <2>3, <1>6 DEF PushedReads
    <3>2. f.key = g.left[1]
      BY <1>3 DEF g
    <3>3. ASSUME NEW k, NEW n \in 1..Len(g.left), g.left[n] = k
          PROVE  (\E x \in 1..Len(u.left) : u.left[x] = k) \/ k = f.key
      <4>1. n = 1 \/ (n - 1 \in 1..Len(u.left) /\ u.left[n - 1] = g.left[n])
        BY <1>3
      <4>2. QED
        BY <4>1, <3>2, <3>3
    <3>4. ASSUME NEW k, NEW n \in 1..Len(u.left), u.left[n] = k
          PROVE  \E x \in 1..Len(g.left) : g.left[x] = k
      BY <3>4, <1>3
    <3>5. QED
      BY <2>1, <3>1, <3>3, <3>4, Zenon
  <2>4. QED
    BY <2>2, <2>3, Zenon
<1>16. r = <<>> => Waiting(s, f.key)
  <2>1. r = <<>> => (Waiting(s, f.key) <=> \E n \in 1..Len(g.left) : g.left[n] = f.key)
    BY <1>6 DEF PushedReads
  <2>2. f.key = g.left[1] /\ 1 \in 1..Len(g.left)
    <3>1. g.left \in Seq(Keys)
      BY <1>2 DEF ReadFrame
    <3>2. QED
      BY <3>1, <1>3 DEF g
  <2>3. QED
    BY <2>1, <2>2, Zenon
<1>17. Descent(w, s, a) /\ (\A k \in FillsOf(r) : IsBelow(w, a, f, r[k])) => Descent(w, t, a)
  <2>1. Descent(w, s, a) => Descent(w, r, a)
    BY <1>2, DescentSplit, Zenon
  <2>2. Descent(w, r, a) => Descent(w, m, a)
    BY <1>2, <1>5, <1>7, DescentSplit, Zenon DEF m
  <2>3. Descent(w, m, a) /\ (\A k \in FillsOf(m) : IsBelow(w, a, f, m[k])) => Descent(w, t, a)
    BY <1>4, <1>5, <1>7, DescentSplit, Zenon
  <2>4. \A k \in FillsOf(m) : k - 1 \in FillsOf(r) /\ m[k] = r[k - 1]
    <3>1. \A k \in FillsOf(m) : k = 1 \/ (k - 1 \in FillsOf(r) /\ m[k] = r[k - 1])
      BY <1>6 DEF Pushed
    <3>2. 1 \notin FillsOf(m)
      BY <1>7 DEF FillsOf
    <3>3. QED
      BY <3>1, <3>2
  <2>5. QED
    BY <2>1, <2>2, <2>3, <2>4, Zenon
<1>18. ASSUME NEW V, VisitedFrames(w, s, a, V), VisitedFill(w, a, V, f)
       PROVE  VisitedFrames(w, t, a, V)
  <2>1. IsRead(s, 1)
    OBVIOUS
  <2>2. VisitedFrames(w, r, a, V) /\ VisitedRead(a, V, g)
    BY <2>1, <1>2, <1>18, VisitedSplit, Zenon
  <2>3. VisitedRead(a, V, u)
    BY <2>2, <1>3 DEF VisitedRead
  <2>4. VisitedFrames(w, m, a, V)
    BY <2>2, <2>3, <1>2, <1>5, <1>7, VisitedSplit, Zenon DEF m
  <2>5. QED
    BY <2>4, <1>4, <1>5, <1>7, <1>9, <1>18, VisitedSplit, Zenon
<1>19. QED
  BY <1>9, <1>13, <1>14, <1>15, <1>16, <1>17, <1>18, Zenon DEF r, Entered

Ended(w, c, j, b, s, a, t) ==
    /\ StackIn(w, c, j, b, t, a) /\ t # <<>>
    /\ \A o : Completing(s, o) <=> (s[1].fresh /\ s[1].inst = o) \/ Completing(t, o)
    /\ \A k : Overwriting(s, k) <=> (s[1].overwrite /\ s[1].key = k) \/ Overwriting(t, k)
    /\ \A k : Waiting(s, k) <=> Waiting(t, k)
    /\ Descent(w, s, a) => /\ Descent(w, t, a)
                           /\ s[1].fresh => \A k \in FillsOf(t) : t[k].key # s[1].key
    /\ \A V : VisitedFrames(w, s, a, V) =>
                  VisitedFrames(w, t, a, V) /\ VisitedFill(w, a, V, s[1])

\* A fill ends, and its instance is a result of the read.
LEMMA MoveEnd ==
    ASSUME NEW w, IsProgram(w), NEW c, NEW j, NEW b, NEW s, NEW a,
           StackIn(w, c, j, b, s, a), s # <<>>, ~IsRead(s, 1),
           NEW t, t = <<[s[2] EXCEPT !.result = Append(@, s[1].inst)]>> \o Tail(Tail(s))
    PROVE  Ended(w, c, j, b, s, a, t)
<1> DEFINE f == s[1]
           x == f.inst
           m == Tail(s)
           g == s[2]
           r == Tail(m)
           u == [g EXCEPT !.result = Append(@, x)]
<1>1. FramesIn(w, c, j, b, s, a)
  BY DEF StackIn
<1>2. /\ s \in Seq(Frames) /\ f \in Frames /\ m \in Seq(Frames) /\ s = <<f>> \o m
      /\ f \in FillFrame /\ FillIn(w, c, j, b, f) /\ (f.overwrite => g.overwrite)
      /\ m # <<>> /\ IsRead(m, 1) /\ m[1] = g /\ g \in ReadFrame /\ ReadIn(w, c, g)
  <2>1. TopIs(w, c, j, b, s, a)
    BY <1>1, TopFrame
  <2>2. QED
    BY <2>1 DEF TopIs
<1>3. FramesIn(w, c, j, b, m, a)
  BY <1>1, PopFrame
<1> HIDE DEF m
<1>4. /\ g \in Frames /\ r \in Seq(Frames) /\ m = <<g>> \o r
      /\ g.overwrite => a.why = "rollback"
      /\ r = <<>> => (g.overwrite <=> a.why = "rollback")
      /\ r # <<>> => /\ ~IsRead(r, 1) /\ r[1] = m[2] /\ Len(m) >= 2
                     /\ m[2] \in FillFrame /\ (g.overwrite => m[2].overwrite)
  <2>1. TopIs(w, c, j, b, m, a)
    BY <1>2, <1>3, TopFrame
  <2>2. QED
    BY <2>1, <1>2 DEF TopIs
<1>5. x \in Objects /\ f.key \in Keys /\ Contains(c, x) /\ x[1] = f.key
  BY <1>2 DEF FillIn, FillFrame
<1>6. /\ u \in ReadFrame /\ u.left = g.left /\ u.overwrite = g.overwrite
      /\ \A n \in 1..Len(u.result) : \/ n \in 1..Len(g.result) /\ u.result[n] = g.result[n]
                                     \/ u.result[n] = x
  <2>1. HasResult(g, x, u)
    BY <1>2, <1>5, ResultFacts, Zenon
  <2> HIDE DEF u
  <2>2. QED
    BY <2>1 DEF HasResult
<1>7. t = <<u>> \o r
  BY DEF m
<1> HIDE DEF r
<1>8. u \in Frames
  BY <1>6 DEF Frames
<1>9. FramesIn(w, c, j, b, r, a)
  BY <1>2, <1>3, PopFrame DEF r
<1>10. /\ Pushed(f, m, s) /\ PushedReads(f, m, s) /\ Pushed(g, r, m) /\ PushedReads(g, r, m)
       /\ Pushed(u, r, t) /\ PushedReads(u, r, t)
  BY <1>2, <1>4, <1>7, <1>8, FillsOfPush, FillsSplit, Zenon
<1>11. ReadIn(w, c, u)
  <2>1. \A n \in 1..Len(u.left) : HasRow(w, u.left[n])
    BY <1>2, <1>6 DEF ReadIn
  <2>2. \A n \in 1..Len(u.result) : Contains(c, u.result[n])
    BY <1>2, <1>5, <1>6, Zenon DEF ReadIn
  <2>3. QED
    BY <1>6, <2>1, <2>2 DEF ReadIn
<1> HIDE DEF u, x
<1>12. /\ IsRead(t, 1) /\ Len(t) = Len(m) /\ t # <<>> /\ t[1] = u
       /\ Len(s) = Len(m) + 1 /\ Len(m) = Len(r) + 1 /\ Len(r) \in Nat
       /\ \A i \in 2..Len(t) : t[i] = m[i]
  <2>1. Len(r) \in Nat /\ Len(s) = Len(m) + 1 /\ Len(m) = Len(r) + 1 /\ Len(t) = Len(r) + 1
    <3>1. Len(r) \in Nat
      BY <1>4
    <3>2. Len(s) = Len(m) + 1 /\ Len(m) = Len(r) + 1 /\ Len(t) = Len(r) + 1
      BY <1>10, Zenon DEF Pushed
    <3>3. QED
      BY <3>1, <3>2
  <2>2. (IsRead(t, 1) <=> Len(r) % 2 = 0) /\ (IsRead(m, 1) <=> Len(r) % 2 = 0)
    BY <1>10 DEF Pushed
  <2>3. t # <<>> /\ t[1] = u
    BY <1>10, Zenon DEF Pushed
  <2>4. \A i \in 2..Len(t) : t[i] = r[i - 1]
    BY <1>10, Zenon DEF Pushed
  <2>5. \A i \in 2..Len(m) : m[i] = r[i - 1]
    BY <1>10 DEF Pushed
  <2>6. QED
    BY <2>1, <2>2, <2>3, <2>4, <2>5, <1>2, Zenon
<1>13. FramesIn(w, c, j, b, t, a)
  <2>1. Len(t) + (Len(t) % 2) <= MaxStack
    BY <1>3, <1>12, Zenon DEF FramesIn
  <2>2. r = <<>> => a.why # "none" /\ (u.overwrite <=> a.why = "rollback")
    BY <1>2, <1>3, <1>4, <1>6 DEF FramesIn
  <2>3. r # <<>> => (u.overwrite => r[1].overwrite)
    BY <1>4, <1>6
  <2>4. QED
    BY <1>7, <1>9, <1>11, <1>12, <2>1, <2>2, <2>3, PushFrame, Zenon
<1>14. TopIn(w, c, t)
  <2> SUFFICES ASSUME Len(t) >= 2
               PROVE  ReadFor(w, u, t[2], 0, t[2].key) /\ (WaitsForRef(w, t[2]) => u.left = <<>>)
    BY <1>12, Zenon DEF TopIn
  <2>1. r # <<>> /\ 2 \in 2..Len(t)
    BY <1>12
  <2>2. t[2] = m[2] /\ m[2] \in FillFrame
    BY <2>1, <1>4, <1>12, Zenon
  <2>3. s[3] = m[2] /\ 2 \in 2..(Len(s) - 1) /\ IsRead(s, 2)
    <3>1. 2 \in 1..Len(m) /\ 1 \in 1..Len(m) /\ 1 + 1 = 2 /\ 2 + 1 = 3
      BY <1>12
    <3>2. s[3] = m[2] /\ (IsRead(s, 2) <=> IsRead(m, 1))
      BY <3>1, <1>10 DEF Pushed
    <3>3. QED
      BY <3>2, <1>2, <1>12
  <2>4. LinkIn(w, s, 2) /\ 2 + 1 = 3 /\ 2 - 1 = 1
    BY <2>3, <1>1 DEF FramesIn
  <2>5. ReadFor(w, g, m[2], 1, x[1])
    BY <2>3, <2>4, <1>5 DEF LinkIn
  <2>6. m[2].key \in Keys
    BY <2>2 DEF FillFrame
  <2>7. ReadFor(w, u, m[2], 0, m[2].key)
    BY <2>5, <2>6, <1>2, <1>5, ReadForEnd, Zenon DEF u
  <2>8. WaitsForRef(w, m[2]) => u.left = <<>>
    <3>1. WaitsForRef(w, m[2]) => Len(g.left) + 1 <= 1
      <4>1. 1 \in 0..1
        OBVIOUS
      <4>2. QED
        BY <4>1, <2>5, <2>6, <1>2, OneReference, Zenon
    <3>2. g.left \in Seq(Keys)
      BY <1>2 DEF ReadFrame
    <3>3. Len(g.left) + 1 <= 1 => g.left = <<>>
      BY <3>2
    <3>4. QED
      BY <3>1, <3>3, <1>6
  <2>9. QED
    BY <2>2, <2>7, <2>8, Zenon
<1>15. /\ \A o : Completing(s, o) <=> (f.fresh /\ f.inst = o) \/ Completing(t, o)
       /\ \A k : Overwriting(s, k) <=> (f.overwrite /\ f.key = k) \/ Overwriting(t, k)
  BY <1>2, <1>10, <1>12, Zenon DEF PushedReads
<1>16. \A k : Waiting(s, k) <=> Waiting(t, k)
  <2>1. \A k : Waiting(s, k) <=> Waiting(m, k)
    BY <1>2, <1>10 DEF PushedReads
  <2>2. CASE r # <<>>
    BY <2>1, <2>2, <1>10, Zenon DEF PushedReads
  <2>3. CASE r = <<>>
    <3>1. \A k : Waiting(m, k) <=> \E n \in 1..Len(g.left) : g.left[n] = k
      BY <2>3, <1>10 DEF PushedReads
    <3>2. \A k : Waiting(t, k) <=> \E n \in 1..Len(u.left) : u.left[n] = k
      BY <2>3, <1>10, Zenon DEF PushedReads
    <3>3. u.left = g.left
      BY <1>6
    <3>4. QED
      BY <2>1, <3>1, <3>2, <3>3, Zenon
  <2>4. QED
    BY <2>2, <2>3, Zenon
<1>17. ASSUME Descent(w, s, a)
       PROVE  Descent(w, t, a) /\ (f.fresh => \A k \in FillsOf(t) : t[k].key # f.key)
  <2>1. Descent(w, m, a) /\ \A k \in FillsOf(m) : IsBelow(w, a, f, m[k])
    BY <1>2, <1>17, DescentSplit, Zenon
  <2>2. Descent(w, r, a)
    BY <2>1, <1>4, DescentSplit, Zenon
  <2>3. Descent(w, t, a)
    BY <2>2, <1>4, <1>7, <1>8, <1>12, DescentSplit, Zenon
  <2>4. \A k \in FillsOf(t) : k \in FillsOf(m) /\ t[k] = m[k]
    <3>1. \A k \in FillsOf(t) : k # 1 /\ k \in 1..Len(t) /\ ~IsRead(t, k)
      BY <1>12, Zenon DEF FillsOf
    <3>2. \A k \in 1..Len(t) : IsRead(t, k) <=> IsRead(m, k)
      BY <1>12, Zenon DEF IsRead
    <3>3. \A k \in 1..Len(t) : k = 1 \/ k \in 2..Len(t)
      BY <1>12
    <3>4. QED
      BY <3>1, <3>2, <3>3, <1>12, Zenon DEF FillsOf
  <2>5. QED
    BY <2>1, <2>3, <2>4, Zenon DEF IsBelow
<1>18. ASSUME NEW V, VisitedFrames(w, s, a, V)
       PROVE  VisitedFrames(w, t, a, V) /\ VisitedFill(w, a, V, f)
  <2>1. VisitedFrames(w, m, a, V) /\ VisitedFill(w, a, V, f)
    BY <1>2, <1>18, VisitedSplit, Zenon
  <2>2. VisitedFrames(w, r, a, V) /\ VisitedRead(a, V, g)
    <3>0. g \in Frames /\ r \in Seq(Frames) /\ m = <<g>> \o r
      BY <1>4
    <3> HIDE DEF g
    <3>1. VisitedFrames(w, m, a, V) <=>
              /\ VisitedFrames(w, r, a, V)
              /\ IF IsRead(m, 1) THEN VisitedRead(a, V, g) ELSE VisitedFill(w, a, V, g)
      BY <3>0, VisitedSplit, Zenon
    <3>2. QED
      BY <2>1, <3>1, <1>2
  <2>3. VisitedRead(a, V, u)
    <3>1. x[1] \in a.known => x[1] \in V
      BY <2>1, <1>5 DEF VisitedFill
    <3>2. QED
      BY <2>2, <3>1, <1>6, Zenon DEF VisitedRead
  <2>4. QED
    BY <2>1, <2>2, <2>3, <1>4, <1>7, <1>8, <1>12, VisitedSplit, Zenon
<1>19. QED
  BY <1>12, <1>13, <1>14, <1>15, <1>16, <1>17, <1>18, Zenon DEF StackIn, Ended

Started(w, c, j, b, a, S, t) ==
    /\ StackIn(w, c, j, b, t, a) /\ t # <<>>
    /\ \A o : ~Completing(t, o)
    /\ \A k : ~Overwriting(t, k)
    /\ \A k : Waiting(t, k) <=> k \in S
    /\ Descent(w, t, a)
    /\ \A V : VisitedFrames(w, t, a, V)

\* The read the client asked for.
LEMMA MoveStart ==
    ASSUME NEW w, NEW c, NEW j, NEW b, NEW S \in SUBSET Keys, \A x, y \in S : x[1] = y[1],
           \A k \in S : HasRow(w, k), NEW a, a.why # "none",
           NEW overwrite \in BOOLEAN, overwrite <=> a.why = "rollback",
           NEW t, t = <<Reads(S, overwrite)>>
    PROVE  Started(w, c, j, b, a, S, t)
<1> DEFINE r == Reads(S, overwrite)
           q == InOrder(S)
<1>1. /\ q \in Seq(Keys) /\ (\A n \in 1..Len(q) : q[n] \in S)
      /\ \A x \in S : \E n \in 1..Len(q) : q[n] = x
  BY InOrderIsSeq
<1> HIDE DEF q
<1>2. /\ r \in ReadFrame /\ r.left = q /\ r.result = <<>> /\ r.overwrite = overwrite
  BY <1>1 DEF Reads, ReadFrame, q
<1> HIDE DEF r
<1>3. <<>> \in Seq(Frames) /\ Len(<<>>) = 0 /\ r \in Frames /\ <<r>> \o <<>> = <<r>>
  BY <1>2 DEF Frames
<1>4. t = <<r>> \o <<>>
  BY <1>3 DEF r
<1>5. Pushed(r, <<>>, t) /\ PushedReads(r, <<>>, t)
  BY <1>3, <1>4, FillsOfPush, FillsSplit, Zenon
<1>6. IsRead(t, 1) /\ t # <<>> /\ Len(t) = 1 /\ FillsOf(<<>>) = {}
  BY <1>3, <1>5 DEF Pushed, FillsOf
<1>7. ReadIn(w, c, r)
  BY <1>1, <1>2 DEF ReadIn
<1>8. FramesIn(w, c, j, b, <<>>, a)
  <2>1. 0 % 2 = 0 /\ 0 <= MaxStack
    BY Bounds
  <2>2. QED
    BY <1>3, <2>1 DEF FramesIn
<1>9. Len(t) + (Len(t) % 2) <= MaxStack
  <2>1. 1 % 2 = 1 /\ MaxStack >= 2
    <3>1. IsFiniteSet(Keys)
      BY StackAssumption, KeysAreFinite
    <3>2. PICK N \in Nat : N = Cardinality(Keys)
      BY <3>1, FS_CardinalityType
    <3>3. MaxStack >= 2 * N + 2
      BY <3>2, StackAssumption
    <3>4. QED
      BY <3>3, Bounds
  <2>2. QED
    BY <2>1, <1>6, Bounds
<1>10. FramesIn(w, c, j, b, t, a)
  BY <1>2, <1>4, <1>6, <1>7, <1>8, <1>9, PushFrame, Zenon
<1>11. TopIn(w, c, t)
  BY <1>6 DEF TopIn
<1>12. (\A o : ~Completing(t, o)) /\ (\A k : ~Overwriting(t, k))
  BY <1>5, <1>6 DEF PushedReads, Completing, Overwriting
<1>13. \A k : Waiting(t, k) <=> k \in S
  <2>1. \A k : Waiting(t, k) <=> \E n \in 1..Len(q) : q[n] = k
    BY <1>2, <1>5 DEF PushedReads
  <2>2. QED
    BY <2>1, <1>1
<1>14. Descent(w, t, a)
  <2>1. Descent(w, <<>>, a)
    BY <1>6 DEF Descent
  <2>2. QED
    BY <2>1, <1>3, <1>4, <1>6, DescentSplit, Zenon
<1>15. \A V : VisitedFrames(w, t, a, V)
  <2>1. \A V : VisitedRead(a, V, r)
    BY <1>2 DEF VisitedRead
  <2>2. \A V : VisitedFrames(w, <<>>, a, V)
    BY <1>3 DEF VisitedFrames
  <2>3. QED
    BY <2>1, <2>2, <1>3, <1>4, <1>6, VisitedSplit, Zenon
<1>16. QED
  BY <1>6, <1>10, <1>11, <1>12, <1>13, <1>14, <1>15 DEF StackIn, Started

-----------------------------------------------------------------------------
(* What a step does to the rest of the invariant.                          *)

StillHeld(w, c, j, g, b, s, a, t) ==
    /\ Agreement(w, c, j, g, b, s, a) => Agreement(w, c, j, g, b, t, a)
    /\ Reached(w, s, a) => Reached(w, t, a)
    /\ CallIn(w, s, a) => CallIn(w, t, a)
    /\ \A V : a.why = "rollback" /\ VisitedRows(w, c, s, a, V) => VisitedRows(w, c, t, a, V)

\* The same is being read.
LEMMA SameHeld ==
    ASSUME NEW w, NEW c, NEW j, NEW g, NEW b, NEW s, NEW a, NEW t, SameReads(s, t), s # <<>>,
           \A k : a.why = "rollback" => (Waiting(s, k) <=> Waiting(t, k))
    PROVE  StillHeld(w, c, j, g, b, s, a, t)
<1>1. /\ \A o : Completing(s, o) <=> Completing(t, o)
      /\ \A k : Overwriting(s, k) <=> Overwriting(t, k)
  BY DEF SameReads
<1>2. \A k : Rereading(s, a, k) <=> Rereading(t, a, k)
  BY <1>1 DEF Rereading
<1>3. \A o : AgreedIn(w, c, j, g, s, a, o) => AgreedIn(w, c, j, g, t, a, o)
  BY <1>1, <1>2, Zenon DEF AgreedIn
<1>4. Agreement(w, c, j, g, b, s, a) => Agreement(w, c, j, g, b, t, a)
  BY <1>3 DEF Agreement
<1>5. Reached(w, s, a) => Reached(w, t, a)
  BY <1>1 DEF Reached
<1>6. CallIn(w, s, a) => CallIn(w, t, a)
  BY DEF CallIn
<1>7. ASSUME NEW V, VisitedRows(w, c, s, a, V)
      PROVE  VisitedRows(w, c, t, a, V)
  BY <1>1, <1>2, <1>7 DEF VisitedRows
<1>8. QED
  BY <1>4, <1>5, <1>6, <1>7 DEF StillHeld

\* An instance that is filled for the first time.
LEMMA CompletingIn ==
    ASSUME NEW w, NEW c, NEW j, NEW b, NEW s, NEW a, FramesIn(w, c, j, b, s, a),
           NEW o, Completing(s, o)
    PROVE  o \in Cached(c) /\ o \notin c.connected \cup c.modified \cup b
<1>1. PICK n \in FillsOf(s) : s[n].fresh /\ s[n].inst = o
  BY DEF Completing
<1>2. FillIn(w, c, j, b, s[n])
  BY <1>1 DEF FramesIn, FrameIn, FillsOf
<1>3. QED
  BY <1>1, <1>2 DEF FillIn, FillFrame, Cached

\* Every running fill is of a cached instance of its row.
LEMMA FillsAreCached ==
    ASSUME NEW w, NEW c, NEW j, NEW b, NEW s, NEW a, FramesIn(w, c, j, b, s, a)
    PROVE  \A n \in FillsOf(s) : /\ s[n] \in FillFrame /\ s[n].inst \in Cached(c)
                                 /\ s[n].inst[1] = s[n].key /\ s[n].key \in Keys
                                 /\ s[n].fresh <=> ~s[n].overwrite
                                 /\ s[n].fresh => Completing(s, s[n].inst)
                                 /\ s[n].overwrite => Overwriting(s, s[n].key)
<1>1. SUFFICES ASSUME NEW n \in FillsOf(s)
               PROVE  /\ s[n] \in FillFrame /\ s[n].inst \in Cached(c)
                      /\ s[n].inst[1] = s[n].key /\ s[n].key \in Keys
                      /\ s[n].fresh <=> ~s[n].overwrite
                      /\ s[n].fresh => Completing(s, s[n].inst)
                      /\ s[n].overwrite => Overwriting(s, s[n].key)
  OBVIOUS
<1>2. FillIn(w, c, j, b, s[n])
  BY DEF FramesIn, FrameIn, FillsOf
<1>3. (s[n].fresh => Completing(s, s[n].inst)) /\ (s[n].overwrite => Overwriting(s, s[n].key))
  BY DEF Completing, Overwriting
<1>4. QED
  BY <1>2, <1>3 DEF FillIn, FillFrame, Cached

FillsCached(c, s) ==
    \A n \in FillsOf(s) : /\ s[n].inst \in Cached(c) /\ s[n].inst[1] = s[n].key
                          /\ s[n].key \in Keys

LEMMA FillsAreCachedIn ==
    ASSUME NEW w, NEW c, NEW j, NEW b, NEW s, NEW a, FramesIn(w, c, j, b, s, a)
    PROVE  FillsCached(c, s)
BY FillsAreCached DEF FillsCached

\* The fill on top of the stack r may set its property p to v.
ReadyToSet(w, c, j, g, b, r, a, p, v) ==
    /\ Held(w, c, j, g, b, r, a) /\ r # <<>> /\ ~IsRead(r, 1)
    /\ r[1].at <= Len(Props(w, r[1].key)) /\ p = Props(w, r[1].key)[r[1].at]
    /\ Right(w, c, j, r[1].inst, p, v)
    /\ a.why = "rollback" =>
           \E V \in SUBSET Keys : /\ VisitedRows(w, c, r, a, V) /\ VisitedFrames(w, r, a, V)
                                  /\ r[1].overwrite /\ p = "list" =>
                                         ListedRows(w, r[1].key) \cap a.known \subseteq V

WillSet(c, j, s, p, v, d, i, t) ==
    /\ i = [j EXCEPT ![s[1].inst][Field(p)] = v]
    /\ d = IF j[s[1].inst][Field(p)] # v THEN Notify(c, s[1].inst) ELSE c
    /\ t = <<[Head(s) EXCEPT !.at = @ + 1]>> \o Tail(s)
HasSet(w, g, b, a, d, i, t) ==
    d \in Caches /\ i \in [Objects -> Object \cup {NoObject}] /\ Reading(w, d, i, g, b, t, a)

\* The property of an instance that is being filled is set to what the row says.
LEMMA SetStep ==
    ASSUME NEW w, IsProgram(w), NEW c \in Caches, NEW j \in [Objects -> Object \cup {NoObject}],
           NEW g \in SUBSET Objects, NEW b \in SUBSET Objects, NEW s, NEW a, NEW p, NEW v,
           ReadyToSet(w, c, j, g, b, s, a, p, v),
           NEW d, NEW i, NEW t, WillSet(c, j, s, p, v, d, i, t)
    PROVE  HasSet(w, g, b, a, d, i, t)
<1>0. /\ Held(w, c, j, g, b, s, a) /\ s # <<>> /\ ~IsRead(s, 1)
      /\ s[1].at <= Len(Props(w, s[1].key)) /\ p = Props(w, s[1].key)[s[1].at]
      /\ Right(w, c, j, s[1].inst, p, v)
      /\ i = [j EXCEPT ![s[1].inst][Field(p)] = v]
      /\ d = IF j[s[1].inst][Field(p)] # v THEN Notify(c, s[1].inst) ELSE c
      /\ t = <<[Head(s) EXCEPT !.at = @ + 1]>> \o Tail(s)
  BY DEF ReadyToSet, WillSet
<1>a. 1 \in FillsOf(s)
  <2>1. s \in Seq(Frames)
    BY <1>0, Zenon DEF Held, FramesIn
  <2>2. Len(s) \in Nat /\ Len(s) >= 1
    BY <1>0, <2>1, EmptyFacts
  <2>3. ~IsRead(s, 1)
    BY <1>0
  <2>4. QED
    BY <2>2, <2>3 DEF FillsOf
<1> USE <1>0
<1> DEFINE f == s[1]
           o == f.inst
           changed == j[o][Field(p)] # v
<1>1. /\ IdentityIn(w, c, j, g, b) /\ CallIn(w, s, a) /\ FramesIn(w, c, j, b, s, a)
      /\ Descent(w, s, a) /\ Agreement(w, c, j, g, b, s, a) /\ Marks(c, g, a) /\ Reached(w, s, a)
  BY DEF Held
<1>2. /\ f \in FillFrame /\ o \in Objects /\ o \in Cached(c) /\ o[1] = f.key /\ f.key \in Keys
      /\ f.fresh <=> ~f.overwrite
      /\ f.fresh => Completing(s, o)
      /\ f.overwrite => Overwriting(s, f.key)
      /\ f.overwrite => a.why = "rollback"
  <2>1. TopIs(w, c, j, b, s, a)
    BY <1>1, TopFrame
  <2>2. 1 \in FillsOf(s) /\ (f.overwrite => a.why = "rollback") /\ f \in FillFrame
    <3>1. s \in Seq(Frames) /\ (f.overwrite => a.why = "rollback") /\ f \in FillFrame
      BY <2>1, Zenon DEF TopIs
    <3>2. QED
      BY <3>1, <1>a
  <2>3. QED
    BY <1>1, <2>2, FillsAreCached DEF FillFrame
<1>3. j[o] # NoObject /\ o \notin g
  BY <1>1, <1>2, Zenon DEF IdentityIn, Cached
<1> HIDE DEF o, f
<1>4. /\ i \in [Objects -> Object \cup {NoObject}] /\ i[o] # NoObject
      /\ \A x \in Objects \ {o} : i[x] = j[x]
      /\ AgreesOn(w, c, i, o, p)
      /\ \A x \in Objects, q \in {"value", "ref", "list"} :
             AgreesOn(w, c, j, x, q) => AgreesOn(w, c, i, x, q)
      /\ AgreesOn(w, c, j, o, p) => ~changed
      /\ ~changed => i = j
  <2>1. i = [j EXCEPT ![o][Field(p)] = v] /\ Right(w, c, j, o, p, v)
    BY DEF o, f
  <2>2. WasSet(w, c, j, g, b, o, p, v, i)
    BY <2>1, <1>1, <1>2, <1>3, SetRight, Zenon
  <2>3. QED
    BY <2>2, Zenon DEF WasSet
<1>5. d = IF changed THEN Notify(c, o) ELSE c
  BY DEF o, f
<1>6. changed \in BOOLEAN
  OBVIOUS
<1> HIDE DEF changed
<1>7. /\ d \in Caches /\ d.ids = c.ids /\ d.byId = c.byId /\ d.connected = c.connected
      /\ c.modified \subseteq d.modified /\ d.modified \subseteq c.modified \cup {o}
      /\ Cached(d) = Cached(c) /\ (\A x \in Objects : Contains(d, x) <=> Contains(c, x))
      /\ \A k \in Keys : Get(d, k) = Get(c, k)
      /\ o \notin c.connected \/ ~changed => d = c
      /\ o \in c.connected /\ changed => o \in d.modified
  <2>1. Notified(c, o, changed, d)
    BY <1>2, <1>5, <1>6, NotifyCache, Zenon
  <2>2. QED
    BY <2>1, Zenon DEF Notified
<1>8. o \in d.modified => o \in c.modified \/ (o \in c.connected /\ changed)
  BY <1>7, Zenon
<1>9. IdentityIn(w, d, i, g, b)
  <2>1. \A x \in Objects : i[x] # NoObject <=> j[x] # NoObject
    BY <1>3, <1>4, Zenon
  <2>2. \A x \in d.connected : j[x] # NoObject /\ x \notin b
    BY <1>1, <1>7, Zenon DEF IdentityIn, Caches
  <2>3. \A x \in d.modified : Contains(c, x) /\ x \in d.connected
    <3>1. \A x \in c.modified : Contains(c, x) /\ x \in c.connected
      BY <1>1, Zenon DEF IdentityIn, Caches
    <3>2. Contains(c, o)
      BY <1>2 DEF Cached
    <3>3. QED
      BY <3>1, <3>2, <1>7, <1>8, Zenon
  <2>4. \A x \in b : j[x] # NoObject
    BY <1>1 DEF IdentityIn
  <2>5. QED
    <3>1. SameIdentity(c, j, d, i, b)
      BY <1>7, <2>1, <2>2, <2>3, <2>4, Zenon DEF SameIdentity
    <3>2. QED
      BY <3>1, <1>1, <1>7, IdentityStays, Zenon
<1>10. \A x : Completing(s, x) => x \notin d.connected \cup d.modified \cup b
  <2>1. \A x : Completing(s, x) => x \notin c.connected \cup c.modified \cup b
    BY <1>1, CompletingIn, Zenon
  <2>2. QED
    BY <2>1, <1>7, <1>8, Zenon
<1>11. FramesIn(w, d, i, b, s, a)
  <2>1. \A x \in Objects, q \in {"value", "ref", "list"} :
            Contains(c, x) /\ AgreesOn(w, c, j, x, q) => AgreesOn(w, d, i, x, q)
    <3>1. \A x, q : AgreesOn(w, c, i, x, q) => AgreesOn(w, d, i, x, q)
      BY <1>7, Zenon DEF AgreesOn, MembersIn
    <3>2. \A x \in Objects, q \in {"value", "ref", "list"} :
              AgreesOn(w, c, j, x, q) => AgreesOn(w, c, i, x, q)
      BY <1>4, Zenon
    <3>3. QED
      BY <3>1, <3>2, Zenon
  <2>2. \A x \in Objects : Contains(c, x) => Contains(d, x)
    BY <1>7, Zenon
  <2>3. QED
    <3>1. KeepsFrames(w, c, j, s, d, i, b)
      BY <1>10, <2>1, <2>2, Zenon DEF KeepsFrames
    <3>2. QED
      BY <3>1, <1>1, FramesStay, Zenon
<1>12. AgreesOn(w, d, i, o, p)
  BY <1>4, <1>7, Zenon DEF AgreesOn, MembersIn
<1>13. /\ StackIn(w, d, i, b, t, a) /\ t # <<>>
       /\ SameReads(s, t) /\ \A k : Waiting(s, k) <=> Waiting(t, k)
       /\ Descent(w, t, a)
       /\ \A V : /\ VisitedFrames(w, s, a, V)
                 /\ f.overwrite /\ p = "list" => ListedRows(w, f.key) \cap a.known \subseteq V
                 => VisitedFrames(w, t, a, V)
  <2>1. Advanced(w, d, i, b, s, a, t)
    BY <1>11, <1>12, MoveAdvance, Zenon DEF o, f
  <2>2. QED
    BY <2>1, <1>1, Zenon DEF Advanced, f
<1>14. Agreement(w, d, i, g, b, s, a)
  <2>1. SUFFICES ASSUME NEW x \in Cached(d) \ (b \cup d.modified)
                 PROVE  AgreedIn(w, d, i, g, s, a, x)
    BY Zenon DEF Agreement
  <2>2. x \in Cached(c) \ (b \cup c.modified) /\ x \in Objects
    BY <1>7, Zenon DEF Cached
  <2>3. AgreedIn(w, c, j, g, s, a, x)
    BY <2>2, <1>1, Zenon DEF Agreement
  <2>4. CASE x # o
    <3>1. i[x] = j[x]
      BY <2>2, <2>4, <1>4, Zenon
    <3>2. FullyAgrees(w, c, j, x) => FullyAgrees(w, d, i, x)
      <4>1. StillAgrees(w, c, j, d, i, x)
        BY <3>1, <1>7, AgreesStays, Zenon
      <4>2. QED
        BY <4>1, Zenon DEF StillAgrees
    <3>3. QED
      BY <2>3, <3>1, <3>2, <1>7, Zenon DEF AgreedIn
  <2>5. CASE x = o
    <3>1. CASE Completing(s, o)
      BY <2>5, <3>1, Zenon DEF AgreedIn
    <3>2. CASE ~Completing(s, o)
      <4>1. o \in c.connected
        BY <2>3, <2>5, <3>2, Zenon DEF AgreedIn
      <4>2. ~changed
        BY <2>1, <2>5, <4>1, <1>7, Zenon
      <4>3. i = j /\ d = c
        BY <4>2, <1>4, <1>7, Zenon
      <4>4. QED
        BY <2>3, <4>3, Zenon
    <3>3. QED
      BY <3>1, <3>2, Zenon
  <2>6. QED
    BY <2>4, <2>5, Zenon
<1>15. Marks(d, g, a)
  <2>1. SUFFICES ASSUME a.why # "none", ~(a.why = "rollback" /\ g # {})
                 PROVE  d.modified \subseteq a.dirty
    BY Zenon DEF Marks
  <2>2. c.modified \subseteq a.dirty
    BY <2>1, <1>1 DEF Marks
  <2>3. CASE o \notin d.modified \/ o \in c.modified
    BY <2>2, <2>3, <1>7, Zenon
  <2>4. CASE o \in d.modified /\ o \notin c.modified
    <3>1. o \in c.connected /\ changed
      BY <2>4, <1>8, Zenon
    <3>2. ~Completing(s, o)
      BY <3>1, <1>7, <1>10, Zenon
    <3>3. a.why = "rollback" /\ g = {}
      BY <3>2, <1>2, <2>1, Zenon
    <3>4. o \notin b
      BY <3>1, <1>1, Zenon DEF IdentityIn
    <3>5. AgreedIn(w, c, j, g, s, a, o)
      BY <2>4, <3>4, <1>1, <1>2, Zenon DEF Agreement
    <3>6. ~FullyAgrees(w, c, j, o)
      <4>1. SUFFICES ASSUME FullyAgrees(w, c, j, o) PROVE FALSE
        OBVIOUS
      <4>2. f.at \in 1..Len(Props(w, o[1])) /\ p = Props(w, o[1])[f.at]
        <5>1. f.at \in 1..(Len(Props(w, f.key)) + 1)
          <6>1. TopIs(w, c, j, b, s, a)
            BY <1>1, TopFrame
          <6>2. QED
            BY <6>1, Zenon DEF TopIs, FillIn, f
        <5>2. Len(Props(w, f.key)) \in Nat
          BY <1>2, PropsLength, Zenon
        <5>3. f.at <= Len(Props(w, f.key)) /\ p = Props(w, f.key)[f.at]
          BY Zenon DEF f
        <5>4. QED
          BY <5>1, <5>2, <5>3, <1>2
      <4>3. AgreesOn(w, c, j, o, p)
        BY <4>1, <4>2 DEF FullyAgrees, AgreesUpto
      <4>4. QED
        BY <4>3, <3>1, <1>4, Zenon
    <3>7. o \in a.dirty
      BY <3>2, <3>3, <3>5, <3>6, Zenon DEF AgreedIn
    <3>8. QED
      BY <2>2, <3>7, <1>7, Zenon
  <2>5. QED
    BY <2>3, <2>4, Zenon
<1>16. ASSUME NEW V \in SUBSET Keys, VisitedRows(w, c, s, a, V)
       PROVE  VisitedRows(w, d, s, a, V)
  <2>1. ASSUME NEW k \in V
        PROVE  \/ Overwriting(s, k)
               \/ ListedRows(w, k) \cap a.known \subseteq V /\ Get(d, k) \notin d.modified
    <3>1. CASE Get(c, k) \in d.modified /\ Get(c, k) \notin c.modified
      <4>1. Get(c, k) = o /\ o \in d.modified /\ o \notin c.modified
        BY <3>1, <1>7, Zenon
      <4>2. o \in c.connected
        BY <4>1, <1>8, Zenon
      <4>3. ~Completing(s, o)
        BY <4>2, <1>7, <1>10, Zenon
      <4>4. o[1] = k
        <5>1. Get(c, k) # NoInstance
          BY <4>1, <1>2, NoObjectFacts, Zenon
        <5>2. QED
          BY <4>1, <5>1, <1>1, Zenon DEF IdentityIn
      <4>5. QED
        BY <4>3, <4>4, <1>2, Zenon
    <3>2. CASE ~(Get(c, k) \in d.modified /\ Get(c, k) \notin c.modified)
      BY <3>2, <1>7, <1>16, Zenon DEF VisitedRows
    <3>3. QED
      BY <3>1, <3>2, Zenon
  <2>2. a.known \subseteq Keys
    BY <1>1, Zenon DEF CallIn
  <2>3. \A k \in a.known : Get(d, k) # NoInstance
    BY <2>2, <1>7, <1>16, Zenon DEF VisitedRows
  <2>4. \A k \in a.roots \cap a.known : k \in V \/ Rereading(s, a, k)
    BY <1>16, Zenon DEF VisitedRows
  <2>5. QED
    BY <2>1, <2>3, <2>4, Zenon DEF VisitedRows
<1>17. /\ Agreement(w, d, i, g, b, t, a) /\ Reached(w, t, a) /\ CallIn(w, t, a)
       /\ \A V : a.why = "rollback" /\ VisitedRows(w, d, s, a, V) => VisitedRows(w, d, t, a, V)
  <2>1. StillHeld(w, d, i, g, b, s, a, t)
    BY <1>13, SameHeld, Zenon
  <2>2. QED
    BY <2>1, <1>1, <1>14, Zenon DEF StillHeld
<1>18. Visited(w, d, t, a)
  <2>1. SUFFICES ASSUME a.why = "rollback"
                 PROVE  \E V \in SUBSET Keys : VisitedRows(w, d, t, a, V) /\ VisitedFrames(w, t, a, V)
    BY Zenon DEF Visited
  <2>2. PICK V \in SUBSET Keys : /\ VisitedRows(w, c, s, a, V) /\ VisitedFrames(w, s, a, V)
                                 /\ f.overwrite /\ p = "list" =>
                                        ListedRows(w, f.key) \cap a.known \subseteq V
    BY <2>1, Zenon DEF f, ReadyToSet
  <2>3. QED
    BY <2>1, <2>2, <1>13, <1>16, <1>17, Zenon
<1>19. Held(w, d, i, g, b, t, a)
  BY <1>9, <1>13, <1>15, <1>17, Zenon DEF Held, StackIn
<1>20. QED
  BY <1>4, <1>7, <1>13, <1>18, <1>19, Zenon DEF Reading, StackIn, HasSet

\* A read has come to its end, and returns to the fill.
LEMMA ReturnStep ==
    ASSUME NEW w, IsProgram(w), NEW c, NEW j, NEW g, NEW b, NEW s, NEW a,
           Reading(w, c, j, g, b, s, a), s # <<>>, IsRead(s, 1), s[1].left = <<>>, Tail(s) # <<>>,
           NEW p, p = Props(w, s[2].key)[s[2].at], NEW v,
           \/ p = "list" /\ v = s[1].result
           \/ p = "ref" /\ Len(s[1].result) = 1 /\ v = Head(s[1].result)
    PROVE  ReadyToSet(w, c, j, g, b, Tail(s), a, p, v)
<1> DEFINE t == Tail(s)
<1>1. /\ Held(w, c, j, g, b, s, a) /\ FramesIn(w, c, j, b, s, a) /\ TopIn(w, c, s)
      /\ Visited(w, c, s, a)
  BY DEF Reading, Held
<1>2. /\ s[1] \in ReadFrame /\ ReadIn(w, c, s[1]) /\ ~IsRead(t, 1) /\ t[1] = s[2]
      /\ s[2] \in FillFrame /\ FillIn(w, c, j, b, s[2]) /\ Len(s) >= 2
  <2>1. TopIs(w, c, j, b, s, a)
    BY <1>1, TopFrame
  <2>2. QED
    BY <2>1 DEF TopIs
<1>3. ReadFor(w, s[1], s[2], 0, s[2].key)
  BY <1>1, <1>2 DEF TopIn
<1>4. s[2].key \in Keys /\ s[2].inst \in Objects /\ s[2].inst[1] = s[2].key
  BY <1>2 DEF FillFrame, FillIn
<1>5. Returned(w, c, j, b, s, a, t)
  BY <1>1, MoveReturn, Zenon
<1>6. /\ FramesIn(w, c, j, b, t, a) /\ SameReads(s, t) /\ \A k : Waiting(s, k) <=> Waiting(t, k)
      /\ Descent(w, s, a) => Descent(w, t, a)
      /\ \A V : VisitedFrames(w, s, a, V) => VisitedFrames(w, t, a, V) /\ VisitedRead(a, V, s[1])
  BY <1>5 DEF Returned
<1>7. StillHeld(w, c, j, g, b, s, a, t)
  BY <1>6, SameHeld
<1>8. Held(w, c, j, g, b, t, a)
  BY <1>1, <1>6, <1>7 DEF Held, StillHeld
<1>9. /\ p = "list" => MembersIn(c, s[1].result, InOrder(ListedRows(w, s[2].key)))
      /\ p = "ref" /\ Len(s[1].result) = 1 =>
             Head(s[1].result) \in Cached(c) /\ Head(s[1].result)[1] = Ref(w, s[2].key)
  BY <1>2, <1>3, <1>4, ReadForDone
<1>10. /\ s[2].at <= Len(Props(w, s[2].key)) /\ (p = "ref" => ~IsNull(w, s[2].key))
       /\ s[1].overwrite = s[2].overwrite
  BY <1>3 DEF ReadFor
<1>11. Right(w, c, j, s[2].inst, p, v)
  <2>1. s[1].result \in Seq(Objects)
    BY <1>2 DEF ReadFrame
  <2>2. QED
    BY <2>1, <1>4, <1>9, <1>10 DEF Right
<1>12. ASSUME NEW V, VisitedRead(a, V, s[1]), s[2].overwrite, p = "list"
       PROVE  ListedRows(w, s[2].key) \cap a.known \subseteq V
  <2>1. SUFFICES ASSUME NEW l \in ListedRows(w, s[2].key), l \in a.known
                 PROVE  l \in V
    OBVIOUS
  <2> DEFINE q == InOrder(ListedRows(w, s[2].key))
  <2>2. PICK n \in 1..Len(q) : q[n] = l
    BY <1>4, ListedFacts
  <2> HIDE DEF q
  <2>3. MembersIn(c, s[1].result, q)
    BY <1>9, <1>12 DEF q
  <2>4. n \in 1..Len(s[1].result) /\ s[1].result[n][1] = l
    BY <2>2, <2>3 DEF MembersIn
  <2>5. s[1].overwrite
    BY <1>10, <1>12
  <2>6. QED
    BY <2>1, <2>4, <2>5, <1>12 DEF VisitedRead
<1>13. a.why = "rollback" =>
           \E V \in SUBSET Keys : /\ VisitedRows(w, c, t, a, V) /\ VisitedFrames(w, t, a, V)
                                  /\ s[2].overwrite /\ p = "list" =>
                                         ListedRows(w, s[2].key) \cap a.known \subseteq V
  <2>1. SUFFICES ASSUME a.why = "rollback"
                 PROVE  \E V \in SUBSET Keys :
                            /\ VisitedRows(w, c, t, a, V) /\ VisitedFrames(w, t, a, V)
                            /\ s[2].overwrite /\ p = "list" =>
                                   ListedRows(w, s[2].key) \cap a.known \subseteq V
    OBVIOUS
  <2>2. PICK V \in SUBSET Keys : VisitedRows(w, c, s, a, V) /\ VisitedFrames(w, s, a, V)
    BY <2>1, <1>1 DEF Visited
  <2>3. VisitedRows(w, c, t, a, V)
    BY <2>1, <2>2, <1>7 DEF StillHeld
  <2>4. QED
    BY <2>2, <2>3, <1>6, <1>12
<1>14. QED
  BY <1>2, <1>8, <1>10, <1>11, <1>13, Zenon DEF ReadyToSet

\* A fill asks for the rows of a reference or of a list.
LEMMA AskStep ==
    ASSUME NEW w, IsProgram(w), NEW c, NEW j, NEW g, NEW b, NEW s, NEW a,
           Reading(w, c, j, g, b, s, a), s # <<>>, ~IsRead(s, 1), Len(s) + 2 <= MaxStack,
           s[1].at <= Len(Props(w, s[1].key)),
           Props(w, s[1].key)[s[1].at] \in {"ref", "list"},
           Props(w, s[1].key)[s[1].at] = "ref" =>
               ~IsNull(w, s[1].key) /\ (Ref(w, s[1].key) \in Keys => Get(c, Ref(w, s[1].key)) = NoInstance),
           NEW t, t = <<Reads(AskedRows(w, s[1]), s[1].overwrite)>> \o s
    PROVE  Reading(w, c, j, g, b, t, a)
<1>1. /\ Held(w, c, j, g, b, s, a) /\ FramesIn(w, c, j, b, s, a) /\ Visited(w, c, s, a)
  BY DEF Reading, Held
<1>2. Asked(w, c, j, b, s, a, t)
  BY <1>1, MoveAsk, Zenon
<1>3. /\ StackIn(w, c, j, b, t, a) /\ t # <<>>
      /\ SameReads(s, t) /\ \A k : Waiting(s, k) <=> Waiting(t, k)
      /\ Descent(w, s, a) => Descent(w, t, a)
      /\ \A V : VisitedFrames(w, s, a, V) => VisitedFrames(w, t, a, V)
  BY <1>2 DEF Asked
<1>4. StillHeld(w, c, j, g, b, s, a, t)
  BY <1>3, SameHeld
<1>5. Held(w, c, j, g, b, t, a)
  BY <1>1, <1>3, <1>4 DEF Held, StillHeld, StackIn
<1>6. Visited(w, c, t, a)
  BY <1>1, <1>3, <1>4 DEF Visited, StillHeld
<1>7. QED
  BY <1>3, <1>5, <1>6 DEF Reading, StackIn

\* A read takes an instance that is cached and not modified.
LEMMA CachedStep ==
    ASSUME NEW w, IsProgram(w), NEW c, NEW j, NEW g, NEW b, NEW s, NEW a,
           Reading(w, c, j, g, b, s, a), s # <<>>, IsRead(s, 1), s[1].left # <<>>, ~s[1].overwrite,
           Get(c, Head(s[1].left)) # NoInstance, NEW x, x = Get(c, Head(s[1].left)),
           NEW t, t = <<[[s[1] EXCEPT !.left = Tail(@)] EXCEPT !.result = Append(@, x)]>> \o Tail(s)
    PROVE  Reading(w, c, j, g, b, t, a)
<1>1. /\ Held(w, c, j, g, b, s, a) /\ FramesIn(w, c, j, b, s, a) /\ Visited(w, c, s, a)
      /\ StackIn(w, c, j, b, s, a) /\ IdentityIn(w, c, j, g, b)
  BY DEF Reading, Held, StackIn
<1>2. s[1] \in ReadFrame
  <2>1. TopIs(w, c, j, b, s, a)
    BY <1>1, TopFrame
  <2>2. QED
    BY <2>1 DEF TopIs
<1>3. Head(s[1].left) \in Keys
  BY <1>2 DEF ReadFrame
<1>4. x \in Objects /\ Contains(c, x) /\ x[1] = Head(s[1].left)
  <2>1. x \in Cached(c) /\ x[1] = Head(s[1].left)
    BY <1>1, <1>3, CachedIsOne
  <2>2. QED
    BY <2>1 DEF Cached
<1>5. Taken(w, c, j, b, s, a, t)
  BY <1>1, <1>4, MoveCached, Zenon
<1>6. /\ StackIn(w, c, j, b, t, a) /\ t # <<>>
      /\ SameReads(s, t) /\ (\A k : a.why = "rollback" => (Waiting(s, k) <=> Waiting(t, k)))
      /\ Descent(w, s, a) => Descent(w, t, a)
      /\ \A V : VisitedFrames(w, s, a, V) => VisitedFrames(w, t, a, V)
  BY <1>5 DEF Taken
<1>7. StillHeld(w, c, j, g, b, s, a, t)
  BY <1>6, SameHeld
<1>8. Held(w, c, j, g, b, t, a)
  BY <1>1, <1>6, <1>7 DEF Held, StillHeld, StackIn
<1>9. Visited(w, c, t, a)
  BY <1>1, <1>6, <1>7 DEF Visited, StillHeld
<1>10. QED
  BY <1>6, <1>8, <1>9 DEF Reading, StackIn

\* The cache learns that an instance is complete, or has been read again.
Completed(c, f, d) ==
    /\ d \in Caches /\ d.ids = c.ids /\ d.byId = c.byId
    /\ d.modified \subseteq c.modified /\ c.modified \subseteq d.modified \cup {f.inst}
    /\ c.connected \subseteq d.connected /\ d.connected \subseteq c.connected \cup {f.inst}
    /\ IF f.fresh THEN f.inst \in d.connected /\ d.modified = c.modified
                  ELSE f.inst \notin d.modified /\ d.connected = c.connected
    /\ Cached(d) = Cached(c) /\ \A x : Contains(d, x) <=> Contains(c, x)
    /\ \A k : Get(d, k) = Get(c, k)

LEMMA CompleteCache ==
    ASSUME NEW c \in Caches, NEW f \in FillFrame, NEW d,
           d = IF f.fresh THEN Finalize(c, f.inst) ELSE MarkUnmodified(c, f.inst)
    PROVE  Completed(c, f, d)
<1>1. f.inst \in Objects
  BY DEF FillFrame
<1>2. CASE f.fresh
  <2>1. d = [c EXCEPT !.connected = @ \cup {f.inst}]
    BY <1>2 DEF Finalize
  <2>2. QED
    BY <1>1, <1>2, <2>1 DEF Completed, Caches, Cached, Contains, Get
<1>3. CASE ~f.fresh
  <2>1. d = [c EXCEPT !.modified = @ \ {f.inst}]
    BY <1>3 DEF MarkUnmodified
  <2>2. QED
    BY <1>1, <1>3, <2>1 DEF Completed, Caches, Cached, Contains, Get
<1>4. QED
  BY <1>2, <1>3

\* A fill ends.
LEMMA EndStep ==
    ASSUME NEW w, IsProgram(w), NEW c \in Caches, NEW j \in [Objects -> Object \cup {NoObject}],
           NEW g, NEW b \in SUBSET Objects, NEW s, NEW a, Reading(w, c, j, g, b, s, a), s # <<>>, ~IsRead(s, 1),
           s[1].at > Len(Props(w, s[1].key)),
           NEW d, d = IF s[1].fresh THEN Finalize(c, s[1].inst) ELSE MarkUnmodified(c, s[1].inst),
           NEW t, t = <<[s[2] EXCEPT !.result = Append(@, s[1].inst)]>> \o Tail(Tail(s))
    PROVE  HasSet(w, g, b, a, d, j, t)
<1> DEFINE f == s[1]
           o == f.inst
<1>1. /\ Held(w, c, j, g, b, s, a) /\ FramesIn(w, c, j, b, s, a) /\ Visited(w, c, s, a)
      /\ StackIn(w, c, j, b, s, a) /\ IdentityIn(w, c, j, g, b) /\ CallIn(w, s, a)
      /\ Descent(w, s, a) /\ Agreement(w, c, j, g, b, s, a) /\ Marks(c, g, a) /\ Reached(w, s, a)
  BY DEF Reading, Held, StackIn
<1>2. f \in FillFrame /\ FillIn(w, c, j, b, f)
  <2>1. TopIs(w, c, j, b, s, a)
    BY <1>1, TopFrame
  <2>2. QED
    BY <2>1 DEF TopIs
<1>3. /\ o \in Objects /\ f.key \in Keys /\ o[1] = f.key /\ o \in Cached(c) /\ Contains(c, o)
      /\ f.fresh \in BOOLEAN /\ (f.fresh <=> ~f.overwrite)
      /\ f.fresh => o \notin b
  BY <1>2 DEF FillFrame, FillIn, Cached
<1>4. FullyAgrees(w, c, j, o)
  <2>1. Len(Props(w, f.key)) \in Nat
    <3>1. Props(w, f.key) \in Seq({"value", "ref", "list"})
      BY <1>3, ProgramFacts
    <3>2. QED
      BY <3>1
  <2>2. f.at \in 1..(Len(Props(w, f.key)) + 1) /\ AgreesUpto(w, c, j, o, f.at - 1)
    BY <1>2 DEF FillIn
  <2>3. f.at - 1 = Len(Props(w, f.key))
    BY <2>1, <2>2
  <2>4. QED
    BY <1>3, <2>2, <2>3 DEF FullyAgrees
<1>5. Ended(w, c, j, b, s, a, t)
  BY <1>1, MoveEnd, Zenon
<1>6. /\ StackIn(w, c, j, b, t, a) /\ t # <<>> /\ FramesIn(w, c, j, b, t, a) /\ TopIn(w, c, t)
      /\ \A x : Completing(s, x) <=> (f.fresh /\ o = x) \/ Completing(t, x)
      /\ \A k : Overwriting(s, k) <=> (f.overwrite /\ f.key = k) \/ Overwriting(t, k)
      /\ \A k : Waiting(s, k) <=> Waiting(t, k)
      /\ Descent(w, t, a)
      /\ f.fresh => \A k \in FillsOf(t) : t[k].key # f.key
      /\ \A V : VisitedFrames(w, s, a, V) => VisitedFrames(w, t, a, V) /\ VisitedFill(w, a, V, f)
  BY <1>1, <1>5, Zenon DEF Ended, StackIn
<1>7. Completed(c, f, d)
  BY <1>2, CompleteCache
<1> HIDE DEF f
<1>8. /\ d \in Caches /\ d.ids = c.ids /\ d.byId = c.byId
      /\ d.modified \subseteq c.modified /\ c.modified \subseteq d.modified \cup {o}
      /\ c.connected \subseteq d.connected /\ d.connected \subseteq c.connected \cup {o}
      /\ IF f.fresh THEN o \in d.connected /\ d.modified = c.modified
                    ELSE o \notin d.modified /\ d.connected = c.connected
      /\ Cached(d) = Cached(c) /\ (\A x : Contains(d, x) <=> Contains(c, x))
      /\ \A k : Get(d, k) = Get(c, k)
  BY <1>7 DEF Completed
<1> HIDE DEF o
<1>9. \A x \in Cached(c) : x[1] = f.key => x = o
  BY <1>1, <1>3, CachedIsOne
<1>10. \A k \in FillsOf(t) : t[k].inst \in Cached(c) /\ t[k].inst[1] = t[k].key
  <2>1. FramesIn(w, c, j, b, t, a)
    BY <1>6
  <2>2. FillsCached(c, t)
    BY <2>1, FillsAreCachedIn
  <2>3. QED
    BY <2>2, Zenon DEF FillsCached
<1>11. IdentityIn(w, d, j, g, b)
  <2>1. j[o] # NoObject
    BY <1>1, <1>3, CachedIsOne
  <2>2. /\ \A x \in c.connected : j[x] # NoObject /\ x \notin b
        /\ \A x \in c.modified : Contains(c, x) /\ x \in c.connected
        /\ \A x \in b : j[x] # NoObject
    BY <1>1 DEF IdentityIn, Caches
  <2>3. \A x \in d.connected : j[x] # NoObject /\ x \notin b
    BY <2>1, <2>2, <1>3, <1>8
  <2>4. \A x \in d.modified : Contains(c, x) /\ x \in d.connected
    BY <2>2, <1>8
  <2>5. SameIdentity(c, j, d, j, b)
    BY <2>2, <2>3, <2>4, <1>8 DEF SameIdentity
  <2>6. QED
    BY <2>5, <1>1, <1>8, IdentityStays
<1>12. \A x : Completing(t, x) => x \notin d.connected \cup d.modified \cup b
  <2>1. SUFFICES ASSUME NEW x, Completing(t, x)
                 PROVE  x \notin d.connected \cup d.modified \cup b
    OBVIOUS
  <2>2. x \notin c.connected \cup c.modified \cup b
    BY <2>1, <1>6, CompletingIn
  <2>3. CASE f.fresh
    <3>1. PICK k \in FillsOf(t) : t[k].inst = x
      BY <2>1, Zenon DEF Completing
    <3>2. x # o
      BY <2>3, <3>1, <1>3, <1>6, <1>10, Zenon
    <3>3. QED
      BY <2>2, <3>2, <1>8
  <2>4. CASE ~f.fresh
    BY <2>2, <2>4, <1>8
  <2>5. QED
    BY <2>3, <2>4
<1>13. \A x, p : AgreesOn(w, c, j, x, p) => AgreesOn(w, d, j, x, p)
  BY <1>8 DEF AgreesOn, MembersIn
<1>14. FramesIn(w, d, j, b, t, a)
  <2>1. KeepsFrames(w, c, j, t, d, j, b)
    BY <1>8, <1>12, <1>13, Zenon DEF KeepsFrames
  <2>2. QED
    BY <2>1, <1>6, FramesStay
<1>15. TopIn(w, d, t)
  BY <1>6, <1>8, Zenon DEF TopIn
<1>16. Agreement(w, d, j, g, b, t, a)
  <2>1. SUFFICES ASSUME NEW x \in Cached(d) \ (b \cup d.modified), ~Completing(t, x)
                 PROVE  AgreedIn(w, d, j, g, t, a, x)
    BY Zenon DEF Agreement, AgreedIn
  <2>2. FullyAgrees(w, c, j, x) => FullyAgrees(w, d, j, x)
    BY <1>13 DEF FullyAgrees, AgreesUpto
  <2>3. x \in Cached(c) \ b
    BY <2>1, <1>8
  <2>4. CASE x = o
    <3>1. o \in d.connected
      <4>1. CASE f.fresh
        BY <4>1, <1>8
      <4>2. CASE ~f.fresh /\ o \in c.modified
        BY <4>2, <1>1, <1>3, <1>8 DEF IdentityIn
      <4>3. CASE ~f.fresh /\ o \notin c.modified
        <5>1. AgreedIn(w, c, j, g, s, a, o)
          BY <2>3, <2>4, <4>3, <1>1 DEF Agreement
        <5>2. ~Completing(s, o)
          BY <2>1, <2>4, <4>3, <1>6, Zenon
        <5>3. QED
          BY <5>1, <5>2, <1>8 DEF AgreedIn
      <4>4. QED
        BY <4>1, <4>2, <4>3
    <3>2. QED
      BY <2>2, <2>4, <3>1, <1>4 DEF AgreedIn
  <2>5. CASE x # o
    <3>1. x \in Cached(c) \ (b \cup c.modified)
      BY <2>1, <2>3, <2>5, <1>8
    <3>2. AgreedIn(w, c, j, g, s, a, x)
      BY <3>1, <1>1 DEF Agreement
    <3>3. ~Completing(s, x)
      BY <2>1, <2>5, <1>6, Zenon
    <3>4. Rereading(s, a, x[1]) => Rereading(t, a, x[1])
      <4>1. x[1] # f.key
        BY <2>3, <2>5, <1>9
      <4>2. QED
        BY <4>1, <1>6, Zenon DEF Rereading
    <3>5. QED
      BY <2>2, <3>2, <3>3, <3>4, <1>8 DEF AgreedIn
  <2>6. QED
    BY <2>4, <2>5
<1>17. Marks(d, g, a)
  BY <1>1, <1>8 DEF Marks
<1>18. Reached(w, t, a)
  BY <1>1, <1>6, Zenon DEF Reached
<1>19. CallIn(w, t, a)
  BY <1>1 DEF CallIn
<1>20. Held(w, d, j, g, b, t, a)
  BY <1>6, <1>11, <1>14, <1>16, <1>17, <1>18, <1>19 DEF Held
<1>21. ASSUME NEW V \in SUBSET Keys, VisitedRows(w, c, s, a, V), VisitedFill(w, a, V, f)
       PROVE  VisitedRows(w, d, t, a, V)
  <2>1. f.overwrite => f.key \in V /\ ListedRows(w, f.key) \cap a.known \subseteq V
    <3>1. SUFFICES ASSUME f.overwrite
                   PROVE  f.key \in V /\ ListedRows(w, f.key) \cap a.known \subseteq V
      OBVIOUS
    <3>2. /\ f.key \in V
          /\ \A n \in 1..(f.at - 1) :
                 Props(w, f.key)[n] = "list" => ListedRows(w, f.key) \cap a.known \subseteq V
      BY <3>1, <1>21 DEF VisitedFill
    <3>3. CASE ListedRows(w, f.key) = {}
      BY <3>2, <3>3
    <3>4. CASE ListedRows(w, f.key) # {}
      <4>1. PICK n \in 1..Len(Props(w, f.key)) : Props(w, f.key)[n] = "list"
        BY <3>4, <1>3, ProgramFacts, Zenon
      <4>2. Len(Props(w, f.key)) \in Nat
        <5>1. Props(w, f.key) \in Seq({"value", "ref", "list"})
          BY <1>3, ProgramFacts
        <5>2. QED
          BY <5>1
      <4>3. f.at > Len(Props(w, f.key)) /\ f.at \in Nat
        BY <1>2 DEF f, FillFrame
      <4>4. n \in 1..(f.at - 1)
        BY <4>1, <4>2, <4>3
      <4>5. QED
        BY <3>2, <4>1, <4>4
    <3>5. QED
      BY <3>3, <3>4
  <2>2. ASSUME NEW k \in V
        PROVE  \/ Overwriting(t, k)
               \/ ListedRows(w, k) \cap a.known \subseteq V /\ Get(d, k) \notin d.modified
    <3>1. CASE f.overwrite /\ f.key = k
      <4>1. Get(d, k) = o
        BY <3>1, <1>1, <1>3, <1>8, CachedIsOne
      <4>2. QED
        BY <2>1, <3>1, <4>1, <1>3, <1>8
    <3>2. CASE ~(f.overwrite /\ f.key = k) /\ Overwriting(s, k)
      BY <3>2, <1>6, Zenon
    <3>3. CASE ~Overwriting(s, k)
      BY <3>3, <1>8, <1>21 DEF VisitedRows
    <3>4. QED
      BY <3>1, <3>2, <3>3
  <2>3. ASSUME NEW k \in a.roots \cap a.known
        PROVE  k \in V \/ Rereading(t, a, k)
    <3>1. k \in V \/ Rereading(s, a, k)
      BY <1>21 DEF VisitedRows
    <3>2. Rereading(s, a, k) => Rereading(t, a, k) \/ (f.overwrite /\ f.key = k)
      BY <1>6, Zenon DEF Rereading
    <3>3. QED
      BY <2>1, <3>1, <3>2
  <2>4. \A k \in a.known : Get(d, k) # NoInstance
    BY <1>8, <1>21 DEF VisitedRows
  <2>5. QED
    BY <2>2, <2>3, <2>4, Zenon DEF VisitedRows
<1>22. Visited(w, d, t, a)
  <2>1. SUFFICES ASSUME a.why = "rollback"
                 PROVE  \E V \in SUBSET Keys : VisitedRows(w, d, t, a, V) /\ VisitedFrames(w, t, a, V)
    BY Zenon DEF Visited
  <2>2. PICK V \in SUBSET Keys : VisitedRows(w, c, s, a, V) /\ VisitedFrames(w, s, a, V)
    BY <2>1, <1>1 DEF Visited
  <2>3. QED
    BY <2>2, <1>6, <1>21, Zenon
<1>23. QED
  BY <1>8, <1>15, <1>20, <1>22 DEF Reading, HasSet

LEMMA BelowFacts ==
    ASSUME NEW w
    PROVE  /\ \A k \in Keys : ListedRows(w, k) \subseteq Below(w, k)
           /\ \A k, m, l \in Keys : l \in ListedRows(w, m) /\ m \in Below(w, k) => l \in Below(w, k)
<1>1. \A k : ListedRows(w, k) \subseteq Keys
  BY DEF ListedRows
<1>2. QED
  BY <1>1 DEF Below, ClosedIn

LEMMA ReachFacts ==
    ASSUME NEW w, NEW roots \in SUBSET Keys
    PROVE  /\ roots \subseteq ReachIn(w, roots, Keys)
           /\ \A m, l \in Keys : l \in ListedRows(w, m) /\ m \in ReachIn(w, roots, Keys) =>
                  l \in ReachIn(w, roots, Keys)
BY DEF ReachIn

LEMMA VisitedMore ==
    ASSUME NEW w, NEW s, NEW a, NEW V, VisitedFrames(w, s, a, V), NEW W, V \subseteq W
    PROVE  VisitedFrames(w, s, a, W)
<1>1. \A f : VisitedRead(a, V, f) => VisitedRead(a, W, f)
  BY DEF VisitedRead
<1>2. \A f : VisitedFill(w, a, V, f) => VisitedFill(w, a, W, f)
  BY DEF VisitedFill
<1>3. QED
  BY <1>1, <1>2 DEF VisitedFrames

\* Who an overwriting read is for.
Asker(w, c, s, a, k) ==
    /\ a.why = "rollback" /\ k \in Keys /\ Len(s[1].left) >= 1 /\ HasRow(w, k)
    /\ s[1] \in ReadFrame /\ s # <<>>
    /\ Tail(s) # <<>> /\ s[1].overwrite /\ Get(c, k) # NoInstance =>
           /\ s[2].overwrite /\ s[2].key \in Keys
           /\ k \in ListedRows(w, s[2].key)
           /\ 1 \in FillsOf(Tail(s)) /\ Tail(s)[1] = s[2]

LEMMA AskerOf ==
    ASSUME NEW w, IsProgram(w), NEW c, NEW j, NEW b, NEW s, NEW a, StackIn(w, c, j, b, s, a), s # <<>>,
           IsRead(s, 1), s[1].left # <<>>, a.why = "rollback", NEW k, k = Head(s[1].left)
    PROVE  Asker(w, c, s, a, k)
<1>1. TopIs(w, c, j, b, s, a) /\ TopIn(w, c, s)
  BY TopFrame DEF StackIn
<1>2. s[1] \in ReadFrame /\ ReadIn(w, c, s[1])
  BY <1>1 DEF TopIs
<1>3. s[1].left \in Seq(Keys)
  BY <1>2 DEF ReadFrame
<1>4. k \in Keys /\ k = s[1].left[1] /\ Len(s[1].left) >= 1
  BY <1>3
<1>5. HasRow(w, k)
  BY <1>2, <1>4 DEF ReadIn
<1>6. ASSUME Tail(s) # <<>>, s[1].overwrite, Get(c, k) # NoInstance
      PROVE  /\ s[2].overwrite /\ s[2].key \in Keys
             /\ k \in ListedRows(w, s[2].key)
             /\ 1 \in FillsOf(Tail(s)) /\ Tail(s)[1] = s[2]
  <2>1. /\ ~IsRead(Tail(s), 1) /\ Tail(s)[1] = s[2] /\ s[2] \in FillFrame /\ Len(s) >= 2
        /\ Tail(s) \in Seq(Frames)
    BY <1>1, <1>6 DEF TopIs
  <2>2. /\ ReadFor(w, s[1], s[2], 0, s[2].key)
        /\ WaitsForRef(w, s[2]) => Get(c, s[1].left[1]) = NoInstance
    BY <1>1, <2>1 DEF TopIn
  <2>3. s[2].key \in Keys
    BY <2>1 DEF FillFrame
  <2>4. Props(w, s[2].key)[s[2].at] = "list"
    BY <2>2, <1>4, <1>6 DEF WaitsForRef, ReadFor
  <2>5. AskedRows(w, s[2]) = ListedRows(w, s[2].key)
    BY <2>4 DEF AskedRows
  <2>6. k \in ListedRows(w, s[2].key)
    <3> DEFINE q == InOrder(AskedRows(w, s[2]))
    <3>1. q \in Seq(Keys) /\ \A n \in 1..Len(q) : q[n] \in AskedRows(w, s[2])
      BY <2>3, AskedFacts
    <3> HIDE DEF q
    <3>2. /\ Len(q) = Len(s[1].result) + 0 + Len(s[1].left)
          /\ \A n \in 1..Len(s[1].left) : q[Len(s[1].result) + 0 + n] = s[1].left[n]
      BY <2>2 DEF ReadFor, q
    <3>3. Len(s[1].result) \in Nat /\ Len(s[1].left) \in Nat
      <4>1. s[1].result \in Seq(Objects)
        BY <1>2 DEF ReadFrame
      <4>2. QED
        BY <4>1, <1>3
    <3>4. 1 \in 1..Len(s[1].left)
      BY <3>3, <1>4
    <3>5. q[Len(s[1].result) + 0 + 1] = k
      BY <3>2, <3>4, <1>4
    <3>6. Len(s[1].result) + 0 + 1 \in 1..Len(q)
      <4>1. PICK x \in Nat, y \in Nat : Len(s[1].result) = x /\ Len(s[1].left) = y /\ y >= 1
        BY <3>3, <1>4
      <4>2. Len(q) = x + 0 + y
        BY <3>2, <4>1
      <4>3. x + 0 + 1 \in 1..(x + 0 + y)
        BY <4>1
      <4>4. QED
        BY <4>1, <4>2, <4>3
    <3>7. QED
      BY <3>1, <3>5, <3>6, <2>5
  <2>7. 1 \in FillsOf(Tail(s))
    BY <2>1, <1>6, EmptyFacts DEF FillsOf
  <2>8. s[2].overwrite
    BY <2>2, <1>6 DEF ReadFor
  <2>9. QED
    BY <2>1, <2>3, <2>6, <2>7, <2>8
<1>7. QED
  BY <1>2, <1>4, <1>5, <1>6 DEF Asker

\* A rollback reads a cached instance again.
LEMMA OverwriteStep ==
    ASSUME NEW w, IsProgram(w), NEW c \in Caches, NEW j, NEW g, NEW b, NEW s, NEW a,
           Reading(w, c, j, g, b, s, a), s # <<>>, IsRead(s, 1), s[1].left # <<>>, s[1].overwrite,
           NEW k, k = Head(s[1].left), Get(c, k) # NoInstance,
           NEW f, f = [kind |-> "fill", inst |-> Get(c, k), key |-> k, at |-> 1, fresh |-> FALSE,
                       overwrite |-> TRUE],
           NEW t, t = <<f>> \o (<<[s[1] EXCEPT !.left = Tail(@)]>> \o Tail(s))
    PROVE  Reading(w, c, j, g, b, t, a)
<1>1. /\ Held(w, c, j, g, b, s, a) /\ FramesIn(w, c, j, b, s, a) /\ Visited(w, c, s, a)
      /\ StackIn(w, c, j, b, s, a) /\ IdentityIn(w, c, j, g, b) /\ CallIn(w, s, a)
      /\ Descent(w, s, a) /\ Agreement(w, c, j, g, b, s, a) /\ Marks(c, g, a) /\ Reached(w, s, a)
  BY DEF Reading, Held, StackIn
<1>2. a.why = "rollback"
  <2>1. TopIs(w, c, j, b, s, a)
    BY <1>1, TopFrame
  <2>2. QED
    BY <2>1 DEF TopIs
<1>3. /\ k \in Keys
      /\ Tail(s) # <<>> => /\ s[2].overwrite /\ s[2].key \in Keys
                           /\ k \in ListedRows(w, s[2].key)
                           /\ 1 \in FillsOf(Tail(s)) /\ Tail(s)[1] = s[2]
  <2>1. Asker(w, c, s, a, k)
    BY <1>1, <1>2, AskerOf
  <2>2. QED
    BY <2>1 DEF Asker
<1>4. FillIn(w, c, j, b, f)
  <2>1. Get(c, k) \in Objects /\ Contains(c, Get(c, k)) /\ Get(c, k)[1] = k
    <3>1. Get(c, k) \in Cached(c) /\ Get(c, k)[1] = k
      BY <1>1, <1>3, CachedIsOne
    <3>2. QED
      BY <3>1 DEF Cached
  <2>2. /\ f.inst = Get(c, k) /\ f.key = k /\ f.at = 1 /\ ~f.fresh /\ f.overwrite
        /\ f \in FillFrame
    BY <2>1, <1>3 DEF FillFrame
  <2>3. Len(Props(w, k)) \in Nat
    <3>1. Props(w, k) \in Seq({"value", "ref", "list"})
      BY <1>3, ProgramFacts
    <3>2. QED
      BY <3>1
  <2>4. AgreesUpto(w, c, j, f.inst, f.at - 1)
    BY <2>2 DEF AgreesUpto
  <2>5. QED
    BY <2>1, <2>2, <2>3, <2>4 DEF FillIn
<1>5. f.key = k /\ ~f.fresh /\ f.overwrite /\ f.at = 1
  OBVIOUS
<1>6. Entered(w, c, c, j, b, s, a, f, t)
  <2>1. f.key = Head(s[1].left) /\ (f.overwrite => s[1].overwrite)
        /\ (Get(c, f.key) = NoInstance => f.fresh)
    BY <1>5
  <2>2. QED
    BY <2>1, <1>1, <1>4, MoveEnter, Zenon
<1>7. /\ StackIn(w, c, j, b, t, a) /\ t # <<>> /\ FramesIn(w, c, j, b, t, a) /\ TopIn(w, c, t)
      /\ \A o : Completing(t, o) <=> Completing(s, o)
      /\ \A m : Overwriting(t, m) <=> k = m \/ Overwriting(s, m)
      /\ \A m : Waiting(s, m) => Waiting(t, m) \/ m = k
      /\ \A m : Waiting(t, m) => Waiting(s, m)
      /\ Tail(s) = <<>> => Waiting(s, k)
      /\ (\A n \in FillsOf(Tail(s)) : IsBelow(w, a, f, Tail(s)[n])) => Descent(w, t, a)
      /\ \A V : VisitedFrames(w, s, a, V) /\ VisitedFill(w, a, V, f) => VisitedFrames(w, t, a, V)
  BY <1>1, <1>5, <1>6, Zenon DEF Entered, StackIn
<1>8. Tail(s) # <<>> => /\ Descent(w, Tail(s), a) /\ FillsCached(c, Tail(s))
                        /\ SameReads(s, Tail(s))
  <2>1. SUFFICES ASSUME Tail(s) # <<>>
                 PROVE  /\ Descent(w, Tail(s), a) /\ FillsCached(c, Tail(s))
                        /\ SameReads(s, Tail(s))
    OBVIOUS
  <2>2. Returned(w, c, j, b, s, a, Tail(s))
    BY <2>1, <1>1, MoveReturn, Zenon
  <2>3. FramesIn(w, c, j, b, Tail(s), a) /\ Descent(w, Tail(s), a) /\ SameReads(s, Tail(s))
    BY <2>2, <1>1 DEF Returned
  <2>4. QED
    BY <2>3, FillsAreCachedIn
<1>9. Descent(w, t, a)
  <2>1. SUFFICES ASSUME NEW n \in FillsOf(Tail(s))
                 PROVE  IsBelow(w, a, f, Tail(s)[n])
    BY <1>7, Zenon
  <2> DEFINE h == Tail(s)[n]
  <2>2. Tail(s) # <<>> /\ n \in Nat /\ n >= 1
    <3>1. n \in 1..Len(Tail(s))
      BY <2>1 DEF FillsOf
    <3>2. FramesIn(w, c, j, b, Tail(s), a)
      BY <1>1, PopFrame
    <3>3. Len(Tail(s)) \in Nat /\ (Tail(s) = <<>> <=> Len(Tail(s)) = 0)
      BY <3>2, EmptyFacts, Zenon DEF FramesIn
    <3>4. QED
      BY <3>1, <3>3
  <2>3. h.key \in Keys
    BY <2>1, <2>2, <1>8, Zenon DEF FillsCached
  <2> HIDE DEF h
  <2>4. k \in Below(w, s[2].key)
    BY <2>2, <1>3, BelowFacts
  <2>5. k \in Below(w, h.key)
    <3>1. CASE n = 1
      BY <3>1, <2>2, <2>4, <1>3 DEF h
    <3>2. CASE n # 1
      <4>1. /\ 1 \in FillsOf(Tail(s)) /\ Tail(s)[1] = s[2] /\ 1 < n
            /\ s[2].overwrite /\ s[2].key \in Keys /\ k \in ListedRows(w, s[2].key)
        BY <3>2, <2>2, <1>3
      <4>2. \A x, y \in FillsOf(Tail(s)) : x < y => IsBelow(w, a, Tail(s)[x], Tail(s)[y])
        BY <2>2, <1>8, Zenon DEF Descent
      <4>3. IsBelow(w, a, s[2], h)
        BY <4>1, <4>2, <2>1, Zenon DEF h
      <4>4. s[2].key \in Below(w, h.key)
        BY <4>1, <4>3 DEF IsBelow
      <4>5. QED
        BY <4>1, <4>4, <2>3, <1>3, BelowFacts
    <3>3. QED
      BY <3>1, <3>2
  <2>6. k = h.key => Rings(w, a)
    BY <2>3, <2>5, <1>2 DEF Rings
  <2>7. QED
    BY <2>5, <2>6, <1>5, Zenon DEF IsBelow, h
<1>10. \A m : Rereading(s, a, m) => Rereading(t, a, m)
  BY <1>7, Zenon DEF Rereading
<1>11. Agreement(w, c, j, g, b, t, a)
  <2>1. \A o : AgreedIn(w, c, j, g, s, a, o) => AgreedIn(w, c, j, g, t, a, o)
    BY <1>7, <1>10, Zenon DEF AgreedIn
  <2>2. QED
    BY <2>1, <1>1, Zenon DEF Agreement
<1>12. Reached(w, t, a)
  <2>1. a.roots \in SUBSET Keys
    BY <1>1 DEF CallIn
  <2>2. k \in ReachIn(w, a.roots, Keys)
    <3>1. CASE Tail(s) = <<>>
      <4>1. k \in a.roots
        BY <3>1, <1>1, <1>2, <1>3, <1>7 DEF Reached
      <4>2. QED
        BY <4>1, <2>1, ReachFacts
    <3>2. CASE Tail(s) # <<>>
      <4>1. Overwriting(Tail(s), s[2].key)
        BY <3>2, <1>3, Zenon DEF Overwriting
      <4>2. Overwriting(s, s[2].key)
        BY <4>1, <3>2, <1>8 DEF SameReads
      <4>3. s[2].key \in ReachIn(w, a.roots, Keys)
        BY <4>2, <3>2, <1>1, <1>2, <1>3 DEF Reached
      <4>4. QED
        BY <4>3, <3>2, <2>1, <1>3, ReachFacts
    <3>3. QED
      BY <3>1, <3>2
  <2>3. QED
    BY <2>2, <1>1, <1>7, Zenon DEF Reached
<1>13. CallIn(w, t, a)
  BY <1>1 DEF CallIn
<1>14. Held(w, c, j, g, b, t, a)
  BY <1>1, <1>7, <1>9, <1>11, <1>12, <1>13 DEF Held
<1>15. Visited(w, c, t, a)
  <2>1. PICK V \in SUBSET Keys : VisitedRows(w, c, s, a, V) /\ VisitedFrames(w, s, a, V)
    BY <1>1, <1>2 DEF Visited
  <2> DEFINE W == V \cup {k}
  <2>2. W \in SUBSET Keys /\ V \subseteq W /\ k \in W /\ \A m \in W : m \in V \/ m = k
    BY <1>3
  <2> HIDE DEF W
  <2>3. VisitedFrames(w, s, a, W)
    BY <2>1, <2>2, VisitedMore
  <2>4. VisitedFill(w, a, W, f)
    BY <2>2, <1>5 DEF VisitedFill
  <2>5. VisitedFrames(w, t, a, W)
    BY <2>3, <2>4, <1>7, Zenon
  <2>6. VisitedRows(w, c, t, a, W)
    <3>1. ASSUME NEW m \in W
          PROVE  \/ Overwriting(t, m)
                 \/ ListedRows(w, m) \cap a.known \subseteq W /\ Get(c, m) \notin c.modified
      BY <2>1, <2>2, <1>7, Zenon DEF VisitedRows
    <3>2. \A m \in a.roots \cap a.known : m \in W \/ Rereading(t, a, m)
      BY <2>1, <2>2, <1>10, Zenon DEF VisitedRows
    <3>3. \A m \in a.known : Get(c, m) # NoInstance
      BY <2>1, SMTT(30) DEF VisitedRows
    <3>4. QED
      BY <3>1, <3>2, <3>3, Zenon DEF VisitedRows
  <2>7. QED
    BY <2>2, <2>5, <2>6 DEF Visited
<1>16. QED
  BY <1>7, <1>14, <1>15 DEF Reading

\* A read makes the instance of a row that has none, and has it filled.
LEMMA MakeStep ==
    ASSUME NEW w, IsProgram(w), NEW c \in Caches, NEW j \in [Objects -> Object \cup {NoObject}],
           NEW g \in SUBSET Objects, NEW b \in SUBSET Objects, NEW s, NEW a,
           Reading(w, c, j, g, b, s, a), s # <<>>, IsRead(s, 1), s[1].left # <<>>,
           NEW k, k = Head(s[1].left), Get(c, k) = NoInstance,
           NEW o \in Objects, o[1] = k, j[o] = NoObject,
           NEW d, d = Insert(c, o, k), NEW i, i = [j EXCEPT ![o] = NewObject],
           NEW f, f = [kind |-> "fill", inst |-> o, key |-> k, at |-> 1, fresh |-> TRUE,
                       overwrite |-> FALSE],
           NEW t, t = <<f>> \o (<<[s[1] EXCEPT !.left = Tail(@)]>> \o Tail(s))
    PROVE  HasSet(w, g, b, a, d, i, t)
<1>1. /\ Held(w, c, j, g, b, s, a) /\ FramesIn(w, c, j, b, s, a) /\ Visited(w, c, s, a)
      /\ StackIn(w, c, j, b, s, a) /\ IdentityIn(w, c, j, g, b) /\ CallIn(w, s, a)
      /\ Descent(w, s, a) /\ Agreement(w, c, j, g, b, s, a) /\ Marks(c, g, a) /\ Reached(w, s, a)
  BY DEF Reading, Held, StackIn
<1>2. k \in Keys /\ HasRow(w, k)
  <2>1. s[1] \in ReadFrame /\ ReadIn(w, c, s[1])
    <3>1. TopIs(w, c, j, b, s, a)
      BY <1>1, TopFrame
    <3>2. QED
      BY <3>1 DEF TopIs
  <2>2. s[1].left \in Seq(Keys)
    BY <2>1 DEF ReadFrame
  <2>3. k \in Keys /\ k = s[1].left[1] /\ Len(s[1].left) >= 1 /\ Len(s[1].left) \in Nat
    BY <2>2
  <2>4. QED
    BY <2>1, <2>3 DEF ReadIn
<1>3. Inserted(w, c, j, g, b, o, d, i)
  <2>1. d = Insert(c, o, o[1]) /\ HasRow(w, o[1]) /\ Get(c, o[1]) = NoInstance
    BY <1>2
  <2>2. QED
    BY <2>1, <1>1, InsertIdentity, Zenon
<1>4. /\ d \in Caches /\ i \in [Objects -> Object \cup {NoObject}]
      /\ IdentityIn(w, d, i, g, b)
      /\ d.connected = c.connected /\ d.modified = c.modified
      /\ Cached(d) = Cached(c) \cup {o} /\ o \notin Cached(c)
      /\ o \notin c.connected \cup c.modified \cup b \cup g
      /\ \A x \in Objects \ {o} : i[x] = j[x]
      /\ \A m \in Keys : m # k => Get(d, m) = Get(c, m)
      /\ Get(d, k) = o
  BY <1>3 DEF Inserted
<1>5. ASSUME NEW x \in Cached(c)
      PROVE  x # o /\ x[1] # k /\ i[x] = j[x] /\ StillAgrees(w, c, j, d, i, x)
  <2>1. x # o /\ x \in Objects
    BY <1>4 DEF Cached
  <2>2. x[1] # k
    <3>1. Get(c, x[1]) = x
      BY <1>1, CachedIsOne
    <3>2. QED
      BY <2>1, <3>1, NoObjectFacts
  <2>3. i[x] = j[x] /\ Cached(c) \subseteq Cached(d)
    BY <2>1, <1>4
  <2>4. QED
    BY <2>1, <2>2, <2>3, AgreesStays, Zenon
<1>6. FramesIn(w, d, i, b, s, a)
  <2>1. \A x \in Objects : Contains(c, x) => Contains(d, x)
    BY <1>4 DEF Cached
  <2>2. \A x \in Objects, p \in {"value", "ref", "list"} :
            Contains(c, x) /\ AgreesOn(w, c, j, x, p) => AgreesOn(w, d, i, x, p)
    <3>1. \A x \in Objects : Contains(c, x) => StillAgrees(w, c, j, d, i, x)
      BY <1>5, Zenon DEF Cached
    <3>2. QED
      BY <3>1, Zenon DEF StillAgrees
  <2>3. \A x \in Objects : Completing(s, x) => x \notin d.connected \cup d.modified \cup b
    BY <1>1, <1>4, CompletingIn
  <2>4. KeepsFrames(w, c, j, s, d, i, b)
    BY <2>1, <2>2, <2>3, Zenon DEF KeepsFrames
  <2>5. QED
    BY <2>4, <1>1, FramesStay
<1>7. FillIn(w, d, i, b, f)
  <2>1. /\ f.inst = o /\ f.key = k /\ f.at = 1 /\ f.fresh /\ ~f.overwrite
        /\ f \in FillFrame
    BY <1>2 DEF FillFrame
  <2>2. Len(Props(w, k)) \in Nat
    <3>1. Props(w, k) \in Seq({"value", "ref", "list"})
      BY <1>2, ProgramFacts
    <3>2. QED
      BY <3>1
  <2>3. AgreesUpto(w, d, i, f.inst, f.at - 1)
    BY <2>1 DEF AgreesUpto
  <2>4. Contains(d, o)
    BY <1>4 DEF Cached
  <2>5. QED
    BY <2>1, <2>2, <2>3, <2>4, <1>4 DEF FillIn
<1>8. f.key = k /\ f.fresh /\ ~f.overwrite /\ f.inst = o
  OBVIOUS
<1>9. Entered(w, c, d, i, b, s, a, f, t)
  <2>1. f.key = Head(s[1].left) /\ (f.overwrite => s[1].overwrite)
        /\ (Get(c, f.key) = NoInstance => f.fresh)
    BY <1>8
  <2>2. QED
    BY <2>1, <1>1, <1>6, <1>7, MoveEnter, Zenon
<1>10. /\ StackIn(w, d, i, b, t, a) /\ t # <<>> /\ FramesIn(w, d, i, b, t, a) /\ TopIn(w, d, t)
       /\ \A x : Completing(t, x) <=> o = x \/ Completing(s, x)
       /\ \A m : Overwriting(t, m) <=> Overwriting(s, m)
       /\ \A m : Waiting(s, m) => Waiting(t, m) \/ m = k
       /\ \A m : Waiting(t, m) => Waiting(s, m)
       /\ (\A n \in FillsOf(Tail(s)) : IsBelow(w, a, f, Tail(s)[n])) => Descent(w, t, a)
       /\ \A V : VisitedFrames(w, s, a, V) /\ VisitedFill(w, a, V, f) => VisitedFrames(w, t, a, V)
  BY <1>1, <1>8, <1>9, Zenon DEF Entered, StackIn
<1>11. Descent(w, t, a)
  <2>1. SUFFICES ASSUME NEW n \in FillsOf(Tail(s))
                 PROVE  IsBelow(w, a, f, Tail(s)[n])
    BY <1>10, Zenon
  <2>2. FramesIn(w, c, j, b, Tail(s), a)
    BY <1>1, PopFrame
  <2>3. FillsCached(c, Tail(s))
    BY <2>2, FillsAreCachedIn
  <2>4. Tail(s)[n].inst \in Cached(c) /\ Tail(s)[n].inst[1] = Tail(s)[n].key
    BY <2>1, <2>3, Zenon DEF FillsCached
  <2>5. Tail(s)[n].key # k
    BY <2>4, <1>5, Zenon
  <2>6. QED
    BY <2>5, <1>8, Zenon DEF IsBelow
<1>12. \A m : m # k /\ Rereading(s, a, m) => Rereading(t, a, m)
  BY <1>10, Zenon DEF Rereading
<1>13. Agreement(w, d, i, g, b, t, a)
  <2>1. SUFFICES ASSUME NEW x \in Cached(d) \ (b \cup d.modified), x # o
                 PROVE  AgreedIn(w, d, i, g, t, a, x)
    BY <1>10, Zenon DEF Agreement, AgreedIn
  <2>2. x \in Cached(c) /\ x \in Cached(c) \ (b \cup c.modified)
    BY <2>1, <1>4
  <2>3. AgreedIn(w, c, j, g, s, a, x)
    BY <2>2, <1>1 DEF Agreement
  <2>4. x[1] # k /\ i[x] = j[x] /\ (FullyAgrees(w, c, j, x) => FullyAgrees(w, d, i, x))
    BY <2>2, <1>5, Zenon DEF StillAgrees
  <2>5. (Completing(s, x) => Completing(t, x)) /\ (Rereading(s, a, x[1]) => Rereading(t, a, x[1]))
    BY <2>4, <1>10, <1>12, Zenon
  <2>6. QED
    BY <2>3, <2>4, <2>5, <1>4 DEF AgreedIn
<1>14. Marks(d, g, a)
  BY <1>1, <1>4 DEF Marks
<1>15. Reached(w, t, a)
  BY <1>1, <1>10, Zenon DEF Reached
<1>16. CallIn(w, t, a) /\ a.known \subseteq Keys
  BY <1>1, SMTT(30) DEF CallIn
<1>17. Held(w, d, i, g, b, t, a)
  BY <1>4, <1>10, <1>11, <1>13, <1>14, <1>15, <1>16 DEF Held
<1>18. Visited(w, d, t, a)
  <2>1. SUFFICES ASSUME a.why = "rollback"
                 PROVE  \E V \in SUBSET Keys : VisitedRows(w, d, t, a, V) /\ VisitedFrames(w, t, a, V)
    BY Zenon DEF Visited
  <2>2. PICK V \in SUBSET Keys : VisitedRows(w, c, s, a, V) /\ VisitedFrames(w, s, a, V)
    BY <2>1, <1>1 DEF Visited
  <2>3. \A m \in a.known : Get(c, m) # NoInstance /\ m # k
    BY <2>2 DEF VisitedRows
  <2>4. VisitedFill(w, a, V, f)
    BY <2>3, <1>8 DEF VisitedFill
  <2>5. VisitedFrames(w, t, a, V)
    BY <2>2, <2>4, <1>10, Zenon
  <2>6. VisitedRows(w, d, t, a, V)
    <3>1. ASSUME NEW m \in V
          PROVE  \/ Overwriting(t, m)
                 \/ ListedRows(w, m) \cap a.known \subseteq V /\ Get(d, m) \notin d.modified
      <4>1. \/ Overwriting(s, m)
            \/ ListedRows(w, m) \cap a.known \subseteq V /\ Get(c, m) \notin c.modified
        BY <2>2 DEF VisitedRows
      <4>2. Get(c, m) \notin c.modified => Get(d, m) \notin d.modified
        BY <1>4, Zenon
      <4>3. QED
        BY <4>1, <4>2, <1>10, Zenon
    <3>2. \A m \in a.roots \cap a.known : m \in V \/ Rereading(t, a, m)
      BY <2>2, <2>3, <1>12, Zenon DEF VisitedRows
    <3>3. \A m \in a.known : Get(d, m) # NoInstance
      BY <2>3, <1>4, <1>16
    <3>4. QED
      BY <3>1, <3>2, <3>3, Zenon DEF VisitedRows
  <2>7. QED
    BY <2>5, <2>6
<1>19. QED
  BY <1>4, <1>10, <1>17, <1>18 DEF Reading, HasSet

-----------------------------------------------------------------------------
(* Between the reads.                                                      *)

\* Nothing is being read.
NoReads(w, c, j, b, a) ==
    /\ \A o : ~Completing(<<>>, o)
    /\ \A k : ~Overwriting(<<>>, k) /\ ~Waiting(<<>>, k)
    /\ FramesIn(w, c, j, b, <<>>, a) /\ TopIn(w, c, <<>>) /\ Descent(w, <<>>, a)
    /\ Reached(w, <<>>, a)
    /\ \A V : VisitedFrames(w, <<>>, a, V)

LEMMA NothingIsRead ==
    ASSUME NEW w, NEW c, NEW j, NEW b, NEW a
    PROVE  NoReads(w, c, j, b, a)
<1>1. <<>> \in Seq(Frames) /\ Len(<<>>) = 0 /\ FillsOf(<<>>) = {}
  BY DEF FillsOf
<1>2. (\A o : ~Completing(<<>>, o)) /\ (\A k : ~Overwriting(<<>>, k) /\ ~Waiting(<<>>, k))
  BY <1>1 DEF Completing, Overwriting, Waiting
<1>3. FramesIn(w, c, j, b, <<>>, a)
  <2>1. 0 % 2 = 0 /\ 0 <= MaxStack
    BY Bounds
  <2>2. QED
    BY <1>1, <2>1 DEF FramesIn
<1>4. TopIn(w, c, <<>>) /\ Descent(w, <<>>, a) /\ Reached(w, <<>>, a)
  BY <1>1, <1>2 DEF TopIn, Descent, Reached
<1>5. \A V : VisitedFrames(w, <<>>, a, V)
  BY <1>1 DEF VisitedFrames
<1>6. QED
  BY <1>2, <1>3, <1>4, <1>5 DEF NoReads

\* The loop of the rollback comes to the next instance.
LEMMA RereadStep ==
    ASSUME NEW w, NEW c, NEW j, NEW g, NEW b, NEW a, Reading(w, c, j, g, b, <<>>, a), a.queue # <<>>,
           NEW a2, a2 = [a EXCEPT !.queue = Tail(@)],
           NEW t, t = <<Reads({Head(a.queue)[1]}, TRUE)>>
    PROVE  Reading(w, c, j, g, b, t, a2)
<1> DEFINE k == Head(a.queue)[1]
<1>1. /\ IdentityIn(w, c, j, g, b) /\ CallIn(w, <<>>, a) /\ Agreement(w, c, j, g, b, <<>>, a)
      /\ Marks(c, g, a) /\ Visited(w, c, <<>>, a)
  BY DEF Reading, Held
<1>2. /\ a.why = "rollback" /\ a.queue \in Seq(Objects) /\ a.roots \in SUBSET Keys
      /\ a \in [why : {"none", "select", "rollback"}, queue : Seq(Objects), roots : SUBSET Keys,
                dirty : SUBSET Objects, known : SUBSET Keys]
      /\ \A n \in 1..Len(a.queue) : a.queue[n][1] \in a.roots /\ HasRow(w, a.queue[n][1])
  BY <1>1 DEF CallIn
<1>3. /\ Len(a.queue) \in Nat /\ Len(a.queue) >= 1 /\ Head(a.queue) = a.queue[1]
      /\ a.queue[1] \in Objects
      /\ Tail(a.queue) \in Seq(Objects) /\ Len(Tail(a.queue)) = Len(a.queue) - 1
      /\ \A n \in 1..(Len(a.queue) - 1) : Tail(a.queue)[n] = a.queue[n + 1]
  BY <1>2, PopFacts
<1>4. k \in Keys /\ k \in a.roots /\ HasRow(w, k)
  BY <1>2, <1>3, KeyForm
<1>5. /\ a2.why = "rollback" /\ a2.queue = Tail(a.queue) /\ a2.roots = a.roots
      /\ a2.dirty = a.dirty /\ a2.known = a.known
      /\ a2 \in [why : {"none", "select", "rollback"}, queue : Seq(Objects), roots : SUBSET Keys,
                 dirty : SUBSET Objects, known : SUBSET Keys]
  BY <1>2, <1>3, Zenon
<1> HIDE DEF k
<1>6. Started(w, c, j, b, a2, {k}, t)
  <2>1. t = <<Reads({k}, TRUE)>>
    BY DEF k
  <2>2. {k} \in SUBSET Keys /\ (\A x, y \in {k} : x[1] = y[1]) /\ (\A x \in {k} : HasRow(w, x))
    BY <1>4
  <2>3. QED
    BY <2>1, <2>2, <1>5, MoveStart, Zenon
<1>7. /\ FramesIn(w, c, j, b, t, a2) /\ TopIn(w, c, t) /\ t # <<>>
      /\ (\A o : ~Completing(t, o)) /\ (\A x : ~Overwriting(t, x))
      /\ (\A x : Waiting(t, x) <=> x = k)
      /\ Descent(w, t, a2)
      /\ \A V : VisitedFrames(w, t, a2, V)
  BY <1>6, Zenon DEF Started, StackIn
<1>8. NoReads(w, c, j, b, a)
  BY NothingIsRead
<1>9. /\ \A o : ~Completing(<<>>, o)
      /\ \A x : ~Overwriting(<<>>, x) /\ ~Waiting(<<>>, x)
  BY <1>8 DEF NoReads
<1>10. ASSUME NEW x, Rereading(<<>>, a, x)
       PROVE  Rereading(t, a2, x)
  <2>1. PICK n \in 1..Len(a.queue) : a.queue[n][1] = x
    BY <1>9, <1>10 DEF Rereading
  <2>2. CASE n = 1
    BY <2>1, <2>2, <1>3, <1>5, <1>7, Zenon DEF Rereading, k
  <2>3. CASE n # 1
    <3>1. n - 1 \in 1..Len(a2.queue) /\ n - 1 \in 1..(Len(a.queue) - 1) /\ (n - 1) + 1 = n
      BY <2>1, <2>3, <1>3, <1>5
    <3>2. a2.queue[n - 1] = a.queue[n]
      BY <3>1, <1>3, <1>5
    <3>3. QED
      BY <2>1, <3>1, <3>2, <1>5 DEF Rereading
  <2>4. QED
    BY <2>2, <2>3
<1>11. Agreement(w, c, j, g, b, t, a2)
  <2>1. \A o : AgreedIn(w, c, j, g, <<>>, a, o) => AgreedIn(w, c, j, g, t, a2, o)
    BY <1>5, <1>9, <1>10, Zenon DEF AgreedIn
  <2>2. QED
    BY <2>1, <1>1, Zenon DEF Agreement
<1>12. Marks(c, g, a2)
  BY <1>1, <1>2, <1>5 DEF Marks
<1>13. Reached(w, t, a2)
  BY <1>4, <1>5, <1>7, Zenon DEF Reached
<1>14. CallIn(w, t, a2)
  <2>1. \A n \in 1..Len(a2.queue) : a2.queue[n][1] \in a2.roots /\ HasRow(w, a2.queue[n][1])
    <3>1. SUFFICES ASSUME NEW n \in 1..Len(a2.queue)
                   PROVE  a2.queue[n][1] \in a2.roots /\ HasRow(w, a2.queue[n][1])
      OBVIOUS
    <3>2. n \in 1..(Len(a.queue) - 1) /\ n + 1 \in 1..Len(a.queue)
      BY <3>1, <1>3, <1>5
    <3>3. a2.queue[n] = a.queue[n + 1]
      BY <3>2, <1>3, <1>5
    <3>4. QED
      BY <3>2, <3>3, <1>2, <1>5
  <2>2. QED
    BY <2>1, <1>5, Zenon DEF CallIn
<1>15. Held(w, c, j, g, b, t, a2)
  BY <1>1, <1>7, <1>11, <1>12, <1>13, <1>14, Zenon DEF Held
<1>16. Visited(w, c, t, a2)
  <2>1. PICK V \in SUBSET Keys : VisitedRows(w, c, <<>>, a, V)
    BY <1>1, <1>2 DEF Visited
  <2>2. VisitedRows(w, c, t, a2, V)
    BY <2>1, <1>5, <1>9, <1>10, Zenon DEF VisitedRows
  <2>3. QED
    BY <2>2, <1>7, Zenon DEF Visited
<1>17. QED
  BY <1>7, <1>15, <1>16, Zenon DEF Reading

\* The client asks for rows.
LEMMA SelectStep ==
    ASSUME NEW w, NEW c \in Caches, NEW j, NEW g, NEW b, Reading(w, c, j, g, b, <<>>, NoCall),
           NEW S \in SUBSET Keys, \A x, y \in S : x[1] = y[1], \A x \in S : HasRow(w, x),
           NEW a, a = [why |-> "select", queue |-> <<>>, roots |-> {}, dirty |-> c.modified,
                       known |-> {}],
           NEW t, t = <<Reads(S, FALSE)>>
    PROVE  Reading(w, c, j, g, b, t, a)
<1>1. /\ IdentityIn(w, c, j, g, b) /\ Agreement(w, c, j, g, b, <<>>, NoCall)
  BY DEF Reading, Held
<1>2. /\ a.why = "select" /\ a.queue = <<>> /\ a.roots = {} /\ a.dirty = c.modified
      /\ a.known = {} /\ a.dirty \subseteq Objects
      /\ a \in [why : {"none", "select", "rollback"}, queue : Seq(Objects), roots : SUBSET Keys,
                dirty : SUBSET Objects, known : SUBSET Keys]
  <2>1. c.modified \in SUBSET Objects
    BY DEF Caches
  <2>2. <<>> \in Seq(Objects) /\ {} \in SUBSET Keys
    OBVIOUS
  <2>3. QED
    BY <2>1, <2>2
<1>3. Started(w, c, j, b, a, S, t)
  BY <1>2, MoveStart, Zenon
<1>4. FramesIn(w, c, j, b, t, a) /\ TopIn(w, c, t) /\ t # <<>> /\ Descent(w, t, a)
  BY <1>3, Zenon DEF Started, StackIn
<1>5. \A o : ~Completing(<<>>, o)
  <2>1. NoReads(w, c, j, b, NoCall)
    BY NothingIsRead
  <2>2. QED
    BY <2>1 DEF NoReads
<1>6. Agreement(w, c, j, g, b, t, a)
  <2>1. \A x : ~Rereading(<<>>, NoCall, x)
    BY DEF Rereading, NoCall
  <2>2. \A o : AgreedIn(w, c, j, g, <<>>, NoCall, o) => AgreedIn(w, c, j, g, t, a, o)
    BY <2>1, <1>5, Zenon DEF AgreedIn
  <2>3. QED
    BY <2>2, <1>1, Zenon DEF Agreement
<1>7. Marks(c, g, a) /\ Reached(w, t, a) /\ CallIn(w, t, a) /\ Visited(w, c, t, a)
  BY <1>2 DEF Marks, Reached, CallIn, Visited
<1>8. QED
  BY <1>1, <1>4, <1>6, <1>7 DEF Reading, Held

\* The read of the client ends.
LEMMA ReturnsStep ==
    ASSUME NEW w, NEW c, NEW j, NEW g, NEW b, NEW s, NEW a, Reading(w, c, j, g, b, s, a),
           s # <<>>, IsRead(s, 1), s[1].left = <<>>, Tail(s) = <<>>
    PROVE  Reading(w, c, j, g, b, <<>>, a)
<1>1. /\ Held(w, c, j, g, b, s, a) /\ FramesIn(w, c, j, b, s, a) /\ Visited(w, c, s, a)
      /\ IdentityIn(w, c, j, g, b) /\ CallIn(w, s, a)
      /\ Agreement(w, c, j, g, b, s, a) /\ Marks(c, g, a)
  BY DEF Reading, Held
<1>2. NoReads(w, c, j, b, a)
  BY NothingIsRead
<1>3. /\ (\A o : ~Completing(<<>>, o)) /\ (\A k : ~Overwriting(<<>>, k) /\ ~Waiting(<<>>, k))
      /\ FramesIn(w, c, j, b, <<>>, a) /\ TopIn(w, c, <<>>) /\ Descent(w, <<>>, a)
      /\ Reached(w, <<>>, a)
      /\ \A V : VisitedFrames(w, <<>>, a, V)
  BY <1>2 DEF NoReads
<1>4. SameReads(s, <<>>) /\ \A k : ~Waiting(s, k)
  <2>1. s \in Seq(Frames)
    BY <1>1 DEF FramesIn
  <2>2. s[1] \in Frames /\ Tail(s) \in Seq(Frames) /\ s = <<s[1]>> \o Tail(s)
    BY <2>1, Split
  <2>3. PushedReads(s[1], <<>>, s)
    BY <2>2, FillsSplit, Zenon
  <2>4. /\ \A o : Completing(s, o) <=> Completing(<<>>, o)
        /\ \A k : Overwriting(s, k) <=> Overwriting(<<>>, k)
    BY <2>3 DEF PushedReads
  <2>5. ASSUME NEW k, Waiting(s, k)
        PROVE  FALSE
    <3>1. PICK n \in 1..Len(s[1].left) : s[1].left[n] = k
      BY <2>3, <2>5 DEF PushedReads
    <3>2. Len(s[1].left) = 0
      OBVIOUS
    <3>3. QED
      BY <3>1, <3>2
  <2>6. QED
    BY <2>4, <2>5 DEF SameReads
<1>5. StillHeld(w, c, j, g, b, s, a, <<>>)
  BY <1>3, <1>4, SameHeld
<1>6. Held(w, c, j, g, b, <<>>, a)
  BY <1>1, <1>3, <1>5 DEF Held, StillHeld
<1>7. Visited(w, c, <<>>, a)
  BY <1>1, <1>3, <1>5 DEF Visited, StillHeld
<1>8. QED
  BY <1>3, <1>6, <1>7 DEF Reading

\* The call of the client ends.
LEMMA CallEndsStep ==
    ASSUME NEW w, NEW c, NEW j, NEW g, NEW b, NEW a, Reading(w, c, j, g, b, <<>>, a), a.queue = <<>>
    PROVE  Reading(w, c, j, g, b, <<>>, NoCall)
<1>1. /\ IdentityIn(w, c, j, g, b) /\ Agreement(w, c, j, g, b, <<>>, a)
  BY DEF Reading, Held
<1>2. NoReads(w, c, j, b, NoCall)
  BY NothingIsRead
<1>3. /\ (\A o : ~Completing(<<>>, o)) /\ (\A k : ~Overwriting(<<>>, k) /\ ~Waiting(<<>>, k))
      /\ FramesIn(w, c, j, b, <<>>, NoCall) /\ TopIn(w, c, <<>>) /\ Descent(w, <<>>, NoCall)
      /\ Reached(w, <<>>, NoCall)
  BY <1>2 DEF NoReads
<1>4. Agreement(w, c, j, g, b, <<>>, NoCall)
  <2>1. Len(a.queue) = 0
    OBVIOUS
  <2>2. \A x : ~Rereading(<<>>, a, x)
    BY <2>1, <1>3 DEF Rereading
  <2>3. \A o : AgreedIn(w, c, j, g, <<>>, a, o) => AgreedIn(w, c, j, g, <<>>, NoCall, o)
    BY <2>2, <1>3, Zenon DEF AgreedIn
  <2>4. QED
    BY <2>3, <1>1 DEF Agreement
<1>5. Marks(c, g, NoCall) /\ CallIn(w, <<>>, NoCall) /\ Visited(w, c, <<>>, NoCall)
  BY DEF Marks, CallIn, Visited, NoCall
<1>6. QED
  BY <1>1, <1>3, <1>4, <1>5 DEF Reading, Held

\* A rollback begins: what was merged is marked no more, what was removed is the
\* client's.
RollsBack(c, q, merged, removed, a, d) ==
    /\ q \in Seq(Objects) /\ \A n \in 1..Len(q) : q[n] \in Cached(c)
    /\ merged \in SUBSET Objects /\ \A o \in merged : \E n \in 1..Len(q) : q[n] = o
    /\ removed \in SUBSET Cached(c)
    /\ a = [why |-> "rollback", queue |-> q, roots |-> {q[n][1] : n \in 1..Len(q)},
            dirty |-> c.modified, known |-> {o[1] : o \in Cached(c) \ removed}]
    /\ d = TakeAll([c EXCEPT !.modified = @ \ merged], removed)

LEMMA RollbackStep ==
    ASSUME NEW w, NEW c \in Caches, NEW j, NEW g \in SUBSET Objects, NEW b \in SUBSET Objects,
           Reading(w, c, j, g, b, <<>>, NoCall), NEW q, NEW merged, NEW removed, NEW a, NEW d,
           RollsBack(c, q, merged, removed, a, d)
    PROVE  d \in Caches /\ Reading(w, d, j, g \cup removed, b, <<>>, a)
<1> DEFINE g2 == g \cup removed
           roots == {q[n][1] : n \in 1..Len(q)}
           known == {o[1] : o \in Cached(c) \ removed}
<1>a. /\ q \in Seq(Objects) /\ (\A n \in 1..Len(q) : q[n] \in Cached(c))
      /\ merged \in SUBSET Objects /\ (\A o \in merged : \E n \in 1..Len(q) : q[n] = o)
      /\ removed \in SUBSET Cached(c)
      /\ a = [why |-> "rollback", queue |-> q, roots |-> roots, dirty |-> c.modified,
              known |-> known]
      /\ d = TakeAll([c EXCEPT !.modified = @ \ merged], removed)
  BY DEF RollsBack
<1>b. roots = {q[n][1] : n \in 1..Len(q)} /\ known = {o[1] : o \in Cached(c) \ removed}
  OBVIOUS
<1> HIDE DEF roots, known
<1> USE <1>a, <1>b
<1>1. /\ IdentityIn(w, c, j, g, b) /\ Agreement(w, c, j, g, b, <<>>, NoCall)
  BY DEF Reading, Held
<1>2. /\ a.why = "rollback" /\ a.queue = q /\ a.roots = roots /\ a.dirty = c.modified
      /\ a.known = known
  OBVIOUS
<1>3. TookAll(w, c, j, g, b, merged, removed, d)
  BY <1>1, TakeIdentity
<1>4. /\ d \in Caches /\ IdentityIn(w, d, j, g2, b)
      /\ d.connected = c.connected /\ d.modified = (c.modified \ merged) \ removed
      /\ Cached(d) = Cached(c) \ removed
  BY <1>3, Zenon DEF TookAll
<1>5. NoReads(w, d, j, b, a) /\ NoReads(w, c, j, b, NoCall)
  BY NothingIsRead
<1>6. /\ (\A o : ~Completing(<<>>, o)) /\ (\A k : ~Overwriting(<<>>, k) /\ ~Waiting(<<>>, k))
      /\ FramesIn(w, d, j, b, <<>>, a) /\ TopIn(w, d, <<>>) /\ Descent(w, <<>>, a)
      /\ Reached(w, <<>>, a)
      /\ \A V : VisitedFrames(w, <<>>, a, V)
  BY <1>5 DEF NoReads
<1>7. \A o \in Cached(c) : o \in Objects /\ o[1] \in Keys /\ HasRow(w, o[1])
  BY <1>1, CachedIsOne
<1>8. CallIn(w, <<>>, a)
  <2>1. roots \in SUBSET Keys /\ known \in SUBSET Keys
    BY <1>7
  <2>2. c.modified \in SUBSET Objects
    BY DEF Caches
  <2>3. a \in [why : {"none", "select", "rollback"}, queue : Seq(Objects), roots : SUBSET Keys,
               dirty : SUBSET Objects, known : SUBSET Keys]
    BY <2>1, <2>2
  <2>4. \A n \in 1..Len(q) : q[n][1] \in roots /\ HasRow(w, q[n][1])
    BY <1>7
  <2>5. QED
    BY <2>3, <2>4, <1>2 DEF CallIn
<1>9. \A o : (\E n \in 1..Len(q) : q[n] = o) => Rereading(<<>>, a, o[1])
  BY <1>2 DEF Rereading
<1>10. Agreement(w, d, j, g2, b, <<>>, a)
  <2>1. SUFFICES ASSUME NEW x \in Cached(d) \ (b \cup d.modified)
                 PROVE  AgreedIn(w, d, j, g2, <<>>, a, x)
    BY Zenon DEF Agreement
  <2>2. x \in Cached(c) /\ x \notin removed
    BY <2>1, <1>4, Zenon
  <2>3. CASE x \in c.modified
    <3>1. x \in merged
      BY <2>1, <2>2, <2>3, <1>4, Zenon
    <3>2. Rereading(<<>>, a, x[1])
      BY <3>1, <1>9
    <3>3. x \in c.connected
      BY <2>2, <2>3, <1>1, <1>7 DEF IdentityIn
    <3>4. QED
      BY <2>3, <3>2, <3>3, <1>2, <1>4 DEF AgreedIn
  <2>4. CASE x \notin c.modified
    <3>1. AgreedIn(w, c, j, g, <<>>, NoCall, x)
      BY <2>1, <2>2, <2>4, <1>1 DEF Agreement
    <3>2. ~Rereading(<<>>, NoCall, x[1])
      BY DEF Rereading, NoCall
    <3>3. /\ x \in d.connected
          /\ \/ j[x].ref \in g \/ \E n \in 1..Len(j[x].list) : j[x].list[n] \in g
             \/ FullyAgrees(w, c, j, x)
      BY <3>1, <3>2, <1>4, <1>6 DEF AgreedIn
    <3>4. CASE j[x].ref \in g2 \/ \E n \in 1..Len(j[x].list) : j[x].list[n] \in g2
      BY <3>3, <3>4 DEF AgreedIn
    <3>5. CASE ~(j[x].ref \in g2 \/ \E n \in 1..Len(j[x].list) : j[x].list[n] \in g2)
      <4>1. FullyAgrees(w, c, j, x)
        BY <3>3, <3>5
      <4>2. ASSUME NEW p, AgreesOn(w, c, j, x, p)
            PROVE  AgreesOn(w, d, j, x, p)
        <5>1. j[x].ref \in Cached(c) => j[x].ref \in Cached(d)
          BY <3>5, <1>4, Zenon
        <5>2. ASSUME NEW r, MembersIn(c, j[x].list, r)
              PROVE  MembersIn(d, j[x].list, r)
          BY <5>2, <3>5, <1>4, Zenon DEF MembersIn
        <5>3. QED
          BY <5>1, <5>2, <4>2, Zenon DEF AgreesOn
      <4>3. FullyAgrees(w, d, j, x)
        BY <4>1, <4>2, Zenon DEF FullyAgrees, AgreesUpto
      <4>4. QED
        BY <3>3, <4>3 DEF AgreedIn
    <3>6. QED
      BY <3>4, <3>5
  <2>5. QED
    BY <2>3, <2>4
<1>11. Marks(d, g2, a)
  BY <1>2, <1>4, Zenon DEF Marks
<1>12. Visited(w, d, <<>>, a)
  <2>1. \A k \in roots : Rereading(<<>>, a, k)
    BY <1>2 DEF Rereading
  <2>2. ASSUME NEW k \in known
        PROVE  Get(d, k) # NoInstance
    <3>1. PICK o \in Cached(c) \ removed : k = o[1]
      OBVIOUS
    <3>2. Get(d, k) = o /\ o \in Objects
      <4>1. o \in Objects /\ Contains(d, o)
        BY <3>1, <1>4, Zenon DEF Cached
      <4>2. Get(d, o[1]) = o
        BY <4>1, <1>4, Zenon DEF IdentityIn
      <4>3. QED
        BY <3>1, <4>1, <4>2
    <3>3. QED
      BY <3>2, NoObjectFacts
  <2>3. VisitedRows(w, d, <<>>, a, {})
    BY <2>1, <2>2, <1>2, Zenon DEF VisitedRows
  <2>4. {} \in SUBSET Keys
    OBVIOUS
  <2>5. QED
    BY <2>3, <2>4, <1>6, Zenon DEF Visited
<1>13. QED
  BY <1>4, <1>6, <1>8, <1>10, <1>11, <1>12 DEF Reading, Held

\* The client changes an instance.
LEMMA ChangeStep ==
    ASSUME NEW w, NEW c \in Caches, NEW j \in [Objects -> Object \cup {NoObject}], NEW g,
           NEW b \in SUBSET Objects, Reading(w, c, j, g, b, <<>>, NoCall),
           NEW o \in Objects, Contains(c, o),
           NEW i, i \in [Objects -> Object \cup {NoObject}], i[o] # NoObject,
           \A x \in Objects \ {o} : i[x] = j[x],
           NEW d, d = Notify(c, o)
    PROVE  d \in Caches /\ Reading(w, d, i, g, b, <<>>, NoCall)
<1>1. /\ IdentityIn(w, c, j, g, b) /\ Agreement(w, c, j, g, b, <<>>, NoCall)
  BY DEF Reading, Held
<1>2. Notified(c, o, TRUE, d)
  BY NotifyCache, Zenon
<1>3. /\ d \in Caches /\ d.ids = c.ids /\ d.byId = c.byId /\ d.connected = c.connected
      /\ c.modified \subseteq d.modified /\ d.modified \subseteq c.modified \cup {o}
      /\ Cached(d) = Cached(c)
      /\ o \notin c.connected => d = c
      /\ o \in c.connected => o \in d.modified
  BY <1>2 DEF Notified
<1>4. NoReads(w, d, i, b, NoCall)
  BY NothingIsRead
<1>5. /\ \A x : ~Completing(<<>>, x)
      /\ FramesIn(w, d, i, b, <<>>, NoCall) /\ TopIn(w, d, <<>>) /\ Descent(w, <<>>, NoCall)
      /\ Reached(w, <<>>, NoCall)
  BY <1>4 DEF NoReads
<1>6. o \in Cached(c) /\ j[o] # NoObject
  <2>1. o \in Cached(c)
    BY DEF Cached
  <2>2. QED
    BY <2>1, <1>1, CachedIsOne
<1>7. IdentityIn(w, d, i, g, b)
  <2>1. /\ \A x \in c.connected : j[x] # NoObject /\ x \notin b
        /\ \A x \in c.modified : Contains(c, x) /\ x \in c.connected
        /\ \A x \in b : j[x] # NoObject
    BY <1>1 DEF IdentityIn, Caches
  <2>2. \A x \in Objects : i[x] # NoObject <=> j[x] # NoObject
    BY <1>6
  <2>3. \A x \in d.modified : Contains(c, x) /\ x \in d.connected
    BY <2>1, <1>3
  <2>4. SameIdentity(c, j, d, i, b)
    BY <2>1, <2>2, <2>3, <1>3 DEF SameIdentity
  <2>5. QED
    BY <2>4, <1>1, <1>3, IdentityStays
<1>8. Agreement(w, d, i, g, b, <<>>, NoCall)
  <2>1. SUFFICES ASSUME NEW x \in Cached(d) \ (b \cup d.modified)
                 PROVE  AgreedIn(w, d, i, g, <<>>, NoCall, x)
    BY DEF Agreement
  <2>2. x \in Cached(c) \ (b \cup c.modified) /\ x \in Objects
    BY <2>1, <1>3 DEF Cached
  <2>3. AgreedIn(w, c, j, g, <<>>, NoCall, x)
    BY <2>2, <1>1 DEF Agreement
  <2>4. x \in c.connected
    BY <2>3, <1>5 DEF AgreedIn
  <2>5. x # o
    BY <2>1, <2>4, <1>3
  <2>6. i[x] = j[x] /\ Cached(c) \subseteq Cached(d)
    BY <2>2, <2>5, <1>3
  <2>7. StillAgrees(w, c, j, d, i, x)
    BY <2>6, AgreesStays
  <2>8. FullyAgrees(w, c, j, x) => FullyAgrees(w, d, i, x)
    BY <2>7 DEF StillAgrees
  <2>9. QED
    BY <2>3, <2>6, <2>8, <1>3 DEF AgreedIn
<1>9. Marks(d, g, NoCall) /\ CallIn(w, <<>>, NoCall) /\ Visited(w, d, <<>>, NoCall)
  BY DEF Marks, CallIn, Visited, NoCall
<1>10. QED
  BY <1>3, <1>5, <1>7, <1>8, <1>9 DEF Reading, Held

\* An error ends a select: what it was filling is broken.
Interrupted(b, s) ==
    b \cup {f.inst : f \in {h \in {s[n] : n \in DOMAIN s} : h.kind = "fill"}}

LEMMA SelectFailsStep ==
    ASSUME NEW w, NEW c \in Caches, NEW j, NEW g, NEW b \in SUBSET Objects, NEW s, NEW a,
           Reading(w, c, j, g, b, s, a), a.why = "select",
           NEW b2, b2 = Interrupted(b, s)
    PROVE  b2 \in SUBSET Objects /\ Reading(w, c, j, g, b2, <<>>, a)
<1>1. /\ IdentityIn(w, c, j, g, b) /\ CallIn(w, s, a) /\ FramesIn(w, c, j, b, s, a)
      /\ Agreement(w, c, j, g, b, s, a) /\ Marks(c, g, a)
  BY DEF Reading, Held
<1>2. NoReads(w, c, j, b2, a)
  BY NothingIsRead
<1>3. /\ FramesIn(w, c, j, b2, <<>>, a) /\ TopIn(w, c, <<>>) /\ Descent(w, <<>>, a)
      /\ Reached(w, <<>>, a)
  BY <1>2 DEF NoReads
<1>4. s \in Seq(Frames) /\ DOMAIN s = 1..Len(s) /\ Len(s) \in Nat
  BY <1>1 DEF FramesIn
<1>5. ASSUME NEW n \in 1..Len(s)
      PROVE  ~s[n].overwrite
  <2>1. /\ \A m, k \in 1..Len(s) : m < k /\ s[m].overwrite => s[k].overwrite
        /\ s # <<>> => ~s[Len(s)].overwrite
    BY <1>1 DEF FramesIn
  <2>2. Len(s) >= 1 /\ Len(s) \in 1..Len(s) /\ s # <<>>
    BY <1>4
  <2>3. CASE n = Len(s)
    BY <2>1, <2>2, <2>3
  <2>4. CASE n < Len(s)
    BY <2>1, <2>2, <2>4
  <2>5. PICK L \in Nat : L = Len(s)
    BY <1>4, Zenon
  <2>6. n \in 1..L
    BY <2>5
  <2>7. n = L \/ n < L
    BY <2>5, <2>6
  <2>8. QED
    BY <2>3, <2>4, <2>5, <2>7
<1>6. ASSUME NEW n \in 1..Len(s)
      PROVE  s[n].kind = "fill" <=> n \in FillsOf(s)
  <2>1. FrameIn(w, c, j, b, s, n)
    BY <1>1 DEF FramesIn
  <2>2. IsRead(s, n) => s[n].kind # "fill"
    BY <2>1 DEF FrameIn, ReadIn, ReadFrame
  <2>3. ~IsRead(s, n) => s[n].kind = "fill"
    BY <2>1 DEF FrameIn, FillIn, FillFrame
  <2>4. QED
    BY <2>2, <2>3 DEF FillsOf
<1>7. /\ \A x \in b2 : x \in b \/ \E n \in FillsOf(s) : s[n].inst = x
      /\ b \subseteq b2 /\ \A n \in FillsOf(s) : s[n].inst \in b2
  <2>1. ASSUME NEW x \in b2, x \notin b
        PROVE  \E n \in FillsOf(s) : s[n].inst = x
    <3>1. PICK f \in {s[n] : n \in DOMAIN s} : f.kind = "fill" /\ x = f.inst
      BY <2>1 DEF Interrupted
    <3>2. PICK n \in 1..Len(s) : f = s[n]
      BY <3>1, <1>4
    <3>3. QED
      BY <3>1, <3>2, <1>6
  <2>2. ASSUME NEW n \in FillsOf(s)
        PROVE  s[n].inst \in b2
    <3>1. n \in DOMAIN s /\ s[n].kind = "fill"
      BY <1>4, <1>6 DEF FillsOf
    <3>2. QED
      BY <3>1 DEF Interrupted
  <2>3. b \subseteq b2
    BY DEF Interrupted
  <2>4. QED
    BY <2>1, <2>2, <2>3
<1>8. ASSUME NEW n \in FillsOf(s)
      PROVE  Completing(s, s[n].inst) /\ s[n].inst \in Objects
  <2>1. n \in 1..Len(s)
    BY DEF FillsOf
  <2>2. ~s[n].overwrite
    BY <2>1, <1>5
  <2>3. /\ s[n].inst \in Cached(c) /\ (s[n].fresh <=> ~s[n].overwrite)
        /\ s[n].fresh => Completing(s, s[n].inst)
    BY <1>1, FillsAreCached
  <2>4. QED
    BY <2>2, <2>3 DEF Cached
<1>9. \A x : Completing(s, x) => x \in b2 /\ x \in Cached(c) /\ x \notin c.connected
  <2>1. \A x : Completing(s, x) => x \in b2
    BY <1>7 DEF Completing
  <2>2. QED
    BY <2>1, <1>1, CompletingIn
<1>10. b2 \in SUBSET Objects
  BY <1>7, <1>8
<1>11. IdentityIn(w, c, j, g, b2)
  <2>1. /\ \A x \in c.connected : j[x] # NoObject /\ x \notin b
        /\ \A x \in c.modified : Contains(c, x) /\ x \in c.connected
        /\ \A x \in b : j[x] # NoObject
    BY <1>1 DEF IdentityIn, Caches
  <2>2. \A x \in b2 : x \in b \/ (x \in Cached(c) /\ x \notin c.connected)
    BY <1>7, <1>8, <1>9
  <2>3. \A x \in b2 : j[x] # NoObject
    BY <2>1, <2>2, <1>1, CachedIsOne
  <2>4. \A x \in c.connected : x \notin b2
    BY <2>1, <2>2
  <2>5. SameIdentity(c, j, c, j, b2)
    BY <2>1, <2>3, <2>4 DEF SameIdentity
  <2>6. QED
    BY <2>5, <1>1, IdentityStays
<1>12. Agreement(w, c, j, g, b2, <<>>, a)
  <2>1. SUFFICES ASSUME NEW x \in Cached(c) \ (b2 \cup c.modified)
                 PROVE  AgreedIn(w, c, j, g, <<>>, a, x)
    BY DEF Agreement
  <2>2. x \notin b /\ ~Completing(s, x)
    BY <2>1, <1>7, <1>9
  <2>3. AgreedIn(w, c, j, g, s, a, x)
    BY <2>1, <2>2, <1>1 DEF Agreement
  <2>4. ~Rereading(s, a, x[1])
    BY DEF Rereading
  <2>5. QED
    BY <2>2, <2>3, <2>4 DEF AgreedIn
<1>13. CallIn(w, <<>>, a) /\ Visited(w, c, <<>>, a)
  BY <1>1 DEF CallIn, Visited
<1>14. QED
  BY <1>1, <1>3, <1>10, <1>11, <1>12, <1>13 DEF Reading, Held

-----------------------------------------------------------------------------
(* The actions.                                                            *)

LEMMA Words ==
    /\ program[1] = shape /\ program[2] = rows
    /\ \A f : Properties(f) = Props(program, f.key)
    /\ \A k : RowsReferencing(k) = ListedRows(program, k)
    /\ \A k : Ref(program, k) = <<shape[k[1]].ref, rows[k].ref>>
    /\ \A k : {Ref(program, k)} \cap RowsOf(Ref(program, k)[1]) = RefRows(program, k)
    /\ \A k : (IsNull(program, k) <=> rows[k].ref = SqlNull) /\ (HasRow(program, k) <=> rows[k] # NoRow)
    /\ Referenced = Ref(program, Top.key)
<1>1. program[1] = shape /\ program[2] = rows
  BY DEF program
<1>2. \A f : Properties(f) = Props(program, f.key)
  BY <1>1 DEF Properties, Props
<1>3. \A k : RowsReferencing(k) = ListedRows(program, k)
  BY <1>1 DEF RowsReferencing, RowsOf, ListedRows
<1>4. \A k : Ref(program, k) = <<shape[k[1]].ref, rows[k].ref>>
  BY <1>1 DEF Ref
<1>5. \A k : {Ref(program, k)} \cap RowsOf(Ref(program, k)[1]) = RefRows(program, k)
  BY <1>1 DEF RefRows, RowsOf
<1>6. \A k : (IsNull(program, k) <=> rows[k].ref = SqlNull) /\ (HasRow(program, k) <=> rows[k] # NoRow)
  BY <1>1 DEF IsNull, HasRow
<1>7. Referenced = Ref(program, Top.key)
  BY <1>4, Zenon DEF Referenced
<1>8. QED
  BY <1>1, <1>2, <1>3, <1>4, <1>5, <1>6, <1>7

\* The process goes on.
LEMMA GoesOn ==
    ASSUME IInv, UNCHANGED program, fatal' = "no",
           obj' \in [Objects -> Object \cup {NoObject}], cache' \in Caches,
           given' \in SUBSET Objects, IsFiniteSet(given'), broken' \in SUBSET Objects,
           faults' \in Nat, Cardinality(given') + faults' <= MaxEvents,
           Reading(program', cache', obj', given', broken', stack', call')
    PROVE  IInv'
<1>1. IsProgram(program')
  BY DEF IInv, Types
<1>2. Types'
  BY <1>1 DEF Types
<1>3. DiesForAReason'
  BY DEF DiesForAReason
<1>4. QED
  BY <1>2, <1>3 DEF IInv

\* The process ends.
LEMMA Ends ==
    ASSUME IInv, UNCHANGED <<program, obj, cache, stack, call, broken, given>>,
           faults' \in Nat, Cardinality(given') + faults' <= MaxEvents,
           fatal' \in {"modifiedReference", "danglingReference", "rollbackFailed", "overflow"},
           DiesForAReason'
    PROVE  IInv'
<1>1. program' = program /\ obj' = obj /\ cache' = cache /\ stack' = stack /\ call' = call
      /\ broken' = broken /\ given' = given
  OBVIOUS
<1>2. Types'
  <2>1. Types
    BY DEF IInv
  <2>2. IsProgram(program')
    BY <2>1, <1>1 DEF Types
  <2>3. QED
    BY <2>1, <2>2, <1>1 DEF Types
<1>3. Reading(program', cache', obj', given', broken', stack', call')
  <2>1. Reading(program, cache, obj, given, broken, stack, call)
    BY DEF IInv
  <2>2. QED
    BY <2>1, <1>1
<1>4. QED
  BY <1>2, <1>3 DEF IInv

\* What is known when the process runs.
InvParts ==
    /\ IsProgram(program) /\ cache \in Caches /\ obj \in [Objects -> Object \cup {NoObject}]
    /\ given \in SUBSET Objects /\ broken \in SUBSET Objects /\ IsFiniteSet(given)
    /\ faults \in Nat /\ Cardinality(given) + faults <= MaxEvents
    /\ Reading(program, cache, obj, given, broken, stack, call)
    /\ IdentityIn(program, cache, obj, given, broken)
    /\ FramesIn(program, cache, obj, broken, stack, call)
    /\ StackIn(program, cache, obj, broken, stack, call)
    /\ CallIn(program, stack, call) /\ Marks(cache, given, call)

LEMMA Parts == IInv => InvParts
BY DEF IInv, Types, Reading, Held, InvParts, StackIn

\* What fillEntityInstance() is at.
FillParts(f) ==
    /\ stack # <<>> /\ ~IsRead(stack, 1) /\ f = stack[1] /\ stack \in Seq(Frames)
    /\ f \in FillFrame /\ f.key \in Keys /\ f.inst \in Objects /\ f.inst[1] = f.key
    /\ Contains(cache, f.inst) /\ HasRow(program, f.key) /\ obj[f.inst] # NoObject
    /\ f.at >= 1 /\ f.overwrite \in BOOLEAN /\ f.fresh \in BOOLEAN
    /\ call.why # "none"
    /\ fatal = "no"

LEMMA AtFill ==
    ASSUME IInv, Steps("fill")
    PROVE  FillParts(Top)
<1>1. InvParts
  BY Parts
<1>2. TopIs(program, cache, obj, broken, stack, call)
  BY <1>1, TopFrame DEF InvParts, Steps
<1>3. ~IsRead(stack, 1) /\ Top = stack[1] /\ stack \in Seq(Frames)
  BY <1>2 DEF Steps, Top, TopIs
<1>4. stack[1] \in FillFrame /\ FillIn(program, cache, obj, broken, stack[1])
  BY <1>2, <1>3 DEF TopIs
<1>5. /\ stack[1].inst \in Objects /\ stack[1].key \in Keys /\ stack[1].inst[1] = stack[1].key
      /\ Contains(cache, stack[1].inst) /\ stack[1].at >= 1 /\ stack[1].overwrite \in BOOLEAN
      /\ stack[1].fresh \in BOOLEAN
  <2>1. stack[1].at \in 1..(Len(Props(program, stack[1].key)) + 1)
    BY <1>4 DEF FillIn
  <2>2. QED
    BY <2>1, <1>4 DEF FillFrame, FillIn
<1>6. HasRow(program, stack[1].key) /\ obj[stack[1].inst] # NoObject
  BY <1>1, <1>5 DEF InvParts, IdentityIn
<1>7. call.why # "none"
  BY <1>1 DEF InvParts, FramesIn, Steps
<1>8. QED
  BY <1>3, <1>4, <1>5, <1>6, <1>7 DEF FillParts, Steps

LEMMA AtPropertyIs ==
    ASSUME NEW p, AtProperty(p), IInv
    PROVE  /\ FillParts(Top) /\ Top.at <= Len(Props(program, Top.key))
           /\ p = Props(program, Top.key)[Top.at] /\ Len(Props(program, Top.key)) \in Nat
           /\ Top.at \in 1..Len(Props(program, Top.key))
<1>1. FillParts(Top)
  BY AtFill DEF AtProperty
<1>2. Top.at <= Len(Props(program, Top.key)) /\ p = Props(program, Top.key)[Top.at]
  BY Words DEF AtProperty
<1>3. Top.key \in Keys /\ Top.at \in Nat /\ Top.at >= 1
  BY <1>1 DEF FillParts, FillFrame
<1>4. Props(program, Top.key) \in Seq({"value", "ref", "list"})
  BY <1>3, Parts, ProgramFacts DEF InvParts
<1>5. QED
  BY <1>1, <1>2, <1>3, <1>4

\* The property of the instance that is being filled, but for a list, is set.
LEMMA SetsHere ==
    ASSUME IInv, NEW p, AtProperty(p), p # "list",
           NEW v, Right(program, cache, obj, Top.inst, p, v)
    PROVE  ReadyToSet(program, cache, obj, given, broken, stack, call, p, v)
<1>1. /\ FillParts(Top) /\ Top.at <= Len(Props(program, Top.key))
      /\ p = Props(program, Top.key)[Top.at]
  BY AtPropertyIs
<1>2. Top = stack[1] /\ stack # <<>> /\ ~IsRead(stack, 1)
  BY <1>1 DEF FillParts
<1>3. /\ Held(program, cache, obj, given, broken, stack, call)
      /\ Visited(program, cache, stack, call)
  BY Parts DEF InvParts, Reading
<1>4. QED
  BY <1>1, <1>2, <1>3 DEF ReadyToSet, Visited

LEMMA SetsOne ==
    ASSUME IInv, fatal = "no", NEW r, NEW p, NEW v,
           ReadyToSet(program, cache, obj, given, broken, r, call, p, v),
           Fills(r, Field(p), v)
    PROVE  IInv'
<1>1. InvParts
  BY Parts
<1>2. /\ Held(program, cache, obj, given, broken, r, call) /\ r # <<>> /\ ~IsRead(r, 1)
      /\ r[1].at <= Len(Props(program, r[1].key)) /\ p = Props(program, r[1].key)[r[1].at]
      /\ Right(program, cache, obj, r[1].inst, p, v)
      /\ call.why = "rollback" =>
             \E V \in SUBSET Keys : /\ VisitedRows(program, cache, r, call, V)
                                    /\ VisitedFrames(program, r, call, V)
                                    /\ r[1].overwrite /\ p = "list" =>
                                           ListedRows(program, r[1].key) \cap call.known \subseteq V
  BY DEF ReadyToSet
<1>3. Head(r) = r[1]
  <2>1. FramesIn(program, cache, obj, broken, r, call)
    BY <1>2 DEF Held
  <2>2. TopIs(program, cache, obj, broken, r, call)
    BY <1>1, <1>2, <2>1, TopFrame DEF InvParts
  <2>3. QED
    BY <2>2 DEF TopIs
<1>4. /\ obj' = [obj EXCEPT ![r[1].inst][Field(p)] = v]
      /\ cache' = IF obj[r[1].inst][Field(p)] # v THEN Notify(cache, r[1].inst) ELSE cache
      /\ stack' = <<[Head(r) EXCEPT !.at = @ + 1]>> \o Tail(r)
      /\ program' = program /\ call' = call /\ fatal' = fatal /\ broken' = broken
      /\ given' = given /\ faults' = faults
  BY <1>3, Zenon DEF Fills, Set
<1>5. HasSet(program, given, broken, call, cache', obj', stack')
  <2>1. WillSet(cache, obj, r, p, v, cache', obj', stack')
    BY <1>4 DEF WillSet
  <2>2. QED
    BY <1>1, <2>1, SetStep DEF InvParts
<1>6. QED
  BY <1>1, <1>4, <1>5, GoesOn DEF InvParts, HasSet

LEMMA DoesFillValue ==
    ASSUME IInv, FillValue
    PROVE  IInv'
<1>1. AtProperty("value") /\ Fills(stack, "val", "stored")
  BY DEF FillValue
<1>2. Right(program, cache, obj, Top.inst, "value", "stored") /\ Field("value") = "val"
  BY DEF Right, Field
<1>3. fatal = "no"
  BY <1>1 DEF AtProperty, Steps
<1>4. QED
  BY <1>1, <1>2, <1>3, SetsHere, SetsOne

LEMMA DoesFillNull ==
    ASSUME IInv, FillNull
    PROVE  IInv'
<1>1. /\ AtProperty("ref") /\ rows[Top.key].ref = SqlNull
      /\ Fills(stack, "ref", obj[Top.inst].ref)
  BY DEF FillNull
<1>2. FillParts(Top)
  BY <1>1, AtPropertyIs
<1>3. Right(program, cache, obj, Top.inst, "ref", obj[Top.inst].ref) /\ Field("ref") = "ref"
  BY <1>1, <1>2, Words, Zenon DEF Right, Field, FillParts
<1>4. fatal = "no"
  BY <1>2 DEF FillParts
<1>5. QED
  BY <1>1, <1>3, <1>4, SetsHere, SetsOne

\* A reference that is not NULL is to a row there may be.
LEMMA RefIsKey ==
    ASSUME IInv, AtProperty("ref"), rows[Top.key].ref # SqlNull
    PROVE  Referenced \in Keys
<1>1. /\ FillParts(Top) /\ "ref" = Props(program, Top.key)[Top.at]
      /\ Top.at \in 1..Len(Props(program, Top.key))
  BY AtPropertyIs
<1>2. Top.key \in Keys /\ HasRow(program, Top.key)
  BY <1>1 DEF FillParts
<1>3. Top.key[1] \in Classes
  BY <1>2, KeyForm
<1>4. shape \in Shapes /\ rows[Top.key] \in [ref : 0..MaxId]
  BY <1>2, Parts, Words, ProgramFacts, Zenon DEF InvParts
<1>5. Props(program, Top.key) = shape[Top.key[1]].props
  BY Words DEF Props
<1>6. shape[Top.key[1]].ref \in Classes
  <2>1. /\ shape[Top.key[1]].ref \in Classes \cup {NoClass}
        /\ (\E n \in 1..Len(shape[Top.key[1]].props) : shape[Top.key[1]].props[n] = "ref")
               <=> shape[Top.key[1]].ref # NoClass
    BY <1>3, <1>4, ShapeAssumption
  <2>2. QED
    BY <2>1, <1>1, <1>5
<1>7. rows[Top.key].ref \in 1..MaxId
  <2>1. rows[Top.key].ref \in 0..MaxId /\ rows[Top.key].ref # 0
    BY <1>4 DEF SqlNull
  <2>2. QED
    BY <2>1
<1>8. QED
  BY <1>6, <1>7 DEF Referenced, Keys

LEMMA DoesFillCached ==
    ASSUME IInv, FillCached
    PROVE  IInv'
<1>1. /\ AtProperty("ref") /\ rows[Top.key].ref # SqlNull /\ Target # NoInstance
      /\ Fills(stack, "ref", Target)
  BY DEF FillCached
<1>2. FillParts(Top)
  BY <1>1, AtPropertyIs
<1>3. Target \in Cached(cache) /\ Target[1] = Referenced
  BY <1>1, Parts, RefIsKey, CachedIsOne DEF InvParts, Target
<1>4. Right(program, cache, obj, Top.inst, "ref", Target) /\ Field("ref") = "ref"
  BY <1>1, <1>2, <1>3, Words, Zenon DEF Right, Field, FillParts
<1>5. fatal = "no"
  BY <1>2 DEF FillParts
<1>6. QED
  BY <1>1, <1>4, <1>5, SetsHere, SetsOne

LEMMA DoesAsk ==
    ASSUME IInv, NEW p \in {"ref", "list"}, AtProperty(p),
           p = "ref" => rows[Top.key].ref # SqlNull /\ Target = NoInstance,
           NEW keys, keys = AskedRows(program, Top), Asks(keys)
    PROVE  IInv'
<1>1. /\ FillParts(Top) /\ Top.at <= Len(Props(program, Top.key))
      /\ p = Props(program, Top.key)[Top.at]
  BY AtPropertyIs
<1>2. Top = stack[1] /\ stack # <<>> /\ ~IsRead(stack, 1) /\ fatal = "no"
  BY <1>1 DEF FillParts
<1>3. InvParts
  BY Parts
<1>4. p = "ref" => /\ ~IsNull(program, stack[1].key)
                   /\ Get(cache, Ref(program, stack[1].key)) = NoInstance
  BY <1>2, Words DEF Target
<1>5. /\ Len(stack) + 2 <= MaxStack
      /\ stack' = <<Reads(AskedRows(program, stack[1]), stack[1].overwrite)>> \o stack
      /\ program' = program /\ obj' = obj /\ cache' = cache /\ call' = call
      /\ fatal' = fatal /\ broken' = broken /\ given' = given /\ faults' = faults
  BY <1>2 DEF Asks, Room
<1>6. Reading(program, cache, obj, given, broken, stack', call)
  BY <1>1, <1>2, <1>3, <1>4, <1>5, AskStep, Zenon DEF InvParts
<1>7. QED
  BY <1>2, <1>3, <1>5, <1>6, GoesOn DEF InvParts

LEMMA DoesFillReads ==
    ASSUME IInv, FillReads
    PROVE  IInv'
<1>1. /\ AtProperty("ref") /\ rows[Top.key].ref # SqlNull /\ Target = NoInstance
      /\ Asks({Referenced} \cap RowsOf(Referenced[1]))
  BY DEF FillReads
<1>2. "ref" = Props(program, Top.key)[Top.at]
  BY <1>1, AtPropertyIs
<1>3. {Referenced} \cap RowsOf(Referenced[1]) = AskedRows(program, Top)
  BY <1>2, Words DEF AskedRows
<1>4. QED
  BY <1>1, <1>3, DoesAsk

LEMMA DoesFillList ==
    ASSUME IInv, FillList
    PROVE  IInv'
<1>1. AtProperty("list") /\ Asks(RowsReferencing(Top.key))
  BY DEF FillList
<1>2. "list" = Props(program, Top.key)[Top.at]
  BY <1>1, AtPropertyIs
<1>3. RowsReferencing(Top.key) = AskedRows(program, Top)
  BY <1>2, Words DEF AskedRows
<1>4. QED
  BY <1>1, <1>3, DoesAsk

LEMMA DoesFillModifiedFatal ==
    ASSUME IInv, FillModifiedFatal
    PROVE  IInv'
<1>1. /\ AtProperty("ref") /\ rows[Top.key].ref # SqlNull /\ Target # NoInstance
      /\ IsModified(cache, Target)
      /\ fatal' = "modifiedReference" /\ UNCHANGED <<program, obj, cache, stack, call, broken, given>>
      /\ faults' = faults
  BY DEF FillModifiedFatal, Die
<1>2. InvParts /\ FillParts(Top)
  BY <1>1, Parts, AtPropertyIs
<1>3. Target \in cache.modified /\ Target[1] = Referenced
  <2>1. Target[1] = Referenced
    BY <1>1, <1>2, RefIsKey, CachedIsOne DEF InvParts, Target
  <2>2. QED
    BY <2>1, <1>1 DEF IsModified
<1>4. Target \in call.dirty \/ (call.why = "rollback" /\ given # {})
  BY <1>2, <1>3 DEF InvParts, FillParts, Marks
<1>5. Top.key \in Keys /\ rows[Top.key] # NoRow
  BY <1>2, Words DEF FillParts
<1>6. \/ \E k \in Keys, o \in call.dirty :
             rows[k] # NoRow /\ <<shape[k[1]].ref, rows[k].ref>> = o[1]
      \/ call.why = "rollback" /\ given # {}
  BY <1>3, <1>4, <1>5 DEF Referenced
<1>7. DiesForAReason'
  <2>1. call' = call /\ rows' = rows /\ shape' = shape /\ given' = given
    BY <1>1 DEF program
  <2>2. QED
    BY <1>1, <1>6, <2>1 DEF DiesForAReason
<1>8. QED
  BY <1>1, <1>2, <1>7, Ends DEF InvParts

\* A stack that is too deep fills a row twice.
LEMMA DeepStack ==
    ASSUME NEW w, NEW c, NEW j, NEW b, NEW s, NEW a, FramesIn(w, c, j, b, s, a), Descent(w, s, a),
           s # <<>>, ~IsRead(s, 1), Len(s) + 2 > MaxStack
    PROVE  Rings(w, a)
<1>1. IsFiniteSet(Keys)
  BY StackAssumption, KeysAreFinite
<1>2. PICK N \in Nat : N = Cardinality(Keys)
  BY <1>1, FS_CardinalityType
<1>3. PICK L \in Nat : L = Len(s) /\ L >= 2 * N + 1
  <2>1. Len(s) \in Nat
    BY EmptyFacts DEF FramesIn
  <2>2. MaxStack >= 2 * N + 2
    BY <1>2, StackAssumption
  <2>3. QED
    BY <2>1, <2>2, Bounds
<1>4. ASSUME NEW m \in 1..(N + 1)
      PROVE  2 * m - 1 \in FillsOf(s) /\ s[2 * m - 1].key \in Keys
  <2>1. 2 * m - 1 \in 1..L
    BY <1>3
  <2>2. (L - 1) % 2 # 0
    BY <1>3 DEF IsRead
  <2>3. (L - (2 * m - 1)) % 2 # 0
    BY <2>1, <2>2
  <2>4. 2 * m - 1 \in FillsOf(s)
    BY <2>1, <2>3, <1>3 DEF FillsOf, IsRead
  <2>5. FillsCached(c, s)
    BY FillsAreCachedIn
  <2>6. QED
    BY <2>4, <2>5 DEF FillsCached
<1> DEFINE f == [m \in 1..(N + 1) |-> s[2 * m - 1].key]
<1>5. f \in [1..(N + 1) -> Keys]
  BY <1>4
<1>6. IsFiniteSet(1..(N + 1)) /\ Cardinality(1..(N + 1)) = N + 1
  <2>1. IsFiniteSet(1..(N + 1)) /\ Cardinality(1..(N + 1)) = IF 1 > N + 1 THEN 0 ELSE N + 1 - 1 + 1
    BY FS_Interval
  <2>2. QED
    BY <2>1
<1>7. PICK x, y \in 1..(N + 1) : x # y /\ f[x] = f[y]
  <2>1. Cardinality(Keys) < Cardinality(1..(N + 1))
    BY <1>2, <1>6
  <2> HIDE DEF f
  <2>2. QED
    BY <1>1, <1>5, <1>6, <2>1, FS_PigeonHole
<1>8. s[2 * x - 1].key = s[2 * y - 1].key
  BY <1>7
<1>9. \A i, k \in FillsOf(s) : i < k /\ s[i].key = s[k].key => Rings(w, a)
  BY DEF Descent, IsBelow
<1>10. CASE x < y
  <2>1. 2 * x - 1 < 2 * y - 1
    BY <1>10
  <2>2. QED
    BY <2>1, <1>4, <1>8, <1>9
<1>11. CASE y < x
  <2>1. 2 * y - 1 < 2 * x - 1
    BY <1>11
  <2>2. QED
    BY <2>1, <1>4, <1>8, <1>9
<1>12. QED
  BY <1>7, <1>10, <1>11

\* The rows below a row are those that the lists of its members lead to.
LEMMA RingOf ==
    ASSUME Rings(program, call)
    PROVE  call.why = "rollback" /\ Ring # {}
<1> DEFINE Lead(l) == {m \in Keys : \A S \in SUBSET Keys : l \in S /\ ClosedIn(program, S) => m \in S}
<1>1. PICK k \in Keys : k \in Below(program, k)
  BY DEF Rings
<1> DEFINE T == {m \in Keys : \E l \in ListedRows(program, k) : m \in Lead(l)}
<1>2. \A l \in ListedRows(program, k) : l \in Keys /\ l \in Lead(l)
  BY DEF ListedRows
<1>3. ListedRows(program, k) \subseteq T
  BY <1>2
<1>4. ClosedIn(program, T)
  <2>1. SUFFICES ASSUME NEW m \in T, NEW n \in ListedRows(program, m)
                 PROVE  n \in T
    BY DEF ClosedIn
  <2>2. PICK l \in ListedRows(program, k) : m \in Lead(l)
    OBVIOUS
  <2>3. n \in Keys
    BY DEF ListedRows
  <2>4. n \in Lead(l)
    <3>1. SUFFICES ASSUME NEW S \in SUBSET Keys, l \in S, ClosedIn(program, S)
                   PROVE  n \in S
      BY <2>3
    <3>2. m \in S
      BY <2>2, <3>1
    <3>3. QED
      BY <3>1, <3>2 DEF ClosedIn
  <2>5. QED
    BY <2>2, <2>3, <2>4
<1>5. k \in T
  <2>1. T \in SUBSET Keys
    OBVIOUS
  <2>2. QED
    BY <1>1, <1>3, <1>4, <2>1 DEF Below
<1>6. PICK l \in ListedRows(program, k) : k \in Lead(l)
  BY <1>5
<1>7. \A S : ClosedIn(program, S) <=> Closed(S, Keys)
  <2>1. \A m : RowsReferencing(m) = ListedRows(program, m) /\ ListedRows(program, m) \cap Keys = ListedRows(program, m)
    BY Words DEF ListedRows
  <2>2. QED
    BY <2>1 DEF ClosedIn, Closed
<1>8. l \in RowsReferencing(k)
  BY Words
<1>9. \A S \in SUBSET Keys : l \in S /\ Closed(S, Keys) => k \in S
  BY <1>6, <1>7
<1>10. k \in Ring
  BY <1>8, <1>9 DEF Ring
<1>11. QED
  BY <1>10 DEF Rings

LEMMA DoesOverflow ==
    ASSUME IInv, Overflow
    PROVE  IInv'
<1>1. /\ Steps("fill") /\ ~Room
      /\ fatal' = "overflow" /\ UNCHANGED <<program, obj, cache, stack, call, broken, given>>
      /\ faults' = faults
  BY DEF Overflow, Die
<1>2. InvParts /\ FillParts(Top)
  BY <1>1, Parts, AtFill
<1>3. Descent(program, stack, call)
  BY DEF IInv, Reading, Held
<1>4. Len(stack) + 2 > MaxStack
  <2>1. Len(stack) \in Nat
    BY <1>2, EmptyFacts DEF FillParts
  <2>2. QED
    BY <2>1, <1>1, Bounds DEF Room
<1>5. Rings(program, call)
  BY <1>2, <1>3, <1>4, DeepStack DEF InvParts, FillParts
<1>6. call.why = "rollback" /\ Ring # {}
  BY <1>5, RingOf
<1>7. Ring' = Ring
  <2>1. rows' = rows /\ shape' = shape
    BY <1>1 DEF program
  <2>2. QED
    BY <2>1 DEF Ring, RowsReferencing, RowsOf, Closed
<1>8. DiesForAReason'
  BY <1>1, <1>6, <1>7 DEF DiesForAReason
<1>9. QED
  BY <1>1, <1>2, <1>8, Ends DEF InvParts

\* An error.
LEMMA DoesFail ==
    ASSUME IInv, fatal = "no", stack # <<>>, Fails, faults' \in Nat,
           Cardinality(given) + faults' <= MaxEvents,
           call.why = "rollback" => faults' > 0 \/ call.dirty # {} \/ given # {}
    PROVE  IInv'
<1>1. InvParts
  BY Parts
<1>2. CASE call.why = "select"
  <2>1. /\ broken' = Interrupted(broken, stack) /\ stack' = <<>>
        /\ program' = program /\ obj' = obj /\ cache' = cache /\ call' = call
        /\ fatal' = fatal /\ given' = given
    BY <1>2 DEF Fails, Seqs!ToSet, Interrupted
  <2>2. broken' \in SUBSET Objects /\ Reading(program, cache, obj, given, broken', <<>>, call)
    BY <1>1, <1>2, <2>1, SelectFailsStep DEF InvParts
  <2>3. QED
    BY <1>1, <2>1, <2>2, GoesOn DEF InvParts
<1>3. CASE call.why # "select"
  <2>1. /\ call.why = "rollback" /\ fatal' = "rollbackFailed"
        /\ UNCHANGED <<program, obj, cache, stack, call, broken, given>>
    BY <1>3 DEF Fails, Die
  <2>2. DiesForAReason'
    BY <2>1 DEF DiesForAReason
  <2>3. QED
    BY <1>1, <2>1, <2>2, Ends DEF InvParts
<1>4. QED
  BY <1>2, <1>3

LEMMA DoesSynchronizationFails ==
    ASSUME IInv, SynchronizationFails
    PROVE  IInv'
<1>1. /\ Steps("fill") /\ Cardinality(given) + faults < MaxEvents /\ faults' = faults + 1 /\ Fails
  BY DEF SynchronizationFails, AtProperty
<1>2. faults \in Nat /\ Cardinality(given) \in Nat
  BY Parts, FS_CardinalityType DEF InvParts
<1>3. faults' \in Nat /\ faults' > 0 /\ Cardinality(given) + faults' <= MaxEvents
  BY <1>1, <1>2, Bounds
<1>4. fatal = "no" /\ stack # <<>>
  BY <1>1 DEF Steps
<1>5. QED
  BY <1>1, <1>3, <1>4, DoesFail

LEMMA DoesStatementFails ==
    ASSUME IInv, StatementFails
    PROVE  IInv'
<1>1. /\ Steps("read") /\ Cardinality(given) + faults < MaxEvents /\ faults' = faults + 1 /\ Fails
  BY DEF StatementFails
<1>2. faults \in Nat /\ Cardinality(given) \in Nat
  BY Parts, FS_CardinalityType DEF InvParts
<1>3. faults' \in Nat /\ faults' > 0 /\ Cardinality(given) + faults' <= MaxEvents
  BY <1>1, <1>2, Bounds
<1>4. fatal = "no" /\ stack # <<>>
  BY <1>1 DEF Steps
<1>5. QED
  BY <1>1, <1>3, <1>4, DoesFail

LEMMA DoesReadModified ==
    ASSUME IInv, ReadModified
    PROVE  IInv'
<1>1. /\ Steps("read") /\ IsModified(cache, CachedInstance) /\ Fails /\ faults' = faults
  BY DEF ReadModified
<1>2. fatal = "no" /\ stack # <<>>
  BY <1>1 DEF Steps
<1>3. InvParts
  BY Parts
<1>4. call.why = "rollback" => call.dirty # {} \/ given # {}
  BY <1>1, <1>3 DEF InvParts, Marks, IsModified
<1>5. QED
  BY <1>1, <1>2, <1>3, <1>4, DoesFail DEF InvParts

LEMMA DoesFillEnds ==
    ASSUME IInv, FillEnds
    PROVE  IInv'
<1>1. /\ Steps("fill") /\ Top.at > Len(Props(program, Top.key))
      /\ cache' = IF Top.fresh THEN Finalize(cache, Top.inst) ELSE MarkUnmodified(cache, Top.inst)
      /\ stack' = <<[stack[2] EXCEPT !.result = Append(@, Top.inst)]>> \o Tail(Tail(stack))
      /\ program' = program /\ obj' = obj /\ call' = call /\ fatal' = fatal /\ broken' = broken
      /\ given' = given /\ faults' = faults
  BY Words, Zenon DEF FillEnds
<1>2. InvParts /\ FillParts(Top)
  BY <1>1, Parts, AtFill
<1>3. Top = stack[1] /\ stack # <<>> /\ ~IsRead(stack, 1) /\ fatal = "no"
  BY <1>2 DEF FillParts
<1>4. /\ stack[1].at > Len(Props(program, stack[1].key))
      /\ cache' = IF stack[1].fresh THEN Finalize(cache, stack[1].inst)
                                    ELSE MarkUnmodified(cache, stack[1].inst)
      /\ stack' = <<[stack[2] EXCEPT !.result = Append(@, stack[1].inst)]>> \o Tail(Tail(stack))
  BY <1>1, <1>3, Zenon
<1>5. /\ IsProgram(program) /\ cache \in Caches /\ broken \in SUBSET Objects
      /\ obj \in [Objects -> Object \cup {NoObject}]
      /\ Reading(program, cache, obj, given, broken, stack, call)
  BY <1>2 DEF InvParts
<1>6. HasSet(program, given, broken, call, cache', obj, stack')
  BY <1>3, <1>4, <1>5, EndStep, Zenon
<1>7. QED
  BY <1>1, <1>2, <1>3, <1>6, GoesOn DEF InvParts, HasSet

\* What read() is at.
ReadParts(r) ==
    /\ stack # <<>> /\ IsRead(stack, 1) /\ r = stack[1] /\ stack \in Seq(Frames)
    /\ r \in ReadFrame /\ ReadIn(program, cache, r) /\ call.why # "none" /\ fatal = "no"
    /\ r.left # <<>> => Row = Head(r.left) /\ Row \in Keys

LEMMA AtRead ==
    ASSUME IInv, Steps("read")
    PROVE  ReadParts(Top)
<1>1. InvParts
  BY Parts
<1>2. TopIs(program, cache, obj, broken, stack, call)
  BY <1>1, TopFrame DEF InvParts, Steps
<1>3. IsRead(stack, 1) /\ Top = stack[1] /\ stack \in Seq(Frames)
  BY <1>2 DEF Steps, Top, TopIs
<1>4. stack[1] \in ReadFrame /\ ReadIn(program, cache, stack[1])
  BY <1>2, <1>3 DEF TopIs
<1>5. call.why # "none"
  BY <1>1 DEF InvParts, FramesIn, Steps
<1>6. stack[1].left # <<>> => Row = Head(stack[1].left) /\ Row \in Keys
  BY <1>3, <1>4 DEF Row, ReadFrame
<1>7. QED
  BY <1>3, <1>4, <1>5, <1>6 DEF ReadParts, Steps

LEMMA DoesReadCached ==
    ASSUME IInv, ReadCached
    PROVE  IInv'
<1>1. /\ Steps("read") /\ Top.left # <<>> /\ CachedInstance # NoInstance /\ ~Top.overwrite
      /\ stack' = <<[Head(NextRow) EXCEPT !.result = Append(@, CachedInstance)]>> \o Tail(stack)
      /\ program' = program /\ obj' = obj /\ cache' = cache /\ call' = call /\ fatal' = fatal
      /\ broken' = broken /\ given' = given /\ faults' = faults
  BY DEF ReadCached
<1>2. InvParts /\ ReadParts(Top)
  BY <1>1, Parts, AtRead
<1>3. Top = stack[1] /\ stack # <<>> /\ IsRead(stack, 1) /\ fatal = "no" /\ Row = Head(stack[1].left)
  BY <1>1, <1>2 DEF ReadParts
<1>4. Head(NextRow) = [stack[1] EXCEPT !.left = Tail(@)]
  <2>1. <<[Top EXCEPT !.left = Tail(@)]>> \o Tail(stack) = NextRow
    BY DEF NextRow
  <2>2. [Top EXCEPT !.left = Tail(@)] \in ReadFrame
    BY <1>1, <1>2, NextRowFacts, Zenon DEF ReadParts, IsNext
  <2>3. stack \in Seq(Frames) /\ Tail(stack) \in Seq(Frames) /\ [Top EXCEPT !.left = Tail(@)] \in Frames
    BY <1>2, <1>3, <2>2, PopFacts DEF ReadParts, Frames
  <2>4. NextRow # <<>> /\ NextRow[1] = [Top EXCEPT !.left = Tail(@)] /\ NextRow \in Seq(Frames)
    <3> DEFINE u == [Top EXCEPT !.left = Tail(@)]
    <3>1. u \in Frames /\ NextRow = <<u>> \o Tail(stack)
      BY <2>1, <2>3, Zenon
    <3> HIDE DEF u
    <3>2. /\ <<u>> \o Tail(stack) \in Seq(Frames) /\ (<<u>> \o Tail(stack))[1] = u
          /\ Len(<<u>> \o Tail(stack)) = Len(Tail(stack)) + 1
      BY <2>3, <3>1, PushFacts
    <3>3. NextRow # <<>> /\ NextRow[1] = u /\ NextRow \in Seq(Frames)
      BY <2>3, <3>1, <3>2, EmptyFacts
    <3>4. QED
      BY <3>3 DEF u
  <2>5. QED
    BY <2>4, <1>3, PopFacts, Zenon
<1>5. /\ Get(cache, Head(stack[1].left)) # NoInstance
      /\ CachedInstance = Get(cache, Head(stack[1].left))
  BY <1>1, <1>3 DEF CachedInstance
<1>6. stack' = <<[[stack[1] EXCEPT !.left = Tail(@)] EXCEPT !.result = Append(@, CachedInstance)]>>
                   \o Tail(stack)
  BY <1>1, <1>4, Zenon
<1>7. Reading(program, cache, obj, given, broken, stack', call)
  BY <1>1, <1>2, <1>3, <1>5, <1>6, CachedStep, Zenon DEF InvParts
<1>8. QED
  BY <1>1, <1>2, <1>3, <1>7, GoesOn DEF InvParts

LEMMA DoesReadOverwrites ==
    ASSUME IInv, ReadOverwrites
    PROVE  IInv'
<1>1. /\ Steps("read") /\ Top.left # <<>> /\ CachedInstance # NoInstance /\ Top.overwrite
      /\ EntersFill(CachedInstance, FALSE, TRUE)
      /\ program' = program /\ obj' = obj /\ cache' = cache /\ call' = call /\ fatal' = fatal
      /\ broken' = broken /\ given' = given /\ faults' = faults
  BY Zenon DEF ReadOverwrites
<1>2. InvParts /\ ReadParts(Top)
  BY <1>1, Parts, AtRead
<1>3. Top = stack[1] /\ stack # <<>> /\ IsRead(stack, 1) /\ fatal = "no" /\ Row = Head(stack[1].left)
  BY <1>1, <1>2 DEF ReadParts
<1>4. /\ CachedInstance = Get(cache, Row)
      /\ NextRow = <<[stack[1] EXCEPT !.left = Tail(@)]>> \o Tail(stack)
  BY <1>3 DEF CachedInstance, NextRow
<1>5. stack' = <<[kind |-> "fill", inst |-> Get(cache, Row), key |-> Row, at |-> 1, fresh |-> FALSE,
                  overwrite |-> TRUE]>> \o (<<[stack[1] EXCEPT !.left = Tail(@)]>> \o Tail(stack))
  BY <1>1, <1>4, Zenon DEF EntersFill
<1>6. Reading(program, cache, obj, given, broken, stack', call)
  BY <1>1, <1>2, <1>3, <1>4, <1>5, OverwriteStep, Zenon DEF InvParts
<1>7. QED
  BY <1>1, <1>2, <1>3, <1>6, GoesOn DEF InvParts

\* There is an address for a new instance: only those the client has are taken.
LEMMA FreeAddress ==
    ASSUME IInv, NEW k \in Keys, Get(cache, k) = NoInstance
    PROVE  Address(k) \in Objects /\ Address(k)[1] = k /\ obj[Address(k)] = NoObject
<1> DEFINE A == 1..(MaxEvents + 1)
<1>1. InvParts
  BY Parts
<1>2. IsFiniteSet(A) /\ Cardinality(A) = MaxEvents + 1
  <2>1. IsFiniteSet(A) /\ Cardinality(A) = IF 1 > MaxEvents + 1 THEN 0 ELSE MaxEvents + 1 - 1 + 1
    BY Bounds, FS_Interval
  <2>2. QED
    BY <2>1, Bounds
<1>3. \E n \in A : ~Alive(<<k, n>>)
  <2>1. SUFFICES ASSUME \A n \in A : Alive(<<k, n>>) PROVE FALSE
    OBVIOUS
  <2>2. ASSUME NEW n \in A
        PROVE  <<k, n>> \in given
    <3>1. <<k, n>> \in Objects /\ <<k, n>>[1] = k
      BY KeyForm
    <3>2. obj[<<k, n>>] # NoObject
      BY <2>1 DEF Alive
    <3>3. ~Contains(cache, <<k, n>>)
      BY <3>1, <1>1, NoObjectFacts DEF InvParts, IdentityIn
    <3>4. QED
      BY <3>1, <3>2, <3>3, <1>1 DEF InvParts, IdentityIn
  <2> DEFINE f == [n \in A |-> <<k, n>>]
  <2>3. f \in Injection(A, given)
    BY <2>2 DEF Injection, IsInjective
  <2>4. IsFiniteSet(given) /\ Cardinality(given) <= MaxEvents /\ Cardinality(given) \in Nat
    <3>1. IsFiniteSet(given) /\ faults \in Nat /\ Cardinality(given) + faults <= MaxEvents
      BY <1>1 DEF InvParts
    <3>2. Cardinality(given) \in Nat
      BY <3>1, FS_CardinalityType
    <3>3. QED
      BY <3>1, <3>2, Bounds
  <2> HIDE DEF f
  <2>5. Cardinality(A) <= Cardinality(given)
    BY <2>3, <2>4, FS_Injection
  <2>6. QED
    BY <2>4, <2>5, <1>2, Bounds
<1> DEFINE n == CHOOSE n \in A : ~Alive(<<k, n>>)
<1>4. n \in A /\ ~Alive(<<k, n>>)
  BY <1>3
<1>5. Address(k) = <<k, n>>
  BY DEF Address
<1> HIDE DEF n
<1>6. QED
  BY <1>4, <1>5, KeyForm DEF Alive

LEMMA DoesReadMakes ==
    ASSUME IInv, ReadMakes
    PROVE  IInv'
<1> DEFINE o == Address(Row)
<1>1. /\ Steps("read") /\ Top.left # <<>> /\ CachedInstance = NoInstance
      /\ obj' = [obj EXCEPT ![o] = NewObject] /\ cache' = Insert(cache, o, Row)
      /\ EntersFill(o, TRUE, FALSE)
      /\ program' = program /\ call' = call /\ fatal' = fatal
      /\ broken' = broken /\ given' = given /\ faults' = faults
  BY Zenon DEF ReadMakes
<1>2. InvParts /\ ReadParts(Top)
  BY <1>1, Parts, AtRead
<1>3. /\ Top = stack[1] /\ stack # <<>> /\ IsRead(stack, 1) /\ fatal = "no"
      /\ Row = Head(stack[1].left) /\ Row \in Keys
  BY <1>1, <1>2 DEF ReadParts
<1>4. /\ Get(cache, Row) = NoInstance
      /\ NextRow = <<[stack[1] EXCEPT !.left = Tail(@)]>> \o Tail(stack)
  BY <1>1, <1>3 DEF CachedInstance, NextRow
<1>5. o \in Objects /\ o[1] = Row /\ obj[o] = NoObject
  BY <1>3, <1>4, FreeAddress
<1>6. stack' = <<[kind |-> "fill", inst |-> o, key |-> Row, at |-> 1, fresh |-> TRUE,
                  overwrite |-> FALSE]>> \o (<<[stack[1] EXCEPT !.left = Tail(@)]>> \o Tail(stack))
  BY <1>1, <1>4, Zenon DEF EntersFill
<1> HIDE DEF o
<1>7. /\ IsProgram(program) /\ cache \in Caches /\ obj \in [Objects -> Object \cup {NoObject}]
      /\ given \in SUBSET Objects /\ broken \in SUBSET Objects
      /\ Reading(program, cache, obj, given, broken, stack, call)
  BY <1>2 DEF InvParts
<1>8. stack[1].left # <<>>
  BY <1>1, <1>3
<1>9. HasSet(program, given, broken, call, cache', obj', stack')
  BY <1>1, <1>3, <1>4, <1>5, <1>6, <1>7, <1>8, MakeStep, Zenon
<1>10. QED
  BY <1>1, <1>2, <1>3, <1>9, GoesOn DEF InvParts, HasSet

LEMMA DoesReadReturns ==
    ASSUME IInv, ReadReturns
    PROVE  IInv'
<1>1. /\ Steps("read") /\ Top.left = <<>> /\ Tail(stack) = <<>> /\ stack' = <<>>
      /\ program' = program /\ obj' = obj /\ cache' = cache /\ call' = call /\ fatal' = fatal
      /\ broken' = broken /\ given' = given /\ faults' = faults
  BY DEF ReadReturns
<1>2. InvParts /\ ReadParts(Top)
  BY <1>1, Parts, AtRead
<1>3. stack # <<>> /\ IsRead(stack, 1) /\ fatal = "no" /\ stack[1].left = <<>>
  BY <1>1, <1>2 DEF ReadParts
<1>4. Reading(program, cache, obj, given, broken, <<>>, call)
  BY <1>1, <1>2, <1>3, ReturnsStep DEF InvParts
<1>5. QED
  BY <1>1, <1>2, <1>3, <1>4, GoesOn DEF InvParts

\* The fill that a read returns to.
LEMMA Returning ==
    ASSUME IInv, Steps("read"), Top.left = <<>>, Tail(stack) # <<>>, NEW p, NEW v,
           Properties(stack[2])[stack[2].at] = p,
           \/ p = "list" /\ v = Top.result
           \/ p = "ref" /\ Len(Top.result) = 1 /\ v = Head(Top.result)
    PROVE  ReadyToSet(program, cache, obj, given, broken, Tail(stack), call, p, v)
<1>1. InvParts /\ ReadParts(Top)
  BY Parts, AtRead
<1>2. /\ stack # <<>> /\ IsRead(stack, 1) /\ stack[1].left = <<>>
      /\ p = Props(program, stack[2].key)[stack[2].at]
      /\ \/ p = "list" /\ v = stack[1].result
         \/ p = "ref" /\ Len(stack[1].result) = 1 /\ v = Head(stack[1].result)
  BY <1>1, Words DEF ReadParts
<1>3. IsProgram(program) /\ Reading(program, cache, obj, given, broken, stack, call)
  BY <1>1 DEF InvParts
<1>4. QED
  BY <1>2, <1>3, ReturnStep, Zenon

LEMMA DoesReadEndsList ==
    ASSUME IInv, ReadEndsList
    PROVE  IInv'
<1>1. /\ Steps("read") /\ Top.left = <<>> /\ Tail(stack) # <<>>
      /\ Properties(stack[2])[stack[2].at] = "list" /\ Fills(Tail(stack), "list", Top.result)
  BY DEF ReadEndsList
<1>2. ReadyToSet(program, cache, obj, given, broken, Tail(stack), call, "list", Top.result)
  BY <1>1, Returning
<1>3. fatal = "no" /\ Field("list") = "list"
  BY <1>1 DEF Steps, Field
<1>4. QED
  BY <1>1, <1>2, <1>3, SetsOne

LEMMA DoesReadEndsReference ==
    ASSUME IInv, ReadEndsReference
    PROVE  IInv'
<1>1. /\ Steps("read") /\ Top.left = <<>> /\ Tail(stack) # <<>>
      /\ Properties(stack[2])[stack[2].at] = "ref"
  BY DEF ReadEndsReference
<1>2. CASE Len(Top.result) = 1 /\ Fills(Tail(stack), "ref", Head(Top.result))
  <2>1. ReadyToSet(program, cache, obj, given, broken, Tail(stack), call, "ref", Head(Top.result))
    BY <1>1, <1>2, Returning
  <2>2. fatal = "no" /\ Field("ref") = "ref"
    BY <1>1 DEF Steps, Field
  <2>3. QED
    BY <1>2, <2>1, <2>2, SetsOne
<1>3. CASE Len(Top.result) # 1 /\ Die("danglingReference") /\ faults' = faults
  <2>1. /\ fatal' = "danglingReference"
        /\ UNCHANGED <<program, obj, cache, stack, call, broken, given>> /\ faults' = faults
    BY <1>3 DEF Die
  <2>2. InvParts /\ ReadParts(Top)
    BY <1>1, Parts, AtRead
  <2>3. /\ Top = stack[1] /\ stack[1] \in ReadFrame /\ ReadIn(program, cache, stack[1])
        /\ stack # <<>> /\ IsRead(stack, 1)
    BY <2>2 DEF ReadParts
  <2>4. /\ stack[2] \in FillFrame /\ Len(stack) >= 2 /\ FillIn(program, cache, obj, broken, stack[2])
    <3>1. TopIs(program, cache, obj, broken, stack, call)
      BY <2>2, <2>3, TopFrame DEF InvParts
    <3>2. QED
      BY <3>1, <2>3, <1>1 DEF TopIs
  <2> DEFINE f == stack[2]
  <2>5. ReadFor(program, stack[1], f, 0, f.key)
    BY <2>2, <2>3, <2>4 DEF InvParts, StackIn, TopIn
  <2>6. f.key \in Keys /\ HasRow(program, f.key)
    BY <2>2, <2>4 DEF FillFrame, FillIn, InvParts, IdentityIn
  <2>7. Props(program, f.key)[f.at] = "ref"
    BY <1>1, Words, Zenon
  <2>8. ~IsNull(program, f.key)
    BY <2>5, <2>7 DEF ReadFor
  <2>9. ~(Ref(program, f.key) \in Keys /\ HasRow(program, Ref(program, f.key)))
    <3>1. stack[1].left = <<>> /\ Len(stack[1].result) # 1
      BY <1>1, <1>3, <2>3
    <3>2. QED
      BY <2>3, <2>5, <2>6, <2>7, <3>1, ReadForDone
  <2>10. /\ rows[f.key] # NoRow /\ rows[f.key].ref # SqlNull
         /\ <<shape[f.key[1]].ref, rows[f.key].ref>> \notin RowsOf(shape[f.key[1]].ref)
    BY <2>6, <2>8, <2>9, Words, Zenon DEF RowsOf
  <2>11. DiesForAReason'
    <3>1. rows' = rows /\ shape' = shape
      BY <2>1 DEF program
    <3>2. RowsOf(shape[f.key[1]].ref)' = RowsOf(shape[f.key[1]].ref)
      BY <3>1, <2>1 DEF RowsOf
    <3>3. \E k \in Keys : /\ rows'[k] # NoRow /\ rows'[k].ref # SqlNull
                          /\ <<shape'[k[1]].ref, rows'[k].ref>> \notin RowsOf(shape[k[1]].ref)'
      BY <2>6, <2>10, <3>1, Zenon DEF RowsOf
    <3>4. QED
      BY <2>1, <3>3, Zenon DEF DiesForAReason
  <2>12. QED
    BY <2>1, <2>2, <2>11, Ends DEF InvParts
<1>4. QED
  BY <1>2, <1>3 DEF ReadEndsReference

LEMMA DoesRereadNext ==
    ASSUME IInv, RereadNext
    PROVE  IInv'
<1>1. /\ fatal = "no" /\ stack = <<>> /\ call.queue # <<>>
      /\ stack' = <<Reads({Head(call.queue)[1]}, TRUE)>>
      /\ call' = [call EXCEPT !.queue = Tail(@)]
      /\ program' = program /\ obj' = obj /\ cache' = cache /\ fatal' = fatal
      /\ broken' = broken /\ given' = given /\ faults' = faults
  BY DEF RereadNext
<1>2. InvParts
  BY Parts
<1>3. Reading(program, cache, obj, given, broken, <<>>, call)
  BY <1>1, <1>2 DEF InvParts
<1>4. Reading(program, cache, obj, given, broken, stack', call')
  BY <1>1, <1>3, RereadStep, Zenon
<1>5. QED
  BY <1>1, <1>2, <1>4, GoesOn DEF InvParts

LEMMA DoesCallReturns ==
    ASSUME IInv, CallReturns
    PROVE  IInv'
<1>1. /\ fatal = "no" /\ stack = <<>> /\ call.queue = <<>> /\ call' = NoCall
      /\ program' = program /\ obj' = obj /\ cache' = cache /\ fatal' = fatal /\ stack' = stack
      /\ broken' = broken /\ given' = given /\ faults' = faults
  BY DEF CallReturns
<1>2. InvParts
  BY Parts
<1>3. Reading(program, cache, obj, given, broken, <<>>, call)
  BY <1>1, <1>2 DEF InvParts
<1>4. Reading(program, cache, obj, given, broken, <<>>, NoCall)
  BY <1>1, <1>3, CallEndsStep
<1>5. QED
  BY <1>1, <1>2, <1>4, GoesOn DEF InvParts

\* When the client is in control nothing is being read.
LEMMA WhenIdle ==
    ASSUME IInv, Idle
    PROVE  /\ InvParts /\ stack = <<>> /\ call = NoCall /\ fatal = "no"
           /\ Reading(program, cache, obj, given, broken, <<>>, NoCall)
<1>1. InvParts /\ call = NoCall /\ fatal = "no"
  BY Parts DEF Idle
<1>2. call.why = "none"
  BY <1>1 DEF NoCall
<1>3. stack = <<>>
  BY <1>1, <1>2 DEF InvParts, CallIn
<1>4. QED
  BY <1>1, <1>3 DEF InvParts

LEMMA DoesChange ==
    ASSUME IInv, NEW o \in Objects, Change(o)
    PROVE  IInv'
<1>1. /\ Idle /\ Contains(cache, o)
      /\ program' = program /\ stack' = stack /\ call' = call /\ fatal' = fatal
      /\ broken' = broken /\ given' = given /\ faults' = faults
  BY DEF Change
<1>2. /\ InvParts /\ stack = <<>> /\ call = NoCall /\ fatal = "no"
      /\ Reading(program, cache, obj, given, broken, <<>>, NoCall)
  BY <1>1, WhenIdle
<1>3. obj[o] \in Object
  <2>1. obj[o] # NoObject
    BY <1>1, <1>2 DEF InvParts, IdentityIn
  <2>2. QED
    BY <2>1, <1>2 DEF InvParts
<1>4. /\ obj' \in [Objects -> Object \cup {NoObject}] /\ obj'[o] # NoObject
      /\ \A x \in Objects \ {o} : obj'[x] = obj[x]
      /\ cache' = Notify(cache, o)
  <2>1. \E p, v : /\ obj' = [obj EXCEPT ![o] = [obj[o] EXCEPT ![p] = v]]
                  /\ [obj[o] EXCEPT ![p] = v] \in Object
                  /\ cache' = Notify(cache, o)
    <3>1. CASE obj[o].val # "changed" /\ Set(o, "val", "changed")
      <4>1. [obj[o] EXCEPT !["val"] = "changed"] \in Object
        BY <1>3 DEF Object
      <4>2. /\ obj' = [obj EXCEPT ![o] = [obj[o] EXCEPT !["val"] = "changed"]]
            /\ cache' = Notify(cache, o)
        BY <3>1 DEF Set
      <4>3. QED
        BY <4>1, <4>2, Zenon
    <3>2. CASE obj[o].ref # NoInstance /\ Set(o, "ref", NoInstance)
      <4>1. [obj[o] EXCEPT !["ref"] = NoInstance] \in Object
        BY <1>3 DEF Object
      <4>2. /\ obj' = [obj EXCEPT ![o] = [obj[o] EXCEPT !["ref"] = NoInstance]]
            /\ cache' = Notify(cache, o)
        BY <3>2 DEF Set
      <4>3. QED
        BY <4>1, <4>2, Zenon
    <3>3. CASE obj[o].list # <<>> /\ Set(o, "list", <<>>)
      <4>e. <<>> \in Seq(Objects)
        OBVIOUS
      <4>1. [obj[o] EXCEPT !["list"] = <<>>] \in Object
        BY <1>3, <4>e, Zenon DEF Object
      <4>2. /\ obj' = [obj EXCEPT ![o] = [obj[o] EXCEPT !["list"] = <<>>]]
            /\ cache' = Notify(cache, o)
        BY <3>3 DEF Set
      <4>3. QED
        BY <4>1, <4>2, Zenon
    <3>4. QED
      BY <3>1, <3>2, <3>3, Zenon DEF Change
  <2>2. PICK y \in Object : obj' = [obj EXCEPT ![o] = y] /\ cache' = Notify(cache, o)
    BY <2>1, Zenon
  <2>3. obj \in [Objects -> Object \cup {NoObject}]
    BY <1>2 DEF InvParts
  <2>4. QED
    BY <2>2, <2>3, NoObjectFacts
<1>5. cache' \in Caches /\ Reading(program, cache', obj', given, broken, <<>>, NoCall)
  BY <1>1, <1>2, <1>4, ChangeStep DEF InvParts
<1>6. QED
  BY <1>1, <1>2, <1>5, <1>4, GoesOn DEF InvParts

LEMMA DoesSelect ==
    ASSUME IInv, NEW c \in Classes, NEW ids, Select(c, ids)
    PROVE  IInv'
<1> DEFINE S == {k \in RowsOf(c) : k[2] \in ids}
<1>1. /\ Idle /\ stack' = <<Reads(S, FALSE)>>
      /\ call' = [NoCall EXCEPT !.why = "select", !.dirty = cache.modified]
      /\ program' = program /\ obj' = obj /\ cache' = cache /\ fatal' = fatal
      /\ broken' = broken /\ given' = given /\ faults' = faults
  BY DEF Select
<1>2. /\ InvParts /\ stack = <<>> /\ call = NoCall /\ fatal = "no"
      /\ Reading(program, cache, obj, given, broken, <<>>, NoCall)
  BY <1>1, WhenIdle
<1>3. S \in SUBSET Keys /\ (\A x, y \in S : x[1] = y[1]) /\ (\A x \in S : HasRow(program, x))
  BY Words DEF RowsOf
<1> HIDE DEF S
<1>4. call' = [why |-> "select", queue |-> <<>>, roots |-> {}, dirty |-> cache.modified, known |-> {}]
  BY <1>1, Zenon DEF NoCall
<1>5. Reading(program, cache, obj, given, broken, stack', call')
  BY <1>1, <1>2, <1>3, <1>4, SelectStep, Zenon DEF InvParts
<1>6. QED
  BY <1>1, <1>2, <1>5, GoesOn DEF InvParts

\* The queue of a rollback holds instances of the cache.
LEMMA QueueFacts ==
    ASSUME NEW q \in Queues
    PROVE  /\ q \in Seq(Objects) /\ Len(q) \in Nat
           /\ \A n \in 1..Len(q) : q[n] \in Cached(cache)
           /\ \A o : o \in Seqs!ToSet(q) <=> \E n \in 1..Len(q) : q[n] = o
<1>1. q \in UNION {[1..m -> Cached(cache)] : m \in 0..MaxTracked}
  BY DEF Queues, Seqs!BoundedSeq, Seqs!SeqOf
<1>2. PICK m \in 0..MaxTracked : q \in [1..m -> Cached(cache)]
  BY <1>1
<1>3. m \in Nat /\ Cached(cache) \subseteq Objects
  BY Bounds DEF Cached
<1>4. q \in Seq(Cached(cache)) /\ Len(q) = m
  BY <1>2, <1>3
<1>5. q \in Seq(Objects) /\ Len(q) \in Nat /\ \A n \in 1..Len(q) : q[n] \in Cached(cache)
  BY <1>2, <1>3, <1>4
<1>6. DOMAIN q = 1..Len(q)
  BY <1>4
<1>7. Seqs!ToSet(q) = {q[n] : n \in DOMAIN q}
  BY DEF Seqs!ToSet
<1>8. QED
  BY <1>5, <1>6, <1>7

LEMMA ObjectsAreFinite == IsFiniteSet(Objects)
<1>1. IsFiniteSet(Keys)
  BY StackAssumption, KeysAreFinite
<1>2. IsFiniteSet(1..(MaxEvents + 1))
  BY Bounds, FS_Interval
<1>3. QED
  BY <1>1, <1>2, FS_Product, Zenon DEF Objects

LEMMA DoesRollback ==
    ASSUME IInv, NEW q \in Queues, NEW merged, NEW removed, Rollback(q, merged, removed)
    PROVE  IInv'
<1>1. /\ Idle
      /\ merged \subseteq Seqs!ToSet(q) /\ removed \subseteq Cached(cache)
      /\ Cardinality(given \cup removed) + faults <= MaxEvents
      /\ call' = [why |-> "rollback", queue |-> q, roots |-> {o[1] : o \in Seqs!ToSet(q)},
                  dirty |-> cache.modified, known |-> {o[1] : o \in Cached(cache) \ removed}]
      /\ cache' = TakeAll([cache EXCEPT !.modified = @ \ merged], removed)
      /\ given' = given \cup removed
      /\ program' = program /\ obj' = obj /\ stack' = stack /\ fatal' = fatal
      /\ broken' = broken /\ faults' = faults
  BY DEF Rollback
<1>2. /\ InvParts /\ stack = <<>> /\ call = NoCall /\ fatal = "no"
      /\ Reading(program, cache, obj, given, broken, <<>>, NoCall)
  BY <1>1, WhenIdle
<1>3. /\ q \in Seq(Objects) /\ Len(q) \in Nat /\ (\A n \in 1..Len(q) : q[n] \in Cached(cache))
      /\ \A o : o \in Seqs!ToSet(q) <=> \E n \in 1..Len(q) : q[n] = o
  BY QueueFacts
<1>4. Cached(cache) \subseteq Objects
  BY DEF Cached
<1> DEFINE R == {q[n][1] : n \in 1..Len(q)}
           K == {o[1] : o \in Cached(cache) \ removed}
<1>5. {o[1] : o \in Seqs!ToSet(q)} = R
  BY <1>3
<1>6. merged \in SUBSET Objects /\ (\A o \in merged : \E n \in 1..Len(q) : q[n] = o)
  BY <1>1, <1>3, <1>4
<1>7. call' = [why |-> "rollback", queue |-> q, roots |-> R, dirty |-> cache.modified, known |-> K]
  BY <1>1, <1>5, Zenon
<1>8. /\ cache \in Caches /\ given \in SUBSET Objects /\ broken \in SUBSET Objects
      /\ IsFiniteSet(given) /\ faults \in Nat
      /\ obj \in [Objects -> Object \cup {NoObject}]
  BY <1>2 DEF InvParts
<1>9. /\ cache' \in Caches
      /\ Reading(program, cache', obj, given', broken, <<>>, call')
  <2>1. RollsBack(cache, q, merged, removed, call', cache')
    BY <1>1, <1>3, <1>6, <1>7, Zenon DEF RollsBack
  <2>2. /\ cache' \in Caches
        /\ Reading(program, cache', obj, given \cup removed, broken, <<>>, call')
    BY <2>1, <1>2, <1>8, RollbackStep
  <2>3. QED
    BY <2>2, <1>1
<1>10. given' \in SUBSET Objects /\ IsFiniteSet(given')
  BY <1>1, <1>4, <1>8, ObjectsAreFinite, FS_Subset
<1>11. Reading(program', cache', obj', given', broken', stack', call')
  BY <1>1, <1>2, <1>9
<1>12. fatal' = "no" /\ faults' \in Nat /\ Cardinality(given') + faults' <= MaxEvents
  BY <1>1, <1>2, <1>8
<1>13. QED
  BY <1>1, <1>8, <1>9, <1>10, <1>11, <1>12, GoesOn

-----------------------------------------------------------------------------
(* The invariant holds.                                                    *)

LEMMA InitIInv ==
    ASSUME Init
    PROVE  IInv
<1>1. /\ shape \in Shapes /\ rows \in TablesOf(shape)
      /\ obj = [o \in Objects |-> NoObject] /\ cache = EmptyCache
      /\ stack = <<>> /\ call = NoCall /\ fatal = "no"
      /\ broken = {} /\ given = {} /\ faults = 0
  BY DEF Init
<1>2. IsProgram(program)
  BY <1>1 DEF IsProgram, program
<1>3. /\ cache.ids = [o \in Objects |-> NoKey] /\ cache.byId = [k \in Keys |-> NoInstance]
      /\ cache.modified = {} /\ cache.connected = {} /\ cache \in Caches
  BY <1>1 DEF EmptyCache, Caches
<1>4. Types
  <2>1. Cardinality(given) = 0 /\ IsFiniteSet(given)
    BY <1>1, FS_EmptySet
  <2>2. QED
    BY <1>1, <1>2, <1>3, <2>1, Bounds DEF Types
<1>5. \A o \in Objects : ~Contains(cache, o) /\ obj[o] = NoObject
  BY <1>1, <1>3 DEF Contains
<1>6. Cached(cache) = {}
  BY <1>5 DEF Cached
<1>7. \A k \in Keys : Get(cache, k) = NoInstance
  BY <1>3 DEF Get
<1>8. IdentityIn(program, cache, obj, given, broken)
  <2>1. \A o \in Objects : Get(cache, o[1]) # o
    BY <1>7, KeyForm, NoneAssumption
  <2>2. QED
    BY <1>1, <1>3, <1>5, <1>7, <2>1 DEF IdentityIn
<1>9. NoReads(program, cache, obj, broken, call)
  BY NothingIsRead
<1>10. CallIn(program, stack, call)
  <2>1. call = [why |-> "none", queue |-> <<>>, roots |-> {}, dirty |-> {}, known |-> {}]
    BY <1>1 DEF NoCall
  <2>2. <<>> \in Seq(Objects) /\ Len(<<>>) = 0
    OBVIOUS
  <2>3. call \in [why : {"none", "select", "rollback"}, queue : Seq(Objects), roots : SUBSET Keys,
                  dirty : SUBSET Objects, known : SUBSET Keys]
    BY <2>1, <2>2
  <2>4. call.queue = <<>> /\ stack = <<>> /\ call = NoCall
    BY <1>1, <2>1
  <2>5. QED
    BY <2>2, <2>3, <2>4 DEF CallIn
<1>11. call.why = "none"
  BY <1>1 DEF NoCall
<1>12. /\ Agreement(program, cache, obj, given, broken, stack, call)
       /\ Marks(cache, given, call) /\ Visited(program, cache, stack, call)
  BY <1>6, <1>11 DEF Agreement, Marks, Visited
<1>13. /\ FramesIn(program, cache, obj, broken, stack, call) /\ TopIn(program, cache, stack)
       /\ Descent(program, stack, call) /\ Reached(program, stack, call)
  BY <1>1, <1>9 DEF NoReads
<1>14. Reading(program, cache, obj, given, broken, stack, call)
  BY <1>8, <1>10, <1>12, <1>13 DEF Reading, Held
<1>15. DiesForAReason
  BY <1>1 DEF DiesForAReason
<1>16. QED
  BY <1>4, <1>14, <1>15 DEF IInv

LEMMA Unchanged ==
    ASSUME IInv, UNCHANGED vars
    PROVE  IInv'
<1>1. /\ program' = program /\ obj' = obj /\ cache' = cache /\ stack' = stack /\ call' = call
      /\ fatal' = fatal /\ broken' = broken /\ given' = given /\ faults' = faults
      /\ shape' = shape /\ rows' = rows
  BY DEF vars, program
<1>2. Types'
  BY <1>1 DEF IInv, Types
<1>3. Reading(program', cache', obj', given', broken', stack', call')
  BY <1>1 DEF IInv
<1>4. DiesForAReason'
  <2>1. DiesForAReason
    BY DEF IInv
  <2>2. /\ \A c : RowsOf(c)' = RowsOf(c)
        /\ Ring' = Ring
    <3>1. \A c : RowsOf(c)' = RowsOf(c)
      BY <1>1 DEF RowsOf
    <3>2. \A k : RowsReferencing(k)' = RowsReferencing(k)
      BY <1>1, <3>1 DEF RowsReferencing
    <3>3. \A S, T : Closed(S, T)' <=> Closed(S, T)
      BY <3>2 DEF Closed
    <3>4. QED
      BY <3>1, <3>2, <3>3 DEF Ring
  <2>3. QED
    BY <1>1, <2>1, <2>2 DEF DiesForAReason
<1>5. QED
  BY <1>2, <1>3, <1>4 DEF IInv

\* One step per action.
LEMMA NextIInv ==
    ASSUME IInv, [Next]_vars
    PROVE  IInv'
<1>1. ASSUME NEW o \in Objects, Change(o)
      PROVE  IInv'
  BY <1>1, DoesChange
<1>2. ASSUME NEW c \in Classes, NEW ids, Select(c, ids)
      PROVE  IInv'
  BY <1>2, DoesSelect
<1>3. ASSUME NEW q \in Queues, NEW merged, NEW removed, Rollback(q, merged, removed)
      PROVE  IInv'
  BY <1>3, DoesRollback
<1>4. CASE Client
  BY <1>1, <1>2, <1>3, <1>4 DEF Client
<1>5. CASE Fault
  BY <1>5, DoesSynchronizationFails, DoesStatementFails DEF Fault
<1>6. CASE FillValue \/ FillNull \/ FillCached \/ FillModifiedFatal \/ FillReads \/ FillList
  BY <1>6, DoesFillValue, DoesFillNull, DoesFillCached, DoesFillModifiedFatal, DoesFillReads,
     DoesFillList
<1>7. CASE Overflow \/ FillEnds \/ RereadNext \/ CallReturns
  BY <1>7, DoesOverflow, DoesFillEnds, DoesRereadNext, DoesCallReturns
<1>8. CASE ReadCached \/ ReadModified \/ ReadOverwrites \/ ReadMakes
  BY <1>8, DoesReadCached, DoesReadModified, DoesReadOverwrites, DoesReadMakes
<1>9. CASE ReadReturns \/ ReadEndsList \/ ReadEndsReference
  BY <1>9, DoesReadReturns, DoesReadEndsList, DoesReadEndsReference
<1>10. CASE UNCHANGED vars
  BY <1>10, Unchanged
<1>11. QED
  BY <1>4, <1>5, <1>6, <1>7, <1>8, <1>9, <1>10 DEF Next, Step

\* Everything the theorems say follows from one inductive invariant: the identity map
\* is one, the frames of the running calls fit each other and the tables, and what is
\* not marked, not being filled and not still to be read again agrees with its row
\* (qormsqliteprovider.cpp:210-412, 916-977).
THEOREM Invariant == Spec => []IInv
<1>1. Init => IInv
  BY InitIInv
<1>2. IInv /\ [Next]_vars => IInv'
  BY NextIInv
<1>3. QED
  BY <1>1, <1>2, PTL DEF Spec

-----------------------------------------------------------------------------
(* What the invariant says to the client.                                  *)

LEMMA IInvType ==
    ASSUME IInv
    PROVE  TypeOK
<1>1. /\ IsProgram(program) /\ Types
      /\ FramesIn(program, cache, obj, broken, stack, call) /\ CallIn(program, stack, call)
  BY DEF IInv, Types, Reading, Held
<1>2. shape \in Shapes /\ rows \in Tables
  BY <1>1, Words, ProgramFacts
<1>3. stack \in Seq(ReadFrame \cup FillFrame) /\ Len(stack) <= MaxStack
  <2>1. stack \in Seq(Frames) /\ Len(stack) + (Len(stack) % 2) <= MaxStack
    BY <1>1 DEF FramesIn
  <2>2. PICK n \in Nat : n = Len(stack)
    BY <2>1
  <2>3. n % 2 >= 0 /\ n % 2 \in Int /\ n + (n % 2) <= MaxStack
    BY <2>1, <2>2
  <2>4. n <= MaxStack
    BY <2>2, <2>3, Bounds
  <2>5. QED
    BY <2>1, <2>2, <2>4 DEF Frames
<1>4. /\ call.why \in {"none", "select", "rollback"} /\ call.queue \in Seq(Objects)
      /\ call.roots \subseteq Keys /\ call.dirty \subseteq Objects /\ call.known \subseteq Keys
  BY <1>1 DEF CallIn
<1>5. faults \in 0..MaxEvents
  <2>1. /\ IsFiniteSet(given) /\ faults \in Nat /\ Cardinality(given) + faults <= MaxEvents
    BY <1>1 DEF Types
  <2>2. Cardinality(given) \in Nat
    BY <2>1, FS_CardinalityType
  <2>3. QED
    BY <2>1, <2>2, Bounds
<1>6. QED
  BY <1>1, <1>2, <1>3, <1>4, <1>5 DEF Types, TypeOK

LEMMA IInvOne ==
    ASSUME IInv
    PROVE  OneInstancePerRow
BY DEF IInv, Reading, Held, IdentityIn, OneInstancePerRow, Alive, Instance

\* Properties that agree one by one are what the tables say.
LEMMA AgreeingAgrees ==
    ASSUME IInv, NEW o \in Cached(cache), FullyAgrees(program, cache, obj, o)
    PROVE  Agrees(o, o[1])
<1> DEFINE k == o[1]
           q == InOrder(ListedRows(program, k))
<1>1. /\ IsProgram(program) /\ IdentityIn(program, cache, obj, given, broken)
      /\ obj \in [Objects -> Object \cup {NoObject}]
  BY DEF IInv, Types, Reading, Held
<1>2. \A x \in Cached(cache) : /\ x \in Objects /\ x[1] \in Keys /\ HasRow(program, x[1])
                               /\ Get(cache, x[1]) = x /\ obj[x] # NoObject
  BY <1>1, KeyForm DEF IdentityIn, Cached
<1>3. k \in Keys /\ HasRow(program, k) /\ obj[o] \in Object
  BY <1>1, <1>2
<1>4. \A m \in 1..Len(Props(program, k)) : AgreesOn(program, cache, obj, o, Props(program, k)[m])
  BY DEF FullyAgrees, AgreesUpto
<1>5. obj[o].val = "stored"
  <2>1. AgreesOn(program, cache, obj, o, "value")
    BY <1>1, <1>3, <1>4, ProgramFacts
  <2>2. QED
    BY <2>1 DEF AgreesOn
<1>6. ASSUME ~IsNull(program, k)
      PROVE  /\ Ref(program, k) \in RowsOf(Ref(program, k)[1])
             /\ obj[o].ref = Instance(Ref(program, k))
  <2>1. AgreesOn(program, cache, obj, o, "ref")
    BY <1>1, <1>3, <1>4, <1>6, ProgramFacts
  <2>2. obj[o].ref \in Cached(cache) /\ obj[o].ref[1] = Ref(program, k)
    BY <2>1, <1>6 DEF AgreesOn
  <2>3. Ref(program, k) \in Keys /\ HasRow(program, Ref(program, k))
        /\ Get(cache, Ref(program, k)) = obj[o].ref
    BY <2>2, <1>2
  <2>4. QED
    BY <2>3, Words DEF RowsOf, Instance
<1>7. ASSUME shape[k[1]].list # NoClass
      PROVE  obj[o].list = [n \in 1..Len(q) |-> Instance(q[n])]
  <2>1. \E n \in 1..Len(Props(program, k)) : Props(program, k)[n] = "list"
    BY <1>1, <1>3, <1>7, Words, ProgramFacts, SMTT(30)
  <2>2. AgreesOn(program, cache, obj, o, "list")
    BY <2>1, <1>4
  <2>3. MembersIn(cache, obj[o].list, q)
    BY <2>2 DEF AgreesOn
  <2>4. obj[o].list \in Seq(Objects)
    BY <1>3 DEF Object
  <2> DEFINE l == obj[o].list
  <2>5. l \in Seq(Objects) /\ Len(l) = Len(q)
        /\ \A n \in 1..Len(q) : l[n] \in Cached(cache) /\ l[n][1] = q[n]
    BY <2>3, <2>4 DEF MembersIn
  <2> HIDE DEF l, q
  <2>6. \A n \in 1..Len(q) : l[n] = Instance(q[n])
    BY <2>5, <1>2 DEF Instance
  <2>7. l = [n \in 1..Len(l) |-> l[n]]
    BY <2>5
  <2>8. l = [n \in 1..Len(q) |-> Instance(q[n])]
    BY <2>5, <2>6, <2>7
  <2>9. QED
    BY <2>8 DEF l
<1>8. /\ InOrder(RowsReferencing(k)) = q
      /\ <<shape[k[1]].ref, rows[k].ref>> = Ref(program, k)
      /\ IsNull(program, k) <=> rows[k].ref = SqlNull
  BY Words, Zenon
<1> HIDE DEF q
<1>9. QED
  BY <1>5, <1>6, <1>7, <1>8 DEF Agrees

LEMMA IInvAgrees ==
    ASSUME IInv
    PROVE  UnmodifiedAgrees
<1>1. SUFFICES ASSUME Idle, NEW o \in Cached(cache) \ (cache.modified \cup broken)
               PROVE  PointsInto(o, given) \/ (o \in cache.connected /\ Agrees(o, cache.ids[o]))
  BY DEF UnmodifiedAgrees
<1>2. /\ InvParts /\ stack = <<>> /\ call = NoCall
      /\ Reading(program, cache, obj, given, broken, <<>>, NoCall)
  BY <1>1, WhenIdle
<1>3. AgreedIn(program, cache, obj, given, <<>>, NoCall, o)
  BY <1>2 DEF Reading, Held, Agreement
<1>4. ~Completing(<<>>, o)
  BY NothingIsRead DEF NoReads
<1>5. NoCall.dirty = {}
  BY DEF NoCall
<1>6. /\ o \in cache.connected
      /\ \/ obj[o].ref \in given \/ \E n \in 1..Len(obj[o].list) : obj[o].list[n] \in given
         \/ FullyAgrees(program, cache, obj, o)
  BY <1>3, <1>4, <1>5 DEF AgreedIn
<1>7. cache.ids[o] = o[1] /\ obj[o] \in Object
  BY <1>2 DEF InvParts, IdentityIn, Cached
<1>8. ASSUME NEW n \in 1..Len(obj[o].list), obj[o].list[n] \in given
      PROVE  PointsInto(o, given)
  <2>1. obj[o].list \in Seq(Objects)
    BY <1>7 DEF Object
  <2>2. obj[o].list[n] \in Seqs!ToSet(obj[o].list)
    BY <2>1 DEF Seqs!ToSet
  <2>3. QED
    BY <2>2, <1>8 DEF PointsInto
<1>9. ASSUME FullyAgrees(program, cache, obj, o)
      PROVE  Agrees(o, cache.ids[o])
  BY <1>7, <1>9, AgreeingAgrees
<1>10. QED
  BY <1>6, <1>8, <1>9 DEF PointsInto

-----------------------------------------------------------------------------
(* What a rollback throws away.                                            *)

LEMMA ReachIs == \A roots, within : Reach(roots, within) = ReachIn(program, roots, within)
BY Words, Zenon DEF Reach, ReachIn, Closed

KeepsMarks == cache.modified \subseteq cache'.modified
CallGoesOn == call.why = "rollback" => call'.why = "rollback"

\* A mark is taken away only by a rollback, where it begins and where a row has been
\* read again.
LEMMA MarksStay ==
    ASSUME IInv, [Next]_vars
    PROVE  \/ KeepsMarks /\ CallGoesOn
           \/ KeepsMarks /\ CallReturns
           \/ FillEnds
           \/ \E q \in Queues, merged, removed \in SUBSET Cached(cache) : Rollback(q, merged, removed)
<1>1. ASSUME NEW o, NEW p, NEW v, Set(o, p, v)
      PROVE  KeepsMarks
  <2>1. cache' = Notify(cache, o) \/ cache' = cache
    BY <1>1 DEF Set
  <2>2. Notify(cache, o).modified = cache.modified \cup {o} \/ Notify(cache, o) = cache
    <3>1. cache \in Caches
      BY DEF IInv, Types
    <3>2. QED
      BY <3>1 DEF Notify, Caches
  <2>3. QED
    BY <2>1, <2>2 DEF KeepsMarks
<1>2. ASSUME cache' = cache
      PROVE  KeepsMarks
  BY <1>2 DEF KeepsMarks
<1>3. ASSUME NEW t, NEW p, NEW v, Fills(t, p, v)
      PROVE  KeepsMarks /\ CallGoesOn
  BY <1>1, <1>3 DEF Fills, CallGoesOn
<1>4. ASSUME NEW ks, Asks(ks)
      PROVE  KeepsMarks /\ CallGoesOn
  BY <1>2, <1>4 DEF Asks, CallGoesOn
<1>5. ASSUME NEW why, Die(why)
      PROVE  KeepsMarks /\ CallGoesOn
  BY <1>2, <1>5 DEF Die, CallGoesOn
<1>6. ASSUME Fails
      PROVE  KeepsMarks /\ CallGoesOn
  BY <1>2, <1>5, <1>6 DEF Fails, CallGoesOn
<1>7. Idle => call.why = "none"
  BY DEF Idle, NoCall
<1>8. CASE Client
  <2>1. ASSUME NEW o \in Objects, Change(o)
        PROVE  KeepsMarks /\ CallGoesOn
    BY <2>1, <1>1, <1>7 DEF Change, CallGoesOn
  <2>2. ASSUME NEW c \in Classes, NEW ids, Select(c, ids)
        PROVE  KeepsMarks /\ CallGoesOn
    BY <2>2, <1>2, <1>7 DEF Select, CallGoesOn
  <2>3. QED
    BY <1>8, <2>1, <2>2 DEF Client
<1>9. CASE Fault
  BY <1>6, <1>9 DEF Fault, SynchronizationFails, StatementFails
<1>10. CASE FillValue \/ FillNull \/ FillCached \/ FillModifiedFatal
  BY <1>10, <1>3, <1>5 DEF FillValue, FillNull, FillCached, FillModifiedFatal
<1>11. CASE FillReads \/ FillList \/ Overflow
  BY <1>11, <1>4, <1>5 DEF FillReads, FillList, Overflow
<1>12. CASE ReadCached \/ ReadModified \/ ReadOverwrites
  BY <1>12, <1>2, <1>6, Zenon DEF ReadCached, ReadModified, ReadOverwrites, CallGoesOn
<1>13. CASE ReadMakes
  <2>1. cache' = Insert(cache, Address(Row), Row) /\ call' = call
    BY <1>13 DEF ReadMakes
  <2>2. Insert(cache, Address(Row), Row).modified = cache.modified
    <3>1. cache \in Caches
      BY DEF IInv, Types
    <3>2. QED
      BY <3>1 DEF Insert, Caches
  <2>3. QED
    BY <2>1, <2>2 DEF KeepsMarks, CallGoesOn
<1>14. CASE ReadReturns \/ ReadEndsList \/ ReadEndsReference
  BY <1>14, <1>2, <1>3, <1>5 DEF ReadReturns, ReadEndsList, ReadEndsReference, CallGoesOn
<1>15. CASE RereadNext
  <2>1. cache' = cache /\ call' = [call EXCEPT !.queue = Tail(@)]
    BY <1>15 DEF RereadNext
  <2>2. call'.why = call.why
    BY <2>1, Parts DEF InvParts, CallIn
  <2>3. QED
    BY <2>1, <2>2, <1>2 DEF CallGoesOn
<1>16. CASE CallReturns
  BY <1>16, <1>2 DEF CallReturns
<1>17. CASE UNCHANGED vars
  BY <1>17, <1>2 DEF vars, CallGoesOn
<1>18. QED
  BY <1>8, <1>9, <1>10, <1>11, <1>12, <1>13, <1>14, <1>15, <1>16, <1>17 DEF Next, Step, Client

OnlyInReach ==
    \A o \in cache.modified \ cache'.modified :
        o \in given' \/ (call'.why = "rollback" /\ o[1] \in Reach(call'.roots, Keys))
AllInReach ==
    call.why = "rollback" /\ call' = NoCall =>
        \A o \in cache.modified : o[1] \notin Reach(call.roots, call.known)

LEMMA RollbackDiscards ==
    ASSUME IInv, NEW q \in Queues, NEW merged, NEW removed, Rollback(q, merged, removed)
    PROVE  OnlyInReach /\ AllInReach
<1>1. /\ Idle /\ merged \subseteq Seqs!ToSet(q)
      /\ call' = [why |-> "rollback", queue |-> q, roots |-> {o[1] : o \in Seqs!ToSet(q)},
                  dirty |-> cache.modified, known |-> {o[1] : o \in Cached(cache) \ removed}]
      /\ cache' = TakeAll([cache EXCEPT !.modified = @ \ merged], removed)
      /\ given' = given \cup removed
  BY DEF Rollback
<1>2. call'.why = "rollback" /\ call'.roots = {o[1] : o \in Seqs!ToSet(q)} /\ call.why = "none"
  BY <1>1 DEF Idle, NoCall
<1>3. cache'.modified = (cache.modified \ merged) \ removed
  <2>1. cache \in Caches
    BY DEF IInv, Types
  <2> DEFINE c == [cache EXCEPT !.modified = @ \ merged]
  <2>2. c.modified = cache.modified \ merged
    BY <2>1 DEF Caches
  <2> HIDE DEF c
  <2>3. TakeAll(c, removed).modified = c.modified \ removed
    <3>1. c \in Caches
      BY <2>1 DEF c, Caches
    <3>2. QED
      BY <3>1 DEF TakeAll, Caches
  <2>4. QED
    BY <1>1, <2>2, <2>3 DEF c
<1>4. call'.roots \in SUBSET Keys
  <2>1. \A o \in Seqs!ToSet(q) : o \in Objects
    BY QueueFacts DEF Cached
  <2>2. QED
    BY <1>2, <2>1, KeyForm
<1>5. call'.roots \subseteq Reach(call'.roots, Keys)
  BY <1>4, ReachIs, ReachFacts
<1>6. QED
  BY <1>1, <1>2, <1>3, <1>5, Zenon DEF OnlyInReach, AllInReach

LEMMA FillDiscards ==
    ASSUME IInv, FillEnds
    PROVE  OnlyInReach /\ AllInReach
<1>1. /\ Steps("fill") /\ call' = call
      /\ cache' = IF Top.fresh THEN Finalize(cache, Top.inst) ELSE MarkUnmodified(cache, Top.inst)
  BY DEF FillEnds
<1>2. FillParts(Top) /\ InvParts
  BY <1>1, AtFill, Parts
<1>3. TopIs(program, cache, obj, broken, stack, call)
  BY <1>2, TopFrame DEF InvParts, FillParts
<1>4. /\ Top = stack[1] /\ ~IsRead(stack, 1) /\ Top.inst[1] = Top.key /\ Top.key \in Keys
      /\ stack \in Seq(Frames) /\ stack # <<>> /\ cache \in Caches
  BY <1>2 DEF FillParts, InvParts
<1>5. Top.fresh <=> ~Top.overwrite
  BY <1>3, <1>4 DEF TopIs, FillIn
<1>6. AllInReach
  BY <1>1, <1>2 DEF AllInReach, FillParts, NoCall
<1>7. CASE Top.fresh
  <2>1. cache'.modified = cache.modified
    BY <1>1, <1>4, <1>7 DEF Finalize, Caches
  <2>2. QED
    BY <2>1, <1>6 DEF OnlyInReach
<1>8. CASE ~Top.fresh
  <2>1. cache'.modified = cache.modified \ {Top.inst}
    BY <1>1, <1>4, <1>8 DEF MarkUnmodified, Caches
  <2>2. 1 \in 1..Len(stack) /\ 1 \in FillsOf(stack) /\ stack[1].overwrite /\ stack[1].key = Top.key
    BY <1>4, <1>5, <1>8 DEF FillsOf
  <2>3. Overwriting(stack, Top.key)
    BY <2>2 DEF Overwriting
  <2>4. call.why = "rollback"
    <3>1. /\ \A i, k \in 1..Len(stack) : i < k /\ stack[i].overwrite => stack[k].overwrite
          /\ stack[Len(stack)].overwrite <=> call.why = "rollback"
      BY <1>2, <1>4 DEF InvParts, FramesIn
    <3>2. PICK n \in Nat : n = Len(stack)
      BY <1>4
    <3>3. n >= 1
      BY <2>2, <3>2
    <3>4. stack[n].overwrite
      BY <2>2, <3>1, <3>2, <3>3
    <3>5. QED
      BY <3>1, <3>2, <3>4
  <2>5. Top.key \in ReachIn(program, call.roots, Keys)
    BY <2>3, <2>4, <1>2, <1>4 DEF InvParts, Reading, Held, Reached
  <2>6. Top.inst[1] \in Reach(call'.roots, Keys)
    BY <2>5, <1>1, <1>4, ReachIs
  <2>7. QED
    BY <2>1, <2>4, <2>6, <1>1, <1>6 DEF OnlyInReach
<1>9. QED
  BY <1>7, <1>8

LEMMA ReturnDiscards ==
    ASSUME IInv, CallReturns
    PROVE  AllInReach
<1>1. stack = <<>> /\ call.queue = <<>>
  BY DEF CallReturns
<1>2. SUFFICES ASSUME call.why = "rollback", NEW o \in cache.modified
               PROVE  o[1] \notin Reach(call.roots, call.known)
  BY DEF AllInReach
<1>3. InvParts /\ Reading(program, cache, obj, given, broken, <<>>, call)
  BY <1>1, Parts DEF InvParts
<1>4. PICK V \in SUBSET Keys : VisitedRows(program, cache, <<>>, call, V)
  BY <1>2, <1>3 DEF Reading, Visited
<1>5. \A k : ~Overwriting(<<>>, k) /\ ~Waiting(<<>>, k)
  BY NothingIsRead DEF NoReads
<1>6. \A k : ~Rereading(<<>>, call, k)
  BY <1>1, <1>5 DEF Rereading
<1>7. /\ \A k \in V : ListedRows(program, k) \cap call.known \subseteq V
                      /\ Get(cache, k) \notin cache.modified
      /\ call.roots \cap call.known \subseteq V
  BY <1>4, <1>5, <1>6 DEF VisitedRows
<1>8. ReachIn(program, call.roots, call.known) \subseteq V
  BY <1>7 DEF ReachIn
<1>9. Get(cache, o[1]) = o
  BY <1>3 DEF InvParts, IdentityIn, Caches
<1>10. QED
  BY <1>7, <1>8, <1>9, ReachIs

LEMMA StepDiscards ==
    ASSUME IInv, [Next]_vars
    PROVE  OnlyInReach /\ AllInReach
<1>1. KeepsMarks => OnlyInReach
  BY DEF KeepsMarks, OnlyInReach
<1>2. CallGoesOn => AllInReach
  BY DEF CallGoesOn, AllInReach, NoCall
<1>3. QED
  BY <1>1, <1>2, MarksStay, RollbackDiscards, FillDiscards, ReturnDiscards

-----------------------------------------------------------------------------
(* The theorems.                                                           *)

\* Whatever is read, changed, fails or is rolled back, the state keeps its types, and
\* no read recurses deeper than MaxStack
\* (qormsqliteprovider.cpp:210-412, 916-977).
THEOREM TypeCorrect == Spec => []TypeOK
<1>1. IInv => TypeOK
  BY IInvType
<1>2. QED
  BY <1>1, Invariant, PTL

\* The identity map gives for a row the only instance there is of it, besides those the
\* client was given back
\* (qormsqliteprovider.cpp:218-228, 925, 962-966).
THEOREM OneInstance == Spec => []OneInstancePerRow
<1>1. IInv => OneInstancePerRow
  BY IInvOne
<1>2. QED
  BY <1>1, Invariant, PTL

\* Between the calls the unmodified instances are the graph that the tables describe
\* (qormsqliteprovider.cpp:210-412, 916-977).
THEOREM ReadsAgree == Spec => []UnmodifiedAgrees
<1>1. IInv => UnmodifiedAgrees
  BY IInvAgrees
<1>2. QED
  BY <1>1, Invariant, PTL

\* The process ends only for one of four reasons: no row is read endlessly but by a
\* rollback that follows a ring of lists
\* (qormsqliteprovider.cpp:331-337, 371-382, 930-951).
THEOREM DiesForReasons == Spec => []DiesForAReason
<1>1. IInv => DiesForAReason
  BY DEF IInv
<1>2. QED
  BY <1>1, Invariant, PTL

\* A rollback throws away the changes of all it tracks and lists, and of nothing else
\* (qormsqliteprovider.cpp:271-281, 930-958).
THEOREM Discards == Spec => DiscardsInReach
<1>1. IInv /\ [Next]_vars =>
      [/\ \A o \in cache.modified \ cache'.modified :
              \/ o \in given'
              \/ call'.why = "rollback" /\ o[1] \in Reach(call'.roots, Keys)
       /\ call.why = "rollback" /\ call' = NoCall =>
              \A o \in cache.modified : o[1] \notin Reach(call.roots, call.known)]_vars
  BY StepDiscards DEF OnlyInReach, AllInReach
<1>2. QED
  BY <1>1, Invariant, PTL DEF Spec, DiscardsInReach
=============================================================================
