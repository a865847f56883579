----------------------- MODULE EntityListModelProofs -----------------------
(***************************************************************************)
(* Theorems about EntityListModel: for any numbers of instances and any    *)
(* filters, what its models show and what lists their instances hold is    *)
(* right, and the process ends only for a reason.                          *)
(***************************************************************************)
EXTENDS EntityListModel, FiniteSetTheorems, FunctionTheorems, TLAPS

-----------------------------------------------------------------------------
(* Rows: for any finite set of rows with different ids, the CHOOSE of      *)
(* Ordered has a value, a sequence of them.                                *)

StrictOrder(R, S) ==
    /\ \A x \in S : <<x, x>> \notin R
    /\ \A x, y \in S : x # y => <<x, y>> \in R \/ <<y, x>> \in R
    /\ \A x, y, z \in S : <<x, y>> \in R /\ <<y, z>> \in R => <<x, z>> \in R

LEMMA SortedExists ==
    ASSUME NEW S, IsFiniteSet(S), NEW R, StrictOrder(R, S)
    PROVE  \E s \in [1..Cardinality(S) -> S] :
               /\ \A j, k \in 1..Cardinality(S) : j < k => <<s[j], s[k]>> \in R
               /\ \A x \in S : \E j \in 1..Cardinality(S) : s[j] = x
<1> DEFINE N == Cardinality(S)
           Upto(x) == {y \in S : y = x \/ <<y, x>> \in R}
           pos == [x \in S |-> Cardinality(Upto(x))]
<1>1. N \in Nat
  BY FS_CardinalityType
<1>2. ASSUME NEW x \in S
      PROVE  IsFiniteSet(Upto(x)) /\ Cardinality(Upto(x)) \in 1..N
  <2>1. Upto(x) \in SUBSET S /\ x \in Upto(x)
    OBVIOUS
  <2>2. IsFiniteSet(Upto(x)) /\ Cardinality(Upto(x)) <= N
    BY <2>1, FS_Subset
  <2>3. Cardinality(Upto(x)) \in Nat /\ Cardinality(Upto(x)) # 0
    BY <2>1, <2>2, FS_CardinalityType, FS_EmptySet
  <2>4. QED
    BY <1>1, <2>2, <2>3
<1>3. ASSUME NEW x \in S, NEW y \in S, <<x, y>> \in R
      PROVE  pos[x] < pos[y]
  <2>1. Upto(x) \in SUBSET Upto(y) /\ y \in Upto(y) /\ y \notin Upto(x)
    BY <1>3 DEF StrictOrder
  <2>2. /\ Cardinality(Upto(x)) <= Cardinality(Upto(y))
        /\ Cardinality(Upto(x)) # Cardinality(Upto(y))
    BY <2>1, <1>2, FS_Subset
  <2> HIDE DEF Upto
  <2>3. Cardinality(Upto(x)) \in Nat /\ Cardinality(Upto(y)) \in Nat
    BY <1>1, <1>2
  <2>4. QED
    BY <2>2, <2>3
<1> HIDE DEF Upto
<1>4. pos \in [S -> 1..N]
  BY <1>2
<1>5. \A x, y \in S : x # y => pos[x] # pos[y]
  <2> HIDE DEF pos
  <2> SUFFICES ASSUME NEW x \in S, NEW y \in S, x # y
               PROVE  pos[x] # pos[y]
    OBVIOUS
  <2>1. pos[x] \in Int /\ pos[y] \in Int
    BY <1>1, <1>4
  <2>2. <<x, y>> \in R \/ <<y, x>> \in R
    BY DEF StrictOrder
  <2>3. QED
    BY <1>3, <2>1, <2>2
<1> HIDE DEF pos
<1>6. pos \in Injection(S, 1..N)
  BY <1>4, <1>5 DEF Injection, IsInjective
<1>7. IsFiniteSet(1..N) /\ Cardinality(1..N) = N
  <2> HIDE DEF N
  <2>1. 1 \in Int /\ N \in Int
    BY <1>1
  <2>2. /\ IsFiniteSet(1..N)
        /\ Cardinality(1..N) = IF 1 > N THEN 0 ELSE N - 1 + 1
    BY <2>1, FS_Interval
  <2>3. QED
    BY <1>1, <2>2
<1>8. pos \in Surjection(S, 1..N)
  <2>1. Cardinality(S) = Cardinality(1..N) <=> pos \in Surjection(S, 1..N)
    BY <1>6, <1>7, FS_Injection
  <2>2. QED
    BY <1>7, <2>1
<1> HIDE DEF N
<1>9. \A j \in 1..N : \E x \in S : pos[x] = j
  BY <1>8 DEF Surjection
<1> DEFINE s == [j \in 1..N |-> CHOOSE x \in S : pos[x] = j]
<1>10. \A j \in 1..N : s[j] \in S /\ pos[s[j]] = j
  BY <1>9
<1>11. s \in [1..N -> S]
  BY <1>10
<1> HIDE DEF s
<1>12. \A j, k \in 1..N : j < k => <<s[j], s[k]>> \in R
  <2> SUFFICES ASSUME NEW j \in 1..N, NEW k \in 1..N, j < k
               PROVE  <<s[j], s[k]>> \in R
    OBVIOUS
  <2>1. s[j] \in S /\ s[k] \in S /\ pos[s[j]] = j /\ pos[s[k]] = k
    BY <1>10
  <2>2. j \in Nat /\ k \in Nat /\ j # k /\ ~ (k < j)
    BY <1>1
  <2>3. s[j] # s[k]
    BY <2>1, <2>2
  <2>4. <<s[k], s[j]>> \notin R
    BY <2>1, <2>2, <1>3
  <2>5. QED
    BY <2>1, <2>3, <2>4 DEF StrictOrder
<1>13. \A x \in S : \E j \in 1..N : s[j] = x
  BY <1>10, <1>4, <1>5
<1>14. QED
  BY <1>11, <1>12, <1>13 DEF N

\* Rows of different ids are strictly ordered, up and down.
LEMMA ByIdIsStrict ==
    ASSUME NEW S, \A x \in S : x[2] \in Int,
           \A x, y \in S : x # y => x[2] # y[2]
    PROVE  StrictOrder(Ascending(S), S) /\ StrictOrder(Descending(S), S)
<1>1. \A x, y \in S : <<x, y>> \in Ascending(S) <=> x[2] < y[2]
  BY DEF Ascending
<1>2. \A x, y \in S : <<x, y>> \in Descending(S) <=> x[2] > y[2]
  BY DEF Descending
<1>3. StrictOrder(Ascending(S), S)
  BY <1>1 DEF StrictOrder
<1>4. StrictOrder(Descending(S), S)
  BY <1>2 DEF StrictOrder
<1>5. QED
  BY <1>3, <1>4

\* What Ordered returns.
LEMMA OrderedIsSorted ==
    ASSUME NEW S, IsFiniteSet(S), NEW R, StrictOrder(R, S)
    PROVE  /\ Ordered(S, R) \in [1..Cardinality(S) -> S]
           /\ \A j, k \in 1..Cardinality(S) :
                  j < k => <<Ordered(S, R)[j], Ordered(S, R)[k]>> \in R
<1> DEFINE N == Cardinality(S)
           Sorted(s) == \A j, k \in 1..N : j < k => <<s[j], s[k]>> \in R
<1>1. \E s \in [1..N -> S] : Sorted(s)
  BY SortedExists
<1>2. Ordered(S, R) = CHOOSE s \in [1..N -> S] : Sorted(s)
  BY DEF Ordered
<1> HIDE DEF N, Sorted
<1>3. Ordered(S, R) \in [1..N -> S] /\ Sorted(Ordered(S, R))
  BY <1>1, <1>2
<1>4. QED
  BY <1>3 DEF N, Sorted

\* It is a sequence of rows.
LEMMA OrderedIsSeq ==
    ASSUME NEW S, IsFiniteSet(S), NEW R, StrictOrder(R, S)
    PROVE  Ordered(S, R) \in Seq(S) /\ Len(Ordered(S, R)) = Cardinality(S)
<1>1. Cardinality(S) \in Nat
  BY FS_CardinalityType
<1>2. Ordered(S, R) \in [1..Cardinality(S) -> S]
  BY OrderedIsSorted
<1>3. QED
  BY <1>1, <1>2

-----------------------------------------------------------------------------
(* The inductive invariant.                                                *)

SessionTypes ==
    /\ inst \in [Objects -> Instance]
    /\ rows \in [Objects -> Provinces \cup {NoInstance, NoRow}]
    /\ cache \in Caches
    /\ tracked \in Objects \cup {NoInstance}
ModelTypes ==
    /\ data \in [Models -> Seq(Objects)] /\ told \in [Models -> Seq(Objects)]
    /\ filter \in Provinces \cup {NoInstance} /\ order \in {"ascending", "descending"}
    /\ behind \subseteq Models /\ silent \subseteq Models
Types ==
    /\ SessionTypes /\ ModelTypes
    /\ unsaved \subseteq Objects /\ loose \subseteq Communities
    /\ pending \in Models \cup {"none"}
    /\ fatal \in {"no", "crossReference", "deletedInstance", "nullReference", "outOfRange",
                  "notShown", "unsynchronized", "readFailed"}
    /\ events \in 0..MaxEvents

\* Of the instances i, the rows r and the cache c: what is there has a row, is cached
\* and listened to.
PresentIn(i, r, c, S) ==
    \A o \in S :
        /\ i[o].life = "alive" <=> r[o] # NoRow
        /\ i[o].life = "alive" => Contains(c, o) /\ o \in c.connected

\* A province references nothing, a community lists nothing.
RolesIn(i, r) ==
    /\ \A p \in Provinces : i[p].province = NoInstance /\ r[p] \in {NoInstance, NoRow}
    /\ \A m \in Communities : i[m].list = {}

\* What is referenced, in memory or in the table, is there.
ReferencedIn(i, r) ==
    \A m \in Communities :
        /\ i[m].life = "alive" /\ i[m].province # NoInstance =>
               i[i[m].province].life = "alive"
        /\ r[m] \in Provinces => i[r[m]].life = "alive"

\* The province lists the community if that is there and references it.
AgreesAt(i, m, p) ==
    i[p].life = "alive" => (m \in i[p].list <=> i[m].life = "alive" /\ i[m].province = p)
ListsIn(i, S) == \A m \in S, p \in Provinces : AgreesAt(i, m, p)

GraphIn(i, r, c, S) ==
    PresentIn(i, r, c, Objects) /\ RolesIn(i, r) /\ ReferencedIn(i, r) /\ ListsIn(i, S)
Graph == GraphIn(inst, rows, cache, Communities \ loose)

\* Whatever is marked, the client has changed.
Marked == cache.modified \subseteq unsaved

\* A model is current, but for the one that is about to read.
CurrentModel(m) ==
    /\ \A k \in 1..Len(data[m]) : Alive(data[m][k])
    /\ m \notin behind => data[m] = Selected(m, FilterOf(m), OrderOf(m))
    /\ m \notin silent => told[m] = data[m]
Current ==
    \A m \in Models :
        /\ \A k \in 1..Len(data[m]) : data[m][k][1] = m
        /\ pending # m => CurrentModel(m)

IInv == Types /\ (fatal = "no" => Graph /\ Marked /\ Current)
-----------------------------------------------------------------------------
(* Objects, and the rows a model selects.                                  *)

LEMMA ObjectForm ==
    /\ \A o \in Objects : /\ o[1] \in Models /\ o[2] \in 1..MaxInstances[o[1]]
                          /\ o = <<o[1], o[2]>>
    /\ \A m \in Models : \A n \in 1..MaxInstances[m] : <<m, n>> \in Objects
BY DEF Objects

LEMMA Classes ==
    /\ Provinces \subseteq Objects /\ Communities \subseteq Objects
    /\ Provinces \cap Communities = {} /\ Objects = Provinces \cup Communities
    /\ \A p \in Provinces : p[1] = "province"
    /\ \A c \in Communities : c[1] = "community"
BY ObjectForm DEF Provinces, Communities, Models

LEMMA None ==
    /\ NoInstance \notin Objects /\ NoRow \notin Objects /\ NoRow # NoInstance
    /\ NoKey \notin Objects
    /\ NoInstance \notin Provinces /\ NoRow \notin Provinces
    /\ NoInstance \notin Communities /\ NoRow \notin Communities
BY NoneAssumption, Classes

\* Any rows of a class have an order, up or down.
LEMMA InOrderIsSeq ==
    ASSUME NEW m \in Models, NEW S \in SUBSET {r \in Objects : r[1] = m}, NEW o
    PROVE  /\ InOrder(S, o) \in Seq(S)
           /\ \A k \in 1..Len(InOrder(S, o)) : InOrder(S, o)[k] \in S
<1> DEFINE N == MaxInstances[m]
           All == {m} \X (1..N)
<1>1. N \in Nat
  BY InstanceAssumption
<1>2. IsFiniteSet(1..N)
  <2> HIDE DEF N
  <2>1. 1 \in Int /\ N \in Int
    BY <1>1
  <2>2. QED
    BY <2>1, FS_Interval
<1>3. IsFiniteSet({m})
  BY FS_Singleton
<1>4. IsFiniteSet(All)
  BY <1>2, <1>3, FS_Product
<1>5. S \in SUBSET All
  BY ObjectForm
<1>6. IsFiniteSet(S)
  BY <1>4, <1>5, FS_Subset
<1>7. /\ \A x \in S : x[2] \in Int
      /\ \A x, y \in S : x # y => x[2] # y[2]
  BY <1>1, <1>5
<1>8. StrictOrder(Ascending(S), S) /\ StrictOrder(Descending(S), S)
  BY <1>7, ByIdIsStrict
<1>9. CASE o = "ascending"
  <2>1. InOrder(S, o) = Ordered(S, Ascending(S))
    BY <1>9 DEF InOrder
  <2>2. InOrder(S, o) \in Seq(S)
    BY <1>6, <1>8, <2>1, OrderedIsSeq
  <2>3. QED
    BY <2>2
<1>10. CASE o # "ascending"
  <2>1. InOrder(S, o) = Ordered(S, Descending(S))
    BY <1>10 DEF InOrder
  <2>2. InOrder(S, o) \in Seq(S)
    BY <1>6, <1>8, <2>1, OrderedIsSeq
  <2>3. QED
    BY <2>2
<1>11. QED
  BY <1>9, <1>10

LEMMA SelectedRows ==
    ASSUME NEW m \in Models, NEW f, NEW o
    PROVE  /\ Selected(m, f, o) \in Seq(Objects)
           /\ \A k \in 1..Len(Selected(m, f, o)) :
                  /\ Selected(m, f, o)[k] \in Objects /\ Selected(m, f, o)[k][1] = m
                  /\ rows[Selected(m, f, o)[k]] # NoRow
<1> DEFINE found == {r \in Objects : /\ r[1] = m /\ rows[r] # NoRow
                                     /\ f # NoInstance => rows[r] = f}
<1>1. Selected(m, f, o) = InOrder(found, o)
  BY DEF Selected
<1>2. found \in SUBSET {r \in Objects : r[1] = m}
  OBVIOUS
<1>3. /\ InOrder(found, o) \in Seq(found)
      /\ \A k \in 1..Len(InOrder(found, o)) : InOrder(found, o)[k] \in found
  BY <1>2, InOrderIsSeq
<1>4. found \subseteq Objects
  OBVIOUS
<1>5. InOrder(found, o) \in Seq(Objects)
  BY <1>3, <1>4
<1>6. QED
  BY <1>1, <1>3, <1>5

-----------------------------------------------------------------------------
(* The cache.                                                              *)

LEMMA InsertFinalize ==
    ASSUME NEW c \in Caches, NEW o \in Objects
    PROVE  LET d == Finalize(Insert(c, o, o), o)
           IN  /\ d \in Caches /\ d.modified = c.modified
               /\ d.connected = c.connected \cup {o}
               /\ \A x \in Objects : Contains(d, x) <=> Contains(c, x) \/ x = o
BY None DEF Caches, Insert, Finalize, Contains

LEMMA NotifyEffect ==
    ASSUME NEW c \in Caches, NEW o \in Objects
    PROVE  /\ Notify(c, o) \in Caches /\ Notify(c, o).ids = c.ids
           /\ Notify(c, o).connected = c.connected
           /\ Notify(c, o).modified = IF o \in c.connected THEN c.modified \cup {o}
                                                            ELSE c.modified
BY DEF Caches, Notify

LEMMA TakeForget ==
    ASSUME NEW c \in Caches, NEW o \in Objects
    PROVE  LET d == Forget(Take(c, o), o)
           IN  /\ d \in Caches /\ d.modified = c.modified \ {o}
               /\ d.connected = c.connected \ {o}
               /\ \A x \in Objects \ {o} : Contains(d, x) <=> Contains(c, x)
BY None DEF Caches, Take, Forget, Contains

LEMMA Unmark ==
    ASSUME NEW c \in Caches, NEW S
    PROVE  LET d == [c EXCEPT !.modified = @ \ S]
           IN  /\ d \in Caches /\ d.modified = c.modified \ S
               /\ d.connected = c.connected /\ d.ids = c.ids
BY DEF Caches

-----------------------------------------------------------------------------
(* What a call of the session does to the graph of the instances.          *)

\* An agreement is about the instances that are there.
LEMMA AgreesIn ==
    ASSUME NEW m \in Communities
    PROVE  /\ Agrees(m) <=> \A p \in Provinces : AgreesAt(inst, m, p)
           /\ Agrees(m)' <=> \A p \in Provinces : AgreesAt(inst', m, p)
BY DEF Agrees, Alive, AgreesAt

\* What Because() keeps as loose covers whatever disagrees.
LEMMA LooseCovers ==
    ASSUME NEW changed, NEW unlisted \in SUBSET Communities, Because(changed, unlisted),
           loose \subseteq Communities, inst' \in [Objects -> Instance],
           ListsIn(inst', Communities \ (loose \cup unlisted))
    PROVE  loose' \subseteq Communities /\ ListsIn(inst', Communities \ loose')
<1>1. loose' = {m \in loose \cup unlisted : ~Agrees(m)'}
  BY DEF Because
<1>2. \A m \in Communities : Agrees(m)' => \A p \in Provinces : AgreesAt(inst', m, p)
  BY AgreesIn
<1>3. \A m \in Communities \ loose' :
          m \notin loose \cup unlisted \/ Agrees(m)'
  BY <1>1
<1>4. loose' \subseteq Communities
  BY <1>1
<1> HIDE DEF AgreesAt
<1>5. ListsIn(inst', Communities \ loose')
  BY <1>2, <1>3 DEF ListsIn
<1>6. QED
  BY <1>4, <1>5

\* A merge that succeeds writes what the instances are.
LEMMA MergeFacts ==
    ASSUME NEW i, NEW c \in Caches, NEW o \in Objects, MergeSucceeds(i, c, o)
    PROVE  /\ rows' = [w \in Objects |-> IF w \in Merged(i, c, o) THEN i[w].province
                                                                  ELSE rows[w]]
           /\ cache' \in Caches
           /\ \A x \in Objects : Contains(cache', x) <=> Contains(c, x) \/ x = o
           /\ cache'.connected = c.connected \cup {o}
           /\ cache'.modified = c.modified \ Merged(i, c, o)
           /\ inst' = i /\ tracked' = o
<1> DEFINE d == Finalize(Insert(c, o, o), o)
<1>1. /\ d \in Caches /\ d.modified = c.modified /\ d.connected = c.connected \cup {o}
      /\ \A x \in Objects : Contains(d, x) <=> Contains(c, x) \/ x = o
  BY InsertFinalize
<1>2. cache' = [d EXCEPT !.modified = @ \ Merged(i, c, o)]
  BY DEF MergeSucceeds
<1> HIDE DEF d
<1>3. /\ cache' \in Caches /\ cache'.modified = d.modified \ Merged(i, c, o)
      /\ cache'.connected = d.connected /\ cache'.ids = d.ids
  BY <1>1, <1>2, Unmark
<1>4. \A x \in Objects : Contains(cache', x) <=> Contains(d, x)
  BY <1>3 DEF Contains
<1>5. QED
  BY <1>1, <1>3, <1>4 DEF MergeSucceeds

\* The merged instances are there.
LEMMA MergedThere ==
    ASSUME NEW i, NEW c, NEW o \in Objects, NEW r, RolesIn(i, r), ReferencedIn(i, r),
           i \in [Objects -> Instance], i[o].life = "alive"
    PROVE  \A w \in Merged(i, c, o) : w \in Objects /\ i[w].life = "alive"
<1> SUFFICES ASSUME NEW w \in Merged(i, c, o), w # o
             PROVE  w \in Objects /\ i[w].life = "alive"
  BY DEF Merged
<1>1. w = i[o].province /\ w # NoInstance
  BY DEF Merged
<1>2. o \in Communities
  BY <1>1, Classes DEF RolesIn
<1>3. i[o].province \in Provinces
  BY <1>1 DEF Instance
<1>4. QED
  BY <1>1, <1>2, <1>3, Classes DEF ReferencedIn

LEMMA MergeGraph ==
    ASSUME NEW i \in [Objects -> Instance], NEW c \in Caches, NEW o \in Objects,
           rows \in [Objects -> Provinces \cup {NoInstance, NoRow}],
           PresentIn(i, rows, c, Objects \ {o}), i[o].life = "alive",
           RolesIn(i, rows), ReferencedIn(i, rows),
           MergeSucceeds(i, c, o)
    PROVE  /\ PresentIn(inst', rows', cache', Objects) /\ RolesIn(inst', rows')
           /\ ReferencedIn(inst', rows')
           /\ rows' \in [Objects -> Provinces \cup {NoInstance, NoRow}]
<1>1. /\ rows' = [w \in Objects |-> IF w \in Merged(i, c, o) THEN i[w].province ELSE rows[w]]
      /\ \A x \in Objects : Contains(cache', x) <=> Contains(c, x) \/ x = o
      /\ cache'.connected = c.connected \cup {o}
      /\ inst' = i
  BY MergeFacts
<1>2. \A w \in Merged(i, c, o) : w \in Objects /\ i[w].life = "alive"
  BY MergedThere
<1>3. \A w \in Objects : i[w].province \in Provinces \cup {NoInstance}
  BY DEF Instance
<1>4. o \in Merged(i, c, o)
  BY DEF Merged
<1> DEFINE M == Merged(i, c, o)
<1> HIDE DEF M
<1>5. rows' \in [Objects -> Provinces \cup {NoInstance, NoRow}]
  BY <1>1, <1>3 DEF M
<1>6. PresentIn(i, rows', cache', Objects)
  <2> SUFFICES ASSUME NEW x \in Objects
               PROVE  /\ i[x].life = "alive" <=> rows'[x] # NoRow
                      /\ i[x].life = "alive" => Contains(cache', x) /\ x \in cache'.connected
    BY DEF PresentIn
  <2>1. x # o => /\ i[x].life = "alive" <=> rows[x] # NoRow
                 /\ i[x].life = "alive" => Contains(c, x) /\ x \in c.connected
    BY DEF PresentIn
  <2>2. i[x].life = "alive" => Contains(cache', x) /\ x \in cache'.connected
    BY <1>1, <2>1
  <2>3. rows'[x] = IF x \in M THEN i[x].province ELSE rows[x]
    BY <1>1 DEF M
  <2>4. i[x].province # NoRow
    BY <1>3, None
  <2>5. x \in M => i[x].life = "alive"
    BY <1>2 DEF M
  <2>6. x \notin M => x # o
    BY <1>4 DEF M
  <2>7. QED
    BY <2>1, <2>2, <2>3, <2>4, <2>5, <2>6
<1>7. RolesIn(i, rows')
  <2>1. \A p \in Provinces : i[p].province = NoInstance /\ rows[p] \in {NoInstance, NoRow}
    BY DEF RolesIn
  <2>2. \A p \in Provinces : rows'[p] \in {NoInstance, NoRow}
    BY <1>1, <2>1, Classes
  <2>3. QED
    BY <2>1, <2>2 DEF RolesIn
<1>8. ReferencedIn(i, rows')
  <2> SUFFICES ASSUME NEW m \in Communities, rows'[m] \in Provinces
               PROVE  i[rows'[m]].life = "alive"
    BY DEF ReferencedIn
  <2>1. CASE m \in M
    <3>1. i[m].life = "alive" /\ rows'[m] = i[m].province
      BY <1>1, <1>2, <2>1, Classes DEF M
    <3>2. QED
      BY <3>1, None DEF ReferencedIn
  <2>2. CASE m \notin M
    BY <1>1, <2>2, Classes DEF ReferencedIn, M
  <2>3. QED
    BY <2>1, <2>2
<1>9. QED
  BY <1>1, <1>5, <1>6, <1>7, <1>8

\* A rollback reads some instances again, each with its list.
LEMMA RollbackFacts ==
    ASSUME NEW i, NEW c \in Caches, NEW os, RollsBack(i, c, os)
    PROVE  \E again \in SUBSET Objects :
               /\ \A o \in again : rows[o] # NoRow
               /\ \A o \in os \cap Objects : rows[o] # NoRow => o \in again
               /\ inst' = [o \in Objects |-> IF o \in again THEN FromRow(i, o) ELSE i[o]]
               /\ cache' \in Caches /\ cache'.modified = c.modified \ again
               /\ cache'.connected = c.connected /\ cache'.ids = c.ids
               /\ rows' = rows /\ tracked' = NoInstance
<1> DEFINE again == ReadAgain((os \cup {tracked}) \ {NoInstance})
<1>1. /\ again \in SUBSET Objects /\ \A o \in again : rows[o] # NoRow
      /\ \A o \in os \cap Objects : rows[o] # NoRow => o \in again
  BY None DEF ReadAgain
<1>2. /\ inst' = [o \in Objects |-> IF o \in again THEN FromRow(i, o) ELSE i[o]]
      /\ cache' = [c EXCEPT !.modified = @ \ again]
      /\ rows' = rows /\ tracked' = NoInstance
  BY DEF RollsBack
<1> HIDE DEF again
<1>3. /\ cache' \in Caches /\ cache'.modified = c.modified \ again
      /\ cache'.connected = c.connected /\ cache'.ids = c.ids
  BY <1>2, Unmark
<1>4. QED
  BY <1>1, <1>2, <1>3

LEMMA FromRowFacts ==
    ASSUME NEW i \in [Objects -> Instance], NEW o \in Objects, rows[o] # NoRow,
           rows \in [Objects -> Provinces \cup {NoInstance, NoRow}]
    PROVE  /\ FromRow(i, o) \in Instance /\ FromRow(i, o).life = i[o].life
           /\ FromRow(i, o).province = IF rows[o] = NoInstance THEN i[o].province ELSE rows[o]
           /\ FromRow(i, o).list = {m \in Communities : rows[m] = o}
BY DEF FromRow, Instance

LEMMA RollbackGraph ==
    ASSUME NEW i \in [Objects -> Instance], NEW c \in Caches, NEW os, NEW S \in SUBSET Communities,
           rows \in [Objects -> Provinces \cup {NoInstance, NoRow}],
           PresentIn(i, rows, c, Objects), RolesIn(i, rows), ReferencedIn(i, rows),
           \A o \in Objects : rows[o] # NoRow => i[o].province = inst[o].province,
           \A m \in S, p \in Provinces :
               ~(p \in os /\ rows[p] # NoRow) => AgreesAt(i, m, p),
           RollsBack(i, c, os)
    PROVE  /\ inst' \in [Objects -> Instance]
           /\ \A o \in Objects : inst'[o].life = i[o].life
           /\ PresentIn(inst', rows', cache', Objects) /\ RolesIn(inst', rows')
           /\ ReferencedIn(inst', rows') /\ ListsIn(inst', S \ Moved)
           /\ cache' \in Caches /\ cache'.modified \subseteq c.modified
           /\ \A o \in os \cap Objects : rows[o] # NoRow => o \notin cache'.modified
           /\ rows' = rows /\ tracked' = NoInstance
<1>1. PICK again \in SUBSET Objects :
               /\ \A o \in again : rows[o] # NoRow
               /\ \A o \in os \cap Objects : rows[o] # NoRow => o \in again
               /\ inst' = [o \in Objects |-> IF o \in again THEN FromRow(i, o) ELSE i[o]]
               /\ cache' \in Caches /\ cache'.modified = c.modified \ again
               /\ cache'.connected = c.connected /\ cache'.ids = c.ids
               /\ rows' = rows /\ tracked' = NoInstance
  BY RollbackFacts
<1>2. \A o \in again : /\ inst'[o] \in Instance /\ inst'[o].life = i[o].life
                       /\ inst'[o].province = IF rows[o] = NoInstance THEN i[o].province
                                                                      ELSE rows[o]
                       /\ inst'[o].list = {m \in Communities : rows[m] = o}
  BY <1>1, FromRowFacts
<1>3. \A o \in Objects \ again : inst'[o] = i[o]
  BY <1>1
<1>4. inst' \in [Objects -> Instance]
  <2>1. \A o \in Objects : inst'[o] \in Instance
    BY <1>2, <1>3
  <2>2. inst' = [o \in Objects |-> inst'[o]]
    BY <1>1
  <2>3. QED
    BY <2>1, <2>2
<1>5. \A o \in Objects : inst'[o].life = i[o].life
  BY <1>2, <1>3
<1>6. PresentIn(inst', rows', cache', Objects)
  BY <1>1, <1>5 DEF PresentIn, Contains
<1>7. RolesIn(inst', rows')
  <2>1. \A p \in Provinces : inst'[p].province = NoInstance
    BY <1>1, <1>2, <1>3, Classes, None DEF RolesIn
  <2>2. \A m \in Communities : \A n \in Communities : rows[n] # m
    BY Classes, None
  <2>3. \A m \in Communities : inst'[m].list = {}
    BY <1>2, <1>3, <2>2, Classes DEF RolesIn
  <2>4. QED
    BY <1>1, <2>1, <2>3 DEF RolesIn
<1>8. ReferencedIn(inst', rows')
  <2> SUFFICES ASSUME NEW m \in Communities
               PROVE  /\ inst'[m].life = "alive" /\ inst'[m].province # NoInstance =>
                             inst'[inst'[m].province].life = "alive"
                      /\ rows[m] \in Provinces => inst'[rows[m]].life = "alive"
    BY <1>1 DEF ReferencedIn
  <2>1. rows[m] \in Provinces => inst'[rows[m]].life = "alive"
    BY <1>5, Classes DEF ReferencedIn
  <2>2. ASSUME inst'[m].life = "alive", inst'[m].province # NoInstance
        PROVE  inst'[inst'[m].province].life = "alive"
    <3>1. i[m].life = "alive" /\ inst'[m].province \in Provinces
      BY <1>4, <1>5, <2>2, Classes DEF Instance
    <3>2. CASE m \in again /\ rows[m] # NoInstance
      <4>1. inst'[m].province = rows[m]
        BY <1>2, <3>2
      <4>2. QED
        BY <2>1, <3>1, <4>1
    <3>3. CASE ~(m \in again /\ rows[m] # NoInstance)
      <4>1. inst'[m].province = i[m].province
        BY <1>2, <1>3, <3>3, Classes
      <4>2. QED
        BY <1>5, <2>2, <3>1, <4>1, Classes DEF ReferencedIn
    <3>4. QED
      BY <3>2, <3>3
  <2>3. QED
    BY <2>1, <2>2
<1>9. ListsIn(inst', S \ Moved)
  <2> SUFFICES ASSUME NEW m \in S \ Moved, NEW p \in Provinces, i[p].life = "alive"
               PROVE  m \in inst'[p].list <=> i[m].life = "alive" /\ inst'[m].province = p
    BY <1>5, Classes DEF ListsIn, AgreesAt
  <2>1. m \in Objects /\ m \in Communities /\ p \in Objects
    BY Classes
  <2>2. i[m].life = "alive" <=> rows[m] # NoRow
    BY <2>1 DEF PresentIn
  <2>3. rows[m] # NoRow => rows[m] = i[m].province
    BY <2>1 DEF Moved
  <2>4. rows[m] # NoRow => inst'[m].province = rows[m]
    BY <1>2, <1>3, <2>1, <2>3
  <2>5. CASE p \in again
    <3>1. m \in inst'[p].list <=> rows[m] = p
      BY <1>2, <2>1, <2>5
    <3>2. p # NoRow
      BY None
    <3>3. QED
      BY <2>2, <2>4, <3>1, <3>2
  <2>6. CASE p \notin again
    <3>1. AgreesAt(i, m, p)
      BY <1>1, <2>1, <2>6
    <3>2. inst'[p] = i[p]
      BY <1>3, <2>1, <2>6
    <3>3. QED
      BY <2>2, <2>3, <2>4, <3>1, <3>2 DEF AgreesAt
  <2>7. QED
    BY <2>5, <2>6
<1>10. QED
  BY <1>1, <1>4, <1>5, <1>6, <1>7, <1>8, <1>9

-----------------------------------------------------------------------------
(* The calls, one by one.                                                  *)

LEMMA Relisted ==
    ASSUME NEW r \in Instance, NEW l \in SUBSET Communities
    PROVE  LET d == [r EXCEPT !.list = l]
           IN  /\ d \in Instance /\ d.list = l
               /\ d.life = r.life /\ d.province = r.province
BY DEF Instance

\* What is to be shown of a call that lives: the rest of the state is a matter of types.
Good == SessionTypes /\ Graph /\ Marked /\ unsaved \subseteq Objects /\ loose \subseteq Communities

LEMMA HistoryGood ==
    ASSUME Good, NEW changed \in SUBSET Objects, NEW unlisted \in SUBSET Communities,
           Because(changed, unlisted), SessionTypes',
           cache'.modified \subseteq cache.modified \cup changed,
           PresentIn(inst', rows', cache', Objects), RolesIn(inst', rows'),
           ReferencedIn(inst', rows'), ListsIn(inst', Communities \ (loose \cup unlisted))
    PROVE  Good'
<1>1. loose' \subseteq Communities /\ ListsIn(inst', Communities \ loose')
  BY LooseCovers DEF Good, SessionTypes
<1>2. unsaved' \subseteq Objects /\ cache'.modified \subseteq unsaved'
  BY DEF Because, Good, Marked
<1>3. Graph'
  BY <1>1 DEF Graph, GraphIn
<1>4. QED
  BY <1>1, <1>2, <1>3 DEF Good, Marked

LEMMA EditGood ==
    ASSUME Good, NEW o \in Objects, Edit(o)
    PROVE  Good'
<1>1. /\ cache' = Notify(cache, o) /\ inst' = inst /\ rows' = rows /\ tracked' = tracked
      /\ Because({o}, {})
  BY DEF Edit
<1>2. /\ cache' \in Caches /\ cache'.ids = cache.ids /\ cache'.connected = cache.connected
      /\ cache'.modified \subseteq cache.modified \cup {o}
  BY <1>1, NotifyEffect DEF Good, SessionTypes
<1>3. SessionTypes'
  BY <1>1, <1>2 DEF Good, SessionTypes
<1>4. /\ PresentIn(inst', rows', cache', Objects) /\ RolesIn(inst', rows')
      /\ ReferencedIn(inst', rows') /\ ListsIn(inst', Communities \ (loose \cup {}))
  BY <1>1, <1>2 DEF Good, Graph, GraphIn, PresentIn, Contains
<1>5. QED
  BY <1>1, <1>2, <1>3, <1>4, HistoryGood

LEMMA SetProvinceGood ==
    ASSUME Good, NEW m \in Communities, NEW p \in Provinces, SetProvince(m, p)
    PROVE  Good'
<1>1. /\ cache' = Notify(cache, m) /\ rows' = rows /\ tracked' = tracked
      /\ inst' = [inst EXCEPT ![m].province = p]
      /\ Because({m}, {m}) /\ inst[p].life = "alive"
  BY DEF SetProvince, Alive
<1>2. m \in Objects /\ p \in Objects /\ m \notin Provinces
  BY Classes
<1>3. /\ cache' \in Caches /\ cache'.ids = cache.ids /\ cache'.connected = cache.connected
      /\ cache'.modified \subseteq cache.modified \cup {m}
  BY <1>1, <1>2, NotifyEffect DEF Good, SessionTypes
<1>4. /\ inst' \in [Objects -> Instance]
      /\ \A x \in Objects : inst'[x].life = inst[x].life /\ inst'[x].list = inst[x].list
      /\ \A x \in Objects : inst'[x].province = IF x = m THEN p ELSE inst[x].province
  BY <1>1, <1>2 DEF Good, SessionTypes, Instance
<1>5. SessionTypes'
  BY <1>1, <1>3, <1>4 DEF Good, SessionTypes
<1>6. PresentIn(inst', rows', cache', Objects)
  BY <1>1, <1>3, <1>4 DEF Good, Graph, GraphIn, PresentIn, Contains
<1>7. RolesIn(inst', rows')
  BY <1>1, <1>2, <1>4, Classes DEF Good, Graph, GraphIn, RolesIn
<1>8. ReferencedIn(inst', rows')
  <2> SUFFICES ASSUME NEW n \in Communities
               PROVE  /\ inst'[n].life = "alive" /\ inst'[n].province # NoInstance =>
                             inst'[inst'[n].province].life = "alive"
                      /\ rows[n] \in Provinces => inst'[rows[n]].life = "alive"
    BY <1>1 DEF ReferencedIn
  <2>1. n \in Objects /\ inst[n].province \in Provinces \cup {NoInstance}
    BY Classes DEF Good, SessionTypes, Instance
  <2>2. /\ inst[n].life = "alive" /\ inst[n].province # NoInstance =>
               inst[inst[n].province].life = "alive"
        /\ rows[n] \in Provinces => inst[rows[n]].life = "alive"
    BY DEF Good, Graph, GraphIn, ReferencedIn
  <2>3. QED
    BY <1>1, <1>2, <1>4, <2>1, <2>2, Classes
<1>9. ListsIn(inst', Communities \ (loose \cup {m}))
  <2> SUFFICES ASSUME NEW n \in Communities \ (loose \cup {m}), NEW q \in Provinces
               PROVE  AgreesAt(inst', n, q)
    BY DEF ListsIn
  <2>1. AgreesAt(inst, n, q)
    BY DEF Good, Graph, GraphIn, ListsIn
  <2>2. n \in Objects /\ q \in Objects
    BY Classes, SMTT(30)
  <2>3. QED
    BY <1>4, <2>1, <2>2 DEF AgreesAt
<1>10. QED
  BY <1>1, <1>2, <1>3, <1>5, <1>6, <1>7, <1>8, <1>9, HistoryGood

LEMMA MoveGood ==
    ASSUME Good, NEW m \in Communities, NEW p \in Provinces, Move(m, p)
    PROVE  Good'
<1>1. PICK from \in Provinces \ {p} :
          /\ from = inst[m].province
          /\ inst' = [inst EXCEPT ![m].province = p, ![from].list = @ \ {m},
                                  ![p].list = @ \cup {m}]
          /\ cache' = Notify(Notify(Notify(cache, m), from), p)
          /\ Because({m, from, p}, {})
  BY DEF Move
<1>2. /\ inst[m].life = "alive" /\ inst[p].life = "alive"
      /\ rows' = rows /\ tracked' = tracked
  BY DEF Move, Alive
<1>3. m \in Objects /\ p \in Objects /\ from \in Objects /\ m \notin Provinces
  BY Classes
<1>4. /\ cache' \in Caches /\ cache'.ids = cache.ids /\ cache'.connected = cache.connected
      /\ cache'.modified \subseteq cache.modified \cup {m, from, p}
  <2>1. cache \in Caches
    BY DEF Good, SessionTypes
  <2> DEFINE c1 == Notify(cache, m)
             c2 == Notify(c1, from)
  <2>2. /\ c1 \in Caches /\ c1.ids = cache.ids /\ c1.connected = cache.connected
        /\ c1.modified \subseteq cache.modified \cup {m}
    BY <1>3, <2>1, NotifyEffect
  <2> HIDE DEF c1
  <2>3. /\ c2 \in Caches /\ c2.ids = c1.ids /\ c2.connected = c1.connected
        /\ c2.modified \subseteq c1.modified \cup {from}
    BY <1>3, <2>2, NotifyEffect
  <2>4. cache' = Notify(c2, p)
    BY <1>1 DEF c1
  <2> HIDE DEF c2
  <2>5. /\ cache' \in Caches /\ cache'.ids = c2.ids /\ cache'.connected = c2.connected
        /\ cache'.modified \subseteq c2.modified \cup {p}
    BY <1>3, <2>3, <2>4, NotifyEffect
  <2>6. QED
    BY <2>2, <2>3, <2>5
<1>5. /\ inst' \in [Objects -> Instance]
      /\ \A x \in Objects : inst'[x].life = inst[x].life
      /\ \A x \in Objects : inst'[x].province = IF x = m THEN p ELSE inst[x].province
      /\ \A x \in Objects : inst'[x].list = IF x = from THEN inst[x].list \ {m}
                                            ELSE IF x = p THEN inst[x].list \cup {m}
                                            ELSE inst[x].list
  <2>1. inst \in [Objects -> Instance] /\ p \in Provinces /\ m # p /\ m # from
    BY <1>3 DEF Good, SessionTypes
  <2>2. \A x \in Objects :
            inst'[x] = IF x = m THEN [inst[x] EXCEPT !.province = p]
                       ELSE IF x = from THEN [inst[x] EXCEPT !.list = @ \ {m}]
                       ELSE IF x = p THEN [inst[x] EXCEPT !.list = @ \cup {m}]
                       ELSE inst[x]
    BY <1>1, <1>3, <2>1
  <2>3. \A x \in Objects :
            /\ inst'[x] \in Instance /\ inst'[x].life = inst[x].life
            /\ inst'[x].province = IF x = m THEN p ELSE inst[x].province
            /\ inst'[x].list = IF x = from THEN inst[x].list \ {m}
                               ELSE IF x = p THEN inst[x].list \cup {m}
                               ELSE inst[x].list
    <3> SUFFICES ASSUME NEW x \in Objects
                 PROVE  /\ inst'[x] \in Instance /\ inst'[x].life = inst[x].life
                        /\ inst'[x].province = IF x = m THEN p ELSE inst[x].province
                        /\ inst'[x].list = IF x = from THEN inst[x].list \ {m}
                                           ELSE IF x = p THEN inst[x].list \cup {m}
                                           ELSE inst[x].list
      OBVIOUS
    <3>1. inst[x] \in Instance
      BY <2>1
    <3>2. CASE x = m
      BY <2>1, <2>2, <3>1, <3>2 DEF Instance
    <3>3. CASE x = from
      <4>1. inst[x].list \ {m} \in SUBSET Communities
        BY <3>1 DEF Instance
      <4>2. inst'[x] = [inst[x] EXCEPT !.list = inst[x].list \ {m}] /\ x # m
        BY <2>1, <2>2, <3>3
      <4>3. QED
        BY <3>1, <3>3, <4>1, <4>2, Relisted
    <3>4. CASE x = p /\ x # from
      <4>1. inst[x].list \cup {m} \in SUBSET Communities
        BY <3>1 DEF Instance
      <4>2. inst'[x] = [inst[x] EXCEPT !.list = inst[x].list \cup {m}] /\ x # m
        BY <2>1, <2>2, <3>4
      <4>3. QED
        BY <3>1, <3>4, <4>1, <4>2, Relisted
    <3>5. CASE x \notin {m, from, p}
      BY <2>2, <3>1, <3>5
    <3>6. QED
      BY <3>2, <3>3, <3>4, <3>5
  <2>4. inst' = [x \in Objects |-> inst'[x]]
    BY <1>1, <2>1
  <2>5. QED
    BY <2>3, <2>4
<1>6. SessionTypes'
  BY <1>2, <1>4, <1>5 DEF Good, SessionTypes
<1>7. PresentIn(inst', rows', cache', Objects)
  BY <1>2, <1>4, <1>5 DEF Good, Graph, GraphIn, PresentIn, Contains
<1>8. RolesIn(inst', rows')
  BY <1>2, <1>3, <1>5, Classes DEF Good, Graph, GraphIn, RolesIn
<1>9. ReferencedIn(inst', rows')
  <2> SUFFICES ASSUME NEW n \in Communities
               PROVE  /\ inst'[n].life = "alive" /\ inst'[n].province # NoInstance =>
                             inst'[inst'[n].province].life = "alive"
                      /\ rows[n] \in Provinces => inst'[rows[n]].life = "alive"
    BY <1>2 DEF ReferencedIn
  <2>1. n \in Objects /\ inst[n].province \in Provinces \cup {NoInstance}
    BY Classes DEF Good, SessionTypes, Instance
  <2>2. /\ inst[n].life = "alive" /\ inst[n].province # NoInstance =>
               inst[inst[n].province].life = "alive"
        /\ rows[n] \in Provinces => inst[rows[n]].life = "alive"
    BY DEF Good, Graph, GraphIn, ReferencedIn
  <2>3. QED
    BY <1>2, <1>3, <1>5, <2>1, <2>2, Classes
<1>10. ListsIn(inst', Communities \ (loose \cup {}))
  <2> SUFFICES ASSUME NEW n \in Communities \ loose, NEW q \in Provinces
               PROVE  AgreesAt(inst', n, q)
    BY DEF ListsIn
  <2>1. AgreesAt(inst, n, q)
    BY DEF Good, Graph, GraphIn, ListsIn
  <2>2. n \in Objects /\ q \in Objects
    BY Classes
  <2>3. CASE n = m
    <3>1. inst[q].life = "alive" => (m \in inst[q].list <=> q = from)
      BY <1>1, <1>2, <2>1, <2>3 DEF AgreesAt
    <3>2. inst'[q].life = "alive" => (m \in inst'[q].list <=> q = p)
      <4>1. inst'[q].life = inst[q].life /\ from # p
        BY <1>5, <2>2
      <4>2. inst'[q].list = IF q = from THEN inst[q].list \ {m}
                            ELSE IF q = p THEN inst[q].list \cup {m} ELSE inst[q].list
        BY <1>5, <2>2
      <4>3. QED
        BY <3>1, <4>1, <4>2
    <3>3. inst'[m].life = "alive" /\ inst'[m].province = p
      BY <1>2, <1>3, <1>5
    <3>4. QED
      BY <2>3, <3>2, <3>3 DEF AgreesAt
  <2>4. CASE n # m
    BY <1>5, <2>1, <2>2, <2>4 DEF AgreesAt
  <2>5. QED
    BY <2>3, <2>4
<1>11. QED
  <2>1. {m, from, p} \in SUBSET Objects /\ {} \in SUBSET Communities
    BY <1>3
  <2>2. QED
    BY <1>1, <1>4, <1>6, <1>7, <1>8, <1>9, <1>10, <2>1, HistoryGood

LEMMA UpdateGood ==
    ASSUME Good, NEW o \in Objects, Update(o)
    PROVE  Good'
<1>1. MergeSucceeds(inst, cache, o) /\ Because({}, {}) /\ inst[o].life = "alive"
  BY DEF Update, Alive
<1>2. /\ inst \in [Objects -> Instance] /\ cache \in Caches
      /\ rows \in [Objects -> Provinces \cup {NoInstance, NoRow}]
      /\ PresentIn(inst, rows, cache, Objects \ {o})
      /\ RolesIn(inst, rows) /\ ReferencedIn(inst, rows)
      /\ ListsIn(inst, Communities \ loose)
  BY DEF Good, SessionTypes, Graph, GraphIn, PresentIn
<1>3. /\ cache' \in Caches /\ cache'.modified \subseteq cache.modified
      /\ inst' = inst /\ tracked' = o
  BY <1>1, <1>2, MergeFacts
<1>4. /\ PresentIn(inst', rows', cache', Objects) /\ RolesIn(inst', rows')
      /\ ReferencedIn(inst', rows')
      /\ rows' \in [Objects -> Provinces \cup {NoInstance, NoRow}]
  BY <1>1, <1>2, MergeGraph
<1>5. SessionTypes'
  BY <1>2, <1>3, <1>4 DEF SessionTypes
<1>6. ListsIn(inst', Communities \ (loose \cup {}))
  BY <1>2, <1>3
<1>7. QED
  BY <1>1, <1>3, <1>4, <1>5, <1>6, HistoryGood

\* The new instance of create(), listed by its province.
NewIn(i, o, p) ==
    /\ i \in [Objects -> Instance]
    /\ i[o].province = p /\ i[o].list = {} /\ i[o].life = "alive"
    /\ \A x \in Objects \ {o} :
           /\ i[x].life = inst[x].life /\ i[x].province = inst[x].province
           /\ i[x].list = IF x = p THEN inst[x].list \cup {o} ELSE inst[x].list
CanBeNew(o, p) ==
    /\ inst[o].life = "none" /\ p \in Provinces \cup {NoInstance}
    /\ p # NoInstance => o \in Communities /\ Alive(p)

LEMMA WithNewFacts ==
    ASSUME Good, NEW o \in Objects, NEW p, CanBeNew(o, p)
    PROVE  NewIn(WithNew(o, p), o, p)
<1>1. /\ inst \in [Objects -> Instance] /\ p # o
      /\ p # NoInstance => o \in Communities
      /\ p \in Provinces \cup {NoInstance}
  BY None, Classes DEF Good, SessionTypes, CanBeNew, Alive
<1> DEFINE l == Listed(o, p)
           n == [NewInstance("alive") EXCEPT !.province = p]
<1>2. /\ n \in Instance /\ n.life = "alive" /\ n.province = p /\ n.list = {}
  BY <1>1 DEF NewInstance, Instance
<1>3. l = [x \in Objects |-> IF x = p THEN [inst[p] EXCEPT !.list = @ \cup {o}] ELSE inst[x]]
  BY DEF Listed
<1>4. ASSUME NEW x \in Objects
      PROVE  /\ l[x] \in Instance
             /\ l[x].life = inst[x].life /\ l[x].province = inst[x].province
             /\ l[x].list = IF x = p THEN inst[x].list \cup {o} ELSE inst[x].list
  <2>1. inst[x] \in Instance
    BY <1>1
  <2>2. CASE x = p
    <3>1. inst[x].list \cup {o} \in SUBSET Communities
      BY <1>1, <2>1, <2>2, None DEF Instance
    <3>2. l[x] = [inst[x] EXCEPT !.list = inst[x].list \cup {o}]
      BY <1>3, <2>2
    <3>3. QED
      BY <2>1, <2>2, <3>1, <3>2, Relisted
  <2>3. CASE x # p
    BY <1>3, <2>1, <2>3
  <2>4. QED
    BY <2>2, <2>3
<1>5. WithNew(o, p) = [l EXCEPT ![o] = n] /\ l \in [Objects -> Instance]
  BY <1>3, <1>4 DEF WithNew
<1> HIDE DEF l, n
<1>6. /\ WithNew(o, p) \in [Objects -> Instance]
      /\ WithNew(o, p)[o] = n
      /\ \A x \in Objects \ {o} : WithNew(o, p)[x] = l[x]
  BY <1>2, <1>5
<1>7. QED
  BY <1>2, <1>4, <1>6 DEF NewIn

LEMMA ListNotifiedFacts ==
    ASSUME Good, NEW o \in Objects, NEW p, CanBeNew(o, p)
    PROVE  /\ ListNotified(p) \in Caches /\ ListNotified(p).ids = cache.ids
           /\ ListNotified(p).connected = cache.connected
           /\ ListNotified(p).modified \subseteq cache.modified \cup ({p} \cap Provinces)
           /\ p # NoInstance => p \in ListNotified(p).modified /\ rows[p] # NoRow
<1>1. cache \in Caches
  BY DEF Good, SessionTypes
<1>2. CASE p = NoInstance
  BY <1>1, <1>2 DEF ListNotified
<1>3. CASE p # NoInstance
  <2>1. p \in Provinces /\ p \in Objects /\ ListNotified(p) = Notify(cache, p)
    BY <1>3, Classes DEF CanBeNew, ListNotified
  <2>2. p \in cache.connected /\ rows[p] # NoRow
    BY <1>3, <2>1 DEF CanBeNew, Alive, Good, Graph, GraphIn, PresentIn
  <2>3. /\ ListNotified(p) \in Caches /\ ListNotified(p).ids = cache.ids
        /\ ListNotified(p).connected = cache.connected
        /\ ListNotified(p).modified = cache.modified \cup {p}
    BY <1>1, <2>1, <2>2, NotifyEffect
  <2>4. QED
    BY <2>1, <2>2, <2>3
<1>4. QED
  BY <1>2, <1>3

\* The graph with the new instance: it has no row yet and is not cached.
LEMMA NewGraph ==
    ASSUME Good, NEW o \in Objects, NEW p, CanBeNew(o, p), NEW i, NewIn(i, o, p)
    PROVE  /\ rows[o] = NoRow
           /\ PresentIn(i, rows, ListNotified(p), Objects \ {o})
           /\ RolesIn(i, rows) /\ ReferencedIn(i, rows)
           /\ ListsIn(i, Communities \ loose)
<1>1. \A x \in Objects : /\ inst[x].life = "alive" <=> rows[x] # NoRow
                         /\ inst[x].life = "alive" => Contains(cache, x) /\ x \in cache.connected
  BY DEF Good, Graph, GraphIn, PresentIn
<1>2. rows[o] = NoRow /\ inst[o].life = "none"
  BY <1>1 DEF CanBeNew
<1>3. PresentIn(i, rows, ListNotified(p), Objects \ {o})
  <2>1. ListNotified(p).ids = cache.ids /\ ListNotified(p).connected = cache.connected
    BY ListNotifiedFacts
  <2>2. \A x \in Objects \ {o} : i[x].life = inst[x].life
    BY DEF NewIn
  <2>3. QED
    BY <1>1, <2>1, <2>2 DEF PresentIn, Contains
<1>4. RolesIn(i, rows)
  <2>1. ASSUME NEW q \in Provinces
        PROVE  i[q].province = NoInstance /\ rows[q] \in {NoInstance, NoRow}
    BY Classes DEF Good, Graph, GraphIn, RolesIn, NewIn, CanBeNew
  <2>2. ASSUME NEW m \in Communities
        PROVE  i[m].list = {}
    <3>1. m \in Objects /\ m # p
      BY Classes, None DEF CanBeNew
    <3>2. inst[m].list = {}
      BY DEF Good, Graph, GraphIn, RolesIn
    <3>3. QED
      BY <3>1, <3>2 DEF NewIn
  <2>3. QED
    BY <2>1, <2>2 DEF RolesIn
<1>5. ReferencedIn(i, rows)
  <2> SUFFICES ASSUME NEW m \in Communities
               PROVE  /\ i[m].life = "alive" /\ i[m].province # NoInstance =>
                             i[i[m].province].life = "alive"
                      /\ rows[m] \in Provinces => i[rows[m]].life = "alive"
    BY DEF ReferencedIn
  <2>1. m \in Objects /\ inst[m].province \in Provinces \cup {NoInstance}
    BY Classes DEF Good, SessionTypes, Instance
  <2>2. \A q \in Provinces : inst[q].life = "alive" => i[q].life = "alive"
    BY Classes DEF NewIn
  <2>3. /\ inst[m].life = "alive" /\ inst[m].province # NoInstance =>
               inst[inst[m].province].life = "alive"
        /\ rows[m] \in Provinces => inst[rows[m]].life = "alive"
    BY DEF Good, Graph, GraphIn, ReferencedIn
  <2>4. CASE m = o
    BY <2>2, <2>3, <2>4 DEF NewIn, CanBeNew, Alive
  <2>5. CASE m # o
    <3>1. i[m].life = inst[m].life /\ i[m].province = inst[m].province
      BY <2>1, <2>5 DEF NewIn
    <3>2. QED
      BY <2>1, <2>2, <2>3, <3>1
  <2>6. QED
    BY <2>4, <2>5
<1>6. ListsIn(i, Communities \ loose)
  <2> SUFFICES ASSUME NEW m \in Communities \ loose, NEW q \in Provinces, i[q].life = "alive"
               PROVE  m \in i[q].list <=> i[m].life = "alive" /\ i[m].province = q
    BY DEF ListsIn, AgreesAt
  <2>1. m \in Objects /\ q \in Objects /\ m \notin Provinces
    BY Classes
  <2>2. inst[q].life = "alive" => (m \in inst[q].list <=> inst[m].life = "alive"
                                                          /\ inst[m].province = q)
    BY DEF Good, Graph, GraphIn, ListsIn, AgreesAt
  <2>3. CASE q = o
    <3>1. i[q].list = {} /\ m # o
      BY <2>1, <2>3 DEF NewIn
    <3>2. i[m].life = inst[m].life /\ i[m].province = inst[m].province
      BY <2>1, <3>1 DEF NewIn
    <3>3. ~(inst[m].life = "alive" /\ inst[m].province = o)
      BY <1>2, <2>1, None DEF Good, Graph, GraphIn, ReferencedIn
    <3>4. QED
      BY <2>3, <3>1, <3>2, <3>3
  <2>4. CASE q # o
    <3>1. inst[q].life = "alive"
      BY <2>1, <2>4 DEF NewIn
    <3>2. i[q].list = IF q = p THEN inst[q].list \cup {o} ELSE inst[q].list
      BY <2>1, <2>4 DEF NewIn
    <3>3. CASE m = o
      BY <1>2, <2>2, <3>1, <3>2, <3>3 DEF NewIn
    <3>4. CASE m # o
      <4>1. i[m].life = inst[m].life /\ i[m].province = inst[m].province
        BY <2>1, <3>4 DEF NewIn
      <4>2. m \in i[q].list <=> m \in inst[q].list
        BY <3>2, <3>4
      <4>3. QED
        BY <2>2, <3>1, <4>1, <4>2
    <3>5. QED
      BY <3>3, <3>4
  <2>5. QED
    BY <2>3, <2>4
<1>7. QED
  BY <1>2, <1>3, <1>4, <1>5, <1>6

LEMMA FreshIsNew ==
    ASSUME NEW m \in Models, NEW o \in Fresh(m), NEW p \in Provinces \cup {NoInstance},
           p # NoInstance => m = "community" /\ Alive(p)
    PROVE  o \in Objects /\ CanBeNew(o, p) /\ o[1] = m
BY Classes DEF Fresh, CanBeNew, Communities, Provinces

LEMMA CreateGood ==
    ASSUME Good, NEW o \in Objects, NEW p, CanBeNew(o, p), Create(o, p)
    PROVE  Good'
<1>1. PICK i : i = WithNew(o, p)
  OBVIOUS
<1>2. PICK c : c = ListNotified(p)
  OBVIOUS
<1>3. MergeSucceeds(i, c, o) /\ Because({}, {})
  BY <1>1, <1>2 DEF Create
<1>4. NewIn(i, o, p)
  BY <1>1, WithNewFacts
<1>5. /\ c \in Caches /\ c.modified \subseteq cache.modified \cup ({p} \cap Provinces)
      /\ p # NoInstance => p \in c.modified
  BY <1>2, ListNotifiedFacts
<1>6. /\ rows[o] = NoRow /\ PresentIn(i, rows, c, Objects \ {o})
      /\ RolesIn(i, rows) /\ ReferencedIn(i, rows) /\ ListsIn(i, Communities \ loose)
  BY <1>2, <1>4, NewGraph
<1>7. /\ i \in [Objects -> Instance] /\ i[o].life = "alive" /\ i[o].province = p
      /\ rows \in [Objects -> Provinces \cup {NoInstance, NoRow}]
  BY <1>4 DEF Good, SessionTypes, NewIn
<1>8. /\ cache' \in Caches /\ cache'.modified = c.modified \ Merged(i, c, o)
      /\ inst' = i /\ tracked' = o
  BY <1>3, <1>5, MergeFacts
<1>9. /\ PresentIn(inst', rows', cache', Objects) /\ RolesIn(inst', rows')
      /\ ReferencedIn(inst', rows')
      /\ rows' \in [Objects -> Provinces \cup {NoInstance, NoRow}]
  BY <1>3, <1>5, <1>6, <1>7, MergeGraph
<1>10. SessionTypes'
  BY <1>7, <1>8, <1>9 DEF SessionTypes
<1>11. cache'.modified \subseteq cache.modified \cup {}
  <2>1. p # NoInstance => p \in Merged(i, c, o)
    BY <1>5, <1>7 DEF Merged, NeedsMerge, IsModified
  <2>2. QED
    BY <1>5, <1>8, <2>1, None
<1>12. ListsIn(inst', Communities \ (loose \cup {}))
  BY <1>6, <1>8
<1>13. {} \in SUBSET Objects /\ {} \in SUBSET Communities
  OBVIOUS
<1>14. QED
  BY <1>3, <1>9, <1>10, <1>11, <1>12, <1>13, HistoryGood

\* A rollback of the instances os after the call has left the instances i.
LEMMA RollbackGood ==
    ASSUME Good, NEW i \in [Objects -> Instance], NEW c \in Caches, NEW os,
           PresentIn(i, rows, c, Objects), RolesIn(i, rows), ReferencedIn(i, rows),
           \A o \in Objects : rows[o] # NoRow => i[o].province = inst[o].province,
           \A m \in Communities \ loose, p \in Provinces :
               ~(p \in os /\ rows[p] # NoRow) => AgreesAt(i, m, p),
           c.modified \subseteq cache.modified \cup {o \in os \cap Objects : rows[o] # NoRow},
           RollsBack(i, c, os), Because({}, Moved)
    PROVE  Good' /\ (\A o \in Objects : inst'[o].life = i[o].life) /\ rows' = rows
<1>1. rows \in [Objects -> Provinces \cup {NoInstance, NoRow}]
  BY DEF Good, SessionTypes
<1> DEFINE S == Communities \ loose
<1>2. S \in SUBSET Communities
  OBVIOUS
<1>3. /\ inst' \in [Objects -> Instance]
      /\ \A o \in Objects : inst'[o].life = i[o].life
      /\ PresentIn(inst', rows', cache', Objects) /\ RolesIn(inst', rows')
      /\ ReferencedIn(inst', rows') /\ ListsIn(inst', S \ Moved)
      /\ cache' \in Caches /\ cache'.modified \subseteq c.modified
      /\ \A o \in os \cap Objects : rows[o] # NoRow => o \notin cache'.modified
      /\ rows' = rows /\ tracked' = NoInstance
  <2> HIDE DEF AgreesAt
  <2>1. \A m \in S, p \in Provinces :
               ~(p \in os /\ rows[p] # NoRow) => AgreesAt(i, m, p)
    OBVIOUS
  <2> HIDE DEF S
  <2>2. QED
    BY <1>1, <1>2, <2>1, RollbackGraph
<1>4. SessionTypes'
  BY <1>1, <1>3 DEF SessionTypes
<1>5. cache'.modified \subseteq cache.modified \cup {}
  BY <1>3
<1>6. ListsIn(inst', Communities \ (loose \cup Moved))
  BY <1>3 DEF ListsIn
<1>7. Moved \in SUBSET Communities /\ {} \in SUBSET Objects
  BY DEF Moved
<1>8. Good'
  BY <1>3, <1>4, <1>5, <1>6, <1>7, HistoryGood
<1>9. QED
  BY <1>3, <1>8

LEMMA UpdateFailsGood ==
    ASSUME Good, NEW os, RollsBack(inst, cache, os), Because({}, Moved)
    PROVE  Good' /\ (\A o \in Objects : inst'[o].life = inst[o].life) /\ rows' = rows
<1>1. /\ inst \in [Objects -> Instance] /\ cache \in Caches
      /\ PresentIn(inst, rows, cache, Objects) /\ RolesIn(inst, rows)
      /\ ReferencedIn(inst, rows)
      /\ \A m \in Communities \ loose, p \in Provinces : AgreesAt(inst, m, p)
  BY DEF Good, SessionTypes, Graph, GraphIn, ListsIn
<1>2. cache.modified \subseteq cache.modified \cup {o \in os \cap Objects : rows[o] # NoRow}
  OBVIOUS
<1>3. QED
  BY <1>1, <1>2, RollbackGood

\* create() whose merge fails: the new instance is deleted while its province lists it,
\* and the rollback of the nested merge takes that back.
LEMMA CreateFailsGood ==
    ASSUME Good, NEW o \in Objects, NEW p, CanBeNew(o, p),
           RollsBack([WithNew(o, p) EXCEPT ![o] = NewInstance("deleted")], ListNotified(p),
                     Merged(WithNew(o, p), ListNotified(p), o)),
           Because({}, Moved)
    PROVE  /\ Good' /\ rows' = rows
           /\ \A x \in Objects : inst[x].life = "alive" => inst'[x].life = "alive"
<1>1. PICK n : n = WithNew(o, p)
  OBVIOUS
<1>2. PICK c : c = ListNotified(p)
  OBVIOUS
<1>3. PICK i : i = [n EXCEPT ![o] = NewInstance("deleted")]
  OBVIOUS
<1>4. PICK os : os = Merged(n, c, o)
  OBVIOUS
<1>5. RollsBack(i, c, os)
  BY <1>1, <1>2, <1>3, <1>4
<1>6. NewIn(n, o, p)
  BY <1>1, WithNewFacts
<1>7. /\ c \in Caches /\ c.ids = cache.ids /\ c.connected = cache.connected
      /\ c.modified \subseteq cache.modified \cup ({p} \cap Provinces)
      /\ p # NoInstance => p \in c.modified /\ rows[p] # NoRow
  BY <1>2, ListNotifiedFacts
<1>8. /\ rows[o] = NoRow /\ PresentIn(n, rows, c, Objects \ {o})
      /\ RolesIn(n, rows) /\ ReferencedIn(n, rows)
  BY <1>2, <1>6, NewGraph
<1>9. NewInstance("deleted") \in Instance
  BY DEF NewInstance, Instance
<1>10. /\ i \in [Objects -> Instance]
       /\ i[o].life = "deleted" /\ i[o].province = NoInstance /\ i[o].list = {}
       /\ \A x \in Objects \ {o} : i[x] = n[x]
  BY <1>3, <1>6, <1>9 DEF NewIn, NewInstance
<1>11. p # NoInstance => p \in os /\ p \in Provinces /\ p \in Objects
  BY <1>4, <1>6, <1>7, Classes DEF Merged, NeedsMerge, IsModified, NewIn, CanBeNew
<1>12. PresentIn(i, rows, c, Objects)
  BY <1>8, <1>10 DEF PresentIn
<1>13. RolesIn(i, rows)
  <2>1. \A x \in Provinces : i[x].province = NoInstance
    BY <1>8, <1>10, Classes DEF RolesIn
  <2>2. \A x \in Communities : i[x].list = {}
    BY <1>8, <1>10, Classes DEF RolesIn
  <2>3. QED
    BY <1>8, <2>1, <2>2 DEF RolesIn
<1>14. \A x \in Objects \ {o} : i[x].life = inst[x].life /\ i[x].province = inst[x].province
  BY <1>6, <1>10 DEF NewIn
<1>15. inst[o].life = "none"
  BY DEF CanBeNew
<1>16. ReferencedIn(i, rows)
  <2> SUFFICES ASSUME NEW m \in Communities
               PROVE  /\ i[m].life = "alive" /\ i[m].province # NoInstance =>
                             i[i[m].province].life = "alive"
                      /\ rows[m] \in Provinces => i[rows[m]].life = "alive"
    BY DEF ReferencedIn
  <2>1. m \in Objects /\ inst[m].province \in Provinces \cup {NoInstance}
    BY Classes DEF Good, SessionTypes, Instance
  <2>2. \A q \in Provinces : inst[q].life = "alive" => i[q].life = "alive"
    BY <1>14, <1>15, Classes
  <2>3. /\ inst[m].life = "alive" /\ inst[m].province # NoInstance =>
               inst[inst[m].province].life = "alive"
        /\ rows[m] \in Provinces => inst[rows[m]].life = "alive"
    BY DEF Good, Graph, GraphIn, ReferencedIn
  <2>4. CASE m = o
    BY <1>10, <2>2, <2>3, <2>4
  <2>5. CASE m # o
    <3>1. i[m].life = inst[m].life /\ i[m].province = inst[m].province
      BY <1>14, <2>1, <2>5
    <3>2. QED
      BY <2>1, <2>2, <2>3, <3>1
  <2>6. QED
    BY <2>4, <2>5
<1>17. ASSUME NEW m \in Communities \ loose, NEW q \in Provinces,
              ~(q \in os /\ rows[q] # NoRow)
       PROVE  AgreesAt(i, m, q)
  <2> SUFFICES ASSUME i[q].life = "alive"
               PROVE  m \in i[q].list <=> i[m].life = "alive" /\ i[m].province = q
    BY DEF AgreesAt
  <2>1. m \in Objects /\ q \in Objects
    BY Classes
  <2>2. q # p
    BY <1>7, <1>11, <1>17, None
  <2>3. q # o
    BY <1>10
  <2>4. i[q].life = inst[q].life /\ i[q].list = inst[q].list
    BY <1>6, <1>10, <2>1, <2>2, <2>3 DEF NewIn
  <2>5. m \in inst[q].list <=> inst[m].life = "alive" /\ inst[m].province = q
    BY <2>4 DEF Good, Graph, GraphIn, ListsIn, AgreesAt
  <2>6. CASE m = o
    BY <1>10, <1>15, <2>4, <2>5, <2>6
  <2>7. CASE m # o
    BY <1>14, <2>1, <2>4, <2>5, <2>7
  <2>8. QED
    BY <2>6, <2>7
<1>18. \A x \in Objects : rows[x] # NoRow => i[x].province = inst[x].province
  BY <1>8, <1>14
<1>19. c.modified \subseteq cache.modified \cup {x \in os \cap Objects : rows[x] # NoRow}
  BY <1>7, <1>11, None
<1>20. Good' /\ (\A x \in Objects : inst'[x].life = i[x].life) /\ rows' = rows
  BY <1>5, <1>7, <1>10, <1>12, <1>13, <1>16, <1>17, <1>18, <1>19, RollbackGood
<1>21. QED
  BY <1>14, <1>15, <1>20

-----------------------------------------------------------------------------
(* Removal.                                                                *)

LEMMA UnlistedFacts ==
    ASSUME Good, NEW o \in Objects
    PROVE  /\ Unlisted(o) \in [Objects -> Instance]
           /\ \A x \in Objects :
                  /\ Unlisted(o)[x].life = inst[x].life
                  /\ Unlisted(o)[x].province = inst[x].province
                  /\ Unlisted(o)[x].list = IF x = inst[o].province THEN inst[x].list \ {o}
                                                                   ELSE inst[x].list
<1>1. inst \in [Objects -> Instance]
  BY DEF Good, SessionTypes
<1>2. ASSUME NEW x \in Objects
      PROVE  /\ Unlisted(o)[x] \in Instance
             /\ Unlisted(o)[x].life = inst[x].life
             /\ Unlisted(o)[x].province = inst[x].province
             /\ Unlisted(o)[x].list = IF x = inst[o].province THEN inst[x].list \ {o}
                                                              ELSE inst[x].list
  <2>1. inst[x] \in Instance
    BY <1>1
  <2>2. CASE x = inst[o].province
    <3>1. inst[x].list \ {o} \in SUBSET Communities
      BY <2>1 DEF Instance
    <3>2. Unlisted(o)[x] = [inst[x] EXCEPT !.list = inst[x].list \ {o}]
      BY <2>2 DEF Unlisted
    <3>3. QED
      BY <2>1, <2>2, <3>1, <3>2, Relisted
  <2>3. CASE x # inst[o].province
    BY <2>1, <2>3 DEF Unlisted
  <2>4. QED
    BY <2>2, <2>3
<1>3. Unlisted(o) = [x \in Objects |-> Unlisted(o)[x]]
  BY DEF Unlisted
<1>4. QED
  BY <1>2, <1>3

LEMMA ShortenedFacts ==
    ASSUME Good, NEW o \in Objects
    PROVE  /\ ShortenedNotified(o) \in Caches /\ ShortenedNotified(o).ids = cache.ids
           /\ ShortenedNotified(o).connected = cache.connected
           /\ ShortenedNotified(o).modified \subseteq cache.modified \cup Shortened(o)
           /\ Shortened(o) \in SUBSET Objects
<1>1. cache \in Caches /\ Shortened(o) \in SUBSET Objects
  BY Classes DEF Good, SessionTypes, Shortened
<1>2. CASE Shortened(o) = {}
  BY <1>1, <1>2 DEF ShortenedNotified
<1>3. CASE Shortened(o) # {}
  <2>1. inst[o].province \in Shortened(o)
    BY <1>3 DEF Shortened
  <2>2. inst[o].province \in Objects
    BY <1>1, <2>1
  <2>3. ShortenedNotified(o) = Notify(cache, inst[o].province)
    BY <1>3 DEF ShortenedNotified
  <2>4. /\ ShortenedNotified(o) \in Caches /\ ShortenedNotified(o).ids = cache.ids
        /\ ShortenedNotified(o).connected = cache.connected
        /\ ShortenedNotified(o).modified \subseteq cache.modified \cup {inst[o].province}
    BY <1>1, <2>2, <2>3, NotifyEffect, ZenonT(40)
  <2>5. QED
    BY <1>1, <2>1, <2>4
<1>4. QED
  BY <1>2, <1>3

\* An instance that nothing else needs goes, with what i says of the lists.
LEMMA RemovesGood ==
    ASSUME Good, NEW o \in Objects, inst[o].life = "alive", o \in Provinces => Unused(o),
           NEW i \in [Objects -> Instance], NEW c \in Caches,
           NEW changed \in SUBSET Objects, NEW unlisted \in SUBSET Communities,
           \A x \in Objects : i[x].life = inst[x].life /\ i[x].province = inst[x].province,
           RolesIn(i, rows), ListsIn(i, Communities \ (loose \cup unlisted \cup {o})),
           \A p \in Provinces : o \in Communities \ (loose \cup unlisted) /\ i[p].life = "alive"
                                => o \notin i[p].list,
           c.ids = cache.ids, c.connected = cache.connected,
           c.modified \subseteq cache.modified \cup changed,
           Removes(i, c, o), Because(changed, unlisted)
    PROVE  Good'
<1>1. /\ rows' = [rows EXCEPT ![o] = NoRow] /\ tracked' = tracked
      /\ cache' = Forget(Take(c, o), o)
      /\ inst' = [i EXCEPT ![o] = NewInstance("deleted")]
  BY DEF Removes
<1>2. NewInstance("deleted") \in Instance
  BY DEF NewInstance, Instance
<1>3. /\ inst' \in [Objects -> Instance]
      /\ inst'[o].life = "deleted" /\ inst'[o].province = NoInstance /\ inst'[o].list = {}
      /\ \A x \in Objects \ {o} : inst'[x] = i[x]
  BY <1>1, <1>2 DEF NewInstance
<1>4. /\ rows' \in [Objects -> Provinces \cup {NoInstance, NoRow}]
      /\ rows'[o] = NoRow /\ \A x \in Objects \ {o} : rows'[x] = rows[x]
  BY <1>1 DEF Good, SessionTypes
<1>5. /\ cache' \in Caches /\ cache'.modified = c.modified \ {o}
      /\ cache'.connected = c.connected \ {o}
      /\ \A x \in Objects \ {o} : Contains(cache', x) <=> Contains(c, x)
  BY <1>1, TakeForget
<1>6. SessionTypes'
  BY <1>1, <1>3, <1>4, <1>5 DEF Good, SessionTypes
<1>7. PresentIn(inst', rows', cache', Objects)
  <2> SUFFICES ASSUME NEW x \in Objects
               PROVE  /\ inst'[x].life = "alive" <=> rows'[x] # NoRow
                      /\ inst'[x].life = "alive" => Contains(cache', x) /\ x \in cache'.connected
    BY DEF PresentIn
  <2>1. /\ inst[x].life = "alive" <=> rows[x] # NoRow
        /\ inst[x].life = "alive" => Contains(cache, x) /\ x \in cache.connected
    BY DEF Good, Graph, GraphIn, PresentIn
  <2>2. Contains(c, x) <=> Contains(cache, x)
    BY DEF Contains
  <2>3. QED
    BY <1>3, <1>4, <1>5, <2>1, <2>2
<1>8. RolesIn(inst', rows')
  BY <1>3, <1>4, Classes DEF RolesIn
<1>9. ReferencedIn(inst', rows')
  <2> SUFFICES ASSUME NEW m \in Communities
               PROVE  /\ inst'[m].life = "alive" /\ inst'[m].province # NoInstance =>
                             inst'[inst'[m].province].life = "alive"
                      /\ rows'[m] \in Provinces => inst'[rows'[m]].life = "alive"
    BY DEF ReferencedIn
  <2>1. m \in Objects /\ inst[m].province \in Provinces \cup {NoInstance}
    BY Classes DEF Good, SessionTypes, Instance
  <2>2. /\ inst[m].life = "alive" /\ inst[m].province # NoInstance =>
               inst[inst[m].province].life = "alive"
        /\ rows[m] \in Provinces => inst[rows[m]].life = "alive"
    BY DEF Good, Graph, GraphIn, ReferencedIn
  <2>3. \A q \in Provinces : inst[q].life = "alive" /\ q # o => inst'[q].life = "alive"
    BY <1>3, Classes
  <2>4. o \in Provinces => (inst[m].life = "alive" => inst[m].province # o) /\ rows[m] # o
    BY DEF Unused, Alive
  <2>5. CASE m = o
    BY <1>3, <1>4, <2>5, None
  <2>6. CASE m # o
    <3>1. /\ inst'[m].life = inst[m].life /\ inst'[m].province = inst[m].province
          /\ rows'[m] = rows[m]
      BY <1>3, <1>4, <2>1, <2>6
    <3>2. QED
      BY <2>1, <2>2, <2>3, <2>4, <3>1
  <2>7. QED
    BY <2>5, <2>6
<1>10. ListsIn(inst', Communities \ (loose \cup unlisted))
  <2> SUFFICES ASSUME NEW m \in Communities \ (loose \cup unlisted), NEW q \in Provinces,
                      inst'[q].life = "alive"
               PROVE  m \in inst'[q].list <=> inst'[m].life = "alive" /\ inst'[m].province = q
    BY DEF ListsIn, AgreesAt
  <2>1. m \in Objects /\ q \in Objects /\ q # o
    BY <1>3, Classes
  <2>2. inst'[q] = i[q]
    BY <1>3, <2>1
  <2>3. CASE m = o
    BY <1>3, <2>2, <2>3
  <2>4. CASE m # o
    <3>1. AgreesAt(i, m, q)
      BY <2>4 DEF ListsIn
    <3>2. inst'[m] = i[m]
      BY <1>3, <2>1, <2>4
    <3>3. QED
      BY <2>2, <3>1, <3>2 DEF AgreesAt
  <2>5. QED
    BY <2>3, <2>4
<1>11. cache'.modified \subseteq cache.modified \cup changed
  BY <1>5
<1>12. QED
  BY <1>6, <1>7, <1>8, <1>9, <1>10, <1>11, HistoryGood

LEMMA RemoveGood ==
    ASSUME Good, NEW o \in Objects, Remove(o)
    PROVE  Good'
<1>1. PICK i : i = Unlisted(o)
  OBVIOUS
<1>2. PICK c : c = ShortenedNotified(o)
  OBVIOUS
<1>3. PICK changed : changed = Shortened(o)
  OBVIOUS
<1>4. /\ inst[o].life = "alive" /\ (o \in Provinces => Unused(o))
      /\ Removes(i, c, o) /\ Because(changed, {})
  BY <1>1, <1>2, <1>3 DEF Remove, Removable, Alive
<1>5. /\ i \in [Objects -> Instance]
      /\ \A x \in Objects :
            /\ i[x].life = inst[x].life /\ i[x].province = inst[x].province
            /\ i[x].list = IF x = inst[o].province THEN inst[x].list \ {o} ELSE inst[x].list
  BY <1>1, UnlistedFacts
<1>6. /\ c \in Caches /\ c.ids = cache.ids /\ c.connected = cache.connected
      /\ c.modified \subseteq cache.modified \cup changed /\ changed \in SUBSET Objects
  BY <1>2, <1>3, ShortenedFacts
<1>7. RolesIn(i, rows)
  BY <1>5, Classes DEF Good, Graph, GraphIn, RolesIn
<1>8. \A m \in Communities \ loose, q \in Provinces : AgreesAt(inst, m, q)
  BY DEF Good, Graph, GraphIn, ListsIn
<1>9. ListsIn(i, Communities \ (loose \cup {} \cup {o}))
  <2> SUFFICES ASSUME NEW m \in Communities \ (loose \cup {o}), NEW q \in Provinces
               PROVE  AgreesAt(i, m, q)
    BY DEF ListsIn
  <2>1. AgreesAt(inst, m, q) /\ m \in Objects /\ q \in Objects
    BY <1>8, Classes
  <2>2. m \in i[q].list <=> m \in inst[q].list
    BY <1>5, <2>1
  <2>3. QED
    BY <1>5, <2>1, <2>2 DEF AgreesAt
<1>10. \A p \in Provinces : o \in Communities \ (loose \cup {}) /\ i[p].life = "alive"
                            => o \notin i[p].list
  <2> SUFFICES ASSUME NEW p \in Provinces, o \in Communities \ loose, i[p].life = "alive"
               PROVE  o \notin i[p].list
    OBVIOUS
  <2>1. AgreesAt(inst, o, p) /\ p \in Objects
    BY <1>8, Classes
  <2>2. inst[p].life = "alive"
    BY <1>5, <2>1
  <2>3. o \in inst[p].list => inst[o].province = p
    BY <2>1, <2>2 DEF AgreesAt
  <2>4. QED
    BY <1>5, <2>1, <2>3
<1>11. {} \in SUBSET Communities
  OBVIOUS
<1>12. QED
  BY <1>4, <1>5, <1>6, <1>7, <1>9, <1>10, <1>11, RemovesGood, ZenonT(40)

LEMMA RemoveFailsGood ==
    ASSUME Good, NEW o \in Objects, RemoveFails(o)
    PROVE  Good' /\ rows' = rows /\ \A x \in Objects : inst'[x].life = inst[x].life
<1>1. /\ inst' = Unlisted(o) /\ cache' = ShortenedNotified(o)
      /\ rows' = rows /\ tracked' = tracked
      /\ Because(Shortened(o), {o} \cap Communities)
  BY DEF RemoveFails
<1>2. /\ inst' \in [Objects -> Instance]
      /\ \A x \in Objects :
            /\ inst'[x].life = inst[x].life /\ inst'[x].province = inst[x].province
            /\ inst'[x].list = IF x = inst[o].province THEN inst[x].list \ {o} ELSE inst[x].list
  BY <1>1, UnlistedFacts
<1>3. /\ cache' \in Caches /\ cache'.ids = cache.ids /\ cache'.connected = cache.connected
      /\ cache'.modified \subseteq cache.modified \cup Shortened(o)
      /\ Shortened(o) \in SUBSET Objects
  BY <1>1, ShortenedFacts
<1>4. SessionTypes'
  BY <1>1, <1>2, <1>3 DEF Good, SessionTypes
<1>5. PresentIn(inst', rows', cache', Objects)
  BY <1>1, <1>2, <1>3 DEF Good, Graph, GraphIn, PresentIn, Contains
<1>6. RolesIn(inst', rows')
  BY <1>1, <1>2, Classes DEF Good, Graph, GraphIn, RolesIn
<1>7. ReferencedIn(inst', rows')
  <2> SUFFICES ASSUME NEW m \in Communities
               PROVE  /\ inst'[m].life = "alive" /\ inst'[m].province # NoInstance =>
                             inst'[inst'[m].province].life = "alive"
                      /\ rows'[m] \in Provinces => inst'[rows'[m]].life = "alive"
    BY DEF ReferencedIn
  <2>1. m \in Objects /\ inst[m].province \in Provinces \cup {NoInstance}
    BY Classes DEF Good, SessionTypes, Instance
  <2>2. /\ inst[m].life = "alive" /\ inst[m].province # NoInstance =>
               inst[inst[m].province].life = "alive"
        /\ rows[m] \in Provinces => inst[rows[m]].life = "alive"
    BY DEF Good, Graph, GraphIn, ReferencedIn
  <2>3. QED
    <3>1. rows'[m] = rows[m] /\ \A q \in Provinces : inst'[q].life = inst[q].life
      BY <1>1, <1>2, Classes
    <3>2. inst'[m].life = inst[m].life /\ inst'[m].province = inst[m].province
      BY <1>2, <2>1
    <3>3. QED
      BY <2>1, <2>2, <3>1, <3>2
<1>8. ListsIn(inst', Communities \ (loose \cup ({o} \cap Communities)))
  <2> SUFFICES ASSUME NEW m \in Communities \ (loose \cup {o}), NEW q \in Provinces
               PROVE  AgreesAt(inst', m, q)
    BY DEF ListsIn
  <2>1. AgreesAt(inst, m, q) /\ m \in Objects /\ q \in Objects
    BY Classes DEF Good, Graph, GraphIn, ListsIn
  <2>2. m \in inst'[q].list <=> m \in inst[q].list
    BY <1>2, <2>1
  <2>3. QED
    BY <1>2, <2>1, <2>2 DEF AgreesAt
<1>9. {o} \cap Communities \in SUBSET Communities
  OBVIOUS
<1>10. Good'
  BY <1>1, <1>3, <1>4, <1>5, <1>6, <1>7, <1>8, <1>9, HistoryGood
<1>11. QED
  BY <1>1, <1>2, <1>10

LEMMA RemoveAtGood ==
    ASSUME Good, NEW o \in Objects, inst[o].life = "alive", Removable(o),
           Removes(inst, cache, o), Because({}, {o} \cap Communities)
    PROVE  Good'
<1> DEFINE unlisted == {o} \cap Communities
<1>1. /\ inst \in [Objects -> Instance] /\ cache \in Caches
      /\ RolesIn(inst, rows) /\ ListsIn(inst, Communities \ loose)
  BY DEF Good, SessionTypes, Graph, GraphIn
<1>2. unlisted \in SUBSET Communities /\ {} \in SUBSET Objects
  OBVIOUS
<1>3. ListsIn(inst, Communities \ (loose \cup unlisted \cup {o}))
  BY <1>1 DEF ListsIn
<1>4. o \notin Communities \ (loose \cup unlisted)
  OBVIOUS
<1>5. o \in Provinces => Unused(o)
  BY DEF Removable
<1>6. Removes(inst, cache, o) /\ Because({}, unlisted)
  OBVIOUS
<1> HIDE DEF unlisted
<1>7. cache.modified \subseteq cache.modified \cup {}
  OBVIOUS
<1>8. QED
  BY <1>1, <1>2, <1>3, <1>4, <1>5, <1>6, <1>7, RemovesGood

\* The state a call leaves alone is as good as before.
LEMMA UnchangedGood ==
    ASSUME Good, UNCHANGED <<session, history>>
    PROVE  Good'
BY DEF session, history, Good, SessionTypes, Graph, Marked

-----------------------------------------------------------------------------
(* What the models show.                                                   *)

\* What a model selects is a matter of the rows of its class.
LEMMA SelectedStays ==
    ASSUME NEW m \in Models, NEW f, NEW o,
           \A r \in Objects : r[1] = m => rows'[r] = rows[r]
    PROVE  /\ Selected(m, f, o)' = Selected(m, f, o)
<1> DEFINE found(t) == {r \in Objects : /\ r[1] = m /\ t[r] # NoRow
                                        /\ f # NoInstance => t[r] = f}
<1>1. found(rows) = found(rows')
  OBVIOUS
<1>2. Selected(m, f, o) = InOrder(found(rows), o)
  BY DEF Selected
<1>3. Selected(m, f, o)' = InOrder(found(rows'), o)
  BY DEF Selected
<1>4. QED
  BY <1>1, <1>2, <1>3

\* A model that does nothing stays current if its rows and instances stay; with rows
\* that change, if it is marked as behind.
LEMMA ModelStays ==
    ASSUME NEW m \in Models, CurrentModel(m), data \in [Models -> Seq(Objects)],
           \A o \in Objects : o \in Seqs!ToSet(data[m]) /\ Alive(o) => Alive(o)',
           m \notin behind' =>
               m \notin behind /\ \A r \in Objects : r[1] = m => rows'[r] = rows[r],
           data'[m] = data[m] /\ told'[m] = told[m], silent \subseteq silent',
           filter' = filter /\ order' = order
    PROVE  CurrentModel(m)'
<1>1. data[m] \in Seq(Objects)
  OBVIOUS
<1>2. \A k \in 1..Len(data[m]) : Alive(data[m][k])'
  <2> SUFFICES ASSUME NEW k \in 1..Len(data[m])
               PROVE  Alive(data[m][k])'
    OBVIOUS
  <2>1. data[m][k] \in Objects /\ data[m][k] \in Seqs!ToSet(data[m])
    BY <1>1 DEF Seqs!ToSet
  <2>2. Alive(data[m][k])
    BY DEF CurrentModel
  <2>3. QED
    BY <2>1, <2>2
<1>3. m \notin behind' => data'[m] = Selected(m, FilterOf(m), OrderOf(m))'
  <2> SUFFICES ASSUME m \notin behind'
               PROVE  data'[m] = Selected(m, FilterOf(m), OrderOf(m))'
    OBVIOUS
  <2>1. PICK f : f = FilterOf(m)
    OBVIOUS
  <2>2. PICK o : o = OrderOf(m)
    OBVIOUS
  <2>3. FilterOf(m)' = f /\ OrderOf(m)' = o
    BY <2>1, <2>2 DEF FilterOf, OrderOf
  <2>4. data[m] = Selected(m, f, o)
    BY <2>1, <2>2 DEF CurrentModel
  <2>5. Selected(m, f, o)' = Selected(m, f, o)
    BY SelectedStays
  <2>6. QED
    BY <2>3, <2>4, <2>5
<1>4. QED
  BY <1>2, <1>3 DEF CurrentModel

LEMMA CurrentStays ==
    ASSUME Types, Current, UNCHANGED <<data, told, filter, order>>,
           behind \subseteq behind', silent \subseteq silent',
           \A m \in Models : pending' # m =>
               /\ pending # m
               /\ \A o \in Objects : o[1] = m /\ Alive(o) => Alive(o)'
               /\ m \notin behind' => \A r \in Objects : r[1] = m => rows'[r] = rows[r]
    PROVE  Current'
<1> SUFFICES ASSUME NEW m \in Models
             PROVE  /\ \A k \in 1..Len(data'[m]) : data'[m][k][1] = m
                    /\ pending' # m => CurrentModel(m)'
  BY DEF Current
<1>1. data \in [Models -> Seq(Objects)] /\ data[m] \in Seq(Objects)
  BY DEF Types, ModelTypes
<1>2. \A k \in 1..Len(data[m]) : data[m][k][1] = m
  BY DEF Current
<1>3. ASSUME pending' # m
      PROVE  CurrentModel(m)'
  <2>1. CurrentModel(m)
    BY <1>3 DEF Current
  <2>2. \A o \in Objects : o \in Seqs!ToSet(data[m]) /\ Alive(o) => Alive(o)'
    <3> SUFFICES ASSUME NEW o \in Objects, o \in Seqs!ToSet(data[m]), Alive(o)
                 PROVE  Alive(o)'
      OBVIOUS
    <3>1. o[1] = m
      BY <1>1, <1>2 DEF Seqs!ToSet
    <3>2. QED
      BY <1>3, <3>1
  <2>3. m \notin behind' =>
               m \notin behind /\ \A r \in Objects : r[1] = m => rows'[r] = rows[r]
    BY <1>3
  <2>4. QED
    BY <1>1, <2>1, <2>2, <2>3, ModelStays
<1>4. QED
  BY <1>2, <1>3

\* A model that reads is current afterwards: what has a row is there.
LEMMA ReadsCurrent ==
    ASSUME Types, Graph, Current, NEW m \in Models, NEW f, NEW o, ReadsData(m, f, o),
           FilterOf(m)' = f, OrderOf(m)' = o,
           \A n \in Models \ {m} : /\ FilterOf(n)' = FilterOf(n) /\ OrderOf(n)' = OrderOf(n)
                                   /\ told'[n] = told[n]
                                   /\ pending' # n => pending # n
                                   /\ n \in silent => n \in silent',
           m \notin silent' => told'[m] = data'[m]
    PROVE  Current' /\ data' \in [Models -> Seq(Objects)] /\ behind' \subseteq Models
<1>1. /\ data' = [data EXCEPT ![m] = Selected(m, f, o)]
      /\ behind' = behind \ {m} /\ inst' = inst /\ rows' = rows
  BY DEF ReadsData, session
<1>2. /\ Selected(m, f, o) \in Seq(Objects)
      /\ \A k \in 1..Len(Selected(m, f, o)) :
             /\ Selected(m, f, o)[k] \in Objects /\ Selected(m, f, o)[k][1] = m
             /\ rows[Selected(m, f, o)[k]] # NoRow
  BY SelectedRows
<1>3. data \in [Models -> Seq(Objects)] /\ behind \subseteq Models
  BY DEF Types, ModelTypes
<1>4. /\ data' \in [Models -> Seq(Objects)] /\ behind' \subseteq Models
      /\ data'[m] = Selected(m, f, o)
      /\ \A n \in Models \ {m} : data'[n] = data[n]
  BY <1>1, <1>2, <1>3
<1>5. \A x \in Objects : rows[x] # NoRow => Alive(x)'
  BY <1>1 DEF Graph, GraphIn, PresentIn, Alive
<1>6. \A n \in Models : \A g, d : Selected(n, g, d)' = Selected(n, g, d)
  BY <1>1 DEF Selected
<1>7. CurrentModel(m)'
  <2>1. (\A k \in 1..Len(data[m]) : Alive(data[m][k]))'
    <3> SUFFICES ASSUME NEW k \in 1..Len(data'[m]), NEW x, x = data'[m][k]
                 PROVE  Alive(x)'
      BY Zenon
    <3>1. k \in 1..Len(Selected(m, f, o)) /\ data'[m][k] = Selected(m, f, o)[k]
      BY <1>4
    <3>2. data'[m][k] \in Objects /\ rows[data'[m][k]] # NoRow
      BY <1>2, <3>1
    <3>3. QED
      BY <1>5, <3>2
  <2>2. data'[m] = Selected(m, FilterOf(m), OrderOf(m))'
    BY <1>4, <1>6
  <2>3. m \notin silent' => told'[m] = data'[m]
    OBVIOUS
  <2>4. QED
    BY <2>1, <2>2, <2>3 DEF CurrentModel
<1>8. ASSUME NEW n \in Models \ {m}, CurrentModel(n)
      PROVE  CurrentModel(n)'
  <2>1. (\A k \in 1..Len(data[n]) : Alive(data[n][k]))'
    <3>1. \A x \in Objects : Alive(x) => Alive(x)'
      BY <1>1 DEF Alive
    <3>2. data[n] \in Seq(Objects) /\ data'[n] = data[n]
      BY <1>3, <1>4
    <3>3. \A k \in 1..Len(data[n]) : data[n][k] \in Objects /\ Alive(data[n][k])
      BY <1>8, <3>2 DEF CurrentModel
    <3> HIDE DEF Alive
    <3>4. QED
      BY <3>1, <3>2, <3>3
  <2>2. n \notin behind' => data'[n] = Selected(n, FilterOf(n), OrderOf(n))'
    <3>1. n \notin behind' => data[n] = Selected(n, FilterOf(n), OrderOf(n))
      BY <1>1, <1>8 DEF CurrentModel
    <3>2. Selected(n, FilterOf(n), OrderOf(n))' = Selected(n, FilterOf(n), OrderOf(n))
      BY <1>6
    <3>3. QED
      BY <1>4, <3>1, <3>2
  <2>3. n \notin silent' => told'[n] = data'[n]
    BY <1>4, <1>8 DEF CurrentModel
  <2>4. QED
    BY <2>1, <2>2, <2>3 DEF CurrentModel
<1>9. ASSUME NEW n \in Models
      PROVE  /\ \A k \in 1..Len(data'[n]) : data'[n][k][1] = n
             /\ pending' # n => CurrentModel(n)'
  <2>1. CASE n = m
    BY <1>2, <1>4, <1>7, <2>1
  <2>2. CASE n # m
    <3>1. pending' # n => CurrentModel(n)
      BY <2>2 DEF Current
    <3>2. \A k \in 1..Len(data[n]) : data[n][k][1] = n
      BY DEF Current
    <3>3. QED
      BY <1>4, <1>8, <2>2, <3>1, <3>2
  <2>3. QED
    BY <2>1, <2>2
<1>10. QED
  BY <1>4, <1>9 DEF Current

-----------------------------------------------------------------------------
(* The steps.                                                              *)

Living == fatal = "no" /\ Types /\ Graph /\ Marked /\ Current

LEMMA LivingGood == Living => Good
BY DEF Living, Types, Good

LEMMA EventTypes ==
    ASSUME Types, Event \/ NoEvent
    PROVE  events' \in 0..MaxEvents
BY BoundAssumption DEF Types, Event, NoEvent

LEMMA DieTypes ==
    ASSUME Types, NEW why, Die(why), Event \/ NoEvent,
           why \in {"crossReference", "deletedInstance", "nullReference", "outOfRange",
                    "notShown", "unsynchronized", "readFailed"}
    PROVE  Types' /\ fatal' # "no"
<1>1. NoInstances \in [Objects -> Instance]
  BY DEF NoInstances, NewInstance, Instance
<1>2. EmptyCache \in Caches
  BY DEF EmptyCache, Caches
<1>3. NoData \in [Models -> Seq(Objects)]
  BY DEF NoData
<1>4. SessionTypes'
  BY <1>1, <1>2 DEF Die, Types, SessionTypes
<1>5. ModelTypes'
  BY <1>3 DEF Die, ModelTypes
<1>6. events' \in 0..MaxEvents
  BY EventTypes
<1>7. QED
  BY <1>4, <1>5, <1>6 DEF Die, Types

LEMMA MergeDiesTypes ==
    ASSUME Types, NEW i, NEW c, NEW o, MergeDies(i, c, o), NoEvent
    PROVE  Types' /\ fatal' # "no"
BY DieTypes DEF MergeDies

\* A call that leaves the rows and the models alone, and everybody alive.
LEMMA QuietStep ==
    ASSUME Living, Good', UNCHANGED <<rows, model, pending, fatal>>, Event \/ NoEvent,
           \A x \in Objects : Alive(x) => Alive(x)'
    PROVE  Living'
<1>1. Types /\ Current
  BY DEF Living
<1>2. /\ UNCHANGED <<data, told, filter, order>> /\ behind' = behind /\ silent' = silent
      /\ rows' = rows /\ pending' = pending /\ fatal' = fatal
  BY DEF model
<1>3. Types'
  BY <1>1, <1>2, EventTypes DEF Types, ModelTypes, Good
<1>4. Current'
  <2>1. \A m \in Models : pending' # m =>
               /\ pending # m
               /\ \A o \in Objects : o[1] = m /\ Alive(o) => Alive(o)'
               /\ m \notin behind' => \A r \in Objects : r[1] = m => rows'[r] = rows[r]
    BY <1>2
  <2>2. QED
    BY <1>1, <1>2, <2>1, CurrentStays
<1>5. QED
  BY <1>2, <1>3, <1>4 DEF Living, Good

LEMMA EditStep ==
    ASSUME Living, NEW o \in Objects, Edit(o)
    PROVE  Living'
<1>1. Good'
  BY LivingGood, EditGood
<1>2. UNCHANGED <<rows, model, pending, fatal>> /\ NoEvent /\ inst' = inst
  BY DEF Edit
<1>3. \A x \in Objects : Alive(x) => Alive(x)'
  BY <1>2 DEF Alive
<1>4. QED
  BY <1>1, <1>2, <1>3, QuietStep

LEMMA SetProvinceStep ==
    ASSUME Living, NEW m \in Communities, NEW p \in Provinces, SetProvince(m, p)
    PROVE  Living'
<1>1. Good'
  BY LivingGood, SetProvinceGood
<1>2. /\ UNCHANGED <<rows, model, pending, fatal>> /\ Event
      /\ inst' = [inst EXCEPT ![m].province = p]
  BY DEF SetProvince
<1>3. inst \in [Objects -> Instance]
  BY DEF Living, Types, SessionTypes
<1>4. \A x \in Objects : Alive(x) => Alive(x)'
  BY <1>2, <1>3 DEF Alive, Instance
<1>5. QED
  BY <1>1, <1>2, <1>4, QuietStep

LEMMA MoveStep ==
    ASSUME Living, NEW m \in Communities, NEW p \in Provinces, Move(m, p)
    PROVE  Living'
<1>1. Good'
  BY LivingGood, MoveGood
<1>2. /\ UNCHANGED <<rows, model, pending, fatal>> /\ NoEvent
      /\ \E from \in Provinces :
             inst' = [inst EXCEPT ![m].province = p, ![from].list = @ \ {m},
                                  ![p].list = @ \cup {m}]
  BY DEF Move
<1>3. inst \in [Objects -> Instance]
  BY DEF Living, Types, SessionTypes
<1>4. \A x \in Objects : Alive(x) => Alive(x)'
  BY <1>2, <1>3 DEF Alive, Instance
<1>5. QED
  BY <1>1, <1>2, <1>4, QuietStep

LEMMA RemoveFailsStep ==
    ASSUME Living, NEW o \in Objects, RemoveFails(o)
    PROVE  Living'
<1>1. Good' /\ \A x \in Objects : inst'[x].life = inst[x].life
  BY LivingGood, RemoveFailsGood
<1>2. UNCHANGED <<rows, model, pending, fatal>> /\ Event
  BY DEF RemoveFails
<1>3. \A x \in Objects : Alive(x) => Alive(x)'
  BY <1>1 DEF Alive
<1>4. QED
  BY <1>1, <1>2, <1>3, QuietStep

LEMMA UpdateUnneededStep ==
    ASSUME Living, NEW o \in Objects, UpdateUnneeded(o)
    PROVE  Types' /\ (fatal' = "no" => Living')
<1>1. Types
  BY DEF Living
<1>2. CASE RollbackDies /\ NoEvent
  BY <1>1, <1>2, DieTypes DEF RollbackDies
<1>3. CASE /\ RollsBack(inst, cache, {o}) /\ Because({}, Moved) /\ NoEvent
           /\ UNCHANGED <<model, pending, fatal>>
  <2>1. Good' /\ (\A x \in Objects : inst'[x].life = inst[x].life) /\ rows' = rows
    BY <1>3, LivingGood, UpdateFailsGood
  <2>2. \A x \in Objects : Alive(x) => Alive(x)'
    BY <2>1 DEF Alive
  <2>3. Living'
    BY <1>3, <2>1, <2>2, QuietStep
  <2>4. QED
    BY <2>3 DEF Living
<1>4. QED
  BY <1>2, <1>3 DEF UpdateUnneeded

LEMMA UpdateFailsStep ==
    ASSUME Living, NEW o \in Objects, UpdateFails(o)
    PROVE  Types' /\ (fatal' = "no" => Living')
<1>1. Types
  BY DEF Living
<1>2. CASE RollbackDies /\ Event
  BY <1>1, <1>2, DieTypes DEF RollbackDies
<1>3. CASE /\ RollsBack(inst, cache, Merged(inst, cache, o)) /\ Because({}, Moved) /\ Event
           /\ UNCHANGED <<model, pending, fatal>>
  <2>1. Good' /\ (\A x \in Objects : inst'[x].life = inst[x].life) /\ rows' = rows
    BY <1>3, LivingGood, UpdateFailsGood
  <2>2. \A x \in Objects : Alive(x) => Alive(x)'
    BY <2>1 DEF Alive
  <2>3. Living'
    BY <1>3, <2>1, <2>2, QuietStep
  <2>4. QED
    BY <2>3 DEF Living
<1>4. QED
  BY <1>2, <1>3 DEF UpdateFails

LEMMA CreateFailsStep ==
    ASSUME Living, NEW o \in Objects, NEW p, CanBeNew(o, p), CreateFails(o, p)
    PROVE  Types' /\ (fatal' = "no" => Living')
<1>1. Types
  BY DEF Living
<1>2. CASE RollbackDies /\ Event
  BY <1>1, <1>2, DieTypes DEF RollbackDies
<1>3. CASE /\ RollsBack([WithNew(o, p) EXCEPT ![o] = NewInstance("deleted")], ListNotified(p),
                        Merged(WithNew(o, p), ListNotified(p), o))
           /\ Because({}, Moved) /\ Event /\ UNCHANGED <<model, pending, fatal>>
  <2>1. /\ Good' /\ rows' = rows
        /\ \A x \in Objects : inst[x].life = "alive" => inst'[x].life = "alive"
    BY <1>3, LivingGood, CreateFailsGood
  <2>2. \A x \in Objects : Alive(x) => Alive(x)'
    BY <2>1 DEF Alive
  <2>3. Living'
    BY <1>3, <2>1, <2>2, QuietStep
  <2>4. QED
    BY <2>3 DEF Living
<1>4. QED
  BY <1>2, <1>3 DEF CreateFails

\* A call that succeeds and leaves the other models alone.
LEMMA ChangeStep ==
    ASSUME Living, Good', UNCHANGED <<data, told, filter, order, silent, fatal>>,
           behind \subseteq behind', behind' \subseteq Models,
           pending' \in Models \cup {"none"}, NoEvent \/ Event,
           \A m \in Models : pending' # m =>
               /\ pending # m
               /\ \A o \in Objects : o[1] = m /\ Alive(o) => Alive(o)'
               /\ m \notin behind' => \A r \in Objects : r[1] = m => rows'[r] = rows[r]
    PROVE  Living'
<1>1. Types /\ Current
  BY DEF Living
<1>2. Types'
  BY <1>1, EventTypes DEF Types, ModelTypes, Good
<1>3. Current'
  BY <1>1, CurrentStays
<1>4. QED
  BY <1>2, <1>3 DEF Living, Good

\* Of what is merged with an instance only that one has a row that changes its class's.
LEMMA CreateStep ==
    ASSUME Living, NEW o \in Objects, NEW p, CanBeNew(o, p), Create(o, p), Idle
    PROVE  Living'
<1>1. Good /\ Good'
  BY LivingGood, CreateGood
<1>2. PICK i : i = WithNew(o, p)
  OBVIOUS
<1>3. PICK c : c = ListNotified(p)
  OBVIOUS
<1>4. MergeSucceeds(i, c, o) /\ pending' = o[1] /\ NoEvent /\ UNCHANGED <<model, fatal>>
  BY <1>2, <1>3 DEF Create
<1>5. NewIn(i, o, p) /\ c \in Caches
  BY <1>1, <1>2, <1>3, WithNewFacts, ListNotifiedFacts
<1>6. /\ rows' = [w \in Objects |-> IF w \in Merged(i, c, o) THEN i[w].province ELSE rows[w]]
      /\ inst' = i
  BY <1>4, <1>5, MergeFacts
<1>7. UNCHANGED <<data, told, filter, order, silent, fatal, behind>> /\ behind' \subseteq Models
  BY <1>4 DEF model, Living, Types, ModelTypes
<1>8. o[1] \in Models
  BY ObjectForm
<1>9. ASSUME NEW m \in Models, pending' # m
      PROVE  /\ pending # m
             /\ \A x \in Objects : x[1] = m /\ Alive(x) => Alive(x)'
             /\ \A r \in Objects : r[1] = m => rows'[r] = rows[r]
  <2>1. pending # m
    BY DEF Idle, Models
  <2>2. \A x \in Objects : x[1] = m => x # o
    BY <1>4, <1>9
  <2>3. \A x \in Objects : x[1] = m /\ Alive(x) => Alive(x)'
    BY <1>5, <1>6, <2>2 DEF NewIn, Alive
  <2>4. ASSUME NEW r \in Objects, r[1] = m
        PROVE  rows'[r] = rows[r]
    <3>1. CASE r \notin Merged(i, c, o)
      BY <1>6, <3>1
    <3>2. CASE r \in Merged(i, c, o)
      <4>1. r # o
        BY <2>2, <2>4
      <4>2. r = p /\ r \in Provinces
        BY <1>5, <3>2, <4>1, Classes, None DEF Merged, NewIn, CanBeNew
      <4>3. inst[r].life = "alive"
        BY <4>2, None DEF CanBeNew, Alive
      <4>4. rows[r] = NoInstance
        BY <1>1, <4>2, <4>3 DEF Good, Graph, GraphIn, PresentIn, RolesIn
      <4>5. i[r].province = NoInstance
        BY <1>1, <1>5, <4>1, <4>2 DEF Good, Graph, GraphIn, RolesIn, NewIn
      <4>6. QED
        BY <1>6, <3>2, <4>4, <4>5
    <3>3. QED
      BY <3>1, <3>2
  <2>5. QED
    BY <2>1, <2>3, <2>4
<1>10. QED
  BY <1>1, <1>4, <1>7, <1>8, <1>9, ChangeStep

LEMMA UpdateStep ==
    ASSUME Living, NEW o \in Objects, Update(o)
    PROVE  Living'
<1>1. Good /\ Good'
  BY LivingGood, UpdateGood
<1>2. /\ MergeSucceeds(inst, cache, o) /\ NoEvent /\ Idle /\ inst[o].life = "alive"
      /\ behind' = behind \cup {w[1] : w \in Merged(inst, cache, o)}
      /\ UNCHANGED <<data, filter, order, told, silent, pending, fatal>>
  BY DEF Update, Alive
<1>3. /\ cache \in Caches /\ inst \in [Objects -> Instance] /\ RolesIn(inst, rows)
      /\ ReferencedIn(inst, rows)
  BY <1>1 DEF Good, SessionTypes, Graph, GraphIn
<1>4. /\ rows' = [w \in Objects |-> IF w \in Merged(inst, cache, o) THEN inst[w].province
                                                                    ELSE rows[w]]
      /\ inst' = inst
  BY <1>2, <1>3, MergeFacts
<1>5. \A w \in Merged(inst, cache, o) : w \in Objects
  BY <1>2, <1>3, MergedThere
<1>6. behind' \subseteq Models /\ behind \subseteq behind'
  BY <1>2, <1>5, ObjectForm DEF Living, Types, ModelTypes
<1>7. pending' \in Models \cup {"none"}
  BY <1>2 DEF Living, Types
<1>8. ASSUME NEW m \in Models, pending' # m
      PROVE  /\ pending # m
             /\ \A x \in Objects : x[1] = m /\ Alive(x) => Alive(x)'
             /\ m \notin behind' => \A r \in Objects : r[1] = m => rows'[r] = rows[r]
  BY <1>2, <1>4, <1>8 DEF Alive
<1>9. QED
  BY <1>1, <1>2, <1>6, <1>7, <1>8, ChangeStep

\* A removal, with any lists.
LEMMA RemovesStep ==
    ASSUME Living, Good', Idle, NEW o \in Objects, NEW i, NEW c, Removes(i, c, o),
           i \in [Objects -> Instance], \A x \in Objects : i[x].life = inst[x].life,
           pending' = o[1], UNCHANGED <<model, fatal>>, NoEvent \/ Event
    PROVE  Living'
<1>1. /\ rows' = [rows EXCEPT ![o] = NoRow]
      /\ inst' = [i EXCEPT ![o] = NewInstance("deleted")]
  BY DEF Removes
<1>2. rows \in [Objects -> Provinces \cup {NoInstance, NoRow}]
  BY DEF Living, Types, SessionTypes
<1>3. \A x \in Objects \ {o} : rows'[x] = rows[x] /\ inst'[x] = i[x]
  BY <1>1, <1>2
<1>4. UNCHANGED <<data, told, filter, order, silent, fatal, behind>> /\ behind' \subseteq Models
  BY DEF model, Living, Types, ModelTypes
<1>5. o[1] \in Models
  BY ObjectForm
<1>6. ASSUME NEW m \in Models, pending' # m
      PROVE  /\ pending # m
             /\ \A x \in Objects : x[1] = m /\ Alive(x) => Alive(x)'
             /\ \A r \in Objects : r[1] = m => rows'[r] = rows[r]
  <2>1. pending # m
    BY DEF Idle, Models
  <2>2. \A x \in Objects : x[1] = m => x # o
    BY <1>6
  <2>3. QED
    BY <1>3, <2>1, <2>2 DEF Alive
<1>7. QED
  BY <1>4, <1>5, <1>6, ChangeStep

LEMMA RemoveStep ==
    ASSUME Living, NEW o \in Objects, Remove(o)
    PROVE  Living'
<1>1. Good /\ Good'
  BY LivingGood, RemoveGood
<1>2. PICK i : i = Unlisted(o)
  OBVIOUS
<1>3. PICK c : c = ShortenedNotified(o)
  OBVIOUS
<1>4. Removes(i, c, o) /\ Idle /\ pending' = o[1] /\ NoEvent /\ UNCHANGED <<model, fatal>>
  BY <1>2, <1>3 DEF Remove
<1>5. i \in [Objects -> Instance] /\ \A x \in Objects : i[x].life = inst[x].life
  BY <1>1, <1>2, UnlistedFacts
<1>6. QED
  BY <1>1, <1>4, <1>5, RemovesStep

LEMMA RemoveAtStep ==
    ASSUME Living, NEW m \in Models, NEW index \in 0..MaxInstances[m], RemoveAt(m, index)
    PROVE  Living'
<1>1. PICK o : o = data[m][index + 1]
  OBVIOUS
<1>2. /\ Idle /\ Event /\ index \in 0..Len(data[m]) - 1 /\ Removable(o)
      /\ Removes(inst, cache, o) /\ pending' = m
      /\ Because({}, {o} \cap Communities) /\ UNCHANGED <<model, fatal>>
  BY <1>1 DEF RemoveAt
<1>3. data[m] \in Seq(Objects)
  BY DEF Living, Types, ModelTypes
<1>4. index + 1 \in 1..Len(data[m])
  BY <1>2, <1>3
<1>5. o \in Objects
  BY <1>1, <1>3, <1>4
<1>6. pending # m
  BY <1>2 DEF Idle, Models
<1>7. Alive(o) /\ o[1] = m
  BY <1>1, <1>4, <1>6 DEF Living, Current, CurrentModel
<1>8. Good /\ Good'
  <2>1. Good
    BY LivingGood
  <2>2. inst[o].life = "alive"
    BY <1>7 DEF Alive
  <2>3. QED
    BY <1>2, <1>5, <2>1, <2>2, RemoveAtGood
<1>9. inst \in [Objects -> Instance] /\ \A x \in Objects : inst[x].life = inst[x].life
  BY <1>8 DEF Good, SessionTypes
<1>10. QED
  BY <1>2, <1>5, <1>7, <1>8, <1>9, RemovesStep

-----------------------------------------------------------------------------
(* Reading.                                                                *)

LEMMA ReadsGood ==
    ASSUME Living, NEW m, NEW f, NEW o, ReadsData(m, f, o)
    PROVE  Good' /\ fatal' = "no" /\ events' \in 0..MaxEvents
<1>1. UNCHANGED <<session, history>> /\ fatal' = fatal /\ NoEvent
  BY DEF ReadsData
<1>2. Good' /\ fatal' = "no"
  BY <1>1, LivingGood, UnchangedGood DEF Living
<1>3. events' \in 0..MaxEvents
  BY <1>1, EventTypes DEF Living
<1>4. QED
  BY <1>2, <1>3

LEMMA ReadDiesTypes ==
    ASSUME Types, NEW m, NEW f, NEW o, ReadDies(m, f, o)
    PROVE  Types' /\ fatal' # "no"
BY DieTypes DEF ReadDies

LEMMA ReadStep ==
    ASSUME Living, NEW m \in Models, Read(m), pending \in {m, "none"}, pending' = "none"
    PROVE  Living'
<1>1. PICK f : f = FilterOf(m)
  OBVIOUS
<1>2. PICK o : o = OrderOf(m)
  OBVIOUS
<1>3. /\ ReadsData(m, f, o) /\ UNCHANGED <<filter, order>>
      /\ told' = [told EXCEPT ![m] = data'[m]] /\ silent' = silent \ {m}
  BY <1>1, <1>2 DEF Read
<1>4. Good' /\ fatal' = "no" /\ events' \in 0..MaxEvents
  BY <1>3, ReadsGood
<1>5. /\ Types /\ Graph /\ Current
      /\ told \in [Models -> Seq(Objects)] /\ silent \subseteq Models
  BY DEF Living, Types, ModelTypes
<1>6. /\ FilterOf(m)' = f /\ OrderOf(m)' = o
      /\ \A n \in Models : FilterOf(n)' = FilterOf(n) /\ OrderOf(n)' = OrderOf(n)
  BY <1>1, <1>2, <1>3 DEF FilterOf, OrderOf
<1>7. /\ told'[m] = data'[m]
      /\ \A n \in Models \ {m} : /\ told'[n] = told[n]
                                 /\ pending # n
                                 /\ n \in silent => n \in silent'
  <2>1. "none" \notin Models
    BY DEF Models
  <2>2. QED
    BY <1>3, <1>5, <2>1
<1>8. Current' /\ data' \in [Models -> Seq(Objects)] /\ behind' \subseteq Models
  BY <1>3, <1>5, <1>6, <1>7, ReadsCurrent
<1>9. told' \in [Models -> Seq(Objects)]
  BY <1>3, <1>5, <1>8
<1>10. Types'
  BY <1>3, <1>4, <1>5, <1>8, <1>9 DEF Types, ModelTypes, Good
<1>11. QED
  BY <1>4, <1>8, <1>10 DEF Living, Good

\* setFilter() and setOrder(): read without a reset.
LEMMA SetStep ==
    ASSUME Living, Idle, NEW f \in Provinces \cup {NoInstance},
           NEW o \in {"ascending", "descending"}, ReadsData("community", f, o),
           filter' = f, order' = o, silent' = silent \cup {"community"},
           told' = told, pending' = pending
    PROVE  Living'
<1>1. Good' /\ fatal' = "no" /\ events' \in 0..MaxEvents
  BY ReadsGood
<1>2. Types /\ Graph /\ Current /\ silent \subseteq Models
  BY DEF Living, Types, ModelTypes
<1>3. "community" \in Models /\ "community" \in silent' /\ silent' \subseteq Models
  BY <1>2 DEF Models
<1>4. /\ FilterOf("community")' = f /\ OrderOf("community")' = o
      /\ \A n \in Models \ {"community"} : /\ FilterOf(n)' = FilterOf(n)
                                           /\ OrderOf(n)' = OrderOf(n)
  BY DEF FilterOf, OrderOf
<1>5. Current' /\ data' \in [Models -> Seq(Objects)] /\ behind' \subseteq Models
  BY <1>2, <1>3, <1>4, ReadsCurrent
<1>6. Types'
  BY <1>1, <1>2, <1>3, <1>5 DEF Types, ModelTypes, Good
<1>7. QED
  BY <1>1, <1>5, <1>6 DEF Living, Good

-----------------------------------------------------------------------------
(* The invariant.                                                          *)

LEMMA InitIInv == Init => IInv
<1> SUFFICES ASSUME Init
             PROVE  IInv
  OBVIOUS
<1>1. NoInstances \in [Objects -> Instance]
  BY DEF NoInstances, NewInstance, Instance
<1>2. EmptyCache \in Caches /\ EmptyCache.modified = {}
  BY DEF EmptyCache, Caches
<1>3. NoData \in [Models -> Seq(Objects)] /\ \A m \in Models : NoData[m] = <<>>
  BY DEF NoData
<1>4. SessionTypes
  BY <1>1, <1>2 DEF Init, SessionTypes
<1>5. ModelTypes
  BY <1>3 DEF Init, ModelTypes
<1>6. Types
  BY <1>4, <1>5, BoundAssumption DEF Init, Types
<1>7. \A o \in Objects : /\ inst[o].life = "none" /\ inst[o].province = NoInstance
                         /\ inst[o].list = {} /\ rows[o] = NoRow
  BY DEF Init, NoInstances, NewInstance
<1>8. Graph
  BY <1>7, Classes, None DEF Graph, GraphIn, PresentIn, RolesIn, ReferencedIn, ListsIn, AgreesAt
<1>9. Marked
  BY <1>2 DEF Init, Marked
<1>10. Current
  <2> SUFFICES ASSUME NEW m \in Models
               PROVE  (\A k \in 1..Len(data[m]) : data[m][k][1] = m) /\ CurrentModel(m)
    BY DEF Current
  <2>1. data[m] = <<>> /\ told[m] = <<>>
    BY <1>3 DEF Init
  <2>2. Selected(m, FilterOf(m), OrderOf(m)) = <<>>
    <3>1. PICK f : f = FilterOf(m)
      OBVIOUS
    <3>2. PICK o : o = OrderOf(m)
      OBVIOUS
    <3>3. /\ Selected(m, f, o) \in Seq(Objects)
          /\ \A k \in 1..Len(Selected(m, f, o)) :
                 /\ Selected(m, f, o)[k] \in Objects
                 /\ rows[Selected(m, f, o)[k]] # NoRow
      BY SelectedRows
    <3>4. \A k \in 1..Len(Selected(m, f, o)) : FALSE
      BY <1>7, <3>3
    <3>5. Len(Selected(m, f, o)) = 0
      BY <3>3, <3>4
    <3>6. QED
      BY <3>1, <3>2, <3>3, <3>5
  <2>3. Len(data[m]) = 0
    BY <2>1
  <2>4. QED
    BY <2>1, <2>2, <2>3 DEF CurrentModel
<1>11. QED
  BY <1>6, <1>8, <1>9, <1>10 DEF IInv

LEMMA CreateInstanceStep ==
    ASSUME Living, NEW m \in Models, CreateInstance(m)
    PROVE  Types' /\ (fatal' = "no" => Living')
<1>1. PICK o \in Fresh(m), p \in Provinces \cup {NoInstance} :
          /\ p # NoInstance => m = "community" /\ Alive(p)
          /\ Create(o, p) \/ CreateFails(o, p) \/ CreateDies(o, p)
  BY DEF CreateInstance
<1>2. o \in Objects /\ CanBeNew(o, p) /\ Idle
  BY <1>1, FreshIsNew DEF CreateInstance
<1>3. CASE Create(o, p)
  BY <1>2, <1>3, CreateStep DEF Living
<1>4. CASE CreateFails(o, p)
  BY <1>2, <1>4, CreateFailsStep
<1>5. CASE CreateDies(o, p)
  BY <1>5, MergeDiesTypes DEF CreateDies, Living
<1>6. QED
  BY <1>1, <1>3, <1>4, <1>5

LEMMA ReadModelStep ==
    ASSUME Living, NEW m \in Models, ReadModel(m)
    PROVE  Types' /\ (fatal' = "no" => Living')
<1>1. CASE Read(m) /\ UNCHANGED pending
  BY <1>1, ReadStep DEF ReadModel, Idle, Living
<1>2. CASE ReadDies(m, FilterOf(m), OrderOf(m))
  BY <1>2, ReadDiesTypes DEF Living
<1>3. QED
  BY <1>1, <1>2 DEF ReadModel

LEMMA ModelReadsStep ==
    ASSUME Living, ModelReads
    PROVE  Types' /\ (fatal' = "no" => Living')
<1>1. pending \in Models
  BY DEF ModelReads, Living, Types
<1>2. PICK m \in Models : m = pending
  BY <1>1
<1>3. CASE Read(m) /\ pending' = "none"
  BY <1>2, <1>3, ReadStep DEF Living
<1>4. CASE ReadDies(m, FilterOf(m), OrderOf(m))
  BY <1>4, ReadDiesTypes DEF Living
<1>5. QED
  BY <1>2, <1>3, <1>4 DEF ModelReads

LEMMA SetFilterStep ==
    ASSUME Living, NEW f \in Provinces \cup {NoInstance}, SetFilter(f)
    PROVE  Types' /\ (fatal' = "no" => Living')
<1>1. PICK o \in {"ascending", "descending"} : o = order
  BY DEF Living, Types, ModelTypes
<1>2. CASE ReadDies("community", f, o)
  BY <1>2, ReadDiesTypes DEF Living
<1>3. CASE /\ ReadsData("community", f, o) /\ filter' = f /\ UNCHANGED pending
           /\ silent' = silent \cup {"community"} /\ UNCHANGED <<order, told>>
  BY <1>1, <1>3, SetStep DEF SetFilter, Living
<1>4. QED
  BY <1>1, <1>2, <1>3 DEF SetFilter

LEMMA SetOrderStep ==
    ASSUME Living, NEW o \in {"ascending", "descending"}, SetOrder(o)
    PROVE  Types' /\ (fatal' = "no" => Living')
<1>1. PICK f \in Provinces \cup {NoInstance} : f = filter
  BY DEF Living, Types, ModelTypes
<1>2. CASE ReadDies("community", f, o)
  BY <1>2, ReadDiesTypes DEF Living
<1>3. CASE /\ ReadsData("community", f, o) /\ order' = o /\ UNCHANGED pending
           /\ silent' = silent \cup {"community"} /\ UNCHANGED <<filter, told>>
  BY <1>1, <1>3, SetStep DEF SetOrder, Living
<1>4. QED
  BY <1>1, <1>2, <1>3 DEF SetOrder

LEMMA NextStep ==
    ASSUME Living, Next
    PROVE  Types' /\ (fatal' = "no" => Living')
<1>1. ASSUME NEW m \in Models, CreateInstance(m)
      PROVE  Types' /\ (fatal' = "no" => Living')
  BY <1>1, CreateInstanceStep
<1>2. ASSUME NEW m \in Models, ReadModel(m)
      PROVE  Types' /\ (fatal' = "no" => Living')
  BY <1>2, ReadModelStep
<1>3. ASSUME NEW m \in Models, RemoveAtFails(m)
      PROVE  Types' /\ (fatal' = "no" => Living')
  <2>1. UNCHANGED <<session, model, history, pending, fatal>> /\ Event
    BY <1>3 DEF RemoveAtFails
  <2>2. Good' /\ rows' = rows /\ \A x \in Objects : Alive(x) => Alive(x)'
    BY <2>1, LivingGood, UnchangedGood DEF session, Alive
  <2>3. Living'
    BY <2>1, <2>2, QuietStep
  <2>4. QED
    BY <2>3 DEF Living
<1>4. ASSUME NEW m \in Models, RemoveAtDies(m)
      PROVE  Types' /\ (fatal' = "no" => Living')
  BY <1>4, DieTypes DEF RemoveAtDies, Living
<1>5. ASSUME NEW m \in Models, NEW index \in 0..MaxInstances[m], RemoveAt(m, index)
      PROVE  Types' /\ (fatal' = "no" => Living')
  BY <1>5, RemoveAtStep DEF Living
<1>6. ASSUME NEW o \in Objects, Update(o)
      PROVE  Types' /\ (fatal' = "no" => Living')
  BY <1>6, UpdateStep DEF Living
<1>7. ASSUME NEW o \in Objects, UpdateUnneeded(o)
      PROVE  Types' /\ (fatal' = "no" => Living')
  BY <1>7, UpdateUnneededStep
<1>8. ASSUME NEW o \in Objects, UpdateNotShown(o)
      PROVE  Types' /\ (fatal' = "no" => Living')
  BY <1>8, DieTypes DEF UpdateNotShown, Living
<1>9. ASSUME NEW o \in Objects, UpdateFails(o)
      PROVE  Types' /\ (fatal' = "no" => Living')
  BY <1>9, UpdateFailsStep
<1>10. ASSUME NEW o \in Objects, UpdateDies(o)
       PROVE  Types' /\ (fatal' = "no" => Living')
  BY <1>10, MergeDiesTypes DEF UpdateDies, Living
<1>11. ASSUME NEW o \in Objects, Remove(o)
       PROVE  Types' /\ (fatal' = "no" => Living')
  BY <1>11, RemoveStep DEF Living
<1>12. ASSUME NEW o \in Objects, RemoveFails(o)
       PROVE  Types' /\ (fatal' = "no" => Living')
  BY <1>12, RemoveFailsStep DEF Living
<1>13. ASSUME NEW o \in Objects, RemoveDies(o)
       PROVE  Types' /\ (fatal' = "no" => Living')
  BY <1>13, DieTypes DEF RemoveDies, Living
<1>14. ASSUME NEW o \in Objects, Edit(o)
       PROVE  Types' /\ (fatal' = "no" => Living')
  BY <1>14, EditStep DEF Living
<1>15. ASSUME NEW m \in Communities, NEW p \in Provinces, SetProvince(m, p)
       PROVE  Types' /\ (fatal' = "no" => Living')
  BY <1>15, SetProvinceStep DEF Living
<1>16. ASSUME NEW m \in Communities, NEW p \in Provinces, Move(m, p)
       PROVE  Types' /\ (fatal' = "no" => Living')
  BY <1>16, MoveStep DEF Living
<1>17. ASSUME NEW f \in Provinces \cup {NoInstance}, SetFilter(f)
       PROVE  Types' /\ (fatal' = "no" => Living')
  BY <1>17, SetFilterStep
<1>18. ASSUME NEW o \in {"ascending", "descending"}, SetOrder(o)
       PROVE  Types' /\ (fatal' = "no" => Living')
  BY <1>18, SetOrderStep
<1>19. ASSUME ModelReads
       PROVE  Types' /\ (fatal' = "no" => Living')
  BY <1>19, ModelReadsStep, SMTT(30)
<1>20. QED
  BY <1>1, <1>2, <1>3, <1>4, <1>5, <1>6, <1>7, <1>8, <1>9, <1>10, <1>11, <1>12, <1>13,
     <1>14, <1>15, <1>16, <1>17, <1>18, <1>19 DEF Next

\* Once the process has ended, nothing happens.
LEMMA NextLives == Next => fatal = "no"
BY DEF Next, CreateInstance, ReadModel, RemoveAtFails, RemoveAtDies, RemoveAt, Update,
       UpdateUnneeded, UpdateNotShown, UpdateFails, UpdateDies, Remove, RemoveFails, RemoveDies,
       Edit, SetProvince, Move, SetFilter, SetOrder, ModelReads, Idle

LEMMA IInvStep == IInv /\ [Next]_vars => IInv'
<1> SUFFICES ASSUME IInv, [Next]_vars
             PROVE  IInv'
  OBVIOUS
<1>1. CASE Next
  <2>1. Living
    BY <1>1, NextLives DEF IInv, Living
  <2>2. QED
    BY <1>1, <2>1, NextStep DEF IInv, Living
<1>2. CASE UNCHANGED vars
  <2>1. UNCHANGED <<inst, rows, cache, tracked, data, filter, order, told, behind, silent,
                    unsaved, loose, pending, fatal, events>>
    BY <1>2 DEF vars, session, model, history
  <2>2. Types'
    BY <2>1 DEF IInv, Types, SessionTypes, ModelTypes
  <2>3. Graph => Graph'
    BY <2>1 DEF Graph
  <2>4. Marked => Marked'
    BY <2>1 DEF Marked
  <2>5. Current => Current'
    <3>1. \A m \in Models : pending' # m =>
               /\ pending # m
               /\ \A o \in Objects : o[1] = m /\ Alive(o) => Alive(o)'
               /\ m \notin behind' => \A r \in Objects : r[1] = m => rows'[r] = rows[r]
      BY <2>1 DEF Alive
    <3>2. QED
      BY <2>1, <3>1, CurrentStays DEF IInv
  <2>6. QED
    BY <2>1, <2>2, <2>3, <2>4, <2>5 DEF IInv
<1>3. QED
  BY <1>1, <1>2

\* The inductive invariant holds throughout.
LEMMA Invariant == Spec => []IInv
<1>1. QED
  BY InitIInv, IInvStep, PTL DEF Spec

\* Type correctness (qormentitylistmodel.h:45-331): whatever the client does through the
\* models, they hold instances of the session, the rows reference rows, and an order
\* returns a sequence.
THEOREM TypeCorrect == Spec => []TypeOK
<1>1. IInv => TypeOK
  <2> SUFFICES ASSUME IInv
               PROVE  TypeOK
    OBVIOUS
  <2>1. /\ data \in [Models -> Seq(Objects)] /\ told \in [Models -> Seq(Objects)]
    BY DEF IInv, Types, ModelTypes
  <2>2. \A s \in Seq(Objects) : Seqs!ToSet(s) \subseteq Objects
    BY DEF Seqs!ToSet
  <2>3. \A m \in Models : Seqs!ToSet(data[m]) \subseteq Objects /\ Seqs!ToSet(told[m]) \subseteq Objects
    BY <2>1, <2>2
  <2>4. DOMAIN data = Models /\ DOMAIN told = Models
    BY <2>1
  <2>5. QED
    BY <2>3, <2>4 DEF IInv, Types, SessionTypes, ModelTypes, TypeOK
<1>2. QED
  BY <1>1, Invariant, PTL

\* The two sides of the relation agree: through create(), edits, updates, removals and the
\* rollbacks of those that failed, every community but the loose ones is in the list of the
\* province it references and in no other
\* (qormentitylistmodel.h:121-171, 177-214, qormsession.cpp:99).
THEOREM ListsStayInAgreement == Spec => []ListsAgree
<1>1. IInv => ListsAgree
  <2> SUFFICES ASSUME IInv, fatal = "no", NEW m \in Communities \ loose
               PROVE  Agrees(m)
    BY DEF ListsAgree
  <2>1. \A p \in Provinces : AgreesAt(inst, m, p)
    BY DEF IInv, Graph, GraphIn, ListsIn
  <2>2. QED
    BY <2>1, AgreesIn
<1>2. QED
  BY <1>1, Invariant, PTL

\* Between the calls a model shows what its filter and order select, by instances that are
\* there, and its views know, with the exceptions of updates and of setFilter() and
\* setOrder(): for any numbers of rows and any criteria
\* (qormentitylistmodel.h:162-167, 207-212, 227-245, 280-282).
THEOREM ModelsAreCurrent == Spec => []ModelCurrent
<1>1. IInv => ModelCurrent
  <2> SUFFICES ASSUME IInv, Idle
               PROVE  \A m \in Models : CurrentModel(m)
    BY DEF ModelCurrent, CurrentModel
  <2>1. Current /\ \A m \in Models : pending # m
    BY DEF IInv, Idle, Models
  <2>2. QED
    BY <2>1 DEF Current
<1>2. QED
  BY <1>1, Invariant, PTL

-----------------------------------------------------------------------------
(* The ends of the process.                                                *)

\* A merge stops at the other side of a relation only if a community is loose.
LEMMA RelationErrors ==
    ASSUME NEW i \in [Objects -> Instance], NEW c, NEW o \in Objects, i[o].life = "alive",
           NEW r, RolesIn(i, r), ReferencedIn(i, r), NEW S, ListsIn(i, Communities \ S)
    PROVE  /\ CrossReferenceError(i, Merged(i, c, o)) => S # {}
           /\ LooksAtDeleted(i, Merged(i, c, o)) =>
                  \E l \in S \cap Communities : i[l].life # "alive"
<1>1. \A w \in Merged(i, c, o) : w \in Objects /\ i[w].life = "alive"
  BY MergedThere
<1>2. ASSUME NEW w \in Objects, NEW l \in i[w].list
      PROVE  w \in Provinces /\ l \in Communities /\ l \in Objects
  BY Classes DEF RolesIn, Instance
<1>3. ASSUME CrossReferenceError(i, Merged(i, c, o)), S = {}
      PROVE  FALSE
  <2>1. PICK w \in Merged(i, c, o) :
            \/ i[w].province # NoInstance /\ w \notin i[i[w].province].list
            \/ \E l \in i[w].list : i[l].province # w
    BY <1>3 DEF CrossReferenceError
  <2>2. w \in Objects /\ i[w].life = "alive"
    BY <1>1
  <2>3. \A m \in Communities, p \in Provinces : AgreesAt(i, m, p)
    BY <1>3 DEF ListsIn
  <2>4. CASE i[w].province # NoInstance /\ w \notin i[i[w].province].list
    <3>1. w \in Communities
      BY <2>2, <2>4, Classes DEF RolesIn
    <3>2. i[w].province \in Provinces
      BY <2>2, <2>4 DEF Instance
    <3>3. i[i[w].province].life = "alive"
      BY <2>2, <2>4, <3>1 DEF ReferencedIn
    <3>4. QED
      BY <2>2, <2>3, <2>4, <3>1, <3>2, <3>3 DEF AgreesAt
  <2>5. CASE \E l \in i[w].list : i[l].province # w
    <3>1. PICK l \in i[w].list : i[l].province # w
      BY <2>5
    <3>2. w \in Provinces /\ l \in Communities
      BY <1>2, <2>2
    <3>3. QED
      BY <2>2, <2>3, <3>1, <3>2 DEF AgreesAt
  <2>6. QED
    BY <2>1, <2>4, <2>5
<1>4. ASSUME LooksAtDeleted(i, Merged(i, c, o))
      PROVE  \E l \in S \cap Communities : i[l].life # "alive"
  <2>1. PICK w \in Merged(i, c, o), l \in Communities : l \in i[w].list /\ i[l].life # "alive"
    BY <1>4 DEF LooksAtDeleted
  <2>2. w \in Provinces /\ i[w].life = "alive"
    BY <1>1, <1>2, <2>1
  <2>3. ~AgreesAt(i, l, w)
    BY <2>1, <2>2 DEF AgreesAt
  <2>4. l \in S
    BY <2>2, <2>3 DEF ListsIn
  <2>5. QED
    BY <2>1, <2>4
<1>5. QED
  BY <1>3, <1>4

Reason(why) ==
    /\ why = "unsynchronized" => \E o \in unsaved : IsModified(cache, o)
    /\ why = "crossReference" => loose # {}
    /\ why = "deletedInstance" => \/ \E c \in loose : ~Alive(c)
                                  \/ tracked # NoInstance /\ ~Alive(tracked)

LEMMA ReadReason ==
    ASSUME Living, NEW m, NEW f, NEW o, ReadDies(m, f, o)
    PROVE  Reason(fatal')
<1>1. CASE Seqs!ToSet(Selected(m, f, o)) \cap cache.modified # {} /\ Die("unsynchronized")
  <2>1. PICK x : x \in cache.modified
    BY <1>1
  <2>2. x \in unsaved
    BY <2>1 DEF Living, Marked
  <2>3. QED
    BY <1>1, <2>1, <2>2 DEF Reason, Die, IsModified
<1>2. CASE Die("readFailed")
  BY <1>2 DEF Reason, Die
<1>3. QED
  BY <1>1, <1>2 DEF ReadDies

LEMMA RollbackReason ==
    ASSUME RollbackDies
    PROVE  Reason(fatal')
BY DEF RollbackDies, Die, Reason

LEMMA UpdateReason ==
    ASSUME Living, NEW o \in Objects, UpdateDies(o)
    PROVE  Reason(fatal')
<1>1. MergeDies(inst, cache, o) /\ inst[o].life = "alive"
  BY DEF UpdateDies, Alive
<1>2. /\ inst \in [Objects -> Instance] /\ RolesIn(inst, rows) /\ ReferencedIn(inst, rows)
      /\ ListsIn(inst, Communities \ loose)
  BY DEF Living, Types, SessionTypes, Graph, GraphIn
<1>3. /\ CrossReferenceError(inst, Merged(inst, cache, o)) => loose # {}
      /\ LooksAtDeleted(inst, Merged(inst, cache, o)) =>
             \E l \in loose \cap Communities : inst[l].life # "alive"
  BY <1>1, <1>2, RelationErrors
<1>4. QED
  BY <1>1, <1>3 DEF MergeDies, Die, Reason, Alive

LEMMA CreateReason ==
    ASSUME Living, NEW o \in Objects, NEW p, CanBeNew(o, p), CreateDies(o, p)
    PROVE  Reason(fatal')
<1>1. PICK i : i = WithNew(o, p)
  OBVIOUS
<1>2. PICK c : c = ListNotified(p)
  OBVIOUS
<1>3. MergeDies(i, c, o)
  BY <1>1, <1>2 DEF CreateDies
<1>4. Good
  BY LivingGood
<1>5. NewIn(i, o, p)
  BY <1>1, <1>4, WithNewFacts
<1>6. RolesIn(i, rows) /\ ReferencedIn(i, rows) /\ ListsIn(i, Communities \ loose)
  BY <1>4, <1>5, NewGraph
<1>7. i \in [Objects -> Instance] /\ i[o].life = "alive"
  BY <1>5 DEF NewIn
<1>8. /\ CrossReferenceError(i, Merged(i, c, o)) => loose # {}
      /\ LooksAtDeleted(i, Merged(i, c, o)) =>
             \E l \in loose \cap Communities : i[l].life # "alive"
  BY <1>6, <1>7, RelationErrors
<1>9. \A l \in Communities : i[l].life # "alive" => ~Alive(l)
  <2>1. \A l \in Objects \ {o} : i[l].life = inst[l].life
    BY <1>5 DEF NewIn
  <2>2. QED
    BY <1>7, <2>1, Classes DEF Alive
<1>10. QED
  BY <1>3, <1>8, <1>9 DEF MergeDies, Die, Reason

LEMMA NextReason ==
    ASSUME Living, Next
    PROVE  Reason(fatal') \/ fatal' = "no"
<1>1. ASSUME NEW m \in Models, CreateInstance(m)
      PROVE  Reason(fatal') \/ fatal' = "no"
  <2>1. PICK o \in Fresh(m), p \in Provinces \cup {NoInstance} :
            /\ p # NoInstance => m = "community" /\ Alive(p)
            /\ Create(o, p) \/ CreateFails(o, p) \/ CreateDies(o, p)
    BY <1>1 DEF CreateInstance
  <2>2. o \in Objects /\ CanBeNew(o, p)
    BY <2>1, FreshIsNew
  <2>3. CASE Create(o, p)
    BY <2>3 DEF Create, Living
  <2>4. CASE CreateFails(o, p)
    BY <2>4, RollbackReason DEF CreateFails, Living
  <2>5. CASE CreateDies(o, p)
    BY <2>2, <2>5, CreateReason
  <2>6. QED
    BY <2>1, <2>3, <2>4, <2>5
<1>2. ASSUME NEW m \in Models, ReadModel(m)
      PROVE  Reason(fatal') \/ fatal' = "no"
  BY <1>2, ReadReason DEF ReadModel, Read, ReadsData, Living
<1>3. ASSUME ModelReads
      PROVE  Reason(fatal') \/ fatal' = "no"
  BY <1>3, ReadReason DEF ModelReads, Read, ReadsData, Living
<1>4. ASSUME NEW f, SetFilter(f)
      PROVE  Reason(fatal') \/ fatal' = "no"
  BY <1>4, ReadReason DEF SetFilter, ReadsData, Living
<1>5. ASSUME NEW o, SetOrder(o)
      PROVE  Reason(fatal') \/ fatal' = "no"
  BY <1>5, ReadReason DEF SetOrder, ReadsData, Living
<1>6. ASSUME NEW o \in Objects, UpdateUnneeded(o) \/ UpdateFails(o)
      PROVE  Reason(fatal') \/ fatal' = "no"
  BY <1>6, RollbackReason DEF UpdateUnneeded, UpdateFails, Living
<1>7. ASSUME NEW o \in Objects, UpdateDies(o)
      PROVE  Reason(fatal') \/ fatal' = "no"
  BY <1>7, UpdateReason
<1>8. ASSUME NEW o \in Objects, UpdateNotShown(o) \/ RemoveDies(o)
      PROVE  Reason(fatal') \/ fatal' = "no"
  BY <1>8 DEF UpdateNotShown, RemoveDies, Die, Reason
<1>9. ASSUME NEW m \in Models, RemoveAtDies(m)
      PROVE  Reason(fatal') \/ fatal' = "no"
  BY <1>9 DEF RemoveAtDies, Die, Reason
<1>10. ASSUME NEW o \in Objects, Update(o) \/ Remove(o) \/ RemoveFails(o) \/ Edit(o)
       PROVE  fatal' = "no"
  BY <1>10 DEF Update, Remove, RemoveFails, Edit, Living
<1>11. ASSUME NEW m, NEW index, RemoveAt(m, index) \/ RemoveAtFails(m)
       PROVE  fatal' = "no"
  BY <1>11 DEF RemoveAt, RemoveAtFails, Living
<1>12. ASSUME NEW m, NEW p, SetProvince(m, p) \/ Move(m, p)
       PROVE  fatal' = "no"
  BY <1>12 DEF SetProvince, Move, Living
<1>13. QED
  BY <1>1, <1>2, <1>3, <1>4, <1>5, <1>6, <1>7, <1>8, <1>9, <1>10, <1>11, <1>12 DEF Next

\* The process ends only for a reason: over an instance the client has changed or whose
\* list remove() has shortened, over a relation whose sides were made to differ, over an
\* instance that was deleted
\* (qormqueryresult.h:122, qormentitylistmodel.h:196-205, 219, qormsession.cpp:101,
\* qormglobal_p.cpp:126).
THEOREM EndsForAReason == Spec => DiesForAReason
<1>1. IInv /\ [Next]_vars =>
          [/\ Dies("unsynchronized") => \E o \in unsaved : IsModified(cache, o)
           /\ Dies("crossReference") => loose # {}
           /\ Dies("deletedInstance") =>
                  \/ \E c \in loose : ~Alive(c)
                  \/ tracked # NoInstance /\ ~Alive(tracked)]_vars
  <2> SUFFICES ASSUME IInv, Next
               PROVE  /\ Dies("unsynchronized") => \E o \in unsaved : IsModified(cache, o)
                      /\ Dies("crossReference") => loose # {}
                      /\ Dies("deletedInstance") =>
                             \/ \E c \in loose : ~Alive(c)
                             \/ tracked # NoInstance /\ ~Alive(tracked)
    OBVIOUS
  <2>1. Living
    BY NextLives DEF IInv, Living
  <2>2. Reason(fatal') \/ fatal' = "no"
    BY <2>1, NextReason
  <2>3. QED
    BY <2>2 DEF Dies, Reason
<1>2. QED
  BY <1>1, Invariant, PTL DEF Spec, DiesForAReason
=============================================================================
