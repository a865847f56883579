--------------------------- MODULE SessionProofs ---------------------------
(***************************************************************************)
(* Theorems about Session, for any instances, classes and bounds: a call   *)
(* of merge() leaves nothing behind however it goes on or fails, one that  *)
(* returns true has left its row, and a rollback sets back what it tracks. *)
(***************************************************************************)
EXTENDS Session, FiniteSetTheorems, TLAPS

-----------------------------------------------------------------------------
(* Sequences that grow and shrink in front.                                *)

LEMMA Cons ==
    ASSUME NEW T, NEW x \in T, NEW s \in Seq(T)
    PROVE  /\ <<x>> \o s \in Seq(T) /\ <<x>> \o s # <<>>
           /\ Len(<<x>> \o s) = Len(s) + 1
           /\ Head(<<x>> \o s) = x /\ Tail(<<x>> \o s) = s
           /\ \A i \in 1..(Len(s) + 1) : (<<x>> \o s)[i] = IF i = 1 THEN x ELSE s[i - 1]
<1>1. <<x>> \in Seq(T) /\ Len(<<x>>) = 1 /\ <<x>>[1] = x
  OBVIOUS
<1>2. /\ <<x>> \o s \in Seq(T) /\ Len(<<x>> \o s) = Len(s) + 1
      /\ \A i \in 1..(Len(s) + 1) : (<<x>> \o s)[i] = IF i = 1 THEN x ELSE s[i - 1]
  BY <1>1
<1>3. <<x>> \o s # <<>> /\ Head(<<x>> \o s) = x
  BY <1>2
<1>4. Tail(<<x>> \o s) = s
  <2>1. Tail(<<x>> \o s) \in Seq(T) /\ Len(Tail(<<x>> \o s)) = Len(s)
    BY <1>2, <1>3
  <2>2. \A i \in 1..Len(s) : Tail(<<x>> \o s)[i] = s[i]
    BY <1>2, <1>3
  <2>3. QED
    BY <2>1, <2>2
<1>5. QED
  BY <1>2, <1>3, <1>4

LEMMA Split ==
    ASSUME NEW T, NEW s \in Seq(T), s # <<>>
    PROVE  /\ Head(s) \in T /\ Tail(s) \in Seq(T)
           /\ Len(s) \in Nat \ {0} /\ Len(Tail(s)) = Len(s) - 1
           /\ Head(s) = s[1] /\ \A i \in 1..(Len(s) - 1) : Tail(s)[i] = s[i + 1]
           /\ s = <<Head(s)>> \o Tail(s)
<1>1. /\ Head(s) \in T /\ Tail(s) \in Seq(T)
      /\ Len(s) \in Nat \ {0} /\ Len(Tail(s)) = Len(s) - 1
      /\ Head(s) = s[1] /\ \A i \in 1..(Len(s) - 1) : Tail(s)[i] = s[i + 1]
  OBVIOUS
<1>2. s = <<Head(s)>> \o Tail(s)
  <2>1. /\ <<Head(s)>> \o Tail(s) \in Seq(T) /\ Len(<<Head(s)>> \o Tail(s)) = Len(s)
        /\ \A i \in 1..Len(s) : (<<Head(s)>> \o Tail(s))[i] = s[i]
    <3>1. Len(Tail(s)) + 1 = Len(s)
      BY <1>1
    <3>2. \A i \in 1..Len(s) : i # 1 => i - 1 \in 1..(Len(s) - 1) /\ (i - 1) + 1 = i
      BY <1>1
    <3>3. QED
      BY <1>1, <3>1, <3>2, Cons
  <2>2. QED
    BY <2>1
<1>3. QED
  BY <1>1, <1>2

-----------------------------------------------------------------------------
(* The frames of a running call.  Those below the innermost one wait for a *)
(* nested merge: they hold their token and have not failed.                *)

Waiting(s) ==
    \A i \in 1..Len(s) :
        /\ s[i].pc = "execute" /\ s[i].engaged /\ s[i].result
        /\ s[i].kind = "many" => i = Len(s)

\* What a frame may be that lies on top of s.
MayTop(f, s) ==
    /\ f.kind = "many" => s = <<>> /\ f.engaged /\ f.pc # "refs"
    /\ f.pc # "return" => f.engaged
    /\ f.pc \in {"refs", "execute"} => f.result

\* The levels the tokens of s still hold.
Levels(s) == IF s = <<>> THEN 0 ELSE IF Head(s).engaged THEN Len(s) ELSE Len(s) - 1

\* The instances the frames of s merge, each of them by one frame.
MergeAt(s) == {i \in 1..Len(s) : s[i].kind = "merge"}
Merged(s) == {s[i].inst : i \in MergeAt(s)}
Distinct(s) == \A i, j \in MergeAt(s) : s[i].inst = s[j].inst => i = j

LEMMA WaitingCons ==
    ASSUME NEW f \in Frame, NEW s \in Seq(Frame), Waiting(s), MayTop(f, s), f.pc = "execute"
    PROVE  Waiting(<<f>> \o s)
<1>1. SUFFICES ASSUME NEW i \in 1..(Len(s) + 1)
               PROVE  /\ (<<f>> \o s)[i].pc = "execute" /\ (<<f>> \o s)[i].engaged
                      /\ (<<f>> \o s)[i].result
                      /\ (<<f>> \o s)[i].kind = "many" => i = Len(s) + 1
  BY Cons DEF Waiting
<1>2. CASE i = 1
  BY <1>2, Cons DEF MayTop
<1>3. CASE i # 1
  <2>1. i - 1 \in 1..Len(s) /\ (<<f>> \o s)[i] = s[i - 1]
    BY <1>3, Cons
  <2>2. QED
    BY <2>1 DEF Waiting
<1>4. QED
  BY <1>2, <1>3

LEMMA WaitingSplit ==
    ASSUME NEW s \in Seq(Frame), Waiting(s), s # <<>>
    PROVE  /\ Waiting(Tail(s))
           /\ Head(s).pc = "execute" /\ Head(s).engaged /\ Head(s).result
           /\ Head(s).kind = "many" => Tail(s) = <<>>
<1> DEFINE t == Tail(s)
           n == Len(s)
<1>0. n \in Nat /\ n # 0
  BY Split
<1>1. Head(s) = s[1]
  BY Split
<1>2. t \in Seq(Frame) /\ Len(t) = n - 1 /\ \A i \in 1..(n - 1) : t[i] = s[i + 1]
  BY Split
<1>3. \A i \in 1..n : /\ s[i].pc = "execute" /\ s[i].engaged /\ s[i].result
                      /\ s[i].kind = "many" => i = n
  BY DEF Waiting
<1> HIDE DEF t, n
<1>4. n = 1 => t = <<>>
  BY <1>2
<1>5. Waiting(t)
  <2>1. ASSUME NEW i \in 1..(n - 1)
        PROVE  /\ t[i].pc = "execute" /\ t[i].engaged /\ t[i].result
               /\ t[i].kind = "many" => i = n - 1
    <3>1. i + 1 \in 1..n /\ (i + 1 = n => i = n - 1)
      BY <1>0
    <3>2. QED
      BY <1>2, <1>3, <3>1
  <2>2. QED
    BY <1>2, <2>1 DEF Waiting
<1>6. /\ Head(s).pc = "execute" /\ Head(s).engaged /\ Head(s).result
      /\ Head(s).kind = "many" => n = 1
  <2>1. 1 \in 1..n
    BY <1>0
  <2>2. QED
    BY <1>1, <1>3, <2>1
<1>7. QED
  BY <1>4, <1>5, <1>6 DEF t

LEMMA LevelsCons ==
    ASSUME NEW f \in Frame, NEW s \in Seq(Frame)
    PROVE  /\ Levels(<<f>> \o s) = IF f.engaged THEN Len(s) + 1 ELSE Len(s)
           /\ Waiting(s) => Levels(s) = Len(s)
<1>1. Levels(<<f>> \o s) = IF f.engaged THEN Len(s) + 1 ELSE Len(s)
  BY Cons DEF Levels
<1>2. ASSUME Waiting(s) PROVE Levels(s) = Len(s)
  <2>1. CASE s = <<>>
    BY <2>1 DEF Levels
  <2>2. CASE s # <<>>
    BY <2>2, <1>2, WaitingSplit DEF Levels
  <2>3. QED
    BY <2>1, <2>2
<1>3. QED
  BY <1>1, <1>2

LEMMA MergedCons ==
    ASSUME NEW f \in Frame, NEW s \in Seq(Frame)
    PROVE  /\ Merged(<<f>> \o s) = Merged(s) \cup (IF f.kind = "merge" THEN {f.inst} ELSE {})
           /\ Distinct(<<f>> \o s)
                <=> Distinct(s) /\ (f.kind = "merge" => f.inst \notin Merged(s))
<1> DEFINE t == <<f>> \o s
<1>1. /\ Len(t) = Len(s) + 1 /\ Len(s) \in Nat /\ t[1] = f
      /\ \A i \in 1..Len(s) : t[i + 1] = s[i]
  BY Cons
<1> HIDE DEF t
<1>2. MergeAt(t) = {i + 1 : i \in MergeAt(s)} \cup (IF f.kind = "merge" THEN {1} ELSE {})
  <2>1. ASSUME NEW i \in MergeAt(t), i # 1 PROVE \E j \in MergeAt(s) : i = j + 1
    <3>1. i - 1 \in 1..Len(s) /\ i = (i - 1) + 1
      BY <1>1, <2>1 DEF MergeAt
    <3>2. i - 1 \in MergeAt(s)
      BY <1>1, <3>1, <2>1 DEF MergeAt
    <3>3. QED
      BY <3>1, <3>2
  <2>2. ASSUME NEW j \in MergeAt(s) PROVE j + 1 \in MergeAt(t)
    BY <1>1 DEF MergeAt
  <2>3. 1 \in MergeAt(t) <=> f.kind = "merge"
    BY <1>1 DEF MergeAt
  <2>4. QED
    BY <2>1, <2>2, <2>3
<1>3. \A i \in MergeAt(s) : i \in 1..Len(s) /\ t[i + 1].inst = s[i].inst /\ i + 1 # 1
  BY <1>1 DEF MergeAt
<1>4. Merged(t) = Merged(s) \cup (IF f.kind = "merge" THEN {f.inst} ELSE {})
  BY <1>1, <1>2, <1>3 DEF Merged
<1>5. Distinct(t) => Distinct(s) /\ (f.kind = "merge" => f.inst \notin Merged(s))
  <2>1. ASSUME Distinct(t), NEW i \in MergeAt(s), NEW j \in MergeAt(s), s[i].inst = s[j].inst
        PROVE  i = j
    <3>1. i + 1 \in MergeAt(t) /\ j + 1 \in MergeAt(t)
      BY <1>2
    <3>2. t[i + 1].inst = t[j + 1].inst
      BY <1>3, <2>1
    <3>3. i + 1 = j + 1 /\ i \in Int /\ j \in Int
      BY <3>1, <3>2, <2>1, <1>3 DEF Distinct
    <3>4. QED
      BY <3>3
  <2>2. ASSUME Distinct(t), f.kind = "merge", f.inst \in Merged(s) PROVE FALSE
    <3>1. PICK i \in MergeAt(s) : s[i].inst = f.inst
      BY <2>2 DEF Merged
    <3>2. 1 \in MergeAt(t) /\ i + 1 \in MergeAt(t) /\ t[1].inst = t[i + 1].inst
      BY <1>1, <1>2, <1>3, <2>2, <3>1
    <3>3. QED
      BY <3>2, <2>2, <1>3 DEF Distinct
  <2>3. QED
    BY <2>1, <2>2 DEF Distinct
<1>6. ASSUME Distinct(s), f.kind = "merge" => f.inst \notin Merged(s)
      PROVE  Distinct(t)
  <2>1. SUFFICES ASSUME NEW i \in MergeAt(t), NEW j \in MergeAt(t), t[i].inst = t[j].inst
                 PROVE  i = j
    BY DEF Distinct
  <2>2. CASE i = 1 /\ j = 1
    BY <2>2
  <2>3. CASE i # 1 /\ j # 1
    BY <2>1, <2>3, <1>2, <1>3, <1>6 DEF Distinct
  <2>4. CASE i = 1 /\ j # 1
    <3>1. PICK k \in MergeAt(s) : j = k + 1
      BY <2>4, <1>2
    <3>2. f.kind = "merge" /\ f.inst = s[k].inst
      BY <3>1, <2>1, <2>4, <1>1, <1>2, <1>3
    <3>3. QED
      BY <3>1, <3>2, <1>6 DEF Merged
  <2>5. CASE i # 1 /\ j = 1
    <3>1. PICK k \in MergeAt(s) : i = k + 1
      BY <2>5, <1>2
    <3>2. f.kind = "merge" /\ f.inst = s[k].inst
      BY <3>1, <2>1, <2>5, <1>1, <1>2, <1>3
    <3>3. QED
      BY <3>1, <3>2, <1>6 DEF Merged
  <2>6. QED
    BY <2>2, <2>3, <2>4, <2>5
<1>7. QED
  BY <1>4, <1>5, <1>6 DEF t

LEMMA Nothing ==
    Waiting(<<>>) /\ Levels(<<>>) = 0 /\ Merged(<<>>) = {} /\ Distinct(<<>>)
BY DEF Waiting, Levels, Merged, Distinct, MergeAt

-----------------------------------------------------------------------------
(* The inductive invariant.                                                *)

StackOK ==
    stack # <<>> => /\ Waiting(Tail(stack)) /\ MayTop(Top, Tail(stack))
                    /\ Top.pc = "rollback" => reading.why = "rollback"

LevelsOK == reading.why # "rollback" => depth = manual + Levels(stack)

MergingOK ==
    IF reading.why = "rollback" THEN merging = {}
                                ELSE merging = Merged(stack) /\ Distinct(stack)

\* Only the outermost level rolls back, so that nothing but the frame that has
\* asked for it can be left.
ReadingOK ==
    /\ reading = NoReading => fills = <<>>
    /\ reading.why = "select" => stack = <<>>
    /\ reading.why = "rollback" =>
           /\ manual = 0 /\ depth = 1 /\ db = saved
           /\ stack # <<>> => Tail(stack) = <<>> /\ Top.pc = "rollback"

SavedOK == depth = 0 => db = saved

\* What is being read, or will be, are rows.
RowsOK ==
    /\ \A i \in 1..Len(fills) : db.rows[fills[i].key] # NoRow
    /\ reading.why = "select" =>
           \A i \in 1..Len(reading.queue) : db.rows[reading.queue[i]] # NoRow

\* The session owns what it has cached, and a lookup finds what it has cached.
CacheOK ==
    /\ \A o \in Objects : Contains(cache, o) <=> obj[o].life = "session"
    /\ \A k \in Keys : Get(cache, k) # NoInstance => cache.ids[Get(cache, k)] = k

RefsOK == \A o \in Objects : Alive(o) /\ obj[o].ref # NoInstance => Alive(obj[o].ref)

Living == {o \in Objects : Alive(o)}

\* A frame works on what exists, and one that is going to insert its instance on
\* one that is not cached.
FrameFits(f, living, cached) ==
    /\ f.kind = "merge" =>
           /\ f.inst \in living
           /\ f.pc \in {"refs", "execute"} /\ f.op = "Create" => f.inst \notin cached
    /\ f.kind = "many" => \A i \in 1..Len(f.queue) : f.queue[i] \in living
FramesFit(s, living, cached) == \A i \in 1..Len(s) : FrameFits(s[i], living, cached)

FramesOK == reading = NoReading => FramesFit(stack, Living, Cached(cache))

IdsOK == stack # <<>> /\ reading = NoReading => RoomForIds

\* What the properties speak of, and what they rest on.
CallInv == StackOK /\ LevelsOK /\ MergingOK /\ ReadingOK /\ SavedOK
DataInv == RowsOK /\ CacheOK /\ RefsOK /\ FramesOK /\ IdsOK
IInv == TypeOK /\ CallInv /\ DataInv

-----------------------------------------------------------------------------
(* What the operations of the cache do to the map.                         *)

LEMMA InsertNew ==
    ASSUME NEW c \in Caches, NEW o \in Objects, NEW k \in Keys, ~Contains(c, o)
    PROVE  /\ Insert(c, o, k) \in Caches
           /\ Insert(c, o, k).ids = [c.ids EXCEPT ![o] = k]
           /\ Insert(c, o, k).byId = [c.byId EXCEPT ![k] = o]
BY DEF Caches, Insert

LEMMA TakeOne ==
    ASSUME NEW c \in Caches, NEW o \in Objects
    PROVE  /\ Take(c, o) \in Caches
           /\ Take(c, o).ids = [c.ids EXCEPT ![o] = NoKey]
           /\ Take(c, o).byId = [k \in Keys |-> IF k = c.ids[o] THEN NoInstance ELSE c.byId[k]]
BY DEF Caches, Take

LEMMA TakeSome ==
    ASSUME NEW c \in Caches, NEW given \in SUBSET Objects
    PROVE  /\ TakeAll(c, given) \in Caches
           /\ TakeAll(c, given).ids
                = [o \in Objects |-> IF o \in given THEN NoKey ELSE c.ids[o]]
           /\ TakeAll(c, given).byId
                = [k \in Keys |-> IF \E o \in given : c.ids[o] = k THEN NoInstance
                                                                ELSE c.byId[k]]
BY DEF Caches, TakeAll

\* The other operations leave the map alone.
SameMap(c, d) == d \in Caches /\ d.ids = c.ids /\ d.byId = c.byId

LEMMA MarksOnly ==
    ASSUME NEW c \in Caches, NEW o \in Objects
    PROVE  /\ SameMap(c, Finalize(c, o)) /\ SameMap(c, MarkUnmodified(c, o))
           /\ SameMap(c, Notify(c, o)) /\ SameMap(c, Forget(c, o))
BY DEF Caches, SameMap, Finalize, MarkUnmodified, Notify, Forget

LEMMA EmptyTyped ==
    /\ EmptyCache \in Caches
    /\ EmptyCache.ids = [o \in Objects |-> NoKey] /\ EmptyCache.byId = [k \in Keys |-> NoInstance]
BY DEF EmptyCache, Caches

\* Steps that change neither the map nor who owns an instance.
LEMMA CacheKept ==
    ASSUME CacheOK, cache \in Caches, SameMap(cache, cache'),
           \A o \in Objects : (obj'[o].life = "session") <=> (obj[o].life = "session")
    PROVE  CacheOK'
BY DEF CacheOK, SameMap, Contains, Get

-----------------------------------------------------------------------------
(* The client, between the calls.                                          *)

LEMMA BetweenCalls ==
    ASSUME IInv, Idle
    PROVE  /\ stack = <<>> /\ reading = NoReading /\ fills = <<>> /\ merging = {}
           /\ depth = manual /\ (depth = 0 => db = saved)
<1>1. stack = <<>> /\ reading = NoReading
  BY DEF Idle, Running
<1>2. reading.why = "none"
  BY <1>1 DEF NoReading
<1>3. manual \in Nat
  BY BoundAssumption DEF IInv, TypeOK
<1>4. QED
  BY <1>1, <1>2, <1>3, Nothing DEF IInv, CallInv, ReadingOK, LevelsOK, MergingOK, SavedOK

LEMMA StillIdle ==
    ASSUME stack' = <<>>, reading' = NoReading, fills' = <<>>, merging' = {},
           depth' = manual', manual' \in Nat, depth' = 0 => db' = saved'
    PROVE  CallInv' /\ RowsOK' /\ FramesOK' /\ IdsOK'
<1>1. reading'.why = "none"
  BY DEF NoReading
<1>2. StackOK' /\ ReadingOK' /\ SavedOK' /\ IdsOK'
  BY <1>1 DEF StackOK, ReadingOK, SavedOK, IdsOK
<1>3. LevelsOK' /\ MergingOK'
  BY <1>1, Nothing DEF LevelsOK, MergingOK
<1>4. RowsOK' /\ FramesOK'
  BY <1>1 DEF RowsOK, FramesOK, FramesFit
<1>5. QED
  BY <1>2, <1>3, <1>4 DEF CallInv

\* A step of the client that only changes instances and cache.
LEMMA ClientStep ==
    ASSUME IInv, Idle, UNCHANGED sessionVars,
           obj' \in [Objects -> Object], cache' \in Caches, CacheOK', RefsOK'
    PROVE  IInv'
<1>1. CallInv' /\ RowsOK' /\ FramesOK' /\ IdsOK'
  BY BetweenCalls, StillIdle, BoundAssumption DEF sessionVars, IInv, TypeOK
<1>2. TypeOK'
  BY DEF IInv, TypeOK, sessionVars
<1>3. QED
  BY <1>1, <1>2 DEF IInv, DataInv

LEMMA NewInv == ASSUME IInv, NEW o \in Objects, New(o) PROVE IInv'
<1>1. obj \in [Objects -> Object] /\ cache \in Caches /\ CacheOK /\ RefsOK
  BY DEF IInv, TypeOK, DataInv
<1>2. NoObject \in Object
  BY ValueAssumption, BoundAssumption DEF NoObject, Object
<1>3. obj' \in [Objects -> Object]
  BY <1>1, <1>2 DEF New, Object
<1>4. CacheOK'
  BY <1>1, <1>2 DEF New, CacheOK, Contains, Get, Alive, NoObject, Object
<1>5. RefsOK'
  BY <1>1, SentinelAssumption DEF New, RefsOK, Alive, NoObject, Object
<1>6. QED
  BY <1>1, <1>3, <1>4, <1>5, ClientStep DEF New

LEMMA SetValInv ==
    ASSUME IInv, NEW o \in Objects, NEW v \in Vals, SetVal(o, v) PROVE IInv'
<1>1. obj \in [Objects -> Object] /\ cache \in Caches /\ CacheOK /\ RefsOK
  BY DEF IInv, TypeOK, DataInv
<1>2. SameMap(cache, cache')
  BY <1>1, MarksOnly DEF SetVal
<1>3. /\ obj' \in [Objects -> Object]
      /\ \A p \in Objects : obj'[p].life = obj[p].life /\ obj'[p].ref = obj[p].ref
  BY <1>1 DEF SetVal, Object
<1>4. CacheOK'
  BY <1>1, <1>2, <1>3, CacheKept
<1>5. RefsOK'
  BY <1>1, <1>3 DEF RefsOK, Alive, Object
<1>6. QED
  BY <1>2, <1>3, <1>4, <1>5, ClientStep DEF SetVal, SameMap

LEMMA SetRefInv ==
    ASSUME IInv, NEW o \in Objects, NEW p \in Objects \cup {NoInstance}, SetRef(o, p) PROVE IInv'
<1>1. obj \in [Objects -> Object] /\ cache \in Caches /\ CacheOK /\ RefsOK
  BY DEF IInv, TypeOK, DataInv
<1>2. SameMap(cache, cache')
  BY <1>1, MarksOnly DEF SetRef
<1>3. /\ obj' \in [Objects -> Object]
      /\ \A q \in Objects : /\ obj'[q].life = obj[q].life
                            /\ obj'[q].ref = IF q = o THEN p ELSE obj[q].ref
  BY <1>1 DEF SetRef, Object
<1>4. CacheOK'
  BY <1>1, <1>2, <1>3, CacheKept
<1>5. RefsOK'
  BY <1>1, <1>3 DEF RefsOK, Alive, Object, SetRef
<1>6. QED
  BY <1>2, <1>3, <1>4, <1>5, ClientStep DEF SetRef, SameMap

LEMMA DeleteInv == ASSUME IInv, NEW o \in Objects, Delete(o) PROVE IInv'
<1>1. obj \in [Objects -> Object] /\ cache \in Caches /\ CacheOK /\ RefsOK
  BY DEF IInv, TypeOK, DataInv
<1>2. SameMap(cache, cache')
  BY <1>1, MarksOnly DEF Delete
<1>3. NoObject \in Object /\ NoObject.life = "none"
  BY ValueAssumption, BoundAssumption DEF NoObject, Object
<1>4. obj' \in [Objects -> Object] /\ \A q \in Objects : obj'[q] = IF q = o THEN NoObject ELSE obj[q]
  BY <1>1, <1>3 DEF Delete
<1>5. CacheOK'
  BY <1>1, <1>2, <1>3, <1>4, CacheKept DEF Delete
<1>6. RefsOK'
  BY <1>1, <1>3, <1>4 DEF RefsOK, Alive, Object, Delete, Referenced
<1>7. QED
  BY <1>2, <1>4, <1>5, <1>6, ClientStep DEF Delete, SameMap

LEMMA RowsLess ==
    ASSUME NEW t \in Tables
    PROVE  /\ \A k : [t EXCEPT !.rows[k] = NoRow] \in Tables
           /\ \A gone : [t EXCEPT !.rows = [k \in Keys |-> IF k \in gone THEN NoRow ELSE @[k]]]
                          \in Tables
<1>1. /\ t = [rows |-> t.rows, seq |-> t.seq]
      /\ t.rows \in [Keys -> Rows \cup {NoRow}] /\ t.seq \in [Classes -> 0..MaxId]
  BY DEF Tables
<1>2. \A k : [t.rows EXCEPT ![k] = NoRow] \in [Keys -> Rows \cup {NoRow}]
  BY <1>1
<1>3. \A gone : [k \in Keys |-> IF k \in gone THEN NoRow ELSE t.rows[k]]
                   \in [Keys -> Rows \cup {NoRow}]
  BY <1>1
<1>4. QED
  BY <1>1, <1>2, <1>3 DEF Tables

LEMMA RemoveInv == ASSUME IInv, NEW o \in Objects, Remove(o) PROVE IInv'
<1>1. obj \in [Objects -> Object] /\ cache \in Caches /\ db \in Tables /\ CacheOK /\ RefsOK
  BY DEF IInv, TypeOK, DataInv
<1>2. /\ cache' \in Caches
      /\ cache'.ids = [cache.ids EXCEPT ![o] = NoKey]
      /\ cache'.byId = [k \in Keys |-> IF k = cache.ids[o] THEN NoInstance ELSE cache.byId[k]]
  BY <1>1, TakeOne DEF Remove
<1>3. /\ obj' \in [Objects -> Object]
      /\ \A q \in Objects : /\ obj'[q].life = IF q = o THEN "client" ELSE obj[q].life
                            /\ obj'[q].ref = obj[q].ref
  BY <1>1 DEF Remove, Object
<1>4. CacheOK'
  <2>1. cache.ids \in [Objects -> Keys \cup {NoKey}] /\ cache.byId \in [Keys -> Objects \cup {NoInstance}]
    BY <1>1 DEF Caches
  <2>2. \A q \in Objects : Contains(cache', q) <=> obj'[q].life = "session"
    BY <1>1, <1>2, <1>3, <2>1 DEF CacheOK, Contains
  <2>3. \A k \in Keys : Get(cache', k) # NoInstance => cache'.ids[Get(cache', k)] = k
    BY <1>1, <1>2, <2>1 DEF CacheOK, Get
  <2>4. QED
    BY <2>2, <2>3 DEF CacheOK
<1>5. RefsOK'
  BY <1>1, <1>3 DEF RefsOK, Alive, Object, Remove, Contains, CacheOK
<1>6. db' \in Tables /\ (saved' = db' \/ (saved' = saved /\ depth # 0))
  <2>1. [db EXCEPT !.rows[KeyOf(o)] = NoRow] \in Tables
    BY <1>1, RowsLess
  <2>2. /\ db' = [db EXCEPT !.rows[KeyOf(o)] = NoRow]
        /\ saved' = IF depth = 0 THEN db' ELSE saved
    BY DEF Remove
  <2>3. QED
    BY <2>1, <2>2
<1>7. CallInv' /\ RowsOK' /\ FramesOK' /\ IdsOK'
  BY <1>6, BetweenCalls, StillIdle, BoundAssumption DEF Remove, IInv, TypeOK
<1>8. TypeOK'
  BY <1>2, <1>3, <1>6 DEF IInv, TypeOK, Remove, Errors
<1>9. QED
  BY <1>4, <1>5, <1>7, <1>8 DEF IInv, DataInv

LEMMA RemoveFailsInv == ASSUME IInv, NEW o \in Objects, RemoveFails(o) PROVE IInv'
<1>1. CacheOK' /\ RefsOK'
  BY DEF RemoveFails, IInv, DataInv, CacheOK, RefsOK, Alive
<1>2. CallInv' /\ RowsOK' /\ FramesOK' /\ IdsOK'
  BY BetweenCalls, StillIdle, BoundAssumption DEF RemoveFails, IInv, TypeOK
<1>3. faults' \in 0..MaxFaults
  BY BoundAssumption DEF IInv, TypeOK, RemoveFails
<1>4. TypeOK'
  BY <1>3 DEF IInv, TypeOK, RemoveFails, Errors
<1>5. QED
  BY <1>1, <1>2, <1>4 DEF IInv, DataInv

LEMMA RemoveWhereInv ==
    ASSUME IInv, NEW c \in Classes, NEW v \in Vals, RemoveWhere(c, v) PROVE IInv'
<1> DEFINE given == Returned(RowsWith(c, v))
<1>1. obj \in [Objects -> Object] /\ cache \in Caches /\ db \in Tables /\ CacheOK /\ RefsOK
  BY DEF IInv, TypeOK, DataInv
<1>2. cache.ids \in [Objects -> Keys \cup {NoKey}] /\ cache.byId \in [Keys -> Objects \cup {NoInstance}]
  BY <1>1 DEF Caches
<1>3. given \in SUBSET Objects /\ \A o \in given : obj[o].life = "session"
  <2>1. ASSUME NEW o \in given PROVE o \in Objects /\ obj[o].life = "session"
    <3>1. PICK k \in Keys : o = Get(cache, k) /\ o # NoInstance
      BY DEF Returned, RowsWith
    <3>2. o \in Objects /\ cache.ids[o] = k
      BY <3>1, <1>1, <1>2 DEF Get, CacheOK
    <3>3. Contains(cache, o)
      BY <3>2, SentinelAssumption DEF Contains, Keys
    <3>4. QED
      BY <3>2, <3>3, <1>1 DEF CacheOK
  <2>2. QED
    BY <2>1
<1>4. /\ cache' = TakeAll(cache, given)
      /\ obj' = [o \in Objects |-> IF o \in given THEN [obj[o] EXCEPT !.life = "client"] ELSE obj[o]]
  BY DEF RemoveWhere
<1> HIDE DEF given
<1>5. /\ cache' \in Caches
      /\ cache'.ids = [o \in Objects |-> IF o \in given THEN NoKey ELSE cache.ids[o]]
      /\ cache'.byId = [k \in Keys |-> IF \E o \in given : cache.ids[o] = k THEN NoInstance
                                                                        ELSE cache.byId[k]]
  BY <1>1, <1>3, <1>4, TakeSome
<1>6. /\ obj' \in [Objects -> Object]
      /\ \A q \in Objects : /\ obj'[q].life = IF q \in given THEN "client" ELSE obj[q].life
                            /\ obj'[q].ref = obj[q].ref
  BY <1>1, <1>4 DEF Object
<1>7. CacheOK'
  <2>1. \A q \in Objects : Contains(cache', q) <=> obj'[q].life = "session"
    BY <1>1, <1>2, <1>5, <1>6 DEF CacheOK, Contains
  <2>2. ASSUME NEW k \in Keys, Get(cache', k) # NoInstance
        PROVE  cache'.ids[Get(cache', k)] = k
    <3>1. /\ ~\E o \in given : cache.ids[o] = k
          /\ Get(cache', k) = Get(cache, k)
      BY <1>5, <2>2 DEF Get
    <3>2. Get(cache, k) \in Objects /\ cache.ids[Get(cache, k)] = k
      BY <1>1, <1>2, <3>1, <2>2 DEF Get, CacheOK
    <3>3. QED
      BY <1>5, <3>1, <3>2
  <2>3. QED
    BY <2>1, <2>2 DEF CacheOK
<1>8. RefsOK'
  BY <1>1, <1>3, <1>6 DEF RefsOK, Alive, Object
<1>9. db' \in Tables /\ (saved' = db' \/ (saved' = saved /\ depth # 0))
  <2> DEFINE gone == RowsWith(c, v)
             rest == [db EXCEPT !.rows = [k \in Keys |-> IF k \in gone THEN NoRow ELSE @[k]]]
  <2>1. rest \in Tables
    BY <1>1, RowsLess
  <2>2. db' = rest /\ saved' = IF depth = 0 THEN rest ELSE saved
    BY DEF RemoveWhere
  <2> HIDE DEF rest
  <2>3. QED
    BY <2>1, <2>2
<1>10. CallInv' /\ RowsOK' /\ FramesOK' /\ IdsOK'
  BY <1>9, BetweenCalls, StillIdle, BoundAssumption DEF RemoveWhere, IInv, TypeOK
<1>11. TypeOK'
  BY <1>5, <1>6, <1>9 DEF IInv, TypeOK, RemoveWhere, Errors
<1>12. QED
  BY <1>7, <1>8, <1>10, <1>11 DEF IInv, DataInv

LEMMA ReopenInv == ASSUME IInv, Reopen PROVE IInv'
<1>1. obj \in [Objects -> Object] /\ cache \in Caches /\ CacheOK /\ RefsOK
  BY DEF IInv, TypeOK, DataInv
<1>2. NoObject \in Object /\ NoObject.life = "none"
  BY ValueAssumption, BoundAssumption DEF NoObject, Object
<1>3. /\ obj' \in [Objects -> Object]
      /\ \A q \in Objects : obj'[q] = IF Contains(cache, q) THEN NoObject ELSE obj[q]
  BY <1>1, <1>2 DEF Reopen
<1>4. CacheOK'
  BY <1>1, <1>2, <1>3, EmptyTyped DEF CacheOK, Reopen, Contains, Get
<1>5. RefsOK'
  BY <1>1, <1>2, <1>3 DEF RefsOK, Alive, Object, Reopen
<1>6. CallInv' /\ RowsOK' /\ FramesOK' /\ IdsOK'
  BY BetweenCalls, StillIdle, BoundAssumption DEF Reopen, IInv, TypeOK
<1>7. TypeOK'
  BY <1>3, EmptyTyped DEF IInv, TypeOK, Reopen, Errors
<1>8. QED
  BY <1>4, <1>5, <1>6, <1>7 DEF IInv, DataInv

LEMMA BeginInv == ASSUME IInv, BeginTransaction PROVE IInv'
<1>1. manual \in 0..MaxManual /\ manual' \in 0..MaxManual /\ depth = manual /\ depth' = manual'
      /\ depth' # 0
  BY BetweenCalls, BoundAssumption DEF BeginTransaction, Begun, IInv, TypeOK
<1>2. CallInv' /\ RowsOK' /\ FramesOK' /\ IdsOK'
  BY <1>1, BetweenCalls, StillIdle, BoundAssumption DEF BeginTransaction
<1>3. TypeOK'
  BY <1>1, BoundAssumption DEF IInv, TypeOK, BeginTransaction, Errors
<1>4. CacheOK' /\ RefsOK'
  BY DEF BeginTransaction, IInv, DataInv, CacheOK, RefsOK, Alive
<1>5. QED
  BY <1>2, <1>3, <1>4 DEF IInv, DataInv

LEMMA CommitInv == ASSUME IInv, CommitTransaction PROVE IInv'
<1>1. /\ manual \in 0..MaxManual /\ manual' \in 0..MaxManual
      /\ depth = manual /\ depth' = manual' /\ (depth' = 0 => depth = 1)
  BY BetweenCalls, BoundAssumption DEF CommitTransaction, Commits, IInv, TypeOK
<1>2. depth' = 0 => db' = saved'
  BY <1>1 DEF CommitTransaction, Commits
<1>3. CallInv' /\ RowsOK' /\ FramesOK' /\ IdsOK'
  BY <1>1, <1>2, BetweenCalls, StillIdle, BoundAssumption DEF CommitTransaction
<1>4. TypeOK'
  <2>1. saved' \in Tables /\ tracked' \in Seq(Objects)
    <3>1. db \in Tables /\ saved \in Tables /\ tracked \in Seq(Objects) /\ <<>> \in Seq(Objects)
      BY DEF IInv, TypeOK
    <3>2. (saved' = db \/ saved' = saved) /\ (tracked' = <<>> \/ tracked' = tracked)
      BY DEF CommitTransaction, Commits
    <3>3. QED
      BY <3>1, <3>2
  <2>2. QED
    BY <1>1, <2>1, BoundAssumption DEF IInv, TypeOK, CommitTransaction, Errors
<1>5. CacheOK' /\ RefsOK'
  BY DEF CommitTransaction, IInv, DataInv, CacheOK, RefsOK, Alive
<1>6. QED
  BY <1>3, <1>4, <1>5 DEF IInv, DataInv

-----------------------------------------------------------------------------
(* merge(): the steps of a running call.                                   *)

LEMMA FitCons ==
    ASSUME NEW f \in Frame, NEW s \in Seq(Frame), NEW living, NEW cached,
           FrameFits(f, living, cached), FramesFit(s, living, cached)
    PROVE  FramesFit(<<f>> \o s, living, cached)
<1>1. SUFFICES ASSUME NEW i \in 1..(Len(s) + 1)
               PROVE  FrameFits((<<f>> \o s)[i], living, cached)
  BY Cons DEF FramesFit
<1>2. CASE i = 1
  BY <1>2, Cons
<1>3. CASE i # 1
  <2>1. i - 1 \in 1..Len(s) /\ (<<f>> \o s)[i] = s[i - 1]
    BY <1>3, Cons
  <2>2. QED
    BY <2>1 DEF FramesFit
<1>4. QED
  BY <1>2, <1>3

LEMMA FitSplit ==
    ASSUME NEW s \in Seq(Frame), NEW living, NEW cached, FramesFit(s, living, cached), s # <<>>
    PROVE  FrameFits(Head(s), living, cached) /\ FramesFit(Tail(s), living, cached)
<1> DEFINE t == Tail(s)
           n == Len(s)
<1>1. n \in Nat /\ n # 0
  BY Split
<1>2. Head(s) = s[1]
  BY Split
<1>3. t \in Seq(Frame) /\ Len(t) = n - 1 /\ \A i \in 1..(n - 1) : t[i] = s[i + 1]
  BY Split
<1>4. \A i \in 1..n : FrameFits(s[i], living, cached)
  BY DEF FramesFit
<1> HIDE DEF t, n
<1>5. 1 \in 1..n /\ \A i \in 1..(n - 1) : i + 1 \in 1..n
  BY <1>1
<1>6. FrameFits(Head(s), living, cached)
  BY <1>2, <1>4, <1>5
<1>7. FramesFit(t, living, cached)
  BY <1>3, <1>4, <1>5 DEF FramesFit
<1>8. QED
  BY <1>6, <1>7 DEF t

\* What a step of a running call finds: rest are the frames below.
LEMMA InCall ==
    ASSUME IInv, StepsOf, NEW rest, rest = Tail(stack)
    PROVE  /\ Top \in Frame /\ rest \in Seq(Frame) /\ stack = <<Top>> \o rest
           /\ Len(rest) \in Nat /\ manual \in Nat
           /\ Waiting(rest) /\ MayTop(Top, rest) /\ Top.pc # "rollback"
           /\ depth = manual + IF Top.engaged THEN Len(rest) + 1 ELSE Len(rest)
           /\ merging = Merged(rest) \cup (IF Top.kind = "merge" THEN {Top.inst} ELSE {})
           /\ Distinct(rest) /\ (Top.kind = "merge" => Top.inst \notin Merged(rest))
           /\ reading = NoReading /\ fills = <<>> /\ RoomForIds
           /\ FrameFits(Top, Living, Cached(cache)) /\ FramesFit(rest, Living, Cached(cache))
<1>1. stack \in Seq(Frame) /\ stack # <<>> /\ reading = NoReading /\ fills = <<>>
  BY DEF StepsOf, IInv, TypeOK
<1>2. reading.why = "none" /\ manual \in Nat
  BY <1>1, BoundAssumption DEF NoReading, IInv, TypeOK
<1>3. Top \in Frame /\ rest \in Seq(Frame) /\ stack = <<Top>> \o rest
  BY <1>1, Split DEF Top
<1>4. Len(rest) \in Nat
  BY <1>3
<1>5. Waiting(rest) /\ MayTop(Top, rest) /\ Top.pc # "rollback" /\ RoomForIds
  BY <1>1, <1>2 DEF IInv, CallInv, DataInv, StackOK, IdsOK
<1>6. depth = manual + IF Top.engaged THEN Len(rest) + 1 ELSE Len(rest)
  BY <1>2, <1>3, LevelsCons DEF IInv, CallInv, LevelsOK
<1>7. /\ merging = Merged(rest) \cup (IF Top.kind = "merge" THEN {Top.inst} ELSE {})
      /\ Distinct(rest) /\ (Top.kind = "merge" => Top.inst \notin Merged(rest))
  BY <1>2, <1>3, MergedCons DEF IInv, CallInv, MergingOK
<1>8. FrameFits(Top, Living, Cached(cache)) /\ FramesFit(rest, Living, Cached(cache))
  BY <1>1, FitSplit DEF IInv, DataInv, FramesOK, Top
<1>9. QED
  BY <1>1, <1>2, <1>3, <1>4, <1>5, <1>6, <1>7, <1>8

\* What it leaves, if the call goes on with frame f on top of rest.
LEMMA GoesOn ==
    ASSUME NEW f \in Frame, NEW rest \in Seq(Frame), stack' = <<f>> \o rest,
           Waiting(rest), MayTop(f, rest), f.pc # "rollback",
           reading' = NoReading, fills' = <<>>, RoomForIds',
           depth' = manual' + IF f.engaged THEN Len(rest) + 1 ELSE Len(rest),
           merging' = Merged(rest) \cup (IF f.kind = "merge" THEN {f.inst} ELSE {}),
           Distinct(rest), f.kind = "merge" => f.inst \notin Merged(rest),
           depth' = 0 => db' = saved',
           FrameFits(f, Living', Cached(cache')), FramesFit(rest, Living', Cached(cache'))
    PROVE  CallInv' /\ RowsOK' /\ FramesOK' /\ IdsOK' /\ stack' \in Seq(Frame)
<1>1. reading'.why = "none"
  BY DEF NoReading
<1>2. stack' \in Seq(Frame) /\ Head(stack') = f /\ Tail(stack') = rest
  BY Cons
<1>3. StackOK'
  BY <1>2 DEF StackOK, Top
<1>4. LevelsOK'
  BY LevelsCons DEF LevelsOK
<1>5. MergingOK'
  BY <1>1, MergedCons DEF MergingOK
<1>6. ReadingOK' /\ SavedOK' /\ IdsOK'
  BY <1>1 DEF ReadingOK, SavedOK, IdsOK
<1>7. RowsOK'
  BY <1>1 DEF RowsOK
<1>8. FramesOK'
  BY FitCons DEF FramesOK
<1>9. QED
  BY <1>2, <1>3, <1>4, <1>5, <1>6, <1>7, <1>8 DEF CallInv

LEMMA Front == \A f \in Frame : <<f>> = <<f>> \o <<>> /\ <<>> \in Seq(Frame) /\ Len(<<>>) = 0
OBVIOUS

\* doMerge(o) is entered from below, which waits.
LEMMA EnterGoesOn ==
    ASSUME NEW o \in Objects, NEW rest \in Seq(Frame), Enter(o, rest), o \notin merging,
           obj \in [Objects -> Object], cache \in Caches, depth \in Nat,
           Waiting(rest), Alive(o), RoomForIds, merging = Merged(rest), Distinct(rest),
           depth = manual + Len(rest), manual \in Nat,
           reading = NoReading, fills = <<>>, FramesFit(rest, Living, Cached(cache)),
           UNCHANGED <<obj, cache, db, saved, reading, fills, manual>>
    PROVE  /\ CallInv' /\ RowsOK' /\ FramesOK' /\ IdsOK' /\ stack' \in Seq(Frame)
           /\ depth' \in Nat /\ merging' = merging \cup {o} /\ lastError' = "None"
<1> DEFINE f == NewFrame(o)
<1>1. f \in Frame /\ f.kind = "merge" /\ f.inst = o /\ f.engaged /\ f.result
      /\ f.pc \in {"refs", "return"} /\ (f.op = "Create" => ~Contains(cache, o))
  BY DEF NewFrame, Frame
<1>2. stack' = <<f>> \o rest /\ depth' = depth + 1 /\ merging' = merging \cup {o}
      /\ lastError' = "None"
  BY DEF Enter, Begun
<1>3. Living' = Living /\ Cached(cache') = Cached(cache) /\ RoomForIds'
  BY DEF Living, Alive, RoomForIds
<1> HIDE DEF f
<1>4. FrameFits(f, Living', Cached(cache'))
  BY <1>1, <1>3 DEF FrameFits, Living, Cached
<1>5. MayTop(f, rest) /\ f.pc # "rollback"
  BY <1>1 DEF MayTop
<1>6. Len(rest) \in Nat
  OBVIOUS
<1>7. depth' = manual' + IF f.engaged THEN Len(rest) + 1 ELSE Len(rest)
  BY <1>1, <1>2, <1>6
<1>8. depth' # 0 /\ depth' \in Nat
  BY <1>2
<1>9. QED
  BY <1>1, <1>2, <1>3, <1>4, <1>5, <1>7, <1>8, GoesOn

LEMMA MergeInv == ASSUME IInv, NEW o \in Objects, Merge(o) PROVE IInv'
<1>1. Enter(o, <<>>) /\ Idle /\ Alive(o) /\ RoomForIds
  BY DEF Merge
<1>2. /\ stack = <<>> /\ reading = NoReading /\ fills = <<>> /\ merging = {}
      /\ depth = manual /\ manual \in Nat
  BY <1>1, BetweenCalls, BoundAssumption DEF IInv, TypeOK
<1>3. UNCHANGED <<obj, cache, db, saved, tracked, reading, fills, ret, fatal, manual, undone, faults>>
  BY DEF Merge
<1>4. FramesFit(<<>>, Living, Cached(cache)) /\ <<>> \in Seq(Frame) /\ depth = manual + Len(<<>>)
  BY <1>2 DEF FramesFit
<1>5. /\ CallInv' /\ RowsOK' /\ FramesOK' /\ IdsOK' /\ stack' \in Seq(Frame)
      /\ depth' \in Nat /\ merging' = merging \cup {o} /\ lastError' = "None"
  BY <1>1, <1>2, <1>3, <1>4, Nothing, EnterGoesOn DEF IInv, TypeOK
<1>6. TypeOK'
  BY <1>3, <1>5 DEF IInv, TypeOK, Errors
<1>7. CacheOK' /\ RefsOK'
  BY <1>3 DEF IInv, DataInv, CacheOK, RefsOK, Alive
<1>8. QED
  BY <1>5, <1>6, <1>7 DEF IInv, DataInv

\* The instances, the cache and the tables are left alone.
DataKept == UNCHANGED <<obj, cache, db>>

LEMMA DataStill ==
    ASSUME IInv, DataKept
    PROVE  /\ CacheOK' /\ RefsOK' /\ RoomForIds' = RoomForIds
           /\ Living' = Living /\ Cached(cache') = Cached(cache)
BY DEF IInv, DataInv, DataKept, CacheOK, RefsOK, Alive, Living, RoomForIds

LEMMA MergeManyInv ==
    ASSUME IInv, NEW a \in Objects, NEW b \in Objects, MergeMany(a, b) PROVE IInv'
<1> DEFINE f == [kind |-> "many", inst |-> a, queue |-> <<a, b>>, op |-> "Update",
                 pc |-> "execute", engaged |-> TRUE, result |-> TRUE]
<1>1. /\ stack = <<>> /\ reading = NoReading /\ fills = <<>> /\ merging = {}
      /\ depth = manual /\ manual \in Nat
  BY BetweenCalls, BoundAssumption DEF IInv, TypeOK, MergeMany
<1>2. /\ stack' = <<f>> /\ depth' = depth + 1 /\ lastError' = "None" /\ RoomForIds /\ Alive(a) /\ Alive(b)
      /\ UNCHANGED <<obj, cache, db, saved, merging, tracked, reading, fills, ret, fatal, manual,
                     undone, faults>>
  BY DEF MergeMany, Begun
<1>3. f \in Frame /\ f.kind = "many" /\ f.engaged /\ f.result /\ f.pc = "execute"
  BY DEF Frame
<1>4. FrameFits(f, Living, Cached(cache))
  <2>1. \A i \in 1..Len(f.queue) : f.queue[i] = a \/ f.queue[i] = b
    OBVIOUS
  <2>2. QED
    BY <2>1, <1>2, <1>3 DEF FrameFits, Living
<1> HIDE DEF f
<1>5. stack' = <<f>> \o <<>> /\ <<>> \in Seq(Frame) /\ Len(<<>>) = 0
  BY <1>2, <1>3, Front
<1>6. MayTop(f, <<>>)
  BY <1>3 DEF MayTop
<1>7. DataKept
  BY <1>2 DEF DataKept
<1>8. FramesFit(<<>>, Living, Cached(cache))
  BY <1>5 DEF FramesFit
<1>9. depth' = manual' + Len(<<>>) + 1 /\ depth' # 0 /\ depth' \in Nat /\ Len(<<>>) + 1 = 1
  BY <1>1, <1>2, <1>5
<1>10. depth' = manual' + IF f.engaged THEN Len(<<>>) + 1 ELSE Len(<<>>)
  BY <1>3, <1>5, <1>9, <1>1, <1>2
<1>11. merging' = Merged(<<>>) \cup (IF f.kind = "merge" THEN {f.inst} ELSE {})
  BY <1>1, <1>2, <1>3, Nothing
<1>12. CallInv' /\ RowsOK' /\ FramesOK' /\ IdsOK' /\ stack' \in Seq(Frame)
  BY <1>1, <1>2, <1>3, <1>4, <1>5, <1>6, <1>7, <1>8, <1>9, <1>10, <1>11, Nothing, DataStill, GoesOn
<1>13. TypeOK'
  BY <1>2, <1>9, <1>12 DEF IInv, TypeOK, Errors
<1>14. QED
  BY <1>7, <1>12, <1>13, DataStill DEF IInv, DataInv

LEMMA DieInv == ASSUME IInv, NEW why \in Deaths, Die(why) PROVE IInv'
<1>1. UNCHANGED <<obj, cache, db, saved, depth, merging, tracked, lastError, stack, reading,
                  fills, ret, manual, undone, faults>>
  BY DEF Die
<1>2. TypeOK'
  BY <1>1 DEF IInv, TypeOK, Die
<1>3. CallInv'
  BY <1>1 DEF IInv, CallInv, StackOK, LevelsOK, MergingOK, ReadingOK, SavedOK, Top
<1>4. DataInv'
  BY <1>1 DEF IInv, DataInv, RowsOK, CacheOK, RefsOK, FramesOK, IdsOK, Alive, Living, RoomForIds
<1>5. QED
  BY <1>2, <1>3, <1>4 DEF IInv

LEMMA MergeReferencesInv == ASSUME IInv, MergeReferences PROVE IInv'
<1> DEFINE rest == Tail(stack)
           f == [Top EXCEPT !.pc = "execute"]
           o == obj[Top.inst].ref
<1>1. /\ StepsOf /\ Top.kind = "merge" /\ Top.pc = "refs"
      /\ IF NeedsMerge(o) THEN Enter(o, <<f>> \o rest)
                          ELSE stack' = <<f>> \o rest /\ UNCHANGED <<depth, merging, lastError>>
      /\ UNCHANGED <<obj, cache, db, saved, tracked, reading, fills, ret, fatal, manual, undone, faults>>
  BY DEF MergeReferences
<1>2. DataKept
  BY <1>1 DEF DataKept
<1> HIDE DEF rest
<1>3. /\ Top \in Frame /\ rest \in Seq(Frame) /\ Len(rest) \in Nat /\ manual \in Nat
      /\ Waiting(rest) /\ MayTop(Top, rest)
      /\ depth = manual + IF Top.engaged THEN Len(rest) + 1 ELSE Len(rest)
      /\ merging = Merged(rest) \cup (IF Top.kind = "merge" THEN {Top.inst} ELSE {})
      /\ Distinct(rest) /\ (Top.kind = "merge" => Top.inst \notin Merged(rest))
      /\ reading = NoReading /\ fills = <<>> /\ RoomForIds
      /\ FrameFits(Top, Living, Cached(cache)) /\ FramesFit(rest, Living, Cached(cache))
  BY <1>1, InCall DEF rest
<1>4. /\ f \in Frame /\ f.kind = "merge" /\ f.inst = Top.inst /\ f.pc = "execute"
      /\ f.engaged /\ f.result /\ Top.engaged /\ f.op = Top.op
  BY <1>1, <1>3 DEF MayTop, Frame
<1>5. Top.inst \in Objects /\ Alive(Top.inst) /\ FrameFits(f, Living, Cached(cache))
  BY <1>1, <1>3, <1>4 DEF FrameFits, Living, Frame
<1> HIDE DEF f
<1>6. MayTop(f, rest)
  BY <1>4 DEF MayTop
<1>7. depth = manual + Len(rest) + 1 /\ depth \in Nat /\ depth # 0
  BY <1>3, <1>4
<1>8. /\ CallInv' /\ RowsOK' /\ FramesOK' /\ IdsOK' /\ stack' \in Seq(Frame)
      /\ depth' \in Nat /\ merging' \subseteq Objects /\ lastError' \in Errors
  <2>1. CASE NeedsMerge(o)
    <3>1. Enter(o, <<f>> \o rest) /\ o \notin merging /\ o # NoInstance
      BY <1>1, <2>1 DEF NeedsMerge
    <3>2. o \in Objects /\ Alive(o)
      BY <1>5, <3>1 DEF IInv, TypeOK, DataInv, RefsOK, Object
    <3> HIDE DEF o
    <3>3. /\ <<f>> \o rest \in Seq(Frame) /\ Waiting(<<f>> \o rest)
          /\ Len(<<f>> \o rest) = Len(rest) + 1
      BY <1>3, <1>4, <1>6, WaitingCons, Cons
    <3>4. merging = Merged(<<f>> \o rest) /\ Distinct(<<f>> \o rest)
      BY <1>1, <1>3, <1>4, MergedCons
    <3>5. FramesFit(<<f>> \o rest, Living, Cached(cache))
      BY <1>3, <1>4, <1>5, FitCons
    <3>6. depth = manual + Len(<<f>> \o rest)
      BY <1>7, <3>3, <1>3
    <3>7. /\ CallInv' /\ RowsOK' /\ FramesOK' /\ IdsOK' /\ stack' \in Seq(Frame)
          /\ depth' \in Nat /\ merging' = merging \cup {o} /\ lastError' = "None"
      BY <1>1, <1>3, <1>7, <3>1, <3>2, <3>3, <3>4, <3>5, <3>6, EnterGoesOn DEF IInv, TypeOK
    <3>8. QED
      BY <3>2, <3>7 DEF IInv, TypeOK, Errors
  <2>2. CASE ~NeedsMerge(o)
    <3>1. stack' = <<f>> \o rest /\ UNCHANGED <<depth, merging, lastError>>
      BY <1>1, <2>2
    <3>2. depth' = manual' + IF f.engaged THEN Len(rest) + 1 ELSE Len(rest)
      BY <1>1, <1>3, <1>4, <1>7, <3>1
    <3>3. CallInv' /\ RowsOK' /\ FramesOK' /\ IdsOK' /\ stack' \in Seq(Frame)
      BY <1>1, <1>2, <1>3, <1>4, <1>5, <1>6, <1>7, <3>1, <3>2, DataStill, GoesOn
    <3>4. QED
      BY <1>7, <3>1, <3>3 DEF IInv, TypeOK
  <2>3. QED
    BY <2>1, <2>2
<1>9. TypeOK'
  BY <1>1, <1>8 DEF IInv, TypeOK
<1>10. QED
  BY <1>2, <1>8, <1>9, DataStill DEF IInv, DataInv

LEMMA MergeNextInv == ASSUME IInv, MergeNext PROVE IInv'
<1> DEFINE rest == Tail(stack)
           f == [Top EXCEPT !.queue = Tail(@)]
           o == Head(Top.queue)
<1>1. /\ StepsOf /\ Top.kind = "many" /\ Top.pc = "execute" /\ Top.queue # <<>>
      /\ Enter(o, <<f>> \o rest)
      /\ UNCHANGED <<obj, cache, db, saved, tracked, reading, fills, ret, fatal, manual, undone, faults>>
  BY DEF MergeNext
<1>2. DataKept
  BY <1>1 DEF DataKept
<1> HIDE DEF rest
<1>3. /\ Top \in Frame /\ rest \in Seq(Frame) /\ Len(rest) \in Nat /\ manual \in Nat
      /\ Waiting(rest) /\ MayTop(Top, rest)
      /\ depth = manual + IF Top.engaged THEN Len(rest) + 1 ELSE Len(rest)
      /\ merging = Merged(rest) \cup (IF Top.kind = "merge" THEN {Top.inst} ELSE {})
      /\ Distinct(rest)
      /\ reading = NoReading /\ fills = <<>> /\ RoomForIds
      /\ FrameFits(Top, Living, Cached(cache)) /\ FramesFit(rest, Living, Cached(cache))
  BY <1>1, InCall DEF rest
<1>4. /\ Top.queue \in Seq(Objects) /\ o \in Objects /\ Tail(Top.queue) \in Seq(Objects)
      /\ Alive(o) /\ \A i \in 1..Len(Tail(Top.queue)) : Tail(Top.queue)[i] \in Living
  <2> DEFINE q == Top.queue
             n == Len(q)
  <2>1. q \in Seq(Objects) /\ q # <<>> /\ \A i \in 1..n : q[i] \in Living
    BY <1>1, <1>3 DEF Frame, FrameFits
  <2> HIDE DEF q
  <2>2. Head(q) \in Objects /\ Tail(q) \in Seq(Objects)
    BY <2>1, Split
  <2>3. n \in Nat /\ n # 0
    BY <2>1, Split
  <2>4. Head(q) = q[1]
    BY <2>1, Split
  <2>5. Len(Tail(q)) = n - 1 /\ \A i \in 1..(n - 1) : Tail(q)[i] = q[i + 1]
    BY <2>1, Split
  <2> HIDE DEF n
  <2>6. 1 \in 1..n /\ \A i \in 1..(n - 1) : i + 1 \in 1..n
    BY <2>3
  <2>7. QED
    BY <2>1, <2>2, <2>4, <2>5, <2>6 DEF q, Living
<1>5. /\ f \in Frame /\ f.kind = "many" /\ f.queue = Tail(Top.queue)
      /\ f.pc = "execute" /\ f.engaged /\ f.result /\ Top.engaged
  BY <1>1, <1>3, <1>4 DEF MayTop, Frame
<1>6. FrameFits(f, Living, Cached(cache))
  BY <1>4, <1>5 DEF FrameFits
<1> HIDE DEF f, o
<1>7. rest = <<>>
  BY <1>1, <1>3 DEF MayTop
<1>8. MayTop(f, rest)
  BY <1>5, <1>7 DEF MayTop
<1>9. depth = manual + Len(rest) + 1 /\ depth \in Nat
  BY <1>3, <1>5
<1>10. /\ <<f>> \o rest \in Seq(Frame) /\ Waiting(<<f>> \o rest)
      /\ Len(<<f>> \o rest) = Len(rest) + 1
  BY <1>3, <1>5, <1>8, WaitingCons, Cons
<1>11. merging = {} /\ merging = Merged(<<f>> \o rest) /\ Distinct(<<f>> \o rest)
  BY <1>1, <1>3, <1>5, <1>7, MergedCons, Nothing
<1>12. FramesFit(<<f>> \o rest, Living, Cached(cache))
  BY <1>3, <1>5, <1>6, FitCons
<1>13. depth = manual + Len(<<f>> \o rest)
  BY <1>9, <1>10, <1>3
<1>14. /\ CallInv' /\ RowsOK' /\ FramesOK' /\ IdsOK' /\ stack' \in Seq(Frame)
       /\ depth' \in Nat /\ merging' = merging \cup {o} /\ lastError' = "None"
  BY <1>1, <1>3, <1>4, <1>9, <1>10, <1>11, <1>12, <1>13, EnterGoesOn DEF IInv, TypeOK
<1>15. TypeOK'
  BY <1>1, <1>4, <1>14 DEF IInv, TypeOK, Errors
<1>16. QED
  BY <1>2, <1>14, <1>15, DataStill DEF IInv, DataInv

\* The statement of a frame has failed, or has found no row.
LEMMA FailsInv ==
    ASSUME IInv, NEW error \in Errors, StepsOf, Top.kind = "merge", Top.pc = "execute",
           Fails(error), faults' \in 0..MaxFaults
    PROVE  IInv'
<1> DEFINE rest == Tail(stack)
           f == [Top EXCEPT !.pc = "return", !.result = FALSE]
<1>1. /\ stack' = <<f>> \o rest /\ lastError' = error
      /\ UNCHANGED <<obj, cache, db, saved, depth, merging, tracked, reading, fills, ret, fatal,
                     manual, undone>>
  BY DEF Fails
<1>2. DataKept
  BY <1>1 DEF DataKept
<1> HIDE DEF rest
<1>3. /\ Top \in Frame /\ rest \in Seq(Frame) /\ Len(rest) \in Nat /\ manual \in Nat
      /\ Waiting(rest) /\ MayTop(Top, rest)
      /\ depth = manual + IF Top.engaged THEN Len(rest) + 1 ELSE Len(rest)
      /\ merging = Merged(rest) \cup (IF Top.kind = "merge" THEN {Top.inst} ELSE {})
      /\ Distinct(rest) /\ (Top.kind = "merge" => Top.inst \notin Merged(rest))
      /\ reading = NoReading /\ fills = <<>> /\ RoomForIds
      /\ FrameFits(Top, Living, Cached(cache)) /\ FramesFit(rest, Living, Cached(cache))
  BY InCall DEF rest
<1>4. /\ f \in Frame /\ f.kind = "merge" /\ f.inst = Top.inst /\ f.pc = "return"
      /\ f.engaged /\ Top.engaged
  BY <1>3 DEF MayTop, Frame
<1> HIDE DEF f
<1>5. FrameFits(f, Living, Cached(cache)) /\ MayTop(f, rest)
  BY <1>3, <1>4 DEF FrameFits, MayTop
<1>6. /\ depth' = manual' + IF f.engaged THEN Len(rest) + 1 ELSE Len(rest)
      /\ depth' \in Nat /\ depth' # 0
  BY <1>1, <1>3, <1>4
<1>7. CallInv' /\ RowsOK' /\ FramesOK' /\ IdsOK' /\ stack' \in Seq(Frame)
  BY <1>1, <1>2, <1>3, <1>4, <1>5, <1>6, DataStill, GoesOn
<1>8. TypeOK'
  BY <1>1, <1>6, <1>7 DEF IInv, TypeOK
<1>9. QED
  BY <1>2, <1>7, <1>8, DataStill DEF IInv, DataInv

LEMMA UpdateMissesInv == ASSUME IInv, UpdateMisses PROVE IInv'
<1>1. faults' \in 0..MaxFaults /\ "UnsynchronizedEntity" \in Errors
  BY DEF UpdateMisses, IInv, TypeOK, Errors
<1>2. QED
  BY <1>1, FailsInv DEF UpdateMisses

LEMMA StatementFailsInv == ASSUME IInv, StatementFails PROVE IInv'
<1>1. faults' \in 0..MaxFaults /\ "Provider" \in Errors
  BY BoundAssumption DEF StatementFails, IInv, TypeOK, Errors
<1>2. QED
  BY <1>1, FailsInv DEF StatementFails

\* The statement of a frame has succeeded; what it stored is a row.
LEMMA SucceedsInv ==
    ASSUME IInv, StepsOf, Top.kind = "merge", Top.pc = "execute",
           NEW dbAfter \in Tables, Succeeds(dbAfter), RoomForIds',
           obj' \in [Objects -> Object], cache' \in Caches, CacheOK', RefsOK', Living' = Living,
           Cached(cache') \subseteq Cached(cache) \cup {Top.inst}
    PROVE  IInv'
<1> DEFINE rest == Tail(stack)
           f == [Top EXCEPT !.pc = "return", !.engaged = FALSE]
<1>1. /\ stack' = <<f>> \o rest /\ lastError' = "None" /\ db' = dbAfter /\ Commits(dbAfter)
      /\ UNCHANGED <<merging, reading, fills, ret, fatal, manual, undone, faults>>
  BY DEF Succeeds
<1> HIDE DEF rest
<1>2. /\ Top \in Frame /\ rest \in Seq(Frame) /\ Len(rest) \in Nat /\ manual \in Nat
      /\ Waiting(rest) /\ MayTop(Top, rest)
      /\ depth = manual + IF Top.engaged THEN Len(rest) + 1 ELSE Len(rest)
      /\ merging = Merged(rest) \cup (IF Top.kind = "merge" THEN {Top.inst} ELSE {})
      /\ Distinct(rest) /\ (Top.kind = "merge" => Top.inst \notin Merged(rest))
      /\ reading = NoReading /\ fills = <<>> /\ RoomForIds
      /\ FrameFits(Top, Living, Cached(cache)) /\ FramesFit(rest, Living, Cached(cache))
  BY InCall DEF rest
<1>3. /\ f \in Frame /\ f.kind = "merge" /\ f.inst = Top.inst /\ f.pc = "return" /\ ~f.engaged
      /\ Top.engaged
  BY <1>2 DEF MayTop, Frame
<1> HIDE DEF f
<1>4. FrameFits(f, Living, Cached(cache')) /\ MayTop(f, rest)
  BY <1>2, <1>3 DEF FrameFits, MayTop
<1>5. FramesFit(rest, Living, Cached(cache'))
  <2>1. SUFFICES ASSUME NEW i \in 1..Len(rest) PROVE FrameFits(rest[i], Living, Cached(cache'))
    BY DEF FramesFit
  <2>2. rest[i].kind = "merge" => rest[i].inst # Top.inst
    BY <1>2 DEF Merged, MergeAt
  <2>3. FrameFits(rest[i], Living, Cached(cache))
    BY <1>2 DEF FramesFit
  <2>4. QED
    BY <2>2, <2>3 DEF FrameFits
<1>6. depth = manual + Len(rest) + 1 /\ depth' = depth - 1
  BY <1>1, <1>2, <1>3 DEF Commits
<1>7. /\ depth' = manual' + IF f.engaged THEN Len(rest) + 1 ELSE Len(rest)
      /\ depth' \in Nat
  BY <1>1, <1>2, <1>3, <1>6
<1>8. depth' = 0 => db' = saved'
  BY <1>1, <1>2, <1>6 DEF Commits
<1>9. CallInv' /\ RowsOK' /\ FramesOK' /\ IdsOK' /\ stack' \in Seq(Frame)
  BY <1>1, <1>2, <1>3, <1>4, <1>5, <1>7, <1>8, GoesOn
<1>10. saved' \in Tables /\ tracked' \in Seq(Objects)
  <2>1. saved \in Tables /\ tracked \in Seq(Objects) /\ <<>> \in Seq(Objects)
    BY DEF IInv, TypeOK
  <2>2. (saved' = dbAfter \/ saved' = saved) /\ (tracked' = <<>> \/ tracked' = tracked)
    BY <1>1 DEF Commits
  <2>3. QED
    BY <2>1, <2>2
<1>11. TypeOK'
  BY <1>1, <1>7, <1>9, <1>10 DEF IInv, TypeOK, Errors
<1>12. QED
  BY <1>9, <1>11 DEF IInv, DataInv

LEMMA RowsTyped ==
    ASSUME obj \in [Objects -> Object], NEW o \in Objects
    PROVE  RowOf(o) \in Rows
<1>1. obj[o].val \in Vals /\ obj[o].ref \in Objects \cup {NoInstance}
  BY DEF Object
<1>2. RefId(o) \in SqlNull..MaxId
  BY <1>1, BoundAssumption DEF RefId, Object, SqlNull
<1>3. QED
  BY <1>1, <1>2 DEF RowOf, Rows

LEMMA UpdateInv == ASSUME IInv, Update PROVE IInv'
<1> DEFINE dbAfter == [db EXCEPT !.rows[KeyOf(Top.inst)] = RowOf(Top.inst)]
<1>1. /\ StepsOf /\ Top.kind = "merge" /\ Top.pc = "execute"
      /\ Succeeds(dbAfter) /\ cache' = MarkUnmodified(cache, Top.inst) /\ obj' = obj
  BY DEF Update
<1>2. Top.inst \in Objects /\ RoomForIds
  BY <1>1, InCall DEF Frame
<1>3. obj \in [Objects -> Object] /\ cache \in Caches /\ db \in Tables /\ CacheOK /\ RefsOK
  BY DEF IInv, TypeOK, DataInv
<1>4. dbAfter \in Tables /\ dbAfter.seq = db.seq
  <2>1. RowOf(Top.inst) \in Rows
    BY <1>2, <1>3, RowsTyped
  <2>2. QED
    BY <1>3, <2>1 DEF Tables
<1> HIDE DEF dbAfter
<1>5. SameMap(cache, cache')
  BY <1>1, <1>2, <1>3, MarksOnly
<1>6. CacheOK'
  BY <1>1, <1>3, <1>5, CacheKept
<1>7. RefsOK' /\ Living' = Living
  BY <1>1, <1>3 DEF RefsOK, Alive, Living
<1>8. Cached(cache') = Cached(cache)
  BY <1>5 DEF SameMap, Cached, Contains
<1>9. RoomForIds'
  <2>1. db'.seq = db.seq
    BY <1>1, <1>4 DEF Succeeds
  <2>2. \A c \in Classes : {o \in Objects : ClassOf[o] = c /\ Alive(o)' /\ ~Contains(cache', o)}
                           = {o \in Objects : ClassOf[o] = c /\ Alive(o) /\ ~Contains(cache, o)}
    BY <1>1, <1>5 DEF Alive, Contains, SameMap
  <2>3. QED
    BY <1>2, <2>1, <2>2 DEF RoomForIds
<1>10. QED
  BY <1>1, <1>3, <1>4, <1>5, <1>6, <1>7, <1>8, <1>9, SucceedsInv DEF SameMap

LEMMA InsertionInv == ASSUME IInv, Insertion PROVE IInv'
<1> DEFINE o == Top.inst
           c == ClassOf[o]
           id == db.seq[c] + 1
           notified == IF obj[o].id # id THEN Notify(cache, o) ELSE cache
           dbAfter == [rows |-> [db.rows EXCEPT ![<<c, id>>] = RowOf(o)],
                       seq |-> [db.seq EXCEPT ![c] = id]]
           New0(d) == {p \in Objects : ClassOf[p] = d /\ Alive(p) /\ ~Contains(cache, p)}
           New1(d) == {p \in Objects : ClassOf[p] = d /\ Alive(p)' /\ ~Contains(cache', p)}
<1>1. /\ StepsOf /\ Top.kind = "merge" /\ Top.pc = "execute" /\ Top.op = "Create"
      /\ Succeeds(dbAfter)
      /\ obj' = [obj EXCEPT ![o].id = id, ![o].life = "session"]
      /\ cache' = Finalize(Insert(notified, o, <<c, id>>), o)
  BY DEF Insertion
<1>2. o \in Objects /\ Alive(o) /\ ~Contains(cache, o) /\ RoomForIds
  BY <1>1, InCall DEF Frame, FrameFits, Living, Cached
<1> HIDE DEF o
<1>3. /\ obj \in [Objects -> Object] /\ cache \in Caches /\ CacheOK /\ RefsOK
      /\ db = [rows |-> db.rows, seq |-> db.seq]
      /\ db.rows \in [Keys -> Rows \cup {NoRow}] /\ db.seq \in [Classes -> 0..MaxId]
  BY DEF IInv, TypeOK, DataInv, Tables
<1>4. c \in Classes
  BY <1>2, ClassAssumption
<1>5. \A d \in Classes : IsFiniteSet(New0(d)) /\ Cardinality(New0(d)) \in Nat
                         /\ db.seq[d] + Cardinality(New0(d)) <= MaxId
  <2>1. \A d \in Classes : New0(d) \in SUBSET Objects
    OBVIOUS
  <2>2. \A d \in Classes : IsFiniteSet(New0(d))
    BY <2>1, BoundAssumption, FS_Subset
  <2>3. QED
    BY <1>2, <2>2, FS_CardinalityType DEF RoomForIds
<1>6. o \in New0(c)
  BY <1>2
<1>7. Cardinality(New0(c)) # 0 /\ Cardinality(New0(c) \ {o}) = Cardinality(New0(c)) - 1
  BY <1>4, <1>5, <1>6, FS_RemoveElement, FS_EmptySet
<1>8. id \in 1..MaxId /\ <<c, id>> \in Keys
  <2>1. db.seq[c] \in 0..MaxId /\ db.seq[c] + Cardinality(New0(c)) <= MaxId
    BY <1>3, <1>4, <1>5
  <2>2. Cardinality(New0(c)) \in Nat /\ Cardinality(New0(c)) # 0
    BY <1>4, <1>5, <1>7
  <2> HIDE DEF New0, c
  <2>3. id \in 1..MaxId
    BY <2>1, <2>2, BoundAssumption
  <2>4. QED
    BY <2>3, <1>4 DEF Keys
<1>9. SameMap(cache, notified) /\ ~Contains(notified, o)
  BY <1>2, <1>3, MarksOnly DEF SameMap, Contains
<1> HIDE DEF New0, New1, id, c, notified
<1>10. /\ cache' \in Caches
       /\ cache'.ids = [cache.ids EXCEPT ![o] = <<c, id>>]
       /\ cache'.byId = [cache.byId EXCEPT ![<<c, id>>] = o]
  <2>1. /\ Insert(notified, o, <<c, id>>) \in Caches
        /\ Insert(notified, o, <<c, id>>).ids = [cache.ids EXCEPT ![o] = <<c, id>>]
        /\ Insert(notified, o, <<c, id>>).byId = [cache.byId EXCEPT ![<<c, id>>] = o]
    BY <1>2, <1>8, <1>9, InsertNew DEF SameMap
  <2>2. QED
    BY <1>1, <1>2, <2>1, MarksOnly DEF SameMap
<1>11. /\ obj' \in [Objects -> Object]
       /\ \A p \in Objects : /\ obj'[p].life = IF p = o THEN "session" ELSE obj[p].life
                             /\ obj'[p].ref = obj[p].ref
  <2>1. id \in 0..MaxId
    BY <1>8, BoundAssumption
  <2>2. obj' = [obj EXCEPT ![o] = [obj[o] EXCEPT !.id = id, !.life = "session"]]
    BY <1>1, <1>2, <1>3
  <2>3. /\ [obj[o] EXCEPT !.id = id, !.life = "session"] \in Object
        /\ [obj[o] EXCEPT !.id = id, !.life = "session"].life = "session"
        /\ [obj[o] EXCEPT !.id = id, !.life = "session"].ref = obj[o].ref
    BY <1>2, <1>3, <2>1 DEF Object
  <2>4. QED
    BY <1>2, <1>3, <2>2, <2>3
<1>12. dbAfter \in Tables /\ dbAfter.seq = [db.seq EXCEPT ![c] = id]
  <2>1. RowOf(o) \in Rows
    BY <1>2, <1>3, RowsTyped
  <2>2. /\ [db.rows EXCEPT ![<<c, id>>] = RowOf(o)] \in [Keys -> Rows \cup {NoRow}]
        /\ [db.seq EXCEPT ![c] = id] \in [Classes -> 0..MaxId]
    <3>1. id \in 0..MaxId
      BY <1>8, BoundAssumption
    <3>2. [db.rows EXCEPT ![<<c, id>>] = RowOf(o)] \in [Keys -> Rows \cup {NoRow}]
      BY <1>3, <1>8, <2>1
    <3>3. [db.seq EXCEPT ![c] = id] \in [Classes -> 0..MaxId]
      BY <1>3, <1>4, <3>1
    <3>4. QED
      BY <3>2, <3>3
  <2>3. QED
    BY <2>2 DEF Tables
<1> HIDE DEF dbAfter
<1>13. CacheOK'
  <2>1. cache.ids \in [Objects -> Keys \cup {NoKey}] /\ cache.byId \in [Keys -> Objects \cup {NoInstance}]
    BY <1>3 DEF Caches
  <2>2. <<c, id>> # NoKey /\ cache.ids[o] = NoKey /\ \A k \in Keys : k # NoKey
    BY <1>2, <1>8, SentinelAssumption DEF Keys, Contains
  <2>3. \A p \in Objects : Contains(cache', p) <=> obj'[p].life = "session"
    BY <1>2, <1>3, <1>10, <1>11, <2>1, <2>2 DEF CacheOK, Contains
  <2>4. ASSUME NEW k \in Keys, Get(cache', k) # NoInstance
        PROVE  cache'.ids[Get(cache', k)] = k
    <3>1. CASE k = <<c, id>>
      BY <3>1, <1>2, <1>10, <2>1 DEF Get
    <3>2. CASE k # <<c, id>>
      <4>1. Get(cache', k) = Get(cache, k) /\ Get(cache, k) \in Objects
        BY <3>2, <1>10, <2>1, <2>4 DEF Get
      <4>2. cache.ids[Get(cache, k)] = k
        BY <1>3, <4>1, <2>4 DEF CacheOK
      <4>3. Get(cache, k) # o
        BY <4>2, <2>2
      <4>4. QED
        BY <1>10, <2>1, <4>1, <4>2, <4>3
    <3>3. QED
      BY <3>1, <3>2
  <2>5. QED
    BY <2>3, <2>4 DEF CacheOK
<1>14. /\ \A p \in Objects : Alive(p)' <=> Alive(p)
       /\ Living' = Living
  BY <1>2, <1>11 DEF Alive, Living
<1>15. RefsOK'
  BY <1>3, <1>11, <1>14 DEF RefsOK, Object
<1>16. Cached(cache') \subseteq Cached(cache) \cup {o}
  BY <1>3, <1>10 DEF Cached, Contains, Caches
<1>17. RoomForIds'
  <2>1. \A d \in Classes : New1(d) = IF d = c THEN New0(d) \ {o} ELSE New0(d)
    <3>1. \A p \in Objects : Contains(cache', p) <=> Contains(cache, p) \/ p = o
      BY <1>2, <1>3, <1>8, <1>10, SentinelAssumption DEF Contains, Caches, Keys
    <3>2. c = ClassOf[o]
      BY DEF c
    <3>3. QED
      BY <1>14, <3>1, <3>2 DEF New0, New1
  <2>2. db'.seq = [db.seq EXCEPT ![c] = id]
    BY <1>1, <1>12 DEF Succeeds
  <2>3. ASSUME NEW d \in Classes PROVE db'.seq[d] + Cardinality(New1(d)) <= MaxId
    <3>1. CASE d = c
      <4>1. db'.seq[d] = db.seq[c] + 1
        BY <1>3, <1>4, <2>2, <3>1 DEF id
      <4>2. Cardinality(New1(d)) = Cardinality(New0(c)) - 1
        BY <1>7, <2>1, <3>1
      <4>3. db.seq[c] \in Int /\ Cardinality(New0(c)) \in Int
            /\ db.seq[c] + Cardinality(New0(c)) <= MaxId
        BY <1>3, <1>4, <1>5
      <4>4. QED
        BY <4>1, <4>2, <4>3, BoundAssumption
    <3>2. CASE d # c
      BY <1>3, <1>5, <2>1, <2>2, <3>2
    <3>3. QED
      BY <3>1, <3>2
  <2>4. QED
    BY <2>3 DEF RoomForIds, New1
<1>18. QED
  BY <1>1, <1>10, <1>11, <1>12, <1>13, <1>14, <1>15, <1>16, <1>17, SucceedsInv DEF o

\* The innermost frame returns; its caller goes on, or gives up with it.
LEMMA PopInv ==
    ASSUME IInv, StepsOf, NEW result \in BOOLEAN, Pop(result), DataKept,
           UNCHANGED <<reading, fills, manual>>,
           depth' = manual + Len(Tail(stack)), merging' = Merged(Tail(stack)),
           depth' = 0 => db' = saved'
    PROVE  /\ CallInv' /\ DataInv' /\ depth' \in Nat
           /\ stack' \in Seq(Frame) /\ ret' \in BOOLEAN
<1> DEFINE rest == Tail(stack)
           f == Head(rest)
           g == IF result THEN f ELSE [f EXCEPT !.pc = "return", !.result = FALSE]
           s == Tail(rest)
<1>1. /\ stack' = IF rest # <<>> /\ ~result
                  THEN <<[f EXCEPT !.pc = "return", !.result = FALSE]>> \o s ELSE rest
      /\ ret' = IF rest = <<>> THEN result ELSE ret
  BY DEF Pop
<1>2. depth' = manual + Len(rest) /\ merging' = Merged(rest)
  OBVIOUS
<1> HIDE DEF rest
<1>3. /\ rest \in Seq(Frame) /\ Len(rest) \in Nat /\ manual \in Nat
      /\ Waiting(rest) /\ Distinct(rest)
      /\ reading = NoReading /\ fills = <<>> /\ RoomForIds
      /\ FramesFit(rest, Living, Cached(cache))
  BY InCall DEF rest
<1>4. depth' \in Nat /\ ret' \in BOOLEAN
  BY <1>1, <1>2, <1>3 DEF IInv, TypeOK
<1>5. CacheOK' /\ RefsOK'
  BY DataStill
<1>6. CASE rest = <<>>
  <2>1. stack' = <<>> /\ depth' = manual' /\ merging' = {}
    BY <1>1, <1>2, <1>3, <1>6, Nothing
  <2>2. CallInv' /\ RowsOK' /\ FramesOK' /\ IdsOK'
    BY <1>3, <2>1, StillIdle
  <2>3. QED
    BY <1>4, <1>5, <2>1, <2>2 DEF DataInv
<1>7. CASE rest # <<>>
  <2>1. /\ f \in Frame /\ s \in Seq(Frame) /\ rest = <<f>> \o s
        /\ Waiting(s) /\ f.pc = "execute" /\ f.engaged /\ f.result
        /\ f.kind = "many" => s = <<>>
    BY <1>3, <1>7, Split, WaitingSplit
  <2>2. FrameFits(f, Living, Cached(cache)) /\ FramesFit(s, Living, Cached(cache))
    BY <1>3, <1>7, FitSplit
  <2>3. Len(s) \in Nat /\ Len(rest) = Len(s) + 1
    BY <1>3, <1>7, Split
  <2> HIDE DEF s
  <2>4. stack' = <<g>> \o s
    BY <1>1, <1>7, <2>1
  <2>5. g \in Frame /\ g.kind = f.kind /\ g.inst = f.inst /\ g.engaged /\ g.queue = f.queue
        /\ g.op = f.op /\ (g.pc = "return" \/ g = f)
    BY <2>1 DEF Frame
  <2> HIDE DEF g, f
  <2>6. MayTop(g, s) /\ g.pc # "rollback"
    BY <2>1, <2>5 DEF MayTop
  <2>7. FrameFits(g, Living, Cached(cache))
    BY <2>2, <2>5 DEF FrameFits
  <2>8. depth' = manual' + IF g.engaged THEN Len(s) + 1 ELSE Len(s)
    BY <1>2, <2>3, <2>5
  <2>9. /\ merging' = Merged(s) \cup (IF g.kind = "merge" THEN {g.inst} ELSE {})
        /\ Distinct(s) /\ (g.kind = "merge" => g.inst \notin Merged(s))
    BY <1>2, <1>3, <2>1, <2>5, MergedCons
  <2>10. CallInv' /\ RowsOK' /\ FramesOK' /\ IdsOK' /\ stack' \in Seq(Frame)
    BY <1>3, <2>1, <2>2, <2>4, <2>5, <2>6, <2>7, <2>8, <2>9, DataStill, GoesOn
  <2>11. QED
    BY <1>4, <1>5, <2>10 DEF DataInv
<1>8. QED
  BY <1>6, <1>7

\* The outermost level rolls back: below it there is nothing.
LEMMA RollbackStarts ==
    ASSUME IInv, NEW list \in Seq(Objects), RollsBackOuter(list), fills = <<>>, reading = NoReading,
           UNCHANGED <<obj, cache, saved, fills>>, manual' = 0, merging' = {},
           \/ stack' = <<>>
           \/ \E f \in Frame : /\ stack' = <<f>> \o <<>>
                               /\ f.pc = "rollback" /\ f.engaged
    PROVE  /\ CallInv' /\ DataInv' /\ depth' \in Nat /\ db' \in Tables /\ undone' \subseteq Keys
           /\ stack' \in Seq(Frame) /\ reading' \in Readings
<1>1. /\ depth' = 1 /\ db' = saved' /\ reading' = [why |-> "rollback", queue |-> list]
      /\ undone' \subseteq Keys
  BY DEF RollsBackOuter, IInv, TypeOK
<1>2. reading' \in Readings /\ reading'.why = "rollback" /\ reading' # NoReading
  BY <1>1 DEF Readings, NoReading
<1>3. /\ stack' \in Seq(Frame)
      /\ stack' # <<>> => /\ Tail(stack') = <<>> /\ Head(stack').pc = "rollback"
                          /\ Head(stack').engaged
  <2>1. CASE stack' = <<>>
    BY <2>1
  <2>2. ASSUME NEW f \in Frame, stack' = <<f>> \o <<>>, f.pc = "rollback", f.engaged
        PROVE  /\ stack' \in Seq(Frame)
               /\ Tail(stack') = <<>> /\ Head(stack').pc = "rollback" /\ Head(stack').engaged
    <3>1. <<>> \in Seq(Frame)
      OBVIOUS
    <3>2. <<f>> \o <<>> \in Seq(Frame) /\ Head(<<f>> \o <<>>) = f /\ Tail(<<f>> \o <<>>) = <<>>
      BY <3>1, Cons
    <3>3. QED
      BY <3>2, <2>2
  <2>3. QED
    BY <2>1, <2>2
<1>4. StackOK'
  BY <1>2, <1>3, Nothing DEF StackOK, MayTop, Top
<1>5. LevelsOK' /\ MergingOK' /\ SavedOK' /\ ReadingOK'
  BY <1>1, <1>2, <1>3 DEF LevelsOK, MergingOK, SavedOK, ReadingOK, Top
<1>6. RowsOK' /\ FramesOK' /\ IdsOK'
  BY <1>2 DEF RowsOK, FramesOK, IdsOK
<1>7. CacheOK' /\ RefsOK'
  BY DEF IInv, DataInv, CacheOK, RefsOK, Alive
<1>8. QED
  BY <1>1, <1>2, <1>3, <1>4, <1>5, <1>6, <1>7 DEF CallInv, DataInv, IInv, TypeOK

LEMMA RollbackInv == ASSUME IInv, RollbackTransaction PROVE IInv'
<1>1. /\ Idle /\ manual > 0 /\ manual' = manual - 1 /\ lastError' = "None" /\ ret' = TRUE
      /\ UNCHANGED <<obj, cache, saved, merging, tracked, stack, fills, fatal, faults>>
  BY DEF RollbackTransaction
<1>2. /\ stack = <<>> /\ reading = NoReading /\ fills = <<>> /\ merging = {}
      /\ depth = manual /\ (depth = 0 => db = saved)
  BY <1>1, BetweenCalls
<1>3. manual \in 0..MaxManual /\ manual \in Nat /\ manual' \in 0..MaxManual /\ manual' \in Nat
  BY <1>1, BoundAssumption DEF IInv, TypeOK
<1>4. CASE RollsBackInner
  <2>1. depth' = manual' /\ depth' # 0 /\ UNCHANGED <<db, undone, reading>>
    BY <1>1, <1>2, <1>3, <1>4 DEF RollsBackInner
  <2>2. CallInv' /\ RowsOK' /\ FramesOK' /\ IdsOK'
    BY <1>1, <1>2, <1>3, <2>1, StillIdle
  <2>3. CacheOK' /\ RefsOK'
    BY <1>1, <2>1, DataStill DEF DataKept
  <2>4. TypeOK'
    BY <1>1, <1>3, <2>1 DEF IInv, TypeOK, Errors
  <2>5. QED
    BY <2>2, <2>3, <2>4 DEF IInv, DataInv
<1>5. CASE RollsBackOuter(tracked)
  <2>1. manual' = 0
    BY <1>1, <1>2, <1>3, <1>5 DEF RollsBackOuter
  <2>2. tracked \in Seq(Objects)
    BY DEF IInv, TypeOK
  <2>3. /\ CallInv' /\ DataInv' /\ depth' \in Nat /\ db' \in Tables /\ undone' \subseteq Keys
        /\ stack' \in Seq(Frame) /\ reading' \in Readings
    BY <1>1, <1>2, <1>5, <2>1, <2>2, RollbackStarts
  <2>4. TypeOK'
    BY <1>1, <1>3, <2>3 DEF IInv, TypeOK, Errors
  <2>5. QED
    BY <2>3, <2>4 DEF IInv
<1>6. QED
  BY <1>4, <1>5 DEF RollbackTransaction

LEMMA MergeReturnsInv == ASSUME IInv, MergeReturns PROVE IInv'
<1> DEFINE rest == Tail(stack)
           f == [Top EXCEPT !.pc = "rollback"]
<1>1. /\ StepsOf /\ Top.kind = "merge" /\ Top.pc = "return"
      /\ merging' = merging \ {Top.inst} /\ tracked' = Append(tracked, Top.inst)
      /\ UNCHANGED <<obj, cache, saved, fills, fatal, manual, faults>>
  BY DEF MergeReturns
<1> HIDE DEF rest
<1>2. /\ Top \in Frame /\ rest \in Seq(Frame) /\ Len(rest) \in Nat /\ manual \in Nat
      /\ Waiting(rest) /\ MayTop(Top, rest)
      /\ depth = manual + IF Top.engaged THEN Len(rest) + 1 ELSE Len(rest)
      /\ merging = Merged(rest) \cup (IF Top.kind = "merge" THEN {Top.inst} ELSE {})
      /\ Distinct(rest) /\ (Top.kind = "merge" => Top.inst \notin Merged(rest))
      /\ reading = NoReading /\ fills = <<>>
  BY <1>1, InCall DEF rest
<1>3. merging' = Merged(rest)
  BY <1>1, <1>2
<1>4. Top.inst \in Objects /\ Top.result \in BOOLEAN
  BY <1>2 DEF Frame
<1>5. tracked' \in Seq(Objects) /\ merging' \subseteq Objects
  BY <1>1, <1>4 DEF IInv, TypeOK
<1>6. ASSUME Pop(Top.result), depth' = manual + Len(rest), UNCHANGED <<db, undone, reading>>,
             lastError' \in Errors, depth' = 0 => db' = saved'
      PROVE  IInv'
  <2>1. /\ CallInv' /\ DataInv' /\ depth' \in Nat
        /\ stack' \in Seq(Frame) /\ ret' \in BOOLEAN
    BY <1>1, <1>3, <1>4, <1>6, PopInv DEF rest, DataKept
  <2>2. TypeOK'
    BY <1>1, <1>5, <1>6, <2>1 DEF IInv, TypeOK
  <2>3. QED
    BY <2>1, <2>2 DEF IInv
<1>7. CASE /\ ~Top.engaged /\ Pop(Top.result)
           /\ UNCHANGED <<db, undone, depth, reading, lastError>>
  <2>1. depth' = manual + Len(rest) /\ lastError' \in Errors /\ (depth' = 0 => db' = saved')
    BY <1>1, <1>2, <1>7 DEF IInv, TypeOK, CallInv, SavedOK
  <2>2. QED
    BY <1>6, <1>7, <2>1
<1>8. CASE Top.engaged /\ RollsBackInner /\ Pop(Top.result) /\ lastError' = "None"
  <2>1. depth = manual + Len(rest) + 1 /\ depth > 1 /\ depth' = depth - 1
        /\ UNCHANGED <<db, undone, reading>>
    BY <1>2, <1>8 DEF RollsBackInner
  <2>2. depth' = manual + Len(rest) /\ depth' # 0 /\ lastError' \in Errors
    BY <1>2, <1>8, <2>1 DEF Errors
  <2>3. QED
    BY <1>6, <1>8, <2>1, <2>2
<1>9. CASE /\ Top.engaged /\ RollsBackOuter(tracked')
           /\ stack' = <<f>> \o rest /\ lastError' = "None" /\ ret' = ret
  <2>1. depth = 1
    BY <1>9 DEF RollsBackOuter
  <2>2. Len(rest) = 0 /\ manual = 0
    BY <1>2, <1>9, <2>1
  <2>3. rest = <<>>
    BY <1>2, <2>2
  <2>4. f \in Frame /\ f.pc = "rollback" /\ f.engaged
    BY <1>2, <1>9 DEF Frame
  <2>5. merging' = {}
    BY <1>3, <2>3, Nothing
  <2> HIDE DEF f
  <2>6. \E g \in Frame : stack' = <<g>> \o <<>> /\ g.pc = "rollback" /\ g.engaged
    BY <1>9, <2>3, <2>4
  <2>7. /\ CallInv' /\ DataInv' /\ depth' \in Nat /\ db' \in Tables /\ undone' \subseteq Keys
        /\ stack' \in Seq(Frame) /\ reading' \in Readings
    BY <1>1, <1>2, <1>5, <1>9, <2>2, <2>5, <2>6, RollbackStarts
  <2>8. TypeOK'
    BY <1>1, <1>5, <1>9, <2>7 DEF IInv, TypeOK, Errors
  <2>9. QED
    BY <2>7, <2>8 DEF IInv
<1>10. QED
  BY <1>7, <1>8, <1>9 DEF MergeReturns, rest

LEMMA MergeManyCommitsInv == ASSUME IInv, MergeManyCommits PROVE IInv'
<1> DEFINE rest == Tail(stack)
<1>1. /\ StepsOf /\ Top.kind = "many" /\ Top.pc = "execute"
      /\ Commits(db) /\ Pop(TRUE) /\ lastError' = "None"
      /\ UNCHANGED <<obj, cache, db, merging, reading, fills, fatal, manual, undone, faults>>
  BY DEF MergeManyCommits
<1> HIDE DEF rest
<1>2. /\ rest \in Seq(Frame) /\ Len(rest) \in Nat /\ manual \in Nat /\ MayTop(Top, rest)
      /\ depth = manual + IF Top.engaged THEN Len(rest) + 1 ELSE Len(rest)
      /\ merging = Merged(rest) \cup (IF Top.kind = "merge" THEN {Top.inst} ELSE {})
  BY <1>1, InCall DEF rest
<1>3. depth = manual + Len(rest) + 1 /\ merging' = Merged(rest)
  BY <1>1, <1>2 DEF MayTop
<1>4. depth' = manual + Len(rest) /\ (depth' = 0 => db' = saved')
  BY <1>1, <1>2, <1>3 DEF Commits
<1>5. /\ CallInv' /\ DataInv' /\ depth' \in Nat
      /\ stack' \in Seq(Frame) /\ ret' \in BOOLEAN
  BY <1>1, <1>3, <1>4, PopInv DEF rest, DataKept
<1>6. saved' \in Tables /\ tracked' \in Seq(Objects)
  <2>1. db \in Tables /\ saved \in Tables /\ tracked \in Seq(Objects) /\ <<>> \in Seq(Objects)
    BY DEF IInv, TypeOK
  <2>2. (saved' = db \/ saved' = saved) /\ (tracked' = <<>> \/ tracked' = tracked)
    BY <1>1 DEF Commits
  <2>3. QED
    BY <2>1, <2>2
<1>7. TypeOK'
  BY <1>1, <1>5, <1>6 DEF IInv, TypeOK, Errors
<1>8. QED
  BY <1>5, <1>7 DEF IInv

LEMMA MergeManyRollsBackInv == ASSUME IInv, MergeManyRollsBack PROVE IInv'
<1> DEFINE rest == Tail(stack)
           f == [Top EXCEPT !.pc = "rollback"]
<1>1. /\ StepsOf /\ Top.kind = "many" /\ Top.pc = "return" /\ lastError' = "None"
      /\ UNCHANGED <<obj, cache, saved, merging, tracked, fills, fatal, manual, faults>>
  BY DEF MergeManyRollsBack
<1> HIDE DEF rest
<1>2. /\ Top \in Frame /\ rest \in Seq(Frame) /\ Len(rest) \in Nat /\ manual \in Nat
      /\ MayTop(Top, rest)
      /\ depth = manual + IF Top.engaged THEN Len(rest) + 1 ELSE Len(rest)
      /\ merging = Merged(rest) \cup (IF Top.kind = "merge" THEN {Top.inst} ELSE {})
      /\ reading = NoReading /\ fills = <<>>
  BY <1>1, InCall DEF rest
<1>3. Top.engaged /\ rest = <<>> /\ depth = manual + Len(rest) + 1
  BY <1>1, <1>2 DEF MayTop
<1>4. merging' = Merged(rest) /\ merging' = {}
  BY <1>1, <1>2, <1>3, Nothing
<1>5. CASE RollsBackInner /\ Pop(FALSE)
  <2>1. depth > 1 /\ depth' = depth - 1 /\ UNCHANGED <<db, undone, reading>>
    BY <1>5 DEF RollsBackInner
  <2>2. depth' = manual + Len(rest) /\ depth' # 0
    BY <1>2, <1>3, <2>1
  <2>3. /\ CallInv' /\ DataInv' /\ depth' \in Nat
        /\ stack' \in Seq(Frame) /\ ret' \in BOOLEAN
    BY <1>1, <1>4, <1>5, <2>1, <2>2, PopInv DEF rest, DataKept
  <2>4. TypeOK'
    BY <1>1, <2>1, <2>3 DEF IInv, TypeOK, Errors
  <2>5. QED
    BY <2>3, <2>4 DEF IInv
<1>6. CASE RollsBackOuter(tracked) /\ stack' = <<f>> \o rest /\ ret' = ret
  <2>1. manual = 0
    BY <1>2, <1>3, <1>6 DEF RollsBackOuter
  <2>2. f \in Frame /\ f.pc = "rollback" /\ f.engaged
    BY <1>2, <1>3 DEF Frame
  <2> HIDE DEF f
  <2>3. \E g \in Frame : stack' = <<g>> \o <<>> /\ g.pc = "rollback" /\ g.engaged
    BY <1>3, <1>6, <2>2
  <2>4. tracked \in Seq(Objects)
    BY DEF IInv, TypeOK
  <2>5. /\ CallInv' /\ DataInv' /\ depth' \in Nat /\ db' \in Tables /\ undone' \subseteq Keys
        /\ stack' \in Seq(Frame) /\ reading' \in Readings
    BY <1>1, <1>2, <1>4, <1>6, <2>1, <2>3, <2>4, RollbackStarts
  <2>6. TypeOK'
    BY <1>1, <1>6, <2>5 DEF IInv, TypeOK, Errors
  <2>7. QED
    BY <2>5, <2>6 DEF IInv
<1>7. QED
  BY <1>5, <1>6 DEF MergeManyRollsBack, rest

-----------------------------------------------------------------------------
(* Reading: a select between the calls, or the loop of a rollback.         *)

LEMMA WhatIsRead ==
    ASSUME IInv, reading # NoReading
    PROVE  \/ reading.why = "rollback" /\ reading.queue \in Seq(Objects)
           \/ /\ reading.why = "select" /\ reading.queue \in Seq(Keys)
              /\ \A i \in 1..Len(reading.queue) : db.rows[reading.queue[i]] # NoRow
<1>1. \/ reading \in [why : {"rollback"}, queue : Seq(Objects)]
      \/ reading \in [why : {"select"}, queue : Seq(Keys)]
  BY DEF IInv, TypeOK, Readings
<1>2. QED
  BY <1>1 DEF IInv, DataInv, RowsOK

LEMMA ReadGoesOn ==
    ASSUME IInv, reading # NoReading, UNCHANGED fillVars,
           reading'.why = reading.why, reading' \in Readings,
           reading.why = "select" =>
               \A i \in 1..Len(reading'.queue) : db.rows[reading'.queue[i]] # NoRow,
           fills' \in Seq(Fill), \A i \in 1..Len(fills') : db.rows[fills'[i].key] # NoRow,
           obj' \in [Objects -> Object], cache' \in Caches, CacheOK', RefsOK'
    PROVE  IInv'
<1>1. UNCHANGED <<db, saved, depth, merging, tracked, lastError, stack, ret, fatal, manual,
                  undone, faults>>
  BY DEF fillVars
<1>2. reading.why \in {"rollback", "select"} /\ reading' # NoReading
  BY WhatIsRead DEF NoReading
<1>3. TypeOK'
  BY <1>1 DEF IInv, TypeOK
<1>4. StackOK' /\ LevelsOK' /\ MergingOK' /\ SavedOK'
  BY <1>1 DEF IInv, CallInv, StackOK, LevelsOK, MergingOK, SavedOK, Top
<1>5. ReadingOK'
  BY <1>1, <1>2 DEF IInv, CallInv, ReadingOK, Top
<1>6. RowsOK'
  BY <1>1 DEF RowsOK
<1>7. FramesOK' /\ IdsOK'
  BY <1>2 DEF FramesOK, IdsOK
<1>8. QED
  BY <1>3, <1>4, <1>5, <1>6, <1>7 DEF IInv, CallInv, DataInv

\* A fill begins: the one that needs it will find the instance in the cache.
LEMMA PushFillOK ==
    ASSUME IInv, NEW o \in Objects, NEW k \in Keys, db.rows[k] # NoRow,
           NEW overwrite \in BOOLEAN, NEW fresh \in BOOLEAN, PushFill(o, k, overwrite, fresh)
    PROVE  fills' \in Seq(Fill) /\ \A i \in 1..Len(fills') : db.rows[fills'[i].key] # NoRow
<1> DEFINE f == [inst |-> o, key |-> k, overwrite |-> overwrite, fresh |-> fresh, read |-> FALSE]
           g == [FillTop EXCEPT !.read = TRUE]
           s == Tail(fills)
           caller == IF fills = <<>> THEN <<>> ELSE <<g>> \o s
<1>1. f \in Fill /\ f.key = k /\ fills' = <<f>> \o caller
  BY DEF Fill, PushFill
<1>2. fills \in Seq(Fill) /\ \A i \in 1..Len(fills) : db.rows[fills[i].key] # NoRow
  BY DEF IInv, TypeOK, DataInv, RowsOK
<1> HIDE DEF f
<1>3. caller \in Seq(Fill) /\ \A i \in 1..Len(caller) : db.rows[caller[i].key] # NoRow
  <2>1. CASE fills = <<>>
    <3>1. caller = <<>>
      BY <2>1
    <3>2. QED
      BY <3>1
  <2>2. CASE fills # <<>>
    <3> DEFINE n == Len(fills)
    <3>1. FillTop \in Fill /\ s \in Seq(Fill)
      BY <1>2, <2>2, Split DEF FillTop
    <3>2. g \in Fill /\ g.key = FillTop.key
      BY <3>1 DEF Fill
    <3>3. n \in Nat /\ n # 0
      BY <1>2, <2>2, Split
    <3>4. FillTop = fills[1]
      BY <1>2, <2>2, Split DEF FillTop
    <3>5. Len(s) = n - 1 /\ \A i \in 1..(n - 1) : s[i] = fills[i + 1]
      BY <1>2, <2>2, Split
    <3>6. caller = <<g>> \o s
      BY <2>2
    <3>7. \A i \in 1..n : db.rows[fills[i].key] # NoRow
      BY <1>2
    <3> HIDE DEF g, s, caller, n
    <3>8. 1 \in 1..n /\ \A i \in 1..(n - 1) : i + 1 \in 1..n
      BY <3>3
    <3>9. db.rows[g.key] # NoRow /\ \A i \in 1..(n - 1) : db.rows[s[i].key] # NoRow
      BY <3>2, <3>4, <3>5, <3>7, <3>8
    <3>10. /\ caller \in Seq(Fill) /\ Len(caller) = n
           /\ \A i \in 1..n : caller[i] = IF i = 1 THEN g ELSE s[i - 1]
      BY <3>1, <3>2, <3>3, <3>5, <3>6, Cons
    <3>11. \A i \in 1..n : i # 1 => i - 1 \in 1..(n - 1)
      BY <3>3
    <3>12. QED
      BY <3>9, <3>10, <3>11
  <2>3. QED
    BY <2>1, <2>2
<1> HIDE DEF caller
<1>4. /\ fills' \in Seq(Fill) /\ Len(fills') = Len(caller) + 1
      /\ \A i \in 1..(Len(caller) + 1) : fills'[i] = IF i = 1 THEN f ELSE caller[i - 1]
  BY <1>1, <1>3, Cons
<1>5. \A i \in 1..(Len(caller) + 1) : i # 1 => i - 1 \in 1..Len(caller)
  BY <1>3
<1>6. QED
  BY <1>1, <1>3, <1>4, <1>5

LEMMA MakeOK ==
    ASSUME IInv, NEW k \in Keys, db.rows[k] # NoRow, Make(k)
    PROVE  /\ fills' \in Seq(Fill) /\ \A i \in 1..Len(fills') : db.rows[fills'[i].key] # NoRow
           /\ obj' \in [Objects -> Object] /\ cache' \in Caches /\ CacheOK' /\ RefsOK'
<1>1. /\ obj \in [Objects -> Object] /\ cache \in Caches /\ CacheOK /\ RefsOK
      /\ cache.ids \in [Objects -> Keys \cup {NoKey}] /\ cache.byId \in [Keys -> Objects \cup {NoInstance}]
  BY DEF IInv, TypeOK, DataInv, Caches
<1>2. PICK o \in FreeAddresses(k[1]) :
        /\ obj' = [obj EXCEPT ![o] = [NoObject EXCEPT !.life = "session", !.id = k[2]]]
        /\ cache' = Insert(cache, o, k)
        /\ PushFill(o, k, FALSE, TRUE)
  BY DEF Make
<1>3. o \in Objects /\ ~Alive(o) /\ ~Contains(cache, o)
  BY <1>1, <1>2 DEF FreeAddresses, CacheOK, Alive
<1>4. k[2] \in 0..MaxId
  BY BoundAssumption DEF Keys
<1> DEFINE new == [NoObject EXCEPT !.life = "session", !.id = k[2]]
<1>5. new \in Object /\ new.life = "session" /\ new.ref = NoInstance
  BY <1>4, ValueAssumption DEF NoObject, Object
<1>6. obj' = [obj EXCEPT ![o] = new]
  BY <1>2
<1> HIDE DEF new
<1>7. /\ obj' \in [Objects -> Object]
      /\ \A p \in Objects : obj'[p] = IF p = o THEN new ELSE obj[p]
  BY <1>1, <1>3, <1>5, <1>6
<1>8. /\ cache' \in Caches
      /\ cache'.ids = [cache.ids EXCEPT ![o] = k]
      /\ cache'.byId = [cache.byId EXCEPT ![k] = o]
  BY <1>1, <1>2, <1>3, InsertNew
<1>9. cache.ids[o] = NoKey /\ \A l \in Keys : l # NoKey
  BY <1>3, SentinelAssumption DEF Contains, Keys
<1>10. CacheOK'
  <2>1. \A p \in Objects : Contains(cache', p) <=> obj'[p].life = "session"
    BY <1>1, <1>3, <1>5, <1>7, <1>8, <1>9 DEF CacheOK, Contains
  <2>2. ASSUME NEW l \in Keys, Get(cache', l) # NoInstance
        PROVE  cache'.ids[Get(cache', l)] = l
    <3>1. CASE l = k
      BY <3>1, <1>1, <1>3, <1>8 DEF Get
    <3>2. CASE l # k
      <4>1. Get(cache', l) = Get(cache, l) /\ Get(cache, l) \in Objects
        BY <3>2, <1>1, <1>8, <2>2 DEF Get
      <4>2. cache.ids[Get(cache, l)] = l
        BY <1>1, <4>1, <2>2 DEF CacheOK
      <4>3. Get(cache, l) # o
        BY <4>2, <1>9
      <4>4. QED
        BY <1>1, <1>8, <4>1, <4>2, <4>3
    <3>3. QED
      BY <3>1, <3>2
  <2>3. QED
    BY <2>1, <2>2 DEF CacheOK
<1>11. RefsOK'
  BY <1>1, <1>3, <1>5, <1>7 DEF RefsOK, Alive, Object
<1>12. fills' \in Seq(Fill) /\ \A i \in 1..Len(fills') : db.rows[fills'[i].key] # NoRow
  BY <1>2, <1>3, PushFillOK
<1>13. QED
  BY <1>7, <1>8, <1>10, <1>11, <1>12

\* While something is filled, the row it comes from is there.
LEMMA Filling ==
    ASSUME IInv, FillSteps
    PROVE  /\ reading # NoReading /\ fills \in Seq(Fill) /\ fills # <<>>
           /\ FillTop \in Fill /\ FillRow \in Rows
           /\ Tail(fills) \in Seq(Fill) /\ \A i \in 1..Len(Tail(fills)) : db.rows[Tail(fills)[i].key] # NoRow
<1>1. fills \in Seq(Fill) /\ fills # <<>> /\ reading # NoReading
  BY DEF FillSteps, IInv, TypeOK, CallInv, ReadingOK
<1>2. FillTop \in Fill /\ Tail(fills) \in Seq(Fill)
  BY <1>1, Split DEF FillTop
<1> DEFINE n == Len(fills)
           s == Tail(fills)
<1>3. n \in Nat /\ n # 0
  BY <1>1, Split
<1>4. FillTop = fills[1]
  BY <1>1, Split DEF FillTop
<1>5. Len(s) = n - 1 /\ \A i \in 1..(n - 1) : s[i] = fills[i + 1]
  BY <1>1, Split
<1>6. \A i \in 1..n : db.rows[fills[i].key] # NoRow
  BY DEF IInv, DataInv, RowsOK
<1> HIDE DEF n, s
<1>7. 1 \in 1..n /\ \A i \in 1..(n - 1) : i + 1 \in 1..n
  BY <1>3
<1>8. db.rows[FillTop.key] # NoRow /\ \A i \in 1..Len(s) : db.rows[s[i].key] # NoRow
  BY <1>4, <1>5, <1>6, <1>7
<1>9. FillRow \in Rows
  BY <1>2, <1>8 DEF FillRow, Fill, IInv, TypeOK, Tables
<1>10. QED
  BY <1>1, <1>2, <1>8, <1>9 DEF s

LEMMA FillEndsInv ==
    ASSUME IInv, FillSteps, NEW ref \in Objects \cup {NoInstance}, FillEnds(ref),
           Alive(FillTop.inst) /\ ref # NoInstance => Alive(ref)
    PROVE  IInv'
<1> DEFINE o == FillTop.inst
<1>1. /\ obj \in [Objects -> Object] /\ cache \in Caches /\ CacheOK /\ RefsOK
  BY DEF IInv, TypeOK, DataInv
<1>2. o \in Objects /\ FillRow.val \in Vals
  BY Filling DEF Fill, Rows
<1>3. /\ obj' = [obj EXCEPT ![o].val = FillRow.val, ![o].ref = ref]
      /\ cache' = IF FillTop.fresh THEN Finalize(cache, o) ELSE MarkUnmodified(cache, o)
      /\ fills' = Tail(fills) /\ UNCHANGED fillVars /\ reading' = reading
  BY DEF FillEnds
<1>4. Alive(o) /\ ref # NoInstance => Alive(ref)
  OBVIOUS
<1> HIDE DEF o
<1>5. SameMap(cache, cache')
  BY <1>1, <1>2, <1>3, MarksOnly
<1>6. /\ obj' \in [Objects -> Object]
      /\ \A p \in Objects : /\ obj'[p].life = obj[p].life
                            /\ obj'[p].ref = IF p = o THEN ref ELSE obj[p].ref
  <2>1. obj' = [obj EXCEPT ![o] = [obj[o] EXCEPT !.val = FillRow.val, !.ref = ref]]
    BY <1>1, <1>2, <1>3
  <2>2. /\ [obj[o] EXCEPT !.val = FillRow.val, !.ref = ref] \in Object
        /\ [obj[o] EXCEPT !.val = FillRow.val, !.ref = ref].life = obj[o].life
        /\ [obj[o] EXCEPT !.val = FillRow.val, !.ref = ref].ref = ref
    BY <1>1, <1>2 DEF Object
  <2>3. QED
    BY <1>1, <1>2, <2>1, <2>2
<1>7. CacheOK'
  BY <1>1, <1>5, <1>6, CacheKept
<1>8. RefsOK'
  BY <1>1, <1>4, <1>6 DEF RefsOK, Alive, Object
<1>9. reading' \in Readings /\ (reading.why = "select" =>
               \A i \in 1..Len(reading'.queue) : db.rows[reading'.queue[i]] # NoRow)
  BY <1>3 DEF IInv, TypeOK, DataInv, RowsOK
<1>10. QED
  BY <1>3, <1>5, <1>6, <1>7, <1>8, <1>9, Filling, ReadGoesOn DEF SameMap

LEMMA FillNullInv == ASSUME IInv, FillNull PROVE IInv'
<1>1. FillSteps /\ FillEnds(obj[FillTop.inst].ref)
  BY DEF FillNull
<1>2. FillTop.inst \in Objects /\ obj \in [Objects -> Object] /\ RefsOK
  BY <1>1, Filling DEF Fill, IInv, TypeOK, DataInv
<1>3. obj[FillTop.inst].ref \in Objects \cup {NoInstance}
  BY <1>2 DEF Object
<1>4. QED
  BY <1>1, <1>2, <1>3, FillEndsInv DEF RefsOK

LEMMA FillCachedInv == ASSUME IInv, FillCached PROVE IInv'
<1>1. FillSteps /\ FillEnds(FillTarget) /\ FillTarget # NoInstance
  BY DEF FillCached
<1>2. /\ FillRefKey \in Keys /\ FillTarget = Get(cache, FillRefKey)
  BY <1>1 DEF FillTarget
<1>3. FillTarget \in Objects /\ cache.ids[FillTarget] = FillRefKey
  BY <1>1, <1>2 DEF IInv, TypeOK, Caches, Get, DataInv, CacheOK
<1>4. Alive(FillTarget)
  BY <1>2, <1>3, SentinelAssumption DEF IInv, DataInv, CacheOK, Contains, Alive, Keys
<1>5. QED
  BY <1>1, <1>3, <1>4, FillEndsInv

LEMMA FillReadsInv == ASSUME IInv, FillReads PROVE IInv'
<1>1. /\ FillSteps /\ FillRefKey \in Keys /\ db.rows[FillRefKey] # NoRow /\ Make(FillRefKey)
      /\ UNCHANGED fillVars /\ reading' = reading
  BY DEF FillReads, RowExists
<1>2. reading' \in Readings /\ (reading.why = "select" =>
               \A i \in 1..Len(reading'.queue) : db.rows[reading'.queue[i]] # NoRow)
  BY <1>1 DEF IInv, TypeOK, DataInv, RowsOK
<1>3. QED
  BY <1>1, <1>2, Filling, MakeOK, ReadGoesOn

\* A fatal error ends the process: nothing else changes.
LEMMA ReadFatalInv ==
    ASSUME IInv, NEW why \in Deaths, ReadFatal(why), faults' \in 0..MaxFaults PROVE IInv'
<1>1. UNCHANGED <<obj, cache, db, saved, depth, merging, tracked, lastError, stack, reading,
                  fills, ret, manual, undone>>
  BY DEF ReadFatal
<1>2. TypeOK'
  BY <1>1 DEF IInv, TypeOK, ReadFatal
<1>3. CallInv'
  BY <1>1 DEF IInv, CallInv, StackOK, LevelsOK, MergingOK, ReadingOK, SavedOK, Top
<1>4. DataInv'
  BY <1>1 DEF IInv, DataInv, RowsOK, CacheOK, RefsOK, FramesOK, IdsOK, Alive, Living, RoomForIds
<1>5. QED
  BY <1>2, <1>3, <1>4 DEF IInv

\* A select runs between the calls, whatever it does.
LEMMA InSelect ==
    ASSUME IInv, reading.why = "select"
    PROVE  stack = <<>> /\ merging = {} /\ depth = manual /\ manual \in Nat
           /\ (depth = 0 => db = saved)
<1>1. stack = <<>> /\ manual \in Nat
  BY BoundAssumption DEF IInv, TypeOK, CallInv, ReadingOK
<1>2. QED
  BY <1>1, Nothing DEF IInv, CallInv, LevelsOK, MergingOK, SavedOK

LEMMA ReadFailsInv ==
    ASSUME IInv, NEW error \in Errors, ReadFails(error), reading.why = "select",
           faults' \in 0..MaxFaults
    PROVE  IInv'
<1>1. /\ fills' = <<>> /\ reading' = NoReading /\ lastError' = error /\ ret' = FALSE
      /\ UNCHANGED <<obj, cache, db, saved, depth, merging, tracked, stack, fatal, manual, undone>>
  BY DEF ReadFails
<1>2. CallInv' /\ RowsOK' /\ FramesOK' /\ IdsOK'
  BY <1>1, InSelect, StillIdle
<1>3. CacheOK' /\ RefsOK'
  BY <1>1, DataStill DEF DataKept
<1>4. <<>> \in Seq(Fill)
  OBVIOUS
<1>5. TypeOK'
  BY <1>1, <1>4 DEF IInv, TypeOK, Readings
<1>6. QED
  BY <1>2, <1>3, <1>5 DEF IInv, DataInv

LEMMA FillStatementFailsInv == ASSUME IInv, FillStatementFails PROVE IInv'
<1>1. faults' \in 0..MaxFaults
  BY BoundAssumption DEF IInv, TypeOK, FillStatementFails
<1>2. "Provider" \in Errors /\ "rollbackFailed" \in Deaths
  BY DEF Errors, Deaths
<1>3. QED
  BY <1>1, <1>2, ReadFailsInv, ReadFatalInv DEF FillStatementFails

LEMMA RereadFailsInv == ASSUME IInv, RereadFails PROVE IInv'
<1>1. faults' \in 0..MaxFaults /\ "rollbackFailed" \in Deaths
  BY BoundAssumption DEF IInv, TypeOK, RereadFails, Deaths
<1>2. QED
  BY <1>1, ReadFatalInv DEF RereadFails

LEMMA SelectUnsynchronizedInv == ASSUME IInv, SelectUnsynchronized PROVE IInv'
<1>1. faults' \in 0..MaxFaults /\ "UnsynchronizedEntity" \in Errors /\ reading.why = "select"
  BY DEF IInv, TypeOK, SelectUnsynchronized, Reading, Errors
<1>2. QED
  BY <1>1, ReadFailsInv DEF SelectUnsynchronized

LEMMA SelectEndsInv == ASSUME IInv, SelectEnds PROVE IInv'
<1>1. /\ reading.why = "select" /\ fills = <<>> /\ reading' = NoReading /\ ret' = TRUE
      /\ UNCHANGED <<obj, cache, db, saved, depth, merging, tracked, lastError, stack, fills,
                     fatal, manual, undone, faults>>
  BY DEF SelectEnds, Reading
<1>2. CallInv' /\ RowsOK' /\ FramesOK' /\ IdsOK'
  BY <1>1, InSelect, StillIdle
<1>3. CacheOK' /\ RefsOK'
  BY <1>1, DataStill DEF DataKept
<1>4. TypeOK'
  BY <1>1 DEF IInv, TypeOK, Readings
<1>5. QED
  BY <1>2, <1>3, <1>4 DEF IInv, DataInv

LEMMA SelectNextInv == ASSUME IInv, SelectNext PROVE IInv'
<1> DEFINE k == Head(reading.queue)
           rest == Tail(reading.queue)
<1>1. /\ reading.why = "select" /\ fills = <<>> /\ reading.queue # <<>>
      /\ reading' = [reading EXCEPT !.queue = rest] /\ UNCHANGED fillVars
      /\ \/ UNCHANGED <<obj, cache, fills>>
         \/ Make(k)
  BY DEF SelectNext, Reading
<1>2. reading # NoReading /\ reading.queue \in Seq(Keys)
      /\ \A i \in 1..Len(reading.queue) : db.rows[reading.queue[i]] # NoRow
  BY <1>1, WhatIsRead DEF NoReading
<1> DEFINE n == Len(reading.queue)
<1>3. /\ k \in Keys /\ rest \in Seq(Keys) /\ n \in Nat /\ n # 0 /\ Len(rest) = n - 1
      /\ k = reading.queue[1] /\ \A i \in 1..(n - 1) : rest[i] = reading.queue[i + 1]
  BY <1>1, <1>2, Split
<1>4. reading \in [why : {"select"}, queue : Seq(Keys)]
  BY <1>1, <1>2 DEF IInv, TypeOK, Readings, NoReading
<1>5. /\ reading' \in Readings /\ reading'.why = "select" /\ reading'.queue = rest
  BY <1>1, <1>3, <1>4 DEF Readings
<1>6. \A i \in 1..n : db.rows[reading.queue[i]] # NoRow
  BY <1>2
<1> HIDE DEF n, k, rest
<1>7. 1 \in 1..n /\ \A i \in 1..(n - 1) : i + 1 \in 1..n
  BY <1>3
<1>8. db.rows[k] # NoRow /\ \A i \in 1..Len(rest) : db.rows[rest[i]] # NoRow
  BY <1>3, <1>6, <1>7
<1>9. CASE UNCHANGED <<obj, cache, fills>>
  <2>1. /\ fills' \in Seq(Fill) /\ \A i \in 1..Len(fills') : db.rows[fills'[i].key] # NoRow
        /\ obj' \in [Objects -> Object] /\ cache' \in Caches
    BY <1>9 DEF IInv, TypeOK, DataInv, RowsOK
  <2>2. CacheOK' /\ RefsOK'
    BY <1>9 DEF IInv, DataInv, CacheOK, RefsOK, Alive
  <2>3. QED
    BY <1>1, <1>2, <1>5, <1>8, <2>1, <2>2, ReadGoesOn
<1>10. CASE Make(k)
  <2>1. /\ fills' \in Seq(Fill) /\ \A i \in 1..Len(fills') : db.rows[fills'[i].key] # NoRow
        /\ obj' \in [Objects -> Object] /\ cache' \in Caches /\ CacheOK' /\ RefsOK'
    BY <1>3, <1>8, <1>10, MakeOK
  <2>2. QED
    BY <1>1, <1>2, <1>5, <1>8, <2>1, ReadGoesOn
<1>11. QED
  BY <1>1, <1>9, <1>10

\* Between two instances a rollback fills nothing.
LEMMA RereadNextInv == ASSUME IInv, RereadNext PROVE IInv'
<1> DEFINE k == KeyOf(Head(reading.queue))
           rest == Tail(reading.queue)
<1>1. /\ reading.why = "rollback" /\ reading.queue # <<>>
      /\ reading' = [reading EXCEPT !.queue = rest] /\ UNCHANGED fillVars
      /\ \/ UNCHANGED <<obj, cache, fills>>
         \/ /\ RowExists(k) /\ Get(cache, k) # NoInstance
            /\ PushFill(Get(cache, k), k, TRUE, FALSE) /\ UNCHANGED <<obj, cache>>
         \/ RowExists(k) /\ Make(k)
  BY DEF RereadNext, Reading
<1>2. reading # NoReading /\ reading.queue \in Seq(Objects)
  BY <1>1, WhatIsRead DEF NoReading
<1>3. rest \in Seq(Objects)
  BY <1>1, <1>2, Split
<1>4. reading \in [why : {"rollback"}, queue : Seq(Objects)]
  BY <1>1, <1>2 DEF IInv, TypeOK, Readings, NoReading
<1>5. reading' \in Readings /\ reading'.why = "rollback"
  BY <1>1, <1>3, <1>4 DEF Readings
<1>6. \A l : RowExists(l) => l \in Keys /\ db.rows[l] # NoRow
  BY DEF RowExists
<1> HIDE DEF k, rest
<1>7. CASE UNCHANGED <<obj, cache, fills>>
  <2>1. /\ fills' \in Seq(Fill) /\ \A i \in 1..Len(fills') : db.rows[fills'[i].key] # NoRow
        /\ obj' \in [Objects -> Object] /\ cache' \in Caches
    BY <1>7 DEF IInv, TypeOK, DataInv, RowsOK
  <2>2. CacheOK' /\ RefsOK'
    BY <1>7 DEF IInv, DataInv, CacheOK, RefsOK, Alive
  <2>3. QED
    BY <1>1, <1>2, <1>5, <2>1, <2>2, ReadGoesOn
<1>8. CASE /\ RowExists(k) /\ Get(cache, k) # NoInstance
           /\ PushFill(Get(cache, k), k, TRUE, FALSE) /\ UNCHANGED <<obj, cache>>
  <2>1. Get(cache, k) \in Objects
    BY <1>6, <1>8 DEF IInv, TypeOK, Caches, Get
  <2>2. /\ fills' \in Seq(Fill) /\ \A i \in 1..Len(fills') : db.rows[fills'[i].key] # NoRow
    BY <1>6, <1>8, <2>1, PushFillOK
  <2>3. CacheOK' /\ RefsOK' /\ obj' \in [Objects -> Object] /\ cache' \in Caches
    BY <1>8 DEF IInv, TypeOK, DataInv, CacheOK, RefsOK, Alive
  <2>4. QED
    BY <1>1, <1>2, <1>5, <2>2, <2>3, ReadGoesOn
<1>9. CASE RowExists(k) /\ Make(k)
  <2>1. /\ fills' \in Seq(Fill) /\ \A i \in 1..Len(fills') : db.rows[fills'[i].key] # NoRow
        /\ obj' \in [Objects -> Object] /\ cache' \in Caches /\ CacheOK' /\ RefsOK'
    BY <1>6, <1>9, MakeOK
  <2>2. QED
    BY <1>1, <1>2, <1>5, <2>1, ReadGoesOn
<1>10. QED
  BY <1>1, <1>7, <1>8, <1>9

LEMMA RollbackEndsInv == ASSUME IInv, RollbackEnds PROVE IInv'
<1>1. /\ reading.why = "rollback" /\ fills = <<>> /\ tracked' = <<>> /\ depth' = 0
      /\ reading' = NoReading
      /\ UNCHANGED <<obj, cache, db, saved, merging, lastError, fills, fatal, manual, undone, faults>>
  BY DEF RollbackEnds, Reading
<1>2. merging = {} /\ manual = 0 /\ db = saved /\ (stack # <<>> => Tail(stack) = <<>>)
  BY <1>1 DEF IInv, CallInv, MergingOK, ReadingOK
<1>3. stack' = <<>> /\ ret' \in BOOLEAN
  <2>1. CASE stack = <<>>
    BY <2>1 DEF RollbackEnds, IInv, TypeOK
  <2>2. CASE stack # <<>>
    <3>1. Top \in Frame
      BY <2>2, Split DEF Top, IInv, TypeOK
    <3>2. Top.result \in BOOLEAN /\ Pop(Top.result)
      BY <2>2, <3>1 DEF RollbackEnds, Frame
    <3>3. stack' = <<>> /\ ret' = Top.result
      BY <1>2, <2>2, <3>2 DEF Pop
    <3>4. QED
      BY <3>2, <3>3
  <2>3. QED
    BY <2>1, <2>2
<1>4. CallInv' /\ RowsOK' /\ FramesOK' /\ IdsOK'
  BY <1>1, <1>2, <1>3, StillIdle
<1>5. CacheOK' /\ RefsOK'
  BY <1>1, DataStill DEF DataKept
<1>6. <<>> \in Seq(Objects) /\ <<>> \in Seq(Frame)
  OBVIOUS
<1>7. TypeOK'
  BY <1>1, <1>3, <1>6 DEF IInv, TypeOK, Readings
<1>8. QED
  BY <1>4, <1>5, <1>7 DEF IInv, DataInv

\* A select reads the rows that are there: ids in their order, each by its
\* position among them.
LEMMA OrderedRows ==
    ASSUME IInv, NEW c \in Classes
    PROVE  /\ RowsInOrder(c) \in Seq(Keys)
           /\ \A n \in 1..Len(RowsInOrder(c)) : db.rows[RowsInOrder(c)[n]] # NoRow
<1> DEFINE ids == {i \in 1..MaxId : db.rows[<<c, i>>] # NoRow}
           below(i) == {j \in ids : j <= i}
           m == Cardinality(ids)
           pos == [i \in ids |-> Cardinality(below(i))]
<1>1. IsFiniteSet(ids) /\ m \in Nat
  <2>1. IsFiniteSet(1..MaxId) /\ ids \in SUBSET (1..MaxId)
    BY BoundAssumption, FS_Interval
  <2>2. QED
    BY <2>1, FS_Subset, FS_CardinalityType
<1>2. \A i \in ids : IsFiniteSet(below(i)) /\ Cardinality(below(i)) \in 1..m
  <2>1. SUFFICES ASSUME NEW i \in ids
                 PROVE  IsFiniteSet(below(i)) /\ Cardinality(below(i)) \in 1..m
    OBVIOUS
  <2>2. below(i) \in SUBSET ids /\ i \in below(i)
    OBVIOUS
  <2> HIDE DEF below, ids
  <2>3. IsFiniteSet(below(i)) /\ Cardinality(below(i)) <= m
    BY <1>1, <2>2, FS_Subset
  <2>4. Cardinality(below(i)) \in Nat /\ Cardinality(below(i)) # 0
    BY <2>2, <2>3, FS_CardinalityType, FS_EmptySet
  <2>5. QED
    BY <1>1, <2>3, <2>4
<1>3. \A i, j \in ids : i < j => Cardinality(below(i)) < Cardinality(below(j))
  <2>1. SUFFICES ASSUME NEW i \in ids, NEW j \in ids, i < j
                 PROVE  Cardinality(below(i)) < Cardinality(below(j))
    OBVIOUS
  <2>2. below(i) \in SUBSET below(j) /\ j \in below(j) /\ j \notin below(i)
    BY <2>1
  <2> HIDE DEF below, ids
  <2>3. /\ Cardinality(below(i)) <= Cardinality(below(j))
        /\ Cardinality(below(j)) = Cardinality(below(i)) => below(j) = below(i)
    BY <1>2, <2>2, FS_Subset
  <2>4. Cardinality(below(i)) \in Int /\ Cardinality(below(j)) \in Int
    BY <1>2
  <2>5. QED
    BY <2>2, <2>3, <2>4
<1>4. \A i \in ids : i \in Int
  OBVIOUS
<1>5. pos \in Injection(ids, 1..m)
  <2>1. pos \in [ids -> 1..m]
    BY <1>2
  <2>2. ASSUME NEW i \in ids, NEW j \in ids, pos[i] = pos[j] PROVE i = j
    <3>1. pos[i] = Cardinality(below(i)) /\ pos[j] = Cardinality(below(j))
      BY <2>2
    <3> HIDE DEF below, ids, pos
    <3>2. Cardinality(below(i)) \in Int
      BY <1>2
    <3>3. Cardinality(below(i)) = Cardinality(below(j))
      BY <2>2, <3>1
    <3>4. i < j => Cardinality(below(i)) < Cardinality(below(j))
      BY <1>3
    <3>5. j < i => Cardinality(below(j)) < Cardinality(below(i))
      BY <1>3
    <3>6. QED
      BY <1>4, <3>2, <3>3, <3>4, <3>5
  <2>3. QED
    BY <2>1, <2>2 DEF Injection, IsInjective
<1>6. \A n \in 1..m : \E i \in ids : Cardinality(below(i)) = n
  <2>1. Cardinality(1..m) = m /\ IsFiniteSet(1..m)
    BY <1>1, FS_Interval
  <2> HIDE DEF pos, ids
  <2>2. pos \in Surjection(ids, 1..m)
    BY <1>5, <2>1, FS_Injection
  <2>3. \A n \in 1..m : \E i \in ids : pos[i] = n
    BY <2>2 DEF Surjection
  <2>4. QED
    BY <2>3 DEF pos
<1>7. RowsInOrder(c) = [n \in 1..m |-> <<c, CHOOSE i \in ids : Cardinality(below(i)) = n>>]
  BY DEF RowsInOrder
<1>8. \A i \in ids : <<c, i>> \in Keys /\ db.rows[<<c, i>>] # NoRow
  BY DEF Keys
<1> HIDE DEF ids, below, pos
<1>9. ASSUME NEW n \in 1..m
      PROVE  RowsInOrder(c)[n] \in Keys /\ db.rows[RowsInOrder(c)[n]] # NoRow
  <2>1. (CHOOSE i \in ids : Cardinality(below(i)) = n) \in ids
    BY <1>6
  <2>2. RowsInOrder(c)[n] = <<c, CHOOSE i \in ids : Cardinality(below(i)) = n>>
    BY <1>7
  <2> HIDE DEF m
  <2>3. QED
    BY <1>8, <2>1, <2>2
<1>10. RowsInOrder(c) \in [1..m -> Keys]
  BY <1>7, <1>9
<1> HIDE DEF m
<1>11. RowsInOrder(c) \in Seq(Keys) /\ Len(RowsInOrder(c)) = m
  BY <1>1, <1>10
<1>12. QED
  BY <1>9, <1>11

LEMMA SelectInv == ASSUME IInv, NEW c \in Classes, Select(c) PROVE IInv'
<1>1. /\ reading' = [why |-> "select", queue |-> RowsInOrder(c)] /\ lastError' = "None"
      /\ UNCHANGED <<obj, cache, db, saved, depth, merging, tracked, stack, fills, ret, fatal,
                     manual, undone, faults>>
  BY DEF Select
<1>2. /\ stack = <<>> /\ reading = NoReading /\ fills = <<>> /\ merging = {}
      /\ depth = manual /\ (depth = 0 => db = saved)
  BY BetweenCalls DEF Select
<1>3. /\ RowsInOrder(c) \in Seq(Keys)
      /\ \A n \in 1..Len(RowsInOrder(c)) : db.rows[RowsInOrder(c)[n]] # NoRow
  BY OrderedRows
<1>4. /\ reading'.why = "select" /\ reading' # NoReading /\ reading' \in Readings
      /\ reading'.queue = RowsInOrder(c)
  BY <1>1, <1>3 DEF Readings, NoReading
<1>5. StackOK' /\ ReadingOK' /\ SavedOK' /\ IdsOK'
  BY <1>1, <1>2, <1>4 DEF StackOK, ReadingOK, SavedOK, IdsOK
<1>6. manual \in Nat
  BY BoundAssumption DEF IInv, TypeOK
<1>7. LevelsOK' /\ MergingOK'
  BY <1>1, <1>2, <1>4, <1>6, Nothing DEF LevelsOK, MergingOK
<1>8. RowsOK' /\ FramesOK'
  BY <1>1, <1>2, <1>3, <1>4 DEF RowsOK, FramesOK
<1>9. CacheOK' /\ RefsOK'
  BY <1>1, DataStill DEF DataKept
<1>10. TypeOK'
  BY <1>1, <1>4 DEF IInv, TypeOK, Errors
<1>11. QED
  BY <1>5, <1>7, <1>8, <1>9, <1>10 DEF IInv, CallInv, DataInv

-----------------------------------------------------------------------------
(* The invariant holds, and what the properties say follows from it.       *)

LEMMA InitInv == ASSUME Init PROVE IInv
<1>1. NoObject \in Object /\ NoObject.life = "none"
  BY ValueAssumption, BoundAssumption DEF NoObject, Object
<1>2. db \in Tables /\ saved = db
  BY BoundAssumption DEF Init, Tables
<1>3. <<>> \in Seq(Objects) /\ <<>> \in Seq(Frame) /\ <<>> \in Seq(Fill)
  OBVIOUS
<1>4. TypeOK
  BY <1>1, <1>2, <1>3, EmptyTyped, BoundAssumption DEF Init, TypeOK, Readings, Errors, Deaths
<1>5. reading.why = "none"
  BY DEF Init, NoReading
<1>6. CallInv
  BY <1>2, <1>5, Nothing DEF Init, CallInv, StackOK, LevelsOK, MergingOK, ReadingOK, SavedOK
<1>7. CacheOK
  BY <1>1, EmptyTyped DEF Init, CacheOK, Contains, Get
<1>8. RowsOK /\ RefsOK /\ FramesOK /\ IdsOK
  BY <1>1, <1>5 DEF Init, RowsOK, RefsOK, FramesOK, FramesFit, IdsOK, Alive, NoObject
<1>9. QED
  BY <1>4, <1>6, <1>7, <1>8 DEF IInv, DataInv

LEMMA NextInv == ASSUME IInv, [Next]_vars PROVE IInv'
<1>1. CASE UNCHANGED vars
  <2>1. TypeOK'
    BY <1>1 DEF vars, IInv, TypeOK
  <2>2. CallInv'
    BY <1>1 DEF vars, IInv, CallInv, StackOK, LevelsOK, MergingOK, ReadingOK, SavedOK, Top
  <2>3. DataInv'
    BY <1>1 DEF vars, IInv, DataInv, RowsOK, CacheOK, RefsOK, FramesOK, IdsOK, Alive, Living,
                RoomForIds
  <2>4. QED
    BY <2>1, <2>2, <2>3 DEF IInv
<1>2. CASE Client
  <2>1. ASSUME NEW o \in Objects,
               \/ New(o) \/ Delete(o) \/ Merge(o) \/ Remove(o) \/ RemoveFails(o)
               \/ \E v \in Vals : SetVal(o, v)
               \/ \E p \in Objects \cup {NoInstance} : SetRef(o, p)
               \/ \E p \in Objects : MergeMany(o, p)
        PROVE  IInv'
    BY <2>1, NewInv, DeleteInv, MergeInv, RemoveInv, RemoveFailsInv, SetValInv, SetRefInv,
       MergeManyInv
  <2>2. ASSUME NEW c \in Classes, Select(c) \/ \E v \in Vals : RemoveWhere(c, v)
        PROVE  IInv'
    BY <2>2, SelectInv, RemoveWhereInv
  <2>3. CASE BeginTransaction \/ CommitTransaction \/ RollbackTransaction \/ Reopen
    BY <2>3, BeginInv, CommitInv, RollbackInv, ReopenInv
  <2>4. QED
    BY <1>2, <2>1, <2>2, <2>3 DEF Client
<1>3. CASE Fault
  BY <1>3, StatementFailsInv, FillStatementFailsInv, RereadFailsInv DEF Fault
<1>4. CASE Step
  <2>1. CASE CrossReferenceFatal \/ FillModifiedFatal \/ FillDanglingFatal \/ RereadDangling
    <3>1. \E why \in Deaths : Die(why)
      BY <2>1 DEF CrossReferenceFatal, FillModifiedFatal, FillDanglingFatal, RereadDangling, Deaths
    <3>2. QED
      BY <3>1, DieInv
  <2>2. CASE MergeReferences \/ Insertion \/ Update \/ UpdateMisses
    BY <2>2, MergeReferencesInv, InsertionInv, UpdateInv, UpdateMissesInv
  <2>3. CASE MergeReturns \/ MergeNext \/ MergeManyCommits \/ MergeManyRollsBack
    BY <2>3, MergeReturnsInv, MergeNextInv, MergeManyCommitsInv, MergeManyRollsBackInv
  <2>4. CASE FillNull \/ FillCached \/ FillReads
    BY <2>4, FillNullInv, FillCachedInv, FillReadsInv
  <2>5. CASE RereadNext \/ RollbackEnds \/ SelectNext \/ SelectUnsynchronized \/ SelectEnds
    BY <2>5, RereadNextInv, RollbackEndsInv, SelectNextInv, SelectUnsynchronizedInv, SelectEndsInv
  <2>6. QED
    BY <1>4, <2>1, <2>2, <2>3, <2>4, <2>5 DEF Step
<1>5. QED
  BY <1>1, <1>2, <1>3, <1>4 DEF Next

\* The inductive invariant holds of every behaviour of the session, whatever the
\* client calls and whichever statement fails.
THEOREM Invariant == Spec => []IInv
BY InitInv, NextInv, PTL DEF Spec

\* Every frame below the innermost one holds its token.
LEMMA TokensCounted == ASSUME IInv PROVE Balanced
<1> DEFINE n == Len(stack)
<1>1. stack \in Seq(Frame) /\ n \in Nat
  BY DEF IInv, TypeOK
<1>2. CASE stack = <<>>
  <2>1. Engaged = {}
    BY <1>2 DEF Engaged
  <2>2. QED
    BY <2>1, <1>2, FS_EmptySet DEF Balanced, IInv, CallInv, LevelsOK, Levels
<1>3. CASE stack # <<>>
  <2>1. /\ n # 0 /\ Len(Tail(stack)) = n - 1 /\ Top = stack[1]
        /\ \A i \in 1..(n - 1) : Tail(stack)[i] = stack[i + 1]
    BY <1>1, <1>3, Split, SMTT(30) DEF Top
  <2>2. \A i \in 1..(n - 1) : stack[i + 1].engaged
    BY <1>3, <2>1 DEF IInv, CallInv, StackOK, Waiting
  <2> HIDE DEF n
  <2>3. \A i \in 2..n : i - 1 \in 1..(n - 1) /\ (i - 1) + 1 = i
    BY <1>1
  <2>4. \A i \in 2..n : stack[i].engaged
    BY <2>2, <2>3
  <2>5. Engaged = IF Top.engaged THEN 1..n ELSE 2..n
    <3>1. \A i \in 1..n : i \in 2..n \/ i = 1
      BY <1>1
    <3>2. 1 \in 1..n /\ 1 \notin 2..n /\ 2..n \subseteq 1..n
      BY <1>1, <2>1
    <3>3. Engaged = {i \in 1..n : stack[i].engaged}
      BY DEF Engaged, n
    <3>4. QED
      BY <2>1, <2>4, <3>1, <3>2, <3>3
  <2>6. Cardinality(1..n) = n /\ Cardinality(2..n) = n - 1
    <3>1. Cardinality(1..n) = IF 1 > n THEN 0 ELSE n - 1 + 1
      BY <1>1, FS_Interval
    <3>2. Cardinality(2..n) = IF 2 > n THEN 0 ELSE n - 2 + 1
      BY <1>1, FS_Interval
    <3>3. QED
      BY <1>1, <2>1, <3>1, <3>2
  <2>7. Levels(stack) = Cardinality(Engaged)
    BY <1>3, <2>5, <2>6 DEF Levels, Top, n
  <2>8. QED
    BY <2>7 DEF Balanced, IInv, CallInv, LevelsOK
<1>4. QED
  BY <1>2, <1>3

\* Different frames merge different instances, so there are as many of each.
LEMMA InstancesCounted == ASSUME IInv PROVE MergingOnStack
<1> DEFINE merges == {i \in 1..Len(stack) : stack[i].kind = "merge" /\ stack[i].pc # "rollback"}
<1>1. stack \in Seq(Frame) /\ Len(stack) \in Nat
  BY DEF IInv, TypeOK
<1>2. CASE reading.why = "rollback"
  <2>1. merges = {}
    <3>1. CASE stack = <<>>
      BY <3>1
    <3>2. CASE stack # <<>>
      <4>1. Tail(stack) = <<>> /\ Top.pc = "rollback"
        BY <1>2, <3>2 DEF IInv, CallInv, ReadingOK
      <4>2. Len(Tail(stack)) = Len(stack) - 1 /\ Len(Tail(stack)) = 0 /\ Top = stack[1]
        BY <1>1, <3>2, <4>1, Split DEF Top
      <4>3. Len(stack) = 1
        BY <1>1, <4>2
      <4>4. QED
        BY <4>1, <4>2, <4>3
    <3>3. QED
      BY <3>1, <3>2
  <2>2. merging = {}
    BY <1>2 DEF IInv, CallInv, MergingOK
  <2>3. QED
    BY <2>1, <2>2 DEF MergingOnStack
<1>3. CASE reading.why # "rollback"
  <2> DEFINE at == MergeAt(stack)
             inst == [i \in at |-> stack[i].inst]
  <2>1. \A i \in 1..Len(stack) : stack[i].pc # "rollback"
    <3>1. CASE stack = <<>>
      BY <3>1
    <3>2. CASE stack # <<>>
      <4>1. Waiting(Tail(stack)) /\ Top.pc # "rollback"
        BY <1>3, <3>2 DEF IInv, CallInv, StackOK
      <4>2. /\ Len(Tail(stack)) = Len(stack) - 1 /\ Top = stack[1]
            /\ \A i \in 1..(Len(stack) - 1) : Tail(stack)[i] = stack[i + 1]
        BY <1>1, <3>2, Split DEF Top
      <4>3. ASSUME NEW i \in 1..Len(stack), i # 1 PROVE stack[i].pc = "execute"
        <5>1. i - 1 \in 1..(Len(stack) - 1) /\ (i - 1) + 1 = i
          BY <1>1, <4>3
        <5>2. QED
          BY <4>1, <4>2, <5>1 DEF Waiting
      <4>4. QED
        BY <4>1, <4>2, <4>3
    <3>3. QED
      BY <3>1, <3>2
  <2>2. merges = at
    BY <2>1 DEF MergeAt
  <2>3. merging = Merged(stack) /\ Distinct(stack)
    BY <1>3 DEF IInv, CallInv, MergingOK
  <2>4. IsFiniteSet(at)
    <3>1. IsFiniteSet(1..Len(stack)) /\ at \in SUBSET (1..Len(stack))
      BY <1>1, FS_Interval DEF MergeAt
    <3>2. QED
      BY <3>1, FS_Subset
  <2>5. Merged(stack) = {inst[i] : i \in at}
    BY DEF Merged
  <2>6. inst \in [at -> Merged(stack)] /\ \A i, j \in at : inst[i] = inst[j] => i = j
    BY <2>3, <2>5 DEF Distinct
  <2> HIDE DEF at, inst
  <2>7. inst \in Surjection(at, Merged(stack)) /\ inst \in Injection(at, Merged(stack))
    BY <2>5, <2>6 DEF Surjection, Injection, IsInjective
  <2>8. Cardinality(Merged(stack)) = Cardinality(at)
    BY <2>4, <2>7, FS_Surjection
  <2>9. Merged(stack) = {stack[i].inst : i \in at}
    BY DEF Merged, at
  <2> HIDE DEF merges
  <2>10. merging = {stack[i].inst : i \in merges} /\ Cardinality(merging) = Cardinality(merges)
    BY <2>2, <2>3, <2>8, <2>9
  <2>11. QED
    BY <2>10 DEF MergingOnStack, merges
<1>4. QED
  BY <1>2, <1>3

LEMMA CallsUnwindInv == ASSUME IInv PROVE CallsUnwind
<1>1. NothingPending
  <2>1. SUFFICES ASSUME Idle, manual = 0 PROVE depth = 0 /\ db = saved
    BY DEF NothingPending
  <2>2. QED
    BY <2>1, BetweenCalls
<1>2. QED
  BY <1>1, TokensCounted, InstancesCounted DEF CallsUnwind

\* Tables are saved in a call only with its last level.
LEMMA SavesLast ==
    ASSUME IInv, [Next]_vars, stack # <<>>, saved' # saved
    PROVE  Len(stack) = 1 /\ Top.result /\ depth' = 0
<1>1. Insertion \/ Update \/ MergeManyCommits
  BY DEF Next, vars, Client, Fault, Step, New, SetVal, SetRef, Delete, Merge, MergeMany, Remove,
         RemoveFails, RemoveWhere, Select, BeginTransaction, CommitTransaction,
         RollbackTransaction, Reopen, Idle, Running, sessionVars, StatementFails, Fails,
         FillStatementFails, RereadFails, ReadFails, ReadFatal, Die, CrossReferenceFatal,
         MergeReferences, UpdateMisses, MergeReturns, MergeNext, MergeManyRollsBack, fillVars,
         FillNull, FillCached, FillEnds, FillReads, FillModifiedFatal, FillDanglingFatal,
         RereadNext, RereadDangling, RollbackEnds, SelectNext, SelectUnsynchronized, SelectEnds
<1>2. /\ StepsOf /\ Top.pc = "execute" /\ depth' = depth - 1 /\ depth = 1
  BY <1>1 DEF Insertion, Update, MergeManyCommits, Succeeds, Commits
<1> DEFINE rest == Tail(stack)
<1>3. /\ Len(rest) \in Nat /\ manual \in Nat /\ MayTop(Top, rest)
      /\ depth = manual + IF Top.engaged THEN Len(rest) + 1 ELSE Len(rest)
  BY <1>2, InCall
<1>4. Top.engaged /\ Top.result
  BY <1>2, <1>3 DEF MayTop
<1> HIDE DEF rest
<1>5. Len(rest) = 0
  BY <1>2, <1>3, <1>4
<1>6. Len(stack) \in Nat /\ Len(rest) = Len(stack) - 1
  BY Split DEF IInv, TypeOK, rest
<1>7. QED
  BY <1>2, <1>4, <1>5, <1>6

\* Whatever the client calls and whichever statement fails, a session keeps its
\* types: the cache maps instances to ids that exist, what is read are rows, and
\* an id is left for each insertion (qormsession.cpp:180-332,
\* qormsqliteprovider.cpp:440-560).
THEOREM TypeCorrect == Spec => []TypeOK
BY Invariant, PTL DEF IInv

\* However a call of merge() goes on or fails, in the middle of a chain of nested
\* merges or in the second of two, it ends the levels it began, forgets the
\* instances it was merging and leaves no write behind
\* (qormsession.cpp:180-269, qormtransactiontoken.cpp:49-58).
THEOREM CallsLeaveNothing == Spec => []CallsUnwind
<1>1. IInv => CallsUnwind
  BY CallsUnwindInv
<1>2. QED
  BY <1>1, Invariant, PTL

\* What a merge writes is saved in one step, when its outermost token commits and
\* every nested merge has succeeded (qormsession.cpp:189 and 265, qormsession.h:83-109).
THEOREM MergesSaveAsAWhole == Spec => SavedAsAWhole
<1>1. IInv /\ [Next]_vars => [stack # <<>> /\ saved' # saved
                                => Len(stack) = 1 /\ Top.result /\ depth' = 0]_vars
  BY SavesLast
<1>2. QED
  BY <1>1, Invariant, PTL DEF Spec, SavedAsAWhole

-----------------------------------------------------------------------------
(* What a rollback restores.  Until it is over, every instance it tracks   *)
(* is still to be read, is being overwritten, or is what its row is.       *)

Items(s) == {s[i] : i \in 1..Len(s)}

KeysOK == \A o \in Objects : Contains(cache, o) => cache.ids[o] = KeyOf(o)

\* An instance is filled under its own id: overwritten, or for the first time.
FillFits(f) ==
    /\ Contains(cache, f.inst) /\ KeyOf(f.inst) = f.key
    /\ f.fresh <=> ~f.overwrite
FillsOK == \A f \in Items(fills) : FillFits(f)

Restored(o) ==
    RowExists(KeyOf(o)) /\ Get(cache, KeyOf(o)) = o
        => ~IsModified(cache, o) /\ obj[o].val = db.rows[KeyOf(o)].val

Overwritten(o) == \E f \in Items(fills) : f.inst = o /\ f.overwrite

RestoredOK ==
    reading.why = "rollback" =>
        \A o \in Items(tracked) : \/ o \in Items(reading.queue)
                                  \/ Alive(o) /\ (Restored(o) \/ Overwritten(o))

TInv == KeysOK /\ FillsOK /\ RestoredOK

LEMMA ItemsCons ==
    ASSUME NEW T, NEW x \in T, NEW s \in Seq(T)
    PROVE  Items(<<x>> \o s) = {x} \cup Items(s)
<1>1. /\ Len(<<x>> \o s) = Len(s) + 1
      /\ \A i \in 1..(Len(s) + 1) : (<<x>> \o s)[i] = IF i = 1 THEN x ELSE s[i - 1]
  BY Cons
<1>2. PICK n \in Nat : n = Len(s)
  OBVIOUS
<1>3. /\ 1 \in 1..(n + 1) /\ \A i \in 1..n : i + 1 \in 1..(n + 1) /\ i + 1 # 1 /\ (i + 1) - 1 = i
      /\ \A i \in 1..(n + 1) : i = 1 \/ i - 1 \in 1..n
  BY <1>2
<1>4. ASSUME NEW y \in Items(<<x>> \o s) PROVE y \in {x} \cup Items(s)
  BY <1>1, <1>2, <1>3 DEF Items
<1>5. x \in Items(<<x>> \o s)
  <2>1. (<<x>> \o s)[1] = x
    BY <1>1, <1>2, <1>3
  <2>2. QED
    BY <1>1, <1>2, <1>3, <2>1 DEF Items
<1>6. ASSUME NEW i \in 1..n PROVE s[i] \in Items(<<x>> \o s)
  <2>1. (<<x>> \o s)[i + 1] = s[i] /\ i + 1 \in 1..(n + 1)
    BY <1>1, <1>2, <1>3
  <2>2. QED
    BY <1>1, <1>2, <2>1 DEF Items
<1>7. Items(s) \subseteq Items(<<x>> \o s)
  BY <1>2, <1>6 DEF Items
<1>8. QED
  BY <1>4, <1>5, <1>7

LEMMA ItemsSplit ==
    ASSUME NEW T, NEW s \in Seq(T), s # <<>>
    PROVE  Items(s) = {Head(s)} \cup Items(Tail(s))
<1>1. Head(s) \in T /\ Tail(s) \in Seq(T) /\ s = <<Head(s)>> \o Tail(s)
  BY Split
<1>2. Items(<<Head(s)>> \o Tail(s)) = {Head(s)} \cup Items(Tail(s))
  BY <1>1, ItemsCons
<1>3. QED
  BY <1>1, <1>2

LEMMA NoItems == Items(<<>>) = {}
BY DEF Items

LEMMA ItemsTyped == ASSUME NEW T, NEW s \in Seq(T) PROVE Items(s) \subseteq T
BY DEF Items

\* The fill a new one interrupts goes on with the same instance and row.
SameFill(f, g) ==
    f.inst = g.inst /\ f.key = g.key /\ f.overwrite = g.overwrite /\ f.fresh = g.fresh

LEMMA FillsPushed ==
    ASSUME fills \in Seq(Fill), NEW o \in Objects, NEW k \in Keys,
           NEW overwrite \in BOOLEAN, NEW fresh \in BOOLEAN, PushFill(o, k, overwrite, fresh)
    PROVE  /\ \A f \in Items(fills') :
                  \/ f.inst = o /\ f.key = k /\ f.overwrite = overwrite /\ f.fresh = fresh
                  \/ \E g \in Items(fills) : SameFill(f, g)
           /\ \A g \in Items(fills) : \E f \in Items(fills') : SameFill(f, g)
           /\ \E f \in Items(fills') : f.inst = o /\ f.overwrite = overwrite
<1> DEFINE new == [inst |-> o, key |-> k, overwrite |-> overwrite, fresh |-> fresh, read |-> FALSE]
           g0 == [FillTop EXCEPT !.read = TRUE]
           s == Tail(fills)
           caller == IF fills = <<>> THEN <<>> ELSE <<g0>> \o s
<1>1. new \in Fill /\ fills' = <<new>> \o caller
  BY DEF Fill, PushFill
<1>2. new.inst = o /\ new.key = k /\ new.overwrite = overwrite /\ new.fresh = fresh
  OBVIOUS
<1> HIDE DEF new
<1>3. CASE fills = <<>>
  <2>1. caller = <<>> /\ <<>> \in Seq(Fill)
    BY <1>3
  <2> HIDE DEF caller
  <2>2. Items(fills') = {new} \cup Items(caller)
    BY <1>1, <2>1, ItemsCons
  <2>3. Items(caller) = {} /\ Items(fills) = {}
    BY <1>3, <2>1, NoItems
  <2>4. QED
    BY <1>2, <2>2, <2>3
<1>4. CASE fills # <<>>
  <2>1. FillTop \in Fill /\ s \in Seq(Fill) /\ Items(fills) = {FillTop} \cup Items(s)
    BY <1>4, Split, ItemsSplit DEF FillTop
  <2>2. g0 \in Fill /\ SameFill(g0, FillTop)
    BY <2>1 DEF Fill, SameFill
  <2>3. caller = <<g0>> \o s
    BY <1>4
  <2> HIDE DEF g0, caller, s
  <2>4. caller \in Seq(Fill)
    BY <2>1, <2>2, <2>3, Cons
  <2>5. Items(caller) = {g0} \cup Items(s)
    BY <2>1, <2>2, <2>3, ItemsCons
  <2>6. Items(fills') = {new} \cup Items(caller)
    BY <1>1, <2>4, ItemsCons
  <2>7. \A f : SameFill(f, f)
    BY DEF SameFill
  <2>8. QED
    BY <1>2, <2>1, <2>2, <2>5, <2>6, <2>7
<1>5. QED
  BY <1>3, <1>4

\* Steps that leave ids and their entries in the cache alone, or take some away.
LEMMA KeysKept ==
    ASSUME KeysOK,
           \A o \in Objects : Contains(cache', o) =>
               Contains(cache, o) /\ cache'.ids[o] = cache.ids[o] /\ obj'[o].id = obj[o].id
    PROVE  KeysOK'
BY DEF KeysOK, KeyOf

\* Steps outside of a read.
LEMMA NotFilling ==
    ASSUME KeysOK', fills' = <<>>,
           reading'.why # "rollback" \/ (reading'.queue = tracked')
    PROVE  TInv'
BY NoItems DEF TInv, FillsOK, RestoredOK

LEMMA MakeTInv ==
    ASSUME IInv, TInv, NEW k \in Keys, db.rows[k] # NoRow, Get(cache, k) = NoInstance, Make(k),
           UNCHANGED fillVars, reading'.why = reading.why
    PROVE  /\ KeysOK' /\ FillsOK'
           /\ \A o \in Objects : /\ Alive(o) => Alive(o)' /\ (Restored(o) => Restored(o)')
                                 /\ Overwritten(o) => Overwritten(o)'
           /\ \A o \in Objects : Alive(o) /\ KeyOf(o) = k => Restored(o)'
<1>1. /\ obj \in [Objects -> Object] /\ cache \in Caches /\ CacheOK /\ fills \in Seq(Fill)
      /\ cache.ids \in [Objects -> Keys \cup {NoKey}] /\ cache.byId \in [Keys -> Objects \cup {NoInstance}]
  BY DEF IInv, TypeOK, DataInv, Caches
<1>2. PICK o \in FreeAddresses(k[1]) :
        /\ obj' = [obj EXCEPT ![o] = [NoObject EXCEPT !.life = "session", !.id = k[2]]]
        /\ cache' = Insert(cache, o, k)
        /\ PushFill(o, k, FALSE, TRUE)
  BY DEF Make
<1>3. o \in Objects /\ ~Alive(o) /\ ~Contains(cache, o) /\ ClassOf[o] = k[1]
  BY <1>1, <1>2 DEF FreeAddresses, CacheOK, Alive
<1>4. /\ \A p \in Objects : p # o => obj'[p] = obj[p]
      /\ obj'[o].id = k[2] /\ obj'[o].life = "session"
  BY <1>1, <1>2, <1>3 DEF NoObject
<1>5. /\ cache'.ids = [cache.ids EXCEPT ![o] = k]
      /\ cache'.byId = [cache.byId EXCEPT ![k] = o]
      /\ cache'.modified = cache.modified
  BY <1>1, <1>2, <1>3, InsertNew DEF Insert, Caches
<1>6. k # NoKey /\ k = <<k[1], k[2]>>
  BY SentinelAssumption DEF Keys
<1>7. KeyOf(o)' = k /\ \A p \in Objects : p # o => KeyOf(p)' = KeyOf(p)
  BY <1>3, <1>4, <1>6 DEF KeyOf
<1>8. \A p \in Objects : /\ cache'.ids[p] = IF p = o THEN k ELSE cache.ids[p]
                         /\ Contains(cache', p) <=> Contains(cache, p) \/ p = o
  BY <1>1, <1>3, <1>5, <1>6 DEF Contains
<1>9. KeysOK'
  BY <1>7, <1>8 DEF KeysOK, TInv
<1>10. /\ \A f \in Items(fills') :
              \/ f.inst = o /\ f.key = k /\ f.overwrite = FALSE /\ f.fresh = TRUE
              \/ \E g \in Items(fills) : SameFill(f, g)
       /\ \A g \in Items(fills) : \E f \in Items(fills') : SameFill(f, g)
  BY <1>1, <1>2, <1>3, FillsPushed
<1>11. \A g \in Items(fills) : g.inst \in Objects /\ FillFits(g)
  BY <1>1, ItemsTyped DEF Fill, TInv, FillsOK
<1>12. ASSUME NEW f \in Items(fills') PROVE FillFits(f)'
  <2>1. CASE f.inst = o /\ f.key = k /\ f.overwrite = FALSE /\ f.fresh = TRUE
    BY <1>3, <1>7, <1>8, <2>1 DEF FillFits
  <2>2. ASSUME NEW g \in Items(fills), SameFill(f, g) PROVE FillFits(f)'
    <3>1. Contains(cache', g.inst) /\ KeyOf(g.inst)' = KeyOf(g.inst)
      BY <1>3, <1>7, <1>8, <1>11 DEF FillFits
    <3>2. QED
      BY <1>11, <2>2, <3>1 DEF FillFits, SameFill
  <2>3. QED
    BY <1>10, <2>1, <2>2
<1>13. FillsOK'
  BY <1>12 DEF FillsOK
<1>14. db' = db
  BY DEF fillVars
<1>15. ASSUME NEW p \in Objects, Alive(p)
       PROVE  Alive(p)' /\ (Restored(p) => Restored(p)') /\ (KeyOf(p) = k => Restored(p)')
  <2>1. p # o /\ obj'[p] = obj[p] /\ KeyOf(p)' = KeyOf(p)
    BY <1>3, <1>4, <1>7, <1>15
  <2>2. Alive(p)'
    BY <1>15, <2>1 DEF Alive
  <2>3. RowExists(KeyOf(p))' <=> RowExists(KeyOf(p))
    BY <1>14, <2>1 DEF RowExists
  <2>4. RowExists(KeyOf(p)) => Get(cache', KeyOf(p)) = IF KeyOf(p) = k THEN o ELSE Get(cache, KeyOf(p))
    BY <1>1, <1>5 DEF RowExists, Get
  <2>5. KeyOf(p) = k => Restored(p)'
    BY <2>1, <2>3, <2>4 DEF Restored
  <2>6. KeyOf(p) # k /\ Restored(p) => Restored(p)'
    BY <1>5, <1>14, <2>1, <2>3, <2>4 DEF Restored, IsModified
  <2>7. QED
    BY <2>2, <2>5, <2>6
<1>16. ASSUME NEW p \in Objects, Overwritten(p) PROVE Overwritten(p)'
  BY <1>10, <1>16 DEF Overwritten, SameFill
<1>17. QED
  BY <1>9, <1>13, <1>15, <1>16

\* What has been overwritten is what its row is.
LEMMA FillEndsTInv ==
    ASSUME IInv, TInv, FillSteps, NEW ref \in Objects \cup {NoInstance}, FillEnds(ref)
    PROVE  TInv'
<1> DEFINE o == FillTop.inst
           v == FillRow.val
           rest == Tail(fills)
<1>1. /\ obj \in [Objects -> Object] /\ cache \in Caches /\ fills \in Seq(Fill)
      /\ tracked \in Seq(Objects)
  BY DEF IInv, TypeOK
<1>2. o \in Objects /\ FillTop \in Fill /\ v \in Vals /\ fills # <<>>
  BY Filling DEF Fill, Rows
<1>3. /\ obj' = [obj EXCEPT ![o].val = v, ![o].ref = ref]
      /\ cache' = IF FillTop.fresh THEN Finalize(cache, o) ELSE MarkUnmodified(cache, o)
      /\ fills' = rest /\ db' = db /\ tracked' = tracked /\ reading' = reading
  BY DEF FillEnds, fillVars
<1>4. Items(fills) = {FillTop} \cup Items(rest)
  BY <1>1, <1>2, ItemsSplit DEF FillTop
<1>5. /\ FillFits(FillTop) /\ \A f \in Items(rest) : FillFits(f)
  BY <1>4 DEF TInv, FillsOK
<1>6. v = db.rows[FillTop.key].val
  BY DEF FillRow
<1> HIDE DEF o, v, rest
<1>7. SameMap(cache, cache')
  BY <1>1, <1>2, <1>3, MarksOnly
<1>8. \A p \in Objects : /\ obj'[p].life = obj[p].life /\ obj'[p].id = obj[p].id
                         /\ obj'[p].val = IF p = o THEN v ELSE obj[p].val
  <2>1. obj' = [obj EXCEPT ![o] = [obj[o] EXCEPT !.val = v, !.ref = ref]]
    BY <1>1, <1>2, <1>3
  <2>2. /\ [obj[o] EXCEPT !.val = v, !.ref = ref].val = v
        /\ [obj[o] EXCEPT !.val = v, !.ref = ref].life = obj[o].life
        /\ [obj[o] EXCEPT !.val = v, !.ref = ref].id = obj[o].id
    BY <1>1, <1>2 DEF Object
  <2>3. QED
    BY <1>1, <1>2, <2>1, <2>2
<1>9. cache'.modified = IF FillTop.fresh THEN cache.modified ELSE cache.modified \ {o}
  BY <1>1, <1>3 DEF Finalize, MarkUnmodified, Caches
<1>10. KeysOK'
  BY <1>7, <1>8, KeysKept DEF TInv, SameMap, Contains
<1>11. \A p \in Objects : KeyOf(p)' = KeyOf(p) /\ (Alive(p)' <=> Alive(p))
  BY <1>8 DEF KeyOf, Alive
<1>12. \A f \in Items(fills) : f.inst \in Objects
  <2>1. Items(fills) \subseteq Fill
    BY <1>1, ItemsTyped
  <2>2. QED
    BY <2>1 DEF Fill
<1>13. \A f \in Items(rest) : FillFits(f)'
  BY <1>4, <1>5, <1>7, <1>11, <1>12 DEF FillFits, SameMap, Contains
<1>14. FillsOK'
  BY <1>3, <1>13 DEF FillsOK
<1>15. ASSUME NEW p \in Objects, Restored(p) \/ Overwritten(p) PROVE Restored(p)' \/ Overwritten(p)'
  <2>1. /\ RowExists(KeyOf(p))' <=> RowExists(KeyOf(p))
        /\ Get(cache', KeyOf(p)) = Get(cache, KeyOf(p))
    BY <1>3, <1>7, <1>11 DEF RowExists, Get, SameMap
  <2>2. CASE p # o /\ Restored(p)
    BY <1>3, <1>8, <1>9, <1>11, <2>1, <2>2 DEF Restored, IsModified
  <2>3. CASE p = o
    <3>1. obj'[p].val = db'.rows[KeyOf(p)'].val
      <4>1. KeyOf(p)' = FillTop.key
        BY <1>5, <1>11, <2>3 DEF FillFits, o
      <4>2. obj'[p].val = v
        BY <1>8, <2>3
      <4>3. QED
        BY <1>3, <1>6, <4>1, <4>2
    <3>2. CASE FillTop.fresh
      <4>1. CASE Restored(p)
        BY <1>9, <1>11, <2>1, <3>1, <3>2, <4>1 DEF Restored, IsModified
      <4>2. ASSUME NEW f \in Items(fills), f.inst = p, f.overwrite PROVE Overwritten(p)'
        <5>1. f # FillTop
          BY <1>5, <3>2, <4>2 DEF FillFits
        <5>2. QED
          BY <1>3, <1>4, <4>2, <5>1 DEF Overwritten
      <4>3. QED
        BY <1>15, <4>1, <4>2 DEF Overwritten
    <3>3. CASE ~FillTop.fresh
      BY <1>9, <2>3, <3>1, <3>3 DEF Restored, IsModified
    <3>4. QED
      BY <3>2, <3>3
  <2>4. ASSUME NEW f \in Items(fills), f.inst = p, f.overwrite, p # o PROVE Overwritten(p)'
    BY <1>3, <1>4, <2>4 DEF Overwritten, o
  <2>5. QED
    BY <1>15, <2>2, <2>3, <2>4 DEF Overwritten
<1>16. Items(tracked) \subseteq Objects
  BY <1>1, ItemsTyped
<1>17. RestoredOK'
  BY <1>3, <1>11, <1>15, <1>16 DEF TInv, RestoredOK
<1>18. QED
  BY <1>10, <1>14, <1>17 DEF TInv

LEMMA FillReadsTInv == ASSUME IInv, TInv, FillReads PROVE TInv'
<1>1. /\ FillRefKey \in Keys /\ db.rows[FillRefKey] # NoRow /\ Get(cache, FillRefKey) = NoInstance
      /\ Make(FillRefKey) /\ UNCHANGED fillVars /\ reading' = reading
  BY DEF FillReads, RowExists, FillTarget
<1>2. KeysOK' /\ FillsOK' /\ \A o \in Objects :
        /\ Alive(o) => Alive(o)' /\ (Restored(o) => Restored(o)')
        /\ Overwritten(o) => Overwritten(o)'
  BY <1>1, MakeTInv
<1>3. tracked' = tracked /\ Items(tracked) \subseteq Objects
  BY <1>1, ItemsTyped DEF fillVars, IInv, TypeOK
<1>4. RestoredOK'
  BY <1>1, <1>2, <1>3 DEF TInv, RestoredOK
<1>5. QED
  BY <1>2, <1>4 DEF TInv

\* The instance whose turn it is has no row, or is not what its id is looked up
\* as, or is being overwritten.
LEMMA RereadNextTInv == ASSUME IInv, TInv, RereadNext PROVE TInv'
<1> DEFINE rest == Tail(reading.queue)
<1>0. reading.why = "rollback" /\ reading.queue # <<>>
  BY DEF RereadNext, Reading
<1>2. reading.queue \in Seq(Objects)
  BY <1>0, WhatIsRead DEF NoReading
<1>3. PICK h \in Objects : h = Head(reading.queue) /\ Items(reading.queue) = {h} \cup Items(rest)
  BY <1>0, <1>2, Split, ItemsSplit
<1>7. PICK k : k = KeyOf(h)
  OBVIOUS
<1>1. /\ reading.why = "rollback" /\ fills = <<>> /\ Alive(h)
      /\ reading' = [reading EXCEPT !.queue = rest] /\ UNCHANGED fillVars
      /\ \/ ~RowExists(k) /\ UNCHANGED <<obj, cache, fills>>
         \/ /\ RowExists(k) /\ Get(cache, k) # NoInstance
            /\ PushFill(Get(cache, k), k, TRUE, FALSE) /\ UNCHANGED <<obj, cache>>
         \/ RowExists(k) /\ Get(cache, k) = NoInstance /\ Make(k)
  BY <1>3, <1>7 DEF RereadNext, Reading
<1>4. reading'.why = "rollback" /\ reading'.queue = rest
  <2>1. reading \in [why : {"rollback"}, queue : Seq(Objects)]
    BY <1>0, <1>2 DEF IInv, TypeOK, Readings, NoReading
  <2>2. QED
    BY <1>1, <2>1
<1>5. /\ obj \in [Objects -> Object] /\ cache \in Caches /\ fills \in Seq(Fill)
      /\ tracked' = tracked /\ db' = db /\ Items(tracked) \subseteq Objects
  BY <1>1, ItemsTyped DEF IInv, TypeOK, fillVars
<1>6. \A l : RowExists(l) <=> l \in Keys /\ db.rows[l] # NoRow
  BY DEF RowExists
<1> HIDE DEF rest
<1>8. ASSUME KeysOK', FillsOK',
             \A p \in Objects : /\ Alive(p) => Alive(p)' /\ (Restored(p) => Restored(p)')
                                /\ Overwritten(p) => Overwritten(p)',
             Restored(h)' \/ Overwritten(h)'
      PROVE  TInv'
  <2>1. ASSUME NEW p \in Items(tracked')
        PROVE  p \in Items(reading'.queue) \/ (Alive(p)' /\ (Restored(p)' \/ Overwritten(p)'))
    <3>1. p \in Items(tracked) /\ p \in Objects
      BY <1>5, <2>1
    <3>2. p \in Items(reading.queue) \/ (Alive(p) /\ (Restored(p) \/ Overwritten(p)))
      BY <1>1, <3>1 DEF TInv, RestoredOK
    <3>3. Alive(h)'
      BY <1>1, <1>3, <1>8
    <3>4. p = h \/ p \in Items(rest) \/ (Alive(p) /\ (Restored(p) \/ Overwritten(p)))
      BY <1>3, <3>2
    <3>5. QED
      BY <1>4, <1>8, <3>1, <3>3, <3>4
  <2>2. RestoredOK'
    BY <2>1 DEF RestoredOK
  <2>3. QED
    BY <1>8, <2>2 DEF TInv
<1>9. ASSUME UNCHANGED <<obj, cache>>, NEW p \in Objects
      PROVE  /\ Alive(p)' <=> Alive(p)
             /\ Restored(p)' <=> Restored(p)
  BY <1>5, <1>9 DEF Alive, Restored, RowExists, KeyOf
<1>10. ASSUME UNCHANGED <<obj, cache>> PROVE KeysOK'
  BY <1>10 DEF TInv, KeysOK, KeyOf
<1>11. CASE ~RowExists(k) /\ UNCHANGED <<obj, cache, fills>>
  <2>1. FillsOK' /\ ~\E p \in Objects : Overwritten(p)
    BY <1>1, <1>11, NoItems DEF FillsOK, Overwritten
  <2>2. Restored(h)
    BY <1>7, <1>11 DEF Restored
  <2>3. UNCHANGED <<obj, cache>>
    BY <1>11
  <2>4. KeysOK' /\ \A p \in Objects : (Alive(p) => Alive(p)') /\ (Restored(p) => Restored(p)')
    BY <1>9, <1>10, <2>3
  <2>5. QED
    BY <1>3, <1>8, <2>1, <2>2, <2>4
<1>12. CASE /\ RowExists(k) /\ Get(cache, k) # NoInstance
            /\ PushFill(Get(cache, k), k, TRUE, FALSE) /\ UNCHANGED <<obj, cache>>
  <2>0. PICK g : g = Get(cache, k)
    OBVIOUS
  <2>1. k \in Keys /\ g \in Objects /\ cache.ids[g] = k /\ Contains(cache, g)
    <3>1. k \in Keys /\ g \in Objects
      BY <1>5, <1>6, <1>12, <2>0 DEF Caches, Get
    <3>2. cache.ids[g] = k /\ k # NoKey
      BY <1>12, <2>0, <3>1, SentinelAssumption DEF IInv, DataInv, CacheOK, Keys
    <3>3. QED
      BY <3>1, <3>2 DEF Contains
  <2>2. KeyOf(g) = k
    BY <2>1 DEF TInv, KeysOK
  <2>3. PushFill(g, k, TRUE, FALSE)
    BY <1>12, <2>0
  <2>4. /\ \A f \in Items(fills') :
              \/ f.inst = g /\ f.key = k /\ f.overwrite = TRUE /\ f.fresh = FALSE
              \/ \E e \in Items(fills) : SameFill(f, e)
        /\ \E f \in Items(fills') : f.inst = g /\ f.overwrite = TRUE
    BY <1>5, <2>1, <2>3, FillsPushed
  <2>5. Items(fills) = {}
    BY <1>1, NoItems
  <2>6. UNCHANGED <<obj, cache>>
    BY <1>12
  <2>7. Contains(cache', g) /\ KeyOf(g)' = k
    BY <2>1, <2>2, <2>6 DEF Contains, KeyOf
  <2>8. FillsOK'
    <3>1. ASSUME NEW f \in Items(fills') PROVE FillFits(f)'
      <4>1. f.inst = g /\ f.key = k /\ f.overwrite = TRUE /\ f.fresh = FALSE
        BY <2>4, <2>5
      <4>2. QED
        BY <2>7, <4>1 DEF FillFits
    <3>2. QED
      BY <3>1 DEF FillsOK
  <2>9. g = h => Overwritten(h)'
    <3>1. PICK f \in Items(fills') : f.inst = g /\ f.overwrite = TRUE
      BY <2>4
    <3>2. QED
      BY <3>1 DEF Overwritten
  <2>10. g # h => Restored(h)
    BY <1>7, <2>0 DEF Restored
  <2>11. ~\E p \in Objects : Overwritten(p)
    BY <2>5 DEF Overwritten
  <2>12. KeysOK' /\ \A p \in Objects : (Alive(p) => Alive(p)') /\ (Restored(p) => Restored(p)')
    BY <1>9, <1>10, <2>6
  <2>13. QED
    BY <1>3, <1>8, <2>8, <2>9, <2>10, <2>11, <2>12
<1>13. CASE RowExists(k) /\ Get(cache, k) = NoInstance /\ Make(k)
  <2>1. k \in Keys /\ db.rows[k] # NoRow /\ reading'.why = reading.why
    BY <1>1, <1>4, <1>6, <1>13
  <2>2. /\ KeysOK' /\ FillsOK'
        /\ \A o \in Objects : /\ Alive(o) => Alive(o)' /\ (Restored(o) => Restored(o)')
                              /\ Overwritten(o) => Overwritten(o)'
        /\ \A o \in Objects : Alive(o) /\ KeyOf(o) = k => Restored(o)'
    BY <1>1, <1>13, <2>1, MakeTInv
  <2>3. Restored(h)'
    BY <1>1, <1>3, <1>7, <2>2
  <2>4. QED
    BY <1>8, <2>2, <2>3
<1>14. QED
  BY <1>1, <1>11, <1>12, <1>13

\* Steps of the client and of a merge, which fill nothing.
LEMMA ClientTInv ==
    ASSUME IInv, TInv, Idle, KeysOK',
           UNCHANGED fills, UNCHANGED reading \/ reading'.why # "rollback"
    PROVE  TInv'
<1>1. fills = <<>> /\ reading.why = "none"
  BY BetweenCalls DEF NoReading
<1>2. QED
  BY <1>1, NotFilling

LEMMA CallTInv ==
    ASSUME IInv, TInv, StepsOf, KeysOK', UNCHANGED fills,
           UNCHANGED reading \/ reading' = [why |-> "rollback", queue |-> tracked']
    PROVE  TInv'
<1>1. fills = <<>> /\ reading.why = "none"
  BY DEF StepsOf, NoReading
<1>2. QED
  BY <1>1, NotFilling

LEMMA SameKeys == ASSUME KeysOK, UNCHANGED <<obj, cache>> PROVE KeysOK'
BY DEF KeysOK, KeyOf

LEMMA NothingReadTInv ==
    ASSUME TInv, UNCHANGED <<obj, cache, db, tracked, reading, fills>> PROVE TInv'
<1>1. KeysOK'
  BY SameKeys DEF TInv
<1>2. FillsOK'
  BY DEF TInv, FillsOK, FillFits, KeyOf
<1>3. RestoredOK'
  BY DEF TInv, RestoredOK, Restored, Overwritten, RowExists, KeyOf, Alive
<1>4. QED
  BY <1>1, <1>2, <1>3 DEF TInv

\* Whatever a client does, an instance that stays cached keeps its id.
LEMMA ClientKeys ==
    ASSUME IInv, TInv, NEW o \in Objects,
           \/ New(o) \/ Delete(o) \/ Remove(o)
           \/ \E v \in Vals : SetVal(o, v)
           \/ \E p \in Objects \cup {NoInstance} : SetRef(o, p)
    PROVE  TInv'
<1>1. obj \in [Objects -> Object] /\ cache \in Caches /\ CacheOK
  BY DEF IInv, TypeOK, DataInv
<1>2. CASE New(o) \/ Delete(o)
  <2>1. ~Contains(cache, o) /\ \A p \in Objects : p # o => obj'[p] = obj[p]
    BY <1>1, <1>2 DEF New, Delete, CacheOK, Alive
  <2>2. SameMap(cache, cache')
    BY <1>1, <1>2, MarksOnly DEF New, Delete, SameMap
  <2>3. KeysOK'
    BY <2>1, <2>2, KeysKept DEF TInv, SameMap, Contains
  <2>4. QED
    BY <1>2, <2>3, ClientTInv DEF New, Delete, sessionVars
<1>3. CASE Remove(o)
  <2>1. cache' = Take(cache, o) /\ \A p \in Objects : obj'[p].id = obj[p].id
    BY <1>1, <1>3 DEF Remove, Object
  <2>2. \A p \in Objects : Contains(cache', p) => Contains(cache, p) /\ cache'.ids[p] = cache.ids[p]
    <3>1. cache'.ids = [cache.ids EXCEPT ![o] = NoKey]
      BY <1>1, <2>1, TakeOne
    <3>2. cache.ids \in [Objects -> Keys \cup {NoKey}]
      BY <1>1 DEF Caches
    <3>3. QED
      BY <3>1, <3>2 DEF Contains
  <2>3. KeysOK'
    BY <2>1, <2>2, KeysKept DEF TInv
  <2>4. QED
    BY <1>3, <2>3, ClientTInv DEF Remove
<1>4. CASE \/ \E v \in Vals : SetVal(o, v)
           \/ \E p \in Objects \cup {NoInstance} : SetRef(o, p)
  <2>1. /\ Idle /\ UNCHANGED sessionVars /\ cache' = Notify(cache, o)
        /\ \A p \in Objects : obj'[p].id = obj[p].id
    BY <1>1, <1>4 DEF SetVal, SetRef, Object
  <2>2. SameMap(cache, cache')
    BY <1>1, <2>1, MarksOnly
  <2>3. KeysOK'
    BY <2>1, <2>2, KeysKept DEF TInv, SameMap, Contains
  <2>4. QED
    BY <2>1, <2>3, ClientTInv DEF sessionVars
<1>5. QED
  BY <1>2, <1>3, <1>4

LEMMA RemoveWhereTInv ==
    ASSUME IInv, TInv, NEW c \in Classes, NEW v \in Vals, RemoveWhere(c, v) PROVE TInv'
<1> DEFINE given == Returned(RowsWith(c, v))
<1>1. obj \in [Objects -> Object] /\ cache \in Caches
  BY DEF IInv, TypeOK
<1>2. given \in SUBSET Objects
  BY <1>1 DEF Returned, RowsWith, Get, Caches
<1>3. /\ Idle /\ UNCHANGED <<fills, reading>> /\ cache' = TakeAll(cache, given)
      /\ obj' = [o \in Objects |-> IF o \in given THEN [obj[o] EXCEPT !.life = "client"]
                                                 ELSE obj[o]]
  BY DEF RemoveWhere
<1> HIDE DEF given
<1>4. \A p \in Objects : obj'[p].id = obj[p].id
  BY <1>1, <1>3 DEF Object
<1>5. \A p \in Objects : Contains(cache', p) => Contains(cache, p) /\ cache'.ids[p] = cache.ids[p]
  <2>1. cache'.ids = [o \in Objects |-> IF o \in given THEN NoKey ELSE cache.ids[o]]
    BY <1>1, <1>2, <1>3, TakeSome
  <2>2. QED
    BY <2>1 DEF Contains
<1>6. KeysOK'
  BY <1>4, <1>5, KeysKept DEF TInv
<1>7. QED
  BY <1>3, <1>6, ClientTInv

LEMMA ReopenTInv == ASSUME IInv, TInv, Reopen PROVE TInv'
<1>1. \A p \in Objects : ~Contains(cache', p)
  BY EmptyTyped DEF Reopen, Contains
<1>2. KeysOK'
  BY <1>1 DEF KeysOK
<1>3. QED
  BY <1>2, ClientTInv DEF Reopen

LEMMA InsertionTInv == ASSUME IInv, TInv, Insertion PROVE TInv'
<1> DEFINE d(o) == db.seq[ClassOf[o]] + 1
           notified(o) == IF obj[o].id # d(o) THEN Notify(cache, o) ELSE cache
<1>1. PICK o : o = Top.inst
  OBVIOUS
<1>2. PICK k : k = <<ClassOf[o], d(o)>>
  OBVIOUS
<1>3. /\ StepsOf /\ Top.kind = "merge" /\ Top.pc = "execute" /\ Top.op = "Create"
      /\ obj' = [obj EXCEPT ![o].id = d(o), ![o].life = "session"]
      /\ cache' = Finalize(Insert(notified(o), o, k), o)
      /\ UNCHANGED <<reading, fills>>
  BY <1>1, <1>2 DEF Insertion, Succeeds
<1>4. o \in Objects /\ ~Contains(cache, o)
  BY <1>1, <1>3, InCall DEF Frame, FrameFits, Living, Cached
<1>5. obj \in [Objects -> Object] /\ cache \in Caches
  BY DEF IInv, TypeOK
<1>6. SameMap(cache, notified(o)) /\ ~Contains(notified(o), o)
  BY <1>4, <1>5, MarksOnly DEF SameMap, Contains
<1> HIDE DEF notified
<1>7. cache'.ids = [cache.ids EXCEPT ![o] = k]
  <2>1. Finalize(Insert(notified(o), o, k), o).ids = Insert(notified(o), o, k).ids
    BY DEF Finalize
  <2>2. QED
    BY <1>3, <1>6, <2>1 DEF Insert, SameMap
<1>8. \A p \in Objects : obj'[p].id = IF p = o THEN d(o) ELSE obj[p].id
  BY <1>3, <1>4, <1>5 DEF Object
<1> HIDE DEF d
<1>9. \A p \in Objects : cache'.ids[p] = IF p = o THEN k ELSE cache.ids[p]
  BY <1>4, <1>5, <1>7 DEF Caches
<1>10. KeysOK'
  BY <1>2, <1>8, <1>9 DEF TInv, KeysOK, KeyOf, Contains
<1>11. QED
  BY <1>3, <1>10, CallTInv

LEMMA UpdateTInv == ASSUME IInv, TInv, Update PROVE TInv'
<1>1. StepsOf /\ cache' = MarkUnmodified(cache, Top.inst) /\ UNCHANGED <<obj, reading, fills>>
  BY DEF Update, Succeeds
<1>2. cache'.ids = cache.ids
  BY <1>1 DEF MarkUnmodified
<1>3. KeysOK'
  BY <1>1, <1>2, KeysKept DEF TInv, Contains
<1>4. QED
  BY <1>1, <1>3, CallTInv

\* The other steps of a call, and the begin of a rollback.
LEMMA TransactionTInv ==
    ASSUME IInv, TInv,
           \/ CommitTransaction \/ BeginTransaction \/ RollbackTransaction
           \/ MergeReferences \/ UpdateMisses \/ StatementFails
           \/ MergeReturns \/ MergeNext \/ MergeManyCommits \/ MergeManyRollsBack
           \/ \E o \in Objects : Merge(o) \/ RemoveFails(o) \/ \E p \in Objects : MergeMany(o, p)
           \/ \E c \in Classes : Select(c)
    PROVE  TInv'
<1>1. KeysOK' /\ UNCHANGED fills
  <2>1. UNCHANGED <<obj, cache, fills>>
    BY DEF CommitTransaction, BeginTransaction, RollbackTransaction, MergeReferences,
           UpdateMisses, StatementFails, Fails, MergeReturns, MergeNext, MergeManyCommits,
           MergeManyRollsBack, Merge, RemoveFails, MergeMany, Select
  <2>2. QED
    BY <2>1, SameKeys DEF TInv
<1>2. CASE \/ CommitTransaction \/ BeginTransaction
           \/ \E o \in Objects : Merge(o) \/ RemoveFails(o) \/ \E p \in Objects : MergeMany(o, p)
           \/ \E c \in Classes : Select(c)
  <2>1. Idle /\ (UNCHANGED reading \/ reading'.why # "rollback")
    BY <1>2 DEF CommitTransaction, BeginTransaction, Merge, RemoveFails, MergeMany, Select
  <2>2. QED
    BY <1>1, <2>1, ClientTInv
<1>3. CASE RollbackTransaction
  <2>1. /\ Idle /\ tracked' = tracked
        /\ UNCHANGED reading \/ reading' = [why |-> "rollback", queue |-> tracked]
    BY <1>3 DEF RollbackTransaction, RollsBackInner, RollsBackOuter
  <2>2. fills = <<>> /\ reading.why = "none"
    BY <2>1, BetweenCalls DEF NoReading
  <2>3. QED
    BY <1>1, <2>1, <2>2, NotFilling
<1>4. CASE MergeReferences \/ UpdateMisses \/ StatementFails \/ MergeNext \/ MergeManyCommits
  <2>1. StepsOf /\ UNCHANGED reading
    BY <1>4 DEF MergeReferences, UpdateMisses, StatementFails, Fails, MergeNext, MergeManyCommits
  <2>2. QED
    BY <1>1, <2>1, CallTInv
<1>5. CASE MergeReturns \/ MergeManyRollsBack
  <2>1. StepsOf /\ (UNCHANGED reading \/ reading' = [why |-> "rollback", queue |-> tracked'])
    BY <1>5 DEF MergeReturns, MergeManyRollsBack, RollsBackInner, RollsBackOuter
  <2>2. QED
    BY <1>1, <2>1, CallTInv
<1>6. QED
  BY <1>2, <1>3, <1>4, <1>5

\* The end of a read, or of the process.
LEMMA ReadEndsTInv ==
    ASSUME IInv, TInv,
           \/ FillStatementFails \/ RereadFails \/ SelectUnsynchronized \/ SelectEnds \/ RollbackEnds
    PROVE  TInv'
<1>1. CASE SelectUnsynchronized \/ SelectEnds \/ RollbackEnds \/ \E e \in Errors : ReadFails(e)
  <2>1. UNCHANGED <<obj, cache>> /\ fills' = <<>> /\ reading' = NoReading
    BY <1>1 DEF SelectUnsynchronized, SelectEnds, RollbackEnds, ReadFails, Reading
  <2>2. KeysOK' /\ reading'.why # "rollback"
    BY <2>1, SameKeys DEF TInv, NoReading
  <2>3. QED
    BY <2>1, <2>2, NotFilling
<1>2. CASE RereadFails \/ \E why \in Deaths : ReadFatal(why)
  BY <1>2, NothingReadTInv DEF RereadFails, ReadFatal
<1>3. FillStatementFails => \/ \E e \in Errors : ReadFails(e)
                            \/ \E why \in Deaths : ReadFatal(why)
  BY DEF FillStatementFails, Errors, Deaths
<1>4. QED
  BY <1>1, <1>2, <1>3

LEMMA SelectNextTInv == ASSUME IInv, TInv, SelectNext PROVE TInv'
<1>0. reading.why = "select" /\ reading.queue # <<>>
  BY DEF SelectNext, Reading
<1>1. reading.queue \in Seq(Keys) /\ \A i \in 1..Len(reading.queue) : db.rows[reading.queue[i]] # NoRow
  BY <1>0, WhatIsRead DEF NoReading
<1>2. PICK k : k = Head(reading.queue)
  OBVIOUS
<1>3. k \in Keys /\ db.rows[k] # NoRow
  <2>1. PICK n \in Nat : n = Len(reading.queue) /\ n # 0
    BY <1>0, <1>1, Split
  <2>2. 1 \in 1..n /\ k = reading.queue[1] /\ k \in Keys
    BY <1>0, <1>1, <1>2, <2>1, Split
  <2>3. QED
    BY <1>1, <2>1, <2>2
<1>4. reading'.why = "select"
  <2>1. reading \in [why : {"select"}, queue : Seq(Keys)]
    BY <1>0, <1>1 DEF IInv, TypeOK, Readings, NoReading
  <2>2. QED
    BY <2>1 DEF SelectNext
<1>5. /\ UNCHANGED fillVars /\ fills = <<>>
      /\ \/ UNCHANGED <<obj, cache, fills>>
         \/ Get(cache, k) = NoInstance /\ Make(k)
  BY <1>2 DEF SelectNext, Reading
<1>6. CASE UNCHANGED <<obj, cache, fills>>
  BY <1>4, <1>5, <1>6, SameKeys, NotFilling DEF TInv
<1>7. CASE Get(cache, k) = NoInstance /\ Make(k)
  <2>1. KeysOK' /\ FillsOK'
    BY <1>0, <1>3, <1>4, <1>5, <1>7, MakeTInv
  <2>2. QED
    BY <1>4, <2>1 DEF TInv, RestoredOK
<1>8. QED
  BY <1>5, <1>6, <1>7

LEMMA InitTInv == ASSUME Init PROVE TInv
<1>1. KeysOK
  BY EmptyTyped DEF Init, KeysOK, Contains
<1>2. QED
  BY <1>1, NoItems DEF Init, TInv, FillsOK, RestoredOK, NoReading

LEMMA NextTInv == ASSUME IInv, TInv, [Next]_vars PROVE TInv'
<1>1. CASE UNCHANGED vars
  BY <1>1, NothingReadTInv DEF vars
<1>2. CASE Client
  <2>1. ASSUME NEW o \in Objects,
               \/ New(o) \/ Delete(o) \/ Merge(o) \/ Remove(o) \/ RemoveFails(o)
               \/ \E v \in Vals : SetVal(o, v)
               \/ \E p \in Objects \cup {NoInstance} : SetRef(o, p)
               \/ \E p \in Objects : MergeMany(o, p)
        PROVE  TInv'
    BY <2>1, ClientKeys, TransactionTInv
  <2>2. ASSUME NEW c \in Classes, Select(c) \/ \E v \in Vals : RemoveWhere(c, v)
        PROVE  TInv'
    BY <2>2, TransactionTInv, RemoveWhereTInv
  <2>3. CASE BeginTransaction \/ CommitTransaction \/ RollbackTransaction \/ Reopen
    BY <2>3, TransactionTInv, ReopenTInv
  <2>4. QED
    BY <1>2, <2>1, <2>2, <2>3 DEF Client
<1>3. CASE Fault
  BY <1>3, TransactionTInv, ReadEndsTInv DEF Fault
<1>4. CASE Step
  <2>1. CASE CrossReferenceFatal \/ FillModifiedFatal \/ FillDanglingFatal \/ RereadDangling
    BY <2>1, NothingReadTInv
       DEF CrossReferenceFatal, FillModifiedFatal, FillDanglingFatal, RereadDangling, Die
  <2>2. CASE Insertion \/ Update
    BY <2>2, InsertionTInv, UpdateTInv
  <2>3. CASE \/ MergeReferences \/ UpdateMisses
             \/ MergeReturns \/ MergeNext \/ MergeManyCommits \/ MergeManyRollsBack
    BY <2>3, TransactionTInv
  <2>4. CASE FillNull \/ FillCached
    <3>1. FillSteps /\ FillTop \in Fill
      BY <2>4, Filling DEF FillNull, FillCached
    <3>2. obj[FillTop.inst].ref \in Objects \cup {NoInstance}
      BY <3>1 DEF IInv, TypeOK, Object, Fill
    <3>3. FillTarget \in Objects \cup {NoInstance}
      BY DEF FillTarget, Get, IInv, TypeOK, Caches
    <3>4. QED
      BY <2>4, <3>1, <3>2, <3>3, FillEndsTInv DEF FillNull, FillCached
  <2>5. CASE FillReads \/ RereadNext \/ SelectNext
    BY <2>5, FillReadsTInv, RereadNextTInv, SelectNextTInv
  <2>6. CASE RollbackEnds \/ SelectUnsynchronized \/ SelectEnds
    BY <2>6, ReadEndsTInv
  <2>7. QED
    BY <1>4, <2>1, <2>2, <2>3, <2>4, <2>5, <2>6 DEF Step
<1>5. QED
  BY <1>1, <1>2, <1>3, <1>4 DEF Next

\* Nothing is left to be read or being filled when a rollback is over.
LEMMA RestoresLast ==
    ASSUME IInv, TInv, [Next]_vars, reading.why = "rollback", reading'.why = "none"
    PROVE  \A i \in 1..Len(tracked) : Restored(tracked[i])
<1>1. RollbackEnds
  <2>1. reading.why # "select" /\ reading.why # "none"
    OBVIOUS
  <2>2. reading' # reading /\ Running
    BY DEF Running, NoReading
  <2>3. ~Client
    BY <2>2 DEF Client, New, SetVal, SetRef, Delete, Merge, MergeMany, Remove, RemoveFails,
         RemoveWhere, Select, BeginTransaction, CommitTransaction, RollbackTransaction, Reopen, Idle
  <2>4. reading # NoReading
    BY DEF NoReading
  <2>5. ~Fault
    BY <2>1, <2>2, <2>4 DEF Fault, StatementFails, Fails, FillStatementFails, RereadFails,
         ReadFatal, StepsOf
  <2>6. ~(\/ CrossReferenceFatal \/ MergeReferences \/ Insertion \/ Update \/ UpdateMisses
          \/ MergeReturns \/ MergeNext \/ MergeManyCommits \/ MergeManyRollsBack)
    BY <2>4 DEF CrossReferenceFatal, MergeReferences, Insertion, Update, UpdateMisses, MergeReturns,
         MergeNext, MergeManyCommits, MergeManyRollsBack, StepsOf
  <2>7. ~(\/ FillNull \/ FillCached \/ FillModifiedFatal \/ FillReads \/ FillDanglingFatal
          \/ RereadDangling)
    BY <2>2 DEF FillNull, FillCached, FillEnds, FillModifiedFatal, FillReads, FillDanglingFatal,
         RereadDangling, Die
  <2>8. ~(SelectNext \/ SelectUnsynchronized \/ SelectEnds)
    BY <2>1 DEF SelectNext, SelectUnsynchronized, SelectEnds, Reading
  <2>9. ~RereadNext
    <3>1. ASSUME RereadNext PROVE reading'.why = "rollback"
      <4>1. reading \in [why : {"rollback"}, queue : Seq(Objects)]
        BY DEF IInv, TypeOK, Readings, NoReading
      <4>2. QED
        BY <3>1, <4>1 DEF RereadNext
    <3>2. QED
      BY <3>1
  <2>10. ~UNCHANGED vars
    BY <2>2 DEF vars
  <2>11. QED
    BY <2>3, <2>5, <2>6, <2>7, <2>8, <2>9, <2>10 DEF Next, Step
<1>2. Items(reading.queue) = {} /\ Items(fills) = {}
  BY <1>1, NoItems DEF RollbackEnds, Reading
<1>3. \A o \in Items(tracked) : Restored(o)
  BY <1>2 DEF TInv, RestoredOK, Overwritten
<1>4. QED
  BY <1>3 DEF Items

\* Whatever is cached, of any chain of references, and however the rollback was
\* asked for: an instance it tracked ends unmodified and as its row, unless the
\* row is gone or its id has come to mean another instance
\* (qormsession.cpp:99-125, qormsqliteprovider.cpp:940-956).
THEOREM RollbacksRestore == Spec => RollbackRestores
<1>1. IInv /\ TInv /\ [Next]_vars
        => [reading.why = "rollback" /\ reading'.why = "none"
              => \A i \in 1..Len(tracked) :
                     LET o == tracked[i]
                     IN  RowExists(KeyOf(o)) /\ Get(cache, KeyOf(o)) = o
                         => ~IsModified(cache, o) /\ obj[o].val = db.rows[KeyOf(o)].val]_vars
  BY RestoresLast DEF Restored
<1>2. IInv /\ TInv /\ [Next]_vars => TInv'
  BY NextTInv
<1>3. Init => TInv
  BY InitTInv
<1>4. QED
  BY <1>1, <1>2, <1>3, Invariant, PTL DEF Spec, RollbackRestores
-----------------------------------------------------------------------------
(* What a successful merge leaves.  The classes do not reference each      *)
(* other in a circle, and a client links its instances before it merges    *)
(* them.                                                                   *)

Acyclic(rank) ==
    rank \in [Classes -> Nat] /\ \A c \in Classes : RefClass[c] # NoClass => rank[RefClass[c]] < rank[c]

\* What an instance references is of the right class, and cached when it is.
ConnectedOK == \A o \in Objects : o \in cache.connected => Alive(o)
RefTyped ==
    \A o \in Objects : obj[o].ref # NoInstance => ClassOf[obj[o].ref] = RefClass[ClassOf[o]]
RefCached ==
    \A o \in Objects : Contains(cache, o) /\ obj[o].ref # NoInstance => Contains(cache, obj[o].ref)

SeqOK ==
    \A k \in Keys : /\ db.rows[k] # NoRow => k[2] <= db.seq[k[1]]
                    /\ saved.rows[k] # NoRow => k[2] <= saved.seq[k[1]]
                    /\ saved.seq[k[1]] <= db.seq[k[1]]

\* Cached, and its insertion was not rolled back; and what is listened to.
Known(o) == Contains(cache, o) /\ KeyOf(o) \notin undone
Kept(o) == Known(o) /\ o \in cache.connected

\* A rollback has yet to overwrite it, or is overwriting it.
Pending(o) ==
    reading.why = "rollback" /\ (o \in Items(reading.queue) \/ \E f \in Items(fills) : f.inst = o)

ExistOK(o) == Known(o) => Get(cache, KeyOf(o)) = o /\ db.rows[KeyOf(o)] # NoRow

DbOK(o) ==
    Kept(o) => /\ db.rows[KeyOf(o)].ref = RefId(o)
               /\ o \notin cache.modified /\ ~Pending(o) => db.rows[KeyOf(o)].val = obj[o].val

\* What a rollback would find: the value of an instance that a transaction may
\* have written can differ, but then it is tracked.
SvOK(o) ==
    Kept(o) /\ saved.rows[KeyOf(o)] # NoRow =>
        /\ saved.rows[KeyOf(o)].ref = RefId(o)
        /\ o \notin cache.modified \cup merging \cup Items(tracked)
               => saved.rows[KeyOf(o)].val = obj[o].val

KeptOK == \A o \in Objects : ExistOK(o) /\ DbOK(o) /\ SvOK(o)

\* A transaction has only changed rows of what is cached.
UncachedSame ==
    \A k \in Keys \ undone : Get(cache, k) = NoInstance => db.rows[k] \in {NoRow, saved.rows[k]}

\* Different fills fill different instances, and a new one is blank until its end.
Apart(s) == \A i, j \in 1..Len(s) : s[i].inst = s[j].inst => i = j
Blank(f) ==
    /\ f.fresh => /\ obj[f.inst].ref = NoInstance /\ f.inst \notin cache.connected
                  /\ f.key \in undone \/ db.rows[f.key] = saved.rows[f.key]
    /\ ~f.fresh => reading.why = "rollback"
BlankOK == Apart(fills) /\ \A f \in Items(fills) : Blank(f)

LinksOK == ConnectedOK /\ RefTyped /\ RefCached
DInv == LinksOK /\ SeqOK /\ KeptOK /\ UncachedSame /\ BlankOK

\* Each frame was called for the reference of the one below it, so that its class
\* has a lower rank.
Ordered(rank, s) ==
    \A i, j \in 1..Len(s) :
        i < j /\ s[j].kind = "merge" => rank[ClassOf[s[i].inst]] < rank[ClassOf[s[j].inst]]
Linked(s) ==
    \A i, j \in 1..Len(s) : j = i + 1 /\ s[j].kind = "merge" => obj[s[j].inst].ref = s[i].inst

Chain(rank, s) == Ordered(rank, s) /\ Linked(s)

\* An update, and a merge that has succeeded, is of a cached instance.
FrameKnows(f) ==
    f.kind = "merge" /\ (f.op = "Update" \/ (f.pc = "return" /\ f.result)) => Contains(cache, f.inst)

CInv(rank) ==
    reading = NoReading =>
        /\ Chain(rank, stack) /\ \A f \in Items(stack) : FrameKnows(f)
        /\ stack # <<>> /\ Top.kind = "merge" /\ Top.pc = "execute" /\ obj[Top.inst].ref # NoInstance
               => Contains(cache, obj[Top.inst].ref)

VInv(rank) == DInv /\ CInv(rank) /\ MergedIsInTable

LEMMA Facts ==
    ASSUME IInv, TInv
    PROVE  /\ obj \in [Objects -> Object] /\ cache \in Caches
           /\ cache.ids \in [Objects -> Keys \cup {NoKey}]
           /\ cache.byId \in [Keys -> Objects \cup {NoInstance}]
           /\ db.rows \in [Keys -> Rows \cup {NoRow}] /\ db.seq \in [Classes -> 0..MaxId]
           /\ saved.rows \in [Keys -> Rows \cup {NoRow}] /\ saved.seq \in [Classes -> 0..MaxId]
           /\ db \in Tables /\ saved \in Tables /\ tracked \in Seq(Objects) /\ fills \in Seq(Fill)
BY DEF IInv, TypeOK, Caches, Tables

LEMMA CachedFacts ==
    ASSUME IInv, TInv
    PROVE  /\ \A o \in Objects :
                  Contains(cache, o) => Alive(o) /\ KeyOf(o) \in Keys /\ cache.ids[o] = KeyOf(o)
           /\ \A k \in Keys : Get(cache, k) # NoInstance =>
                  Get(cache, k) \in Objects /\ Contains(cache, Get(cache, k))
                  /\ KeyOf(Get(cache, k)) = k
           /\ \A o \in Objects : Alive(o) /\ obj[o].ref # NoInstance
                                    => obj[o].ref \in Objects /\ Alive(obj[o].ref)
<1>1. /\ CacheOK /\ KeysOK /\ RefsOK
  BY DEF IInv, DataInv, TInv
<1>2. ASSUME NEW o \in Objects, Contains(cache, o)
      PROVE  Alive(o) /\ KeyOf(o) \in Keys /\ cache.ids[o] = KeyOf(o)
  <2>1. cache.ids[o] = KeyOf(o) /\ obj[o].life = "session"
    BY <1>1, <1>2 DEF KeysOK, CacheOK
  <2>2. QED
    BY <1>2, <2>1, Facts DEF Contains, Alive
<1>3. ASSUME NEW k \in Keys, Get(cache, k) # NoInstance
      PROVE  /\ Get(cache, k) \in Objects /\ Contains(cache, Get(cache, k))
             /\ KeyOf(Get(cache, k)) = k
  <2>1. Get(cache, k) \in Objects /\ cache.ids[Get(cache, k)] = k /\ k # NoKey
    BY <1>1, <1>3, Facts, SentinelAssumption DEF CacheOK, Get, Keys
  <2>2. Contains(cache, Get(cache, k))
    BY <2>1 DEF Contains
  <2>3. QED
    BY <1>2, <2>1, <2>2
<1>4. ASSUME NEW o \in Objects, Alive(o), obj[o].ref # NoInstance
      PROVE  obj[o].ref \in Objects /\ Alive(obj[o].ref)
  BY <1>1, <1>4, Facts DEF RefsOK, Object
<1>5. QED
  BY <1>2, <1>3, <1>4

\* A step that leaves an instance, its row and its place in the cache alone, as
\* far as the invariant needs it.
Undisturbed(o) ==
    Known(o)' =>
        /\ Known(o) /\ KeyOf(o)' = KeyOf(o)
        /\ Get(cache', KeyOf(o)) = Get(cache, KeyOf(o))
        /\ db'.rows[KeyOf(o)] = db.rows[KeyOf(o)]
        /\ o \in cache'.connected =>
               /\ o \in cache.connected /\ RefId(o)' = RefId(o)
               /\ o \notin cache'.modified => o \notin cache.modified /\ obj'[o].val = obj[o].val
               /\ Pending(o) => Pending(o)'

StillSaved(o) ==
    /\ Known(o)' => saved'.rows[KeyOf(o)] = saved.rows[KeyOf(o)]
    /\ o \in merging \cup Items(tracked) => o \in merging' \cup Items(tracked')

LEMMA RowKept ==
    ASSUME NEW o \in Objects, ExistOK(o), DbOK(o), Undisturbed(o)
    PROVE  ExistOK(o)' /\ DbOK(o)'
<1>1. ExistOK(o)'
  BY DEF ExistOK, Undisturbed
<1>2. ASSUME Kept(o)'
      PROVE  /\ db'.rows[KeyOf(o)'].ref = RefId(o)'
             /\ o \notin cache'.modified /\ ~Pending(o)' => db'.rows[KeyOf(o)'].val = obj'[o].val
  <2>1. Kept(o)
    BY <1>2 DEF Kept, Undisturbed
  <2>2. Known(o)' /\ o \in cache'.connected
    BY <1>2 DEF Kept
  <2>3. QED
    BY <2>1, <2>2 DEF DbOK, Undisturbed
<1>3. QED
  BY <1>1, <1>2 DEF DbOK

LEMMA SavedKept ==
    ASSUME NEW o \in Objects, SvOK(o), Undisturbed(o), StillSaved(o)
    PROVE  SvOK(o)'
<1>1. ASSUME Kept(o)', saved'.rows[KeyOf(o)'] # NoRow
      PROVE  /\ saved'.rows[KeyOf(o)'].ref = RefId(o)'
             /\ o \notin cache'.modified \cup merging' \cup Items(tracked')
                    => saved'.rows[KeyOf(o)'].val = obj'[o].val
  <2>1. Known(o)' /\ o \in cache'.connected
    BY <1>1 DEF Kept
  <2>2. Kept(o)
    BY <2>1 DEF Kept, Undisturbed
  <2>3. QED
    BY <1>1, <2>1, <2>2 DEF SvOK, Undisturbed, StillSaved
<1>2. QED
  BY <1>1 DEF SvOK

\* When everything is saved, what is saved is what the tables are.
LEMMA SavedNow ==
    ASSUME NEW o \in Objects, DbOK(o)', saved' = db', ~Pending(o)'
    PROVE  SvOK(o)'
BY DEF DbOK, SvOK

LEMMA SavedSame == ASSUME saved' = db' PROVE UncachedSame'
BY DEF UncachedSame

LEMMA NonePending == ASSUME reading.why # "rollback" PROVE \A o : ~Pending(o)
BY DEF Pending

LEMMA NonePendingNext == ASSUME reading'.why # "rollback" PROVE \A o : ~Pending(o)'
BY DEF Pending

LEMMA NothingBlank == ASSUME fills' = <<>> PROVE BlankOK'
BY NoItems DEF BlankOK, Apart

\* An id of a referenced instance that stays is the same after the step.
LEMMA SameRefId ==
    ASSUME NEW o \in Objects, obj'[o].ref = obj[o].ref,
           obj[o].ref = NoInstance \/ obj'[obj[o].ref].id = obj[obj[o].ref].id
    PROVE  RefId(o)' = RefId(o)
BY DEF RefId

\* The rows shrink, in the tables or in both, or are all saved.
LEMMA SeqKept ==
    ASSUME SeqOK, db.seq \in [Classes -> 0..MaxId], db'.seq = db.seq, saved' = db' \/ saved' = saved,
           \A k \in Keys : db'.rows[k] # NoRow => db.rows[k] # NoRow
    PROVE  SeqOK'
<1>1. \A k \in Keys : k[1] \in Classes
  BY DEF Keys
<1>2. CASE saved' = saved
  BY <1>2 DEF SeqOK
<1>3. CASE saved' = db'
  BY <1>1, <1>3 DEF SeqOK
<1>4. QED
  BY <1>2, <1>3

LEMMA DataStep ==
    ASSUME DInv, LinksOK', SeqOK', UncachedSame', BlankOK',
           \A o \in Objects : Undisturbed(o) /\ StillSaved(o)
    PROVE  DInv'
<1>1. ASSUME NEW o \in Objects PROVE ExistOK(o)' /\ DbOK(o)' /\ SvOK(o)'
  <2>1. ExistOK(o) /\ DbOK(o) /\ SvOK(o) /\ Undisturbed(o) /\ StillSaved(o)
    BY DEF DInv, KeptOK
  <2>2. QED
    BY <2>1, RowKept, SavedKept
<1>2. KeptOK'
  BY <1>1 DEF KeptOK
<1>3. QED
  BY <1>2 DEF DInv

LEMMA SavedStep ==
    ASSUME LinksOK', SeqOK', fills' = <<>>, reading'.why # "rollback", saved' = db',
           \A o \in Objects : ExistOK(o)' /\ DbOK(o)'
    PROVE  DInv'
<1>1. ASSUME NEW o \in Objects PROVE ExistOK(o)' /\ DbOK(o)' /\ SvOK(o)'
  BY SavedNow, NonePendingNext
<1>2. KeptOK'
  BY <1>1 DEF KeptOK
<1>3. QED
  BY <1>2, SavedSame, NothingBlank DEF DInv

-----------------------------------------------------------------------------
(* The client, between the calls.                                          *)

LEMMA ClientDInv ==
    ASSUME IInv, TInv, DInv, Idle, UNCHANGED sessionVars, LinksOK', cache'.byId = cache.byId,
           \A o \in Objects : Undisturbed(o)
    PROVE  DInv'
<1>1. fills' = <<>> /\ UNCHANGED <<db, saved, merging, tracked, undone>>
  BY BetweenCalls DEF sessionVars
<1>2. SeqOK' /\ UncachedSame'
  BY <1>1 DEF DInv, SeqOK, UncachedSame, Get
<1>3. \A o \in Objects : StillSaved(o)
  <2>1. ASSUME NEW o \in Objects PROVE StillSaved(o)
    <3>1. Known(o)' => KeyOf(o)' = KeyOf(o)
      BY DEF Undisturbed
    <3>2. QED
      BY <1>1 DEF StillSaved
  <2>2. QED
    BY <2>1
<1>4. QED
  BY <1>1, <1>2, <1>3, NothingBlank, DataStep

LEMMA NewDInv == ASSUME IInv, TInv, DInv, NEW o \in Objects, New(o) PROVE DInv'
<1>1. ~Alive(o) /\ ~Contains(cache, o) /\ o \notin cache.connected
  BY CachedFacts DEF New, DInv, LinksOK, ConnectedOK
<1>2. /\ obj'[o].ref = NoInstance /\ Alive(o)' /\ cache' = cache
      /\ \A p \in Objects : p # o => obj'[p] = obj[p]
  BY Facts DEF New, NoObject, Alive
<1>3. LinksOK'
  BY <1>1, <1>2 DEF DInv, LinksOK, ConnectedOK, RefTyped, RefCached, Alive, Contains
<1>4. ASSUME NEW p \in Objects PROVE Undisturbed(p)
  <2>1. SUFFICES ASSUME Known(p)' PROVE Undisturbed(p)
    BY DEF Undisturbed
  <2>2. p # o /\ Contains(cache, p)
    BY <1>1, <1>2, <2>1 DEF Known, Contains
  <2>3. obj[p].ref # NoInstance => obj[p].ref # o /\ obj[p].ref \in Objects
    BY <1>1, <2>2, CachedFacts
  <2>4. RefId(p)' = RefId(p)
    BY <1>2, <2>2, <2>3 DEF RefId
  <2>5. KeyOf(p)' = KeyOf(p) /\ UNCHANGED <<db, undone, reading, fills>>
    BY <1>2, <2>2 DEF KeyOf, New, sessionVars
  <2>6. Pending(p)' = Pending(p)
    BY <2>5 DEF Pending
  <2>7. QED
    BY <1>2, <2>1, <2>2, <2>4, <2>5, <2>6 DEF Undisturbed, Known, Contains
<1>5. QED
  BY <1>2, <1>3, <1>4, ClientDInv DEF New

LEMMA Notified ==
    ASSUME NEW c \in Caches, NEW o \in Objects
    PROVE  /\ SameMap(c, Notify(c, o)) /\ Notify(c, o).connected = c.connected
           /\ c.modified \subseteq Notify(c, o).modified
           /\ o \in c.connected => o \in Notify(c, o).modified
BY MarksOnly DEF Notify, Caches

LEMMA SetValDInv ==
    ASSUME IInv, TInv, DInv, NEW o \in Objects, NEW v \in Vals, SetVal(o, v) PROVE DInv'
<1>1. /\ cache' = Notify(cache, o) /\ UNCHANGED sessionVars /\ Idle
      /\ \A p \in Objects : /\ obj'[p].life = obj[p].life /\ obj'[p].id = obj[p].id
                            /\ obj'[p].ref = obj[p].ref /\ (p # o => obj'[p].val = obj[p].val)
  BY Facts DEF SetVal, Object
<1>2. SameMap(cache, cache') /\ cache'.connected = cache.connected
  BY <1>1, Facts, Notified
<1>3. cache.modified \subseteq cache'.modified /\ (o \in cache.connected => o \in cache'.modified)
  BY <1>1, Facts, Notified
<1>4. LinksOK'
  BY <1>1, <1>2 DEF DInv, LinksOK, ConnectedOK, RefTyped, RefCached, Alive, Contains, SameMap
<1>5. ASSUME NEW p \in Objects PROVE Undisturbed(p)
  <2>1. SUFFICES ASSUME Known(p)' PROVE Undisturbed(p)
    BY DEF Undisturbed
  <2>2. Contains(cache, p) /\ KeyOf(p)' = KeyOf(p) /\ UNCHANGED <<db, undone, reading, fills>>
    BY <1>1, <1>2, <2>1 DEF Known, Contains, KeyOf, sessionVars, SameMap
  <2>3. obj[p].ref # NoInstance => obj[p].ref \in Objects
    BY <2>2, CachedFacts
  <2>4. RefId(p)' = RefId(p)
    BY <1>1, <2>3 DEF RefId
  <2>5. Pending(p)' = Pending(p)
    BY <2>2 DEF Pending
  <2>6. QED
    BY <1>1, <1>2, <1>3, <2>1, <2>2, <2>4, <2>5 DEF Undisturbed, Known, SameMap, Get
<1>6. QED
  BY <1>1, <1>2, <1>4, <1>5, ClientDInv DEF SameMap

LEMMA SetRefDInv ==
    ASSUME IInv, TInv, DInv, "relink" \notin Api, NEW o \in Objects,
           NEW q \in Objects \cup {NoInstance}, SetRef(o, q)
    PROVE  DInv'
<1>1. /\ cache' = Notify(cache, o) /\ UNCHANGED sessionVars /\ Idle
      /\ \A p \in Objects : /\ obj'[p].life = obj[p].life /\ obj'[p].id = obj[p].id
                            /\ obj'[p].ref = IF p = o THEN q ELSE obj[p].ref
                            /\ obj'[p].val = obj[p].val
      /\ ~Contains(cache, o) /\ (q # NoInstance => ClassOf[q] = RefClass[ClassOf[o]])
  BY Facts DEF SetRef, Object
<1>2. SameMap(cache, cache') /\ cache'.connected = cache.connected
  BY <1>1, Facts, Notified
<1>3. cache.modified \subseteq cache'.modified
  BY <1>1, Facts, Notified
<1>4. LinksOK'
  BY <1>1, <1>2 DEF DInv, LinksOK, ConnectedOK, RefTyped, RefCached, Alive, Contains, SameMap
<1>5. ASSUME NEW p \in Objects PROVE Undisturbed(p)
  <2>1. SUFFICES ASSUME Known(p)' PROVE Undisturbed(p)
    BY DEF Undisturbed
  <2>2. /\ Contains(cache, p) /\ p # o /\ KeyOf(p)' = KeyOf(p)
        /\ UNCHANGED <<db, undone, reading, fills>>
    BY <1>1, <1>2, <2>1 DEF Known, Contains, KeyOf, sessionVars, SameMap
  <2>3. obj[p].ref # NoInstance => obj[p].ref \in Objects
    BY <2>2, CachedFacts
  <2>4. RefId(p)' = RefId(p)
    BY <1>1, <2>2, <2>3 DEF RefId
  <2>5. Pending(p)' = Pending(p)
    BY <2>2 DEF Pending
  <2>6. QED
    BY <1>1, <1>2, <1>3, <2>1, <2>2, <2>4, <2>5 DEF Undisturbed, Known, SameMap, Get
<1>6. QED
  BY <1>1, <1>2, <1>4, <1>5, ClientDInv DEF SameMap

LEMMA DeleteDInv == ASSUME IInv, TInv, DInv, NEW o \in Objects, Delete(o) PROVE DInv'
<1>1. /\ cache' = Forget(cache, o) /\ UNCHANGED sessionVars /\ Idle
      /\ obj'[o] = NoObject /\ \A p \in Objects : p # o => obj'[p] = obj[p]
      /\ ~Contains(cache, o) /\ ~Referenced(o)
  BY Facts DEF Delete, IInv, DataInv, CacheOK
<1>2. /\ SameMap(cache, cache') /\ cache'.modified = cache.modified
      /\ cache'.connected = cache.connected \ {o}
  BY <1>1, Facts, MarksOnly DEF Forget, Caches
<1>3. LinksOK'
  BY <1>1, <1>2 DEF DInv, LinksOK, ConnectedOK, RefTyped, RefCached, Alive, Contains, SameMap,
                    NoObject
<1>4. ASSUME NEW p \in Objects PROVE Undisturbed(p)
  <2>1. SUFFICES ASSUME Known(p)' PROVE Undisturbed(p)
    BY DEF Undisturbed
  <2>2. Contains(cache, p) /\ p # o
    BY <1>1, <1>2, <2>1 DEF Known, Contains, SameMap
  <2>3. KeyOf(p)' = KeyOf(p) /\ UNCHANGED <<db, undone, reading, fills>>
    BY <1>1, <2>2 DEF KeyOf, sessionVars
  <2>4. obj[p].ref # NoInstance => obj[p].ref \in Objects /\ obj[p].ref # o
    BY <1>1, <2>2, CachedFacts DEF Referenced
  <2>5. RefId(p)' = RefId(p)
    BY <1>1, <2>2, <2>4 DEF RefId
  <2>6. Pending(p)' = Pending(p)
    BY <2>3 DEF Pending
  <2>7. QED
    BY <1>1, <1>2, <2>1, <2>2, <2>3, <2>5, <2>6 DEF Undisturbed, Known, SameMap, Get
<1>5. QED
  BY <1>1, <1>2, <1>3, <1>4, ClientDInv DEF SameMap

\* Two cached instances whose insertions were not rolled back have different ids.
LEMMA KeyOfOne ==
    ASSUME DInv, NEW o \in Objects, NEW p \in Objects, Known(p), Contains(cache, o),
           KeyOf(o) = KeyOf(p)
    PROVE  o = p
BY DEF DInv, KeptOK, ExistOK, Known

LEMMA RemoveDInv == ASSUME IInv, TInv, DInv, NEW o \in Objects, Remove(o) PROVE DInv'
<1>0. PICK k : k = KeyOf(o)
  OBVIOUS
<1>1. /\ Idle /\ Contains(cache, o) /\ ~Referenced(o)
      /\ db' = [db EXCEPT !.rows[k] = NoRow] /\ saved' = IF depth = 0 THEN db' ELSE saved
      /\ cache' = Take(cache, o) /\ obj' = [obj EXCEPT ![o].life = "client"]
      /\ UNCHANGED <<merging, tracked, reading, fills, undone>>
  BY <1>0 DEF Remove
<1>2. reading.why # "rollback" /\ fills' = <<>> /\ (depth = 0 => db = saved)
  BY <1>1, BetweenCalls DEF NoReading
<1>3. /\ k \in Keys /\ cache.ids[o] = k
      /\ db'.seq = db.seq /\ \A l \in Keys : db'.rows[l] = IF l = k THEN NoRow ELSE db.rows[l]
  BY <1>0, <1>1, Facts, CachedFacts DEF Tables
<1>4. /\ \A p \in Objects : /\ obj'[p].id = obj[p].id /\ obj'[p].val = obj[p].val
                            /\ obj'[p].ref = obj[p].ref
                            /\ obj'[p].life = IF p = o THEN "client" ELSE obj[p].life
  BY <1>1, Facts DEF Object
<1>5. /\ cache'.ids = [cache.ids EXCEPT ![o] = NoKey]
      /\ cache'.byId = [l \in Keys |-> IF l = k THEN NoInstance ELSE cache.byId[l]]
      /\ cache'.connected = cache.connected /\ cache'.modified = cache.modified \ {o}
  <2>1. /\ Take(cache, o).ids = [cache.ids EXCEPT ![o] = NoKey]
        /\ Take(cache, o).byId = [l \in Keys |-> IF l = cache.ids[o] THEN NoInstance ELSE cache.byId[l]]
    BY Facts, TakeOne
  <2>2. /\ Take(cache, o).connected = cache.connected
        /\ Take(cache, o).modified = cache.modified \ {o}
    BY Facts DEF Take, Caches
  <2>3. QED
    BY <1>1, <1>3, <2>1, <2>2
<1>6. \A p \in Objects : Contains(cache', p) <=> Contains(cache, p) /\ p # o
  BY <1>5, Facts DEF Contains
<1>7. LinksOK'
  <2>1. ConnectedOK' /\ RefTyped'
    BY <1>4, <1>5 DEF DInv, LinksOK, ConnectedOK, RefTyped, Alive
  <2>2. ASSUME NEW p \in Objects, Contains(cache', p), obj'[p].ref # NoInstance
        PROVE  Contains(cache', obj'[p].ref)
    <3>1. Contains(cache, p) /\ obj'[p].ref = obj[p].ref
      BY <1>4, <1>6, <2>2
    <3>2. obj[p].ref \in Objects /\ Alive(p) /\ Contains(cache, obj[p].ref)
      BY <2>2, <3>1, CachedFacts DEF DInv, LinksOK, RefCached
    <3>3. obj[p].ref # o
      BY <1>1, <3>2 DEF Referenced
    <3>4. QED
      BY <1>6, <3>1, <3>2, <3>3
  <2>3. QED
    BY <2>1, <2>2 DEF LinksOK, RefCached
<1>8. saved' = db' \/ saved' = saved
  BY <1>1
<1>9. SeqOK'
  BY <1>3, <1>8, Facts, SeqKept DEF DInv
<1>10. ASSUME NEW p \in Objects PROVE Undisturbed(p)
  <2>1. SUFFICES ASSUME Known(p)' PROVE Undisturbed(p)
    BY DEF Undisturbed
  <2>2. KeyOf(p)' = KeyOf(p) /\ Known(p) /\ p # o
    BY <1>1, <1>4, <1>6, <2>1 DEF Known, KeyOf
  <2>3. KeyOf(p) # k /\ KeyOf(p) \in Keys
    BY <1>0, <1>1, <2>2, KeyOfOne, CachedFacts DEF Known
  <2>4. obj[p].ref # NoInstance => obj[p].ref \in Objects
    BY <2>2, CachedFacts DEF Known
  <2>5. RefId(p)' = RefId(p)
    BY <1>4, <2>4 DEF RefId
  <2>6. ~Pending(p)
    BY <1>2, NonePending
  <2>7. QED
    BY <1>3, <1>4, <1>5, <2>2, <2>3, <2>5, <2>6 DEF Undisturbed, Get
<1>11. CASE depth = 0
  <2>1. \A p \in Objects : ExistOK(p)' /\ DbOK(p)'
    BY <1>10, RowKept DEF DInv, KeptOK
  <2>2. reading'.why # "rollback" /\ saved' = db'
    BY <1>1, <1>2, <1>11
  <2>3. QED
    BY <1>2, <1>7, <1>9, <2>1, <2>2, SavedStep
<1>12. CASE depth # 0
  <2>1. saved' = saved
    BY <1>1, <1>12
  <2>2. ASSUME NEW p \in Objects PROVE StillSaved(p)
    BY <1>1, <2>1 DEF StillSaved
  <2>3. ASSUME NEW l \in Keys \ undone', Get(cache', l) = NoInstance
        PROVE  db'.rows[l] \in {NoRow, saved'.rows[l]}
    BY <1>1, <1>3, <1>5, <2>1, <2>3 DEF DInv, UncachedSame, Get
  <2>4. UncachedSame'
    BY <2>3 DEF UncachedSame
  <2>5. QED
    BY <1>2, <1>7, <1>9, <1>10, <2>2, <2>4, NothingBlank, DataStep
<1>13. QED
  BY <1>11, <1>12

LEMMA RemoveWhereDInv ==
    ASSUME IInv, TInv, DInv, NEW c \in Classes, NEW v \in Vals, RemoveWhere(c, v) PROVE DInv'
<1>0. PICK gone : gone = RowsWith(c, v)
  OBVIOUS
<1>00. PICK given : given = Returned(gone)
  OBVIOUS
<1>1. /\ Idle
      /\ \A k \in gone : Get(cache, k) # NoInstance => ~Referenced(Get(cache, k))
      /\ db' = [db EXCEPT !.rows = [k \in Keys |-> IF k \in gone THEN NoRow ELSE @[k]]]
      /\ saved' = IF depth = 0 THEN db' ELSE saved
      /\ cache' = TakeAll(cache, given)
      /\ obj' = [o \in Objects |-> IF o \in given THEN [obj[o] EXCEPT !.life = "client"]
                                                 ELSE obj[o]]
      /\ UNCHANGED <<merging, tracked, reading, fills, undone>>
  BY <1>0, <1>00 DEF RemoveWhere
<1>2. reading.why # "rollback" /\ fills' = <<>> /\ (depth = 0 => db = saved)
  BY <1>1, BetweenCalls DEF NoReading
<1>3. /\ gone \subseteq Keys /\ db'.seq = db.seq
      /\ \A l \in Keys : db'.rows[l] = IF l \in gone THEN NoRow ELSE db.rows[l]
  BY <1>0, <1>1, Facts DEF Tables, RowsWith
<1>4. /\ given \in SUBSET Objects
      /\ \A o \in given : /\ Contains(cache, o) /\ cache.ids[o] \in gone /\ KeyOf(o) \in gone
                          /\ ~Referenced(o)
      /\ \A k \in gone : Get(cache, k) # NoInstance => Get(cache, k) \in given
  <2>1. given = {Get(cache, k) : k \in gone} \ {NoInstance}
    BY <1>00 DEF Returned
  <2>2. ASSUME NEW o \in given
        PROVE  /\ o \in Objects /\ Contains(cache, o) /\ cache.ids[o] \in gone /\ KeyOf(o) \in gone
               /\ ~Referenced(o)
    <3>1. PICK k \in gone : o = Get(cache, k) /\ o # NoInstance
      BY <2>1
    <3>2. o \in Objects /\ Contains(cache, o) /\ KeyOf(o) = k
      BY <1>3, <3>1, CachedFacts
    <3>3. cache.ids[o] = k
      BY <3>2, CachedFacts
    <3>4. QED
      BY <1>1, <3>1, <3>2, <3>3
  <2>3. QED
    BY <2>1, <2>2
<1>5. /\ \A p \in Objects : /\ obj'[p].id = obj[p].id /\ obj'[p].val = obj[p].val
                            /\ obj'[p].ref = obj[p].ref
                            /\ obj'[p].life = IF p \in given THEN "client" ELSE obj[p].life
  BY <1>1, Facts DEF Object
<1>6. /\ cache'.ids = [o \in Objects |-> IF o \in given THEN NoKey ELSE cache.ids[o]]
      /\ cache'.byId = [k \in Keys |-> IF \E o \in given : cache.ids[o] = k THEN NoInstance
                                                                         ELSE cache.byId[k]]
      /\ cache'.connected = cache.connected /\ cache'.modified = cache.modified \ given
  <2>1. /\ TakeAll(cache, given).ids = [o \in Objects |-> IF o \in given THEN NoKey ELSE cache.ids[o]]
        /\ TakeAll(cache, given).byId
             = [k \in Keys |-> IF \E o \in given : cache.ids[o] = k THEN NoInstance
                                                                  ELSE cache.byId[k]]
    BY <1>4, Facts, TakeSome
  <2>2. /\ TakeAll(cache, given).connected = cache.connected
        /\ TakeAll(cache, given).modified = cache.modified \ given
    BY Facts DEF TakeAll, Caches
  <2>3. QED
    BY <1>1, <2>1, <2>2
<1>7. \A p \in Objects : Contains(cache', p) <=> Contains(cache, p) /\ p \notin given
  BY <1>6 DEF Contains
<1>8. LinksOK'
  <2>1. ConnectedOK' /\ RefTyped'
    BY <1>5, <1>6 DEF DInv, LinksOK, ConnectedOK, RefTyped, Alive
  <2>2. ASSUME NEW p \in Objects, Contains(cache', p), obj'[p].ref # NoInstance
        PROVE  Contains(cache', obj'[p].ref)
    <3>1. Contains(cache, p) /\ obj'[p].ref = obj[p].ref
      BY <1>5, <1>7, <2>2
    <3>2. obj[p].ref \in Objects /\ Alive(p) /\ Contains(cache, obj[p].ref)
      BY <2>2, <3>1, CachedFacts DEF DInv, LinksOK, RefCached
    <3>3. obj[p].ref \notin given
      BY <1>4, <3>2 DEF Referenced
    <3>4. QED
      BY <1>7, <3>1, <3>2, <3>3
  <2>3. QED
    BY <2>1, <2>2 DEF LinksOK, RefCached
<1>9. SeqOK'
  BY <1>1, <1>3, Facts, SeqKept DEF DInv
<1>10. ASSUME NEW p \in Objects PROVE Undisturbed(p)
  <2>1. SUFFICES ASSUME Known(p)' PROVE Undisturbed(p)
    BY DEF Undisturbed
  <2>2. KeyOf(p)' = KeyOf(p) /\ Known(p) /\ p \notin given
    BY <1>1, <1>5, <1>7, <2>1 DEF Known, KeyOf
  <2>3. Get(cache, KeyOf(p)) = p /\ KeyOf(p) \in Keys
    BY <2>2, CachedFacts DEF DInv, KeptOK, ExistOK, Known
  <2>4. KeyOf(p) \notin gone /\ p # NoInstance
    BY <1>4, <2>2, <2>3, SentinelAssumption
  <2>5. Get(cache', KeyOf(p)) = Get(cache, KeyOf(p))
    BY <1>4, <1>6, <2>3, <2>4 DEF Get
  <2>6. obj[p].ref # NoInstance => obj[p].ref \in Objects
    BY <2>2, CachedFacts DEF Known
  <2>7. RefId(p)' = RefId(p)
    BY <1>5, <2>6 DEF RefId
  <2>8. ~Pending(p)
    BY <1>2, NonePending
  <2>9. QED
    BY <1>3, <1>5, <1>6, <2>2, <2>3, <2>4, <2>5, <2>7, <2>8 DEF Undisturbed
<1>11. CASE depth = 0
  <2>1. \A p \in Objects : ExistOK(p)' /\ DbOK(p)'
    BY <1>10, RowKept DEF DInv, KeptOK
  <2>2. reading'.why # "rollback" /\ saved' = db'
    BY <1>1, <1>2, <1>11
  <2>3. QED
    BY <1>2, <1>8, <1>9, <2>1, <2>2, SavedStep
<1>12. CASE depth # 0
  <2>1. saved' = saved
    BY <1>1, <1>12
  <2>2. ASSUME NEW p \in Objects PROVE StillSaved(p)
    BY <1>1, <2>1 DEF StillSaved
  <2>3. ASSUME NEW l \in Keys \ undone', Get(cache', l) = NoInstance
        PROVE  db'.rows[l] \in {NoRow, saved'.rows[l]}
    <3>1. l \in Keys \ undone
      BY <1>1
    <3>2. CASE l \in gone
      BY <1>3, <3>1, <3>2
    <3>3. CASE l \notin gone
      <4>1. Get(cache, l) = NoInstance
        BY <1>4, <1>6, <2>3, <3>1, <3>3 DEF Get
      <4>2. QED
        BY <1>3, <2>1, <3>1, <3>3, <4>1 DEF DInv, UncachedSame
    <3>4. QED
      BY <3>2, <3>3
  <2>4. UncachedSame'
    BY <2>3 DEF UncachedSame
  <2>5. QED
    BY <1>2, <1>8, <1>9, <1>10, <2>2, <2>4, NothingBlank, DataStep
<1>13. QED
  BY <1>11, <1>12

LEMMA ReopenDInv == ASSUME IInv, TInv, DInv, Reopen PROVE DInv'
<1>1. /\ Idle /\ manual = 0 /\ cache' = EmptyCache /\ UNCHANGED <<db, saved, reading, fills>>
      /\ obj' = [o \in Objects |-> IF Contains(cache, o) THEN NoObject ELSE obj[o]]
  BY DEF Reopen
<1>2. reading'.why # "rollback" /\ fills' = <<>> /\ db = saved
  BY <1>1, BetweenCalls DEF NoReading
<1>3. \A p \in Objects : ~Contains(cache', p) /\ p \notin cache'.connected
  BY <1>1, EmptyTyped DEF Contains, EmptyCache
<1>4. \A p \in Objects : obj'[p].ref = IF Contains(cache, p) THEN NoInstance ELSE obj[p].ref
  BY <1>1 DEF NoObject
<1>5. LinksOK'
  BY <1>3, <1>4 DEF DInv, LinksOK, ConnectedOK, RefTyped, RefCached
<1>6. SeqOK'
  BY <1>1 DEF DInv, SeqOK
<1>7. \A p \in Objects : ExistOK(p)' /\ DbOK(p)'
  BY <1>3 DEF ExistOK, DbOK, Kept, Known
<1>8. saved' = db'
  BY <1>1, <1>2
<1>9. QED
  BY <1>2, <1>5, <1>6, <1>7, <1>8, SavedStep

-----------------------------------------------------------------------------
(* Steps that touch neither instances nor tables, and transactions.        *)

\* Steps that touch neither instances nor tables.
LEMMA SameData ==
    ASSUME TInv, IInv, DInv, UNCHANGED <<obj, cache, db, undone>>
    PROVE  /\ LinksOK'
           /\ \A o \in Objects : (Kept(o) /\ Pending(o) => Pending(o)') => Undisturbed(o)
<1>1. LinksOK'
  BY DEF DInv, LinksOK, ConnectedOK, RefTyped, RefCached, Alive
<1>2. ASSUME NEW o \in Objects, Kept(o) /\ Pending(o) => Pending(o)' PROVE Undisturbed(o)
  <2>1. KeyOf(o)' = KeyOf(o) /\ RefId(o)' = RefId(o) /\ (Known(o)' <=> Known(o))
    BY DEF KeyOf, RefId, Known
  <2>2. QED
    BY <1>2, <2>1 DEF Undisturbed, Kept
<1>3. QED
  BY <1>1, <1>2

LEMMA QuietDInv ==
    ASSUME IInv, TInv, DInv, UNCHANGED <<obj, cache, db, saved, undone>>, BlankOK',
           reading.why # "rollback",
           merging \cup Items(tracked) \subseteq merging' \cup Items(tracked')
    PROVE  DInv'
<1>1. LinksOK' /\ \A o \in Objects : Undisturbed(o)
  BY SameData, NonePending
<1>2. SeqOK' /\ UncachedSame'
  BY DEF DInv, SeqOK, UncachedSame
<1>3. \A o \in Objects : StillSaved(o)
  BY DEF StillSaved
<1>4. QED
  BY <1>1, <1>2, <1>3, DataStep

\* The outermost level commits.
LEMMA CommitDInv ==
    ASSUME IInv, TInv, DInv, UNCHANGED <<obj, cache, db, undone>>, saved' = db, fills' = <<>>,
           reading.why # "rollback", reading'.why # "rollback"
    PROVE  DInv'
<1>1. LinksOK' /\ \A o \in Objects : Undisturbed(o)
  BY SameData, NonePending
<1>2. SeqOK'
  BY Facts, SeqKept DEF DInv
<1>3. \A o \in Objects : ExistOK(o)' /\ DbOK(o)'
  BY <1>1, RowKept DEF DInv, KeptOK
<1>4. QED
  BY <1>1, <1>2, <1>3, SavedStep

\* The outermost level rolls back: what it may have written is read again.
LEMMA RollsBackDInv ==
    ASSUME IInv, TInv, DInv, UNCHANGED <<obj, cache, saved>>, fills' = <<>>,
           db' = saved, undone' = undone \cup {k \in Keys : db.rows[k] # NoRow /\ saved.rows[k] = NoRow},
           reading.why # "rollback", reading' = [why |-> "rollback", queue |-> tracked'],
           merging \subseteq Items(tracked'), Items(tracked) \subseteq Items(tracked')
    PROVE  DInv'
<1>1. LinksOK'
  BY DEF DInv, LinksOK, ConnectedOK, RefTyped, RefCached, Alive
<1>2. SeqOK'
  <2>1. \A k \in Keys : saved.seq[k[1]] \in Int
    BY Facts DEF Keys
  <2>2. QED
    BY <2>1 DEF DInv, SeqOK
<1>3. ASSUME NEW o \in Objects PROVE ExistOK(o)' /\ DbOK(o)' /\ SvOK(o)'
  <2>1. KeyOf(o)' = KeyOf(o) /\ RefId(o)' = RefId(o)
    BY DEF KeyOf, RefId
  <2>2. Known(o)' => Known(o)
    BY <2>1 DEF Known
  <2>3. Kept(o)' => Kept(o)
    BY <2>2 DEF Kept
  <2>4. ExistOK(o) /\ SvOK(o)
    BY DEF DInv, KeptOK
  <2>5. Known(o)' => saved.rows[KeyOf(o)] # NoRow
    BY <2>1, <2>2, <2>4, CachedFacts DEF Known, ExistOK
  <2>6. o \notin Items(tracked') => o \notin merging \cup Items(tracked)
    OBVIOUS
  <2>7. SvOK(o)'
    BY <2>1, <2>3, <2>4, <2>6 DEF SvOK
  <2>8. ExistOK(o)'
    BY <2>1, <2>2, <2>4, <2>5 DEF ExistOK
  <2>9. ~Pending(o)' => o \notin Items(tracked')
    BY DEF Pending
  <2>10. Kept(o)' => Known(o)'
    BY DEF Kept
  <2>11. DbOK(o)'
    BY <2>1, <2>3, <2>4, <2>5, <2>6, <2>9, <2>10 DEF DbOK, SvOK
  <2>12. QED
    BY <2>7, <2>8, <2>11
<1>4. KeptOK'
  BY <1>3 DEF KeptOK
<1>5. QED
  BY <1>1, <1>2, <1>4, SavedSame, NothingBlank DEF DInv

LEMMA RollbackEndsDInv == ASSUME IInv, TInv, DInv, RollbackEnds PROVE DInv'
<1>1. /\ reading.why = "rollback" /\ reading.queue = <<>> /\ fills = <<>> /\ reading' = NoReading
      /\ UNCHANGED <<obj, cache, db, saved, undone, fills>>
  BY DEF RollbackEnds, Reading
<1>2. db = saved
  BY <1>1 DEF IInv, CallInv, ReadingOK
<1>3. \A o \in Objects : ~Pending(o)
  BY <1>1, NoItems DEF Pending
<1>4. LinksOK' /\ \A o \in Objects : Undisturbed(o)
  BY <1>1, <1>3, SameData
<1>5. SeqOK'
  BY <1>1 DEF DInv, SeqOK
<1>6. \A o \in Objects : ExistOK(o)' /\ DbOK(o)'
  BY <1>4, RowKept DEF DInv, KeptOK
<1>7. fills' = <<>> /\ reading'.why # "rollback" /\ saved' = db'
  BY <1>1, <1>2 DEF NoReading
<1>8. QED
  BY <1>4, <1>5, <1>6, <1>7, SavedStep

-----------------------------------------------------------------------------
(* The statements of a merge.                                              *)

\* What a merge leaves of the instance it has written.
Written(o) ==
    /\ stack' = <<[Top EXCEPT !.pc = "return", !.engaged = FALSE]>> \o Tail(stack)
    /\ Top.inst = o /\ Contains(cache', o)
    /\ \A p \in Objects : /\ Contains(cache, p) => Contains(cache', p)
                          /\ obj'[p].ref = obj[p].ref
    /\ RowExists(KeyOf(o))' /\ db'.rows[KeyOf(o)'] = RowOf(o)'

LEMMA InsertionDInv ==
    ASSUME IInv, TInv, DInv, NEW rank, Acyclic(rank), CInv(rank), Insertion, IInv'
    PROVE  DInv' /\ \E o \in Objects : Written(o)
<1>1. PICK o : o = Top.inst
  OBVIOUS
<1>2. PICK c : c = ClassOf[o]
  OBVIOUS
<1>3. PICK id : id = db.seq[c] + 1
  OBVIOUS
<1>4. PICK k : k = <<c, id>>
  OBVIOUS
<1>5. PICK notified : notified = IF obj[o].id # id THEN Notify(cache, o) ELSE cache
  OBVIOUS
<1>6. PICK row : row = RowOf(o)
  OBVIOUS
<1>7. /\ StepsOf /\ Top.kind = "merge" /\ Top.pc = "execute" /\ Top.op = "Create"
      /\ db' = [rows |-> [db.rows EXCEPT ![k] = row], seq |-> [db.seq EXCEPT ![c] = id]]
      /\ IF depth = 1 THEN saved' = db' /\ tracked' = <<>> ELSE UNCHANGED <<saved, tracked>>
      /\ obj' = [obj EXCEPT ![o].id = id, ![o].life = "session"]
      /\ cache' = Finalize(Insert(notified, o, k), o)
      /\ stack' = <<[Top EXCEPT !.pc = "return", !.engaged = FALSE]>> \o Tail(stack)
      /\ UNCHANGED <<merging, reading, fills, undone>>
  BY <1>1, <1>2, <1>3, <1>4, <1>5, <1>6 DEF Insertion, Succeeds, Commits
<1>8. o \in Objects /\ Alive(o) /\ ~Contains(cache, o) /\ c \in Classes
  BY <1>1, <1>2, <1>7, InCall, ClassAssumption DEF Frame, FrameFits, Living, Cached
<1>9. reading = NoReading /\ reading.why # "rollback" /\ fills' = <<>>
  BY <1>7 DEF StepsOf, NoReading
<1>10. \A p \in Objects : /\ obj'[p].id = IF p = o THEN id ELSE obj[p].id
                          /\ obj'[p].life = IF p = o THEN "session" ELSE obj[p].life
                          /\ obj'[p].val = obj[p].val /\ obj'[p].ref = obj[p].ref
  BY <1>7, <1>8, Facts DEF Object
<1>11. id \in 1..MaxId /\ k \in Keys
  <2>1. obj'[o] \in Object
    BY <1>8 DEF IInv, TypeOK
  <2>2. obj'[o].id \in 0..MaxId /\ obj'[o].id = id /\ db.seq[c] \in 0..MaxId
    BY <1>8, <1>10, <2>1, Facts DEF Object
  <2>3. id \in 1..MaxId
    BY <1>3, <2>2, BoundAssumption
  <2>4. QED
    BY <1>4, <1>8, <2>3 DEF Keys
<1>12. /\ db'.rows = [db.rows EXCEPT ![k] = row] /\ db'.seq = [db.seq EXCEPT ![c] = id]
       /\ db'.rows[k] = row /\ row # NoRow /\ row.val = obj[o].val /\ row.ref = RefId(o)
  <2>1. row \in Rows /\ row.val = obj[o].val /\ row.ref = RefId(o)
    BY <1>6, <1>8, Facts, RowsTyped DEF RowOf
  <2>2. QED
    BY <1>7, <1>11, <2>1, Facts, NoRowAssumption
<1>13. \A l \in Keys : db'.rows[l] = IF l = k THEN row ELSE db.rows[l]
  BY <1>12, Facts
<1>14. db.rows[k] = NoRow /\ saved.rows[k] = NoRow
  <2>1. k[1] = c /\ k[2] = id
    BY <1>4
  <2>2. db.seq[c] \in 0..MaxId /\ saved.seq[c] \in 0..MaxId
    BY <1>8, Facts
  <2>3. /\ db.rows[k] # NoRow => id <= db.seq[c]
        /\ saved.rows[k] # NoRow => id <= saved.seq[c]
        /\ saved.seq[c] <= db.seq[c]
    BY <1>11, <2>1 DEF DInv, SeqOK
  <2>4. QED
    BY <1>3, <2>2, <2>3
<1>15. /\ SameMap(cache, notified) /\ notified.connected = cache.connected
       /\ cache.modified \subseteq notified.modified
  BY <1>5, <1>8, Facts, Notified DEF SameMap
<1>16. /\ cache'.ids = [cache.ids EXCEPT ![o] = k] /\ cache'.byId = [cache.byId EXCEPT ![k] = o]
       /\ cache'.connected = cache.connected \cup {o} /\ cache.modified \subseteq cache'.modified
  <2>1. ~Contains(notified, o) /\ notified \in Caches
    BY <1>8, <1>15 DEF SameMap, Contains
  <2>2. /\ Insert(notified, o, k).ids = [notified.ids EXCEPT ![o] = k]
        /\ Insert(notified, o, k).byId = [notified.byId EXCEPT ![k] = o]
        /\ Insert(notified, o, k).connected = notified.connected
        /\ Insert(notified, o, k).modified = notified.modified
        /\ Insert(notified, o, k) \in Caches
    BY <1>8, <1>11, <2>1, InsertNew DEF Insert, Caches
  <2>3. /\ cache'.connected = Insert(notified, o, k).connected \cup {o}
        /\ cache'.modified = Insert(notified, o, k).modified
        /\ SameMap(Insert(notified, o, k), cache')
    BY <1>7, <1>8, <2>2, MarksOnly DEF Finalize, Caches
  <2>4. QED
    BY <1>15, <2>2, <2>3 DEF SameMap
<1>17. \A p \in Objects : Contains(cache', p) <=> Contains(cache, p) \/ p = o
  BY <1>4, <1>8, <1>11, <1>16, Facts, SentinelAssumption DEF Contains, Keys
<1>18. obj[o].ref # NoInstance => obj[o].ref \in Objects /\ obj[o].ref # o /\ Contains(cache, obj[o].ref)
  <2>1. SUFFICES ASSUME obj[o].ref # NoInstance
                 PROVE  obj[o].ref \in Objects /\ obj[o].ref # o /\ Contains(cache, obj[o].ref)
    OBVIOUS
  <2>2. obj[o].ref \in Objects
    BY <1>8, <2>1, CachedFacts
  <2>3. Contains(cache, obj[o].ref)
    BY <1>1, <1>7, <1>9, <2>1 DEF CInv, StepsOf
  <2>4. QED
    BY <1>8, <2>2, <2>3
<1>19. LinksOK'
  <2>1. ConnectedOK' /\ RefTyped'
    BY <1>10, <1>16 DEF DInv, LinksOK, ConnectedOK, RefTyped, Alive
  <2>2. ASSUME NEW p \in Objects, Contains(cache', p), obj'[p].ref # NoInstance
        PROVE  Contains(cache', obj'[p].ref)
    <3>1. CASE p = o
      BY <1>10, <1>17, <1>18, <2>2, <3>1
    <3>2. CASE p # o
      <4>1. Contains(cache, p) /\ obj'[p].ref = obj[p].ref
        BY <1>10, <1>17, <2>2, <3>2
      <4>2. obj[p].ref \in Objects /\ Contains(cache, obj[p].ref)
        BY <2>2, <4>1, CachedFacts DEF DInv, LinksOK, RefCached
      <4>3. QED
        BY <1>17, <4>1, <4>2
    <3>3. QED
      BY <3>1, <3>2
  <2>3. QED
    BY <2>1, <2>2 DEF LinksOK, RefCached
<1>20. SeqOK'
  <2>1. ASSUME NEW l \in Keys
        PROVE  /\ db'.rows[l] # NoRow => l[2] <= db'.seq[l[1]]
               /\ db.seq[l[1]] <= db'.seq[l[1]] /\ db'.seq[l[1]] \in Int
    <3>1. l[1] \in Classes /\ l[2] \in 1..MaxId
      BY DEF Keys
    <3>2. db.seq[l[1]] \in 0..MaxId /\ db'.seq[l[1]] = IF l[1] = c THEN id ELSE db.seq[l[1]]
      BY <1>12, <3>1, Facts
    <3>3. db.rows[l] # NoRow => l[2] <= db.seq[l[1]]
      BY DEF DInv, SeqOK
    <3>4. k[1] = c /\ k[2] = id /\ id = db.seq[c] + 1 /\ id \in 1..MaxId
      BY <1>3, <1>4, <1>11
    <3>5. CASE l = k
      BY <3>2, <3>4, <3>5
    <3>6. CASE l # k
      BY <1>13, <3>1, <3>2, <3>3, <3>4, <3>6
    <3>7. QED
      BY <3>5, <3>6
  <2>2. ASSUME NEW l \in Keys
        PROVE  /\ saved'.rows[l] # NoRow => l[2] <= saved'.seq[l[1]]
               /\ saved'.seq[l[1]] <= db'.seq[l[1]]
    <3>1. CASE depth = 1
      <4>1. saved'.rows = db'.rows /\ saved'.seq = db'.seq
        BY <1>7, <3>1
      <4>2. db'.seq[l[1]] <= db'.seq[l[1]]
        BY <2>1
      <4>3. QED
        BY <2>1, <4>1, <4>2
    <3>2. CASE depth # 1
      <4>1. saved.seq[l[1]] \in Int /\ db.seq[l[1]] \in Int
        BY Facts DEF Keys
      <4>2. QED
        BY <1>7, <2>1, <3>2, <4>1 DEF DInv, SeqOK
    <3>3. QED
      BY <3>1, <3>2
  <2>3. QED
    BY <2>1, <2>2 DEF SeqOK
<1>21. ASSUME NEW p \in Objects, p # o PROVE Undisturbed(p)
  <2>1. SUFFICES ASSUME Known(p)' PROVE Undisturbed(p)
    BY DEF Undisturbed
  <2>2. Contains(cache, p) /\ KeyOf(p)' = KeyOf(p)
    BY <1>10, <1>17, <1>21, <2>1 DEF Known, KeyOf
  <2>3. Known(p)
    BY <1>7, <2>1, <2>2 DEF Known
  <2>4. KeyOf(p) # k /\ KeyOf(p) \in Keys
    BY <1>14, <2>2, <2>3, CachedFacts DEF DInv, KeptOK, ExistOK
  <2>5. obj[p].ref # NoInstance => obj[p].ref \in Objects /\ obj[p].ref # o
    BY <1>8, <2>2, CachedFacts DEF DInv, LinksOK, RefCached
  <2>6. RefId(p)' = RefId(p)
    BY <1>10, <2>5 DEF RefId
  <2>7. ~Pending(p)
    BY <1>9, NonePending
  <2>8. Get(cache', KeyOf(p)) = Get(cache, KeyOf(p)) /\ db'.rows[KeyOf(p)] = db.rows[KeyOf(p)]
    BY <1>13, <1>16, <2>4, Facts DEF Get
  <2>9. p \in cache'.connected => p \in cache.connected
    BY <1>16, <1>21
  <2>10. p \notin cache'.modified => p \notin cache.modified
    BY <1>16
  <2>11. QED
    BY <1>10, <2>2, <2>3, <2>6, <2>7, <2>8, <2>9, <2>10 DEF Undisturbed
<1>22. KeyOf(o)' = k /\ RefId(o)' = RefId(o)
  <2>1. KeyOf(o)' = k
    BY <1>2, <1>4, <1>8, <1>10 DEF KeyOf
  <2>2. QED
    BY <1>8, <1>10, <1>18, <2>1 DEF RefId
<1>23. ExistOK(o)' /\ DbOK(o)'
  <2>1. Get(cache', k) = o
    BY <1>11, <1>16, Facts DEF Get
  <2>2. QED
    BY <1>8, <1>10, <1>12, <1>22, <2>1 DEF ExistOK, DbOK
<1>24. \A p \in Objects : ExistOK(p)' /\ DbOK(p)'
  <2>1. ASSUME NEW p \in Objects, p # o PROVE ExistOK(p)' /\ DbOK(p)'
    BY <1>21, <2>1, RowKept DEF DInv, KeptOK
  <2>2. QED
    BY <1>23, <2>1
<1>25. DInv'
  <2>1. CASE depth = 1
    BY <1>7, <1>9, <1>19, <1>20, <1>24, <2>1, SavedStep
  <2>2. CASE depth # 1
    <3>1. saved' = saved /\ tracked' = tracked /\ merging' = merging
      BY <1>7, <2>2
    <3>2. SvOK(o)'
      BY <1>14, <1>22, <3>1 DEF SvOK
    <3>3. ASSUME NEW p \in Objects, p # o PROVE SvOK(p)'
      <4>1. StillSaved(p)
        BY <3>1 DEF StillSaved
      <4>2. QED
        BY <1>21, <3>3, <4>1, SavedKept DEF DInv, KeptOK
    <3>4. KeptOK'
      BY <1>24, <3>2, <3>3 DEF KeptOK
    <3>5. ASSUME NEW l \in Keys \ undone', Get(cache', l) = NoInstance
          PROVE  db'.rows[l] \in {NoRow, saved'.rows[l]}
      <4>1. l # k
        BY <1>8, <1>11, <1>16, <3>5, Facts, SentinelAssumption DEF Get
      <4>2. Get(cache, l) = NoInstance /\ l \in Keys \ undone
        BY <1>7, <1>16, <3>5, <4>1, Facts DEF Get
      <4>3. QED
        BY <1>13, <3>1, <4>1, <4>2 DEF DInv, UncachedSame
    <3>6. UncachedSame'
      BY <3>5 DEF UncachedSame
    <3>7. QED
      BY <1>9, <1>19, <1>20, <3>4, <3>6, NothingBlank DEF DInv
  <2>3. QED
    BY <2>1, <2>2
<1>26. Written(o)
  <2>1. RowOf(o)' = [val |-> obj'[o].val, ref |-> RefId(o)']
    BY DEF RowOf
  <2>2. RowOf(o)' = row
    BY <1>6, <1>8, <1>10, <1>22, <2>1 DEF RowOf
  <2>3. RowExists(KeyOf(o))'
    BY <1>11, <1>12, <1>22 DEF RowExists
  <2>4. /\ Contains(cache', o)
        /\ \A p \in Objects : /\ Contains(cache, p) => Contains(cache', p)
                              /\ obj'[p].ref = obj[p].ref
    BY <1>8, <1>10, <1>17
  <2>5. QED
    BY <1>1, <1>7, <1>12, <1>22, <2>2, <2>3, <2>4 DEF Written
<1>27. QED
  BY <1>8, <1>25, <1>26

LEMMA UpdateDInv ==
    ASSUME IInv, TInv, DInv, NEW rank, CInv(rank), Update
    PROVE  DInv' /\ \E o \in Objects : Written(o)
<1>1. PICK o : o = Top.inst
  OBVIOUS
<1>2. PICK k : k = KeyOf(o)
  OBVIOUS
<1>3. PICK row : row = RowOf(o)
  OBVIOUS
<1>4. /\ StepsOf /\ Top.kind = "merge" /\ Top.pc = "execute" /\ Top.op = "Update"
      /\ db' = [db EXCEPT !.rows[k] = row]
      /\ IF depth = 1 THEN saved' = db' /\ tracked' = <<>> ELSE UNCHANGED <<saved, tracked>>
      /\ cache' = MarkUnmodified(cache, o)
      /\ stack' = <<[Top EXCEPT !.pc = "return", !.engaged = FALSE]>> \o Tail(stack)
      /\ UNCHANGED <<obj, merging, reading, fills, undone>>
  BY <1>1, <1>2, <1>3 DEF Update, Succeeds, Commits
<1>5. reading = NoReading /\ reading.why # "rollback" /\ fills' = <<>> /\ stack # <<>>
      /\ stack \in Seq(Frame)
  BY <1>4 DEF StepsOf, NoReading, IInv, TypeOK
<1>6. Items(stack) = {Top} \cup Items(Tail(stack)) /\ Top \in Frame
  BY <1>5, Split, ItemsSplit DEF Top
<1>7. o \in Objects /\ Contains(cache, o) /\ k \in Keys
  <2>1. o \in Objects
    BY <1>1, <1>6 DEF Frame
  <2>2. FrameKnows(Top)
    BY <1>5, <1>6 DEF CInv
  <2>3. QED
    BY <1>1, <1>2, <1>4, <2>1, <2>2, CachedFacts DEF FrameKnows
<1>8. row # NoRow /\ row.val = obj[o].val /\ row.ref = RefId(o)
  <2>1. row \in Rows /\ row.val = obj[o].val /\ row.ref = RefId(o)
    BY <1>3, <1>7, Facts, RowsTyped DEF RowOf
  <2>2. QED
    BY <2>1, NoRowAssumption
<1>9. db'.seq = db.seq /\ \A l \in Keys : db'.rows[l] = IF l = k THEN row ELSE db.rows[l]
  BY <1>4, <1>7, Facts DEF Tables
<1>10. SameMap(cache, cache') /\ cache'.modified = cache.modified \ {o}
       /\ cache'.connected = cache.connected
  BY <1>4, <1>7, Facts, MarksOnly DEF MarkUnmodified, Caches
<1>11. \A p \in Objects : /\ KeyOf(p)' = KeyOf(p) /\ RefId(p)' = RefId(p)
                          /\ Known(p)' <=> Known(p)
  BY <1>4, <1>10 DEF KeyOf, RefId, Known, Contains, SameMap
<1>12. LinksOK'
  BY <1>4, <1>10 DEF DInv, LinksOK, ConnectedOK, RefTyped, RefCached, Alive, Contains, SameMap
<1>13. db.rows[k] # NoRow
  BY <1>1, <1>2 DEF Update
<1>14. SeqOK'
  <2>1. \A l \in Keys : db'.rows[l] # NoRow => db.rows[l] # NoRow
    BY <1>9, <1>13
  <2>2. saved' = db' \/ saved' = saved
    BY <1>4
  <2>3. QED
    BY <1>9, <2>1, <2>2, Facts, SeqKept DEF DInv
<1>15. ASSUME NEW p \in Objects, p # o PROVE Undisturbed(p)
  <2>1. SUFFICES ASSUME Known(p) PROVE Undisturbed(p)
    BY <1>11 DEF Undisturbed
  <2>2. KeyOf(p) # k /\ KeyOf(p) \in Keys
    BY <1>2, <1>7, <1>15, <2>1, KeyOfOne, CachedFacts DEF Known
  <2>3. ~Pending(p)
    BY <1>5, NonePending
  <2>4. QED
    BY <1>4, <1>9, <1>10, <1>11, <1>15, <2>1, <2>2, <2>3 DEF Undisturbed, SameMap, Get
<1>16. ExistOK(o)' /\ DbOK(o)'
  <2>1. Known(o) => Get(cache', k) = o
    BY <1>2, <1>7, <1>10 DEF DInv, KeptOK, ExistOK, SameMap, Get
  <2>2. db'.rows[k] = row /\ KeyOf(o)' = k /\ obj' = obj
    BY <1>2, <1>4, <1>7, <1>9, <1>11
  <2>3. ExistOK(o)'
    BY <1>7, <1>8, <1>11, <2>1, <2>2 DEF ExistOK
  <2>4. DbOK(o)'
    BY <1>7, <1>8, <1>11, <2>2 DEF DbOK
  <2>5. QED
    BY <2>3, <2>4
<1>17. \A p \in Objects : ExistOK(p)' /\ DbOK(p)'
  <2>1. ASSUME NEW p \in Objects, p # o PROVE ExistOK(p)' /\ DbOK(p)'
    BY <1>15, <2>1, RowKept DEF DInv, KeptOK
  <2>2. QED
    BY <1>16, <2>1
<1>18. o \in merging
  <2>1. PICK n \in Nat : n = Len(stack) /\ n # 0 /\ Top = stack[1]
    BY <1>5, Split DEF Top
  <2>2. 1 \in 1..Len(stack) /\ merging = Merged(stack)
    BY <1>5, <2>1 DEF IInv, CallInv, MergingOK
  <2>3. QED
    BY <1>1, <1>4, <2>1, <2>2 DEF Merged, MergeAt
<1>19. DInv'
  <2>1. CASE depth = 1
    BY <1>4, <1>5, <1>12, <1>14, <1>17, <2>1, SavedStep
  <2>2. CASE depth # 1
    <3>1. saved' = saved /\ tracked' = tracked /\ merging' = merging /\ obj' = obj
      BY <1>4, <2>2
    <3>2. SvOK(o)'
      <4>1. SvOK(o) /\ o \in merging' /\ KeyOf(o)' = KeyOf(o) /\ RefId(o)' = RefId(o)
        BY <1>7, <1>11, <1>18, <3>1 DEF DInv, KeptOK
      <4>2. Kept(o)' => Kept(o)
        BY <1>7, <1>10, <1>11 DEF Kept
      <4>3. QED
        BY <3>1, <4>1, <4>2 DEF SvOK
    <3>3. ASSUME NEW p \in Objects, p # o PROVE SvOK(p)'
      <4>1. StillSaved(p)
        BY <3>1 DEF StillSaved
      <4>2. QED
        BY <1>15, <3>3, <4>1, SavedKept DEF DInv, KeptOK
    <3>4. KeptOK'
      BY <1>17, <3>2, <3>3 DEF KeptOK
    <3>5. ASSUME NEW l \in Keys \ undone', Get(cache', l) = NoInstance
          PROVE  db'.rows[l] \in {NoRow, saved'.rows[l]}
      <4>1. Get(cache, l) = NoInstance /\ l \in Keys \ undone
        BY <1>4, <1>10, <3>5 DEF Get, SameMap
      <4>2. l # k
        <5>1. ASSUME l = k PROVE Get(cache, k) = o
          BY <1>2, <1>7, <4>1, <5>1 DEF DInv, KeptOK, ExistOK, Known
        <5>2. QED
          BY <1>7, <4>1, <5>1, SentinelAssumption
      <4>3. QED
        BY <1>9, <3>1, <4>1, <4>2 DEF DInv, UncachedSame
    <3>6. UncachedSame'
      BY <3>5 DEF UncachedSame
    <3>7. QED
      BY <1>5, <1>12, <1>14, <3>4, <3>6, NothingBlank DEF DInv
  <2>3. QED
    BY <2>1, <2>2
<1>20. Written(o)
  <2>1. RowOf(o)' = row
    BY <1>3, <1>4 DEF RowOf, RefId
  <2>2. KeyOf(o)' = k
    BY <1>2, <1>7, <1>11
  <2>3. RowExists(KeyOf(o))'
    BY <1>7, <1>8, <1>9, <2>2 DEF RowExists
  <2>4. /\ Contains(cache', o)
        /\ \A p \in Objects : /\ Contains(cache, p) => Contains(cache', p)
                              /\ obj'[p].ref = obj[p].ref
    BY <1>4, <1>7, <1>10 DEF Contains, SameMap
  <2>5. QED
    BY <1>1, <1>4, <1>7, <1>9, <2>1, <2>2, <2>3, <2>4 DEF Written
<1>21. QED
  BY <1>7, <1>19, <1>20

-----------------------------------------------------------------------------
(* Reading: what is new is blank and its row is saved.                     *)

LEMMA ApartCons ==
    ASSUME NEW T, NEW x \in T, NEW s \in Seq(T)
    PROVE  Apart(<<x>> \o s) <=> Apart(s) /\ \A f \in Items(s) : f.inst # x.inst
<1>1. /\ Len(<<x>> \o s) = Len(s) + 1
      /\ \A i \in 1..(Len(s) + 1) : (<<x>> \o s)[i] = IF i = 1 THEN x ELSE s[i - 1]
  BY Cons
<1>2. PICK n \in Nat : n = Len(s)
  OBVIOUS
<1>3. PICK t : t = <<x>> \o s
  OBVIOUS
<1>4. /\ 1 \in 1..(n + 1) /\ t[1] = x
      /\ \A i \in 1..n : i + 1 \in 1..(n + 1) /\ i + 1 # 1 /\ t[i + 1] = s[i]
  <2>1. \A i \in 1..n : i + 1 \in 1..(n + 1) /\ i + 1 # 1 /\ (i + 1) - 1 = i
    BY <1>2
  <2>2. 1 \in 1..(n + 1)
    BY <1>2
  <2>3. QED
    BY <1>1, <1>2, <1>3, <2>1, <2>2
<1>5. \A i \in 1..(n + 1) : i = 1 \/ \E j \in 1..n : i = j + 1
  <2>1. ASSUME NEW i \in 1..(n + 1), i # 1 PROVE i - 1 \in 1..n /\ i = (i - 1) + 1
    BY <1>2, <2>1
  <2>2. QED
    BY <2>1
<1>6. ASSUME \A i, j \in 1..(n + 1) : t[i].inst = t[j].inst => i = j
      PROVE  /\ \A i, j \in 1..n : s[i].inst = s[j].inst => i = j
             /\ \A i \in 1..n : s[i].inst # x.inst
  <2>1. ASSUME NEW i \in 1..n, NEW j \in 1..n, s[i].inst = s[j].inst PROVE i = j
    <3>1. i + 1 = j + 1
      BY <1>4, <1>6, <2>1
    <3>2. QED
      BY <3>1
  <2>2. ASSUME NEW i \in 1..n PROVE s[i].inst # x.inst
    <3>1. /\ i + 1 \in 1..(n + 1) /\ 1 \in 1..(n + 1) /\ i + 1 # 1
          /\ t[i + 1] = s[i] /\ t[1] = x
      BY <1>4
    <3>2. t[i + 1].inst = t[1].inst => i + 1 = 1
      BY <1>6, <3>1
    <3>3. QED
      BY <3>1, <3>2
  <2>3. QED
    BY <2>1, <2>2
<1>7. ASSUME \A i, j \in 1..n : s[i].inst = s[j].inst => i = j, \A i \in 1..n : s[i].inst # x.inst
      PROVE  \A i, j \in 1..(n + 1) : t[i].inst = t[j].inst => i = j
  <2>1. ASSUME NEW i \in 1..(n + 1), NEW j \in 1..(n + 1), t[i].inst = t[j].inst PROVE i = j
    <3>0. ASSUME NEW a \in 1..n PROVE t[a + 1].inst # t[1].inst
      BY <1>4, <1>7
    <3>1. CASE i = 1 \/ j = 1
      BY <1>5, <2>1, <3>0, <3>1
    <3>2. ASSUME NEW a \in 1..n, NEW b \in 1..n, i = a + 1, j = b + 1 PROVE i = j
      <4>1. s[a].inst = s[b].inst
        BY <1>4, <2>1, <3>2
      <4>2. QED
        BY <1>7, <3>2, <4>1
    <3>3. QED
      BY <1>5, <3>1, <3>2
  <2>2. QED
    BY <2>1
<1>8. Len(t) = n + 1
  BY <1>1, <1>2, <1>3
<1>9. QED
  BY <1>2, <1>3, <1>6, <1>7, <1>8 DEF Apart, Items

\* A new fill is of another instance than those that wait for it.
LEMMA PushedApart ==
    ASSUME fills \in Seq(Fill), Apart(fills), NEW o \in Objects, NEW k \in Keys,
           NEW overwrite \in BOOLEAN, NEW fresh \in BOOLEAN, PushFill(o, k, overwrite, fresh),
           \A f \in Items(fills) : f.inst # o
    PROVE  Apart(fills')
<1> DEFINE new == [inst |-> o, key |-> k, overwrite |-> overwrite, fresh |-> fresh, read |-> FALSE]
           g0 == [FillTop EXCEPT !.read = TRUE]
           s == Tail(fills)
           caller == IF fills = <<>> THEN <<>> ELSE <<g0>> \o s
<1>1. new \in Fill /\ new.inst = o /\ fills' = <<new>> \o caller
  BY DEF Fill, PushFill
<1> HIDE DEF new
<1>2. CASE fills = <<>>
  <2>1. caller = <<>> /\ <<>> \in Seq(Fill)
    BY <1>2
  <2>2. Apart(<<>>) /\ Items(<<>>) = {}
    BY NoItems DEF Apart
  <2> HIDE DEF caller
  <2>3. QED
    BY <1>1, <2>1, <2>2, ApartCons
<1>3. CASE fills # <<>>
  <2>1. FillTop \in Fill /\ s \in Seq(Fill) /\ Items(fills) = {FillTop} \cup Items(s)
        /\ fills = <<FillTop>> \o s
    BY <1>3, Split, ItemsSplit DEF FillTop
  <2>2. g0 \in Fill /\ g0.inst = FillTop.inst /\ caller = <<g0>> \o s
    BY <1>3, <2>1 DEF Fill
  <2> HIDE DEF g0, caller, s
  <2>3. Apart(s) /\ \A f \in Items(s) : f.inst # FillTop.inst
    BY <2>1, ApartCons
  <2>4. Apart(caller) /\ caller \in Seq(Fill) /\ Items(caller) = {g0} \cup Items(s)
    BY <2>1, <2>2, <2>3, ApartCons, ItemsCons, Cons
  <2>5. \A f \in Items(caller) : f.inst # o
    BY <2>1, <2>2, <2>4
  <2>6. QED
    BY <1>1, <2>4, <2>5, ApartCons
<1>4. QED
  BY <1>2, <1>3

LEMMA SameDInv ==
    ASSUME DInv, UNCHANGED <<obj, cache, db, saved, undone, merging, tracked, reading, fills>>
    PROVE  DInv'
<1>1. LinksOK' /\ SeqOK' /\ UncachedSame' /\ BlankOK'
  BY DEF DInv, LinksOK, ConnectedOK, RefTyped, RefCached, SeqOK, UncachedSame, BlankOK, Blank, Alive
<1>2. \A o \in Objects : /\ KeyOf(o)' = KeyOf(o) /\ RefId(o)' = RefId(o)
                         /\ Pending(o)' = Pending(o)
  BY DEF KeyOf, RefId, Pending
<1>3. KeptOK'
  BY <1>2 DEF DInv, KeptOK, ExistOK, DbOK, SvOK, Kept, Known
<1>4. QED
  BY <1>1, <1>3 DEF DInv

LEMMA MakeDInv ==
    ASSUME IInv, TInv, DInv, NEW k \in Keys, db.rows[k] # NoRow, Get(cache, k) = NoInstance,
           Make(k), UNCHANGED fillVars, reading'.why = reading.why,
           \A o \in Objects : Kept(o) /\ o \in Items(reading.queue) /\ reading.why = "rollback"
                                  => o \in Items(reading'.queue)
    PROVE  DInv'
<1>1. PICK o \in FreeAddresses(k[1]) :
        /\ obj' = [obj EXCEPT ![o] = [NoObject EXCEPT !.life = "session", !.id = k[2]]]
        /\ cache' = Insert(cache, o, k)
        /\ PushFill(o, k, FALSE, TRUE)
  BY DEF Make
<1>2. o \in Objects /\ ~Alive(o) /\ ~Contains(cache, o) /\ ClassOf[o] = k[1]
  <2>1. o \in Objects /\ ~Alive(o) /\ ClassOf[o] = k[1]
    BY <1>1 DEF FreeAddresses
  <2>2. QED
    BY <2>1, CachedFacts
<1>3. /\ \A p \in Objects : p # o => obj'[p] = obj[p]
      /\ obj'[o].id = k[2] /\ obj'[o].life = "session" /\ obj'[o].ref = NoInstance
  BY <1>1, <1>2, Facts DEF NoObject
<1>4. /\ cache'.ids = [cache.ids EXCEPT ![o] = k]
      /\ cache'.byId = [cache.byId EXCEPT ![k] = o]
      /\ cache'.modified = cache.modified /\ cache'.connected = cache.connected
  BY <1>1, <1>2, Facts, InsertNew DEF Insert, Caches
<1>5. UNCHANGED <<db, saved, undone, merging, tracked>>
  BY DEF fillVars
<1>6. o \notin cache.connected /\ \A p \in Objects : obj[p].ref # o \/ ~Alive(p)
  BY <1>2, CachedFacts, SentinelAssumption DEF DInv, LinksOK, ConnectedOK
<1>7. k # NoKey /\ k = <<k[1], k[2]>>
  BY SentinelAssumption DEF Keys
<1>8. KeyOf(o)' = k /\ \A p \in Objects : p # o => KeyOf(p)' = KeyOf(p)
  BY <1>2, <1>3, <1>7 DEF KeyOf
<1>9. \A p \in Objects : Contains(cache', p) <=> Contains(cache, p) \/ p = o
  BY <1>2, <1>4, <1>7, Facts DEF Contains
<1>10. LinksOK'
  <2>1. ConnectedOK'
    BY <1>3, <1>4, <1>6 DEF DInv, LinksOK, ConnectedOK, Alive
  <2>2. RefTyped'
    BY <1>3 DEF DInv, LinksOK, RefTyped
  <2>3. RefCached'
    <3>1. ASSUME NEW p \in Objects, Contains(cache', p), obj'[p].ref # NoInstance
          PROVE  Contains(cache', obj'[p].ref)
      <4>1. p # o /\ obj'[p].ref = obj[p].ref /\ Contains(cache, p)
        BY <1>3, <1>9, <3>1
      <4>2. obj[p].ref \in Objects /\ Contains(cache, obj[p].ref)
        BY <3>1, <4>1, CachedFacts DEF DInv, LinksOK, RefCached
      <4>3. QED
        BY <1>9, <4>1, <4>2
    <3>2. QED
      BY <3>1 DEF RefCached
  <2>4. QED
    BY <2>1, <2>2, <2>3 DEF LinksOK
<1>11. SeqOK'
  BY <1>5 DEF DInv, SeqOK
<1>12. /\ \A f \in Items(fills') :
              \/ f.inst = o /\ f.key = k /\ f.overwrite = FALSE /\ f.fresh = TRUE
              \/ \E g \in Items(fills) : SameFill(f, g)
       /\ \A g \in Items(fills) : \E f \in Items(fills') : SameFill(f, g)
  BY <1>1, <1>2, Facts, FillsPushed
<1>13. \A g \in Items(fills) : g.inst \in Objects /\ g.inst # o /\ Blank(g)
  <2>1. Items(fills) \subseteq Fill
    BY Facts, ItemsTyped
  <2>2. ASSUME NEW g \in Items(fills) PROVE g.inst \in Objects /\ g.inst # o /\ Blank(g)
    <3>1. g.inst \in Objects
      BY <2>1 DEF Fill
    <3>2. Contains(cache, g.inst) /\ Blank(g)
      BY DEF TInv, FillsOK, FillFits, DInv, BlankOK
    <3>3. QED
      BY <1>2, <3>1, <3>2
  <2>3. QED
    BY <2>2
<1>14. ASSUME NEW f \in Items(fills') PROVE Blank(f)'
  <2>1. CASE f.inst = o /\ f.key = k /\ f.overwrite = FALSE /\ f.fresh = TRUE
    <3>1. k \in undone \/ db.rows[k] = saved.rows[k]
      BY DEF DInv, UncachedSame
    <3>2. QED
      BY <1>3, <1>4, <1>5, <1>6, <2>1, <3>1 DEF Blank
  <2>2. ASSUME NEW g \in Items(fills), SameFill(f, g) PROVE Blank(f)'
    BY <1>3, <1>4, <1>5, <1>13, <2>2 DEF Blank, SameFill
  <2>3. QED
    BY <1>12, <2>1, <2>2
<1>15. BlankOK'
  <2>1. Apart(fills')
    BY <1>1, <1>2, <1>13, Facts, PushedApart DEF DInv, BlankOK
  <2>2. QED
    BY <1>14, <2>1 DEF BlankOK
<1>16. ASSUME NEW l \in Keys \ undone', Get(cache', l) = NoInstance
       PROVE  db'.rows[l] \in {NoRow, saved'.rows[l]}
  <2>1. l # k
    BY <1>2, <1>4, <1>16, Facts, SentinelAssumption DEF Get
  <2>2. Get(cache, l) = NoInstance /\ l \in Keys \ undone
    BY <1>4, <1>5, <1>16, <2>1, Facts DEF Get
  <2>3. QED
    BY <1>5, <2>2 DEF DInv, UncachedSame
<1>17. UncachedSame'
  BY <1>16 DEF UncachedSame
<1>18. ASSUME NEW p \in Objects, p # o PROVE Undisturbed(p)
  <2>1. SUFFICES ASSUME Known(p)' PROVE Undisturbed(p)
    BY DEF Undisturbed
  <2>2. Contains(cache, p) /\ KeyOf(p)' = KeyOf(p) /\ Alive(p) /\ KeyOf(p) \in Keys
    BY <1>8, <1>9, <1>18, <2>1, CachedFacts DEF Known
  <2>3. Known(p)
    BY <1>5, <2>1, <2>2 DEF Known
  <2>4. Get(cache, KeyOf(p)) = p
    BY <2>3 DEF DInv, KeptOK, ExistOK
  <2>5. KeyOf(p) # k
    BY <2>4, SentinelAssumption
  <2>6. Get(cache', KeyOf(p)) = Get(cache, KeyOf(p))
    BY <1>4, <2>2, <2>5, Facts DEF Get
  <2>7. obj[p].ref # NoInstance => obj[p].ref \in Objects /\ obj[p].ref # o
    BY <1>6, <2>2, CachedFacts
  <2>8. obj'[p] = obj[p]
    BY <1>3, <1>18
  <2>9. RefId(p)' = RefId(p)
    BY <1>3, <2>7, <2>8, SameRefId
  <2>10. ASSUME p \in cache'.connected, Pending(p) PROVE Pending(p)'
    <3>1. Kept(p)
      BY <1>4, <2>3, <2>10 DEF Kept
    <3>2. CASE p \in Items(reading.queue)
      BY <2>10, <3>1, <3>2 DEF Pending
    <3>3. ASSUME NEW g \in Items(fills), g.inst = p PROVE Pending(p)'
      BY <1>12, <2>10, <3>3 DEF Pending, SameFill
    <3>4. QED
      BY <2>10, <3>2, <3>3 DEF Pending
  <2>11. QED
    BY <1>4, <1>5, <2>2, <2>3, <2>6, <2>8, <2>9, <2>10 DEF Undisturbed
<1>19. ASSUME NEW p \in Objects PROVE ExistOK(p)' /\ DbOK(p)' /\ SvOK(p)'
  <2>1. CASE p = o
    <3>1. ~Kept(p)'
      BY <1>4, <1>6, <2>1 DEF Kept
    <3>2. Get(cache', k) = o /\ db'.rows[k] # NoRow
      BY <1>4, <1>5, Facts DEF Get
    <3>3. QED
      BY <1>8, <2>1, <3>1, <3>2 DEF ExistOK, DbOK, SvOK
  <2>2. CASE p # o
    <3>1. StillSaved(p)
      BY <1>5 DEF StillSaved
    <3>2. QED
      BY <1>18, <2>2, <3>1, RowKept, SavedKept DEF DInv, KeptOK
  <2>3. QED
    BY <2>1, <2>2
<1>20. KeptOK'
  BY <1>19 DEF KeptOK
<1>21. QED
  BY <1>10, <1>11, <1>15, <1>17, <1>20 DEF DInv

\* A fill ends: the instance is what its row is, and so is what is saved.
LEMMA FillEndsDInv ==
    ASSUME IInv, TInv, DInv, FillSteps, NEW ref \in Objects \cup {NoInstance}, FillEnds(ref),
           \/ FillRow.ref = SqlNull /\ ref = obj[FillTop.inst].ref
           \/ ref = FillTarget /\ FillTarget # NoInstance
    PROVE  DInv'
<1>1. PICK f \in Fill : f = FillTop
  BY Filling
<1>2. PICK o \in Objects : o = f.inst
  BY DEF Fill
<1>3. PICK k \in Keys : k = f.key
  BY DEF Fill
<1>4. PICK v : v = FillRow.val
  OBVIOUS
<1>5. PICK rest : rest = Tail(fills)
  OBVIOUS
<1>6. /\ obj' = [obj EXCEPT ![o].val = v, ![o].ref = ref]
      /\ cache' = IF f.fresh THEN Finalize(cache, o) ELSE MarkUnmodified(cache, o)
      /\ fills' = rest /\ UNCHANGED <<db, saved, undone, merging, tracked, reading>>
  BY <1>1, <1>2, <1>4, <1>5 DEF FillEnds, fillVars
<1>7. db.rows[k].val = v /\ db.rows[k].ref = FillRow.ref /\ db.rows[k] # NoRow
  <2>1. FillRow = db.rows[k] /\ FillRow # NoRow
    BY <1>1, <1>3, Filling, NoRowAssumption DEF FillRow
  <2>2. QED
    BY <1>4, <2>1
<1>8. /\ Items(fills) = {f} \cup Items(rest) /\ rest \in Seq(Fill)
      /\ Apart(rest) /\ \A g \in Items(rest) : g.inst # o
  <2>1. fills = <<f>> \o rest /\ rest \in Seq(Fill)
    BY <1>1, <1>5, Filling, Split DEF FillTop
  <2>2. Apart(fills)
    BY DEF DInv, BlankOK
  <2>3. QED
    BY <1>2, <2>1, <2>2, ApartCons, ItemsCons
<1>9. Contains(cache, o) /\ KeyOf(o) = k /\ Blank(f) /\ Alive(o)
  BY <1>2, <1>3, <1>8, CachedFacts DEF TInv, FillsOK, FillFits, DInv, BlankOK
<1>10. \A p \in Objects : /\ obj'[p].life = obj[p].life /\ obj'[p].id = obj[p].id
                          /\ obj'[p].val = IF p = o THEN v ELSE obj[p].val
                          /\ obj'[p].ref = IF p = o THEN ref ELSE obj[p].ref
  BY <1>6, Facts DEF Object
<1>11. SameMap(cache, cache')
  BY <1>6, Facts, MarksOnly
<1>12. /\ cache'.connected = IF f.fresh THEN cache.connected \cup {o} ELSE cache.connected
       /\ cache'.modified = IF f.fresh THEN cache.modified ELSE cache.modified \ {o}
  BY <1>6, Facts DEF Finalize, MarkUnmodified, Caches
<1>13. \A p \in Objects : KeyOf(p)' = KeyOf(p) /\ (Known(p)' <=> Known(p))
  <2>1. \A p \in Objects : KeyOf(p)' = KeyOf(p) /\ (Contains(cache', p) <=> Contains(cache, p))
    BY <1>10, <1>11 DEF KeyOf, Contains, SameMap
  <2>2. QED
    BY <1>6, <2>1 DEF Known
<1>14. ref = FillTarget /\ FillTarget # NoInstance
         => Contains(cache, ref) /\ KeyOf(ref) = <<RefClass[k[1]], FillRow.ref>>
  <2>1. SUFFICES ASSUME ref = FillTarget, FillTarget # NoInstance
                 PROVE  Contains(cache, ref) /\ KeyOf(ref) = <<RefClass[k[1]], FillRow.ref>>
    OBVIOUS
  <2>2. FillRefKey \in Keys /\ ref = Get(cache, FillRefKey)
    BY <2>1 DEF FillTarget
  <2>3. Contains(cache, ref) /\ KeyOf(ref) = FillRefKey
    BY <2>1, <2>2, CachedFacts
  <2>4. QED
    BY <1>1, <1>3, <2>3 DEF FillRefKey
<1>15. LinksOK'
  <2>1. ConnectedOK'
    BY <1>9, <1>10, <1>12 DEF DInv, LinksOK, ConnectedOK, Alive
  <2>2. ref # NoInstance => ClassOf[ref] = RefClass[ClassOf[o]] /\ Contains(cache, ref)
    <3>1. CASE ref = obj[o].ref
      BY <1>9, <3>1 DEF DInv, LinksOK, RefTyped, RefCached
    <3>2. CASE ref = FillTarget /\ FillTarget # NoInstance
      BY <1>9, <1>14, <3>2 DEF KeyOf
    <3>3. QED
      BY <1>1, <1>2, <3>1, <3>2
  <2>3. RefTyped'
    BY <1>10, <2>2 DEF DInv, LinksOK, RefTyped
  <2>4. RefCached'
    BY <1>10, <1>11, <2>2 DEF DInv, LinksOK, RefCached, Contains, SameMap
  <2>5. QED
    BY <2>1, <2>3, <2>4 DEF LinksOK
<1>16. SeqOK' /\ UncachedSame'
  BY <1>6, <1>11 DEF DInv, SeqOK, UncachedSame, Get, SameMap
<1>17. ASSUME NEW g \in Items(fills') PROVE Blank(g)'
  <2>1. g \in Items(rest) /\ g \in Items(fills) /\ g.inst # o
    BY <1>6, <1>8, <1>17
  <2>2. g.inst \in Objects
    <3>1. Items(rest) \subseteq Fill
      BY <1>8, ItemsTyped
    <3>2. QED
      BY <2>1, <3>1 DEF Fill
  <2>3. Blank(g)
    BY <2>1 DEF DInv, BlankOK
  <2>4. QED
    BY <1>6, <1>10, <1>12, <2>1, <2>2, <2>3 DEF Blank
<1>18. BlankOK'
  BY <1>6, <1>8, <1>17 DEF BlankOK
<1>19. ASSUME NEW p \in Objects, p # o PROVE Undisturbed(p)
  <2>1. SUFFICES ASSUME Known(p)' PROVE Undisturbed(p)
    BY DEF Undisturbed
  <2>2. Known(p) /\ KeyOf(p)' = KeyOf(p)
    BY <1>13, <2>1
  <2>3. obj[p].ref # NoInstance => obj[p].ref \in Objects
    BY <2>2, CachedFacts DEF Known
  <2>4. RefId(p)' = RefId(p)
    BY <1>10, <1>19, <2>3, SameRefId
  <2>5. Pending(p) => Pending(p)'
    BY <1>2, <1>6, <1>8, <1>19 DEF Pending
  <2>6. QED
    BY <1>6, <1>10, <1>11, <1>12, <1>19, <2>2, <2>4, <2>5 DEF Undisturbed, Get, SameMap
<1>20. Kept(o)' => RefId(o)' = FillRow.ref
  <2>1. CASE ref = FillTarget /\ FillTarget # NoInstance
    <3>1. ref \in Objects /\ obj[ref].id = FillRow.ref
      BY <1>14, <2>1 DEF KeyOf
    <3>2. RefId(o)' = IF obj'[o].ref = NoInstance THEN SqlNull ELSE obj'[obj'[o].ref].id
      BY DEF RefId
    <3>3. QED
      BY <1>10, <2>1, <3>1, <3>2
  <2>2. CASE FillRow.ref = SqlNull /\ ref = obj[o].ref /\ f.fresh
    <3>1. obj[o].ref = NoInstance
      BY <1>2, <1>9, <2>2 DEF Blank
    <3>2. obj'[o].ref = NoInstance
      BY <1>10, <2>2, <3>1
    <3>3. QED
      BY <2>2, <3>2 DEF RefId
  <2>3. CASE FillRow.ref = SqlNull /\ ref = obj[o].ref /\ ~f.fresh
    <3>1. SUFFICES ASSUME Kept(o)' PROVE RefId(o)' = FillRow.ref
      OBVIOUS
    <3>2. Kept(o)
      BY <1>12, <1>13, <2>3, <3>1 DEF Kept
    <3>3. RefId(o) = FillRow.ref
      BY <1>7, <1>9, <3>2 DEF DInv, KeptOK, DbOK
    <3>4. obj[o].ref # NoInstance => obj[o].ref \in Objects
      BY <1>9, CachedFacts
    <3>5. QED
      BY <1>10, <2>3, <3>3, <3>4, SameRefId
  <2>4. QED
    BY <1>1, <1>2, <2>1, <2>2, <2>3
<1>21. ExistOK(o)' /\ DbOK(o)'
  <2>1. ExistOK(o)'
    BY <1>6, <1>11, <1>13 DEF DInv, KeptOK, ExistOK, Get, SameMap
  <2>2. DbOK(o)'
    BY <1>6, <1>7, <1>9, <1>10, <1>13, <1>20 DEF DbOK
  <2>3. QED
    BY <2>1, <2>2
<1>22. SvOK(o)'
  <2>1. Known(o)' => saved.rows[k] = db.rows[k]
    <3>1. CASE f.fresh
      BY <1>3, <1>9, <1>13, <3>1 DEF Blank, Known
    <3>2. CASE ~f.fresh
      BY <1>9, <3>2 DEF Blank, IInv, CallInv, ReadingOK
    <3>3. QED
      BY <3>1, <3>2
  <2>2. Kept(o)' => Known(o)'
    BY DEF Kept
  <2>3. QED
    BY <1>6, <1>7, <1>9, <1>10, <1>13, <1>20, <2>1, <2>2 DEF SvOK
<1>23. ASSUME NEW p \in Objects, p # o PROVE ExistOK(p)' /\ DbOK(p)' /\ SvOK(p)'
  <2>1. StillSaved(p)
    BY <1>6 DEF StillSaved
  <2>2. QED
    BY <1>19, <1>23, <2>1, RowKept, SavedKept DEF DInv, KeptOK
<1>24. KeptOK'
  BY <1>21, <1>22, <1>23 DEF KeptOK
<1>25. QED
  BY <1>15, <1>16, <1>18, <1>24 DEF DInv

LEMMA FillDInv ==
    ASSUME IInv, TInv, DInv, FillNull \/ FillCached \/ FillReads PROVE DInv'
<1>1. CASE FillNull
  <2>1. /\ FillSteps /\ FillEnds(obj[FillTop.inst].ref) /\ FillRow.ref = SqlNull
    BY <1>1 DEF FillNull
  <2>2. obj[FillTop.inst].ref \in Objects \cup {NoInstance}
    BY <2>1, Filling, Facts DEF Fill, Object
  <2>3. QED
    BY <2>1, <2>2, FillEndsDInv
<1>2. CASE FillCached
  <2>1. FillSteps /\ FillEnds(FillTarget) /\ FillTarget # NoInstance
    BY <1>2 DEF FillCached
  <2>2. FillTarget \in Objects
    BY <2>1, CachedFacts DEF FillTarget
  <2>3. QED
    BY <2>1, <2>2, FillEndsDInv
<1>3. CASE FillReads
  <2>1. /\ FillRefKey \in Keys /\ db.rows[FillRefKey] # NoRow /\ Get(cache, FillRefKey) = NoInstance
        /\ Make(FillRefKey) /\ UNCHANGED fillVars /\ reading' = reading
    BY <1>3 DEF FillReads, RowExists, FillTarget
  <2>2. QED
    BY <2>1, MakeDInv
<1>4. QED
  BY <1>1, <1>2, <1>3

LEMMA RereadNextDInv == ASSUME IInv, TInv, DInv, RereadNext PROVE DInv'
<1>1. reading.why = "rollback" /\ reading.queue # <<>> /\ reading.queue \in Seq(Objects)
  <2>1. reading.why = "rollback" /\ reading.queue # <<>>
    BY DEF RereadNext, Reading
  <2>2. QED
    BY <2>1, WhatIsRead DEF NoReading
<1>2. PICK rest : rest = Tail(reading.queue)
  OBVIOUS
<1>3. PICK h \in Objects : h = Head(reading.queue) /\ Items(reading.queue) = {h} \cup Items(rest)
  BY <1>1, <1>2, Split, ItemsSplit
<1>4. PICK k : k = KeyOf(h)
  OBVIOUS
<1>5. /\ fills = <<>> /\ reading' = [reading EXCEPT !.queue = rest] /\ UNCHANGED fillVars
      /\ \/ ~RowExists(k) /\ UNCHANGED <<obj, cache, fills>>
         \/ /\ RowExists(k) /\ Get(cache, k) # NoInstance
            /\ PushFill(Get(cache, k), k, TRUE, FALSE) /\ UNCHANGED <<obj, cache>>
         \/ RowExists(k) /\ Get(cache, k) = NoInstance /\ Make(k)
  BY <1>2, <1>3, <1>4 DEF RereadNext, Reading
<1>6. reading'.why = "rollback" /\ reading'.queue = rest
  <2>1. reading \in [why : {"rollback"}, queue : Seq(Objects)]
    BY <1>1 DEF IInv, TypeOK, Readings, NoReading
  <2>2. QED
    BY <1>5, <2>1
<1>7. Kept(h) => RowExists(k) /\ Get(cache, k) = h
  <2>1. SUFFICES ASSUME Kept(h) PROVE RowExists(k) /\ Get(cache, k) = h
    OBVIOUS
  <2>2. Known(h) /\ KeyOf(h) \in Keys
    BY <2>1, CachedFacts DEF Kept, Known
  <2>3. QED
    BY <1>4, <2>2 DEF DInv, KeptOK, ExistOK, RowExists
<1>8. \A p : Pending(p) => p \in Items(reading.queue)
  BY <1>5, NoItems DEF Pending
<1>9. ASSUME UNCHANGED <<obj, cache>>, BlankOK', Kept(h) => Pending(h)'
      PROVE  DInv'
  <2>1. ASSUME NEW p \in Objects, Kept(p), Pending(p) PROVE Pending(p)'
    BY <1>3, <1>6, <1>8, <1>9, <2>1 DEF Pending
  <2>2. UNCHANGED <<db, saved, undone, merging, tracked>>
    BY <1>5 DEF fillVars
  <2>3. LinksOK' /\ \A p \in Objects : Undisturbed(p)
    BY <1>9, <2>1, <2>2, SameData
  <2>4. SeqOK' /\ UncachedSame'
    BY <1>9, <2>2 DEF DInv, SeqOK, UncachedSame
  <2>5. \A p \in Objects : StillSaved(p)
    BY <2>2 DEF StillSaved
  <2>6. QED
    BY <1>9, <2>3, <2>4, <2>5, DataStep
<1>10. CASE ~RowExists(k) /\ UNCHANGED <<obj, cache, fills>>
  <2>1. BlankOK'
    BY <1>5, <1>10, NothingBlank
  <2>2. ~Kept(h) /\ UNCHANGED <<obj, cache>>
    BY <1>7, <1>10
  <2>3. QED
    BY <1>9, <2>1, <2>2
<1>11. CASE /\ RowExists(k) /\ Get(cache, k) # NoInstance
            /\ PushFill(Get(cache, k), k, TRUE, FALSE) /\ UNCHANGED <<obj, cache>>
  <2>1. PICK g : g = Get(cache, k)
    OBVIOUS
  <2>2. k \in Keys /\ g \in Objects /\ PushFill(g, k, TRUE, FALSE)
    BY <1>11, <2>1, CachedFacts DEF RowExists
  <2>3. /\ \A f \in Items(fills') :
               \/ f.inst = g /\ f.key = k /\ f.overwrite = TRUE /\ f.fresh = FALSE
               \/ \E e \in Items(fills) : SameFill(f, e)
        /\ \E f \in Items(fills') : f.inst = g /\ f.overwrite = TRUE
    BY <2>2, Facts, FillsPushed
  <2>4. Items(fills) = {}
    BY <1>5, NoItems
  <2>5. Apart(fills')
    BY <2>2, <2>4, Facts, PushedApart DEF DInv, BlankOK
  <2>6. ASSUME NEW f \in Items(fills') PROVE Blank(f)'
    <3>1. f.fresh = FALSE
      BY <2>3, <2>4
    <3>2. QED
      BY <1>6, <3>1 DEF Blank
  <2>7. BlankOK'
    BY <2>5, <2>6 DEF BlankOK
  <2>8. Kept(h) => Pending(h)'
    BY <1>6, <1>7, <2>1, <2>3 DEF Pending
  <2>9. QED
    BY <1>9, <1>11, <2>7, <2>8
<1>12. CASE RowExists(k) /\ Get(cache, k) = NoInstance /\ Make(k)
  <2>1. k \in Keys /\ db.rows[k] # NoRow
    BY <1>12 DEF RowExists
  <2>2. ~Kept(h)
    BY <1>7, <1>12, SentinelAssumption
  <2>3. \A p \in Objects : Kept(p) /\ p \in Items(reading.queue) => p \in Items(reading'.queue)
    BY <1>3, <1>6, <2>2
  <2>4. QED
    BY <1>1, <1>5, <1>6, <1>12, <2>1, <2>3, MakeDInv
<1>13. QED
  BY <1>5, <1>10, <1>11, <1>12

LEMMA SelectNextDInv == ASSUME IInv, TInv, DInv, SelectNext PROVE DInv'
<1>0. reading.why = "select" /\ reading.queue # <<>>
  BY DEF SelectNext, Reading
<1>1. reading.queue \in Seq(Keys) /\ \A i \in 1..Len(reading.queue) : db.rows[reading.queue[i]] # NoRow
  BY <1>0, WhatIsRead DEF NoReading
<1>2. PICK k : k = Head(reading.queue)
  OBVIOUS
<1>3. k \in Keys /\ db.rows[k] # NoRow
  <2>1. PICK n \in Nat : n = Len(reading.queue) /\ n # 0
    BY <1>0, <1>1, Split
  <2>2. 1 \in 1..n /\ k = reading.queue[1] /\ k \in Keys
    BY <1>0, <1>1, <1>2, <2>1, Split
  <2>3. QED
    BY <1>1, <2>1, <2>2
<1>4. reading'.why = "select"
  <2>1. reading \in [why : {"select"}, queue : Seq(Keys)]
    BY <1>0, <1>1 DEF IInv, TypeOK, Readings, NoReading
  <2>2. QED
    BY <2>1 DEF SelectNext
<1>5. /\ UNCHANGED fillVars /\ fills = <<>>
      /\ \/ UNCHANGED <<obj, cache, fills>>
         \/ Get(cache, k) = NoInstance /\ Make(k)
  BY <1>2 DEF SelectNext, Reading
<1>6. CASE UNCHANGED <<obj, cache, fills>>
  <2>1. /\ UNCHANGED <<obj, cache, db, saved, undone>> /\ BlankOK'
        /\ merging \cup Items(tracked) \subseteq merging' \cup Items(tracked')
    BY <1>5, <1>6, NothingBlank DEF fillVars
  <2>2. reading.why # "rollback"
    BY <1>0
  <2>3. QED
    BY <2>1, <2>2, QuietDInv
<1>7. CASE Get(cache, k) = NoInstance /\ Make(k)
  BY <1>0, <1>3, <1>4, <1>5, <1>7, MakeDInv
<1>8. QED
  BY <1>5, <1>6, <1>7

-----------------------------------------------------------------------------
(* The steps of a call that leave instances and tables alone, commit, roll *)
(* back, or end.                                                           *)

LEMMA ItemsAppend ==
    ASSUME NEW T, NEW s \in Seq(T), NEW x \in T
    PROVE  Items(Append(s, x)) = Items(s) \cup {x}
<1>1. /\ Len(Append(s, x)) = Len(s) + 1 /\ Len(s) \in Nat
      /\ \A i \in 1..Len(s) : Append(s, x)[i] = s[i]
      /\ Append(s, x)[Len(s) + 1] = x
  OBVIOUS
<1>2. PICK n \in Nat : n = Len(s)
  BY <1>1
<1>3. /\ n + 1 \in 1..(n + 1) /\ \A i \in 1..n : i \in 1..(n + 1)
      /\ \A i \in 1..(n + 1) : i = n + 1 \/ i \in 1..n
  BY <1>2
<1>4. PICK t : t = Append(s, x)
  OBVIOUS
<1>5. \A i \in 1..(n + 1) : t[i] \in Items(s) \cup {x}
  BY <1>1, <1>2, <1>3, <1>4 DEF Items
<1>6. x \in {t[i] : i \in 1..(n + 1)} /\ \A i \in 1..n : s[i] \in {t[j] : j \in 1..(n + 1)}
  BY <1>1, <1>2, <1>3, <1>4
<1>7. Items(t) = {t[i] : i \in 1..(n + 1)} /\ Items(s) = {s[i] : i \in 1..n}
  BY <1>1, <1>2, <1>4 DEF Items
<1>8. QED
  BY <1>4, <1>5, <1>6, <1>7

LEMMA CallSteps ==
    ASSUME IInv, TInv, DInv,
           UNCHANGED <<obj, cache, db, saved, undone, tracked, fills>>,
           merging \subseteq merging', fills = <<>>, reading = NoReading
    PROVE  DInv'
<1>1. reading.why # "rollback" /\ BlankOK'
  BY NothingBlank DEF NoReading
<1>2. merging \cup Items(tracked) \subseteq merging' \cup Items(tracked')
  OBVIOUS
<1>3. QED
  BY <1>1, <1>2, QuietDInv

LEMMA CallStepsDInv ==
    ASSUME IInv, TInv, DInv,
           \/ \E o \in Objects : Merge(o) \/ RemoveFails(o) \/ \E p \in Objects : MergeMany(o, p)
           \/ \E c \in Classes : Select(c)
           \/ BeginTransaction \/ MergeReferences \/ MergeNext \/ UpdateMisses \/ StatementFails
    PROVE  DInv'
<1>1. CASE \/ \E o \in Objects : Merge(o) \/ RemoveFails(o) \/ \E p \in Objects : MergeMany(o, p)
           \/ \E c \in Classes : Select(c)
           \/ BeginTransaction
  <2>1. Idle /\ UNCHANGED <<obj, cache, db, saved, undone, tracked, fills>>
    BY <1>1 DEF Merge, RemoveFails, MergeMany, Select, BeginTransaction
  <2>2. fills = <<>> /\ reading = NoReading /\ merging = {}
    BY <2>1, BetweenCalls
  <2>3. QED
    BY <2>1, <2>2, CallSteps
<1>2. CASE MergeReferences \/ MergeNext \/ UpdateMisses \/ StatementFails
  <2>1. StepsOf /\ UNCHANGED <<obj, cache, db, saved, undone, tracked, fills>>
    BY <1>2, SMTT(30) DEF MergeReferences, MergeNext, UpdateMisses, StatementFails, Fails
  <2>2. merging \subseteq merging'
    BY <1>2 DEF MergeReferences, MergeNext, UpdateMisses, StatementFails, Fails, Enter
  <2>3. QED
    BY <2>1, <2>2, CallSteps DEF StepsOf
<1>3. QED
  BY <1>1, <1>2

LEMMA CommitStepsDInv ==
    ASSUME IInv, TInv, DInv, CommitTransaction \/ MergeManyCommits PROVE DInv'
<1>1. /\ UNCHANGED <<obj, cache, db, undone, merging, reading, fills>> /\ Commits(db)
      /\ reading = NoReading /\ fills = <<>>
  <2>1. CASE CommitTransaction
    BY <2>1, BetweenCalls DEF CommitTransaction
  <2>2. CASE MergeManyCommits
    BY <2>2 DEF MergeManyCommits, StepsOf
  <2>3. QED
    BY <2>1, <2>2
<1>2. CASE depth = 1
  <2>1. saved' = db /\ fills' = <<>> /\ reading.why # "rollback" /\ reading'.why # "rollback"
    BY <1>1, <1>2 DEF Commits, NoReading
  <2>2. QED
    BY <1>1, <2>1, CommitDInv
<1>3. CASE depth # 1
  <2>1. UNCHANGED <<saved, tracked>>
    BY <1>1, <1>3 DEF Commits
  <2>2. QED
    BY <1>1, <2>1, CallSteps
<1>4. QED
  BY <1>2, <1>3

LEMMA RollbackStepsDInv ==
    ASSUME IInv, TInv, DInv, RollbackTransaction \/ MergeManyRollsBack PROVE DInv'
<1>1. /\ UNCHANGED <<obj, cache, saved, merging, tracked, fills>>
      /\ RollsBackInner \/ RollsBackOuter(tracked)
      /\ reading = NoReading /\ fills = <<>>
  <2>1. CASE RollbackTransaction
    BY <2>1, BetweenCalls DEF RollbackTransaction
  <2>2. CASE MergeManyRollsBack
    BY <2>2 DEF MergeManyRollsBack, StepsOf
  <2>3. QED
    BY <2>1, <2>2
<1>2. merging = {} \/ ~RollsBackOuter(tracked)
  <2>1. CASE RollbackTransaction
    BY <2>1, BetweenCalls DEF RollbackTransaction
  <2>2. CASE MergeManyRollsBack
    <3>1. PICK rest : rest = Tail(stack)
      OBVIOUS
    <3>2. StepsOf /\ Top.kind = "many"
      BY <2>2 DEF MergeManyRollsBack
    <3>3. rest = <<>> /\ merging = Merged(rest)
      BY <3>1, <3>2, InCall DEF MayTop
    <3>4. QED
      BY <3>3, Nothing
  <2>3. QED
    BY <2>1, <2>2
<1>3. CASE RollsBackInner
  BY <1>1, <1>3, CallSteps DEF RollsBackInner
<1>4. CASE RollsBackOuter(tracked)
  <2>1. /\ fills' = <<>> /\ reading.why # "rollback" /\ db' = saved
        /\ undone' = undone \cup {k \in Keys : db.rows[k] # NoRow /\ saved.rows[k] = NoRow}
        /\ reading' = [why |-> "rollback", queue |-> tracked']
        /\ merging \subseteq Items(tracked') /\ Items(tracked) \subseteq Items(tracked')
    BY <1>1, <1>2, <1>4 DEF RollsBackOuter, NoReading
  <2>2. QED
    BY <1>1, <2>1, RollsBackDInv
<1>5. QED
  BY <1>1, <1>3, <1>4

\* The frame that rolls back is the last one, so that what it merged is all that
\* was being merged; and it is tracked.
LEMMA MergeReturnsDInv == ASSUME IInv, TInv, DInv, MergeReturns PROVE DInv'
<1>1. PICK rest : rest = Tail(stack)
  OBVIOUS
<1>2. /\ StepsOf /\ Top.kind = "merge" /\ merging' = merging \ {Top.inst}
      /\ tracked' = Append(tracked, Top.inst) /\ UNCHANGED <<obj, cache, saved, fills>>
      /\ \/ ~Top.engaged /\ UNCHANGED <<db, undone>>
         \/ Top.engaged /\ RollsBackInner
         \/ Top.engaged /\ RollsBackOuter(tracked')
  BY DEF MergeReturns
<1>3. /\ Top \in Frame /\ rest \in Seq(Frame) /\ Len(rest) \in Nat /\ manual \in Nat
      /\ depth = manual + IF Top.engaged THEN Len(rest) + 1 ELSE Len(rest)
      /\ merging = Merged(rest) \cup {Top.inst} /\ reading = NoReading /\ fills = <<>>
  BY <1>1, <1>2, InCall
<1>4. Top.inst \in Objects
  BY <1>3 DEF Frame
<1>5. Items(tracked') = Items(tracked) \cup {Top.inst}
  BY <1>2, <1>4, Facts, ItemsAppend
<1>6. fills' = <<>> /\ reading.why # "rollback"
  BY <1>2, <1>3 DEF NoReading
<1>7. CASE UNCHANGED <<db, undone>>
  <2>1. merging \cup Items(tracked) \subseteq merging' \cup Items(tracked')
    BY <1>2, <1>5
  <2>2. QED
    BY <1>2, <1>6, <1>7, <2>1, NothingBlank, QuietDInv
<1>8. CASE Top.engaged /\ RollsBackOuter(tracked')
  <2>1. /\ depth = 1 /\ db' = saved
        /\ undone' = undone \cup {k \in Keys : db.rows[k] # NoRow /\ saved.rows[k] = NoRow}
        /\ reading' = [why |-> "rollback", queue |-> tracked']
    BY <1>8 DEF RollsBackOuter
  <2>2. rest = <<>>
    BY <1>3, <1>8, <2>1
  <2>3. merging \subseteq Items(tracked') /\ Items(tracked) \subseteq Items(tracked')
    BY <1>3, <1>5, <2>2, Nothing
  <2>4. QED
    BY <1>2, <1>6, <2>1, <2>3, RollsBackDInv
<1>9. QED
  BY <1>2, <1>7, <1>8 DEF RollsBackInner

LEMMA ReadEndsDInv ==
    ASSUME IInv, TInv, DInv,
           \/ FillStatementFails \/ RereadFails \/ SelectUnsynchronized \/ SelectEnds
           \/ CrossReferenceFatal \/ FillModifiedFatal \/ FillDanglingFatal \/ RereadDangling
    PROVE  DInv'
<1>1. ASSUME NEW e, ReadFails(e), reading.why = "select" PROVE DInv'
  <2>1. /\ UNCHANGED <<obj, cache, db, saved, undone, merging, tracked>> /\ fills' = <<>>
        /\ reading.why # "rollback"
    BY <1>1 DEF ReadFails
  <2>2. QED
    BY <2>1, NothingBlank, QuietDInv
<1>2. ASSUME NEW e, ReadFatal(e) \/ Die(e) PROVE DInv'
  BY <1>2, SameDInv DEF ReadFatal, Die
<1>3. CASE SelectEnds
  <2>1. /\ UNCHANGED <<obj, cache, db, saved, undone, merging, tracked>> /\ fills' = <<>>
        /\ reading.why # "rollback"
    BY <1>3 DEF SelectEnds, Reading
  <2>2. QED
    BY <2>1, NothingBlank, QuietDInv
<1>4. CASE \/ FillStatementFails \/ RereadFails \/ SelectUnsynchronized
  BY <1>1, <1>2, <1>4 DEF FillStatementFails, RereadFails, SelectUnsynchronized, Reading
<1>5. CASE CrossReferenceFatal \/ FillModifiedFatal \/ FillDanglingFatal \/ RereadDangling
  BY <1>2, <1>5 DEF CrossReferenceFatal, FillModifiedFatal, FillDanglingFatal, RereadDangling
<1>6. QED
  BY <1>3, <1>4, <1>5

-----------------------------------------------------------------------------
(* The chain of frames: no instance waits for itself, and what a merge has *)
(* referenced is cached when its statement is built.                       *)

\* What f has to be to lie on top of s.
OnTop(rank, f, s) ==
    /\ \A g \in Items(s) : g.kind = "merge" => rank[ClassOf[f.inst]] < rank[ClassOf[g.inst]]
    /\ s # <<>> /\ Head(s).kind = "merge" => obj[Head(s).inst].ref = f.inst

LEMMA ChainCons ==
    ASSUME NEW rank, NEW f \in Frame, NEW s \in Seq(Frame)
    PROVE  Chain(rank, <<f>> \o s) <=> Chain(rank, s) /\ OnTop(rank, f, s)
<1>1. PICK n \in Nat : n = Len(s)
  OBVIOUS
<1>2. PICK t : t = <<f>> \o s
  OBVIOUS
<1>3. Len(t) = n + 1 /\ \A i \in 1..(n + 1) : t[i] = IF i = 1 THEN f ELSE s[i - 1]
  BY <1>1, <1>2, Cons
<1>4. /\ 1 \in 1..(n + 1) /\ t[1] = f
      /\ \A i \in 1..n : i + 1 \in 1..(n + 1) /\ t[i + 1] = s[i]
  <2>1. \A i \in 1..n : i + 1 \in 1..(n + 1) /\ i + 1 # 1 /\ (i + 1) - 1 = i
    BY <1>1
  <2>2. 1 \in 1..(n + 1)
    BY <1>1
  <2>3. QED
    BY <1>3, <2>1, <2>2
<1>5. \A i \in 1..(n + 1) : i = 1 \/ \E j \in 1..n : i = j + 1
  <2>1. ASSUME NEW i \in 1..(n + 1), i # 1 PROVE i - 1 \in 1..n /\ i = (i - 1) + 1
    BY <1>1, <2>1
  <2>2. QED
    BY <2>1
<1>6. Items(s) = {s[i] : i \in 1..n}
  BY <1>1 DEF Items
<1>7. s # <<>> <=> n # 0
  BY <1>1
<1>8. n # 0 => Head(s) = s[1] /\ 1 \in 1..n
  BY <1>1
<1> DEFINE R(g) == rank[ClassOf[g.inst]]
<1>9. Ordered(rank, s) <=> \A i, j \in 1..n : i < j /\ s[j].kind = "merge" => R(s[i]) < R(s[j])
  BY <1>1 DEF Ordered
<1>10. Ordered(rank, t)
         <=> \A i, j \in 1..(n + 1) : i < j /\ t[j].kind = "merge" => R(t[i]) < R(t[j])
  BY <1>3 DEF Ordered
<1>11. Linked(s) <=> \A i, j \in 1..n : j = i + 1 /\ s[j].kind = "merge"
                                           => obj[s[j].inst].ref = s[i].inst
  BY <1>1 DEF Linked
<1>12. Linked(t) <=> \A i, j \in 1..(n + 1) : j = i + 1 /\ t[j].kind = "merge"
                                           => obj[t[j].inst].ref = t[i].inst
  BY <1>3 DEF Linked
<1> HIDE DEF R
<1>13. ASSUME Ordered(rank, t)
       PROVE  Ordered(rank, s) /\ \A g \in Items(s) : g.kind = "merge" => R(f) < R(g)
  <2>1. ASSUME NEW i \in 1..n, NEW j \in 1..n, i < j, s[j].kind = "merge" PROVE R(s[i]) < R(s[j])
    <3>1. i + 1 < j + 1
      BY <2>1
    <3>2. QED
      BY <1>4, <1>10, <1>13, <2>1, <3>1
  <2>2. ASSUME NEW j \in 1..n, s[j].kind = "merge" PROVE R(f) < R(s[j])
    <3>1. 1 < j + 1
      OBVIOUS
    <3>2. QED
      BY <1>4, <1>10, <1>13, <2>2, <3>1
  <2>3. QED
    BY <1>6, <1>9, <2>1, <2>2
<1>14. ASSUME Ordered(rank, s), \A g \in Items(s) : g.kind = "merge" => R(f) < R(g)
       PROVE  Ordered(rank, t)
  <2>1. ASSUME NEW i \in 1..(n + 1), NEW j \in 1..(n + 1), i < j, t[j].kind = "merge"
        PROVE  R(t[i]) < R(t[j])
    <3>1. PICK b \in 1..n : j = b + 1
      BY <1>5, <2>1
    <3>2. t[j] = s[b] /\ s[b] \in Items(s)
      BY <1>4, <1>6, <3>1
    <3>3. CASE i = 1
      BY <1>4, <1>14, <2>1, <3>2, <3>3
    <3>4. ASSUME NEW a \in 1..n, i = a + 1 PROVE R(t[i]) < R(t[j])
      <4>1. a < b
        BY <2>1, <3>1, <3>4
      <4>2. t[i] = s[a]
        BY <1>4, <3>4
      <4>3. QED
        BY <1>9, <1>14, <2>1, <3>2, <4>1, <4>2
    <3>5. QED
      BY <1>5, <3>3, <3>4
  <2>2. QED
    BY <1>10, <2>1
<1>15. ASSUME Linked(t)
       PROVE  Linked(s) /\ (s # <<>> /\ Head(s).kind = "merge" => obj[Head(s).inst].ref = f.inst)
  <2>1. ASSUME NEW i \in 1..n, NEW j \in 1..n, j = i + 1, s[j].kind = "merge"
        PROVE  obj[s[j].inst].ref = s[i].inst
    <3>1. j + 1 = (i + 1) + 1
      BY <2>1
    <3>2. QED
      BY <1>4, <1>12, <1>15, <2>1, <3>1
  <2>2. ASSUME n # 0, s[1].kind = "merge" PROVE obj[s[1].inst].ref = f.inst
    BY <1>4, <1>8, <1>12, <1>15, <2>2
  <2>3. QED
    BY <1>7, <1>8, <1>11, <2>1, <2>2
<1>16. ASSUME Linked(s), s # <<>> /\ Head(s).kind = "merge" => obj[Head(s).inst].ref = f.inst
       PROVE  Linked(t)
  <2>1. ASSUME NEW i \in 1..(n + 1), NEW j \in 1..(n + 1), j = i + 1, t[j].kind = "merge"
        PROVE  obj[t[j].inst].ref = t[i].inst
    <3>1. i \in 1..n /\ t[j] = s[i]
      BY <1>4, <2>1
    <3>2. CASE i = 1
      BY <1>4, <1>7, <1>8, <1>16, <2>1, <3>1, <3>2
    <3>3. ASSUME NEW a \in 1..n, i = a + 1 PROVE obj[t[j].inst].ref = t[i].inst
      BY <1>4, <1>11, <1>16, <2>1, <3>1, <3>3
    <3>4. QED
      BY <1>5, <3>2, <3>3
  <2>2. QED
    BY <1>12, <2>1
<1>17. OnTop(rank, f, s) <=> /\ \A g \in Items(s) : g.kind = "merge" => R(f) < R(g)
                             /\ s # <<>> /\ Head(s).kind = "merge" => obj[Head(s).inst].ref = f.inst
  BY DEF OnTop, R
<1>18. QED
  BY <1>2, <1>13, <1>14, <1>15, <1>16, <1>17 DEF Chain

\* Only the instance of a frame counts.
LEMMA OnTopSame ==
    ASSUME NEW rank, NEW f, NEW g, NEW s, f.inst = g.inst, OnTop(rank, f, s)
    PROVE  OnTop(rank, g, s)
BY DEF OnTop

LEMMA EmptyChain ==
    ASSUME NEW rank PROVE Chain(rank, <<>>) /\ \A f : OnTop(rank, f, <<>>)
BY NoItems DEF Chain, Ordered, Linked, OnTop

\* No call goes on.
LEMMA NoCall ==
    ASSUME NEW rank, reading' = NoReading => stack' = <<>>
    PROVE  CInv(rank)' /\ MergedIsInTable'
<1>1. CASE reading' = NoReading
  <2>1. stack' = <<>>
    BY <1>1
  <2>2. Chain(rank, stack)' /\ Items(stack') = {}
    BY <2>1, NoItems DEF Chain, Ordered, Linked
  <2>3. QED
    BY <2>1, <2>2 DEF CInv, MergedIsInTable, StepsOf
<1>2. CASE reading' # NoReading
  BY <1>2 DEF CInv, MergedIsInTable, StepsOf
<1>3. QED
  BY <1>1, <1>2

\* The call goes on with frame f on top of rest.
LEMMA ChainGoesOn ==
    ASSUME IInv, NEW rank, NEW f \in Frame, NEW rest \in Seq(Frame), stack' = <<f>> \o rest,
           Chain(rank, rest), OnTop(rank, f, rest), \A g \in Items(rest) : FrameKnows(g),
           \A p \in Objects : obj'[p].ref = obj[p].ref /\ (Contains(cache, p) => Contains(cache', p)),
           f.kind = "merge" /\ (f.op = "Update" \/ (f.pc = "return" /\ f.result))
               => Contains(cache', f.inst),
           f.kind = "merge" /\ f.pc = "execute" /\ obj[f.inst].ref # NoInstance
               => Contains(cache', obj[f.inst].ref)
    PROVE  CInv(rank)'
<1>1. PICK t : t = <<f>> \o rest
  OBVIOUS
<1>2. t \in Seq(Frame) /\ Head(t) = f /\ Items(t) = {f} \cup Items(rest) /\ stack' = t
  BY <1>1, Cons, ItemsCons
<1>3. Ordered(rank, t) /\ Linked(t)
  BY <1>1, ChainCons DEF Chain
<1>4. \A i \in 1..Len(t) : t[i].inst \in Objects
  <2>1. \A i \in 1..Len(t) : t[i] \in Frame
    BY <1>2
  <2>2. QED
    BY <2>1 DEF Frame
<1>5. Linked(stack)'
  BY <1>2, <1>3, <1>4 DEF Linked
<1>6. Chain(rank, stack)'
  BY <1>2, <1>3, <1>5 DEF Chain, Ordered
<1>7. ASSUME NEW g \in Items(t) PROVE FrameKnows(g)'
  <2>1. CASE g = f
    BY <2>1 DEF FrameKnows
  <2>2. CASE g \in Items(rest)
    <3>1. FrameKnows(g) /\ g \in Frame
      BY <2>2, ItemsTyped
    <3>2. g.inst \in Objects
      BY <3>1 DEF Frame
    <3>3. QED
      BY <3>1, <3>2 DEF FrameKnows
  <2>3. QED
    BY <1>2, <2>1, <2>2
<1>8. Top' = f
  BY <1>2 DEF Top
<1>9. f.inst \in Objects
  BY DEF Frame
<1>10. QED
  BY <1>2, <1>6, <1>7, <1>8, <1>9 DEF CInv

\* What the chain says of a step of a running call.
LEMMA ChainSplit ==
    ASSUME IInv, StepsOf, NEW rank, CInv(rank), NEW rest, rest = Tail(stack)
    PROVE  /\ Chain(rank, rest) /\ OnTop(rank, Top, rest)
           /\ FrameKnows(Top) /\ \A g \in Items(rest) : FrameKnows(g)
           /\ Top.kind = "merge" /\ Top.pc = "execute" /\ obj[Top.inst].ref # NoInstance
                  => Contains(cache, obj[Top.inst].ref)
<1>1. stack \in Seq(Frame) /\ stack # <<>> /\ reading = NoReading
  BY DEF StepsOf, IInv, TypeOK
<1>2. /\ Top \in Frame /\ rest \in Seq(Frame) /\ stack = <<Top>> \o rest
      /\ Items(stack) = {Top} \cup Items(rest)
  BY <1>1, Split, ItemsSplit DEF Top
<1>3. Chain(rank, rest) /\ OnTop(rank, Top, rest)
  BY <1>1, <1>2, ChainCons DEF CInv
<1>4. QED
  BY <1>1, <1>2, <1>3 DEF CInv

\* An unmodified instance is what its row is: nothing is being rolled back.
LEMMA EnterVInv ==
    ASSUME IInv, TInv, DInv, NEW rank, NEW o \in Objects, NEW rest \in Seq(Frame), Enter(o, rest),
           o \notin merging, reading = NoReading, UNCHANGED <<obj, cache, db, undone, reading>>,
           Chain(rank, rest), \A g \in Items(rest) : FrameKnows(g),
           \A f \in Frame : f.inst = o => OnTop(rank, f, rest)
    PROVE  CInv(rank)' /\ MergedIsInTable'
<1>1. PICK f : f = NewFrame(o)
  OBVIOUS
<1>2. /\ f \in Frame /\ f.kind = "merge" /\ f.inst = o /\ f.pc \in {"refs", "return"}
      /\ f.op = "Update" => Contains(cache, o)
      /\ f.pc = "return" => Contains(cache, o) /\ ~IsModified(cache, o)
  BY <1>1 DEF NewFrame, Frame
<1>3. stack' = <<f>> \o rest
  BY <1>1 DEF Enter
<1>4. CInv(rank)'
  <2>1. OnTop(rank, f, rest)
    BY <1>2
  <2>2. f.kind = "merge" /\ (f.op = "Update" \/ (f.pc = "return" /\ f.result))
            => Contains(cache', f.inst)
    BY <1>2
  <2>3. f.pc # "execute"
    BY <1>2
  <2>4. QED
    BY <1>2, <1>3, <2>1, <2>2, <2>3, ChainGoesOn
<1>5. Top' = f
  BY <1>2, <1>3, Cons DEF Top
<1>6. ASSUME f.pc = "return", KeyOf(o) \notin undone, o \in cache.connected
      PROVE  RowExists(KeyOf(o)) /\ db.rows[KeyOf(o)] = RowOf(o)
  <2>1. Contains(cache, o) /\ o \notin cache.modified
    BY <1>2, <1>6 DEF IsModified
  <2>2. Known(o) /\ Kept(o) /\ KeyOf(o) \in Keys
    BY <1>6, <2>1, CachedFacts DEF Known, Kept
  <2>3. ~Pending(o)
    BY NonePending DEF NoReading
  <2>4. /\ db.rows[KeyOf(o)] # NoRow /\ db.rows[KeyOf(o)].ref = RefId(o)
        /\ db.rows[KeyOf(o)].val = obj[o].val
    BY <2>1, <2>2, <2>3 DEF DInv, KeptOK, ExistOK, DbOK
  <2>5. db.rows[KeyOf(o)] \in Rows
    BY <2>2, <2>4, Facts
  <2>6. QED
    BY <2>2, <2>4, <2>5 DEF RowExists, RowOf, Rows
<1>7. MergedIsInTable'
  <2>1. KeyOf(o)' = KeyOf(o) /\ RowOf(o)' = RowOf(o) /\ (RowExists(KeyOf(o))' <=> RowExists(KeyOf(o)))
    BY DEF KeyOf, RowOf, RefId, RowExists
  <2>2. QED
    BY <1>2, <1>5, <1>6, <2>1 DEF MergedIsInTable
<1>8. QED
  BY <1>4, <1>7

\* A frame returns to the one below it.
LEMMA PopVInv ==
    ASSUME IInv, DInv, NEW rank, CInv(rank), StepsOf, NEW result \in BOOLEAN, Pop(result),
           UNCHANGED <<obj, cache>>,
           Top.kind = "merge" => Top.pc = "return" /\ (result <=> Top.result)
    PROVE  CInv(rank)' /\ MergedIsInTable'
<1>1. PICK rest : rest = Tail(stack)
  OBVIOUS
<1>2. /\ rest \in Seq(Frame) /\ Waiting(rest) /\ MayTop(Top, rest) /\ Top \in Frame
  BY <1>1, InCall
<1>3. /\ Chain(rank, rest) /\ OnTop(rank, Top, rest)
      /\ FrameKnows(Top) /\ \A g \in Items(rest) : FrameKnows(g)
  BY <1>1, ChainSplit
<1>4. CASE rest = <<>>
  <2>1. stack' = <<>>
    BY <1>1, <1>4 DEF Pop
  <2>2. QED
    BY <2>1, NoCall
<1>5. CASE rest # <<>>
  <2>1. PICK h \in Frame : h = Head(rest)
    BY <1>2, <1>5, Split
  <2>2. PICK s : s = Tail(rest)
    OBVIOUS
  <2>3. s \in Seq(Frame) /\ rest = <<h>> \o s /\ Items(rest) = {h} \cup Items(s)
    BY <1>2, <1>5, <2>1, <2>2, Split, ItemsSplit
  <2>4. h.pc = "execute" /\ h.inst \in Objects
    BY <1>2, <1>5, <2>1, WaitingSplit DEF Frame
  <2>5. Chain(rank, s) /\ OnTop(rank, h, s) /\ FrameKnows(h) /\ \A g \in Items(s) : FrameKnows(g)
    BY <1>3, <2>3, ChainCons
  <2>6. Top.kind = "merge"
    BY <1>2, <1>5 DEF MayTop, Frame
  <2>7. CASE result
    <3>1. stack' = <<h>> \o s
      BY <1>1, <1>5, <2>3, <2>7 DEF Pop
    <3>2. Contains(cache, Top.inst)
      BY <1>3, <2>6, <2>7 DEF FrameKnows
    <3>3. h.kind = "merge" => obj[h.inst].ref = Top.inst
      BY <1>3, <1>5, <2>1 DEF OnTop
    <3>4. h.kind = "merge" /\ (h.op = "Update" \/ (h.pc = "return" /\ h.result))
              => Contains(cache', h.inst)
      BY <2>5 DEF FrameKnows
    <3>5. CInv(rank)'
      BY <2>3, <2>5, <3>1, <3>2, <3>3, <3>4, ChainGoesOn
    <3>6. Top' = h
      BY <2>3, <3>1, Cons DEF Top
    <3>7. QED
      BY <2>4, <3>5, <3>6 DEF MergedIsInTable
  <2>8. CASE ~result
    <3>1. PICK g : g = [h EXCEPT !.pc = "return", !.result = FALSE]
      OBVIOUS
    <3>2. stack' = <<g>> \o s
      BY <1>1, <1>5, <2>1, <2>2, <2>8, <3>1 DEF Pop
    <3>3. /\ g \in Frame /\ g.inst = h.inst /\ g.kind = h.kind /\ g.op = h.op
          /\ g.pc = "return" /\ g.result = FALSE
      BY <3>1 DEF Frame
    <3>4. OnTop(rank, g, s)
      BY <2>5, <3>3, OnTopSame
    <3>5. g.kind = "merge" /\ (g.op = "Update" \/ (g.pc = "return" /\ g.result))
              => Contains(cache', g.inst)
      BY <2>5, <3>3 DEF FrameKnows
    <3>6. CInv(rank)'
      BY <2>3, <2>5, <3>2, <3>3, <3>4, <3>5, ChainGoesOn
    <3>7. Top' = g
      BY <2>3, <3>2, <3>3, Cons DEF Top
    <3>8. QED
      BY <3>3, <3>6, <3>7 DEF MergedIsInTable
  <2>9. QED
    BY <2>7, <2>8
<1>6. QED
  BY <1>4, <1>5

LEMMA MergeVInv ==
    ASSUME IInv, TInv, DInv, NEW rank, NEW o \in Objects,
           Merge(o) \/ \E p \in Objects : MergeMany(o, p)
    PROVE  CInv(rank)' /\ MergedIsInTable'
<1>1. <<>> \in Seq(Frame) /\ Items(<<>>) = {}
  BY NoItems
<1>2. CASE Merge(o)
  <2>1. reading = NoReading /\ merging = {}
    BY <1>2, BetweenCalls DEF Merge
  <2>2. Enter(o, <<>>) /\ UNCHANGED <<obj, cache, db, undone, reading>>
    BY <1>2 DEF Merge
  <2>3. QED
    BY <1>1, <2>1, <2>2, EmptyChain, EnterVInv
<1>3. ASSUME NEW p \in Objects, MergeMany(o, p) PROVE CInv(rank)' /\ MergedIsInTable'
  <2>1. PICK f : f = [kind |-> "many", inst |-> o, queue |-> <<o, p>>, op |-> "Update",
                      pc |-> "execute", engaged |-> TRUE, result |-> TRUE]
    OBVIOUS
  <2>2. <<o, p>> \in Seq(Objects)
    OBVIOUS
  <2>3. f \in Frame /\ f.kind = "many"
    BY <2>1, <2>2 DEF Frame
  <2>4. stack' = <<f>> \o <<>> /\ UNCHANGED <<obj, cache>>
    <3>1. stack' = <<f>> /\ UNCHANGED <<obj, cache>>
      BY <1>3, <2>1 DEF MergeMany
    <3>2. QED
      BY <2>3, <3>1, Front
  <2>5. CInv(rank)'
    BY <1>1, <2>3, <2>4, EmptyChain, ChainGoesOn
  <2>6. Top' = f
    BY <1>1, <2>3, <2>4, Cons DEF Top
  <2>7. QED
    BY <2>3, <2>5, <2>6 DEF MergedIsInTable
<1>4. QED
  BY <1>2, <1>3

\* A referenced instance that is being merged would have to wait for itself.
LEMMA MergeReferencesVInv ==
    ASSUME IInv, TInv, DInv, NEW rank, Acyclic(rank), CInv(rank), MergeReferences
    PROVE  CInv(rank)' /\ MergedIsInTable'
<1>1. PICK rest : rest = Tail(stack)
  OBVIOUS
<1>2. PICK f : f = [Top EXCEPT !.pc = "execute"]
  OBVIOUS
<1>3. PICK r : r = obj[Top.inst].ref
  OBVIOUS
<1>4. /\ StepsOf /\ Top.kind = "merge" /\ Top.pc = "refs"
      /\ IF NeedsMerge(r) THEN Enter(r, <<f>> \o rest) ELSE stack' = <<f>> \o rest
      /\ UNCHANGED <<obj, cache, db, undone, reading>>
  BY <1>1, <1>2, <1>3 DEF MergeReferences
<1>5. /\ Top \in Frame /\ rest \in Seq(Frame) /\ reading = NoReading
      /\ merging = Merged(rest) \cup {Top.inst} /\ FrameFits(Top, Living, Cached(cache))
  BY <1>1, <1>4, InCall
<1>6. /\ Chain(rank, rest) /\ OnTop(rank, Top, rest)
      /\ FrameKnows(Top) /\ \A g \in Items(rest) : FrameKnows(g)
  BY <1>1, <1>4, ChainSplit
<1>7. /\ f \in Frame /\ f.inst = Top.inst /\ f.kind = "merge" /\ f.op = Top.op
      /\ f.pc = "execute"
  BY <1>2, <1>4, <1>5 DEF Frame
<1>8. Top.inst \in Objects /\ Alive(Top.inst)
  BY <1>4, <1>5 DEF Frame, FrameFits, Living
<1>9. OnTop(rank, f, rest) /\ (f.op = "Update" => Contains(cache', f.inst)) /\ FrameKnows(f)
  BY <1>4, <1>6, <1>7, OnTopSame DEF FrameKnows
<1>10. ASSUME r # NoInstance
       PROVE  /\ r \in Objects /\ rank[ClassOf[r]] < rank[ClassOf[Top.inst]]
              /\ \A o \in Objects : rank[ClassOf[o]] \in Nat
  <2>1. r \in Objects /\ ClassOf[r] = RefClass[ClassOf[Top.inst]]
    BY <1>3, <1>8, <1>10, CachedFacts DEF DInv, LinksOK, RefTyped
  <2>2. ClassOf[r] \in Classes /\ ClassOf[Top.inst] \in Classes /\ ClassOf[r] # NoClass
    BY <1>8, <2>1, ClassAssumption
  <2>3. \A o \in Objects : ClassOf[o] \in Classes
    BY ClassAssumption
  <2>4. QED
    BY <2>1, <2>2, <2>3 DEF Acyclic
<1>11. \A g \in Items(rest) : g \in Frame /\ g.inst \in Objects
  <2>1. Items(rest) \subseteq Frame
    BY <1>5, ItemsTyped
  <2>2. QED
    BY <2>1 DEF Frame
<1>12. ASSUME r # NoInstance, NEW g \in Items(rest), g.kind = "merge"
       PROVE  rank[ClassOf[r]] < rank[ClassOf[g.inst]]
  <2>1. rank[ClassOf[Top.inst]] < rank[ClassOf[g.inst]]
    BY <1>6, <1>12 DEF OnTop
  <2>2. g.inst \in Objects
    BY <1>11
  <2>3. QED
    BY <1>8, <1>10, <1>12, <2>1, <2>2
<1>13. CASE NeedsMerge(r)
  <2>1. r # NoInstance /\ r \notin merging /\ Enter(r, <<f>> \o rest)
    BY <1>4, <1>13 DEF NeedsMerge
  <2>2. PICK s : s = <<f>> \o rest
    OBVIOUS
  <2>3. s \in Seq(Frame) /\ Head(s) = f /\ Items(s) = {f} \cup Items(rest)
    BY <1>5, <1>7, <2>2, Cons, ItemsCons
  <2>4. Chain(rank, s)
    BY <1>5, <1>6, <1>7, <1>9, <2>2, ChainCons
  <2>5. ASSUME NEW g \in Frame, g.inst = r PROVE OnTop(rank, g, s)
    <3>1. rank[ClassOf[r]] < rank[ClassOf[f.inst]]
      BY <1>7, <1>10, <2>1
    <3>2. \A e \in Items(s) : e.kind = "merge" => rank[ClassOf[r]] < rank[ClassOf[e.inst]]
      BY <1>12, <2>1, <2>3, <3>1
    <3>3. obj[f.inst].ref = r
      BY <1>3, <1>7
    <3>4. QED
      BY <2>3, <2>5, <3>2, <3>3 DEF OnTop
  <2>6. QED
    BY <1>4, <1>5, <1>6, <1>9, <1>10, <2>1, <2>2, <2>3, <2>4, <2>5, EnterVInv
<1>14. CASE ~NeedsMerge(r)
  <2>1. stack' = <<f>> \o rest
    BY <1>4, <1>14
  <2>2. ASSUME r # NoInstance PROVE Contains(cache, r)
    <3>1. r \in merging => FALSE
      <4>1. CASE r = Top.inst
        BY <1>10, <2>2, <4>1
      <4>2. ASSUME NEW i \in MergeAt(rest), r = rest[i].inst PROVE FALSE
        <5>1. rest[i] \in Items(rest) /\ rest[i].kind = "merge"
          BY DEF MergeAt, Items
        <5>2. rank[ClassOf[r]] < rank[ClassOf[r]]
          BY <1>12, <2>2, <4>2, <5>1
        <5>3. QED
          BY <1>10, <2>2, <5>2
      <4>3. QED
        BY <1>5, <4>1, <4>2 DEF Merged
    <3>2. QED
      BY <1>14, <2>2, <3>1 DEF NeedsMerge
  <2>3. f.kind = "merge" /\ f.pc = "execute" /\ obj[f.inst].ref # NoInstance
            => Contains(cache', obj[f.inst].ref)
    BY <1>3, <1>4, <1>7, <2>2
  <2>4. f.pc # "return"
    BY <1>7
  <2>5. \A p \in Objects : obj'[p].ref = obj[p].ref /\ (Contains(cache, p) => Contains(cache', p))
    BY <1>4
  <2>6. CInv(rank)'
    BY <1>5, <1>6, <1>7, <1>9, <2>1, <2>3, <2>4, <2>5, ChainGoesOn
  <2>7. Top' = f
    BY <1>5, <1>7, <2>1, Cons DEF Top
  <2>8. QED
    BY <1>7, <2>6, <2>7 DEF MergedIsInTable
<1>15. QED
  BY <1>13, <1>14

LEMMA MergeNextVInv ==
    ASSUME IInv, TInv, DInv, NEW rank, CInv(rank), MergeNext
    PROVE  CInv(rank)' /\ MergedIsInTable'
<1>1. PICK rest : rest = Tail(stack)
  OBVIOUS
<1>2. PICK f : f = [Top EXCEPT !.queue = Tail(@)]
  OBVIOUS
<1>3. PICK o : o = Head(Top.queue)
  OBVIOUS
<1>4. /\ StepsOf /\ Top.kind = "many" /\ Top.queue # <<>> /\ Enter(o, <<f>> \o rest)
      /\ UNCHANGED <<obj, cache, db, undone, reading>>
  BY <1>1, <1>2, <1>3 DEF MergeNext
<1>5. /\ Top \in Frame /\ rest = <<>> /\ reading = NoReading /\ merging = Merged(rest)
      /\ rest \in Seq(Frame)
  BY <1>1, <1>4, InCall DEF MayTop
<1>6. Top.queue \in Seq(Objects)
  BY <1>5 DEF Frame
<1>7. o \in Objects /\ Tail(Top.queue) \in Seq(Objects)
  BY <1>3, <1>4, <1>6, Split
<1>8. f \in Frame /\ f.kind = "many"
  BY <1>2, <1>4, <1>5, <1>7 DEF Frame
<1>9. PICK s : s = <<f>> \o rest
  OBVIOUS
<1>10. s \in Seq(Frame) /\ Head(s) = f /\ Items(s) = {f}
  <2>0. <<f>> \o rest \in Seq(Frame) /\ Head(<<f>> \o rest) = f
    BY <1>5, <1>8, Cons
  <2>1. s \in Seq(Frame) /\ Head(s) = f /\ Items(s) = {f} \cup Items(rest)
    <3>1. Items(<<f>> \o rest) = {f} \cup Items(rest)
      BY <1>5, <1>8, ItemsCons
    <3>2. QED
      BY <1>9, <2>0, <3>1
  <2>2. Items(rest) = {}
    BY <1>5, NoItems
  <2>3. QED
    BY <2>1, <2>2
<1>11. Chain(rank, s)
  BY <1>5, <1>8, <1>9, EmptyChain, ChainCons
<1>12. \A g : OnTop(rank, g, s)
  BY <1>8, <1>10 DEF OnTop
<1>13. \A g \in Items(s) : FrameKnows(g)
  BY <1>8, <1>10 DEF FrameKnows
<1>14. o \notin merging
  BY <1>5, Nothing
<1>15. QED
  BY <1>4, <1>5, <1>7, <1>9, <1>10, <1>11, <1>12, <1>13, <1>14, EnterVInv

LEMMA FailsVInv ==
    ASSUME IInv, DInv, NEW rank, CInv(rank), UpdateMisses \/ StatementFails
    PROVE  CInv(rank)' /\ MergedIsInTable'
<1>1. PICK rest : rest = Tail(stack)
  OBVIOUS
<1>2. PICK f : f = [Top EXCEPT !.pc = "return", !.result = FALSE]
  OBVIOUS
<1>3. /\ StepsOf /\ Top.kind = "merge" /\ stack' = <<f>> \o rest /\ UNCHANGED <<obj, cache>>
  BY <1>1, <1>2 DEF UpdateMisses, StatementFails, Fails
<1>4. Top \in Frame /\ rest \in Seq(Frame)
  BY <1>1, <1>3, InCall
<1>5. /\ f \in Frame /\ f.inst = Top.inst /\ f.kind = "merge" /\ f.op = Top.op
      /\ f.pc = "return" /\ f.result = FALSE
  BY <1>2, <1>3, <1>4 DEF Frame
<1>6. /\ Chain(rank, rest) /\ OnTop(rank, Top, rest)
      /\ FrameKnows(Top) /\ \A g \in Items(rest) : FrameKnows(g)
  BY <1>1, <1>3, ChainSplit
<1>7. OnTop(rank, f, rest) /\ (f.op = "Update" => Contains(cache', f.inst))
  BY <1>3, <1>5, <1>6, OnTopSame DEF FrameKnows
<1>8. CInv(rank)'
  BY <1>3, <1>4, <1>5, <1>6, <1>7, ChainGoesOn
<1>9. Top' = f
  BY <1>3, <1>4, <1>5, Cons DEF Top
<1>10. QED
  BY <1>5, <1>8, <1>9 DEF MergedIsInTable

LEMMA WrittenVInv ==
    ASSUME IInv, DInv, NEW rank, CInv(rank), StepsOf, Top.kind = "merge",
           NEW o \in Objects, Written(o)
    PROVE  CInv(rank)' /\ MergedIsInTable'
<1>1. PICK rest : rest = Tail(stack)
  OBVIOUS
<1>2. PICK f : f = [Top EXCEPT !.pc = "return", !.engaged = FALSE]
  OBVIOUS
<1>3. stack' = <<f>> \o rest
  BY <1>1, <1>2 DEF Written
<1>4. Top \in Frame /\ rest \in Seq(Frame)
  BY <1>1, InCall
<1>5. f \in Frame /\ f.inst = Top.inst /\ f.kind = "merge" /\ f.pc = "return"
  BY <1>2, <1>4 DEF Frame
<1>6. /\ Chain(rank, rest) /\ OnTop(rank, Top, rest) /\ \A g \in Items(rest) : FrameKnows(g)
  BY <1>1, ChainSplit
<1>7. OnTop(rank, f, rest)
  BY <1>5, <1>6, OnTopSame
<1>8. CInv(rank)'
  BY <1>3, <1>4, <1>5, <1>6, <1>7, ChainGoesOn DEF Written
<1>9. Top' = f
  BY <1>3, <1>4, <1>5, Cons DEF Top
<1>10. QED
  BY <1>5, <1>8, <1>9 DEF MergedIsInTable, Written

LEMMA ReturnsVInv ==
    ASSUME IInv, DInv, NEW rank, CInv(rank),
           MergeReturns \/ MergeManyCommits \/ MergeManyRollsBack
    PROVE  CInv(rank)' /\ MergedIsInTable'
<1>1. StepsOf /\ UNCHANGED <<obj, cache>>
  BY DEF MergeReturns, MergeManyCommits, MergeManyRollsBack
<1>2. Top.result \in BOOLEAN
  <2>1. PICK rest : rest = Tail(stack)
    OBVIOUS
  <2>2. Top \in Frame
    BY <1>1, <2>1, InCall
  <2>3. QED
    BY <2>2 DEF Frame
<1>3. CASE \E list : RollsBackOuter(list)
  <2>1. reading' # NoReading
    BY <1>3 DEF RollsBackOuter, NoReading
  <2>2. QED
    BY <2>1, NoCall
<1>4. CASE MergeReturns /\ Pop(Top.result)
  BY <1>1, <1>2, <1>4, PopVInv DEF MergeReturns
<1>5. CASE MergeManyCommits
  <2>1. Pop(TRUE) /\ Top.kind = "many"
    BY <1>5 DEF MergeManyCommits
  <2>2. QED
    BY <1>1, <2>1, PopVInv
<1>6. CASE MergeManyRollsBack /\ Pop(FALSE)
  <2>1. Top.kind = "many"
    BY <1>6 DEF MergeManyRollsBack
  <2>2. QED
    BY <1>1, <1>6, <2>1, PopVInv
<1>7. QED
  BY <1>3, <1>4, <1>5, <1>6 DEF MergeReturns, MergeManyRollsBack

-----------------------------------------------------------------------------
(* The invariant holds.                                                    *)

LEMMA InitVInv == ASSUME Init, NEW rank PROVE VInv(rank)
<1>1. /\ obj = [o \in Objects |-> NoObject] /\ cache = EmptyCache /\ saved = db /\ fills = <<>>
      /\ db = [rows |-> [k \in Keys |-> NoRow], seq |-> [c \in Classes |-> 0]]
      /\ stack = <<>> /\ Items(<<>>) = {}
  BY NoItems DEF Init
<1>2. \A o \in Objects : ~Contains(cache, o) /\ o \notin cache.connected /\ obj[o].ref = NoInstance
  BY <1>1, EmptyTyped DEF EmptyCache, Contains, NoObject
<1>3. LinksOK
  BY <1>2 DEF LinksOK, ConnectedOK, RefTyped, RefCached
<1>4. SeqOK
  <2>1. \A k \in Keys : k[1] \in Classes
    BY DEF Keys
  <2>2. QED
    BY <1>1, <2>1 DEF SeqOK
<1>5. KeptOK
  BY <1>2 DEF KeptOK, ExistOK, DbOK, SvOK, Kept, Known
<1>6. UncachedSame /\ BlankOK
  BY <1>1 DEF UncachedSame, BlankOK, Apart
<1>7. CInv(rank) /\ MergedIsInTable
  BY <1>1, EmptyChain DEF CInv, MergedIsInTable, StepsOf
<1>8. QED
  BY <1>3, <1>4, <1>5, <1>6, <1>7 DEF VInv, DInv

LEMMA NextVInv ==
    ASSUME IInv, TInv, IInv', "relink" \notin Api, NEW rank, Acyclic(rank), VInv(rank), [Next]_vars
    PROVE  VInv(rank)'
<1>0. DInv /\ CInv(rank) /\ MergedIsInTable
  BY DEF VInv
<1>1. CASE UNCHANGED vars
  <2>1. DInv'
    BY <1>0, <1>1, SameDInv DEF vars
  <2>2. CInv(rank)'
    BY <1>0, <1>1 DEF vars, CInv, Chain, Ordered, Linked, FrameKnows, Top
  <2>3. MergedIsInTable'
    BY <1>0, <1>1 DEF vars, MergedIsInTable, StepsOf, Top, KeyOf, RowExists, RowOf, RefId
  <2>4. QED
    BY <2>1, <2>2, <2>3 DEF VInv
<1>2. CASE Client
  <2>1. ASSUME NEW o \in Objects,
               \/ New(o) \/ Delete(o) \/ Merge(o) \/ Remove(o) \/ RemoveFails(o)
               \/ \E v \in Vals : SetVal(o, v)
               \/ \E p \in Objects \cup {NoInstance} : SetRef(o, p)
               \/ \E p \in Objects : MergeMany(o, p)
        PROVE  DInv' /\ CInv(rank)' /\ MergedIsInTable'
    <3>1. DInv'
      BY <1>0, <2>1, NewDInv, DeleteDInv, RemoveDInv, SetValDInv, SetRefDInv, CallStepsDInv
    <3>2. CASE Merge(o) \/ \E p \in Objects : MergeMany(o, p)
      BY <1>0, <3>1, <3>2, MergeVInv
    <3>3. CASE \/ New(o) \/ Delete(o) \/ Remove(o) \/ RemoveFails(o)
               \/ \E v \in Vals : SetVal(o, v)
               \/ \E p \in Objects \cup {NoInstance} : SetRef(o, p)
      <4>1. Idle /\ stack' = stack
        BY <3>3 DEF New, Delete, Remove, RemoveFails, SetVal, SetRef, sessionVars
      <4>2. stack' = <<>>
        BY <4>1, BetweenCalls
      <4>3. QED
        BY <3>1, <4>2, NoCall
    <3>4. QED
      BY <2>1, <3>2, <3>3
  <2>2. ASSUME \/ \E c \in Classes : Select(c) \/ \E v \in Vals : RemoveWhere(c, v)
               \/ BeginTransaction \/ CommitTransaction \/ RollbackTransaction \/ Reopen
        PROVE  DInv' /\ CInv(rank)' /\ MergedIsInTable'
    <3>1. DInv'
      BY <1>0, <2>2, RemoveWhereDInv, CallStepsDInv, CommitStepsDInv, RollbackStepsDInv, ReopenDInv
    <3>2. Idle /\ stack' = stack
      BY <2>2 DEF Select, RemoveWhere, BeginTransaction, CommitTransaction, RollbackTransaction, Reopen
    <3>3. stack' = <<>>
      BY <3>2, BetweenCalls
    <3>4. QED
      BY <3>1, <3>3, NoCall
  <2>3. QED
    BY <1>2, <2>1, <2>2 DEF Client, VInv
<1>3. ASSUME \E why : why # "no" /\ fatal' = why /\ UNCHANGED <<obj, cache, stack, reading>>
      PROVE  CInv(rank)' /\ MergedIsInTable'
  <2>1. CInv(rank)'
    BY <1>0, <1>3 DEF CInv, Chain, Ordered, Linked, FrameKnows, Top
  <2>2. QED
    BY <1>3, <2>1 DEF MergedIsInTable, StepsOf
<1>4. CASE \/ FillStatementFails \/ RereadFails \/ SelectUnsynchronized \/ SelectEnds
           \/ CrossReferenceFatal \/ FillModifiedFatal \/ FillDanglingFatal \/ RereadDangling
  <2>1. DInv'
    BY <1>0, <1>4, ReadEndsDInv
  <2>2. CASE SelectUnsynchronized \/ SelectEnds \/ (FillStatementFails /\ reading.why = "select")
    <3>1. stack = <<>> /\ stack' = stack
      BY <2>2, InSelect DEF SelectUnsynchronized, SelectEnds, FillStatementFails, ReadFails,
                            ReadFatal, Reading
    <3>2. QED
      BY <2>1, <3>1, NoCall DEF VInv
  <2>3. CASE \/ RereadFails \/ (FillStatementFails /\ reading.why # "select")
             \/ CrossReferenceFatal \/ FillModifiedFatal \/ FillDanglingFatal \/ RereadDangling
    <3>1. \E why : why # "no" /\ fatal' = why /\ UNCHANGED <<obj, cache, stack, reading>>
      BY <2>3 DEF RereadFails, FillStatementFails, ReadFatal, CrossReferenceFatal,
                  FillModifiedFatal, FillDanglingFatal, RereadDangling, Die
    <3>2. QED
      BY <1>3, <2>1, <3>1 DEF VInv
  <2>4. QED
    BY <1>4, <2>2, <2>3
<1>5. CASE FillNull \/ FillCached \/ FillReads \/ RereadNext \/ SelectNext \/ RollbackEnds
  <2>1. DInv'
    BY <1>0, <1>5, FillDInv, RereadNextDInv, SelectNextDInv, RollbackEndsDInv
  <2>2. reading' = NoReading => stack' = <<>>
    <3>1. CASE RollbackEnds
      <4>1. stack # <<>> => Tail(stack) = <<>>
        BY <3>1 DEF RollbackEnds, Reading, IInv, CallInv, ReadingOK
      <4>2. QED
        BY <3>1, <4>1 DEF RollbackEnds, Pop
    <3>2. CASE FillNull \/ FillCached \/ FillReads
      <4>1. FillSteps /\ reading' = reading
        BY <3>2 DEF FillNull, FillCached, FillReads, FillEnds
      <4>2. QED
        BY <4>1, Filling
    <3>3. CASE RereadNext \/ SelectNext
      <4>0. /\ reading' = [reading EXCEPT !.queue = Tail(@)]
            /\ reading.why = "rollback" \/ reading.why = "select"
        BY <3>3 DEF RereadNext, SelectNext, Reading
      <4>1. reading # NoReading /\ reading' = [reading EXCEPT !.queue = Tail(@)]
        BY <4>0 DEF NoReading
      <4>2. reading.why \in {"rollback", "select"}
        BY <4>1, WhatIsRead
      <4>3. reading'.why = reading.why
        BY <4>1 DEF IInv, TypeOK, Readings
      <4>4. QED
        BY <4>2, <4>3 DEF NoReading
    <3>4. QED
      BY <1>5, <3>1, <3>2, <3>3
  <2>3. QED
    BY <2>1, <2>2, NoCall DEF VInv
<1>6. CASE MergeReferences \/ MergeNext \/ UpdateMisses \/ StatementFails
  <2>1. DInv'
    BY <1>0, <1>6, CallStepsDInv
  <2>2. QED
    BY <1>0, <1>6, <2>1, MergeReferencesVInv, MergeNextVInv, FailsVInv DEF VInv
<1>7. CASE Insertion \/ Update
  <2>1. DInv' /\ \E o \in Objects : Written(o)
    BY <1>0, <1>7, InsertionDInv, UpdateDInv
  <2>2. StepsOf /\ Top.kind = "merge"
    BY <1>7 DEF Insertion, Update
  <2>3. QED
    BY <1>0, <2>1, <2>2, WrittenVInv DEF VInv
<1>8. CASE MergeReturns \/ MergeManyCommits \/ MergeManyRollsBack
  <2>1. DInv'
    BY <1>0, <1>8, MergeReturnsDInv, CommitStepsDInv, RollbackStepsDInv
  <2>2. QED
    BY <1>0, <1>8, <2>1, ReturnsVInv DEF VInv
<1>9. QED
  BY <1>1, <1>2, <1>4, <1>5, <1>6, <1>7, <1>8 DEF Next, Fault, Step

\* Where no class references itself, directly or through others, and a client
\* links its instances before it merges them, a merge that is about to return
\* true has left a row that is what the instance is, however deep the references
\* are nested and whatever has failed or was rolled back before
\* (qormsession.cpp:180-269).
THEOREM MergesLeaveRows ==
    ASSUME "relink" \notin Api, NEW rank, Acyclic(rank)
    PROVE  Spec => []MergedIsInTable
<1>1. Init => IInv /\ TInv /\ VInv(rank)
  BY InitInv, InitTInv, InitVInv
<1>2. IInv /\ TInv /\ VInv(rank) /\ [Next]_vars => (IInv /\ TInv /\ VInv(rank))'
  <2>1. SUFFICES ASSUME IInv, TInv, VInv(rank), [Next]_vars PROVE (IInv /\ TInv /\ VInv(rank))'
    OBVIOUS
  <2>2. IInv' /\ TInv'
    BY <2>1, NextInv, NextTInv
  <2>3. VInv(rank)'
    BY <2>1, <2>2, NextVInv
  <2>4. QED
    BY <2>2, <2>3
<1>3. IInv /\ TInv /\ VInv(rank) => MergedIsInTable
  BY DEF VInv
<1>4. QED
  BY <1>1, <1>2, <1>3, PTL DEF Spec
=============================================================================
