--------------------- MODULE EntityInstanceCacheProofs ---------------------
(***************************************************************************)
(* Theorems about EntityInstanceCache, for any instances and object ids.   *)
(***************************************************************************)
EXTENDS EntityInstanceCache, TLAPS

-----------------------------------------------------------------------------
(* What the operations of the cache do to its four parts.                  *)

LEMMA InsertNew ==
    ASSUME NEW c \in Caches, NEW i \in Instances, NEW k \in Keys, ~Contains(c, i)
    PROVE  /\ Insert(c, i, k) \in Caches
           /\ Insert(c, i, k).ids = [c.ids EXCEPT ![i] = k]
           /\ Insert(c, i, k).byId = [c.byId EXCEPT ![k] = i]
           /\ Insert(c, i, k).modified = c.modified
           /\ Insert(c, i, k).connected = c.connected
BY DEF Caches, Insert

LEMMA TakeCached ==
    ASSUME NEW c \in Caches, NEW i \in Instances
    PROVE  /\ Take(c, i) \in Caches
           /\ Take(c, i).ids = [c.ids EXCEPT ![i] = NoKey]
           /\ Take(c, i).byId =
                [k \in Keys |-> IF k = c.ids[i] THEN NoInstance ELSE c.byId[k]]
           /\ Take(c, i).modified = c.modified \ {i}
           /\ Take(c, i).connected = c.connected
BY DEF Caches, Take

\* The other operations leave the identity map alone.
SameMap(c, d) == d \in Caches /\ d.ids = c.ids /\ d.byId = c.byId

LEMMA MarksOnly ==
    ASSUME NEW c \in Caches, NEW i \in Instances
    PROVE  /\ SameMap(c, Finalize(c, i))
           /\ Finalize(c, i).modified = c.modified
           /\ Finalize(c, i).connected = c.connected \cup {i}
           /\ SameMap(c, MarkUnmodified(c, i))
           /\ MarkUnmodified(c, i).modified = c.modified \ {i}
           /\ MarkUnmodified(c, i).connected = c.connected
           /\ SameMap(c, Notify(c, i))
           /\ Notify(c, i).modified = IF i \in c.connected THEN c.modified \cup {i}
                                                           ELSE c.modified
           /\ Notify(c, i).connected = c.connected
           /\ SameMap(c, Forget(c, i))
           /\ Forget(c, i).modified = c.modified
           /\ Forget(c, i).connected = c.connected \ {i}
BY DEF Caches, SameMap, Finalize, MarkUnmodified, Notify, Forget

LEMMA NotifyMarks ==
    ASSUME NEW c \in Caches, NEW i \in Instances
    PROVE  /\ Notify(c, i) \in Caches
           /\ Notify(c, i).ids = c.ids /\ Notify(c, i).byId = c.byId
           /\ c.modified \subseteq Notify(c, i).modified
           /\ Notify(c, i).connected = c.connected
BY DEF Caches, Notify

LEMMA FinalizeConnects ==
    ASSUME NEW c \in Caches, NEW i \in Instances
    PROVE  /\ SameMap(c, Finalize(c, i))
           /\ Finalize(c, i).modified = c.modified
           /\ Finalize(c, i).connected = c.connected \cup {i}
BY DEF Caches, SameMap, Finalize

LEMMA EmptyIsEmpty ==
    /\ EmptyCache \in Caches
    /\ \A i \in Instances : EmptyCache.ids[i] = NoKey
    /\ \A k \in Keys : EmptyCache.byId[k] = NoInstance
    /\ EmptyCache.modified = {} /\ EmptyCache.connected = {}
BY DEF EmptyCache, Caches

-----------------------------------------------------------------------------
(* The inductive invariant.  The identity map is sound because an object   *)
(* id enters the cache when no cached instance has it: a new row's id was  *)
(* never used, and a row is loaded only when the lookup finds nothing.     *)

IdsUsed == \A i \in Instances : Contains(cache, i) => cache.ids[i] \in used

\* An instance that is not being filled, and whose filling did not fail, is
\* listened to.
Watched ==
    \A i \in Instances : Contains(cache, i) =>
        \/ i \in halfLoaded
        \/ i \in loading /\ i \notin dirty
        \/ i \in cache.connected

\* An object that does not exist has no unsaved changes.
NobodyDirty == \A i \in Instances : holder[i] = Nobody => i \notin dirty

IInv == /\ TypeOK /\ IdentityMap /\ OneInstancePerRow /\ IdsUsed
        /\ Watched /\ NobodyDirty /\ ChangesNoticed

LEMMA InitInv == Init => IInv
BY EmptyIsEmpty, SentinelAssumption, HolderAssumption
   DEF Init, IInv, TypeOK, IdentityMap, OneInstancePerRow, IdsUsed, Watched, NobodyDirty,
       ChangesNoticed, Contains, Cached, Get

\* Steps that change neither the identity map nor who owns an instance of it.
LEMMA MapKept ==
    ASSUME IInv, SameMap(cache, cache'),
           \A i \in Instances : (holder'[i] = Session) <=> (holder[i] = Session)
    PROVE  IdentityMap' /\ OneInstancePerRow' /\ Cached(cache') = Cached(cache)
BY SentinelAssumption
   DEF IInv, TypeOK, Caches, SameMap, IdentityMap, OneInstancePerRow, Contains, Get, Cached

LEMMA NewInv == ASSUME IInv, NEW i \in Instances, New(i) PROVE IInv'
BY HolderAssumption
   DEF IInv, New, TypeOK, IdentityMap, OneInstancePerRow, IdsUsed, Watched, NobodyDirty,
       ChangesNoticed

LEMMA ChangeInv == ASSUME IInv, NEW i \in Instances, Change(i) PROVE IInv'
<1>1. SameMap(cache, cache') /\ cache'.connected = cache.connected
  BY MarksOnly DEF IInv, TypeOK, Change
<1>2. IdentityMap' /\ OneInstancePerRow' /\ Cached(cache') = Cached(cache)
  BY <1>1, MapKept DEF Change
<1>3. TypeOK' /\ IdsUsed' /\ NobodyDirty'
  BY <1>1, <1>2 DEF IInv, TypeOK, IdsUsed, NobodyDirty, Change, SameMap, Contains
<1>4. Watched'
  BY <1>1 DEF IInv, Watched, Change, SameMap, Contains
<1>5. cache'.modified = IF i \in cache.connected THEN cache.modified \cup {i}
                                                  ELSE cache.modified
  BY MarksOnly DEF IInv, TypeOK, Change
<1>6. ChangesNoticed'
  <2>1. \A j \in Instances : Contains(cache', j) <=> Contains(cache, j)
    BY <1>1 DEF SameMap, Contains
  <2>2. ASSUME Contains(cache, i), i \notin halfLoaded PROVE i \in cache'.modified
    BY <1>5, <2>2 DEF IInv, Watched, Change
  <2>3. ASSUME NEW j \in Instances, j # i, j \in dirty \ halfLoaded, Contains(cache, j)
        PROVE  j \in cache'.modified
    BY <1>5, <2>3 DEF IInv, ChangesNoticed, IsModified
  <2> QED
    BY <2>1, <2>2, <2>3 DEF IInv, TypeOK, ChangesNoticed, IsModified, Change
<1> QED
  BY <1>2, <1>3, <1>4, <1>6 DEF IInv

LEMMA DeleteInv == ASSUME IInv, NEW i \in Instances, Delete(i) PROVE IInv'
<1>1. /\ SameMap(cache, cache') /\ cache'.modified = cache.modified
      /\ cache'.connected = cache.connected \ {i}
  BY MarksOnly DEF IInv, TypeOK, Delete
<1>2. ~Contains(cache, i)
  BY HolderAssumption DEF IInv, OneInstancePerRow, Delete
<1>3. IdentityMap' /\ OneInstancePerRow' /\ Cached(cache') = Cached(cache)
  BY <1>1, MapKept, HolderAssumption DEF IInv, TypeOK, Delete
<1>4. TypeOK' /\ IdsUsed' /\ NobodyDirty'
  BY <1>1, <1>3, HolderAssumption
     DEF IInv, TypeOK, IdsUsed, NobodyDirty, Delete, SameMap, Contains
<1>5. Watched' /\ ChangesNoticed'
  BY <1>1, <1>2 DEF IInv, Watched, ChangesNoticed, IsModified, Delete, SameMap, Contains
<1> QED
  BY <1>3, <1>4, <1>5 DEF IInv

LEMMA UpdateInv == ASSUME IInv, NEW i \in Instances, Update(i) PROVE IInv'
<1>1. /\ SameMap(cache, cache') /\ cache'.modified = cache.modified \ {i}
      /\ cache'.connected = cache.connected
  BY MarksOnly DEF IInv, TypeOK, Update
<1>2. IdentityMap' /\ OneInstancePerRow' /\ Cached(cache') = Cached(cache)
  BY <1>1, MapKept DEF Update
<1>3. TypeOK' /\ IdsUsed' /\ NobodyDirty'
  BY <1>1, <1>2 DEF IInv, TypeOK, IdsUsed, NobodyDirty, Update, SameMap, Contains
<1>4. Watched' /\ ChangesNoticed'
  BY <1>1 DEF IInv, Watched, ChangesNoticed, IsModified, Update, SameMap, Contains
<1> QED
  BY <1>2, <1>3, <1>4 DEF IInv

LEMMA LoadEndsInv == ASSUME IInv, NEW i \in Instances, LoadEnds(i) PROVE IInv'
<1>1. /\ SameMap(cache, cache') /\ cache'.modified = cache.modified
      /\ cache'.connected = cache.connected \cup {i}
  BY MarksOnly DEF IInv, TypeOK, LoadEnds
<1>2. IdentityMap' /\ OneInstancePerRow' /\ Cached(cache') = Cached(cache)
  BY <1>1, MapKept DEF LoadEnds
<1>3. TypeOK' /\ IdsUsed' /\ NobodyDirty'
  BY <1>1, <1>2 DEF IInv, TypeOK, IdsUsed, NobodyDirty, LoadEnds, SameMap, Contains
<1>4. Watched' /\ ChangesNoticed'
  BY <1>1 DEF IInv, Watched, ChangesNoticed, IsModified, LoadEnds, SameMap, Contains
<1> QED
  BY <1>2, <1>3, <1>4 DEF IInv

LEMMA LoadFailsInv == ASSUME IInv, NEW i \in Instances, LoadFails(i) PROVE IInv'
BY DEF IInv, LoadFails, TypeOK, IdentityMap, OneInstancePerRow, IdsUsed, Watched, NobodyDirty,
       ChangesNoticed

\* An uncached instance enters the cache under an object id of no other.
LEMMA Enters ==
    ASSUME IInv, NEW i \in Instances, NEW k \in Keys, ~Contains(cache, i),
           \A j \in Instances : cache.ids[j] # k,
           cache' \in Caches,
           cache'.ids = [cache.ids EXCEPT ![i] = k],
           cache'.byId = [cache.byId EXCEPT ![k] = i],
           holder' = [holder EXCEPT ![i] = Session]
    PROVE  /\ IdentityMap' /\ OneInstancePerRow'
           /\ \A j \in Instances : Contains(cache', j) <=> Contains(cache, j) \/ j = i
<1>1. cache.ids \in [Instances -> Keys \cup {NoKey}] /\ cache.byId \in [Keys -> Instances \cup {NoInstance}]
  BY DEF IInv, TypeOK, Caches
<1>2. holder \in [Instances -> {Client, Session, Nobody}]
  BY DEF IInv, TypeOK
<1>3. \A j \in Instances : Contains(cache', j) <=> Contains(cache, j) \/ j = i
  BY <1>1, SentinelAssumption DEF Contains
<1>4. IdentityMap'
  BY <1>1, <1>2, SentinelAssumption DEF IInv, IdentityMap, Get, Contains
<1>5. OneInstancePerRow'
  <2>1. ASSUME NEW j \in Instances, Contains(cache', j) PROVE Get(cache', cache'.ids[j]) = j
    BY <1>1, <1>3, <2>1 DEF IInv, OneInstancePerRow, Get, Contains
  <2>2. ASSUME NEW j \in Instances PROVE Contains(cache', j) <=> holder'[j] = Session
    BY <1>2, <1>3 DEF IInv, OneInstancePerRow
  <2> QED
    BY <2>1, <2>2 DEF OneInstancePerRow
<1> QED
  BY <1>3, <1>4, <1>5

LEMMA CreateInv == ASSUME IInv, NEW i \in Instances, NEW k \in Keys, Create(i, k) PROVE IInv'
<1> DEFINE c == Insert(Notify(cache, i), i, k)
<1>1. /\ c \in Caches
      /\ c.ids = [cache.ids EXCEPT ![i] = k] /\ c.byId = [cache.byId EXCEPT ![k] = i]
      /\ cache.modified \subseteq c.modified /\ c.connected = cache.connected
  <2>1. cache \in Caches /\ ~Contains(cache, i)
    BY DEF IInv, TypeOK, Create
  <2>2. /\ Notify(cache, i) \in Caches
        /\ Notify(cache, i).ids = cache.ids /\ Notify(cache, i).byId = cache.byId
        /\ cache.modified \subseteq Notify(cache, i).modified
        /\ Notify(cache, i).connected = cache.connected
    BY <2>1, NotifyMarks
  <2>3. ~Contains(Notify(cache, i), i)
    BY <2>1, <2>2 DEF Contains
  <2> DEFINE d == Notify(cache, i)
  <2>4. /\ Insert(d, i, k) \in Caches
        /\ Insert(d, i, k).ids = [d.ids EXCEPT ![i] = k]
        /\ Insert(d, i, k).byId = [d.byId EXCEPT ![k] = i]
        /\ Insert(d, i, k).modified = d.modified
        /\ Insert(d, i, k).connected = d.connected
    <3> HIDE DEF d
    <3> QED
      BY <2>2, <2>3, InsertNew DEF d
  <2> QED
    BY <2>2, <2>4
<1>2. /\ SameMap(c, cache') /\ cache'.modified = c.modified
      /\ cache'.connected = c.connected \cup {i}
  <2>1. cache' = Finalize(c, i)
    BY DEF Create
  <2> HIDE DEF c
  <2> QED
    BY <1>1, <2>1, FinalizeConnects
<1>3. ~Contains(cache, i) /\ \A j \in Instances : cache.ids[j] # k
  BY SentinelAssumption DEF IInv, IdsUsed, Create, Contains
<1>4. /\ IdentityMap' /\ OneInstancePerRow'
      /\ \A j \in Instances : Contains(cache', j) <=> Contains(cache, j) \/ j = i
  <2>1. /\ cache' \in Caches
        /\ cache'.ids = [cache.ids EXCEPT ![i] = k] /\ cache'.byId = [cache.byId EXCEPT ![k] = i]
    <3> HIDE DEF c
    <3> QED
      BY <1>1, <1>2 DEF SameMap
  <2>2. holder' = [holder EXCEPT ![i] = Session]
    BY DEF Create
  <2> QED
    BY <1>3, <2>1, <2>2, Enters
<1>5. TypeOK'
  BY <1>2, <1>4 DEF IInv, TypeOK, Create, SameMap, Cached
<1>6. IdsUsed' /\ NobodyDirty'
  <2>1. cache'.ids = [cache.ids EXCEPT ![i] = k]
    BY <1>1, <1>2 DEF SameMap
  <2>2. cache.ids \in [Instances -> Keys \cup {NoKey}]
    BY DEF IInv, TypeOK, Caches
  <2>3. IdsUsed'
    BY <1>4, <2>1, <2>2 DEF IInv, IdsUsed, Create
  <2>4. NobodyDirty'
    BY HolderAssumption DEF IInv, TypeOK, NobodyDirty, Create
  <2> QED
    BY <2>3, <2>4
<1>7. Watched' /\ ChangesNoticed'
  BY <1>1, <1>2, <1>4 DEF IInv, TypeOK, Watched, ChangesNoticed, IsModified, Create
<1> QED
  BY <1>4, <1>5, <1>6, <1>7 DEF IInv

LEMMA LoadInv == ASSUME IInv, NEW i \in Instances, NEW k \in Keys, Load(i, k) PROVE IInv'
<1>1. ~Contains(cache, i)
  BY HolderAssumption DEF IInv, OneInstancePerRow, Load
<1>2. /\ cache' \in Caches
      /\ cache'.ids = [cache.ids EXCEPT ![i] = k] /\ cache'.byId = [cache.byId EXCEPT ![k] = i]
      /\ cache'.modified = cache.modified /\ cache'.connected = cache.connected
  <2>1. cache \in Caches /\ cache' = Insert(cache, i, k)
    BY DEF IInv, TypeOK, Load
  <2> QED
    BY <1>1, <2>1, InsertNew
<1>3. \A j \in Instances : cache.ids[j] # k
  <2> SUFFICES ASSUME NEW j \in Instances, cache.ids[j] = k PROVE FALSE
    OBVIOUS
  <2>1. Contains(cache, j)
    BY SentinelAssumption DEF Contains
  <2>2. Get(cache, k) = j
    BY <2>1 DEF IInv, OneInstancePerRow
  <2> QED
    BY <2>2, SentinelAssumption DEF Load
<1>4. /\ IdentityMap' /\ OneInstancePerRow'
      /\ \A j \in Instances : Contains(cache', j) <=> Contains(cache, j) \/ j = i
  BY <1>1, <1>2, <1>3, Enters DEF Load
<1>5. TypeOK'
  BY <1>2, <1>4 DEF IInv, TypeOK, Load, Cached
<1>6. IdsUsed' /\ NobodyDirty'
  <2>1. cache.ids \in [Instances -> Keys \cup {NoKey}]
    BY DEF IInv, TypeOK, Caches
  <2>2. IdsUsed'
    BY <1>2, <1>4, <2>1 DEF IInv, TypeOK, IdsUsed, Load
  <2>3. NobodyDirty'
    BY HolderAssumption DEF IInv, TypeOK, NobodyDirty, Load
  <2> QED
    BY <2>2, <2>3
<1>7. i \notin dirty
  BY DEF IInv, NobodyDirty, Load
<1>8. Watched' /\ ChangesNoticed'
  BY <1>2, <1>4, <1>7 DEF IInv, TypeOK, Watched, ChangesNoticed, IsModified, Load
<1> QED
  BY <1>4, <1>5, <1>6, <1>8 DEF IInv

LEMMA RemoveInv == ASSUME IInv, NEW i \in Instances, Remove(i) PROVE IInv'
<1>1. /\ cache' \in Caches
      /\ cache'.ids = [cache.ids EXCEPT ![i] = NoKey]
      /\ cache'.byId = [k \in Keys |-> IF k = cache.ids[i] THEN NoInstance ELSE cache.byId[k]]
      /\ cache'.modified = cache.modified \ {i}
      /\ cache'.connected = cache.connected
  BY TakeCached DEF IInv, TypeOK, Remove
<1>2. cache.ids \in [Instances -> Keys \cup {NoKey}] /\ cache.byId \in [Keys -> Instances \cup {NoInstance}]
  BY DEF IInv, TypeOK, Caches
<1>3. \A j \in Instances : Contains(cache', j) <=> Contains(cache, j) /\ j # i
  BY <1>1, <1>2 DEF Contains
<1>4. holder' = [holder EXCEPT ![i] = Client]
      /\ holder \in [Instances -> {Client, Session, Nobody}] /\ Contains(cache, i)
  BY DEF IInv, TypeOK, Remove
<1>5. IdentityMap'
  <2> SUFFICES ASSUME NEW k \in Keys, cache'.byId[k] # NoInstance
               PROVE  cache'.ids[cache'.byId[k]] = k /\ holder'[cache'.byId[k]] = Session
    BY DEF IdentityMap, Get
  <2>1. k # cache.ids[i] /\ cache'.byId[k] = cache.byId[k] /\ cache.byId[k] \in Instances
    BY <1>1, <1>2
  <2>2. cache.ids[cache.byId[k]] = k /\ holder[cache.byId[k]] = Session
    BY <2>1 DEF IInv, IdentityMap, Get
  <2>3. cache.byId[k] # i
    BY <2>1, <2>2
  <2> QED
    BY <1>1, <1>2, <1>4, <2>1, <2>2, <2>3
<1>6. OneInstancePerRow'
  <2>1. ASSUME NEW j \in Instances, Contains(cache', j) PROVE Get(cache', cache'.ids[j]) = j
    <3>1. Contains(cache, j) /\ j # i /\ cache'.ids[j] = cache.ids[j] /\ cache.ids[j] \in Keys
      BY <1>1, <1>2, <1>3, <2>1 DEF Contains
    <3>2. cache.byId[cache.ids[j]] = j /\ cache.byId[cache.ids[i]] = i
      BY <1>4, <3>1 DEF IInv, OneInstancePerRow, Get
    <3> QED
      BY <1>1, <3>1, <3>2 DEF Get
  <2>2. ASSUME NEW j \in Instances PROVE Contains(cache', j) <=> holder'[j] = Session
    BY <1>3, <1>4, HolderAssumption DEF IInv, OneInstancePerRow
  <2> QED
    BY <2>1, <2>2 DEF OneInstancePerRow
<1>7. TypeOK'
  BY <1>1, <1>3, <1>4 DEF IInv, TypeOK, Remove, Cached
<1>8. IdsUsed' /\ NobodyDirty'
  BY <1>1, <1>2, <1>3, <1>4, HolderAssumption DEF IInv, IdsUsed, NobodyDirty, Remove
<1>9. Watched' /\ ChangesNoticed'
  BY <1>1, <1>3 DEF IInv, TypeOK, Watched, ChangesNoticed, IsModified, Remove
<1> QED
  BY <1>5, <1>6, <1>7, <1>8, <1>9 DEF IInv

LEMMA CloseSessionInv == IInv /\ CloseSession => IInv'
<1> SUFFICES ASSUME IInv, CloseSession PROVE IInv'
  OBVIOUS
<1>1. /\ cache' \in Caches
      /\ \A i \in Instances : ~Contains(cache', i) /\ holder'[i] # Session
      /\ \A k \in Keys : Get(cache', k) = NoInstance
  BY EmptyIsEmpty, HolderAssumption DEF IInv, OneInstancePerRow, CloseSession, Contains, Get
<1>2. TypeOK'
  BY <1>1 DEF IInv, TypeOK, CloseSession, Cached
<1>3. NobodyDirty'
  BY DEF IInv, NobodyDirty, CloseSession, Cached
<1>4. IdentityMap' /\ OneInstancePerRow'
  BY <1>1 DEF IdentityMap, OneInstancePerRow
<1>5. IdsUsed' /\ Watched'
  BY <1>1 DEF IdsUsed, Watched
<1>6. ChangesNoticed'
  BY <1>1 DEF IInv, TypeOK, ChangesNoticed, CloseSession
<1> QED
  BY <1>2, <1>3, <1>4, <1>5, <1>6 DEF IInv

LEMMA StutterInv == IInv /\ UNCHANGED vars => IInv'
BY DEF IInv, vars, TypeOK, IdentityMap, OneInstancePerRow, IdsUsed, Watched, NobodyDirty,
       ChangesNoticed

LEMMA CacheInvariant == Spec => []IInv
<1>1. IInv /\ [Next]_vars => IInv'
  BY NewInv, ChangeInv, DeleteInv, CreateInv, UpdateInv, RemoveInv, CloseSessionInv,
     LoadInv, LoadEndsInv, LoadFailsInv, StutterInv DEF Next
<1> QED
  BY <1>1, InitInv, PTL DEF Spec

\* Every operation keeps the four parts of the cache, and the rows, well formed.
THEOREM TypeCorrect == Spec => []TypeOK
<1>1. IInv => TypeOK
  BY DEF IInv
<1> QED
  BY <1>1, CacheInvariant, PTL

\* A lookup by object id never returns an instance that was taken or deleted
\* (get(), insert() and take() of qormentityinstancecache.cpp).
THEOREM LookupsAreSound == Spec => []IdentityMap
<1>1. IInv => IdentityMap
  BY DEF IInv
<1> QED
  BY <1>1, CacheInvariant, PTL

\* A row never has two cached instances, and the session owns what it caches.
THEOREM RowsHaveOneInstance == Spec => []OneInstancePerRow
<1>1. IInv => OneInstancePerRow
  BY DEF IInv
<1> QED
  BY <1>1, CacheInvariant, PTL

\* No change of a cached instance is lost to the next merge, except on an
\* instance whose filling failed.
THEOREM NoChangeMissed == Spec => []ChangesNoticed
<1>1. IInv => ChangesNoticed
  BY DEF IInv
<1> QED
  BY <1>1, CacheInvariant, PTL
=============================================================================
