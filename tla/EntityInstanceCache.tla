------------------------ MODULE EntityInstanceCache ------------------------
(***************************************************************************)
(* A QOrmEntityInstanceCache under the calls that QOrmSession and the      *)
(* SQLite provider make of it, and under a client that changes entity      *)
(* instances, removes them, and deletes what it got back.  Object ids are  *)
(* autogenerated, and no transaction is rolled back: a row's id is new.    *)
(***************************************************************************)
EXTENDS CacheOps

CONSTANTS Client, Session, Nobody      \* who owns an instance

ASSUME SentinelAssumption == NoInstance \notin Instances /\ NoKey \notin Keys
ASSUME HolderAssumption == Client # Session /\ Client # Nobody /\ Session # Nobody

VARIABLES
    cache,
    holder,         \* who owns the object at an address; Nobody: there is none
    rows,           \* object ids stored in the database
    used,           \* object ids ever given to a row
    loading,        \* instances being filled by makeEntityInstance()
    halfLoaded,     \* history: cached instances whose filling failed
    dirty           \* history: instances changed since they last met their row

vars == <<cache, holder, rows, used, loading, halfLoaded, dirty>>

TypeOK ==
    /\ cache \in Caches
    /\ holder \in [Instances -> {Client, Session, Nobody}]
    /\ rows \subseteq used /\ used \subseteq Keys
    /\ loading \subseteq Cached(cache)
    /\ halfLoaded \subseteq Cached(cache)
    /\ dirty \subseteq Instances

Init ==
    /\ cache = EmptyCache
    /\ holder = [i \in Instances |-> Nobody]
    /\ rows \in SUBSET Keys /\ used = rows
    /\ loading = {} /\ halfLoaded = {} /\ dirty = {}

-----------------------------------------------------------------------------
(* The client.                                                             *)

New(i) ==
    /\ holder[i] = Nobody
    /\ holder' = [holder EXCEPT ![i] = Client]
    /\ UNCHANGED <<cache, rows, used, loading, halfLoaded, dirty>>

\* A property setter of an instance the client or the session owns: NOTIFY.
Change(i) ==
    /\ holder[i] # Nobody /\ i \notin loading
    /\ cache' = Notify(cache, i)
    /\ dirty' = dirty \cup {i}
    /\ UNCHANGED <<holder, rows, used, loading, halfLoaded>>

Delete(i) ==
    /\ holder[i] = Client
    /\ holder' = [holder EXCEPT ![i] = Nobody]
    /\ cache' = Forget(cache, i)
    /\ dirty' = dirty \ {i}
    /\ UNCHANGED <<rows, used, loading, halfLoaded>>

-----------------------------------------------------------------------------
(* QOrmSession.  No call of it runs while the provider fills an instance.  *)

\* merge() of an instance that is not cached: INSERT, the id is set (which a
\* cache that still listens notices), insert(), finalize().
Create(i, k) ==
    /\ loading = {}
    /\ holder[i] = Client /\ ~Contains(cache, i)
    /\ k \notin used
    /\ rows' = rows \cup {k} /\ used' = used \cup {k}
    /\ cache' = Finalize(Insert(Notify(cache, i), i, k), i)
    /\ holder' = [holder EXCEPT ![i] = Session]
    /\ dirty' = dirty \ {i}
    /\ halfLoaded' = halfLoaded \ {i}
    /\ UNCHANGED loading

\* merge() of a cached, modified instance: UPDATE, markUnmodified().
Update(i) ==
    /\ loading = {}
    /\ Contains(cache, i) /\ IsModified(cache, i)
    /\ cache' = MarkUnmodified(cache, i)
    /\ dirty' = dirty \ {i}
    /\ UNCHANGED <<holder, rows, used, loading, halfLoaded>>

\* remove(): DELETE, take(); the client owns the instance again.
Remove(i) ==
    /\ loading = {}
    /\ Contains(cache, i)
    /\ rows' = rows \ {cache.ids[i]}
    /\ cache' = Take(cache, i)
    /\ holder' = [holder EXCEPT ![i] = Client]
    /\ halfLoaded' = halfLoaded \ {i}
    /\ UNCHANGED <<used, loading, dirty>>

\* ~QOrmSession: the cache deletes what it contains.
CloseSession ==
    /\ loading = {}
    /\ cache' = EmptyCache
    /\ holder' = [i \in Instances |->
                    IF Contains(cache, i) THEN Nobody ELSE holder[i]]
    /\ dirty' = dirty \ Cached(cache)
    /\ halfLoaded' = {}
    /\ UNCHANGED <<rows, used, loading>>

-----------------------------------------------------------------------------
(* QOrmSqliteProvider: reading a row.                                      *)

\* Mutant: a row is made into an instance without a look into the cache.
LoadUnseen(i, k) ==
    /\ holder[i] = Nobody /\ k \in rows
    /\ cache' = Insert(cache, i, k)
    /\ holder' = [holder EXCEPT ![i] = Session]
    /\ loading' = loading \cup {i}
    /\ UNCHANGED <<rows, used, halfLoaded, dirty>>

\* A row that is not cached becomes a new instance, which is cached before it
\* is filled; filling it may load further rows.
Load(i, k) ==
    /\ holder[i] = Nobody
    /\ k \in rows /\ Get(cache, k) = NoInstance
    /\ cache' = Insert(cache, i, k)
    /\ holder' = [holder EXCEPT ![i] = Session]
    /\ loading' = loading \cup {i}
    /\ UNCHANGED <<rows, used, halfLoaded, dirty>>

LoadEnds(i) ==
    /\ i \in loading
    /\ loading' = loading \ {i}
    /\ cache' = Finalize(cache, i)
    /\ UNCHANGED <<holder, rows, used, halfLoaded, dirty>>

\* The error is returned; the instance stays cached and is never finalized.
LoadFails(i) ==
    /\ i \in loading
    /\ loading' = loading \ {i}
    /\ halfLoaded' = halfLoaded \cup {i}
    /\ UNCHANGED <<cache, holder, rows, used, dirty>>

-----------------------------------------------------------------------------
Next ==
    \/ \E i \in Instances :
        \/ New(i) \/ Change(i) \/ Delete(i)
        \/ Update(i) \/ Remove(i)
        \/ LoadEnds(i) \/ LoadFails(i)
        \/ \E k \in Keys : Create(i, k) \/ Load(i, k)
    \/ CloseSession

Spec == Init /\ [][Next]_vars

-----------------------------------------------------------------------------
(* Properties.                                                             *)

\* What a lookup by object id returns is cached under that id, and a live
\* object of the session: never an instance that was taken or deleted.
IdentityMap ==
    \A k \in Keys : Get(cache, k) # NoInstance =>
        /\ cache.ids[Get(cache, k)] = k
        /\ holder[Get(cache, k)] = Session

\* A row has one instance: every cached instance is the one its object id
\* leads to, and the session owns exactly the cached instances.
OneInstancePerRow ==
    \A i \in Instances :
        /\ Contains(cache, i) => Get(cache, cache.ids[i]) = i
        /\ Contains(cache, i) <=> holder[i] = Session

\* A change of a cached instance is noticed, so that the next merge stores it;
\* the instances whose filling failed are the exception.
ChangesNoticed ==
    \A i \in dirty \ halfLoaded : Contains(cache, i) => IsModified(cache, i)
=============================================================================
