------------------------------ MODULE CacheOps ------------------------------
(***************************************************************************)
(* The operations of QOrmEntityInstanceCache on the value of a cache: the  *)
(* identity map of a session.  An object id is a pair of class and id in   *)
(* the code; here it is a key.                                             *)
(***************************************************************************)
CONSTANTS
    Instances,      \* addresses of entity instances
    Keys,           \* object ids
    NoInstance,     \* nullptr
    NoKey           \* the default-constructed object id

\* ids: m_cache; byId: m_byObjectId; modified: m_modifiedInstances;
\* connected: the instances whose NOTIFY signals reach the cache.
Caches ==
    [ids : [Instances -> Keys \cup {NoKey}],
     byId : [Keys -> Instances \cup {NoInstance}],
     modified : SUBSET Instances,
     connected : SUBSET Instances]

EmptyCache ==
    [ids |-> [i \in Instances |-> NoKey],
     byId |-> [k \in Keys |-> NoInstance],
     modified |-> {},
     connected |-> {}]

Contains(c, i) == c.ids[i] # NoKey
Cached(c) == {i \in Instances : Contains(c, i)}
Get(c, k) == c.byId[k]
IsModified(c, i) == i \in c.modified

\* Mutant: only the lookup by object id learns of the instance.
InsertKeyOnly(c, i, k) == [c EXCEPT !.byId[k] = i]

\* An instance is cached once, under the object id it has at that moment; a
\* second instance with the same id takes over the lookup.
Insert(c, i, k) ==
    IF Contains(c, i) THEN c ELSE [c EXCEPT !.ids[i] = k, !.byId[k] = i]

\* Mutant: the lookup by object id keeps the instance.
TakeKeepsKey(c, i) ==
    [c EXCEPT !.ids[i] = NoKey, !.modified = @ \ {i}]

\* The signals stay connected.
Take(c, i) ==
    [c EXCEPT !.ids[i] = NoKey,
              !.byId = [k \in Keys |-> IF k = c.ids[i] THEN NoInstance ELSE @[k]],
              !.modified = @ \ {i}]

\* Several instances at once.
TakeAll(c, taken) ==
    [c EXCEPT !.ids = [i \in Instances |-> IF i \in taken THEN NoKey ELSE @[i]],
              !.byId = [k \in Keys |-> IF \E i \in taken : c.ids[i] = k THEN NoInstance
                                                                      ELSE @[k]],
              !.modified = @ \ taken]

\* Mutant: no signal is connected.
FinalizeNothing(c, i) == c

Finalize(c, i) == [c EXCEPT !.connected = @ \cup {i}]

MarkUnmodified(c, i) == [c EXCEPT !.modified = @ \ {i}]

\* onEntityInstanceChanged(), if the cache listens to the instance.  Its
\* assertion that the cache contains the sender is left out: an instance given
\* back by Take() stays connected, and is marked when it changes.
Notify(c, i) ==
    IF i \in c.connected THEN [c EXCEPT !.modified = @ \cup {i}] ELSE c

\* A destroyed QObject drops its connections, and nothing else of the cache.
Forget(c, i) == [c EXCEPT !.connected = @ \ {i}]
=============================================================================
