------------------------------ MODULE Session ------------------------------
(***************************************************************************)
(* QOrmSession over the SQLite provider: merge() with its recursion over   *)
(* referenced instances, remove(), reading with the identity map, and the  *)
(* rollback that reads tracked instances again.  The code is synchronous:  *)
(* the client acts only when no call is running, and a call is a stack of  *)
(* frames whose steps are the points at which the code can branch or fail. *)
(*                                                                         *)
(* A class has at most one reference property, T*; its other properties    *)
(* are one value.  The transactions of SQLite themselves do not fail here  *)
(* (OrmTransactions has that); statements do.                              *)
(***************************************************************************)
EXTENDS Integers, Sequences, FiniteSets

CONSTANTS
    Objects,        \* addresses of entity instances
    Classes,        \* entity classes
    ClassOf,        \* the class of the instances at an address
    RefClass,       \* the class a class references, or NoClass
    NoClass,
    NoInstance, NoKey, NoRow,
    Vals,           \* values of the other properties
    DefaultVal,     \* the value a constructor leaves
    Api,            \* the calls this client makes, a subset of AllCalls
    NewAt,          \* bound: where the client's new puts instances, a subset of Objects
    MaxId,          \* bound on the ids of a table
    MaxManual,      \* bound on the levels the client opens by hand
    MaxTracked,     \* bound on the instances tracked by a transaction
    MaxFaults       \* bound on failing statements

AllCalls == {"new", "set", "ref", "relink", "begin", "rollback", "many", "remove",
             "removeWhere", "delete", "select", "reopen"}

ASSUME ApiAssumption == Api \subseteq AllCalls /\ NewAt \subseteq Objects
ASSUME ClassAssumption ==
    /\ ClassOf \in [Objects -> Classes]
    /\ RefClass \in [Classes -> Classes \cup {NoClass}] /\ NoClass \notin Classes
ASSUME SentinelAssumption == NoInstance \notin Objects /\ NoKey \notin Classes \X (1..MaxId)
ASSUME ValueAssumption == DefaultVal \in Vals
ASSUME BoundAssumption ==
    /\ IsFiniteSet(Objects)
    /\ MaxId \in Nat /\ MaxManual \in Nat /\ MaxTracked \in Nat /\ MaxFaults \in Nat

Keys == Classes \X (1..MaxId)
INSTANCE CacheOps WITH Instances <- Objects

\* A column that references: the id of a row, 0 for an instance that has no id
\* yet (the default of an integer id), or NULL.
SqlNull == -1
Rows == [val : Vals, ref : SqlNull..MaxId]
ASSUME NoRowAssumption == NoRow \notin Rows

VARIABLES
    obj,            \* per address: who owns the object, and its properties
    cache,          \* m_entityInstanceCache
    db,             \* tables as the connection sees them, and their AUTOINCREMENT
    saved,          \* tables as they survive
    depth,          \* m_transactionCounter
    merging,        \* m_mergingInstances
    tracked,        \* m_trackedInstances
    lastError,      \* m_lastError
    stack,          \* frames of the running merge
    reading,        \* what is being read: nothing, a rollback's or a select's rest
    fills,          \* frames of fillEntityInstance(), innermost first
    ret,            \* what the last call returned
    fatal,          \* "no", or why the process ended
    manual,         \* history: levels the client has to end
    undone,         \* history: object ids whose row a rollback has taken away
    faults          \* history: statements that failed

vars == <<obj, cache, db, saved, depth, merging, tracked, lastError, stack, reading, fills,
          ret, fatal, manual, undone, faults>>

Object == [life : {"none", "client", "session"}, id : 0..MaxId, val : Vals,
           ref : Objects \cup {NoInstance}]
NoObject == [life |-> "none", id |-> 0, val |-> DefaultVal, ref |-> NoInstance]
Tables == [rows : [Keys -> Rows \cup {NoRow}], seq : [Classes -> 0..MaxId]]
Frame == [kind : {"merge", "many"}, inst : Objects, queue : Seq(Objects),
          op : {"Create", "Update"}, pc : {"refs", "execute", "return", "rollback"},
          engaged : BOOLEAN, result : BOOLEAN]
Fill == [inst : Objects, key : Keys, overwrite : BOOLEAN, fresh : BOOLEAN, read : BOOLEAN]
NoReading == [why |-> "none", queue |-> <<>>]
Readings == {NoReading} \cup [why : {"rollback"}, queue : Seq(Objects)]
                        \cup [why : {"select"}, queue : Seq(Keys)]
Errors == {"None", "Provider", "UnsynchronizedEntity"}
Deaths == {"no", "crossReference", "danglingInstance", "modifiedReference",
           "danglingReference", "rollbackFailed"}

Alive(o) == obj[o].life # "none"
KeyOf(o) == <<ClassOf[o], obj[o].id>>
Top == Head(stack)

TypeOK ==
    /\ obj \in [Objects -> Object]
    /\ cache \in Caches
    /\ db \in Tables /\ saved \in Tables
    /\ depth \in Nat /\ manual \in 0..MaxManual /\ undone \subseteq Keys /\ faults \in 0..MaxFaults
    /\ merging \subseteq Objects
    /\ tracked \in Seq(Objects)
    /\ lastError \in Errors
    /\ stack \in Seq(Frame)
    /\ reading \in Readings
    /\ fills \in Seq(Fill)
    /\ ret \in BOOLEAN /\ fatal \in Deaths

Init ==
    /\ obj = [o \in Objects |-> NoObject]
    /\ cache = EmptyCache
    /\ db = [rows |-> [k \in Keys |-> NoRow], seq |-> [c \in Classes |-> 0]]
    /\ saved = db
    /\ depth = 0 /\ manual = 0 /\ undone = {} /\ faults = 0
    /\ merging = {} /\ tracked = <<>>
    /\ lastError = "None"
    /\ stack = <<>> /\ reading = NoReading /\ fills = <<>>
    /\ ret = TRUE /\ fatal = "no"

Running == stack # <<>> \/ reading # NoReading
Idle == ~Running /\ fatal = "no"
StepsOf == fatal = "no" /\ fills = <<>> /\ reading = NoReading /\ stack # <<>>

Die(why) ==
    /\ fatal' = why
    /\ UNCHANGED <<obj, cache, db, saved, depth, merging, tracked, lastError, stack, reading,
                   fills, ret, manual, undone, faults>>

-----------------------------------------------------------------------------
(* The client, between the calls.                                          *)

sessionVars == <<db, saved, depth, merging, tracked, lastError, stack, reading, fills, ret,
                 fatal, manual, undone, faults>>

\* The bound on addresses: the client leaves room for every row that might be read.
RoomForRows ==
    \A c \in Classes :
        Cardinality({k \in Keys : /\ k[1] = c /\ Get(cache, k) = NoInstance
                                  /\ \/ db.rows[k] # NoRow
                                     \/ saved.rows[k] # NoRow})
            <= Cardinality({o \in Objects : ClassOf[o] = c /\ ~Alive(o)})

New(o) ==
    /\ "new" \in Api /\ Idle
    /\ o \in NewAt /\ ~Alive(o)
    /\ obj' = [obj EXCEPT ![o] = [NoObject EXCEPT !.life = "client"]]
    /\ UNCHANGED <<cache, sessionVars>>
    /\ RoomForRows'

SetVal(o, v) ==
    /\ "set" \in Api /\ Idle
    /\ Alive(o) /\ obj[o].val # v
    /\ obj' = [obj EXCEPT ![o].val = v]
    /\ cache' = Notify(cache, o)
    /\ UNCHANGED sessionVars

\* Without "relink" a client links its instances before it merges them.
SetRef(o, p) ==
    /\ "ref" \in Api /\ Idle
    /\ Contains(cache, o) => "relink" \in Api
    /\ Alive(o) /\ obj[o].ref # p
    /\ p # NoInstance => Alive(p) /\ ClassOf[p] = RefClass[ClassOf[o]]
    /\ obj' = [obj EXCEPT ![o].ref = p]
    /\ cache' = Notify(cache, o)
    /\ UNCHANGED sessionVars

Referenced(o) == \E p \in Objects : Alive(p) /\ obj[p].ref = o

\* The client deletes only what it owns and nothing refers to.
Delete(o) ==
    /\ "delete" \in Api /\ Idle
    /\ obj[o].life = "client" /\ ~Referenced(o)
    /\ obj' = [obj EXCEPT ![o] = NoObject]
    /\ cache' = Forget(cache, o)
    /\ UNCHANGED sessionVars

-----------------------------------------------------------------------------
(* Transactions: begin, commit and rollback of the session.                *)

\* What beginTransaction() leaves; BEGIN itself does not change the tables.
Begun == depth' = depth + 1

\* Mutant: an inner commit saves.
CommitsEarly(dbAfter) ==
    /\ depth' = depth - 1
    /\ saved' = dbAfter /\ tracked' = <<>>

\* commitTransaction() once the tables are dbAfter.
Commits(dbAfter) ==
    /\ depth' = depth - 1
    /\ IF depth = 1 THEN saved' = dbAfter /\ tracked' = <<>>
                    ELSE UNCHANGED <<saved, tracked>>

\* rollbackTransaction(): an inner level just ends.
RollsBackInner == depth > 1 /\ depth' = depth - 1 /\ UNCHANGED <<db, undone, reading>>

\* Mutant: the provider is not told.
RollsBackOuterSilently(list) ==
    /\ depth = 1
    /\ reading' = [why |-> "rollback", queue |-> list]
    /\ UNCHANGED <<depth, db, undone>>

\* The outermost rolls back and starts to read again what is in list.
RollsBackOuter(list) ==
    /\ depth = 1
    /\ db' = saved
    /\ undone' = undone \cup {k \in Keys : db.rows[k] # NoRow /\ saved.rows[k] = NoRow}
    /\ reading' = [why |-> "rollback", queue |-> list]
    /\ UNCHANGED depth

BeginTransaction ==
    /\ "begin" \in Api /\ Idle
    /\ manual < MaxManual
    /\ Begun
    /\ manual' = manual + 1
    /\ lastError' = "None" /\ ret' = TRUE
    /\ UNCHANGED <<obj, cache, db, saved, merging, tracked, stack, reading, fills, fatal, undone, faults>>

CommitTransaction ==
    /\ Idle /\ manual > 0
    /\ Commits(db)
    /\ manual' = manual - 1
    /\ lastError' = "None" /\ ret' = TRUE
    /\ UNCHANGED <<obj, cache, db, merging, stack, reading, fills, fatal, undone, faults>>

RollbackTransaction ==
    /\ "rollback" \in Api /\ Idle /\ manual > 0
    /\ RollsBackInner \/ RollsBackOuter(tracked)
    /\ manual' = manual - 1
    /\ lastError' = "None" /\ ret' = TRUE
    /\ UNCHANGED <<obj, cache, saved, merging, tracked, stack, fills, fatal, faults>>

-----------------------------------------------------------------------------
(* merge().                                                                *)

\* Mutant: an instance that is not cached yet is not merged.
NeedsMergeModified(o) == o # NoInstance /\ IsModified(cache, o) /\ o \notin merging

\* needsMerge()
NeedsMerge(o) ==
    /\ o # NoInstance
    /\ ~Contains(cache, o) \/ IsModified(cache, o)
    /\ o \notin merging

\* The two classes reference each other but the two instances do not.
CrossReferenceError(o) ==
    LET c == ClassOf[o]
        r == obj[o].ref
    IN  /\ r # NoInstance
        /\ RefClass[ClassOf[r]] = c
        /\ obj[r].ref # o

\* Mutant: the early return gives up its token.
NewFrameDisengaged(o) ==
    LET update == Contains(cache, o)
        early == update /\ ~IsModified(cache, o)
    IN  [kind |-> "merge", inst |-> o, queue |-> <<>>,
         op |-> IF update THEN "Update" ELSE "Create",
         pc |-> IF early THEN "return" ELSE "refs",
         engaged |-> ~early, result |-> TRUE]

NewFrame(o) ==
    LET update == Contains(cache, o)
    IN  [kind |-> "merge", inst |-> o, queue |-> <<>>,
         op |-> IF update THEN "Update" ELSE "Create",
         pc |-> IF update /\ ~IsModified(cache, o) THEN "return" ELSE "refs",
         engaged |-> TRUE, result |-> TRUE]

\* doMerge() up to its loop over the references: a nested call on an instance
\* that is being merged returns at once; an unmodified one needs no statement.
Enter(o, rest) ==
    IF o \in merging
    THEN stack' = rest /\ UNCHANGED <<depth, merging, lastError>>
    ELSE /\ Begun
         /\ merging' = merging \cup {o}
         /\ lastError' = "None"
         /\ stack' = <<NewFrame(o)>> \o rest

\* The bound on ids leaves room for every instance that might be inserted.
RoomForIds ==
    \A c \in Classes :
        db.seq[c] + Cardinality({o \in Objects : /\ ClassOf[o] = c /\ Alive(o)
                                                 /\ ~Contains(cache, o)}) <= MaxId

Merge(o) ==
    /\ Idle /\ Alive(o)
    /\ RoomForIds /\ Len(tracked) < MaxTracked
    /\ Enter(o, <<>>)
    /\ UNCHANGED <<obj, cache, db, saved, tracked, reading, fills, ret, fatal, manual, undone, faults>>

\* merge(a, b): a Commit token around the merges of both.
MergeMany(a, b) ==
    /\ "many" \in Api /\ Idle
    /\ a # b /\ Alive(a) /\ Alive(b)
    /\ RoomForIds /\ Len(tracked) < MaxTracked
    /\ Begun
    /\ lastError' = "None"
    /\ stack' = <<[kind |-> "many", inst |-> a, queue |-> <<a, b>>, op |-> "Update",
                   pc |-> "execute", engaged |-> TRUE, result |-> TRUE]>>
    /\ UNCHANGED <<obj, cache, db, saved, merging, tracked, reading, fills, ret, fatal, manual, undone,
                   faults>>

CrossReferenceFatal ==
    /\ StepsOf /\ Top.kind = "merge" /\ Top.pc = "refs"
    /\ CrossReferenceError(Top.inst)
    /\ Die("crossReference")

\* The loop over the references.  The frame is left at its statement; a nested
\* merge that fails will move it to its return.
MergeReferences ==
    /\ StepsOf /\ Top.kind = "merge" /\ Top.pc = "refs"
    /\ ~CrossReferenceError(Top.inst)
    /\ LET rest == <<[Top EXCEPT !.pc = "execute"]>> \o Tail(stack)
       IN  IF NeedsMerge(obj[Top.inst].ref)
           THEN Enter(obj[Top.inst].ref, rest)
           ELSE stack' = rest /\ UNCHANGED <<depth, merging, lastError>>
    /\ UNCHANGED <<obj, cache, db, saved, tracked, reading, fills, ret, fatal, manual, undone, faults>>

RefId(o) ==
    IF obj[o].ref = NoInstance THEN SqlNull ELSE obj[obj[o].ref].id
RowOf(o) == [val |-> obj[o].val, ref |-> RefId(o)]

\* The statement succeeded: the token commits and is disengaged.
Succeeds(dbAfter) ==
    /\ db' = dbAfter
    /\ Commits(dbAfter)
    /\ lastError' = "None"
    /\ stack' = <<[Top EXCEPT !.pc = "return", !.engaged = FALSE]>> \o Tail(stack)
    /\ UNCHANGED <<merging, reading, fills, ret, fatal, manual, undone, faults>>

Fails(error) ==
    /\ lastError' = error
    /\ stack' = <<[Top EXCEPT !.pc = "return", !.result = FALSE]>> \o Tail(stack)
    /\ UNCHANGED <<obj, cache, db, saved, depth, merging, tracked, reading, fills, ret, fatal,
                   manual, undone>>

\* Mutant: the instance is cached before it has its id.
InsertionCachesFirst ==
    /\ StepsOf /\ Top.kind = "merge" /\ Top.pc = "execute" /\ Top.op = "Create"
    /\ LET o == Top.inst
           c == ClassOf[o]
           id == db.seq[c] + 1
       IN  /\ Succeeds([rows |-> [db.rows EXCEPT ![<<c, id>>] = RowOf(o)],
                        seq |-> [db.seq EXCEPT ![c] = id]])
           /\ cache' = Finalize(Insert(cache, o, KeyOf(o)), o)
           /\ obj' = [obj EXCEPT ![o].id = id, ![o].life = "session"]

\* INSERT, then the id is set (which notifies a cache that still listens), then
\* the cache takes the instance.
Insertion ==
    /\ StepsOf /\ Top.kind = "merge" /\ Top.pc = "execute" /\ Top.op = "Create"
    /\ LET o == Top.inst
           c == ClassOf[o]
           id == db.seq[c] + 1
           notified == IF obj[o].id # id THEN Notify(cache, o) ELSE cache
       IN  /\ Succeeds([rows |-> [db.rows EXCEPT ![<<c, id>>] = RowOf(o)],
                        seq |-> [db.seq EXCEPT ![c] = id]])
           /\ obj' = [obj EXCEPT ![o].id = id, ![o].life = "session"]
           /\ cache' = Finalize(Insert(notified, o, <<c, id>>), o)

\* UPDATE of a row that exists.
Update ==
    /\ StepsOf /\ Top.kind = "merge" /\ Top.pc = "execute" /\ Top.op = "Update"
    /\ db.rows[KeyOf(Top.inst)] # NoRow
    /\ Succeeds([db EXCEPT !.rows[KeyOf(Top.inst)] = RowOf(Top.inst)])
    /\ cache' = MarkUnmodified(cache, Top.inst)
    /\ UNCHANGED obj

\* UPDATE that affects no row.
UpdateMisses ==
    /\ StepsOf /\ Top.kind = "merge" /\ Top.pc = "execute" /\ Top.op = "Update"
    /\ db.rows[KeyOf(Top.inst)] = NoRow
    /\ Fails("UnsynchronizedEntity")
    /\ UNCHANGED faults

StatementFails ==
    /\ StepsOf /\ Top.kind = "merge" /\ Top.pc = "execute"
    /\ faults < MaxFaults /\ faults' = faults + 1
    /\ Fails("Provider")

\* A frame returns: its caller, if it is a frame, gives up when it has failed.
Pop(result) ==
    LET rest == Tail(stack)
    IN  /\ stack' = IF rest # <<>> /\ ~result
                    THEN <<[Head(rest) EXCEPT !.pc = "return", !.result = FALSE]>> \o Tail(rest)
                    ELSE rest
        /\ ret' = IF rest = <<>> THEN result ELSE ret

\* Mutant: the finalizer is dismissed when the merge has failed.
MergeReturnsKeepsMerging ==
    /\ StepsOf /\ Top.kind = "merge" /\ Top.pc = "return"
    /\ merging' = IF Top.result THEN merging \ {Top.inst} ELSE merging
    /\ tracked' = Append(tracked, Top.inst)
    /\ IF Top.engaged THEN RollsBackInner /\ lastError' = "None"
                      ELSE UNCHANGED <<db, undone, depth, reading, lastError>>
    /\ Pop(Top.result)
    /\ UNCHANGED <<obj, cache, saved, fills, fatal, manual, faults>>

\* Leaving doMerge(): first the finalizer, which tracks the instance, then the
\* token, which rolls back unless the body has committed.
MergeReturns ==
    /\ StepsOf /\ Top.kind = "merge" /\ Top.pc = "return"
    /\ merging' = merging \ {Top.inst}
    /\ tracked' = Append(tracked, Top.inst)
    /\ \/ /\ ~Top.engaged
          /\ Pop(Top.result)
          /\ UNCHANGED <<db, undone, depth, reading, lastError>>
       \/ /\ Top.engaged
          /\ RollsBackInner
          /\ Pop(Top.result)
          /\ lastError' = "None"
       \/ /\ Top.engaged
          /\ RollsBackOuter(tracked')
          /\ stack' = <<[Top EXCEPT !.pc = "rollback"]>> \o Tail(stack)
          /\ lastError' = "None"
          /\ UNCHANGED ret
    /\ UNCHANGED <<obj, cache, saved, fills, fatal, manual, faults>>

\* merge(a, b): the next instance.
MergeNext ==
    /\ StepsOf /\ Top.kind = "many" /\ Top.pc = "execute" /\ Top.queue # <<>>
    /\ Enter(Head(Top.queue), <<[Top EXCEPT !.queue = Tail(@)]>> \o Tail(stack))
    /\ UNCHANGED <<obj, cache, db, saved, tracked, reading, fills, ret, fatal, manual, undone, faults>>

\* merge(a, b) returns: its token commits when all merges succeeded, and is told
\* to roll back when one failed.
MergeManyCommits ==
    /\ StepsOf /\ Top.kind = "many" /\ Top.pc = "execute" /\ Top.queue = <<>>
    /\ Commits(db)
    /\ Pop(TRUE)
    /\ lastError' = "None"
    /\ UNCHANGED <<obj, cache, db, merging, reading, fills, fatal, manual, undone, faults>>

MergeManyRollsBack ==
    /\ StepsOf /\ Top.kind = "many" /\ Top.pc = "return"
    /\ \/ RollsBackInner /\ Pop(FALSE)
       \/ /\ RollsBackOuter(tracked)
          /\ stack' = <<[Top EXCEPT !.pc = "rollback"]>> \o Tail(stack)
          /\ UNCHANGED ret
    /\ lastError' = "None"
    /\ UNCHANGED <<obj, cache, saved, merging, tracked, fills, fatal, manual, faults>>

-----------------------------------------------------------------------------
(* remove(): no transaction of its own, and nothing is tracked.            *)

RowReferenced(k) ==
    \E l \in Keys : /\ db.rows[l] # NoRow
                    /\ RefClass[l[1]] = k[1] /\ db.rows[l].ref = k[2]

\* The client removes what nothing refers to, in memory or in the tables.
Remove(o) ==
    /\ "remove" \in Api /\ Idle
    /\ Contains(cache, o) /\ ~Referenced(o) /\ ~RowReferenced(KeyOf(o))
    /\ LET rest == [db EXCEPT !.rows[KeyOf(o)] = NoRow]
       IN  db' = rest /\ saved' = IF depth = 0 THEN rest ELSE saved
    /\ cache' = Take(cache, o)
    /\ obj' = [obj EXCEPT ![o].life = "client"]
    /\ lastError' = "None" /\ ret' = TRUE
    /\ UNCHANGED <<depth, merging, tracked, stack, reading, fills, fatal, manual, undone, faults>>
    /\ RoomForRows'

RemoveFails(o) ==
    /\ "remove" \in Api /\ Idle
    /\ Contains(cache, o) /\ ~Referenced(o)
    /\ faults < MaxFaults /\ faults' = faults + 1
    /\ lastError' = "Provider" /\ ret' = FALSE
    /\ UNCHANGED <<obj, cache, db, saved, depth, merging, tracked, stack, reading, fills, fatal,
                   manual, undone>>

\* from<T>().filter(...).remove(): the rows with a value, and whatever the cache
\* has for them; the RETURNING clause of SQLite 3.35 names their ids.
RowsWith(c, v) == {k \in Keys : k[1] = c /\ db.rows[k] # NoRow /\ db.rows[k].val = v}

\* Mutant: the statement of a SQLite before 3.35 returns no ids.
ReturnedNothing(keys) == {}

Returned(keys) == {Get(cache, k) : k \in keys} \ {NoInstance}

RemoveWhere(c, v) ==
    /\ "removeWhere" \in Api /\ Idle /\ RowsWith(c, v) # {}
    /\ \A k \in RowsWith(c, v) : ~RowReferenced(k)
    /\ \A k \in RowsWith(c, v) : Get(cache, k) # NoInstance => ~Referenced(Get(cache, k))
    /\ LET gone == RowsWith(c, v)
           given == Returned(gone)
           rest == [db EXCEPT !.rows = [k \in Keys |-> IF k \in gone THEN NoRow ELSE @[k]]]
       IN  /\ db' = rest /\ saved' = IF depth = 0 THEN rest ELSE saved
           /\ cache' = TakeAll(cache, given)
           /\ obj' = [o \in Objects |-> IF o \in given THEN [obj[o] EXCEPT !.life = "client"]
                                                      ELSE obj[o]]
    /\ lastError' = "None" /\ ret' = TRUE
    /\ UNCHANGED <<depth, merging, tracked, stack, reading, fills, fatal, manual, undone, faults>>
    /\ RoomForRows'

-----------------------------------------------------------------------------
(* Reading: fillEntityInstance() and makeEntityInstance() of the provider. *)

FillSteps == fatal = "no" /\ fills # <<>>
Reading(why) == fatal = "no" /\ fills = <<>> /\ reading.why = why

fillVars == <<db, saved, depth, merging, tracked, lastError, stack, ret, fatal, manual, undone, faults>>

FillTop == Head(fills)

\* fillEntityInstance(o) from row k is entered with a cached instance.
PushFill(o, k, overwrite, fresh) ==
    LET caller == IF fills = <<>> THEN <<>> ELSE <<[FillTop EXCEPT !.read = TRUE]>> \o Tail(fills)
    IN  fills' = <<[inst |-> o, key |-> k, overwrite |-> overwrite, fresh |-> fresh,
                    read |-> FALSE]>> \o caller

\* Where newInstance() puts an object.
FreeAddresses(c) == {o \in Objects : ClassOf[o] = c /\ ~Alive(o)}

\* A new instance for row k is cached at once and filled without overwriting.
Make(k) ==
    \E o \in FreeAddresses(k[1]) :
        /\ obj' = [obj EXCEPT ![o] = [NoObject EXCEPT !.life = "session", !.id = k[2]]]
        /\ cache' = Insert(cache, o, k)
        /\ PushFill(o, k, FALSE, TRUE)

FillRow == db.rows[FillTop.key]
FillRefKey == <<RefClass[FillTop.key[1]], FillRow.ref>>
FillTarget == IF FillRefKey \in Keys THEN Get(cache, FillRefKey) ELSE NoInstance
RowExists(k) == k \in Keys /\ db.rows[k] # NoRow

\* All properties are set.  A new instance is connected to the cache, one that
\* was overwritten is marked unmodified.
FillEnds(ref) ==
    LET o == FillTop.inst
    IN  /\ obj' = [obj EXCEPT ![o].val = FillRow.val, ![o].ref = ref]
        /\ cache' = IF FillTop.fresh THEN Finalize(cache, o) ELSE MarkUnmodified(cache, o)
        /\ fills' = Tail(fills)
        /\ UNCHANGED <<fillVars, reading>>

\* NULL leaves the reference as it is.
FillNull ==
    /\ FillSteps
    /\ FillRow.ref = SqlNull
    /\ FillEnds(obj[FillTop.inst].ref)

FillCached ==
    /\ FillSteps
    /\ FillRow.ref # SqlNull /\ FillTarget # NoInstance
    /\ IsModified(cache, FillTarget) => FillTop.overwrite \/ FillTop.read
    /\ FillEnds(FillTarget)

FillModifiedFatal ==
    /\ FillSteps
    /\ FillRow.ref # SqlNull /\ FillTarget # NoInstance
    /\ IsModified(cache, FillTarget) /\ ~FillTop.overwrite /\ ~FillTop.read
    /\ Die("modifiedReference")

\* The referenced row is read, and its new instance filled, before this fill
\* goes on, which then finds it in the cache.
FillReads ==
    /\ FillSteps
    /\ FillRow.ref # SqlNull /\ FillTarget = NoInstance
    /\ RowExists(FillRefKey)
    /\ Make(FillRefKey)
    /\ UNCHANGED <<fillVars, reading>>

FillDanglingFatal ==
    /\ FillSteps
    /\ FillRow.ref # SqlNull /\ FillTarget = NoInstance
    /\ ~RowExists(FillRefKey)
    /\ Die("danglingReference")

\* A select that fails leaves what it has cached; the rollback's ends the process.
ReadFails(error) ==
    /\ fills' = <<>> /\ reading' = NoReading
    /\ lastError' = error /\ ret' = FALSE
    /\ UNCHANGED <<obj, cache, db, saved, depth, merging, tracked, stack, fatal, manual, undone>>

ReadFatal(why) ==
    /\ fatal' = why
    /\ UNCHANGED <<obj, cache, db, saved, depth, merging, tracked, lastError, stack, reading,
                   fills, ret, manual, undone>>

FillStatementFails ==
    /\ FillSteps
    /\ FillRow.ref # SqlNull /\ FillTarget = NoInstance
    /\ faults < MaxFaults /\ faults' = faults + 1
    /\ \/ reading.why = "select" /\ ReadFails("Provider")
       \/ reading.why = "rollback" /\ ReadFatal("rollbackFailed")

(* rollbackTrackedInstances() *)

\* Mutant: a cached instance is taken for what its row is.
RereadNextKeepsCached ==
    /\ Reading("rollback") /\ reading.queue # <<>>
    /\ Alive(Head(reading.queue))
    /\ reading' = [reading EXCEPT !.queue = Tail(@)]
    /\ LET k == KeyOf(Head(reading.queue))
       IN  IF RowExists(k) /\ Get(cache, k) = NoInstance
           THEN Make(k)
           ELSE UNCHANGED <<obj, cache, fills>>
    /\ UNCHANGED fillVars

RereadNext ==
    /\ Reading("rollback") /\ reading.queue # <<>>
    /\ Alive(Head(reading.queue))
    /\ reading' = [reading EXCEPT !.queue = Tail(@)]
    /\ LET k == KeyOf(Head(reading.queue))
       IN  \/ /\ ~RowExists(k)
              /\ UNCHANGED <<obj, cache, fills>>
           \/ /\ RowExists(k) /\ Get(cache, k) # NoInstance
              /\ PushFill(Get(cache, k), k, TRUE, FALSE)
              /\ UNCHANGED <<obj, cache>>
           \/ /\ RowExists(k) /\ Get(cache, k) = NoInstance
              /\ Make(k)
    /\ UNCHANGED fillVars

\* A tracked instance that the client has deleted is dereferenced.
RereadDangling ==
    /\ Reading("rollback") /\ reading.queue # <<>>
    /\ ~Alive(Head(reading.queue))
    /\ Die("danglingInstance")

RereadFails ==
    /\ Reading("rollback") /\ reading.queue # <<>>
    /\ faults < MaxFaults /\ faults' = faults + 1
    /\ ReadFatal("rollbackFailed")

\* The rollback is over; so is the frame that asked for it, if there was one.
RollbackEnds ==
    /\ Reading("rollback") /\ reading.queue = <<>>
    /\ tracked' = <<>> /\ depth' = 0
    /\ reading' = NoReading
    /\ IF stack # <<>> THEN Pop(Top.result) ELSE UNCHANGED <<stack, ret>>
    /\ UNCHANGED <<obj, cache, db, saved, merging, lastError, fills, fatal, manual, undone, faults>>

(* from<T>().select(): the rows of class c in the order of their ids. *)

RowsInOrder(c) ==
    LET ids == {i \in 1..MaxId : db.rows[<<c, i>>] # NoRow}
        pos(i) == Cardinality({j \in ids : j <= i})
    IN  [n \in 1..Cardinality(ids) |-> <<c, CHOOSE i \in ids : pos(i) = n>>]

Select(c) ==
    /\ "select" \in Api /\ Idle
    /\ reading' = [why |-> "select", queue |-> RowsInOrder(c)]
    /\ lastError' = "None"
    /\ UNCHANGED <<obj, cache, db, saved, depth, merging, tracked, stack, fills, ret, fatal,
                   manual, undone, faults>>

\* Mutant: the cursor is not moved.
SelectNextStays ==
    /\ Reading("select") /\ reading.queue # <<>>
    /\ LET o == Get(cache, Head(reading.queue))
       IN  \/ /\ o # NoInstance /\ ~IsModified(cache, o)
              /\ UNCHANGED <<obj, cache, fills>>
           \/ /\ o = NoInstance
              /\ Make(Head(reading.queue))
    /\ UNCHANGED <<fillVars, reading>>

SelectNext ==
    /\ Reading("select") /\ reading.queue # <<>>
    /\ reading' = [reading EXCEPT !.queue = Tail(@)]
    /\ LET o == Get(cache, Head(reading.queue))
       IN  \/ /\ o # NoInstance /\ ~IsModified(cache, o)
              /\ UNCHANGED <<obj, cache, fills>>
           \/ /\ o = NoInstance
              /\ Make(Head(reading.queue))
    /\ UNCHANGED fillVars

SelectUnsynchronized ==
    /\ Reading("select") /\ reading.queue # <<>>
    /\ LET o == Get(cache, Head(reading.queue))
       IN  o # NoInstance /\ IsModified(cache, o)
    /\ ReadFails("UnsynchronizedEntity")
    /\ UNCHANGED faults

SelectEnds ==
    /\ Reading("select") /\ reading.queue = <<>>
    /\ reading' = NoReading /\ ret' = TRUE
    /\ UNCHANGED <<obj, cache, db, saved, depth, merging, tracked, lastError, stack, fills, fatal,
                   manual, undone, faults>>

(* ~QOrmSession destroys what is cached; a new session starts empty. *)
Reopen ==
    /\ "reopen" \in Api /\ Idle /\ manual = 0
    /\ \A o, p \in Objects : Alive(o) /\ ~Contains(cache, o) /\ obj[o].ref = p
                                => ~Contains(cache, p)
    /\ obj' = [o \in Objects |-> IF Contains(cache, o) THEN NoObject ELSE obj[o]]
    /\ cache' = EmptyCache
    /\ tracked' = <<>>
    /\ lastError' = "None" /\ undone' = {}
    /\ UNCHANGED <<db, saved, depth, merging, stack, reading, fills, ret, fatal, manual, faults>>
    /\ RoomForRows'

-----------------------------------------------------------------------------
Client ==
    \/ \E o \in Objects :
        \/ New(o) \/ Delete(o) \/ Merge(o) \/ Remove(o) \/ RemoveFails(o)
        \/ \E v \in Vals : SetVal(o, v)
        \/ \E p \in Objects \cup {NoInstance} : SetRef(o, p)
        \/ \E p \in Objects : MergeMany(o, p)
    \/ \E c \in Classes : Select(c) \/ \E v \in Vals : RemoveWhere(c, v)
    \/ BeginTransaction \/ CommitTransaction \/ RollbackTransaction
    \/ Reopen

Fault == StatementFails \/ FillStatementFails \/ RereadFails

Step ==
    \/ CrossReferenceFatal \/ MergeReferences
    \/ Insertion \/ Update \/ UpdateMisses
    \/ MergeReturns \/ MergeNext \/ MergeManyCommits \/ MergeManyRollsBack
    \/ FillNull \/ FillCached \/ FillModifiedFatal \/ FillReads \/ FillDanglingFatal
    \/ RereadNext \/ RereadDangling \/ RollbackEnds
    \/ SelectNext \/ SelectUnsynchronized \/ SelectEnds

Next == Client \/ Fault \/ Step

\* A call that has started keeps running: the code never waits for anything.
Spec == Init /\ [][Next]_vars /\ WF_vars(Step)

-----------------------------------------------------------------------------
(* Properties. *)

Engaged == {i \in 1..Len(stack) : stack[i].engaged}

\* Whatever fails and wherever doMerge() returns, the counter of the session is
\* the number of levels the client holds plus the tokens on the call stack that
\* have yet to end theirs (qormsession.cpp:180-269).
Balanced == reading.why # "rollback" => depth = manual + Cardinality(Engaged)

\* m_mergingInstances holds exactly the instances doMerge() is working on, each
\* once: no return path leaves one behind, which would make every later merge
\* of it an empty success (qormsession.cpp:186-197).
MergingOnStack ==
    LET merges == {i \in 1..Len(stack) : stack[i].kind = "merge" /\ stack[i].pc # "rollback"}
    IN  /\ merging = {stack[i].inst : i \in merges}
        /\ Cardinality(merging) = Cardinality(merges)

\* A merge that is about to return true has left a row, and the row is what the
\* instance is.  Of an unmodified instance merge() takes that for granted: no
\* path may clear a mark, or cache an instance, before the row agrees
\* (qormsession.cpp:202-210, 244-268).  There are two exceptions: the row of an
\* instance whose insertion was rolled back is missing, while the instance stays
\* in the cache, and an instance half filled by a failing read is not finalized.
MergedIsInTable ==
    StepsOf /\ Top.kind = "merge" /\ Top.pc = "return" /\ Top.result
            /\ KeyOf(Top.inst) \notin undone /\ Top.inst \in cache.connected
        => RowExists(KeyOf(Top.inst)) /\ db.rows[KeyOf(Top.inst)] = RowOf(Top.inst)

\* A merge saves only as a whole: in the step where the outermost frame of the
\* call ends its level, with every nested merge successful and nothing left to
\* undo (qormsession.cpp:189 and 265, qormsession.h:83-109).
SavedAsAWhole ==
    [][stack # <<>> /\ saved' # saved => Len(stack) = 1 /\ Top.result /\ depth' = 0]_vars

\* Between the calls and outside a transaction nothing is pending: a call that
\* failed, wherever it did, has undone what it wrote.
NothingPending == Idle /\ manual = 0 => depth = 0 /\ db = saved

\* However a call goes on or fails, it leaves nothing behind: its levels, its
\* merging instances and what it wrote end with it (qormsession.cpp:180-269).
CallsUnwind == Balanced /\ MergingOnStack /\ NothingPending

\* When a rollback is over, what it tracked, is looked up by its id and has a row
\* is unmodified and what its row is; an instance with a reference may keep it
\* (qormsession.cpp:99-125, qormsqliteprovider.cpp:940-956).
RollbackRestores ==
    [][reading.why = "rollback" /\ reading'.why = "none"
        => \A i \in 1..Len(tracked) :
               LET o == tracked[i]
               IN  RowExists(KeyOf(o)) /\ Get(cache, KeyOf(o)) = o
                   => ~IsModified(cache, o) /\ obj[o].val = db.rows[KeyOf(o)].val]_vars

\* Every call ends, or ends the process.
CallEnds == (stack # <<>> \/ reading # NoReading) ~> (Idle \/ fatal # "no")
=============================================================================
