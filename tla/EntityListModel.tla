-------------------------- MODULE EntityListModel --------------------------
(***************************************************************************)
(* QOrmEntityListModel over a session, as examples/orm/navigationdb uses   *)
(* it: a model of the provinces, one of the communities, and a client that *)
(* creates, edits, updates and removes through them.  A province lists its *)
(* communities; a community references its province.                       *)
(*                                                                         *)
(* A call of the session is one step here (Session and EntityLoader have   *)
(* its steps).  What matters is what a model does around it: the back      *)
(* reference it keeps, the signals it emits between the call and its own   *)
(* next read, and the result it takes without looking at the error.        *)
(***************************************************************************)
EXTENDS Integers, Sequences, FiniteSets, RowOrder

CONSTANTS
    MaxInstances,   \* bound, per class: the instances ever created
    NoInstance, NoKey, NoRow,
    Criteria,       \* bound: the filters and orders the client sets
    Editable,       \* bound: the classes whose other properties the client sets
    MaxUnsaved,     \* bound on the instances with unsaved changes when one is edited
    MaxEvents       \* bound on failing statements, and on what breaks the relation

Models == {"province", "community"}     \* a model for each class

ASSUME InstanceAssumption == MaxInstances \in [Models -> Nat]
ASSUME BoundAssumption == Editable \subseteq Models /\ MaxUnsaved \in Nat /\ MaxEvents \in Nat

\* An instance never moves, its id grows with every insertion, and an address is
\* not used again: one number stands for the address, the row and its id.
Objects == UNION {{m} \X (1..MaxInstances[m]) : m \in Models}
Provinces == {o \in Objects : o[1] = "province"}
Communities == Objects \ Provinces
ASSUME NoneAssumption ==
    NoInstance \notin Objects /\ NoKey \notin Objects /\ NoRow \notin Objects \cup {NoInstance}

INSTANCE CacheOps WITH Instances <- Objects, Keys <- Objects
Seqs == INSTANCE SequencesExt

VARIABLES
    inst,           \* per address: the properties of the instance there
    rows,           \* the tables
    cache,          \* m_entityInstanceCache
    tracked,        \* what the last merge has left in m_trackedInstances
    data,           \* m_data of each model
    filter,         \* m_filter of the communities: a province, or none
    order,          \* m_order of the communities: by id, up or down
    told,           \* the rows each model has last announced to its views
    pending,        \* the model whose signals run before it reads, if any
    fatal,          \* "no", or why the process ended
    unsaved,        \* history: modified by the client, or shortened by remove()
    loose,          \* history: communities whose list was not kept with them
    behind,         \* history: models that have updated since they last read
    silent,         \* history: models that have read without a reset since
    events          \* history: statements that failed, and calls that may disagree

session == <<inst, rows, cache, tracked>>
model == <<data, filter, order, told, behind, silent>>
history == <<unsaved, loose>>
vars == <<session, model, history, pending, fatal, events>>

\* Of an instance only the relation is kept; a row is the province it references.
Instance == [life : {"none", "alive", "deleted"},
             province : Provinces \cup {NoInstance}, list : SUBSET Communities]
NewInstance(life) == [life |-> life, province |-> NoInstance, list |-> {}]

TypeOK ==
    /\ inst \in [Objects -> Instance]
    /\ rows \in [Objects -> Provinces \cup {NoInstance, NoRow}]
    /\ cache \in Caches
    /\ tracked \in Objects \cup {NoInstance}
    /\ DOMAIN data = Models /\ \A m \in Models : Seqs!ToSet(data[m]) \subseteq Objects
    /\ DOMAIN told = Models /\ \A m \in Models : Seqs!ToSet(told[m]) \subseteq Objects
    /\ filter \in Provinces \cup {NoInstance} /\ order \in {"ascending", "descending"}
    /\ pending \in Models \cup {"none"}
    /\ fatal \in {"no", "crossReference", "deletedInstance", "nullReference", "outOfRange",
                  "notShown", "unsynchronized", "readFailed"}
    /\ unsaved \subseteq Objects /\ loose \subseteq Communities
    /\ behind \subseteq Models /\ silent \subseteq Models
    /\ events \in 0..MaxEvents

\* What a process has in memory when both models have read empty tables.
NoInstances == [o \in Objects |-> NewInstance("none")]
NoData == [m \in Models |-> <<>>]

Init ==
    /\ inst = NoInstances /\ rows = [o \in Objects |-> NoRow]
    /\ cache = EmptyCache /\ tracked = NoInstance
    /\ data = NoData /\ told = NoData
    /\ filter = NoInstance /\ order = "ascending"
    /\ pending = "none" /\ fatal = "no"
    /\ unsaved = {} /\ loose = {} /\ behind = {} /\ silent = {}
    /\ events = 0

Idle == fatal = "no" /\ pending = "none"
Alive(o) == inst[o].life = "alive"

\* The process ends, and its memory with it.
Die(why) ==
    /\ fatal' = why
    /\ inst' = NoInstances /\ cache' = EmptyCache /\ tracked' = NoInstance
    /\ data' = NoData /\ told' = NoData /\ filter' = NoInstance /\ order' = "ascending"
    /\ pending' = "none"
    /\ unsaved' = {} /\ loose' = {} /\ behind' = {} /\ silent' = {}
    /\ UNCHANGED rows

\* The community and the list of its province say the same.
Agrees(c) ==
    \A p \in Provinces :
        Alive(p) => (c \in inst[p].list <=> Alive(c) /\ inst[c].province = p)

\* What is kept of the reasons: a mark goes when the instance is written or read,
\* a disagreement when the list is.
Because(changed, unlisted) ==
    /\ unsaved' = (unsaved \cup changed) \cap cache'.modified
    /\ loose' = {c \in loose \cup unlisted : ~Agrees(c)'}

Event == events < MaxEvents /\ events' = events + 1
NoEvent == UNCHANGED events

-----------------------------------------------------------------------------
(* The session.  i and c are the instances and the cache a call starts from. *)

\* doMerge() of a community merges its province if that was changed.
NeedsMerge(c, o) == ~Contains(c, o) \/ IsModified(c, o)
Merged(i, c, o) == {o} \cup {p \in {i[o].province} \ {NoInstance} : NeedsMerge(c, p)}

\* crossReferenceError() looks into both sides of the relation.
LooksAtDeleted(i, os) == \E o \in os, l \in Communities :
                             l \in i[o].list /\ i[l].life # "alive"
CrossReferenceError(i, os) ==
    \E o \in os : \/ i[o].province # NoInstance /\ o \notin i[i[o].province].list
                  \/ \E l \in i[o].list : i[l].province # o

MergeDies(i, c, o) ==
    /\ NeedsMerge(c, o)
    /\ \/ LooksAtDeleted(i, Merged(i, c, o)) /\ Die("deletedInstance")
       \/ CrossReferenceError(i, Merged(i, c, o)) /\ Die("crossReference")

Mergeable(i, c, o) ==
    /\ NeedsMerge(c, o)
    /\ ~LooksAtDeleted(i, Merged(i, c, o)) /\ ~CrossReferenceError(i, Merged(i, c, o))

\* Mutant: the province is not written with the community.
MergeSucceedsAlone(i, c, o) ==
    /\ Mergeable(i, c, o)
    /\ rows' = [rows EXCEPT ![o] = i[o].province]
    /\ cache' = MarkUnmodified(Finalize(Insert(c, o, o), o), o)
    /\ inst' = i /\ tracked' = o

\* All is written and cached; the finalizer of the outermost merge tracks its
\* instance when the list has just been cleared.
MergeSucceeds(i, c, o) ==
    /\ Mergeable(i, c, o)
    /\ rows' = [w \in Objects |-> IF w \in Merged(i, c, o) THEN i[w].province ELSE rows[w]]
    /\ cache' = [Finalize(Insert(c, o, o), o) EXCEPT !.modified = @ \ Merged(i, c, o)]
    /\ inst' = i /\ tracked' = o

\* Mutant: an instance without a row is read, too.
ReadAgainUnchecked(os) == {o \in Objects : o \in os \/ rows[o] \in os}

\* The rows a rollback reads for these instances: a province is read with its list.
ReadAgain(os) ==
    {o \in Objects : rows[o] # NoRow /\ (o \in os \/ rows[o] \in os)}

\* NULL leaves the reference as it is.
FromRow(i, o) ==
    [i[o] EXCEPT !.province = IF rows[o] = NoInstance THEN @ ELSE rows[o],
                 !.list = {c \in Communities : rows[c] = o}]

\* Mutant: what a nested merge has written is not tracked.
RollsBackOne(i, c, os) ==
    LET again == ReadAgain(os \cap Communities)
    IN  /\ inst' = [o \in Objects |-> IF o \in again THEN FromRow(i, o) ELSE i[o]]
        /\ cache' = [c EXCEPT !.modified = @ \ again]
        /\ tracked' = NoInstance /\ UNCHANGED rows

\* rollbackTrackedInstances(), with what an earlier merge has left tracked.
RollsBack(i, c, os) ==
    LET again == ReadAgain((os \cup {tracked}) \ {NoInstance})
    IN  /\ inst' = [o \in Objects |-> IF o \in again THEN FromRow(i, o) ELSE i[o]]
        /\ cache' = [c EXCEPT !.modified = @ \ again]
        /\ tracked' = NoInstance /\ UNCHANGED rows

\* Of a change of province that is not in the table, a rollback may read one side.
Moved == {c \in Communities : rows[c] # NoRow /\ rows[c] # inst[c].province}

RollbackDies == tracked # NoInstance /\ ~Alive(tracked) /\ Die("deletedInstance")
RollbackLives == tracked # NoInstance => Alive(tracked)

\* remove() of the session; the instance is destroyed with the unique_ptr.
Removes(i, c, o) ==
    /\ rows' = [rows EXCEPT ![o] = NoRow]
    /\ cache' = Forget(Take(c, o), o)
    /\ inst' = [i EXCEPT ![o] = NewInstance("deleted")]
    /\ UNCHANGED tracked

\* The client removes no province that is still in use.
Unused(p) ==
    /\ filter # p
    /\ \A c \in Communities : /\ Alive(c) => inst[c].province # p
                              /\ rows[c] # p

-----------------------------------------------------------------------------
(* readData()                                                              *)

InOrder(S, o) ==
    Ordered(S, IF o = "ascending" THEN Ascending(S) ELSE Descending(S))

Selected(m, f, o) ==
    LET found == {r \in Objects : /\ r[1] = m /\ rows[r] # NoRow
                                  /\ f # NoInstance => rows[r] = f}
    IN  InOrder(found, o)

FilterOf(m) == IF m = "community" THEN filter ELSE NoInstance
OrderOf(m) == IF m = "community" THEN order ELSE "ascending"

\* select() refuses to read over unsaved changes, and toVector() ends the process
\* on any error.
ReadDies(m, f, o) ==
    \/ /\ Seqs!ToSet(Selected(m, f, o)) \cap cache.modified # {}
       /\ NoEvent /\ Die("unsynchronized")
    \/ Event /\ Die("readFailed")

\* Every row has its instance in the cache: what is removed is also deleted.
ReadsData(m, f, o) ==
    /\ Seqs!ToSet(Selected(m, f, o)) \cap cache.modified = {}
    /\ data' = [data EXCEPT ![m] = Selected(m, f, o)]
    /\ behind' = behind \ {m}
    /\ NoEvent /\ UNCHANGED <<session, history, fatal>>

\* Mutant: the views are not reset.
ReadSilently(m) ==
    /\ ReadsData(m, FilterOf(m), OrderOf(m))
    /\ UNCHANGED <<filter, order, told, silent>>

\* read(): the data, between the signals of a reset.
Read(m) ==
    /\ ReadsData(m, FilterOf(m), OrderOf(m))
    /\ told' = [told EXCEPT ![m] = data'[m]]
    /\ silent' = silent \ {m}
    /\ UNCHANGED <<filter, order>>

\* What create() and remove() end with, when the slots of their signal have run.
ModelReads ==
    /\ fatal = "no" /\ pending # "none"
    /\ \/ Read(pending) /\ pending' = "none"
       \/ ReadDies(pending, FilterOf(pending), OrderOf(pending))

ReadModel(m) ==
    /\ Idle
    /\ \/ Read(m) /\ UNCHANGED pending
       \/ ReadDies(m, FilterOf(m), OrderOf(m))

-----------------------------------------------------------------------------
(* The client, through the models.                                         *)

\* A property outside the relation is set, as in QML: its signal marks the instance.
Edit(o) ==
    /\ Idle /\ Alive(o) /\ o[1] \in Editable
    /\ Cardinality(cache.modified \cup {o}) <= MaxUnsaved
    /\ cache' = Notify(cache, o)
    /\ NoEvent /\ UNCHANGED <<inst, rows, tracked, model, pending, fatal>>
    /\ Because({o}, {})

\* Another province is chosen for a community; no list is changed with it.
SetProvince(c, p) ==
    /\ Idle /\ Alive(c) /\ Alive(p) /\ inst[c].province # p
    /\ Cardinality(cache.modified \cup {c}) <= MaxUnsaved
    /\ inst' = [inst EXCEPT ![c].province = p]
    /\ cache' = Notify(cache, c)
    /\ Because({c}, {c})
    /\ Event /\ UNCHANGED <<rows, tracked, model, pending, fatal>>

\* The client that keeps both sides: the community moves from list to list.
Move(c, p) ==
    /\ Idle /\ Alive(c) /\ Alive(p)
    /\ inst[c].province \in Provinces \ {p}
    /\ Cardinality(cache.modified) < MaxUnsaved
    /\ LET from == inst[c].province
       IN  /\ inst' = [inst EXCEPT ![c].province = p, ![from].list = @ \ {c},
                                   ![p].list = @ \cup {c}]
           /\ cache' = Notify(Notify(Notify(cache, c), from), p)
           /\ Because({c, from, p}, {})
    /\ NoEvent /\ UNCHANGED <<rows, tracked, model, pending, fatal>>

\* create() up to its merge: the new instance, listed by its province.
Fresh(m) == {o \in Objects : /\ o[1] = m /\ inst[o].life = "none"
                             /\ \A n \in 1..o[2] - 1 : inst[<<m, n>>].life # "none"}

Listed(o, p) ==
    [l \in Objects |-> IF l = p THEN [inst[p] EXCEPT !.list = @ \cup {o}] ELSE inst[l]]
WithNew(o, p) ==
    [Listed(o, p) EXCEPT ![o] = [NewInstance("alive") EXCEPT !.province = p]]
ListNotified(p) == IF p = NoInstance THEN cache ELSE Notify(cache, p)

\* Its merge succeeds: entityInstanceCreated(), then read().
Create(o, p) ==
    /\ MergeSucceeds(WithNew(o, p), ListNotified(p), o)
    /\ pending' = o[1]
    /\ Because({}, {})
    /\ NoEvent /\ UNCHANGED <<model, fatal>>

\* Its merge fails: the instance is deleted.
CreateFails(o, p) ==
    /\ LET i == [WithNew(o, p) EXCEPT ![o] = NewInstance("deleted")]
       IN  /\ Mergeable(WithNew(o, p), ListNotified(p), o)
           /\ Event
           /\ \/ /\ RollbackDies
              \/ /\ RollbackLives
                 /\ RollsBack(i, ListNotified(p), Merged(WithNew(o, p), ListNotified(p), o))
                 /\ Because({}, Moved)
                 /\ UNCHANGED <<model, pending, fatal>>

CreateDies(o, p) == MergeDies(WithNew(o, p), ListNotified(p), o) /\ NoEvent

CreateInstance(m) ==
    /\ Idle
    /\ \E o \in Fresh(m), p \in Provinces \cup {NoInstance} :
           /\ p # NoInstance => m = "community" /\ Alive(p)
           /\ Create(o, p) \/ CreateFails(o, p) \/ CreateDies(o, p)

\* update(), when the merge has something to write.
Shown(o) == o \in Seqs!ToSet(data[o[1]])

Update(o) ==
    /\ Idle /\ Alive(o)
    /\ MergeSucceeds(inst, cache, o)
    /\ behind' = behind \cup {w[1] : w \in Merged(inst, cache, o)}
    /\ Because({}, {})
    /\ NoEvent /\ UNCHANGED <<data, filter, order, told, silent, pending, fatal>>

\* It has not: merge() returns true, and its token rolls back.
UpdateUnneeded(o) ==
    /\ Idle /\ Alive(o) /\ ~NeedsMerge(cache, o)
    /\ NoEvent
    /\ \/ RollbackDies
       \/ /\ RollbackLives
          /\ RollsBack(inst, cache, {o})
          /\ Because({}, Moved)
          /\ UNCHANGED <<model, pending, fatal>>

\* A debug build asserts that the merged instance has a row, a release build goes on.
UpdateNotShown(o) ==
    /\ Idle /\ Alive(o) /\ ~Shown(o)
    /\ ~NeedsMerge(cache, o) \/ Mergeable(inst, cache, o)
    /\ NoEvent /\ Die("notShown")

UpdateFails(o) ==
    /\ Idle /\ Alive(o) /\ Mergeable(inst, cache, o)
    /\ Event
    /\ \/ RollbackDies
       \/ /\ RollbackLives
          /\ RollsBack(inst, cache, Merged(inst, cache, o))
          /\ Because({}, Moved)
          /\ UNCHANGED <<model, pending, fatal>>

UpdateDies(o) == Idle /\ Alive(o) /\ MergeDies(inst, cache, o) /\ NoEvent

\* remove(): the province is made to forget the community first.
Unlisted(o) ==
    LET p == inst[o].province
    IN  [l \in Objects |-> IF l = p THEN [inst[p] EXCEPT !.list = @ \ {o}] ELSE inst[l]]
Shortened(o) == {p \in Provinces : inst[o].province = p /\ o \in inst[p].list}
ShortenedNotified(o) ==
    IF Shortened(o) = {} THEN cache ELSE Notify(cache, inst[o].province)

\* remove() reads a property of the province, even if there is none.
RemoveDies(o) ==
    /\ Idle /\ Alive(o) /\ o \in Communities
    /\ inst[o].province = NoInstance
    /\ NoEvent /\ Die("nullReference")

Removable(o) == o \in Provinces => Unused(o)

\* The rows are removed, the instance deleted, entityInstanceRemoved() emitted.
Remove(o) ==
    /\ Idle /\ Alive(o) /\ Removable(o)
    /\ o \in Communities => inst[o].province # NoInstance
    /\ Removes(Unlisted(o), ShortenedNotified(o), o)
    /\ pending' = o[1]
    /\ Because(Shortened(o), {})
    /\ NoEvent /\ UNCHANGED <<model, fatal>>

RemoveFails(o) ==
    /\ Idle /\ Alive(o) /\ Removable(o)
    /\ o \in Communities => inst[o].province # NoInstance
    /\ inst' = Unlisted(o) /\ cache' = ShortenedNotified(o)
    /\ Because(Shortened(o), {o} \cap Communities)
    /\ Event /\ UNCHANGED <<rows, tracked, model, pending, fatal>>

\* removeAt(): the list of the province is left as it is.
RemoveAt(m, index) ==
    /\ Idle /\ Event
    /\ index \in 0..Len(data[m]) - 1 /\ Removable(data[m][index + 1])
    /\ Removes(inst, cache, data[m][index + 1])
    /\ pending' = m
    /\ Because({}, {data[m][index + 1]} \cap Communities)
    /\ UNCHANGED <<model, fatal>>

\* Its check lets the index pass that is the number of rows.
RemoveAtDies(m) == Idle /\ NoEvent /\ Die("outOfRange")

RemoveAtFails(m) ==
    /\ Idle /\ data[m] # <<>>
    /\ Event /\ UNCHANGED <<session, model, history, pending, fatal>>

\* setFilter() and setOrder() read at once, without a reset.
SetFilter(f) ==
    /\ Idle /\ f # filter /\ (f # NoInstance => Alive(f)) /\ <<f, order>> \in Criteria
    /\ \/ ReadDies("community", f, order)
       \/ /\ ReadsData("community", f, order)
          /\ filter' = f /\ UNCHANGED pending
          /\ silent' = silent \cup {"community"}
          /\ UNCHANGED <<order, told>>

SetOrder(o) ==
    /\ Idle /\ o # order /\ <<filter, o>> \in Criteria
    /\ \/ ReadDies("community", filter, o)
       \/ /\ ReadsData("community", filter, o)
          /\ order' = o /\ UNCHANGED pending
          /\ silent' = silent \cup {"community"}
          /\ UNCHANGED <<filter, told>>

-----------------------------------------------------------------------------
Next ==
    \/ \E m \in Models :
           \/ CreateInstance(m) \/ ReadModel(m) \/ RemoveAtFails(m) \/ RemoveAtDies(m)
           \/ \E index \in 0..MaxInstances[m] : RemoveAt(m, index)
    \/ \E o \in Objects :
           \/ Update(o) \/ UpdateUnneeded(o) \/ UpdateNotShown(o) \/ UpdateFails(o)
           \/ UpdateDies(o)
           \/ Remove(o) \/ RemoveFails(o) \/ RemoveDies(o) \/ Edit(o)
    \/ \E c \in Communities, p \in Provinces : SetProvince(c, p) \/ Move(c, p)
    \/ \E f \in Provinces \cup {NoInstance} : SetFilter(f)
    \/ \E o \in {"ascending", "descending"} : SetOrder(o)
    \/ ModelReads

Spec == Init /\ [][Next]_vars

-----------------------------------------------------------------------------
(* Properties. *)

\* Whatever succeeded or failed, a community is in the list of the province it
\* references and in no other, and no list holds one that was deleted: also
\* after a create() that failed when its instance was already listed, which only
\* the rollback of the nested merge takes back.  The exceptions are a community
\* whose province was set by hand, or moved and not in the table when a
\* rollback read one side again, whose removal failed, or that removeAt() has deleted
\* (qormentitylistmodel.h:121-171, 177-214, qormsession.cpp:99).
ListsAgree == fatal = "no" => \A c \in Communities \ loose : Agrees(c)

\* Between the calls a model shows what its filter and order select from the
\* tables, by instances that are there, unless it has updated one since it last
\* read; and its views know, unless its filter or order was set
\* (qormentitylistmodel.h:162-167, 207-212, 227-245, 280-282, qormentitylistmodel.cpp:35).
ModelCurrent ==
    Idle => \A m \in Models :
        /\ \A k \in 1..Len(data[m]) : Alive(data[m][k])
        /\ m \notin behind => data[m] = Selected(m, FilterOf(m), OrderOf(m))
        /\ m \notin silent => told[m] = data[m]

Dies(why) == fatal = "no" /\ fatal' = why

\* Three ends of the process have a reason in the past.  A read meets an instance
\* that the client has changed, or whose list remove() has shortened without
\* merging it; the two sides of a relation were made to differ by hand, by a
\* failed remove() or by removeAt(); a removed instance was left in the list of its
\* province, or is still tracked by the merge that created it
\* (qormqueryresult.h:122, qormentitylistmodel.h:196-205, 219, qormsession.cpp:101,
\* qormglobal_p.cpp:126).
DiesForAReason ==
    [][/\ Dies("unsynchronized") => \E o \in unsaved : IsModified(cache, o)
       /\ Dies("crossReference") => loose # {}
       /\ Dies("deletedInstance") =>
              \/ \E c \in loose : ~Alive(c)
              \/ tracked # NoInstance /\ ~Alive(tracked)]_vars
=============================================================================
