---------------------------- MODULE EntityLoader ----------------------------
(***************************************************************************)
(* Reading with QOrmSqliteProvider: read(), makeEntityInstance() and       *)
(* fillEntityInstance(), property by property, with references to one      *)
(* instance (T* ) and lists of references.  Each of the three calls the    *)
(* others, through the identity map and for every row.                     *)
(*                                                                         *)
(* What is asked is whether the instances become the graph of objects the  *)
(* rows describe.  Between the reads the client changes instances; what it *)
(* writes is inside a transaction that is rolled back, so that the tables  *)
(* are again what they were, and tracked instances are read again,         *)
(* overwriting.                                                            *)
(***************************************************************************)
EXTENDS Integers, Sequences, FiniteSets, RowOrder

CONSTANTS
    Classes,        \* entity classes
    NoClass,
    NoInstance, NoKey, NoRow,
    Shapes,         \* the programs: per class, its properties in their order
    TablesOf(_),    \* the contents of the tables a shape is checked with
    MaxId,          \* bound on the ids of a table
    MaxModified,    \* bound on the instances with unsaved changes
    MaxTracked,     \* bound on the instances a rollback reads again
    MaxStack,       \* bound on the frames: more is taken for an overflow
    MaxEvents       \* bound on failing statements and rolled back removals

Keys == Classes \X (1..MaxId)

\* Where instances may be: an address for each row, and spare ones that only
\* further instances of the same row would take.
Objects == Keys \X (1..(MaxEvents + 1))
INSTANCE CacheOps WITH Instances <- Objects
Seqs == INSTANCE SequencesExt

SqlNull == 0
Tables == [Keys -> [ref : SqlNull..MaxId] \cup {NoRow}]

ASSUME BoundAssumption == {MaxId, MaxModified, MaxTracked, MaxStack, MaxEvents} \subseteq Nat

\* Room for a read, and the fill of a row, for every row there may be, and for one
\* more that finds nothing.
ASSUME StackAssumption == IsFiniteSet(Classes) /\ MaxStack >= 2 * Cardinality(Keys) + 2

ASSUME NoneAssumption ==
    NoClass \notin Classes /\ NoInstance \notin Objects /\ NoKey \notin Keys
    /\ NoRow \notin [ref : SqlNull..MaxId]

\* A class has values and at most one reference and one list, whose back reference
\* is the reference of the listed class; without a reference it has no such column.
ASSUME ShapeAssumption ==
    \A s \in Shapes :
        /\ s \in [Classes -> [props : Seq({"value", "ref", "list"}),
                              ref : Classes \cup {NoClass}, list : Classes \cup {NoClass}]]
        /\ \A c \in Classes : LET has(p) == \E n \in 1..Len(s[c].props) : s[c].props[n] = p
                             IN  /\ has("value")
                                 /\ has("ref") <=> s[c].ref # NoClass
                                 /\ has("list") <=> s[c].list # NoClass
                                 /\ s[c].list # NoClass => s[s[c].list].ref = c
        /\ TablesOf(s) \subseteq Tables
        /\ \A t \in TablesOf(s), k \in Keys :
               t[k] # NoRow /\ s[k[1]].ref = NoClass => t[k].ref = SqlNull

VARIABLES
    shape,          \* the classes of this program
    rows,           \* the tables
    obj,            \* per address: the properties of the instance there
    cache,          \* m_entityInstanceCache
    stack,          \* running calls of read() and fillEntityInstance(), innermost first
    call,           \* what the client asked for
    fatal,          \* "no", or why the process ended
    broken,         \* history: instances whose fill was interrupted by an error
    given,          \* history: removed instances, which belong to the client
    faults          \* history: statements that failed

vars == <<shape, rows, obj, cache, stack, call, fatal, broken, given, faults>>
program == <<shape, rows>>

\* The values a property can tell apart: what a constructor leaves, what the
\* row has, and what the client has set instead.
Object == [val : {"default", "stored", "changed"}, ref : Objects \cup {NoInstance},
           list : Seq(Objects)]
NewObject == [val |-> "default", ref |-> NoInstance, list |-> <<>>]
NoObject == [NewObject EXCEPT !.val = "none"]
Alive(o) == obj[o] # NoObject

ReadFrame == [kind : {"read"}, left : Seq(Keys), result : Seq(Objects), overwrite : BOOLEAN]
FillFrame == [kind : {"fill"}, inst : Objects, key : Keys, at : Nat, fresh : BOOLEAN,
              overwrite : BOOLEAN]

\* roots, dirty and known are history: the rows to read again, the instances that
\* were modified, and the rows that had an instance when the call was made.
NoCall == [why |-> "none", queue |-> <<>>, roots |-> {}, dirty |-> {}, known |-> {}]

TypeOK ==
    /\ shape \in Shapes /\ rows \in Tables
    /\ obj \in [Objects -> Object \cup {NoObject}]
    /\ cache \in Caches
    /\ stack \in Seq(ReadFrame \cup FillFrame) /\ Len(stack) <= MaxStack
    /\ call.why \in {"none", "select", "rollback"} /\ call.queue \in Seq(Objects)
    /\ call.roots \subseteq Keys /\ call.dirty \subseteq Objects /\ call.known \subseteq Keys
    /\ fatal \in {"no", "modifiedReference", "danglingReference", "rollbackFailed", "overflow"}
    /\ broken \subseteq Objects /\ given \subseteq Objects /\ faults \in 0..MaxEvents

Init ==
    /\ shape \in Shapes /\ rows \in TablesOf(shape)
    /\ obj = [o \in Objects |-> NoObject]
    /\ cache = EmptyCache
    /\ stack = <<>> /\ call = NoCall /\ fatal = "no"
    /\ broken = {} /\ given = {} /\ faults = 0

Idle == call = NoCall /\ fatal = "no"
Top == Head(stack)
Steps(kind) == fatal = "no" /\ stack # <<>> /\ Top.kind = kind

Die(why) == fatal' = why /\ UNCHANGED <<program, obj, cache, stack, call, broken, given>>

-----------------------------------------------------------------------------
(* Statements.  Rows come in the order of their ids.                       *)

InOrder(keys) == Ordered(keys, Ascending(keys))
RowsOf(c) == {k \in Keys : k[1] = c /\ rows[k] # NoRow}

\* The column a list is read by is its back reference: the property of the
\* listed class that references the class of the list.
RowsReferencing(k) == {l \in RowsOf(shape[k[1]].list) : rows[l].ref = k[2]}

Reads(keys, overwrite) ==
    [kind |-> "read", left |-> InOrder(keys), result |-> <<>>, overwrite |-> overwrite]

-----------------------------------------------------------------------------
(* The client.                                                             *)

\* A property is set.  What listens to the instance is notified if it changed.
Set(o, property, value) ==
    /\ obj' = [obj EXCEPT ![o][property] = value]
    /\ cache' = IF obj[o][property] # value THEN Notify(cache, o) ELSE cache

Change(o) ==
    /\ Idle /\ Contains(cache, o)
    /\ Cardinality(cache.modified \cup {o}) <= MaxModified
    /\ \/ obj[o].val # "changed" /\ Set(o, "val", "changed")
       \/ obj[o].ref # NoInstance /\ Set(o, "ref", NoInstance)
       \/ obj[o].list # <<>> /\ Set(o, "list", <<>>)
    /\ UNCHANGED <<program, stack, call, fatal, broken, given, faults>>

\* from<T>().filter(...).select(): the rows with some of the ids.
Select(c, ids) ==
    /\ Idle
    /\ call' = [NoCall EXCEPT !.why = "select", !.dirty = cache.modified]
    /\ stack' = <<Reads({k \in RowsOf(c) : k[2] \in ids}, FALSE)>>
    /\ UNCHANGED <<program, obj, cache, fatal, broken, given, faults>>

\* rollbackTrackedInstances(), after a transaction that has merged instances,
\* which are tracked, and removed others, which are not: their rows are back.
Rollback(queue, merged, removed) ==
    /\ Idle
    /\ merged \subseteq Seqs!ToSet(queue) /\ removed \subseteq Cached(cache)
    /\ Cardinality(given \cup removed) + faults <= MaxEvents
    /\ call' = [why |-> "rollback", queue |-> queue, roots |-> {o[1] : o \in Seqs!ToSet(queue)},
                dirty |-> cache.modified, known |-> {o[1] : o \in Cached(cache) \ removed}]
    /\ cache' = TakeAll([cache EXCEPT !.modified = @ \ merged], removed)
    /\ given' = given \cup removed
    /\ UNCHANGED <<program, obj, stack, fatal, broken, faults>>

\* Mutant: the loop does not advance.
RereadNextStays ==
    /\ fatal = "no" /\ stack = <<>> /\ call.queue # <<>>
    /\ stack' = <<Reads({Head(call.queue)[1]}, TRUE)>>
    /\ UNCHANGED <<program, obj, cache, call, fatal, broken, given, faults>>

RereadNext ==
    /\ fatal = "no" /\ stack = <<>> /\ call.queue # <<>>
    /\ stack' = <<Reads({Head(call.queue)[1]}, TRUE)>>
    /\ call' = [call EXCEPT !.queue = Tail(@)]
    /\ UNCHANGED <<program, obj, cache, fatal, broken, given, faults>>

CallReturns ==
    /\ fatal = "no" /\ call # NoCall /\ stack = <<>> /\ call.queue = <<>>
    /\ call' = NoCall
    /\ UNCHANGED <<program, obj, cache, stack, fatal, broken, given, faults>>

\* An error passes through every caller unchanged.  A select returns it, leaving
\* what it has cached; a rollback cannot go on.
Fails ==
    \/ /\ call.why = "select"
       /\ broken' = broken \cup {f.inst : f \in {g \in Seqs!ToSet(stack) : g.kind = "fill"}}
       /\ stack' = <<>>
       /\ UNCHANGED <<program, obj, cache, call, fatal, given>>
    \/ /\ call.why = "rollback"
       /\ Die("rollbackFailed")

-----------------------------------------------------------------------------
(* fillEntityInstance()                                                    *)

Properties(f) == shape[f.key[1]].props
AtProperty(property) ==
    /\ Steps("fill") /\ Top.at <= Len(Properties(Top))
    /\ Properties(Top)[Top.at] = property

\* The property is set, and the fill goes on with the next one.
Fills(rest, property, value) ==
    /\ Set(Head(rest).inst, property, value)
    /\ stack' = <<[Head(rest) EXCEPT !.at = @ + 1]>> \o Tail(rest)
    /\ UNCHANGED <<program, call, fatal, broken, given, faults>>

\* A nested read passes its flags on.  It takes a frame, and one for the fill of a
\* row.
Room == Len(stack) + 2 <= MaxStack
Asks(keys) ==
    /\ Room
    /\ stack' = <<Reads(keys, Top.overwrite)>> \o stack
    /\ UNCHANGED <<program, obj, cache, call, fatal, broken, given, faults>>

Referenced == <<shape[Top.key[1]].ref, rows[Top.key].ref>>
Target == Get(cache, Referenced)

FillValue == AtProperty("value") /\ Fills(stack, "val", "stored")

\* NULL leaves the property as it is.
FillNull ==
    /\ AtProperty("ref") /\ rows[Top.key].ref = SqlNull
    /\ Fills(stack, "ref", obj[Top.inst].ref)

FillCached ==
    /\ AtProperty("ref") /\ rows[Top.key].ref # SqlNull /\ Target # NoInstance
    /\ IsModified(cache, Target) => Top.overwrite
    /\ Fills(stack, "ref", Target)

FillModifiedFatal ==
    /\ AtProperty("ref") /\ rows[Top.key].ref # SqlNull /\ Target # NoInstance
    /\ IsModified(cache, Target) /\ ~Top.overwrite
    /\ Die("modifiedReference") /\ UNCHANGED faults

\* The referenced row is read by its id; ReadEnds sets the property.
FillReads ==
    /\ AtProperty("ref") /\ rows[Top.key].ref # SqlNull /\ Target = NoInstance
    /\ Asks({Referenced} \cap RowsOf(Referenced[1]))

\* Mutant: only what is already cached is listed.
FillListCached ==
    /\ AtProperty("list")
    /\ LET cached == InOrder({k \in RowsReferencing(Top.key) : Get(cache, k) # NoInstance})
       IN  Fills(stack, "list", [n \in 1..Len(cached) |-> Get(cache, cached[n])])

FillList == AtProperty("list") /\ Asks(RowsReferencing(Top.key))

Overflow ==
    /\ Steps("fill") /\ ~Room
    /\ \/ AtProperty("list")
       \/ AtProperty("ref") /\ rows[Top.key].ref # SqlNull /\ Target = NoInstance
    /\ Die("overflow") /\ UNCHANGED faults

\* A reference is synchronized with the schema before it is looked at.
SynchronizationFails ==
    /\ AtProperty("ref") \/ AtProperty("list")
    /\ Cardinality(given) + faults < MaxEvents /\ faults' = faults + 1
    /\ Fails

\* All properties are set.  A new instance is finalized by makeEntityInstance(),
\* one that was overwritten is marked unmodified by read(); both are results.
FillEnds ==
    /\ Steps("fill") /\ Top.at > Len(Properties(Top))
    /\ cache' = IF Top.fresh THEN Finalize(cache, Top.inst) ELSE MarkUnmodified(cache, Top.inst)
    /\ stack' = <<[stack[2] EXCEPT !.result = Append(@, Top.inst)]>> \o Tail(Tail(stack))
    /\ UNCHANGED <<program, obj, call, fatal, broken, given, faults>>

-----------------------------------------------------------------------------
(* read()                                                                  *)

Row == Head(Top.left)
CachedInstance == Get(cache, Row)
NextRow == <<[Top EXCEPT !.left = Tail(@)]>> \o Tail(stack)
EntersFill(o, fresh, overwrite) ==
    stack' = <<[kind |-> "fill", inst |-> o, key |-> Row, at |-> 1, fresh |-> fresh,
                overwrite |-> overwrite]>> \o NextRow

StatementFails ==
    /\ Steps("read") /\ Top.result = <<>>
    /\ Cardinality(given) + faults < MaxEvents /\ faults' = faults + 1
    /\ Fails

ReadCached ==
    /\ Steps("read") /\ Top.left # <<>> /\ CachedInstance # NoInstance
    /\ ~Top.overwrite /\ ~IsModified(cache, CachedInstance)
    /\ stack' = <<[Head(NextRow) EXCEPT !.result = Append(@, CachedInstance)]>> \o Tail(stack)
    /\ UNCHANGED <<program, obj, cache, call, fatal, broken, given, faults>>

\* UnsynchronizedEntity
ReadModified ==
    /\ Steps("read") /\ Top.left # <<>> /\ CachedInstance # NoInstance
    /\ ~Top.overwrite /\ IsModified(cache, CachedInstance)
    /\ Fails /\ UNCHANGED faults

\* Mutant: the flag is not tested.
ReadOverwritesAlways ==
    /\ Steps("read") /\ Top.left # <<>> /\ CachedInstance # NoInstance
    /\ EntersFill(CachedInstance, FALSE, TRUE)
    /\ UNCHANGED <<program, obj, cache, call, fatal, broken, given, faults>>

ReadOverwrites ==
    /\ Steps("read") /\ Top.left # <<>> /\ CachedInstance # NoInstance
    /\ Top.overwrite
    /\ EntersFill(CachedInstance, FALSE, TRUE)
    /\ UNCHANGED <<program, obj, cache, call, fatal, broken, given, faults>>

\* newInstance(): an address without an object.
Address(k) == <<k, CHOOSE n \in 1..(MaxEvents + 1) : ~Alive(<<k, n>>)>>

\* Mutant: the instance is cached only once it is complete.
ReadMakesUncached ==
    /\ Steps("read") /\ Top.left # <<>> /\ CachedInstance = NoInstance
    /\ obj' = [obj EXCEPT ![Address(Row)] = NewObject]
    /\ UNCHANGED cache
    /\ EntersFill(Address(Row), TRUE, FALSE)
    /\ UNCHANGED <<program, call, fatal, broken, given, faults>>

\* makeEntityInstance(): cached before it is filled, and never overwriting.
ReadMakes ==
    /\ Steps("read") /\ Top.left # <<>> /\ CachedInstance = NoInstance
    /\ obj' = [obj EXCEPT ![Address(Row)] = NewObject]
    /\ cache' = Insert(cache, Address(Row), Row)
    /\ EntersFill(Address(Row), TRUE, FALSE)
    /\ UNCHANGED <<program, call, fatal, broken, given, faults>>

\* read() returns to the client.
ReadReturns ==
    /\ Steps("read") /\ Top.left = <<>> /\ Tail(stack) = <<>>
    /\ stack' = <<>>
    /\ UNCHANGED <<program, obj, cache, call, fatal, broken, given, faults>>

\* read() returns to the fill that asked for a list.
ReadEndsList ==
    /\ Steps("read") /\ Top.left = <<>> /\ Tail(stack) # <<>>
    /\ Properties(stack[2])[stack[2].at] = "list"
    /\ Fills(Tail(stack), "list", Top.result)

\* Mutant: the result is assigned as it is to a list.
ReadEndsReferenceList ==
    /\ Steps("read") /\ Top.left = <<>> /\ Tail(stack) # <<>>
    /\ Properties(stack[2])[stack[2].at] = "ref"
    /\ Fills(Tail(stack), "ref", Top.result)

\* read() returns to the fill that asked for a reference.
ReadEndsReference ==
    /\ Steps("read") /\ Top.left = <<>> /\ Tail(stack) # <<>>
    /\ Properties(stack[2])[stack[2].at] = "ref"
    /\ \/ Len(Top.result) = 1 /\ Fills(Tail(stack), "ref", Head(Top.result))
       \/ Len(Top.result) # 1 /\ Die("danglingReference") /\ UNCHANGED faults

-----------------------------------------------------------------------------
\* Each tracked instance comes once, in any order.
Queues == {q \in Seqs!BoundedSeq(Cached(cache), MaxTracked) : q # <<>> /\ Seqs!IsInjective(q)}

Client ==
    \/ \E o \in Objects : Change(o)
    \/ \E c \in Classes, ids \in SUBSET (1..MaxId) \ {{}} : Select(c, ids)
    \/ \E q \in Queues, merged, removed \in SUBSET Cached(cache) : Rollback(q, merged, removed)

Fault == SynchronizationFails \/ StatementFails

Step ==
    \/ FillValue \/ FillNull \/ FillCached \/ FillModifiedFatal \/ FillReads \/ FillList
    \/ Overflow \/ FillEnds
    \/ ReadCached \/ ReadModified \/ ReadOverwrites \/ ReadMakes
    \/ ReadReturns \/ ReadEndsList \/ ReadEndsReference
    \/ RereadNext \/ CallReturns

Next == Client \/ Fault \/ Step

\* The code is synchronous: a call that runs takes its next step.
Spec == Init /\ [][Next]_vars /\ WF_vars(Step)

-----------------------------------------------------------------------------
(* Properties. *)

Instance(k) == Get(cache, k)

\* What the tables say of the instance of row k.  NULL says nothing of the
\* reference: the reads leave it as it is.
Agrees(o, k) ==
    LET listed == InOrder(RowsReferencing(k))
        target == <<shape[k[1]].ref, rows[k].ref>>
    IN  /\ obj[o].val = "stored"
        /\ rows[k].ref # SqlNull => target \in RowsOf(target[1]) /\ obj[o].ref = Instance(target)
        /\ shape[k[1]].list # NoClass =>
               obj[o].list = [n \in 1..Len(listed) |-> Instance(listed[n])]

PointsInto(o, S) == obj[o].ref \in S \/ \E p \in S : p \in Seqs!ToSet(obj[o].list)

\* Between the calls an instance in the cache that is not marked as modified is
\* what the tables say, with all it refers to, and its changes will be noticed:
\* in whatever order of rows, references and lists it was reached, with its own
\* read going on above it or not.  There are two exceptions: an instance that an
\* error left half filled, which later reads hand out all the same, and one that
\* still refers to an instance whose removal was rolled back
\* (qormsqliteprovider.cpp:210-412, 916-977, qormsession.cpp:99).
UnmodifiedAgrees ==
    Idle => \A o \in Cached(cache) \ (cache.modified \cup broken) :
                \/ PointsInto(o, given)
                \/ o \in cache.connected /\ Agrees(o, cache.ids[o])

\* Whatever read() makes is what the identity map gives for its row, from the
\* moment it exists: however the recursion comes to a row, in a cycle also while
\* its instance is being filled, there is no second one beside those the client
\* was given back
\* (qormsqliteprovider.cpp:218-228, 925, 962-966).
OneInstancePerRow == \A o \in Objects \ given : Alive(o) => Instance(o[1]) = o

\* The rows that are among the roots, in the lists of those, and so on, as far as
\* they are within a set.
Closed(S, within) == \A k \in S : RowsReferencing(k) \cap within \subseteq S
Reach(roots, within) ==
    {k \in Keys : \A S \in SUBSET Keys :
                      roots \cap within \subseteq S /\ Closed(S, within) => k \in S}

\* A rollback throws unsaved changes away: all those of the instances it tracks
\* and of the members of their lists, as far as they were in the cache, and none
\* but of instances it tracks or finds in lists.  A select throws away none
\* (qormsqliteprovider.cpp:271-281, 930-958).
DiscardsInReach ==
    [][/\ \A o \in cache.modified \ cache'.modified :
              \/ o \in given'
              \/ call'.why = "rollback" /\ o[1] \in Reach(call'.roots, Keys)
       /\ call.why = "rollback" /\ call' = NoCall =>
              \A o \in cache.modified : o[1] \notin Reach(call.roots, call.known)]_vars

\* The rows whose lists lead back to themselves.
Ring == {k \in Keys : \E l \in RowsReferencing(k) :
                          \A S \in SUBSET Keys : l \in S /\ Closed(S, Keys) => k \in S}

\* The process ends only for a reason: a referenced instance has unsaved
\* changes, a row references none, a statement fails while a rollback reads, or
\* an overwriting read follows lists in a ring, where nothing stops it.  After a
\* removal was rolled back, a rollback may also stumble over an instance it is
\* just reading again: setting its reference to the new instance of the removed
\* row marks it as modified
\* (qormsqliteprovider.cpp:331-337, 371-382, 930-951, qormsession.cpp:120).
DiesForAReason ==
    /\ fatal = "modifiedReference" =>
           \/ \E k \in Keys, o \in call.dirty :
                  rows[k] # NoRow /\ <<shape[k[1]].ref, rows[k].ref>> = o[1]
           \/ call.why = "rollback" /\ given # {}
    /\ fatal = "danglingReference" =>
           \E k \in Keys : /\ rows[k] # NoRow /\ rows[k].ref # SqlNull
                           /\ <<shape[k[1]].ref, rows[k].ref>> \notin RowsOf(shape[k[1]].ref)
    /\ fatal = "rollbackFailed" => faults > 0 \/ call.dirty # {} \/ given # {}
    /\ fatal = "overflow" => call.why = "rollback" /\ Ring # {}

\* Every read ends, or ends the process.
LoadEnds == (call # NoCall) ~> (Idle \/ fatal # "no")
=============================================================================
