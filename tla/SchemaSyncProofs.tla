--------------------------- MODULE SchemaSyncProofs ---------------------------
(* Theorems about SchemaSync, for any classes, references, modes and faults: *)
(* the recursion ends, a class in m_schemaSyncCache has its table, foreign   *)
(* keys come back, and altering one table loses no data.                     *)

EXTENDS SchemaSync, FiniteSetTheorems, TLAPS

-----------------------------------------------------------------------------
(* Why the recursion of ensureSchemaSynchronized() ends: a class that is     *)
(* being synchronized is not in m_schemaSyncCache, and every frame on the    *)
(* stack has put one in.                                                     *)

\* The steps between the test of the cache and the insertion into it.
Synchronizing == {"dropFirst", "create", "begin", "addColumns", "commit", "fkOff",
                  "createCopy", "copyRows", "dropOld", "rename", "fkCheck",
                  "commitUpdate", "fkOn", "synced"}

ClassesTyped ==
    /\ cache \subseteq Classes
    /\ refs \in Seq(SUBSET Classes)
    /\ target \in Classes \cup {NoClass}
    /\ pc = "ensure" => cls \in Classes

NotYetMarked == pc \in Synchronizing => cls \in Classes \ cache

FramesMarked == Len(refs) <= Cardinality(cache)

IInv == ClassesTyped /\ NotYetMarked /\ FramesMarked

-----------------------------------------------------------------------------

\* A step inside the synchronization of a class: nothing but pc and the tables
\* changes, and it goes on, or out by way of an error.
Within ==
    /\ pc \in Synchronizing \cup {"rollback"}
    /\ pc' \in Synchronizing \cup {"rollback", "failed"}
    /\ pc' \in Synchronizing => pc \in Synchronizing
    /\ UNCHANGED <<cache, refs, target, cls>>

LEMMA WithinInv == IInv /\ Within => IInv'
BY DEF IInv, ClassesTyped, NotYetMarked, FramesMarked, Within, Synchronizing

\* Every SQL statement, pragma and end of a transaction is such a step.
LEMMA SqlSteps ==
    DropFirst \/ CreateTable \/ Begin \/ AddColumns \/ Commit \/ Rollback \/ SwitchOff
      \/ CreateCopy \/ CopyRows \/ DropOld \/ Rename \/ CheckForeignKeys \/ CommitUpdate
      \/ SwitchOn
    => Within
<1> USE DEF Within, Synchronizing, other, levels, store, Statement, Pragma
<1>1. DropFirst => Within          BY DEF DropFirst
<1>2. CreateTable => Within        BY DEF CreateTable
<1>3. Begin => Within              BY DEF Begin
<1>4. AddColumns => Within         BY DEF AddColumns
<1>5. Commit => Within             BY DEF Commit
<1>6. Rollback => Within           BY DEF Rollback
<1>7. SwitchOff => Within          BY DEF SwitchOff, ForeignKeysOff
<1>8. CreateCopy => Within         BY DEF CreateCopy
<1>9. CopyRows => Within           BY DEF CopyRows
<1>10. DropOld => Within           BY DEF DropOld
<1>11. Rename => Within            BY DEF Rename
<1>12. CheckForeignKeys => Within  BY DEF CheckForeignKeys
<1>13. CommitUpdate => Within      BY DEF CommitUpdate
<1>14. SwitchOn => Within          BY DEF SwitchOn
<1> QED
  BY <1>1, <1>2, <1>3, <1>4, <1>5, <1>6, <1>7, <1>8, <1>9, <1>10, <1>11, <1>12, <1>13,
     <1>14

LEMMA RestartInv == IInv /\ Restart => IInv'
<1> SUFFICES ASSUME IInv, Restart PROVE IInv'
  OBVIOUS
<1>1. Cardinality(cache') = 0
  BY FS_EmptySet DEF Restart
<1> QED
  BY <1>1 DEF IInv, ClassesTyped, NotYetMarked, FramesMarked, Restart, Idle, Synchronizing

LEMMA CallInv == ASSUME IInv, NEW c \in Classes, Read(c) \/ Merge(c) PROVE IInv'
<1>1. CASE Restart
  BY <1>1, RestartInv
<1>2. CASE /\ pc' = "ensure" /\ cls' = c /\ target' = c
           /\ UNCHANGED <<cache, refs>>
  BY <1>2 DEF IInv, ClassesTyped, NotYetMarked, FramesMarked, Synchronizing
<1> QED
  BY <1>1, <1>2 DEF Read, Merge

\* A class enters the synchronization only if the cache does not have it.
LEMMA EnsureInv == IInv /\ Ensure => IInv'
<1> SUFFICES ASSUME IInv, Ensure PROVE IInv'
  OBVIOUS
<1>1. CASE Restart
  BY <1>1, RestartInv
<1>2. CASE /\ pc' = IF cls \in cache THEN "descend" ELSE FirstStep(cls)
           /\ UNCHANGED <<cache, refs, target, cls>>
  <2>1. cls \in Classes
    BY DEF IInv, ClassesTyped, Ensure
  <2>2. pc' # "ensure"
    BY <1>2 DEF FirstStep
  <2> QED
    BY <1>2, <2>1, <2>2 DEF IInv, ClassesTyped, NotYetMarked, FramesMarked, Synchronizing
<1> QED
  BY <1>1, <1>2 DEF Ensure

\* The frame that is pushed is paid for by the class that is marked.
LEMMA SyncedInv == IInv /\ Synced => IInv'
<1> SUFFICES ASSUME IInv, Synced PROVE IInv'
  OBVIOUS
<1>1. cls \in Classes /\ cls \notin cache
  BY DEF IInv, NotYetMarked, Synced, Synchronizing
<1>2. Refs[cls] \in SUBSET Classes
  BY <1>1, ClassesAssumption
<1>3. IsFiniteSet(cache)
  BY ClassesAssumption, FS_Subset DEF IInv, ClassesTyped
<1>4. Cardinality(cache) \in Nat /\ Cardinality(cache') = Cardinality(cache) + 1
  BY <1>1, <1>3, FS_CardinalityType, FS_AddElement DEF Synced, Mark
<1>5. refs' \in Seq(SUBSET Classes) /\ Len(refs') = Len(refs) + 1
  BY <1>2 DEF Synced, Mark, IInv, ClassesTyped
<1>6. Len(refs) \in Nat
  BY DEF IInv, ClassesTyped
<1> QED
  BY <1>1, <1>4, <1>5, <1>6
     DEF IInv, ClassesTyped, NotYetMarked, FramesMarked, Synced, Mark, Synchronizing

\* Visiting and returning do not push.
LEMMA DescendInv == IInv /\ Descend => IInv'
<1> SUFFICES ASSUME IInv, Descend PROVE IInv'
  OBVIOUS
<1>0. IsFiniteSet(cache) /\ Cardinality(cache) \in Nat
  BY ClassesAssumption, FS_Subset, FS_CardinalityType DEF IInv, ClassesTyped
<1>1. CASE /\ refs # <<>> /\ Head(refs) # {}
           /\ \E c \in Head(refs) : cls' = c /\ Visit(c)
           /\ pc' = "ensure"
  <2>1. PICK c \in Head(refs) : cls' = c /\ Visit(c)
    BY <1>1
  <2>2. Head(refs) \subseteq Classes
    BY <1>1 DEF IInv, ClassesTyped
  <2>3. refs' \in Seq(SUBSET Classes) /\ Len(refs') = Len(refs)
    BY <1>1, <2>1 DEF Visit, IInv, ClassesTyped
  <2> QED
    BY <1>1, <2>1, <2>2, <2>3
       DEF IInv, ClassesTyped, NotYetMarked, FramesMarked, Descend, Synchronizing
<1>2. CASE /\ refs # <<>> /\ Head(refs) = {}
           /\ refs' = Tail(refs)
           /\ UNCHANGED <<cls, pc>>
  <2>1. refs' \in Seq(SUBSET Classes) /\ Len(refs') = Len(refs) - 1 /\ Len(refs) \in Nat
    BY <1>2 DEF IInv, ClassesTyped
  <2> QED
    BY <1>0, <1>2, <2>1
       DEF IInv, ClassesTyped, NotYetMarked, FramesMarked, Descend, Synchronizing
<1>3. CASE pc' = "execute" /\ UNCHANGED refs
  BY <1>3 DEF IInv, ClassesTyped, NotYetMarked, FramesMarked, Descend, Synchronizing
<1> QED
  BY <1>1, <1>2, <1>3 DEF Descend

LEMMA EndInv == IInv /\ (Execute \/ Failed \/ EndCall) => IInv'
<1> SUFFICES ASSUME IInv, Execute \/ Failed \/ EndCall PROVE IInv'
  OBVIOUS
<1>0. IsFiniteSet(cache) /\ Cardinality(cache) \in Nat
  BY ClassesAssumption, FS_Subset, FS_CardinalityType DEF IInv, ClassesTyped
<1>1. CASE Execute
  BY <1>1 DEF Execute, Statement, IInv, ClassesTyped, NotYetMarked, FramesMarked,
              Synchronizing
<1>2. CASE Failed
  BY <1>0, <1>2 DEF Failed, IInv, ClassesTyped, NotYetMarked, FramesMarked, Synchronizing
<1>3. CASE EndCall
  BY <1>3 DEF EndCall, Idle, IInv, ClassesTyped, NotYetMarked, FramesMarked, Synchronizing
<1> QED
  BY <1>1, <1>2, <1>3

LEMMA SyncInvariant == Spec => []IInv
<1>1. Init => IInv
  BY FS_EmptySet DEF Init, IInv, ClassesTyped, NotYetMarked, FramesMarked, Synchronizing
<1>2. IInv /\ [Next]_vars => IInv'
  <2> SUFFICES ASSUME IInv, [Next]_vars PROVE IInv'
    OBVIOUS
  <2>1. CASE \E c \in Classes : Read(c) \/ Merge(c)
    BY <2>1, CallInv
  <2>2. CASE Step
    BY <2>2, SqlSteps, WithinInv, EnsureInv, SyncedInv, DescendInv, EndInv DEF Step
  <2>3. CASE Restart
    BY <2>3, RestartInv
  <2>4. CASE UNCHANGED vars
    BY <2>4 DEF vars, IInv, ClassesTyped, NotYetMarked, FramesMarked
  <2> QED
    BY <2>1, <2>2, <2>3, <2>4 DEF Next
<1> QED
  BY <1>1, <1>2, PTL DEF Spec

\* However classes reference each other, ensureSchemaSynchronized() is never
\* inside more calls of itself than there are classes
\* (qormsqliteprovider.cpp:477-492).
THEOREM RecursionEnds == Spec => []RecursionBounded
<1>1. IInv => RecursionBounded
  <2> SUFFICES ASSUME IInv PROVE RecursionBounded
    OBVIOUS
  <2>1. Cardinality(cache) <= Cardinality(Classes)
    BY ClassesAssumption, FS_Subset DEF IInv, ClassesTyped
  <2>2. Cardinality(cache) \in Nat /\ Cardinality(Classes) \in Nat /\ Len(refs) \in Nat
    BY ClassesAssumption, FS_Subset, FS_CardinalityType DEF IInv, ClassesTyped
  <2> QED
    BY <2>1, <2>2 DEF IInv, FramesMarked, RecursionBounded
<1> QED
  BY <1>1, SyncInvariant, PTL

-----------------------------------------------------------------------------
(* Why a class in m_schemaSyncCache has the table its mode promises as long  *)
(* as no transaction around a call was rolled back and no COMMIT refused.    *)
(* The statements on the way to the insertion touch no class that is in the  *)
(* cache already, and the counter of the provider tells which transaction a  *)
(* rollback can end: that of the class alone.                                *)

\* The types the proof needs, and which operation each step is part of.
TablesTyped ==
    /\ mode \in [Classes -> Modes]
    /\ db \in [table : MaybeTables, copy : MaybeTables]
    /\ saved \in [table : MaybeTables, copy : MaybeTables]
    /\ prov \in Int /\ sess \in Int
    /\ conn \in {"auto", "tx"}
    /\ call \in {"none", "read", "merge"}
    /\ call = "none" <=> pc = "idle"
    /\ pc = "returnRead" => call = "read"
    /\ pc \in {"commitCall", "rollbackCall"} => call = "merge"
    /\ conn = "auto" => saved = db

Altering == {"fkOff", "createCopy", "copyRows", "dropOld", "rename", "fkCheck",
             "commitUpdate", "fkOn"}

\* What has been reached on the way to the insertion into the cache.
Progress ==
    /\ pc = "dropFirst" => mode[cls] = "Recreate"
    /\ pc = "create" => mode[cls] \in {"Recreate", "Append", "Update"}
    /\ pc = "begin" => mode[cls] \in {"Append", "Update"}
    /\ pc = "addColumns" => mode[cls] = "Append" /\ Exists(cls)
    /\ pc \in Altering => mode[cls] = "Update"
    /\ pc \in {"copyRows", "dropOld", "rename"} =>
          /\ db.copy[cls] # NoTable
          /\ db.copy[cls].cols = Mapped[cls] /\ db.copy[cls].wrong = {}
    /\ pc \in {"commit", "fkCheck", "commitUpdate", "fkOn", "synced"} => FitsMode(cls)
    /\ pc = "rollback" => cls \in Classes \ cache

Tidy == troubles \subseteq {"failed"}

AfterBegin == \/ pc \in {"addColumns", "commit", "rollback", "createCopy", "copyRows",
                         "dropOld", "rename", "fkCheck", "commitUpdate"}
              \/ pc = "create" /\ mode[cls] # "Recreate"

MergeLevel == IF call = "merge" THEN 1 ELSE 0
UpdateLevel == IF AfterBegin \/ pc = "fkOn" THEN 1 ELSE 0

\* The levels the counter of the provider stands for: that of the operation,
\* that of the schema, and those that updateSchema() has left behind, with
\* which no transaction is open.
LevelsCounted ==
    Tidy =>
      /\ prov >= MergeLevel + UpdateLevel
      /\ sess = MergeLevel
      /\ pc \in {"idle", "fkOn"} => conn = "auto"
      /\ conn = "tx" =>
            /\ prov = MergeLevel + UpdateLevel
            /\ call = "read" =>
                  AfterBegin /\ \A c \in Classes \ {cls} : db.table[c] = saved.table[c]
      /\ conn = "auto" /\ call = "merge"
            /\ pc \notin {"fkOn", "rollback", "failed", "rollbackCall"}
          => prov >= 2 + UpdateLevel

FitInv == TablesTyped /\ Progress /\ LevelsCounted /\ FitUnlessUndone

-----------------------------------------------------------------------------
(* The statements.                                                          *)

\* An SQL statement of the synchronization touches the tables of its class
\* only, and is saved at once outside a transaction.
Touches ==
    /\ UNCHANGED <<mode, conn, prov, sess, call, troubles, cache, cls>>
    /\ db' \in [table : MaybeTables, copy : MaybeTables]
    /\ \A c \in Classes \ {cls} : db'.table[c] = db.table[c]
    /\ saved' = IF conn = "auto" THEN db' ELSE saved

LEMMA CachedUntouched ==
    ASSUME IInv, FitInv, cls \in Classes \ cache, Touches
    PROVE  FitUnlessUndone'
<1>1. ASSUME NEW c \in cache PROVE FitsMode(c)' = FitsMode(c)
  <2>1. c \in Classes \ {cls}
    BY DEF IInv, ClassesTyped
  <2>2. mode' = mode /\ db'.table[c] = db.table[c]
    BY <2>1 DEF Touches
  <2> QED
    BY <2>2 DEF FitsMode, Exists
<1> QED
  BY <1>1 DEF FitInv, FitUnlessUndone, CachedTablesFit, Touches

LEMMA LevelsUntouched ==
    ASSUME IInv, FitInv, Touches, AfterBegin' = AfterBegin,
           pc \in Synchronizing, pc # "fkOn", pc' \notin {"idle", "fkOn"}
    PROVE  LevelsCounted'
<1>1. UpdateLevel' = UpdateLevel /\ MergeLevel' = MergeLevel /\ Tidy' = Tidy
  BY DEF UpdateLevel, MergeLevel, Touches, Tidy
<1>2. pc \notin {"fkOn", "rollback", "failed", "rollbackCall"}
  BY DEF Synchronizing
<1>3. conn = "tx" => saved' = saved
  BY DEF Touches
<1>4. UNCHANGED <<conn, prov, sess, call, cls>>
  BY DEF Touches
<1>5. \A c \in Classes \ {cls} : db'.table[c] = db.table[c]
  BY DEF Touches
<1> QED
  BY <1>1, <1>2, <1>3, <1>4, <1>5 DEF FitInv, LevelsCounted

\* The tables after a statement about the class being synchronized.
LEMMA TablesChanged ==
    ASSUME IInv, FitInv, cls \in Classes, NEW t \in GoodTable \cup {NoTable}
    PROVE  /\ WithTable(t) \in [table : MaybeTables, copy : MaybeTables]
           /\ WithTable(t).copy = db.copy
           /\ WithTable(t).table[cls] = t
           /\ \A c \in Classes \ {cls} : WithTable(t).table[c] = db.table[c]
BY DEF WithTable, FitInv, TablesTyped, MaybeTables

LEMMA CopyChanged ==
    ASSUME IInv, FitInv, cls \in Classes, NEW t \in GoodTable \cup {NoTable}
    PROVE  LET d == [db EXCEPT !.copy[cls] = t]
           IN  /\ d \in [table : MaybeTables, copy : MaybeTables]
               /\ d.table = db.table
               /\ d.copy[cls] = t
BY DEF FitInv, TablesTyped, MaybeTables

LEMMA CreatedGood ==
    ASSUME NEW c \in Classes
    PROVE  /\ Created(c) \in GoodTable /\ Created(c) # NoTable
           /\ MissingFields(Created(c), c) = {} /\ ~UpdateNeeded(Created(c), c)
BY ClassesAssumption, NoTableAssumption
   DEF Created, GoodTable, Table, MissingFields, UpdateNeeded

LEMMA DropFirstFit == IInv /\ FitInv /\ DropFirst => FitInv'
<1> SUFFICES ASSUME IInv, FitInv, DropFirst PROVE FitInv'
  OBVIOUS
<1>1. cls \in Classes \ cache /\ mode[cls] = "Recreate"
  BY DEF IInv, NotYetMarked, Synchronizing, DropFirst, FitInv, Progress
<1>2. /\ WithTable(NoTable) \in [table : MaybeTables, copy : MaybeTables]
      /\ \A c \in Classes \ {cls} : WithTable(NoTable).table[c] = db.table[c]
  BY <1>1, TablesChanged
<1>3. Touches /\ pc' \in {"create", "failed"}
  BY <1>1, <1>2
     DEF DropFirst, Statement, store, other, fixed, levels, Touches, FitInv, TablesTyped
<1>4. TablesTyped'
  BY <1>3 DEF FitInv, TablesTyped, Touches, DropFirst
<1>5. Progress'
  BY <1>1, <1>3 DEF Progress, Touches, Altering
<1>6. AfterBegin' = AfterBegin
  BY <1>1, <1>3 DEF AfterBegin, DropFirst, Touches
<1>7. LevelsCounted'
  BY <1>3, <1>6, LevelsUntouched DEF DropFirst, Synchronizing
<1> QED
  BY <1>1, <1>3, <1>4, <1>5, <1>7, CachedUntouched DEF FitInv

LEMMA CreateTableFit == IInv /\ FitInv /\ CreateTable => FitInv'
<1> SUFFICES ASSUME IInv, FitInv, CreateTable PROVE FitInv'
  OBVIOUS
<1>1. cls \in Classes \ cache /\ mode[cls] \in {"Recreate", "Append", "Update"}
  BY DEF IInv, NotYetMarked, Synchronizing, CreateTable, FitInv, Progress
<1> DEFINE new == WithTable(Created(cls))
<1>2. /\ new \in [table : MaybeTables, copy : MaybeTables]
      /\ new.table[cls] = Created(cls)
      /\ \A c \in Classes \ {cls} : new.table[c] = db.table[c]
  BY <1>1, CreatedGood, TablesChanged
<1> HIDE DEF new
<1>3. /\ Touches
      /\ \/ mode[cls] = "Recreate" /\ pc' \in {"synced", "failed"}
         \/ mode[cls] # "Recreate" /\ pc' \in {"commit", "rollback"}
      /\ pc' \in {"synced", "commit"} => db' = new
  <2>1. CASE mode[cls] = "Recreate" /\ Statement(TRUE, new, "synced", "failed")
    BY <1>1, <1>2, <2>1
       DEF CreateTable, Statement, store, other, fixed, levels, Touches, FitInv, TablesTyped
  <2>2. CASE mode[cls] # "Recreate" /\ Statement(TRUE, new, "commit", "rollback")
    BY <1>1, <1>2, <2>2
       DEF CreateTable, Statement, store, other, fixed, levels, Touches, FitInv, TablesTyped
  <2> QED
    BY <2>1, <2>2 DEF CreateTable, new
<1>4. TablesTyped'
  BY <1>3 DEF FitInv, TablesTyped, Touches, CreateTable
<1>5. pc' \in {"synced", "commit"} => FitsMode(cls)'
  BY <1>1, <1>2, <1>3, CreatedGood DEF FitsMode, Exists, Touches
<1>6. Progress'
  BY <1>1, <1>3, <1>5 DEF Progress, Touches, Altering
<1>7. AfterBegin' = AfterBegin
  BY <1>1, <1>3 DEF AfterBegin, CreateTable, Touches
<1>8. LevelsCounted'
  BY <1>3, <1>7, LevelsUntouched DEF CreateTable, Synchronizing
<1> QED
  BY <1>1, <1>3, <1>4, <1>6, <1>8, CachedUntouched DEF FitInv

\* A column that is added leaves a table of the class.
LEMMA AddColumnsFit == IInv /\ FitInv /\ AddColumns => FitInv'
<1> SUFFICES ASSUME IInv, FitInv, AddColumns PROVE FitInv'
  OBVIOUS
<1>1. cls \in Classes \ cache /\ mode[cls] = "Append" /\ db.table[cls] # NoTable
  BY DEF IInv, NotYetMarked, Synchronizing, AddColumns, FitInv, Progress, Exists
<1>2. db.table[cls] \in GoodTable
  BY <1>1 DEF FitInv, TablesTyped, MaybeTables
<1>3. /\ Touches
      /\ \/ pc' = "commit" /\ db' = db /\ MissingFields(db.table[cls], cls) = {}
         \/ pc' = "rollback"
         \/ pc' = "addColumns" /\ db'.table[cls] # NoTable
  <2>1. CASE /\ MissingFields(db.table[cls], cls) = {}
             /\ pc' = "commit" /\ UNCHANGED <<store, faults>>
    BY <1>1, <2>1 DEF AddColumns, store, other, fixed, levels, Touches, FitInv, TablesTyped
  <2>2. ASSUME NEW f \in MissingFields(db.table[cls], cls),
               Statement(TRUE, WithTable([db.table[cls] EXCEPT !.cols = @ \cup {f}]),
                         "addColumns", "rollback")
        PROVE  Touches /\ \/ pc' = "rollback"
                          \/ pc' = "addColumns" /\ db'.table[cls] # NoTable
    <3> DEFINE t == [db.table[cls] EXCEPT !.cols = @ \cup {f}]
    <3>1. t \in GoodTable /\ t # NoTable
      BY <1>1, <1>2, ClassesAssumption, NoTableAssumption
         DEF GoodTable, Table, MissingFields
    <3> HIDE DEF t
    <3>2. /\ WithTable(t) \in [table : MaybeTables, copy : MaybeTables]
          /\ WithTable(t).table[cls] = t
          /\ \A c \in Classes \ {cls} : WithTable(t).table[c] = db.table[c]
      BY <1>1, <3>1, TablesChanged
    <3>3. Statement(TRUE, WithTable(t), "addColumns", "rollback")
      BY <2>2 DEF t
    <3> QED
      BY <1>1, <3>1, <3>2, <3>3
         DEF AddColumns, Statement, store, other, fixed, levels, Touches, FitInv,
             TablesTyped
  <2> QED
    BY <2>1, <2>2 DEF AddColumns
<1>4. TablesTyped'
  BY <1>3 DEF FitInv, TablesTyped, Touches, AddColumns
<1>5. pc' = "commit" => FitsMode(cls)'
  BY <1>1, <1>3 DEF FitsMode, Exists, Touches
<1>6. Progress'
  BY <1>1, <1>3, <1>5 DEF Progress, Touches, Altering, Exists
<1>7. AfterBegin' = AfterBegin
  BY <1>3 DEF AfterBegin, AddColumns
<1>8. LevelsCounted'
  BY <1>3, <1>7, LevelsUntouched DEF AddColumns, Synchronizing
<1> QED
  BY <1>1, <1>3, <1>4, <1>6, <1>8, CachedUntouched DEF FitInv

LEMMA CreateCopyFit == IInv /\ FitInv /\ CreateCopy => FitInv'
<1> SUFFICES ASSUME IInv, FitInv, CreateCopy PROVE FitInv'
  OBVIOUS
<1>1. cls \in Classes \ cache /\ mode[cls] = "Update"
  BY DEF IInv, NotYetMarked, Synchronizing, CreateCopy, FitInv, Progress, Altering
<1> DEFINE new == [db EXCEPT !.copy[cls] = Created(cls)]
<1>2. /\ new \in [table : MaybeTables, copy : MaybeTables]
      /\ new.table = db.table /\ new.copy[cls] = Created(cls)
  BY <1>1, CreatedGood, CopyChanged
<1> HIDE DEF new
<1>3. Statement(TRUE, new, "copyRows", "rollback")
  BY DEF CreateCopy, new
<1>4. Touches /\ \/ pc' = "rollback"
                 \/ pc' = "copyRows" /\ db' = new
  BY <1>1, <1>2, <1>3
     DEF CreateCopy, Statement, store, other, fixed, levels, Touches, FitInv, TablesTyped
<1>5. TablesTyped'
  BY <1>4 DEF FitInv, TablesTyped, Touches, CreateCopy
<1>6. pc' = "copyRows" => /\ db'.copy[cls] # NoTable
                          /\ db'.copy[cls].cols = Mapped[cls]
                          /\ db'.copy[cls].wrong = {}
  BY <1>1, <1>2, <1>4, CreatedGood DEF Created
<1>7. Progress'
  BY <1>1, <1>4, <1>6 DEF Progress, Touches, Altering
<1>8. AfterBegin' = AfterBegin
  BY <1>4 DEF AfterBegin, CreateCopy
<1>9. LevelsCounted'
  BY <1>4, <1>8, LevelsUntouched DEF CreateCopy, Synchronizing
<1> QED
  BY <1>1, <1>4, <1>5, <1>7, <1>9, CachedUntouched DEF FitInv

LEMMA CopyRowsFit == IInv /\ FitInv /\ CopyRows => FitInv'
<1> SUFFICES ASSUME IInv, FitInv, CopyRows PROVE FitInv'
  OBVIOUS
<1>1. cls \in Classes \ cache /\ mode[cls] = "Update"
  BY DEF IInv, NotYetMarked, Synchronizing, CopyRows, FitInv, Progress, Altering
<1>2. /\ db.copy[cls] \in GoodTable /\ db.copy[cls] # NoTable
      /\ db.copy[cls].cols = Mapped[cls] /\ db.copy[cls].wrong = {}
  BY <1>1 DEF CopyRows, FitInv, Progress, TablesTyped, MaybeTables
<1> DEFINE kept == CommonFields(db.table[cls], cls) \cap db.table[cls].kept
           t == [db.copy[cls] EXCEPT !.kept = kept]
           new == [db EXCEPT !.copy[cls].kept = kept]
<1>3. t \in GoodTable /\ t # NoTable /\ t.cols = Mapped[cls] /\ t.wrong = {}
  BY <1>1, <1>2, ClassesAssumption, NoTableAssumption DEF GoodTable, Table, CommonFields
<1>4. new = [db EXCEPT !.copy[cls] = t]
  BY <1>1, <1>2 DEF FitInv, TablesTyped, MaybeTables
<1> HIDE DEF t
<1>5. /\ [db EXCEPT !.copy[cls] = t] \in [table : MaybeTables, copy : MaybeTables]
      /\ [db EXCEPT !.copy[cls] = t].table = db.table
      /\ [db EXCEPT !.copy[cls] = t].copy[cls] = t
  BY <1>1, <1>3, CopyChanged
<1>6. Statement(CommonFields(db.table[cls], cls) # {}, new, "dropOld", "rollback")
  BY DEF CopyRows
<1> HIDE DEF new
<1>7. Touches /\ \/ pc' = "rollback"
                 \/ pc' = "dropOld" /\ db' = new
  BY <1>1, <1>4, <1>5, <1>6
     DEF CopyRows, Statement, store, other, fixed, levels, Touches, FitInv, TablesTyped
<1>8. TablesTyped'
  BY <1>7 DEF FitInv, TablesTyped, Touches, CopyRows
<1>9. pc' = "dropOld" => /\ db'.copy[cls] # NoTable
                         /\ db'.copy[cls].cols = Mapped[cls]
                         /\ db'.copy[cls].wrong = {}
  BY <1>3, <1>4, <1>5, <1>7
<1>10. Progress'
  BY <1>1, <1>7, <1>9 DEF Progress, Touches, Altering
<1>11. AfterBegin' = AfterBegin
  BY <1>7 DEF AfterBegin, CopyRows
<1>12. LevelsCounted'
  BY <1>7, <1>11, LevelsUntouched DEF CopyRows, Synchronizing
<1> QED
  BY <1>1, <1>7, <1>8, <1>10, <1>12, CachedUntouched DEF FitInv

LEMMA DropOldFit == IInv /\ FitInv /\ DropOld => FitInv'
<1> SUFFICES ASSUME IInv, FitInv, DropOld PROVE FitInv'
  OBVIOUS
<1>1. cls \in Classes \ cache /\ mode[cls] = "Update"
  BY DEF IInv, NotYetMarked, Synchronizing, DropOld, FitInv, Progress, Altering
<1> DEFINE new == WithTable(NoTable)
<1>2. /\ new \in [table : MaybeTables, copy : MaybeTables] /\ new.copy = db.copy
      /\ \A c \in Classes \ {cls} : new.table[c] = db.table[c]
  BY <1>1, TablesChanged
<1> HIDE DEF new
<1>3. Statement(TRUE, new, "rename", "rollback")
  BY DEF DropOld, new
<1>4. Touches /\ \/ pc' = "rollback"
                 \/ pc' = "rename" /\ db'.copy = db.copy
  BY <1>1, <1>2, <1>3
     DEF DropOld, Statement, store, other, fixed, levels, Touches, FitInv, TablesTyped
<1>5. TablesTyped'
  BY <1>4 DEF FitInv, TablesTyped, Touches, DropOld
<1>6. Progress'
  BY <1>1, <1>4 DEF FitInv, Progress, Touches, Altering, DropOld
<1>7. AfterBegin' = AfterBegin
  BY <1>4 DEF AfterBegin, DropOld
<1>8. LevelsCounted'
  BY <1>4, <1>7, LevelsUntouched DEF DropOld, Synchronizing
<1> QED
  BY <1>1, <1>4, <1>5, <1>6, <1>8, CachedUntouched DEF FitInv

\* The copy is what the mapping says, and takes the place of the table.
LEMMA RenameFit == IInv /\ FitInv /\ Rename => FitInv'
<1> SUFFICES ASSUME IInv, FitInv, Rename PROVE FitInv'
  OBVIOUS
<1>1. cls \in Classes \ cache /\ mode[cls] = "Update"
  BY DEF IInv, NotYetMarked, Synchronizing, Rename, FitInv, Progress, Altering
<1>2. /\ db.copy[cls] # NoTable
      /\ db.copy[cls].cols = Mapped[cls] /\ db.copy[cls].wrong = {}
  BY DEF Rename, FitInv, Progress
<1> DEFINE new == Renamed(cls)
<1>3. /\ new \in [table : MaybeTables, copy : MaybeTables]
      /\ new.table[cls] = db.copy[cls]
      /\ \A c \in Classes \ {cls} : new.table[c] = db.table[c]
  BY <1>1 DEF Renamed, FitInv, TablesTyped, MaybeTables
<1> HIDE DEF new
<1>4. Statement(TRUE, new, IF withFk THEN "fkCheck" ELSE "commitUpdate", "rollback")
  BY DEF Rename, new
<1>5. Touches /\ \/ pc' = "rollback"
                 \/ pc' \in {"fkCheck", "commitUpdate"} /\ db' = new
  BY <1>1, <1>3, <1>4
     DEF Rename, Statement, store, other, fixed, levels, Touches, FitInv, TablesTyped
<1>6. TablesTyped'
  BY <1>5 DEF FitInv, TablesTyped, Touches, Rename
<1>7. pc' \in {"fkCheck", "commitUpdate"} => FitsMode(cls)'
  BY <1>1, <1>2, <1>3, <1>5 DEF FitsMode, Exists, UpdateNeeded, Touches
<1>8. Progress'
  BY <1>1, <1>5, <1>7 DEF Progress, Touches, Altering
<1>9. AfterBegin' = AfterBegin
  BY <1>5 DEF AfterBegin, Rename
<1>10. LevelsCounted'
  BY <1>5, <1>9, LevelsUntouched DEF Rename, Synchronizing
<1> QED
  BY <1>1, <1>5, <1>6, <1>8, <1>10, CachedUntouched DEF FitInv

LEMMA CheckFit == IInv /\ FitInv /\ CheckForeignKeys => FitInv'
<1> SUFFICES ASSUME IInv, FitInv, CheckForeignKeys PROVE FitInv'
  OBVIOUS
<1>1. cls \in Classes \ cache /\ mode[cls] = "Update" /\ FitsMode(cls)
  BY DEF IInv, NotYetMarked, Synchronizing, CheckForeignKeys, FitInv, Progress, Altering
<1>2. Touches /\ pc' \in {"rollback", "commitUpdate"} /\ db' = db
  BY <1>1 DEF CheckForeignKeys, Statement, store, other, fixed, levels, Touches, FitInv,
              TablesTyped
<1>3. TablesTyped'
  BY <1>2 DEF FitInv, TablesTyped, Touches, CheckForeignKeys
<1>4. FitsMode(cls)'
  BY <1>1, <1>2 DEF FitsMode, Exists, Touches
<1>5. Progress'
  BY <1>1, <1>2, <1>4 DEF Progress, Touches, Altering
<1>6. AfterBegin' = AfterBegin
  BY <1>2 DEF AfterBegin, CheckForeignKeys
<1>7. LevelsCounted'
  BY <1>2, <1>6, LevelsUntouched DEF CheckForeignKeys, Synchronizing
<1> QED
  BY <1>1, <1>2, <1>3, <1>5, <1>7, CachedUntouched DEF FitInv

-----------------------------------------------------------------------------
(* The transactions of the class.                                           *)

\* As long as the tables are those there were, the cached classes fit.
LEMMA CachedKept ==
    ASSUME FitInv, UNCHANGED <<mode, db, cache>>, Tidy' => Tidy
    PROVE  FitUnlessUndone'
<1>1. ASSUME NEW c \in cache PROVE FitsMode(c)' = FitsMode(c)
  BY DEF FitsMode, Exists
<1> QED
  BY <1>1 DEF FitInv, FitUnlessUndone, CachedTablesFit, Tidy

LEMMA BeginFit == IInv /\ FitInv /\ Begin => FitInv'
<1> SUFFICES ASSUME IInv, FitInv, Begin PROVE FitInv'
  OBVIOUS
<1>1. pc = "begin" /\ cls \in Classes \ cache /\ mode[cls] \in {"Append", "Update"}
  BY DEF IInv, NotYetMarked, Synchronizing, Begin, FitInv, Progress
<1>2. /\ UNCHANGED <<mode, cache, call, cls, sess, troubles, db, saved>>
      /\ prov' = prov + 1 /\ conn' = IF prov = 0 THEN "tx" ELSE conn
  BY DEF Begin, ProviderBegin, other, fixed, store
<1>3. \/ pc' = "create"
      \/ pc' = "addColumns" /\ mode[cls] = "Append" /\ Exists(cls)
      \/ pc' = "createCopy" /\ mode[cls] = "Update"
  BY <1>1 DEF Begin
<1>4. TablesTyped'
  BY <1>1, <1>2, <1>3 DEF FitInv, TablesTyped
<1>5. Progress'
  BY <1>1, <1>2, <1>3 DEF Progress, Altering, Exists
<1>6. UpdateLevel = 0 /\ UpdateLevel' = 1 /\ MergeLevel' = MergeLevel /\ AfterBegin'
      /\ ~AfterBegin /\ MergeLevel \in {0, 1} /\ Tidy' = Tidy
  BY <1>1, <1>2, <1>3 DEF UpdateLevel, MergeLevel, AfterBegin, Tidy
<1>7. LevelsCounted'
  <2> SUFFICES ASSUME Tidy PROVE LevelsCounted'
    BY <1>6 DEF LevelsCounted
  <2>1. /\ prov >= MergeLevel /\ sess = MergeLevel
        /\ conn = "tx" => prov = MergeLevel /\ call # "read"
        /\ conn = "auto" /\ call = "merge" => prov >= 2
    BY <1>1, <1>6 DEF FitInv, LevelsCounted
  <2>2. /\ prov \in Int /\ conn \in {"auto", "tx"}
        /\ conn = "auto" => saved = db
    BY DEF FitInv, TablesTyped
  <2>3. pc' \notin {"idle", "fkOn"}
    BY <1>3
  <2> QED
    BY <1>2, <1>6, <2>1, <2>2, <2>3 DEF LevelsCounted
<1> QED
  BY <1>2, <1>4, <1>5, <1>6, <1>7, CachedKept DEF FitInv

\* A commit leaves the connection without a transaction, and the counter at
\* the level of the merge, or above.
LEMMA CommitFit == IInv /\ FitInv /\ Commit => FitInv'
<1> SUFFICES ASSUME IInv, FitInv, Commit PROVE FitInv'
  OBVIOUS
<1>1. pc = "commit" /\ pc' = "synced" /\ cls \in Classes \ cache /\ FitsMode(cls)
  BY DEF IInv, NotYetMarked, Synchronizing, Commit, FitInv, Progress
<1>2. UNCHANGED <<mode, cache, call, cls, sess, db>> /\ prov' = prov - 1
  BY DEF Commit, ProviderEnd, SqlCommit, CommitRefused, other, fixed
<1>3. \/ prov = 1 /\ conn = "tx" /\ conn' = "auto" /\ saved' = db /\ UNCHANGED troubles
      \/ ~(prov = 1 /\ conn = "tx") /\ UNCHANGED <<conn, saved, troubles>>
      \/ ~Tidy' /\ UNCHANGED <<conn, saved>>
  BY DEF Commit, ProviderEnd, SqlCommit, CommitRefused, Tidy
<1>4. TablesTyped'
  BY <1>1, <1>2, <1>3 DEF FitInv, TablesTyped
<1>5. FitsMode(cls)'
  BY <1>1, <1>2 DEF FitsMode, Exists
<1>6. Progress'
  BY <1>1, <1>2, <1>5 DEF Progress, Altering
<1>7. /\ UpdateLevel = 1 /\ UpdateLevel' = 0 /\ MergeLevel' = MergeLevel
      /\ MergeLevel = IF call = "merge" THEN 1 ELSE 0
      /\ Tidy' => Tidy
  BY <1>1, <1>2, <1>3 DEF UpdateLevel, MergeLevel, AfterBegin, Tidy
<1>8. LevelsCounted'
  <2> SUFFICES ASSUME Tidy, Tidy' PROVE LevelsCounted'
    BY <1>7 DEF LevelsCounted
  <2>1. /\ prov >= MergeLevel + 1 /\ sess = MergeLevel
        /\ conn = "tx" => prov = MergeLevel + 1
        /\ conn = "auto" /\ call = "merge" => prov >= 3
    BY <1>1, <1>7 DEF FitInv, LevelsCounted
  <2>2. prov \in Int /\ conn \in {"auto", "tx"}
    BY DEF FitInv, TablesTyped
  <2> QED
    BY <1>1, <1>2, <1>3, <1>7, <2>1, <2>2 DEF LevelsCounted
<1> QED
  BY <1>2, <1>4, <1>6, <1>7, <1>8, CachedKept DEF FitInv

\* The transaction a rollback ends is that of the class alone: inside a merge
\* the counter is above 1.
LEMMA RollbackFit == IInv /\ FitInv /\ Rollback => FitInv'
<1> SUFFICES ASSUME IInv, FitInv, Rollback PROVE FitInv'
  OBVIOUS
<1>1. pc = "rollback" /\ pc' = "failed" /\ cls \in Classes \ cache /\ AfterBegin
  BY DEF Rollback, FitInv, Progress, AfterBegin
<1>2. UNCHANGED <<mode, cache, call, cls, sess, troubles, saved>> /\ prov' = prov - 1
  BY DEF Rollback, ProviderEnd, SqlRollback, other, fixed
<1>3. \/ prov = 1 /\ conn = "tx" /\ conn' = "auto" /\ db' = saved
      \/ ~(prov = 1 /\ conn = "tx") /\ UNCHANGED <<conn, db>>
  BY DEF Rollback, ProviderEnd, SqlRollback
<1>4. TablesTyped'
  BY <1>1, <1>2, <1>3 DEF FitInv, TablesTyped
<1>5. Progress'
  BY <1>1 DEF Progress, Altering
<1>6. /\ UpdateLevel = 1 /\ UpdateLevel' = 0 /\ MergeLevel' = MergeLevel
      /\ MergeLevel = IF call = "merge" THEN 1 ELSE 0
      /\ Tidy' = Tidy
  BY <1>1, <1>2 DEF UpdateLevel, MergeLevel, AfterBegin, Tidy
<1>7. Tidy => /\ prov >= MergeLevel + 1 /\ sess = MergeLevel
              /\ conn = "tx" =>
                    /\ prov = MergeLevel + 1
                    /\ call = "read" =>
                          \A c \in Classes \ {cls} : db.table[c] = saved.table[c]
  BY <1>6 DEF FitInv, LevelsCounted
<1>8. /\ prov \in Int /\ conn \in {"auto", "tx"} /\ call \in {"read", "merge"}
  BY <1>1 DEF FitInv, TablesTyped
<1>9. LevelsCounted'
  BY <1>1, <1>2, <1>3, <1>6, <1>7, <1>8 DEF LevelsCounted
<1>10. FitUnlessUndone'
  <2>1. CASE db' = db
    BY <1>2, <1>6, <2>1, CachedKept
  <2>2. CASE ~Tidy
    BY <1>6, <2>2 DEF FitUnlessUndone, Tidy
  <2>3. CASE Tidy /\ prov = 1 /\ conn = "tx" /\ db' = saved
    <3>1. call = "read" /\ \A c \in Classes \ {cls} : db'.table[c] = db.table[c]
      BY <1>6, <1>7, <1>8, <2>3
    <3>2. ASSUME NEW c \in cache PROVE FitsMode(c)'
      <4>1. c \in Classes \ {cls} /\ FitsMode(c)
        BY <1>1, <2>3 DEF IInv, ClassesTyped, FitInv, FitUnlessUndone, CachedTablesFit, Tidy
      <4>2. mode' = mode /\ db'.table[c] = db.table[c]
        BY <1>2, <3>1, <4>1
      <4> QED
        BY <4>1, <4>2 DEF FitsMode, Exists
    <3> QED
      BY <1>2, <3>2 DEF FitUnlessUndone, CachedTablesFit
  <2> QED
    BY <1>3, <2>1, <2>2, <2>3
<1> QED
  BY <1>4, <1>5, <1>9, <1>10 DEF FitInv

LEMMA CommitUpdateFit == IInv /\ FitInv /\ CommitUpdate => FitInv'
<1> SUFFICES ASSUME IInv, FitInv, CommitUpdate PROVE FitInv'
  OBVIOUS
<1>1. /\ pc = "commitUpdate" /\ pc' \in {"fkOn", "synced"}
      /\ cls \in Classes \ cache /\ FitsMode(cls) /\ mode[cls] = "Update"
  BY DEF IInv, NotYetMarked, Synchronizing, CommitUpdate, FitInv, Progress, Altering
<1>2. UNCHANGED <<mode, cache, call, cls, sess, prov, db>>
  BY DEF CommitUpdate, SqlCommit, CommitRefused, other, fixed, store
<1>3. \/ conn' = "auto" /\ saved' = db /\ UNCHANGED troubles
      \/ ~Tidy' /\ UNCHANGED <<conn, saved>>
  BY DEF CommitUpdate, SqlCommit, CommitRefused, Tidy, FitInv, TablesTyped, store
<1>4. TablesTyped'
  BY <1>1, <1>2, <1>3 DEF FitInv, TablesTyped
<1>5. FitsMode(cls)'
  BY <1>1, <1>2 DEF FitsMode, Exists
<1>6. Progress'
  BY <1>1, <1>2, <1>5 DEF Progress, Altering
<1>7. /\ UpdateLevel = 1 /\ UpdateLevel' = IF pc' = "fkOn" THEN 1 ELSE 0
      /\ MergeLevel' = MergeLevel /\ MergeLevel = IF call = "merge" THEN 1 ELSE 0
      /\ Tidy' => Tidy
  BY <1>1, <1>2, <1>3 DEF UpdateLevel, MergeLevel, AfterBegin, Tidy
<1>8. LevelsCounted'
  <2> SUFFICES ASSUME Tidy, Tidy' PROVE LevelsCounted'
    BY <1>7 DEF LevelsCounted
  <2>1. prov >= MergeLevel + 1 /\ sess = MergeLevel
    BY <1>7 DEF FitInv, LevelsCounted
  <2>2. prov \in Int
    BY DEF FitInv, TablesTyped
  <2> QED
    BY <1>1, <1>2, <1>3, <1>7, <2>1, <2>2 DEF LevelsCounted
<1> QED
  BY <1>2, <1>4, <1>6, <1>7, <1>8, CachedKept DEF FitInv

\* The pragmas change neither tables nor levels.
LEMMA PragmaFit == IInv /\ FitInv /\ (SwitchOff \/ SwitchOn) => FitInv'
<1> SUFFICES ASSUME IInv, FitInv, SwitchOff \/ SwitchOn PROVE FitInv'
  OBVIOUS
<1>1. /\ \/ pc = "fkOff" /\ pc' \in {"begin", "failed"}
         \/ pc = "fkOn" /\ pc' \in {"synced", "rollback"} /\ FitsMode(cls)
      /\ cls \in Classes \ cache /\ mode[cls] = "Update"
  <2>1. pc \in {"fkOff", "fkOn"}
    BY DEF SwitchOff, SwitchOn
  <2>2. /\ cls \in Classes \ cache /\ mode[cls] = "Update"
        /\ pc = "fkOn" => FitsMode(cls)
    BY <2>1 DEF IInv, NotYetMarked, Synchronizing, FitInv, Progress, Altering
  <2>3. /\ pc = "fkOff" => pc' \in {"begin", "failed"}
        /\ pc = "fkOn" => pc' \in {"synced", "rollback"}
    BY DEF SwitchOff, SwitchOn, ForeignKeysOff, Pragma
  <2> QED
    BY <2>1, <2>2, <2>3
<1>2. UNCHANGED <<mode, cache, call, cls, sess, prov, conn, db, saved, troubles>>
  BY DEF SwitchOff, SwitchOn, store, levels, fixed
<1>3. TablesTyped'
  BY <1>1, <1>2 DEF FitInv, TablesTyped
<1>4. FitsMode(cls)' = FitsMode(cls)
  BY <1>2 DEF FitsMode, Exists
<1>5. Progress'
  BY <1>1, <1>2, <1>4 DEF Progress, Altering
<1>6. /\ UpdateLevel = IF pc = "fkOn" THEN 1 ELSE 0
      /\ UpdateLevel' = IF pc' = "rollback" THEN 1 ELSE 0
      /\ MergeLevel' = MergeLevel /\ MergeLevel = IF call = "merge" THEN 1 ELSE 0
      /\ Tidy' = Tidy /\ ~AfterBegin
  BY <1>1, <1>2 DEF UpdateLevel, MergeLevel, AfterBegin, Tidy
<1>7. LevelsCounted'
  <2> SUFFICES ASSUME Tidy PROVE LevelsCounted'
    BY <1>6 DEF LevelsCounted
  <2>1. /\ prov >= MergeLevel + UpdateLevel /\ sess = MergeLevel
        /\ pc = "fkOn" => conn = "auto"
        /\ conn = "tx" => prov = MergeLevel + UpdateLevel /\ call # "read"
        /\ conn = "auto" /\ call = "merge" /\ pc = "fkOff" => prov >= 2 + UpdateLevel
    BY <1>6 DEF FitInv, LevelsCounted
  <2>2. prov \in Int /\ conn \in {"auto", "tx"}
    BY DEF FitInv, TablesTyped
  <2>3. CASE pc = "fkOff"
    BY <1>1, <1>2, <1>6, <2>1, <2>2, <2>3 DEF LevelsCounted
  <2>4. CASE pc = "fkOn"
    BY <1>1, <1>2, <1>6, <2>1, <2>2, <2>4 DEF LevelsCounted
  <2> QED
    BY <1>1, <2>3, <2>4
<1> QED
  BY <1>2, <1>3, <1>5, <1>6, <1>7, CachedKept DEF FitInv

-----------------------------------------------------------------------------
(* The call and the recursion.                                              *)

\* Steps outside the synchronization of a class that neither end the call nor
\* touch tables, cache or levels.
Outside == {"ensure", "descend", "execute", "failed", "synced", "returnRead",
            "commitCall", "rollbackCall", "dropFirst", "begin", "fkOff"}

LEMMA OutsideLevels ==
    ASSUME FitInv, pc \in {"ensure", "descend", "execute", "failed", "synced"},
           pc' \in Outside \/ (pc' = "create" /\ mode[cls'] = "Recreate"),
           UNCHANGED <<mode, db, saved, conn, prov, sess, call>>,
           Tidy' = Tidy,
           pc # "failed" \/ call = "read" \/ pc' = "rollbackCall"
    PROVE  LevelsCounted'
<1>1. ~AfterBegin /\ UpdateLevel = 0 /\ UpdateLevel' = 0 /\ MergeLevel' = MergeLevel
  BY DEF Outside, AfterBegin, UpdateLevel, MergeLevel
<1>2. pc \notin {"idle", "fkOn"} /\ pc' \notin {"idle", "fkOn"}
  BY DEF Outside
<1>3. ASSUME Tidy, conn = "tx" PROVE call # "read"
  BY <1>1, <1>3 DEF FitInv, LevelsCounted
<1> QED
  BY <1>1, <1>2, <1>3 DEF FitInv, LevelsCounted, TablesTyped

LEMMA RestartFit == IInv /\ FitInv /\ Restart => FitInv'
<1> SUFFICES ASSUME IInv, FitInv, Restart PROVE FitInv'
  OBVIOUS
<1>1. /\ mode' = mode /\ db' = saved /\ saved' = saved
      /\ conn' = "auto" /\ prov' = 0 /\ sess' = 0 /\ call' = "none" /\ pc' = "idle"
      /\ cache' = {}
  BY DEF Restart, Idle, fixed
<1>2. TablesTyped'
  BY <1>1 DEF FitInv, TablesTyped
<1>3. Progress'
  BY <1>1 DEF Progress, Altering
<1>4. LevelsCounted'
  BY <1>1 DEF LevelsCounted, UpdateLevel, MergeLevel, AfterBegin
<1>5. FitUnlessUndone'
  BY <1>1 DEF FitUnlessUndone, CachedTablesFit
<1> QED
  BY <1>2, <1>3, <1>4, <1>5 DEF FitInv

LEMMA CallFit == ASSUME IInv, FitInv, NEW c \in Classes, Read(c) \/ Merge(c) PROVE FitInv'
<1>1. CASE Restart
  BY <1>1, RestartFit
<1>2. ASSUME ~Restart PROVE FitInv'
  <2>1. /\ pc = "idle" /\ pc' = "ensure"
        /\ UNCHANGED <<mode, db, saved, cache, troubles>>
        /\ \/ call' = "read" /\ UNCHANGED <<prov, sess, conn>>
           \/ /\ call' = "merge" /\ sess' = sess + 1
              /\ \/ /\ sess = 0 /\ prov' = prov + 1
                    /\ conn' = IF prov = 0 THEN "tx" ELSE conn
                 \/ sess # 0 /\ UNCHANGED <<prov, conn>>
    BY <1>2 DEF Read, Merge, ProviderBegin, fixed, store, levels
  <2>2. TablesTyped'
    BY <2>1 DEF FitInv, TablesTyped
  <2>3. Progress'
    BY <2>1 DEF Progress, Altering
  <2>4. /\ UpdateLevel = 0 /\ UpdateLevel' = 0 /\ MergeLevel = 0 /\ Tidy' = Tidy
        /\ MergeLevel' = IF call' = "merge" THEN 1 ELSE 0
    BY <2>1 DEF UpdateLevel, MergeLevel, AfterBegin, Tidy, FitInv, TablesTyped
  <2>5. LevelsCounted'
    <3>1. Tidy => prov >= 0 /\ sess = 0 /\ conn = "auto"
      BY <2>1, <2>4 DEF FitInv, LevelsCounted
    <3>2. prov \in Int /\ sess \in Int
      BY DEF FitInv, TablesTyped
    <3> QED
      BY <2>1, <2>4, <3>1, <3>2 DEF LevelsCounted
  <2> QED
    BY <2>1, <2>2, <2>3, <2>4, <2>5, CachedKept DEF FitInv
<1> QED
  BY <1>1, <1>2

LEMMA ExecuteFit == IInv /\ FitInv /\ Execute => FitInv'
<1> SUFFICES ASSUME IInv, FitInv, Execute PROVE FitInv'
  OBVIOUS
<1>1. /\ pc = "execute"
      /\ pc' \in {IF call = "read" THEN "returnRead" ELSE "commitCall", "failed"}
  BY DEF Execute, Statement
<1>2. UNCHANGED <<mode, db, saved, conn, prov, sess, call, cache, troubles>>
  BY DEF Execute, Statement, FitInv, TablesTyped, fixed, store, levels
<1>3. call \in {"read", "merge"}
  BY <1>1 DEF FitInv, TablesTyped
<1>4. TablesTyped'
  BY <1>1, <1>2, <1>3 DEF FitInv, TablesTyped
<1>5. Progress'
  BY <1>1 DEF Progress, Altering
<1>6. Tidy' = Tidy
  BY <1>2 DEF Tidy
<1>7. pc' \in Outside
  BY <1>1 DEF Outside
<1>8. LevelsCounted'
  <2>1. UNCHANGED <<mode, db, saved, conn, prov, sess, call>>
    BY <1>2
  <2>2. pc # "failed" \/ call = "read" \/ pc' = "rollbackCall"
    BY <1>1
  <2>3. pc \in {"ensure", "descend", "execute", "failed", "synced"}
    BY <1>1
  <2> QED
    BY <2>1, <2>2, <2>3, <1>6, <1>7, OutsideLevels
<1> QED
  BY <1>2, <1>4, <1>5, <1>6, <1>8, CachedKept DEF FitInv

LEMMA FailedFit == IInv /\ FitInv /\ Failed => FitInv'
<1> SUFFICES ASSUME IInv, FitInv, Failed PROVE FitInv'
  OBVIOUS
<1>1. pc = "failed" /\ pc' = IF call = "read" THEN "returnRead" ELSE "rollbackCall"
  BY DEF Failed
<1>2. UNCHANGED <<mode, db, saved, conn, prov, sess, call, cache>>
  BY DEF Failed, fixed, store, levels
<1>3. call \in {"read", "merge"}
  BY <1>1 DEF FitInv, TablesTyped
<1>4. TablesTyped'
  BY <1>1, <1>2, <1>3 DEF FitInv, TablesTyped
<1>5. Progress'
  BY <1>1 DEF Progress, Altering
<1>6. Tidy' = Tidy
  BY DEF Failed, Tidy
<1>7. pc' \in Outside
  BY <1>1 DEF Outside
<1>8. LevelsCounted'
  BY <1>1, <1>2, <1>6, <1>7, OutsideLevels
<1> QED
  BY <1>2, <1>4, <1>5, <1>6, <1>8, CachedKept DEF FitInv

LEMMA DescendFit == IInv /\ FitInv /\ Descend => FitInv'
<1> SUFFICES ASSUME IInv, FitInv, Descend PROVE FitInv'
  OBVIOUS
<1>1. pc = "descend" /\ pc' \in {"ensure", "descend", "execute"}
  BY DEF Descend
<1>2. UNCHANGED <<mode, db, saved, conn, prov, sess, call, cache, troubles>>
  BY DEF Descend, fixed, store, levels
<1>3. TablesTyped'
  BY <1>1, <1>2 DEF FitInv, TablesTyped
<1>4. Progress'
  BY <1>1 DEF Progress, Altering
<1>5. Tidy' = Tidy
  BY <1>2 DEF Tidy
<1>6. LevelsCounted'
  BY <1>1, <1>2, <1>5, OutsideLevels DEF Outside
<1> QED
  BY <1>2, <1>3, <1>4, <1>5, <1>6, CachedKept DEF FitInv

\* A class goes the way of its mode, and without a step if its table fits.
LEMMA EnsureFit == IInv /\ FitInv /\ Ensure => FitInv'
<1> SUFFICES ASSUME IInv, FitInv, Ensure PROVE FitInv'
  OBVIOUS
<1>1. CASE Restart
  BY <1>1, RestartFit
<1>2. ASSUME ~Restart PROVE FitInv'
  <2>1. /\ pc = "ensure" /\ cls \in Classes
        /\ cls \in cache \/ mode[cls] # "Validate"
        /\ pc' = IF cls \in cache THEN "descend" ELSE FirstStep(cls)
        /\ UNCHANGED <<mode, db, saved, conn, prov, sess, call, cls, cache, troubles>>
    BY <1>2 DEF Ensure, IInv, ClassesTyped, fixed, store, levels
  <2>2. mode[cls] \in AllModes
    BY <2>1, BoundsAssumption DEF FitInv, TablesTyped
  <2>3. \/ pc' = "descend"
        \/ mode[cls] = "Recreate" /\ pc' \in {"dropFirst", "create"}
        \/ mode[cls] \in {"Append", "Update"} /\ pc' = "begin"
        \/ mode[cls] = "Update" /\ pc' = "fkOff"
        \/ pc' = "synced" /\ FitsMode(cls)
    BY <2>1, <2>2 DEF FirstStep, FitsMode, Outdated, AllModes
  <2>4. TablesTyped'
    BY <2>1, <2>3 DEF FitInv, TablesTyped
  <2>5. FitsMode(cls)' = FitsMode(cls)
    BY <2>1 DEF FitsMode, Exists
  <2>6. Progress'
    BY <2>1, <2>3, <2>5 DEF Progress, Altering
  <2>7. Tidy' = Tidy
    BY <2>1 DEF Tidy
  <2>8. LevelsCounted'
    BY <2>1, <2>3, <2>7, OutsideLevels DEF Outside
  <2> QED
    BY <2>1, <2>4, <2>6, <2>7, <2>8, CachedKept DEF FitInv
<1> QED
  BY <1>1, <1>2

\* The class that is marked fits.
LEMMA SyncedFit == IInv /\ FitInv /\ Synced => FitInv'
<1> SUFFICES ASSUME IInv, FitInv, Synced PROVE FitInv'
  OBVIOUS
<1>1. pc = "synced" /\ pc' = "descend" /\ FitsMode(cls)
  BY DEF Synced, FitInv, Progress
<1>2. /\ UNCHANGED <<mode, db, saved, conn, prov, sess, call, troubles>>
      /\ cache' = cache \cup {cls}
  BY DEF Synced, Mark, fixed, store, levels
<1>3. TablesTyped'
  BY <1>1, <1>2 DEF FitInv, TablesTyped
<1>4. Progress'
  BY <1>1 DEF Progress, Altering
<1>5. Tidy' = Tidy
  BY <1>2 DEF Tidy
<1>6. LevelsCounted'
  BY <1>1, <1>2, <1>5, OutsideLevels DEF Outside
<1>7. FitUnlessUndone'
  <2>1. ASSUME NEW c \in cache', FitsMode(c) PROVE FitsMode(c)'
    BY <1>2, <2>1 DEF FitsMode, Exists
  <2>2. ASSUME NEW c \in cache', Tidy' PROVE FitsMode(c)
    BY <1>1, <1>2, <1>5, <2>2 DEF FitInv, FitUnlessUndone, CachedTablesFit, Tidy
  <2> QED
    BY <2>1, <2>2 DEF FitUnlessUndone, CachedTablesFit, Tidy
<1> QED
  BY <1>3, <1>4, <1>6, <1>7 DEF FitInv

\* With a call the level it began ends, and the transaction with it.
LEMMA EndCallFit == IInv /\ FitInv /\ EndCall => FitInv'
<1> SUFFICES ASSUME IInv, FitInv, EndCall PROVE FitInv'
  OBVIOUS
<1>1. /\ pc \in {"returnRead", "commitCall", "rollbackCall"}
      /\ pc' = "idle" /\ call' = "none"
      /\ UNCHANGED <<mode, cache>>
  BY DEF EndCall, Idle, fixed
<1>2. \/ pc = "returnRead" /\ UNCHANGED <<prov, sess, conn, db, saved, troubles>>
      \/ /\ pc # "returnRead" /\ sess > 1 /\ sess' = sess - 1
         /\ UNCHANGED <<prov, conn, db, saved, troubles>>
      \/ /\ pc # "returnRead" /\ sess = 1 /\ prov' = prov - 1
         /\ sess' = IF prov = 1 => conn = "tx" THEN 0 ELSE 1
         /\ \/ /\ prov = 1 /\ conn = "tx" /\ conn' = "auto" /\ db' = db
               /\ saved' = db /\ UNCHANGED troubles
            \/ ~(prov = 1 /\ conn = "tx") /\ UNCHANGED <<conn, db, saved>>
                 /\ \/ UNCHANGED troubles /\ (pc = "commitCall" \/ prov # 1)
                    \/ ~Tidy'
            \/ /\ prov = 1 /\ conn = "tx" /\ conn' = "auto" /\ db' = saved
               /\ saved' = saved /\ ~Tidy'
  <2>1. CASE pc = "returnRead" /\ UNCHANGED <<levels, store, troubles>>
    BY <2>1 DEF levels, store
  <2>2. CASE /\ pc # "returnRead" /\ sess > 1 /\ sess' = sess - 1
             /\ UNCHANGED <<prov, conn, store, troubles>>
    BY <2>2 DEF store
  <2>3. CASE /\ pc # "returnRead" /\ sess = 1 /\ prov' = prov - 1
             /\ sess' = IF ProviderEndSucceeds THEN 0 ELSE 1
             /\ pc = "commitCall"
             /\ ProviderEnd(SqlCommit) /\ UNCHANGED troubles
    BY <2>3 DEF ProviderEnd, ProviderEndSucceeds, SqlCommit
  <2>4. CASE /\ pc # "returnRead" /\ sess = 1 /\ prov' = prov - 1
             /\ sess' = IF ProviderEndSucceeds THEN 0 ELSE 1
             /\ ProviderEnd(SqlRollback)
             /\ troubles' = IF prov = 1 THEN troubles \cup {"undone"} ELSE troubles
    BY <2>4 DEF ProviderEnd, ProviderEndSucceeds, SqlRollback, Tidy
  <2> QED
    BY <1>1, <2>1, <2>2, <2>3, <2>4 DEF EndCall
<1>3. /\ prov \in Int /\ sess \in Int /\ conn \in {"auto", "tx"}
      /\ pc = "returnRead" => call = "read"
      /\ pc # "returnRead" => call = "merge"
      /\ Tidy' => Tidy
  BY <1>1, <1>2 DEF FitInv, TablesTyped, Tidy
<1>4. TablesTyped'
  BY <1>1, <1>2, <1>3 DEF FitInv, TablesTyped
<1>5. Progress'
  BY <1>1 DEF Progress, Altering
<1>6. ~AfterBegin /\ UpdateLevel = 0 /\ UpdateLevel' = 0 /\ MergeLevel' = 0
      /\ MergeLevel = IF call = "merge" THEN 1 ELSE 0
  BY <1>1 DEF AfterBegin, UpdateLevel, MergeLevel
<1>7. Tidy => /\ prov >= MergeLevel /\ sess = MergeLevel
              /\ conn = "tx" => prov = MergeLevel /\ call # "read"
              /\ conn = "auto" /\ pc = "commitCall" => prov >= 2
  BY <1>1, <1>3, <1>6 DEF FitInv, LevelsCounted
<1>8. LevelsCounted'
  <2> SUFFICES ASSUME Tidy, Tidy' PROVE LevelsCounted'
    BY <1>3 DEF LevelsCounted
  <2>1. prov' >= 0 /\ sess' = 0 /\ conn' = "auto"
    BY <1>1, <1>2, <1>3, <1>6, <1>7
  <2> QED
    BY <1>1, <1>6, <2>1 DEF LevelsCounted
<1>9. FitUnlessUndone'
  <2>1. CASE db' = db
    BY <1>1, <1>3, <2>1, CachedKept
  <2>2. CASE ~Tidy'
    BY <2>2 DEF FitUnlessUndone, Tidy
  <2> QED
    BY <1>2, <2>1, <2>2
<1> QED
  BY <1>4, <1>5, <1>8, <1>9 DEF FitInv

-----------------------------------------------------------------------------

LEMMA FitInvariant == Spec => []FitInv
<1>1. Init => FitInv
  <2> SUFFICES ASSUME Init PROVE FitInv
    OBVIOUS
  <2>1. TablesTyped
    BY DEF Init, TablesTyped, MaybeTables
  <2> QED
    BY <2>1 DEF Init, FitInv, Progress, Altering, LevelsCounted, UpdateLevel, MergeLevel,
                AfterBegin, FitUnlessUndone, CachedTablesFit
<1>2. IInv /\ FitInv /\ [Next]_vars => FitInv'
  <2> SUFFICES ASSUME IInv, FitInv, [Next]_vars PROVE FitInv'
    OBVIOUS
  <2>1. CASE \E c \in Classes : Read(c) \/ Merge(c)
    BY <2>1, CallFit
  <2>2. CASE Execute \/ Failed \/ EndCall \/ Ensure \/ Synced \/ Descend
    BY <2>2, ExecuteFit, FailedFit, EndCallFit, EnsureFit, SyncedFit, DescendFit
  <2>3. CASE DropFirst \/ CreateTable \/ Begin \/ AddColumns \/ Commit \/ Rollback
    BY <2>3, DropFirstFit, CreateTableFit, BeginFit, AddColumnsFit, CommitFit,
       RollbackFit
  <2>4. CASE SwitchOff \/ CreateCopy \/ CopyRows \/ DropOld \/ Rename
               \/ CheckForeignKeys \/ CommitUpdate \/ SwitchOn
    BY <2>4, PragmaFit, CreateCopyFit, CopyRowsFit, DropOldFit, RenameFit, CheckFit,
       CommitUpdateFit
  <2>5. CASE Restart
    BY <2>5, RestartFit
  <2>6. CASE UNCHANGED vars
    <3>1. UNCHANGED <<mode, db, saved, conn, prov, sess, call, cls, cache, pc, troubles>>
      BY <2>6 DEF vars, fixed, store, levels
    <3>2. TablesTyped'
      BY <3>1 DEF FitInv, TablesTyped
    <3>3. FitsMode(cls)' = FitsMode(cls)
      BY <3>1 DEF FitsMode, Exists
    <3>4. Progress'
      BY <3>1, <3>3 DEF FitInv, Progress, Altering, Exists
    <3>5. Tidy' = Tidy /\ UpdateLevel' = UpdateLevel /\ MergeLevel' = MergeLevel
          /\ AfterBegin' = AfterBegin
      BY <3>1 DEF Tidy, UpdateLevel, MergeLevel, AfterBegin
    <3>6. LevelsCounted'
      BY <3>1, <3>5 DEF FitInv, LevelsCounted
    <3> QED
      BY <3>1, <3>2, <3>4, <3>5, <3>6, CachedKept DEF FitInv
  <2> QED
    BY <2>1, <2>2, <2>3, <2>4, <2>5, <2>6 DEF Next, Step
<1> QED
  BY <1>1, <1>2, SyncInvariant, PTL DEF Spec

\* Whatever the classes, their modes and the statements that fail, a class the
\* provider does not look at again has the table its mode promises, as long as
\* no transaction around a call was rolled back and no COMMIT refused
\* (qormsqliteprovider.cpp:430-475).
THEOREM SynchronizedFits == Spec => []FitUnlessUndone
<1>1. FitInv => FitUnlessUndone
  BY DEF FitInv
<1> QED
  BY <1>1, FitInvariant, PTL

-----------------------------------------------------------------------------
(* Type correctness of the schema synchronization, and why foreign keys are   *)
(* enforced again after it: updateSchema() remembers whether they were, and   *)
(* switches them on only where no transaction can make SQLite ignore it.      *)

\* The types the proofs about the recursion and the tables did not need.  The
\* counter of the session is 2 only while a call runs that began on a level
\* which an earlier call could not end.
RestTyped ==
    /\ stored \in [Classes -> SUBSET Fields]
    /\ sess \in 0..2 /\ (call # "merge" => sess # 2)
    /\ fk \in BOOLEAN /\ withFk \in BOOLEAN
    /\ cls \in Classes \cup {NoClass}
    /\ pc \in Steps
    /\ troubles \subseteq {"failed", "undone", "refused"}
    /\ faults \in 0..MaxFaults

\* The steps between the two pragmas, on which foreign keys may be off.
Switched ==
    \/ pc \in Altering \ {"fkOff"}
    \/ pc = "begin" /\ mode[cls] = "Update" /\ Exists(cls)

\* As long as nothing has failed, updateSchema() remembers what the
\* configuration says, and fkOn is reached outside a transaction.
KeysKept ==
    /\ pc = "fkOff" => Exists(cls)
    /\ troubles \subseteq {"undone"} =>
        /\ Switched => withFk = ForeignKeys /\ (~withFk => fk = FALSE)
        /\ pc = "fkOn" => withFk = TRUE /\ conn = "auto"
        /\ ~Switched /\ pc \notin {"rollback", "failed"} => fk = ForeignKeys

-----------------------------------------------------------------------------
(* Steps of the synchronization of a class.                                  *)

\* What an SQL statement, a pragma or an end of a transaction leaves alone.
Inside ==
    /\ UNCHANGED <<stored, sess, call, cls>>
    /\ fk' \in BOOLEAN /\ withFk' \in BOOLEAN
    /\ pc' \in Steps
    /\ troubles' \subseteq {"failed", "undone", "refused"}
    /\ faults' \in 0..MaxFaults

LEMMA InsideTyped == ASSUME RestTyped, Inside PROVE RestTyped'
BY DEF RestTyped, Inside

LEMMA InsideSteps ==
    ASSUME RestTyped,
           DropFirst \/ CreateTable \/ Begin \/ AddColumns \/ Commit \/ Rollback \/ SwitchOff
             \/ CreateCopy \/ CopyRows \/ DropOld \/ Rename \/ CheckForeignKeys \/ CommitUpdate
             \/ SwitchOn
    PROVE  Inside
<1> USE DEF other, fixed, levels, store
<1>1. UNCHANGED <<stored, sess, call, cls>>
  BY DEF DropFirst, CreateTable, Begin, AddColumns, Commit, Rollback, SwitchOff, CreateCopy,
         CopyRows, DropOld, Rename, CheckForeignKeys, CommitUpdate, SwitchOn
<1>2. faults' = faults \/ (faults < MaxFaults /\ faults' = faults + 1)
  BY DEF DropFirst, CreateTable, Begin, AddColumns, Commit, Rollback, SwitchOff, CreateCopy,
         CopyRows, DropOld, Rename, CheckForeignKeys, CommitUpdate, SwitchOn, Statement, Pragma,
         ForeignKeysOff, CommitRefused, Fault
<1>3. faults' \in 0..MaxFaults
  BY <1>2, BoundsAssumption DEF RestTyped
<1>4. troubles' = troubles \/ troubles' = troubles \cup {"refused"}
  BY DEF DropFirst, CreateTable, Begin, AddColumns, Commit, Rollback, SwitchOff, CreateCopy,
         CopyRows, DropOld, Rename, CheckForeignKeys, CommitUpdate, SwitchOn, CommitRefused
<1>5. (fk' = fk \/ fk' \in {TRUE, FALSE}) /\ (withFk' = withFk \/ withFk' = fk)
  BY DEF DropFirst, CreateTable, Begin, AddColumns, Commit, Rollback, SwitchOff, CreateCopy,
         CopyRows, DropOld, Rename, CheckForeignKeys, CommitUpdate, SwitchOn, Pragma,
         ForeignKeysOff
<1>6. fk' \in BOOLEAN /\ withFk' \in BOOLEAN
  BY <1>5 DEF RestTyped
<1>7. pc' \in Steps
  BY DEF DropFirst, CreateTable, Begin, AddColumns, Commit, Rollback, SwitchOff, CreateCopy,
         CopyRows, DropOld, Rename, CheckForeignKeys, CommitUpdate, SwitchOn, Statement, Pragma,
         ForeignKeysOff, Steps
<1>8. QED
  BY <1>1, <1>3, <1>4, <1>6, <1>7 DEF Inside, RestTyped

LEMMA RestInv == ASSUME IInv, FitInv, RestTyped, [Next]_vars PROVE RestTyped'
<1>1. ASSUME NEW c \in Classes, Read(c) PROVE RestTyped'
  <2>1. call = "none"
    BY <1>1 DEF FitInv, TablesTyped, Read
  <2>2. sess' \in 0..2 /\ sess' # 2 /\ pc' \in Steps
    BY <1>1, <2>1 DEF Read, RestTyped, Steps, levels
  <2>3. UNCHANGED <<stored, fk, withFk, troubles, faults>> /\ cls' = c
    BY <1>1 DEF Read, fixed
  <2>4. QED
    BY <2>2, <2>3 DEF RestTyped
<1>2. CASE Restart
  <2>1. UNCHANGED <<stored, faults>> /\ fk' = ForeignKeys /\ withFk' = FALSE
        /\ cls' = NoClass /\ troubles' = {} /\ sess' = 0 /\ pc' = "idle"
    BY <1>2 DEF Restart, Idle, fixed
  <2>2. fk' \in BOOLEAN /\ withFk' \in BOOLEAN
    BY <2>1, BoundsAssumption
  <2>3. QED
    BY <2>1, <2>2 DEF RestTyped, Steps
<1>3. ASSUME NEW c \in Classes, Merge(c) PROVE RestTyped'
  <2>1. call = "none"
    BY <1>3 DEF FitInv, TablesTyped, Merge
  <2>2. CASE ~Restart
    <3>1. /\ UNCHANGED <<stored, fk, withFk, troubles, faults>> /\ cls' = c
          /\ sess' = sess + 1 /\ call' = "merge" /\ pc' = "ensure"
      BY <1>3, <2>2 DEF Merge, fixed
    <3>2. sess' \in 0..2
      BY <2>1, <3>1 DEF RestTyped
    <3>3. QED
      BY <3>1, <3>2 DEF RestTyped, Steps
  <2>3. QED
    BY <1>2, <2>2
<1>4. CASE Execute
  <2>1. UNCHANGED <<stored, fk, withFk, troubles, cls, sess, call>>
    BY <1>4 DEF Execute, fixed, levels
  <2>2. pc' \in Steps
    BY <1>4 DEF Execute, Statement, Steps
  <2>3. faults' \in 0..MaxFaults
    BY <1>4, BoundsAssumption DEF Execute, Statement, Fault, RestTyped
  <2>4. QED
    BY <2>1, <2>2, <2>3 DEF RestTyped
<1>5. CASE Failed
  BY <1>5 DEF Failed, RestTyped, Steps, fixed, levels, store
<1>6. CASE EndCall
  <2>1. sess' \in 0..1
    BY <1>6 DEF EndCall, RestTyped, levels, FitInv, TablesTyped
  <2>2. troubles' \subseteq {"failed", "undone", "refused"}
    BY <1>6 DEF EndCall, RestTyped
  <2>3. QED
    BY <1>6, <2>1, <2>2 DEF EndCall, Idle, RestTyped, Steps, fixed
<1>7. CASE Ensure
  BY <1>2, <1>7 DEF Ensure, FirstStep, RestTyped, Steps, fixed, levels, store
<1>8. CASE Synced
  BY <1>8 DEF Synced, RestTyped, Steps, fixed, levels, store
<1>9. CASE Descend
  <2>1. cls' \in Classes \cup {NoClass}
    BY <1>9 DEF Descend, RestTyped, IInv, ClassesTyped
  <2>2. QED
    BY <1>9, <2>1 DEF Descend, RestTyped, Steps, fixed, levels, store
<1>10. CASE DropFirst \/ CreateTable \/ Begin \/ AddColumns \/ Commit \/ Rollback \/ SwitchOff
              \/ CreateCopy \/ CopyRows \/ DropOld \/ Rename \/ CheckForeignKeys
              \/ CommitUpdate \/ SwitchOn
  BY <1>10, InsideSteps, InsideTyped
<1>11. CASE UNCHANGED vars
  BY <1>11 DEF vars, RestTyped, fixed, levels, store
<1>12. QED
  BY <1>1, <1>2, <1>3, <1>4, <1>5, <1>6, <1>7, <1>8, <1>9, <1>10, <1>11 DEF Next, Step

-----------------------------------------------------------------------------
(* The pragmas.                                                              *)

\* A step between two steps on neither of which foreign keys may be off.
Aside ==
    /\ UNCHANGED <<fk, troubles>>
    /\ ~Switched /\ pc \notin {"rollback", "failed"}
    /\ ~Switched' /\ pc' \notin {"fkOff", "fkOn"}

\* A step between the two pragmas.
Between ==
    /\ UNCHANGED <<fk, withFk, troubles>>
    /\ Switched
    /\ pc' \in Altering \ {"fkOff", "fkOn"} \/ pc' = "rollback"

LEMMA AsideKeys == ASSUME KeysKept, Aside PROVE KeysKept'
BY DEF KeysKept, Aside

LEMMA BetweenKeys == ASSUME KeysKept, Between PROVE KeysKept'
BY DEF KeysKept, Between, Switched, Altering

LEMMA OutwardKeys ==
    ASSUME KeysKept,
           \/ \E c \in Classes : Read(c) \/ (Merge(c) /\ ~Restart)
           \/ Execute \/ EndCall \/ Synced \/ Descend
    PROVE  KeysKept'
<1>1. CASE pc' = "failed"
  BY <1>1 DEF KeysKept, Switched, Altering
<1>2. CASE pc' # "failed"
  <2>1. troubles' \subseteq {"undone"} => troubles \subseteq {"undone"}
    BY DEF Read, Merge, Execute, EndCall, Synced, Descend
  <2>2. fk' = fk
    BY DEF Read, Merge, Execute, EndCall, Synced, Descend
  <2>3. /\ pc \in {"idle", "execute", "returnRead", "commitCall", "rollbackCall", "synced",
                   "descend"}
        /\ pc' \in {"ensure", "descend", "execute", "returnRead", "commitCall", "idle"}
    BY <1>2 DEF Read, Merge, Execute, EndCall, Synced, Descend, Statement, Idle
  <2>4. QED
    BY <2>1, <2>2, <2>3 DEF KeysKept, Switched, Altering
<1>3. QED
  BY <1>1, <1>2

LEMMA EnsureKeys == ASSUME KeysKept, Ensure, ~Restart PROVE KeysKept'
<1>1. /\ UNCHANGED <<mode, db, fk, troubles, cls>> /\ pc = "ensure"
      /\ pc' = "descend" \/ pc' = FirstStep(cls)
  BY DEF Ensure, fixed, store
<1>2. /\ pc' \in {"descend", "dropFirst", "create", "begin", "fkOff", "synced"}
      /\ pc' = "begin" => ~(mode[cls] = "Update" /\ Exists(cls))
      /\ pc' = "fkOff" => Exists(cls)
  BY <1>1 DEF FirstStep, Outdated
<1>3. QED
  BY <1>1, <1>2 DEF KeysKept, Switched, Altering, Exists

LEMMA UpdateKeys ==
    ASSUME FitInv, RestTyped, KeysKept,
           SwitchOff \/ Begin \/ CreateCopy \/ CopyRows \/ DropOld \/ Rename
             \/ CheckForeignKeys \/ CommitUpdate \/ SwitchOn
    PROVE  KeysKept'
<1>1. CASE SwitchOff
  <2>1. pc = "fkOff" /\ mode[cls] = "Update" /\ Exists(cls)
    BY <1>1 DEF SwitchOff, FitInv, Progress, Altering, KeysKept
  <2>2. /\ UNCHANGED <<mode, db, cls, troubles>> /\ withFk' = fk
        /\ pc' \in {"begin", "failed"}
        /\ pc' = "begin" => fk' = FALSE \/ fk' = fk
    BY <1>1 DEF SwitchOff, ForeignKeysOff, Pragma, fixed, store
  <2>3. troubles \subseteq {"undone"} => fk = ForeignKeys
    BY <2>1 DEF KeysKept, Switched, Altering
  <2>4. pc' = "begin" => Switched'
    BY <2>1, <2>2 DEF Switched, Exists
  <2>5. pc' = "failed" => ~Switched'
    BY <2>2 DEF Switched, Altering
  <2>6. QED
    BY <2>2, <2>3, <2>4, <2>5 DEF KeysKept
<1>2. CASE Begin
  <2>1. /\ UNCHANGED <<mode, db, cls, fk, withFk, troubles>> /\ pc = "begin"
        /\ mode[cls] \in {"Append", "Update"}
        /\ pc' = IF ~Exists(cls) THEN "create"
                 ELSE IF mode[cls] = "Append" THEN "addColumns" ELSE "createCopy"
    BY <1>2 DEF Begin, other, fixed, store, FitInv, Progress
  <2>2. IF Switched THEN Between ELSE Aside
    BY <2>1 DEF Switched, Between, Aside, Altering
  <2>3. QED
    BY <2>2, AsideKeys, BetweenKeys
<1>3. CASE CreateCopy \/ CopyRows \/ DropOld \/ Rename \/ CheckForeignKeys
  <2>1. Between
    BY <1>3 DEF CreateCopy, CopyRows, DropOld, Rename, CheckForeignKeys, Statement, Between,
                Switched, Altering, other
  <2>2. QED
    BY <2>1, BetweenKeys
<1>4. CASE CommitUpdate
  <2>1. pc = "commitUpdate" /\ UNCHANGED <<fk, withFk>>
        /\ pc' = IF withFk THEN "fkOn" ELSE "synced"
    BY <1>4 DEF CommitUpdate, other
  <2>2. troubles' \subseteq {"undone"} => troubles' = troubles /\ conn' = "auto"
    BY <1>4 DEF CommitUpdate, CommitRefused, SqlCommit, store, FitInv, TablesTyped
  <2>3. Switched /\ fk \in BOOLEAN /\ withFk \in BOOLEAN
    BY <2>1 DEF Switched, Altering, RestTyped
  <2>4. CASE withFk = TRUE
    <3>1. pc' = "fkOn" /\ Switched'
      BY <2>1, <2>4 DEF Switched, Altering
    <3>2. QED
      BY <2>1, <2>2, <2>3, <2>4, <3>1 DEF KeysKept
  <2>5. CASE withFk = FALSE
    <3>1. pc' = "synced" /\ ~Switched'
      BY <2>1, <2>5 DEF Switched, Altering
    <3>2. QED
      BY <2>1, <2>2, <2>3, <2>5, <3>1 DEF KeysKept
  <2>6. QED
    BY <2>3, <2>4, <2>5
<1>5. CASE SwitchOn
  <2>1. /\ pc = "fkOn" /\ UNCHANGED <<withFk, troubles>> /\ Switched
        /\ pc' \in {"synced", "rollback"}
        /\ pc' = "synced" => fk' = IF conn = "auto" THEN TRUE ELSE fk
    BY <1>5 DEF SwitchOn, Pragma, Switched, Altering
  <2>2. ~Switched' /\ pc' # "fkOn" /\ pc' # "fkOff"
    BY <2>1 DEF Switched, Altering
  <2>3. QED
    BY <2>1, <2>2 DEF KeysKept
<1>6. QED
  BY <1>1, <1>2, <1>3, <1>4, <1>5

LEMMA KeysInv == ASSUME FitInv, RestTyped, KeysKept, [Next]_vars PROVE KeysKept'
<1>1. CASE Restart
  <2>1. fk' = ForeignKeys /\ pc' = "idle"
    BY <1>1 DEF Restart, Idle
  <2>2. QED
    BY <2>1 DEF KeysKept, Switched, Altering
<1>2. CASE DropFirst \/ CreateTable \/ AddColumns \/ Commit
  <2>1. UNCHANGED fk /\ (troubles' \subseteq {"undone"} => troubles \subseteq {"undone"})
    BY <1>2 DEF DropFirst, CreateTable, AddColumns, Commit, other, CommitRefused
  <2>2. /\ pc \in {"dropFirst", "create", "addColumns", "commit"}
        /\ pc' \in {"create", "failed", "synced", "commit", "rollback", "addColumns"}
    BY <1>2 DEF DropFirst, CreateTable, AddColumns, Commit, Statement
  <2>3. QED
    BY <2>1, <2>2 DEF KeysKept, Switched, Altering
<1>3. CASE Rollback
  BY <1>3 DEF Rollback, KeysKept, Switched, Altering
<1>4. CASE Failed
  <2>1. "failed" \in troubles' /\ pc' # "fkOff"
    BY <1>4 DEF Failed
  <2>2. QED
    BY <2>1 DEF KeysKept
<1>5. CASE UNCHANGED vars
  BY <1>5 DEF vars, fixed, store, levels, KeysKept, Switched, Exists
<1>6. QED
  BY <1>1, <1>2, <1>3, <1>4, <1>5, OutwardKeys, EnsureKeys, UpdateKeys DEF Next, Step

LEMMA KeysInvariant == Spec => [](RestTyped /\ KeysKept)
<1>1. Init => RestTyped /\ KeysKept
  <2> SUFFICES ASSUME Init PROVE RestTyped /\ KeysKept
    OBVIOUS
  <2>1. stored \in [Classes -> SUBSET Fields]
    BY DEF Init, Exists, GoodTable, Table
  <2>2. fk \in BOOLEAN /\ withFk \in BOOLEAN
    BY BoundsAssumption DEF Init
  <2>3. RestTyped
    BY <2>1, <2>2, BoundsAssumption DEF Init, RestTyped, Steps
  <2>4. KeysKept
    BY DEF Init, KeysKept, Switched, Altering
  <2>5. QED
    BY <2>3, <2>4
<1>2. IInv /\ FitInv /\ RestTyped /\ KeysKept /\ [Next]_vars => (RestTyped /\ KeysKept)'
  BY RestInv, KeysInv
<1>3. QED
  BY <1>1, <1>2, SyncInvariant, FitInvariant, PTL DEF Spec

\* Whatever fails, the synchronization keeps its types; among them, the session
\* never holds more than the level of the running call and one that an earlier
\* call could not end (qormsession.cpp:382-448).
THEOREM TypeCorrect == Spec => []TypeOK
<1>1. IInv /\ FitInv /\ RestTyped => TypeOK
  <2> SUFFICES ASSUME IInv, FitInv, RestTyped PROVE TypeOK
    OBVIOUS
  <2>1. \A d \in {saved, db} : d.table \in MaybeTables /\ d.copy \in MaybeTables
    BY DEF FitInv, TablesTyped
  <2>2. QED
    BY <2>1 DEF FitInv, TablesTyped, IInv, ClassesTyped, RestTyped, TypeOK
<1>2. QED
  BY <1>1, SyncInvariant, FitInvariant, KeysInvariant, PTL

\* Between the calls foreign keys are enforced as the configuration says, whatever
\* tables were altered and inside whichever transaction, as long as no call has
\* failed and no COMMIT been refused (qormsqliteprovider.cpp:715-830).
THEOREM ForeignKeysComeBack == Spec => []ForeignKeysRestored
<1>1. KeysKept => ForeignKeysRestored
  BY DEF KeysKept, ForeignKeysRestored, Switched, Altering
<1>2. QED
  BY <1>1, KeysInvariant, PTL

-----------------------------------------------------------------------------
(* Why "update" and "append" lose no data as long as one table at most has   *)
(* to be altered: until that one is, the counter of the provider stands for  *)
(* the transactions of the running call and for nothing else, so that the    *)
(* statements between dropping and renaming a table are undone together.     *)

\* The level of the provider that the running merge will end, and with it that
\* of the schema.
Owed == IF call = "merge" /\ sess = 1 THEN 1 ELSE 0
Due == Owed + UpdateLevel

InPlace(c) == mode[c] \in {"Update", "Append"}
Keeps(t, c) == stored[c] \cap Mapped[c] \subseteq IF t = NoTable THEN {} ELSE t.kept

OutdatedIn(d, c) ==
    mode[c] = "Update" /\ d.table[c] # NoTable /\ UpdateNeeded(d.table[c], c)

\* The old table is dropped, and a transaction is open that either becomes one
\* with the new table or is rolled back.
Halfway(c) ==
    /\ c = cls /\ pc \in {"rename", "rollback", "failed", "rollbackCall"}
    /\ conn = "tx" /\ prov = Due /\ prov > 0

DataKept ==
    \A c \in Classes : InPlace(c) =>
        Keeps(saved.table[c], c) /\ (Keeps(db.table[c], c) \/ Halfway(c))

\* Where the steps of updateSchema() have got.
Underway ==
    /\ pc = "create" /\ mode[cls] # "Recreate" => ~Exists(cls)
    /\ \/ pc \in {"fkOff", "createCopy", "copyRows", "dropOld"}
       \/ pc = "begin" /\ mode[cls] = "Update" /\ Exists(cls)
       => OutdatedIn(db, cls)
    /\ pc \in {"rename", "fkCheck", "commitUpdate"} => OutdatedIn(saved, cls)
    /\ pc \in {"dropOld", "rename"} => Keeps(db.copy[cls], cls)
    /\ pc = "rename" => conn = "tx" /\ prov = Due
    /\ pc = "fkOn" => \A c \in Classes : ~OutdatedIn(db, c)

LevelsDue ==
    /\ prov >= Due
    /\ (\E c \in Classes : OutdatedIn(db, c)) => prov = Due /\ (prov > 0 => conn = "tx")

OneOutdated ==
    /\ \A c \in Classes : OutdatedIn(db, c) => OutdatedIn(saved, c)
    /\ \A c, d \in Classes : OutdatedIn(saved, c) /\ OutdatedIn(saved, d) => c = d

KeepInv == DataKept /\ Underway /\ LevelsDue /\ OneOutdated

-----------------------------------------------------------------------------

LEMMA LevelTypes ==
    ASSUME FitInv
    PROVE  /\ prov \in Int /\ sess \in Int /\ conn \in {"auto", "tx"}
           /\ Owed \in {0, 1} /\ UpdateLevel \in {0, 1} /\ Due \in Int
           /\ Due = Owed + UpdateLevel
BY DEF FitInv, TablesTyped, Owed, UpdateLevel, Due

\* A statement about the class being synchronized.
LEMMA StatementKeep ==
    ASSUME IInv, FitInv, KeepInv, cls \in Classes, Touches, UNCHANGED stored,
           UpdateLevel' = UpdateLevel, pc \notin {"rollback", "failed", "rollbackCall"},
           OutdatedIn(db', cls) => OutdatedIn(db, cls),
           InPlace(cls) => \/ Keeps(db'.table[cls], cls)
                           \/ conn = "tx" /\ Halfway(cls)'
    PROVE  DataKept' /\ LevelsDue' /\ OneOutdated'
<1>1. /\ UNCHANGED <<mode, conn, prov, sess, call, cls, stored>>
      /\ \A c \in Classes \ {cls} : db'.table[c] = db.table[c]
      /\ saved' = IF conn = "auto" THEN db' ELSE saved
  BY DEF Touches
<1>2. Due' = Due
  BY <1>1 DEF Due, Owed
<1>3. \A c \in Classes : OutdatedIn(db', c) => OutdatedIn(db, c)
  BY <1>1 DEF OutdatedIn
<1>4. LevelsDue'
  BY <1>1, <1>2, <1>3 DEF KeepInv, LevelsDue, OutdatedIn, UpdateNeeded
<1>5. OneOutdated'
  BY <1>1, <1>3 DEF KeepInv, OneOutdated, OutdatedIn, UpdateNeeded
<1>6. DataKept'
  <2> SUFFICES ASSUME NEW c \in Classes, InPlace(c)
               PROVE  (Keeps(saved.table[c], c) /\ (Keeps(db.table[c], c) \/ Halfway(c)))'
    BY <1>1 DEF DataKept, InPlace
  <2>1. CASE c = cls
    BY <1>1, <2>1 DEF KeepInv, DataKept, Keeps
  <2>2. CASE c # cls
    <3>1. Keeps(saved.table[c], c) /\ Keeps(db.table[c], c)
      BY <2>2 DEF KeepInv, DataKept, Halfway
    <3>2. db'.table[c] = db.table[c]
      BY <1>1, <2>2
    <3> QED
      BY <1>1, <3>1, <3>2 DEF Keeps
  <2> QED
    BY <2>1, <2>2
<1> QED
  BY <1>4, <1>5, <1>6

\* Statements that leave the tables of a class in place, or make one where none is.
LEMMA CreateKeep ==
    ASSUME IInv, FitInv, UNCHANGED stored, KeepInv, DropFirst \/ CreateTable \/ AddColumns PROVE KeepInv'
<1>1. cls \in Classes \ cache /\ mode[cls] \in {"Recreate", "Append", "Update"}
  BY DEF IInv, NotYetMarked, Synchronizing, DropFirst, CreateTable, AddColumns, FitInv, Progress
<1>2. CASE DropFirst
  <2>1. pc = "dropFirst" /\ mode[cls] = "Recreate" /\ pc' \in {"create", "failed"}
    BY <1>2 DEF DropFirst, FitInv, Progress, Statement
  <2>2. Touches
    BY <1>1, <1>2, TablesChanged
       DEF DropFirst, Statement, store, other, fixed, levels, Touches, FitInv, TablesTyped
  <2>3. UpdateLevel' = UpdateLevel
    BY <2>1, <2>2 DEF UpdateLevel, AfterBegin, Touches
  <2>4. DataKept' /\ LevelsDue' /\ OneOutdated'
    BY <1>1, <2>1, <2>2, <2>3, StatementKeep DEF OutdatedIn, InPlace
  <2>5. Underway'
    BY <2>1, <2>2 DEF Underway, Touches
  <2> QED
    BY <2>4, <2>5 DEF KeepInv
<1>3. CASE CreateTable
  <2> DEFINE new == WithTable(Created(cls))
  <2>1. /\ new \in [table : MaybeTables, copy : MaybeTables]
        /\ new.table[cls] = Created(cls) /\ Created(cls) # NoTable
        /\ ~UpdateNeeded(new.table[cls], cls)
        /\ \A c \in Classes \ {cls} : new.table[c] = db.table[c]
    BY <1>1, CreatedGood, TablesChanged
  <2> HIDE DEF new
  <2>2. /\ pc = "create" /\ pc' \in {"synced", "failed", "commit", "rollback"}
        /\ mode[cls] = "Recreate" <=> pc' \in {"synced", "failed"}
        /\ db' = new \/ UNCHANGED store
        /\ saved' = IF conn = "auto" THEN db' ELSE saved
    BY <1>3 DEF CreateTable, Statement, store, FitInv, TablesTyped, new
  <2>3. Touches
    BY <1>3, <2>1, <2>2
       DEF CreateTable, store, other, fixed, levels, Touches, FitInv, TablesTyped
  <2>4. UpdateLevel' = UpdateLevel
    BY <2>2, <2>3 DEF UpdateLevel, AfterBegin, Touches
  <2>5. OutdatedIn(db', cls) => OutdatedIn(db, cls)
    BY <2>1, <2>2 DEF OutdatedIn, store
  <2>6. InPlace(cls) => Keeps(db'.table[cls], cls)
    <3> SUFFICES ASSUME InPlace(cls) PROVE Keeps(db'.table[cls], cls)
      OBVIOUS
    <3>1. db.table[cls] = NoTable
      BY <2>2 DEF InPlace, KeepInv, Underway, Exists
    <3>2. Keeps(NoTable, cls)
      BY <1>1, <2>2, <3>1 DEF KeepInv, DataKept, Halfway
    <3> QED
      BY <2>2, <3>1, <3>2 DEF Keeps, store
  <2>7. DataKept' /\ LevelsDue' /\ OneOutdated'
    BY <1>1, <2>2, <2>3, <2>4, <2>5, <2>6, StatementKeep
  <2>8. Underway'
    BY <2>2, <2>3 DEF Underway, Touches
  <2> QED
    BY <2>7, <2>8 DEF KeepInv
<1>4. CASE AddColumns
  <2>1. /\ pc = "addColumns" /\ mode[cls] = "Append" /\ db.table[cls] # NoTable
        /\ pc' \in {"addColumns", "commit", "rollback"}
    BY <1>4 DEF AddColumns, FitInv, Progress, Exists, Statement
  <2> DEFINE t == db.table[cls]
             more(f) == [t EXCEPT !.cols = @ \cup {f}]
  <2>2. /\ UNCHANGED <<mode, conn, prov, sess, call, troubles, cache, cls>>
        /\ \/ UNCHANGED store
           \/ \E f \in MissingFields(t, cls) :
                 /\ db' = WithTable(more(f))
                 /\ saved' = IF conn = "auto" THEN db' ELSE saved
    BY <1>4 DEF AddColumns, Statement, other, fixed, levels, store
  <2>3. t \in GoodTable
    BY <1>1, <2>1 DEF FitInv, TablesTyped, MaybeTables
  <2>4. ASSUME NEW f \in MissingFields(t, cls)
        PROVE  more(f) \in GoodTable /\ more(f) # NoTable /\ more(f).kept = t.kept
    BY <1>1, <2>3, <2>4, ClassesAssumption, NoTableAssumption
       DEF MissingFields, GoodTable, Table
  <2>5. /\ Touches
        /\ db'.table[cls] # NoTable /\ db'.table[cls].kept = t.kept
    <3>1. CASE UNCHANGED store
      BY <2>1, <2>2, <3>1 DEF store, Touches, FitInv, TablesTyped
    <3>2. ASSUME NEW f \in MissingFields(t, cls), db' = WithTable(more(f)),
                 saved' = IF conn = "auto" THEN db' ELSE saved
          PROVE  Touches /\ db'.table[cls] # NoTable /\ db'.table[cls].kept = t.kept
      BY <1>1, <2>2, <2>4, <3>2, TablesChanged, ZenonT(40) DEF Touches
    <3> QED
      BY <2>2, <3>1, <3>2
  <2>6. UpdateLevel' = UpdateLevel
    BY <2>1 DEF UpdateLevel, AfterBegin
  <2>7. Keeps(db.table[cls], cls)
    BY <1>1, <2>1 DEF KeepInv, DataKept, Halfway, InPlace
  <2>8. Keeps(db'.table[cls], cls)
    BY <2>1, <2>5, <2>7 DEF Keeps
  <2>9. DataKept' /\ LevelsDue' /\ OneOutdated'
    BY <1>1, <2>1, <2>5, <2>6, <2>8, StatementKeep DEF OutdatedIn
  <2>10. Underway'
    BY <2>1 DEF Underway
  <2> QED
    BY <2>9, <2>10 DEF KeepInv
<1> QED
  BY <1>2, <1>3, <1>4

\* The steps that write the new table and put it in the place of the old one.
LEMMA CopyKeep ==
    ASSUME IInv, FitInv, UNCHANGED stored, KeepInv, CreateCopy \/ CopyRows PROVE KeepInv'
<1>1. /\ cls \in Classes \ cache /\ mode[cls] = "Update"
      /\ pc \in {"createCopy", "copyRows"} /\ OutdatedIn(db, cls)
  BY DEF IInv, NotYetMarked, Synchronizing, CreateCopy, CopyRows, FitInv, Progress, Altering,
         KeepInv, Underway
<1>2. db.table[cls] # NoTable /\ db.table[cls] \in GoodTable
  BY <1>1 DEF OutdatedIn, FitInv, TablesTyped, MaybeTables
<1> DEFINE t == db.table[cls]
           rows == [db.copy[cls] EXCEPT !.kept = CommonFields(t, cls) \cap t.kept]
<1>3. /\ UNCHANGED <<mode, conn, prov, sess, call, troubles, cache, cls>>
      /\ saved' = IF conn = "auto" THEN db' ELSE saved
      /\ \/ db' = db /\ pc' = "rollback"
         \/ pc = "createCopy" /\ db' = [db EXCEPT !.copy[cls] = Created(cls)] /\ pc' = "copyRows"
         \/ pc = "copyRows" /\ pc' = "dropOld"
              /\ db' = [db EXCEPT !.copy[cls].kept = CommonFields(t, cls) \cap t.kept]
  BY DEF CreateCopy, CopyRows, Statement, other, fixed, levels, store, FitInv, TablesTyped
<1>4. Keeps(t, cls)
  BY <1>1 DEF KeepInv, DataKept, Halfway, InPlace
<1>5. ASSUME pc = "copyRows"
      PROVE  rows \in GoodTable /\ rows # NoTable /\ Keeps(rows, cls)
  <2>1. db.copy[cls] \in GoodTable /\ db.copy[cls].cols = Mapped[cls]
    BY <1>1, <1>5 DEF FitInv, Progress, TablesTyped, MaybeTables
  <2>2. /\ rows \in GoodTable /\ rows # NoTable
        /\ rows.kept = Mapped[cls] \cap t.cols \cap t.kept
    BY <2>1, <1>2, NoTableAssumption DEF GoodTable, Table, CommonFields
  <2>3. t.kept \subseteq t.cols
    BY <1>2 DEF GoodTable
  <2> QED
    BY <1>2, <1>4, <2>2, <2>3 DEF Keeps
<1>6. /\ db' \in [table : MaybeTables, copy : MaybeTables] /\ db'.table = db.table
      /\ pc' = "dropOld" => db'.copy[cls] = rows
  <2>1. CASE db' = db /\ pc' = "rollback"
    BY <1>3, <2>1 DEF FitInv, TablesTyped
  <2>2. CASE db' = [db EXCEPT !.copy[cls] = Created(cls)] /\ pc' = "copyRows"
    BY <1>1, <2>2, CreatedGood, CopyChanged
  <2>3. CASE /\ pc = "copyRows"
             /\ db' = [db EXCEPT !.copy[cls].kept = CommonFields(t, cls) \cap t.kept]
    <3>1. db' = [db EXCEPT !.copy[cls] = rows]
      BY <1>1, <2>3 DEF FitInv, TablesTyped, MaybeTables
    <3> HIDE DEF rows
    <3> QED
      BY <1>1, <1>5, <2>3, <3>1, CopyChanged
  <2> QED
    BY <1>3, <2>1, <2>2, <2>3
<1> HIDE DEF rows
<1>7. Touches
  BY <1>1, <1>3, <1>6 DEF Touches
<1>8. UpdateLevel' = UpdateLevel
  BY <1>1, <1>3 DEF UpdateLevel, AfterBegin
<1>9. DataKept' /\ LevelsDue' /\ OneOutdated'
  BY <1>1, <1>4, <1>6, <1>7, <1>8, StatementKeep DEF OutdatedIn
<1>10. OutdatedIn(db, cls)'
  BY <1>1, <1>3, <1>6 DEF OutdatedIn, UpdateNeeded
<1>11. pc' = "dropOld" => Keeps(db.copy[cls], cls)'
  BY <1>3, <1>5, <1>6 DEF Keeps
<1>12. Underway'
  BY <1>3, <1>10, <1>11 DEF Underway
<1> QED
  BY <1>9, <1>12 DEF KeepInv

\* A table is dropped only inside a transaction: the table is outdated, and so
\* the counter stands for an open one.
LEMMA DropOldKeep ==
    ASSUME IInv, FitInv, UNCHANGED stored, KeepInv, DropOld PROVE KeepInv'
<1>1. /\ cls \in Classes \ cache /\ mode[cls] = "Update" /\ pc = "dropOld"
      /\ OutdatedIn(db, cls) /\ Keeps(db.copy[cls], cls)
  BY DEF IInv, NotYetMarked, Synchronizing, DropOld, FitInv, Progress, Altering,
         KeepInv, Underway
<1>2. /\ WithTable(NoTable) \in [table : MaybeTables, copy : MaybeTables]
      /\ WithTable(NoTable).table[cls] = NoTable
      /\ WithTable(NoTable).copy = db.copy
      /\ \A c \in Classes \ {cls} : WithTable(NoTable).table[c] = db.table[c]
  BY <1>1, TablesChanged
<1>3. /\ UNCHANGED <<mode, conn, prov, sess, call, troubles, cache, cls>>
      /\ saved' = IF conn = "auto" THEN db' ELSE saved
      /\ \/ db' = db /\ pc' = "rollback"
         \/ db' = WithTable(NoTable) /\ pc' = "rename"
  BY DEF DropOld, Statement, other, fixed, levels, store, FitInv, TablesTyped
<1>4. Touches /\ db'.copy = db.copy
  BY <1>2, <1>3 DEF Touches, FitInv, TablesTyped
<1>5. UpdateLevel' = UpdateLevel /\ UpdateLevel = 1 /\ Due' = Due /\ Due > 0
  BY <1>1, <1>3, LevelTypes DEF UpdateLevel, AfterBegin, Due, Owed
<1>6. prov = Due /\ conn = "tx" /\ OutdatedIn(saved, cls)
  BY <1>1, <1>5, LevelTypes DEF KeepInv, LevelsDue, OneOutdated
<1>7. Halfway(cls)'
  BY <1>3, <1>5, <1>6 DEF Halfway
<1>8. OutdatedIn(db', cls) => OutdatedIn(db, cls)
  BY <1>1
<1>9. DataKept' /\ LevelsDue' /\ OneOutdated'
  BY <1>1, <1>4, <1>5, <1>6, <1>7, <1>8, StatementKeep
<1>10. Underway'
  <2>1. OutdatedIn(saved, cls)' /\ Keeps(db.copy[cls], cls)'
    BY <1>1, <1>3, <1>4, <1>6 DEF OutdatedIn, UpdateNeeded, Keeps
  <2> QED
    BY <1>3, <1>5, <1>6, <2>1 DEF Underway
<1> QED
  BY <1>9, <1>10 DEF KeepInv

\* The new table is in place: nothing is outdated any more.
LEMMA RenameKeep ==
    ASSUME IInv, FitInv, UNCHANGED stored, KeepInv, Rename \/ CheckForeignKeys PROVE KeepInv'
<1>1. /\ cls \in Classes \ cache /\ mode[cls] = "Update" /\ pc \in {"rename", "fkCheck"}
      /\ OutdatedIn(saved, cls)
  BY DEF IInv, NotYetMarked, Synchronizing, Rename, CheckForeignKeys, FitInv, Progress,
         Altering, KeepInv, Underway
<1>2. pc = "rename" => /\ conn = "tx" /\ prov = Due
                       /\ Keeps(db.copy[cls], cls) /\ db.copy[cls] \in GoodTable
                       /\ db.copy[cls] # NoTable /\ ~UpdateNeeded(db.copy[cls], cls)
  BY <1>1 DEF KeepInv, Underway, FitInv, Progress, TablesTyped, MaybeTables, UpdateNeeded
<1> DEFINE new == Renamed(cls)
<1>3. /\ UNCHANGED <<mode, conn, prov, sess, call, troubles, cache, cls>>
      /\ saved' = IF conn = "auto" THEN db' ELSE saved
      /\ pc' \in {"fkCheck", "commitUpdate", "rollback"}
      /\ \/ db' = db /\ (pc = "rename" => pc' = "rollback")
         \/ db' = new /\ pc = "rename"
  BY DEF Rename, CheckForeignKeys, Statement, other, fixed, levels, store, FitInv, TablesTyped
<1>4. /\ new \in [table : MaybeTables, copy : MaybeTables]
      /\ new.table[cls] = db.copy[cls]
      /\ \A c \in Classes \ {cls} : new.table[c] = db.table[c]
  BY <1>1 DEF Renamed, FitInv, TablesTyped, MaybeTables
<1> HIDE DEF new
<1>5. Touches
  BY <1>3, <1>4 DEF Touches, FitInv, TablesTyped
<1>6. UpdateLevel' = UpdateLevel /\ UpdateLevel = 1 /\ Due' = Due /\ Due > 0
  BY <1>1, <1>3, LevelTypes DEF UpdateLevel, AfterBegin, Due, Owed
<1>7. OutdatedIn(db', cls) => OutdatedIn(db, cls)
  BY <1>2, <1>3, <1>4 DEF OutdatedIn
<1>8. \/ Keeps(db'.table[cls], cls)
      \/ conn = "tx" /\ Halfway(cls)'
  <2>1. CASE db' = new /\ pc = "rename"
    BY <1>2, <1>4, <2>1
  <2>2. CASE db' = db /\ pc = "rename" /\ pc' = "rollback"
    BY <1>2, <1>3, <1>6, <2>2 DEF Halfway
  <2>3. CASE db' = db /\ pc = "fkCheck"
    BY <1>1, <2>3 DEF KeepInv, DataKept, Halfway, InPlace
  <2> QED
    BY <1>1, <1>3, <2>1, <2>2, <2>3
<1>9. DataKept' /\ LevelsDue' /\ OneOutdated'
  BY <1>1, <1>5, <1>6, <1>7, <1>8, StatementKeep
<1>10. Underway'
  <2>1. CASE conn = "tx"
    BY <1>1, <1>3, <2>1 DEF Underway, OutdatedIn, UpdateNeeded
  <2>2. CASE conn = "auto"
    <3>1. pc = "fkCheck" /\ db' = db /\ saved' = saved
      BY <1>1, <1>2, <1>3, <2>2 DEF FitInv, TablesTyped
    <3> QED
      BY <1>1, <1>3, <3>1 DEF Underway, OutdatedIn, UpdateNeeded
  <2> QED
    BY <2>1, <2>2, LevelTypes
<1> QED
  BY <1>9, <1>10 DEF KeepInv

-----------------------------------------------------------------------------
(* Beginning and ending transactions.                                        *)

\* The tables on disk or on the connection become those of the other.
LEMMA SettledKeep ==
    ASSUME KeepInv, UNCHANGED <<mode, stored>>,
           \/ UNCHANGED <<db, saved>>
           \/ db' = saved /\ saved' = saved
           \/ /\ db' = db /\ saved' = db
              /\ pc \notin {"rename", "rollback", "failed", "rollbackCall"}
    PROVE  /\ OneOutdated'
           /\ \A c \in Classes : InPlace(c) =>
                  /\ Keeps(saved.table[c], c)'
                  /\ Keeps(db.table[c], c)' \/ (db' # saved /\ Halfway(c))
<1>1. OneOutdated'
  BY DEF KeepInv, OneOutdated, OutdatedIn, UpdateNeeded
<1> QED
  BY <1>1 DEF KeepInv, DataKept, Keeps, InPlace, Halfway

LEMMA BeginKeep == ASSUME IInv, FitInv, KeepInv, Begin PROVE KeepInv'
<1>1. /\ pc = "begin" /\ mode[cls] \in {"Append", "Update"}
      /\ UNCHANGED <<mode, stored, cls, call, sess, db, saved>>
      /\ prov' = prov + 1 /\ conn' = IF prov = 0 THEN "tx" ELSE conn
      /\ pc' = IF ~Exists(cls) THEN "create"
               ELSE IF mode[cls] = "Append" THEN "addColumns" ELSE "createCopy"
  BY DEF Begin, ProviderBegin, other, fixed, store, FitInv, Progress
<1>2. UpdateLevel = 0 /\ UpdateLevel' = 1 /\ Due' = Due + 1
  BY <1>1, LevelTypes DEF UpdateLevel, AfterBegin, Due, Owed
<1>3. DataKept' /\ OneOutdated'
  BY <1>1, SettledKeep DEF DataKept, Halfway, InPlace
<1>4. LevelsDue'
  BY <1>1, <1>2, LevelTypes DEF KeepInv, LevelsDue, OutdatedIn, UpdateNeeded
<1>5. Underway'
  BY <1>1 DEF KeepInv, Underway, Exists, OutdatedIn, UpdateNeeded
<1> QED
  BY <1>3, <1>4, <1>5 DEF KeepInv

LEMMA CommitKeep == ASSUME IInv, FitInv, KeepInv, Commit PROVE KeepInv'
<1>1. /\ pc = "commit" /\ pc' = "synced"
      /\ UNCHANGED <<mode, stored, cls, call, sess, db>> /\ prov' = prov - 1
      /\ \/ prov = 1 /\ conn = "tx" /\ conn' = "auto" /\ saved' = db
         \/ ~(prov = 1 /\ conn = "tx") /\ UNCHANGED <<conn, saved>>
         \/ prov = 1 /\ conn = "tx" /\ UNCHANGED <<conn, saved>>
  BY DEF Commit, ProviderEnd, SqlCommit, CommitRefused, other, fixed
<1>2. UpdateLevel = 1 /\ UpdateLevel' = 0 /\ Due' = Due - 1
  BY <1>1, LevelTypes DEF UpdateLevel, AfterBegin, Due, Owed
<1>3. DataKept' /\ OneOutdated'
  BY <1>1, SettledKeep DEF DataKept, Halfway, InPlace
<1>4. LevelsDue'
  BY <1>1, <1>2, LevelTypes DEF KeepInv, LevelsDue, OutdatedIn, UpdateNeeded
<1>5. Underway'
  BY <1>1 DEF Underway
<1> QED
  BY <1>3, <1>4, <1>5 DEF KeepInv

\* A rollback that does not reach SQLite leaves the merge to undo the rest.
LEMMA RollbackKeep == ASSUME IInv, FitInv, KeepInv, Rollback PROVE KeepInv'
<1>1. /\ pc = "rollback" /\ pc' = "failed"
      /\ UNCHANGED <<mode, stored, cls, call, sess, saved>> /\ prov' = prov - 1
      /\ \/ prov = 1 /\ conn = "tx" /\ conn' = "auto" /\ db' = saved
         \/ ~(prov = 1 /\ conn = "tx") /\ UNCHANGED <<conn, db>>
  BY DEF Rollback, ProviderEnd, SqlRollback, other, fixed
<1>2. UpdateLevel = 1 /\ UpdateLevel' = 0 /\ Due' = Due - 1 /\ Due >= 1
  BY <1>1, LevelTypes DEF UpdateLevel, AfterBegin, Due, Owed
<1>3. /\ OneOutdated'
      /\ \A c \in Classes : InPlace(c) =>
             /\ Keeps(saved.table[c], c)'
             /\ Keeps(db.table[c], c)' \/ (db' # saved /\ Halfway(c))
  BY <1>1, SettledKeep
<1>4. ASSUME NEW c \in Classes, db' # saved, Halfway(c) PROVE Halfway(c)'
  BY <1>1, <1>2, <1>4, LevelTypes DEF Halfway
<1>5. DataKept'
  BY <1>1, <1>3, <1>4 DEF DataKept, InPlace
<1>6. prov >= Due
  BY DEF KeepInv, LevelsDue
<1>7. LevelsDue'
  <2>1. CASE prov = 1 /\ conn = "tx"
    BY <1>1, <1>2, <1>6, <2>1, LevelTypes DEF LevelsDue
  <2>2. CASE ~(prov = 1 /\ conn = "tx")
    BY <1>1, <1>2, <2>2, LevelTypes DEF KeepInv, LevelsDue, OutdatedIn, UpdateNeeded
  <2> QED
    BY <2>1, <2>2
<1>8. Underway'
  BY <1>1 DEF Underway
<1> QED
  BY <1>3, <1>5, <1>7, <1>8 DEF KeepInv

\* The one outdated table has been altered: the counter may be wrong from here.
LEMMA CommitUpdateKeep == ASSUME IInv, FitInv, KeepInv, CommitUpdate PROVE KeepInv'
<1>1. /\ pc = "commitUpdate" /\ pc' \in {"fkOn", "synced"} /\ cls \in Classes
      /\ FitsMode(cls) /\ mode[cls] = "Update"
  BY DEF IInv, NotYetMarked, Synchronizing, CommitUpdate, FitInv, Progress, Altering
<1>2. /\ UNCHANGED <<mode, stored, cls, call, sess, prov, db>>
      /\ saved' = db \/ saved' = saved
  BY DEF CommitUpdate, SqlCommit, CommitRefused, other, fixed, store
<1>3. UpdateLevel = 1 /\ UpdateLevel' \in {0, 1} /\ Due' <= Due
  BY <1>1, <1>2, LevelTypes DEF UpdateLevel, AfterBegin, Due, Owed
<1>4. DataKept' /\ OneOutdated'
  BY <1>1, <1>2, SettledKeep DEF DataKept, Halfway, InPlace
<1>5. ~OutdatedIn(db, cls) /\ OutdatedIn(saved, cls)
  BY <1>1 DEF KeepInv, Underway, FitsMode, OutdatedIn
<1>6. \A c \in Classes : ~OutdatedIn(db, c)
  BY <1>1, <1>5 DEF KeepInv, OneOutdated
<1>7. \A c \in Classes : ~OutdatedIn(db, c)'
  BY <1>2, <1>6 DEF OutdatedIn, UpdateNeeded
<1>8. LevelsDue'
  BY <1>2, <1>3, <1>7, LevelTypes DEF KeepInv, LevelsDue, Due, Owed
<1>9. Underway'
  BY <1>1, <1>7 DEF Underway
<1> QED
  BY <1>4, <1>8, <1>9 DEF KeepInv

LEMMA PragmaKeep == ASSUME IInv, FitInv, KeepInv, SwitchOff \/ SwitchOn PROVE KeepInv'
<1>1. /\ \/ pc = "fkOff" /\ pc' \in {"begin", "failed"}
         \/ pc = "fkOn" /\ pc' \in {"synced", "rollback"}
      /\ UNCHANGED <<mode, stored, cls, call, sess, prov, conn, db, saved>>
  BY DEF SwitchOff, SwitchOn, ForeignKeysOff, Pragma, store, levels, fixed
<1>2. DataKept' /\ OneOutdated'
  BY <1>1, SettledKeep DEF DataKept, Halfway, InPlace
<1>3. CASE pc = "fkOff"
  <2>1. Due' = Due
    BY <1>1, <1>3 DEF UpdateLevel, AfterBegin, Due, Owed
  <2>2. LevelsDue'
    BY <1>1, <2>1 DEF KeepInv, LevelsDue, OutdatedIn, UpdateNeeded
  <2>3. Underway'
    BY <1>1, <1>3 DEF KeepInv, Underway, OutdatedIn, UpdateNeeded
  <2> QED
    BY <1>2, <2>2, <2>3 DEF KeepInv
<1>4. CASE pc = "fkOn"
  <2>1. Due' <= Due
    BY <1>1, <1>4, LevelTypes DEF UpdateLevel, AfterBegin, Due, Owed
  <2>2. \A c \in Classes : ~OutdatedIn(db, c)'
    BY <1>1, <1>4 DEF KeepInv, Underway, OutdatedIn, UpdateNeeded
  <2>3. Due' \in Int
    BY <1>1, <1>4, LevelTypes DEF UpdateLevel, AfterBegin, Due, Owed
  <2>4. LevelsDue'
    BY <1>1, <2>1, <2>2, <2>3, LevelTypes DEF KeepInv, LevelsDue
  <2>5. Underway'
    BY <1>1, <1>4 DEF Underway
  <2> QED
    BY <1>2, <2>4, <2>5 DEF KeepInv
<1> QED
  BY <1>1, <1>3, <1>4

-----------------------------------------------------------------------------
(* The call, the recursion and the process.                                  *)

\* Steps of a call that leave tables and levels alone.
LEMMA QuietKeep ==
    ASSUME FitInv, KeepInv, UNCHANGED <<mode, stored, db, saved, conn, prov, sess>>,
           Due' = Due, Underway', \A c \in Classes : Halfway(c) => Halfway(c)'
    PROVE  KeepInv'
<1>1. DataKept'
  BY DEF KeepInv, DataKept, Keeps, InPlace
<1>2. LevelsDue' /\ OneOutdated'
  BY DEF KeepInv, LevelsDue, OneOutdated, OutdatedIn, UpdateNeeded
<1> QED
  BY <1>1, <1>2 DEF KeepInv

LEMMA RestartKeep == ASSUME KeepInv, Restart PROVE KeepInv'
<1>1. /\ UNCHANGED <<mode, stored, saved>> /\ db' = saved
      /\ conn' = "auto" /\ prov' = 0 /\ sess' = 0 /\ call' = "none" /\ pc' = "idle"
  BY DEF Restart, Idle, fixed
<1>2. DataKept' /\ OneOutdated'
  BY <1>1 DEF KeepInv, DataKept, OneOutdated, Keeps, InPlace, OutdatedIn, UpdateNeeded
<1>3. LevelsDue' /\ Underway'
  BY <1>1 DEF LevelsDue, Underway, Due, Owed, UpdateLevel, AfterBegin
<1> QED
  BY <1>2, <1>3 DEF KeepInv

LEMMA CallKeep ==
    ASSUME FitInv, KeepInv, NEW c \in Classes, Read(c) \/ Merge(c) PROVE KeepInv'
<1>1. CASE Restart
  BY <1>1, RestartKeep
<1>2. ASSUME ~Restart PROVE KeepInv'
  <2>1. /\ pc = "idle" /\ pc' = "ensure" /\ call = "none"
        /\ UNCHANGED <<mode, stored, db, saved>>
        /\ \/ call' = "read" /\ UNCHANGED <<prov, sess, conn>>
           \/ /\ call' = "merge" /\ sess' = sess + 1
              /\ \/ /\ sess = 0 /\ prov' = prov + 1
                    /\ conn' = IF prov = 0 THEN "tx" ELSE conn
                 \/ sess # 0 /\ UNCHANGED <<prov, conn>>
    BY <1>2 DEF Read, Merge, ProviderBegin, fixed, store, levels, FitInv, TablesTyped
  <2>2. Due = 0 /\ Due' = IF call' = "merge" /\ sess' = 1 THEN 1 ELSE 0
    BY <2>1 DEF Due, Owed, UpdateLevel, AfterBegin
  <2>3. DataKept' /\ OneOutdated'
    BY <2>1, SettledKeep DEF DataKept, Halfway, InPlace
  <2>4. LevelsDue'
    BY <2>1, <2>2, LevelTypes DEF KeepInv, LevelsDue, OutdatedIn, UpdateNeeded
  <2>5. Underway'
    BY <2>1 DEF Underway
  <2> QED
    BY <2>3, <2>4, <2>5 DEF KeepInv
<1> QED
  BY <1>1, <1>2

LEMMA EnsureKeep == ASSUME FitInv, KeepInv, Ensure PROVE KeepInv'
<1>1. CASE Restart
  BY <1>1, RestartKeep
<1>2. ASSUME ~Restart PROVE KeepInv'
  <2>1. /\ pc = "ensure"
        /\ pc' = IF cls \in cache THEN "descend" ELSE FirstStep(cls)
        /\ UNCHANGED <<mode, stored, db, saved, conn, prov, sess, call, cls>>
    BY <1>2 DEF Ensure, fixed, store, levels
  <2>2. \/ pc' \in {"descend", "synced", "dropFirst"}
        \/ pc' = "create" /\ mode[cls] = "Recreate"
        \/ pc' = "begin" /\ (mode[cls] = "Append" \/ ~Exists(cls))
        \/ pc' = "fkOff" /\ OutdatedIn(db, cls)
    BY <2>1 DEF FirstStep, Outdated, OutdatedIn, Exists
  <2>3. Due' = Due
    BY <2>1, <2>2 DEF Due, Owed, UpdateLevel, AfterBegin
  <2>4. Underway'
    BY <2>1, <2>2 DEF Underway, OutdatedIn, UpdateNeeded, Exists
  <2> QED
    BY <2>1, <2>3, <2>4, QuietKeep DEF Halfway
<1> QED
  BY <1>1, <1>2

LEMMA GoOnKeep ==
    ASSUME FitInv, KeepInv, Execute \/ Failed \/ Synced \/ Descend PROVE KeepInv'
<1>1. /\ UNCHANGED <<mode, stored, db, saved, conn, prov, sess, call>>
      /\ \/ /\ pc \in {"execute", "synced", "descend"}
            /\ pc' \in {"returnRead", "commitCall", "failed", "ensure", "descend", "execute"}
         \/ /\ pc = "failed" /\ cls' = cls
            /\ pc' = IF call = "read" THEN "returnRead" ELSE "rollbackCall"
  BY DEF Execute, Statement, Failed, Synced, Descend, fixed, store, levels, FitInv, TablesTyped
<1>2. Due' = Due /\ UpdateLevel = 0
  BY <1>1 DEF Due, Owed, UpdateLevel, AfterBegin
<1>3. Underway'
  BY <1>1 DEF Underway
<1>4. ASSUME NEW c \in Classes, Halfway(c) PROVE Halfway(c)'
  <2>1. pc = "failed" /\ cls' = cls
    BY <1>1, <1>4 DEF Halfway
  <2>2. call # "read"
    BY <1>2, <1>4 DEF Halfway, Due, Owed
  <2> QED
    BY <1>1, <1>2, <1>4, <2>1, <2>2 DEF Halfway
<1> QED
  BY <1>1, <1>2, <1>3, <1>4, QuietKeep

\* What a merge rolls back is all that an update has left halfway.
LEMMA EndCallKeep == ASSUME FitInv, KeepInv, EndCall PROVE KeepInv'
<1>1. /\ pc \in {"returnRead", "commitCall", "rollbackCall"}
      /\ pc' = "idle" /\ call' = "none" /\ UNCHANGED <<mode, stored>>
      /\ pc = "returnRead" => call = "read"
      /\ pc # "returnRead" => call = "merge"
  BY DEF EndCall, Idle, fixed, FitInv, TablesTyped
<1>2. \/ pc = "returnRead" /\ UNCHANGED <<prov, sess, conn, db, saved>>
      \/ /\ pc # "returnRead" /\ sess > 1 /\ UNCHANGED <<prov, conn, db, saved>>
      \/ /\ pc # "returnRead" /\ sess = 1 /\ prov' = prov - 1
         /\ \/ /\ prov = 1 /\ conn = "tx" /\ conn' = "auto"
               /\ \/ db' = db /\ saved' = db /\ pc = "commitCall"
                  \/ db' = saved /\ saved' = saved
            \/ ~(prov = 1 /\ conn = "tx") /\ UNCHANGED <<conn, db, saved>>
  <2>1. CASE pc = "returnRead" /\ UNCHANGED <<levels, store, troubles>>
    BY <2>1 DEF levels, store
  <2>2. CASE /\ pc # "returnRead" /\ sess > 1 /\ sess' = sess - 1
             /\ UNCHANGED <<prov, conn, store, troubles>>
    BY <2>2 DEF store
  <2>3. CASE /\ pc # "returnRead" /\ sess = 1 /\ prov' = prov - 1
             /\ pc = "commitCall" /\ ProviderEnd(SqlCommit)
    BY <2>3 DEF ProviderEnd, SqlCommit
  <2>4. CASE /\ pc # "returnRead" /\ sess = 1 /\ prov' = prov - 1
             /\ ProviderEnd(SqlRollback)
    BY <2>4 DEF ProviderEnd, SqlRollback
  <2> QED
    BY <1>1, <2>1, <2>2, <2>3, <2>4 DEF EndCall
<1>3. /\ Due = IF call = "merge" /\ sess = 1 THEN 1 ELSE 0
      /\ Due' = 0
  BY <1>1 DEF Due, Owed, UpdateLevel, AfterBegin
<1>4. /\ OneOutdated'
      /\ \A c \in Classes : InPlace(c) =>
             /\ Keeps(saved.table[c], c)'
             /\ Keeps(db.table[c], c)' \/ (db' # saved /\ Halfway(c))
  BY <1>1, <1>2, SettledKeep
<1>5. ASSUME NEW c \in Classes, Halfway(c) PROVE pc # "commitCall" /\ db' = saved
  BY <1>1, <1>2, <1>3, <1>5, LevelTypes DEF Halfway
<1>6. DataKept'
  BY <1>1, <1>4, <1>5 DEF DataKept, InPlace
<1>7. LevelsDue'
  <2>1. prov >= Due
    BY DEF KeepInv, LevelsDue
  <2>2. CASE pc # "returnRead" /\ sess = 1 /\ prov = 1 /\ conn = "tx"
    BY <1>2, <1>3, <2>2, LevelTypes DEF LevelsDue
  <2>3. CASE pc # "returnRead" /\ sess = 1 /\ ~(prov = 1 /\ conn = "tx")
    <3>1. Due = 1 /\ prov' = prov - 1 /\ UNCHANGED <<db, conn>>
      BY <1>1, <1>2, <1>3, <2>3, LevelTypes
    <3>2. \A c \in Classes : ~OutdatedIn(db, c)
      BY <2>3, <3>1, LevelTypes DEF KeepInv, LevelsDue
    <3> QED
      BY <1>1, <1>3, <2>1, <3>1, <3>2, LevelTypes DEF LevelsDue, OutdatedIn, UpdateNeeded
  <2>4. CASE pc = "returnRead" \/ sess > 1
    <3>1. Due = 0 /\ UNCHANGED <<prov, conn, db>>
      BY <1>1, <1>2, <1>3, <2>4, LevelTypes
    <3> QED
      BY <1>1, <1>3, <3>1 DEF KeepInv, LevelsDue, OutdatedIn, UpdateNeeded
  <2> QED
    BY <1>2, <2>2, <2>3, <2>4
<1>8. Underway'
  BY <1>1 DEF Underway
<1> QED
  BY <1>4, <1>6, <1>7, <1>8 DEF KeepInv

-----------------------------------------------------------------------------

\* At most one table is outdated at first.
LEMMA InitKeep == ASSUME Init, MaxOutdated <= 1 PROVE KeepInv
<1> DEFINE late == {c \in Classes : Outdated(c)}
<1>1. \A c, d \in late : c = d
  <2> SUFFICES ASSUME NEW c \in late, NEW d \in late, c # d PROVE FALSE
    OBVIOUS
  <2>1. IsFiniteSet(late) /\ Cardinality(late) \in Nat /\ Cardinality(late) <= 1
    BY ClassesAssumption, BoundsAssumption, FS_Subset, FS_CardinalityType DEF Init
  <2> HIDE DEF late
  <2>2. IsFiniteSet(late \ {c}) /\ Cardinality(late \ {c}) = Cardinality(late) - 1
    BY <2>1, FS_RemoveElement
  <2>3. late \ {c} = {}
    BY <2>1, <2>2, FS_EmptySet, FS_CardinalityType
  <2> QED
    BY <2>3
<1>2. \A c \in Classes : OutdatedIn(db, c) <=> c \in late
  BY DEF OutdatedIn, Outdated, Exists
<1> HIDE DEF late
<1>3. saved = db /\ prov = 0 /\ pc = "idle" /\ call = "none"
  BY DEF Init
<1>4. OneOutdated
  BY <1>1, <1>2, <1>3 DEF OneOutdated
<1>5. DataKept
  <2>1. \A c \in Classes : db.table[c] # NoTable => db.table[c].kept = db.table[c].cols
    BY DEF Init
  <2>2. \A c \in Classes : stored[c] = IF db.table[c] # NoTable THEN db.table[c].cols ELSE {}
    BY DEF Init, Exists
  <2> QED
    BY <1>3, <2>1, <2>2 DEF DataKept, Keeps
<1>6. LevelsDue /\ Underway
  BY <1>3 DEF LevelsDue, Underway, Due, Owed, UpdateLevel, AfterBegin
<1> QED
  BY <1>4, <1>5, <1>6 DEF KeepInv

LEMMA NextKeep == ASSUME IInv, FitInv, KeepInv, [Next]_vars PROVE KeepInv'
<1>1. CASE \E c \in Classes : Read(c) \/ Merge(c)
  BY <1>1, CallKeep
<1>2. CASE Execute \/ Failed \/ EndCall \/ Ensure \/ Synced \/ Descend
  BY <1>2, GoOnKeep, EndCallKeep, EnsureKeep
<1>3. CASE DropFirst \/ CreateTable \/ AddColumns
  BY <1>3, CreateKeep DEF DropFirst, CreateTable, AddColumns, other, fixed
<1>4. CASE Begin \/ Commit \/ Rollback \/ CommitUpdate \/ SwitchOff \/ SwitchOn
  BY <1>4, BeginKeep, CommitKeep, RollbackKeep, CommitUpdateKeep, PragmaKeep
<1>5. CASE CreateCopy \/ CopyRows
  BY <1>5, CopyKeep DEF CreateCopy, CopyRows, other, fixed
<1>6. CASE DropOld
  BY <1>6, DropOldKeep DEF DropOld, other, fixed
<1>7. CASE Rename \/ CheckForeignKeys
  BY <1>7, RenameKeep DEF Rename, CheckForeignKeys, other, fixed
<1>8. CASE Restart
  BY <1>8, RestartKeep
<1>9. CASE UNCHANGED vars
  <2>1. UNCHANGED <<mode, stored, db, saved, conn, prov, sess, call, cls, pc>>
    BY <1>9 DEF vars, fixed, store, levels
  <2>2. Due' = Due
    BY <2>1 DEF Due, Owed, UpdateLevel, AfterBegin
  <2>3. Underway'
    BY <2>1, <2>2 DEF KeepInv, Underway, Exists, Keeps, OutdatedIn, UpdateNeeded
  <2> QED
    BY <2>1, <2>2, <2>3, QuietKeep DEF Halfway
<1> QED
  BY <1>1, <1>2, <1>3, <1>4, <1>5, <1>6, <1>7, <1>8, <1>9 DEF Next, Step

\* Wherever the process ends, and whichever statements, pragmas and commits fail,
\* "update" and "append" leave on disk what was stored, as long as no more than
\* one table has to be altered (qormsqliteprovider.cpp:641-858).
THEOREM DataIsKept == ASSUME MaxOutdated <= 1 PROVE Spec => []UpdateKeepsData
<1>1. Init => KeepInv
  BY InitKeep
<1>2. IInv /\ FitInv /\ KeepInv /\ [Next]_vars => KeepInv'
  BY NextKeep
<1>3. KeepInv => UpdateKeepsData
  BY DEF KeepInv, DataKept, Keeps, InPlace, UpdateKeepsData
<1> QED
  BY <1>1, <1>2, <1>3, SyncInvariant, FitInvariant, PTL DEF Spec
=============================================================================
