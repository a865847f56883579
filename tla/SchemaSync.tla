------------------------------ MODULE SchemaSync ------------------------------
(* How QOrmSqliteProvider brings the tables in line with the entity classes: *)
(* ensureSchemaSynchronized() on the first access to a class, the schema     *)
(* modes, the transaction counter they use and the foreign key pragma around *)
(* the "12-step" table update (qormsqliteprovider.cpp:414-893).              *)
(*                                                                           *)
(* One step is one SQL statement, so that the process can end between any    *)
(* two of them and any of them can fail.  A table is what the comparison     *)
(* with the mapping sees of it: its columns, those whose definition differs  *)
(* from the mapping, and those that still hold the data they had at first.   *)

EXTENDS Integers, Sequences, FiniteSets

CONSTANTS
    Classes,        \* the entity classes
    Fields,         \* the column names
    Mapped,         \* [Classes -> SUBSET Fields]: the non-transient properties
    Refs,           \* [Classes -> SUBSET Classes]: the classes referenced
    Modes,          \* the schema modes in use
    ForeignKeys,    \* QOrmSqliteConfiguration::foreignKeysEnabled()
    Calls,          \* subset of {"read", "merge"}
    Failures,       \* subset of {"statement", "pragma", "commit"}
    MaxFaults,      \* bound: answers of SQLite that are errors
    MaxOutdated,    \* bound: tables that "update" has to alter
    NoTable, NoClass

AllModes == {"Recreate", "Update", "Append", "Bypass", "Validate"}

ASSUME ClassesAssumption ==
    /\ IsFiniteSet(Classes)
    /\ Mapped \in [Classes -> (SUBSET Fields) \ {{}}]
    /\ Refs \in [Classes -> SUBSET Classes]
ASSUME BoundsAssumption ==
    /\ Modes \subseteq AllModes
    /\ ForeignKeys \in BOOLEAN
    /\ Calls \subseteq {"read", "merge"}
    /\ Failures \subseteq {"statement", "pragma", "commit"}
    /\ MaxFaults \in Nat /\ MaxOutdated \in Nat
ASSUME NoTableAssumption ==
    NoTable \notin [cols : SUBSET Fields, wrong : SUBSET Fields, kept : SUBSET Fields]

VARIABLES
    mode,       \* the effective mode: of the class, else of the configuration
    stored,     \* the columns that held data when the program was installed
    saved, db,  \* the tables and their "new_X" copies: on disk, on the connection
    conn,       \* "auto" (each statement commits) or "tx"
    prov, sess, \* m_transactionCounter of the provider and of the session
    fk,         \* PRAGMA foreign_keys of the connection
    withFk,     \* withForeignKeys of updateSchema()
    cache,      \* m_schemaSyncCache
    refs,       \* stack: what each ensureSchemaSynchronized() has yet to visit
    call, target, \* the operation of the session and its class
    cls,        \* the class being looked at
    pc,
    troubles,   \* history: since the start of the process, has a call "failed",
                \* a transaction around a call been "undone", a COMMIT been "refused"
    faults

levels == <<conn, prov, sess>>
store == <<saved, db>>
fixed == <<mode, stored>>
vars == <<fixed, store, levels, fk, withFk, cache, refs, call, target, cls, pc,
          troubles, faults>>

Table == [cols : SUBSET Fields, wrong : SUBSET Fields, kept : SUBSET Fields]
GoodTable == {t \in Table : t.wrong \subseteq t.cols /\ t.kept \subseteq t.cols}
MaybeTables == [Classes -> GoodTable \cup {NoTable}]

Steps == {"idle", "ensure", "descend", "dropFirst", "create", "begin",
          "addColumns", "commit", "rollback", "fkOff", "createCopy", "copyRows",
          "dropOld", "rename", "fkCheck", "commitUpdate", "fkOn", "failed",
          "synced", "execute", "returnRead", "commitCall", "rollbackCall"}

TypeOK ==
    /\ mode \in [Classes -> Modes]
    /\ stored \in [Classes -> SUBSET Fields]
    /\ \A d \in {saved, db} : d.table \in MaybeTables /\ d.copy \in MaybeTables
    /\ conn \in {"auto", "tx"}
    /\ prov \in Int /\ sess \in 0..2
    /\ fk \in BOOLEAN /\ withFk \in BOOLEAN
    /\ cache \subseteq Classes
    /\ refs \in Seq(SUBSET Classes)
    /\ call \in {"none", "read", "merge"}
    /\ cls \in Classes \cup {NoClass} /\ target \in Classes \cup {NoClass}
    /\ pc \in Steps
    /\ troubles \subseteq {"failed", "undone", "refused"}
    /\ faults \in 0..MaxFaults

-----------------------------------------------------------------------------
(* Tables against mappings.                                                 *)

\* The two loops of updateSchema(): a column without a non-transient property,
\* a column whose definition differs, or a property without a column.
UpdateNeeded(t, c) == t.cols # Mapped[c] \/ t.wrong # {}

\* CREATE TABLE as generateCreateTableStatement() writes it: nothing in it yet.
Created(c) == [cols |-> Mapped[c], wrong |-> {}, kept |-> {}]

\* Mutant: columns are copied only where the definition is what it was.
CommonFieldsUnchanged(t, c) == (Mapped[c] \cap t.cols) \ t.wrong

CommonFields(t, c) == Mapped[c] \cap t.cols

MissingFields(t, c) == Mapped[c] \ t.cols

Exists(c) == db.table[c] # NoTable

\* What each mode promises of a table it has synchronized.
FitsMode(c) ==
    CASE mode[c] = "Bypass" -> TRUE
      [] mode[c] = "Append" -> Exists(c) /\ MissingFields(db.table[c], c) = {}
      [] OTHER -> Exists(c) /\ ~UpdateNeeded(db.table[c], c)

Outdated(c) == mode[c] = "Update" /\ Exists(c) /\ UpdateNeeded(db.table[c], c)

Init ==
    /\ mode \in [Classes -> Modes]
    /\ db \in [table : [Classes -> {t \in GoodTable : t.kept = t.cols /\ t.cols # {}}
                                   \cup {NoTable}],
               copy : {[c \in Classes |-> NoTable]}]
    /\ saved = db
    /\ stored = [c \in Classes |-> IF Exists(c) THEN db.table[c].cols ELSE {}]
    /\ Cardinality({c \in Classes : Outdated(c)}) <= MaxOutdated
    /\ conn = "auto" /\ prov = 0 /\ sess = 0
    /\ fk = ForeignKeys /\ withFk = FALSE
    /\ cache = {} /\ refs = <<>> /\ troubles = {} /\ faults = 0
    /\ pc = "idle" /\ call = "none" /\ target = NoClass /\ cls = NoClass

-----------------------------------------------------------------------------
(* SQLite.                                                                  *)

Fault(kind) ==
    /\ kind \in Failures
    /\ faults < MaxFaults
    /\ faults' = faults + 1

\* A statement that changes the tables: outside a transaction it is saved at
\* once; one that fails changes nothing.
Statement(possible, dbAfter, next, onError) ==
    \/ /\ possible
       /\ db' = dbAfter
       /\ saved' = IF conn = "auto" THEN dbAfter ELSE saved
       /\ pc' = next
       /\ UNCHANGED faults
    \/ /\ IF possible THEN Fault("statement") ELSE UNCHANGED faults
       /\ pc' = onError
       /\ UNCHANGED store

\* PRAGMA foreign_keys = on: SQLite ignores it inside a transaction.
Pragma(on, next, onError) ==
    \/ /\ fk' = IF conn = "auto" THEN on ELSE fk
       /\ pc' = next
       /\ UNCHANGED faults
    \/ /\ Fault("pragma")
       /\ pc' = onError
       /\ UNCHANGED fk

\* QSqlDatabase::commit() and rollback().
SqlCommit == conn' = "auto" /\ saved' = db /\ UNCHANGED db
SqlRollback == conn' = "auto" /\ db' = saved /\ UNCHANGED saved

-----------------------------------------------------------------------------
(* QOrmSqliteProvider's transaction counter.                                *)

ProviderBeginSucceeds == prov = 0 => conn = "auto"
ProviderBegin == prov' = prov + 1 /\ conn' = IF prov = 0 THEN "tx" ELSE conn

ProviderEndSucceeds == prov = 1 => conn = "tx"
ProviderEnd(Sql) ==
    IF prov = 1 /\ conn = "tx" THEN Sql ELSE UNCHANGED <<conn, saved, db>>

\* COMMIT is refused (the file is locked): the transaction stays open.
CommitRefused ==
    /\ conn = "tx"
    /\ Fault("commit")
    /\ troubles' = troubles \cup {"refused"}
    /\ UNCHANGED <<conn, saved, db>>

Idle == pc' = "idle" /\ call' = "none" /\ target' = NoClass /\ cls' = NoClass

\* The process ends (qFatal, a crash, a kill) and is started again.
Restart ==
    /\ db' = saved /\ conn' = "auto" /\ prov' = 0 /\ sess' = 0
    /\ fk' = ForeignKeys /\ withFk' = FALSE
    /\ cache' = {} /\ refs' = <<>> /\ troubles' = {}
    /\ Idle
    /\ UNCHANGED <<fixed, saved, faults>>

-----------------------------------------------------------------------------
(* The operation of the session that reaches execute(): a query, or a merge *)
(* with the transaction its token requires around it.                       *)

Read(c) ==
    /\ pc = "idle" /\ "read" \in Calls
    /\ call' = "read" /\ cls' = c /\ target' = c /\ pc' = "ensure"
    /\ UNCHANGED <<fixed, store, levels, fk, withFk, cache, refs, troubles, faults>>

\* A transaction that is required and cannot begin ends the process.
Merge(c) ==
    /\ pc = "idle" /\ "merge" \in Calls
    /\ \/ /\ sess = 0 => ProviderBeginSucceeds
          /\ sess' = sess + 1
          /\ IF sess = 0 THEN ProviderBegin ELSE UNCHANGED <<prov, conn>>
          /\ call' = "merge" /\ cls' = c /\ target' = c /\ pc' = "ensure"
          /\ UNCHANGED <<fixed, store, fk, withFk, cache, refs, troubles, faults>>
       \/ /\ sess = 0 /\ ~ProviderBeginSucceeds
          /\ Restart

\* The statement of the operation itself.
Execute ==
    /\ pc = "execute"
    /\ LET done == IF call = "read" THEN "returnRead" ELSE "commitCall"
           works == Exists(target) /\ MissingFields(db.table[target], target) = {}
       IN  Statement(works, db, done, "failed")
    /\ UNCHANGED <<fixed, levels, fk, withFk, cache, refs, call, target, cls, troubles>>

Failed ==
    /\ pc = "failed"
    /\ refs' = <<>>
    /\ troubles' = troubles \cup {"failed"}
    /\ pc' = IF call = "read" THEN "returnRead" ELSE "rollbackCall"
    /\ UNCHANGED <<fixed, store, levels, fk, withFk, cache, call, target, cls, faults>>

\* The provider returns to the session.  Of commitTransaction() and
\* rollbackTransaction() of the token: an end that the provider fails leaves the
\* level of the session where it is.
EndCall ==
    /\ pc \in {"returnRead", "commitCall", "rollbackCall"}
    /\ \/ /\ pc = "returnRead"
          /\ UNCHANGED <<levels, store, troubles>>
       \/ /\ pc # "returnRead" /\ sess > 1
          /\ sess' = sess - 1
          /\ UNCHANGED <<prov, conn, store, troubles>>
       \/ /\ pc # "returnRead" /\ sess = 1
          /\ sess' = IF ProviderEndSucceeds THEN 0 ELSE 1
          /\ prov' = prov - 1
          /\ IF pc = "commitCall"
             THEN ProviderEnd(SqlCommit) /\ UNCHANGED troubles
             ELSE /\ ProviderEnd(SqlRollback)
                  /\ troubles' = IF prov = 1 THEN troubles \cup {"undone"} ELSE troubles
    /\ Idle
    /\ UNCHANGED <<fixed, fk, withFk, cache, refs, faults>>

-----------------------------------------------------------------------------
(* ensureSchemaSynchronized().                                              *)

\* Where the mode of the class leads.
FirstStep(c) ==
    CASE mode[c] = "Recreate" -> IF Exists(c) THEN "dropFirst" ELSE "create"
      [] mode[c] = "Append" -> "begin"
      [] mode[c] = "Update" /\ ~Exists(c) -> "begin"
      [] Outdated(c) -> "fkOff"
      [] OTHER -> "synced"

Ensure ==
    /\ pc = "ensure"
    /\ \/ /\ cls \in cache \/ mode[cls] # "Validate"
          /\ pc' = IF cls \in cache THEN "descend" ELSE FirstStep(cls)
          /\ UNCHANGED <<fixed, store, levels, fk, withFk, cache, refs, call, target,
                         cls, troubles, faults>>
       \/ /\ cls \notin cache /\ mode[cls] = "Validate"    \* not implemented
          /\ Restart

\* Mutant: the class counts as synchronized once its references are.
MarkAfterReferences(c) ==
    /\ cache' = cache
    /\ refs' = <<Refs[c]>> \o refs

\* Mutant: the referenced classes are marked along with the class.
MarkWithReferences(c) ==
    /\ cache' = cache \cup {c} \cup Refs[c]
    /\ refs' = <<Refs[c]>> \o refs

\* The class is marked before its references are visited, which is what ends
\* the recursion where classes reference each other.
Mark(c) ==
    /\ cache' = cache \cup {c}
    /\ refs' = <<Refs[c]>> \o refs

Synced ==
    /\ pc = "synced"
    /\ Mark(cls)
    /\ pc' = "descend"
    /\ UNCHANGED <<fixed, store, levels, fk, withFk, call, target, cls, troubles, faults>>

\* Mutant: the loop over the properties does not go on.
VisitAgain(c) == refs' = refs

Visit(c) == refs' = [refs EXCEPT ![1] = @ \ {c}]

\* The next referenced class; a loop that is over returns to its caller.  The
\* order of the properties is left open.
Descend ==
    /\ pc = "descend"
    /\ \/ /\ refs # <<>> /\ Head(refs) # {}
          /\ \E c \in Head(refs) : cls' = c /\ Visit(c)
          /\ pc' = "ensure"
       \/ /\ refs # <<>> /\ Head(refs) = {}
          /\ refs' = Tail(refs)
          /\ UNCHANGED <<cls, pc>>
       \/ /\ refs = <<>>
          /\ pc' = "execute" /\ cls' = target
          /\ UNCHANGED refs
    /\ UNCHANGED <<fixed, store, levels, fk, withFk, cache, call, target, troubles,
                   faults>>

-----------------------------------------------------------------------------
(* recreateSchema(), appendSchema() and the first half of updateSchema().   *)

other == <<fixed, fk, withFk, cache, refs, call, target, cls>>

WithTable(t) == [db EXCEPT !.table[cls] = t]

\* recreateSchema() has no transaction of its own.
DropFirst ==
    /\ pc = "dropFirst"
    /\ Statement(TRUE, WithTable(NoTable), "create", "failed")
    /\ UNCHANGED <<other, levels, troubles>>

CreateTable ==
    /\ pc = "create"
    /\ IF mode[cls] = "Recreate"
       THEN Statement(TRUE, WithTable(Created(cls)), "synced", "failed")
       ELSE Statement(TRUE, WithTable(Created(cls)), "commit", "rollback")
    /\ UNCHANGED <<other, levels, troubles>>

\* The result of beginTransaction() is not looked at.
Begin ==
    /\ pc = "begin"
    /\ ProviderBegin
    /\ pc' = IF ~Exists(cls) THEN "create"
             ELSE IF mode[cls] = "Append" THEN "addColumns" ELSE "createCopy"
    /\ UNCHANGED <<other, store, sess, troubles, faults>>

\* ALTER TABLE ADD COLUMN for each property that has no column.
AddColumns ==
    /\ pc = "addColumns"
    /\ LET t == db.table[cls]
       IN  IF MissingFields(t, cls) = {}
           THEN pc' = "commit" /\ UNCHANGED <<store, faults>>
           ELSE \E f \in MissingFields(t, cls) :
                    Statement(TRUE, WithTable([t EXCEPT !.cols = @ \cup {f}]),
                              "addColumns", "rollback")
    /\ UNCHANGED <<other, levels, troubles>>

\* Nor are those of commitTransaction() and rollbackTransaction().
Commit ==
    /\ pc = "commit"
    /\ \/ /\ ProviderEnd(SqlCommit)
          /\ UNCHANGED <<faults, troubles>>
       \/ prov = 1 /\ CommitRefused
    /\ prov' = prov - 1
    /\ pc' = "synced"
    /\ UNCHANGED <<other, sess>>

Rollback ==
    /\ pc = "rollback"
    /\ ProviderEnd(SqlRollback) /\ prov' = prov - 1
    /\ pc' = "failed"
    /\ UNCHANGED <<other, sess, troubles, faults>>

-----------------------------------------------------------------------------
(* updateSchema() of a table that exists and differs.                       *)

\* Mutant: the pragma is read after it has been switched off.
ForeignKeysOffForgets ==
    /\ withFk' = FALSE
    /\ Pragma(FALSE, "begin", "failed")

ForeignKeysOff ==
    /\ withFk' = fk
    /\ Pragma(FALSE, "begin", "failed")

\* 1. of the procedure (2. is Begin).
SwitchOff ==
    /\ pc = "fkOff"
    /\ ForeignKeysOff
    /\ UNCHANGED <<fixed, store, levels, cache, refs, call, target, cls, troubles>>

\* 4.
CreateCopy ==
    /\ pc = "createCopy"
    /\ Statement(TRUE, [db EXCEPT !.copy[cls] = Created(cls)], "copyRows", "rollback")
    /\ UNCHANGED <<other, levels, troubles>>

\* 5.  Without a column in common there is nothing to select, which SQLite
\* takes as an error.
CopyRows ==
    /\ pc = "copyRows"
    /\ LET t == db.table[cls]
           common == CommonFields(t, cls)
       IN  Statement(CommonFields(t, cls) # {},
                     [db EXCEPT !.copy[cls].kept = common \cap t.kept],
                     "dropOld", "rollback")
    /\ UNCHANGED <<other, levels, troubles>>

\* 6.
DropOld ==
    /\ pc = "dropOld"
    /\ Statement(TRUE, WithTable(NoTable), "rename", "rollback")
    /\ UNCHANGED <<other, levels, troubles>>

\* Mutant: the new table is given the definitions of the old one.
RenamedWrong(c) == [db EXCEPT !.table[c] = [db.copy[c] EXCEPT !.wrong = Fields],
                              !.copy[c] = NoTable]

Renamed(c) == [db EXCEPT !.table[c] = db.copy[c], !.copy[c] = NoTable]

\* 7.
Rename ==
    /\ pc = "rename"
    /\ Statement(TRUE, Renamed(cls), IF withFk THEN "fkCheck" ELSE "commitUpdate",
                 "rollback")
    /\ UNCHANGED <<other, levels, troubles>>

\* 10.  The pragma is misspelt, and an unknown pragma returns no rows: the
\* check reports nothing unless the call itself fails.
CheckForeignKeys ==
    /\ pc = "fkCheck"
    /\ Statement(TRUE, db, "commitUpdate", "rollback")
    /\ UNCHANGED <<other, levels, troubles>>

\* 11. commits on the database, past the counter that step 2 has raised.
CommitUpdate ==
    /\ pc = "commitUpdate"
    /\ \/ /\ IF conn = "tx" THEN SqlCommit ELSE UNCHANGED <<conn, store>>
          /\ UNCHANGED <<faults, troubles>>
       \/ CommitRefused
    /\ pc' = IF withFk THEN "fkOn" ELSE "synced"
    /\ UNCHANGED <<other, prov, sess>>

\* 12.
SwitchOn ==
    /\ pc = "fkOn"
    /\ Pragma(TRUE, "synced", "rollback")
    /\ UNCHANGED <<fixed, store, levels, withFk, cache, refs, call, target, cls,
                   troubles>>

-----------------------------------------------------------------------------

Step ==
    \/ Execute \/ Failed \/ EndCall
    \/ Ensure \/ Synced \/ Descend
    \/ DropFirst \/ CreateTable \/ Begin \/ AddColumns \/ Commit \/ Rollback
    \/ SwitchOff \/ CreateCopy \/ CopyRows \/ DropOld \/ Rename
    \/ CheckForeignKeys \/ CommitUpdate \/ SwitchOn

Next ==
    \/ \E c \in Classes : Read(c) \/ Merge(c)
    \/ Step
    \/ Restart

\* The calls are synchronous: one that has begun goes on to its end.
Spec == Init /\ [][Next]_vars /\ WF_vars(Step)

-----------------------------------------------------------------------------
(* Properties.                                                              *)

\* Whatever step the process ends at, "update" and "append" leave on disk the
\* data of every column that has a property.
UpdateKeepsData ==
    \A c \in Classes : mode[c] \in {"Update", "Append"} =>
        LET t == saved.table[c]
        IN  stored[c] \cap Mapped[c] \subseteq IF t = NoTable THEN {} ELSE t.kept

\* A class the provider takes as synchronized, and will not look at again, has
\* the table its mode promises.
CachedTablesFit == \A c \in cache : FitsMode(c)

\* So it is as long as no transaction around a call has been rolled back and
\* no COMMIT refused, whose transaction a later rollback ends.
FitUnlessUndone == troubles \subseteq {"failed"} => CachedTablesFit

\* Between calls foreign keys are enforced if the configuration says so, as
\* long as no call has failed and no COMMIT been refused: a failed update
\* leaves them off, and so does one whose transaction has not ended.
ForeignKeysRestored ==
    pc = "idle" /\ troubles \subseteq {"undone"} => fk = ForeignKeys

\* No class is visited inside its own visit, however classes refer to each
\* other, so the recursion is no deeper than there are classes.
RecursionBounded == Len(refs) <= Cardinality(Classes)

\* Every call comes to its end.
CallEnds == pc # "idle" ~> pc = "idle"

=============================================================================
