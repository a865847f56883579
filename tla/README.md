# A TLA+ model of QtOrm

QtOrm maps QObject classes to SQLite tables. This directory holds TLA+ modules translated
from its C++ source (`src/src/orm`), the configurations with which TLC checks them on small
instances, and proofs, checked by TLAPS, of what holds for every instance.
`PROJECT.json` lists the components, the runs, the mutants, which source lines each
definition stands for, the hazards and the theorems.

## 1. Inventory of the system

A process has one thread that uses QtOrm: every call is synchronous and runs to its end
before the next begins. What makes the code hard is not parallelism but four pieces of state
that have to agree (the entity instances the client holds, the identity map, the levels of
transactions, the tables), recursion over references, and every path on which one step of
several fails.

| Component | State | Operations | Correct when |
|---|---|---|---|
| `QOrmSession`, transactions | `m_transactionCounter`, `m_lastError` | begin, commit, rollback, declareTransaction, destructor | levels are counted exactly; only the outermost end reaches SQLite |
| `QOrmTransactionToken` | engaged, final action | commit, rollback, disengage, move, destructor | a token ends its own level, once, on every return path |
| `QOrmSession`, entities | `m_mergingInstances`, `m_trackedInstances` | merge (recursive), merge of several, remove, execute | a merge that returns true has stored the instance; one that fails has stored nothing; a rollback brings tracked instances back to their rows |
| `QOrmEntityInstanceCache` | instance to id, id to instance, modified marks, NOTIFY connections | get, contains, insert, finalize, take, markUnmodified, isModified | one live instance per row; no change of a cached instance goes unnoticed |
| `QOrmSqliteProvider`, transactions | `m_transactionCounter`, the connection | begin, commit, rollback, connect, disconnect | the counter agrees with SQLite |
| `QOrmSqliteProvider`, statements | none of its own | execute: read, merge, remove, count | references are followed through the cache and end on cycles |
| `QOrmSqliteProvider`, schema | `m_schemaSyncCache`, foreign key pragma | ensureSchemaSynchronized, recreate, update, append | a class that is taken as synchronized has its table; update and append lose no data |
| `QOrmSqliteStatementGenerator` | none | one SQL text per operation, condition, table change | a condition selects what the filter means |
| `QOrmMetadataCache` | class to metadata, classes under construction | get: recursive construction, keyword scanner, validation | cyclic references end, keywords are read as written |
| filters, expressions, `QOrmQueryBuilder` | the query being built | filter, order, limit, build | successive filters are all applied, in a form that resolves against the relation |
| `QOrmEntityListModel` | `m_data`, filter, order, connections to the session | create, remove, removeAt, update, read, setFilter, setOrder, data | the rows are what filter and order select, views know them, both sides of a relation agree |
| configuration, relation, mapping, result, error | values | construction | no state changes after it |

**How they interact.** A call of the session declares a token (a level), asks the metadata
cache for mappings, builds a query and calls `provider->execute(query, cache)`. The provider
synchronizes the schema of the class, has a statement generated, runs it on `QSqlDatabase`,
and for a read consults and fills the identity map, recursively for references. Entity
instances call back: their NOTIFY signals reach the cache's `onEntityInstanceChanged()`.
The end of a token calls back into the session; a rollback then reads every tracked
instance again through the provider. A configuration is copied by value but its provider is
shared, so the provider's counter and schema cache outlive a session.

**What is hard.** Counters that are moved before the operation they count has succeeded;
results of begin and commit that nobody looks at; caches (schema, identity map, modified
marks, tracked instances) that are filled inside a transaction and stay filled when it is
rolled back; recursion that ends only because something is marked before its references are
visited; pointers to instances whose ownership has been returned; the process ending between
two statements. `PROJECT.json` lists each of these as a hazard at the line where it bites.

## 2. Modules

| Module | Models | Composed with |
|---|---|---|
| `NestedTransaction` | what levels of transactions promise: a flat nesting in which only the outermost commit saves (abstract) | refined by `OrmTransactions` |
| `OrmTransactions` | the counters of session and provider, the connection, tokens, failing connects, BEGINs, COMMITs and ROLLBACKs | INSTANCE of `NestedTransaction` |
| `OrmTransactionsProofs` | theorems about it | |
| `CacheOps` | the operations of the identity map as operators on one record, `TakeAll` for a set of instances | used by `EntityInstanceCache`, `Session`, `EntityLoader`, `EntityListModel` |
| `RowOrder` | the order in which SQLite returns rows, each once | used by `EntityLoader`, `EntityListModel` |
| `EntityInstanceCache` | the cache under all the calls session, provider and client make of it | EXTENDS `CacheOps` |
| `EntityInstanceCacheProofs` | theorems about it | |
| `Session` | merge with its recursion, merge of several, remove, remove by query, select, rollback with its re-reading, new sessions | INSTANCE of `CacheOps` |
| `SessionProofs` | theorems about it | |
| `MCSession` | two classes, one or both referencing the other | |
| `EntityLoader` | `read()`, `makeEntityInstance()`, `fillEntityInstance()` with references and lists of references, overwriting reads, the re-reading of a rollback | INSTANCE of `CacheOps` |
| `EntityLoaderProofs` | theorems about it, and lemmas about `RowOrder` | |
| `MCEntityLoader` | three programs of two classes (a list of what references it; a reference back as well; references and lists both ways) and the contents of their tables | |
| `EntityListModel` | two list models over one session, and a client that works through them | INSTANCE of `CacheOps` |
| `EntityListModelProofs` | theorems about it, and lemmas about `RowOrder` | |
| `MCEntityListModel` | two provinces and two communities, three filters and orders | |
| `SchemaSync` | schema synchronization, its modes, its own use of the provider's counter, the foreign key pragma, a process that ends between statements | |
| `SchemaSyncProofs` | theorems about it | |
| `MCSchemaSync` | two classes that reference each other | |
| `MetadataCache` | how the mapping of a class is read from its entries, with all classes it references, and how references are validated | |
| `MetadataCacheProofs` | theorems about it | |
| `MCMetadataCache` | the programs it is checked with | |
| `Query` | from the calls of a builder to a query, to a statement with its parameters, to what SQLite answers | |
| `QueryProofs` | theorems about it | |
| `MCQuery` | tables, filters and orders | |

### How state and actions correspond to the code

**OrmTransactions.** `sess` and `prov` are the two `m_transactionCounter`s, `conn` says
whether SQLite has a transaction, `data` and `saved` what the connection sees and what
survives. A token is a record of its phase, its action and the propagation it was asked
for. Each action is one call of the public interface and takes an *outcome* `o`, the
answer of SQLite to that one call: `ok`, the connection cannot be opened, the statement is
refused, or SQLite has rolled the transaction back by itself. `Abort` is every `qFatal` and
every crash.

**CacheOps, EntityInstanceCache.** One record holds `m_cache`, `m_cacheById`,
`m_modifiedInstances` and the set of connected instances; `Insert`, `Finalize`, `Take`,
`MarkUnmodified`, `Notify` change it as the functions of the same name do. The actions are
the sequences of these calls the session and the provider make: `Create`, `Update` and
`Remove` of a row, `Load` and its end or failure, and the client's `New`, `Change`, `Delete`.

**Session.** A running call is a stack of frames, one per `doMerge()` (and one for the call
that merges several); `fills` is the stack of `fillEntityInstance()` below it, `reading` is
the loop of a rollback or a select. A step is a point at which the code can branch or fail.
Addresses are reused after deletion, as the allocator may do. `RemoveWhere` is a DELETE by
query: `RowsWith` the rows it takes, `Returned` the cached instances it gives back, which it
knows from RETURNING (the repository's README.md:483 asks for SQLite 3.35, which has it).

**EntityLoader.** `stack` holds the running calls of `read()` (the rows left and the
instances made) and `fillEntityInstance()` (the property it is at); a step is one property of
one instance or one row of a result. Instances are at addresses: one for each row, and a spare
one per event, which only a further instance of the same row would take. A stack of more than
`MaxStack` frames is an overflow; `StackAssumption` leaves room for a read and a fill of every
row, so that only a recursion that does not end gets there. The tables stay as they are: what the client writes is
inside a transaction that is rolled back, and what remains of it are tracked instances, which
are read again overwriting, and removed ones, which the client owns. Programs differ in the
references and lists the classes have and in the order of their properties.

**EntityListModel.** Here a call of the session is one step: what matters is what the model
does around it. `MergeSucceeds`, `MergeFails` and `RollsBack` are `session->merge()` seen
from outside, with the province a community's merge takes along; `Read` is `read()` of a
model, up to the `qFatal` of `toVector()`; the signals between a call and the read that
follows it are a step of their own (`pending`). What views have been told is `told`. The
history variables name the causes a later disagreement may have: marks (`unsaved`), relations
whose two sides were set apart (`loose`), models updated since they read (`behind`), reads
without a reset (`silent`).

**SchemaSync.** A table is its columns, those whose definition the comparison with the
mapping finds different, and those that still hold the data they had when the program was
installed. `Statement` runs one SQL statement: outside a transaction it is saved at once.
`refs` is the stack of the recursion over referenced classes; `FirstStep` is the switch on
the mode, and the steps of the 12-step procedure have their numbers in comments. Calls are
queries (no transaction around them) and merges (always inside one). The order in which a
class's references are visited is left open.

**MetadataCache.** `decl` is the program: each class with its properties, its constructors
and its `Q_ORM_*` entries; `text` is what the moc keeps of the entries, a sequence of
keywords and words without separators. `cached` are the keys of `m_cache`, `mappings` and
`info` what an entry of it holds, `under` and `constructed` the members
`m_underConstruction` and `m_constructed`, and `stack` the running `initialize()` calls with
the property each is at. `Get` is a call of the client, `MapProperty` one turn of the loop
over the properties (it may push a class that is referenced and not cached), `Finish` the
end of a class with the validation that runs when nothing is under construction. A `qFatal`
sets `dead`. A type below `QMetaType::User` is a "value", and so is one that is not
registered; "enum" is every other type that is not an entity.

**Query.** `builder` holds what the client added, `Build` folds it into a query,
`SelectStatement` turns that into a statement and a map of parameter names to values,
`Answers` is the set of row sequences SQLite may return for it: a set, because the order of
ties and of subqueries is open. SQLite is external: comparisons have three truth values
(-1, 0 for NULL, 1), null sorts first, negative limits are none. What the code holds in trees
is a sequence here, so that it can be reasoned about by position: an expression is its nodes in
the order in which `generateCondition()` is done with them (a binary node knows by `span` how
many of the nodes before it are its right side), a condition has the form of its expression,
and a query is the sequence of the queries it is the last of, each over what the one before
it selects (`builder.relation`, empty for the class). The names of parameters are sequences of
words and digits, built as `insertParameter()` builds them, so that they collide where the
strings of the code do. Rows stand for instances. `Says` is what an expression means, without
a statement: of the comparisons, negations and links it has, which of "holds" and "fails" is
sure for a row (neither may be, where a value is null).

## 3. Runs

| Run | Question | Instance |
|---|---|---|
| `tx_fault_free` | do the two counters, the connection and nested tokens agree, and is a transaction saved by its outermost commit only? refines `NestedTransaction` | 2 tokens, 2 contents, depth 3, every propagation, moved tokens |
| `tx_faults` | does any failure let an end take away someone else's level? does a rolled back token save anything? | 2 tokens, depth 3, up to 2 failures of any of five kinds |
| `cache_calls` | is there one live instance per row and is no change missed, in every order of calls? | 3 instances, 3 object ids |
| `session_calls` | is what a true merge reports in the table, and are tracked instances what their rows are after a rollback, whatever was merged, removed, read or deleted by query before? | one instance of one class, two of the other, a reference one way, 1 id, 2 values, 1 failing statement |
| `session_faults` | do levels, merging instances and saved contents stay balanced on every failing path, and does every call end? | classes that reference each other, up to 2 failing statements |
| `session_relink` | *violated:* a true merge has stored the reference | links changed after the first merge |
| `loader_reads` | do unmodified instances become the graph the rows describe, one per row, are unsaved changes thrown away only where a rollback reaches, and does every read end or die for a reason? | three programs (a list; and a reference back; lists and references both ways), up to 3 rows, 1 changed instance, 1 tracked one, 1 failing statement or rolled back removal |
| `schema_calls` | do the modes keep their promises, is data kept at every point where the process may end, does the recursion end? | two classes that reference each other, every initial table and mixture of modes, 1 failure, at most 1 table to alter |
| `schema_update_twice` | *violated:* update preserves existing data | 2 tables to alter, no failure |
| `metadata_gets` | is every class that is handed out complete, mapped as its entries say and its references valid, whichever class is asked for first? does every get end or die for a reason? | all programs of two classes with up to two references each and of three with one each; one property of every kind with up to two clauses; entries about classes, unknown and repeated properties |
| `query_answers` | does a built query select, count and delete what its filters mean, page by page? | up to 3 calls of a builder, over the class or up to two queries; 2 tables with nulls and ties; columns `x` and `x_0`, so that names of parameters collide |
| `list_model` | do both sides of a relation agree, do the models show what their filters select, and do their views know? why may the process end? | 2 provinces, 2 communities, 1 unsaved edit, 1 failing statement or call that sets the relation apart |

**The violated ones** are disagreements between the code and its documentation, comments or
assertions, each quoted under "findings" in `PROJECT.json`.

- An instance linked after its first merge can lose its modified mark to the rollback of
  another, empty merge; its next merge then writes nothing and returns true.
- `updateSchema()` commits with `m_database.commit()`, past the provider's counter. From
  then on no begin of the process reaches SQLite: the next update runs without a
  transaction (and so do all transactions of the client).

Several invariants are conjunctions, checked as one: `LevelsOwned` (no level is taken from its
owner, and without a failure none is left without one), `CallsUnwind` (levels, merging
instances, and at the end nothing pending), `HandedOutAsDeclared` (complete, and as declared),
`AnswersAsked` (rows and counts). Each conjunct has its own definition, and most a mutant.

Met while modelling, and described without a run of their own:

- A first merge that fails takes the new table away with its rollback, and the class stays
  in `m_schemaSyncCache`: this is what the hypothesis of `FitUnlessUndone` leaves out.
- Of two new instances that reference each other, the inner one is inserted while the outer one
  has no id yet: it stores 0, and no later merge of it writes, since it is unmodified. So
  `MergedIsInTable` is checked, and proved, for classes whose references go one way.
- An instance given back by `remove()` stays connected to the cache; changing it fails the
  assertion of `onEntityInstanceChanged()`.
- A rollback dereferences a tracked instance that was removed and then deleted by its owner.
- A rollback throws away the unsaved changes of members of lists of what it reads again, and
  overwriting reads follow lists that lead back to themselves until the stack is used up.
- Without RETURNING, a DELETE by query would leave instances of removed rows in the cache,
  unmodified, whose merge is an empty success (the mutant `ReturnedNothing` of `session_calls`).
- A null inside a list matches nothing, and `NOT IN` with it matches no row (README.md:425
  of the repository says otherwise); `query_answers` has such a filter, and its properties
  are stated for lists without null.
- The invokable filter of a query that becomes the relation of another query is lost.
- `count()` with an offset, or with a limit of 0, fails: both cut the one row of `COUNT(*)`.
  `CountAnswers` states this as the code has it, and so `DeletesAsked` that a delete ignores
  order, limit and offset.
- TRANSIENT and STORED false are overwritten for enumerations and references, and a list of
  the referenced class is accepted as back reference of a list.
- In `QOrmEntityListModel`: `remove()` marks the province as modified (its list is shorter)
  and merges it nowhere, so that the next read of a model of provinces gets an error and
  `toVector()` ends the process; `removeAt()` leaves the deleted instance in the list, and
  its check admits the index that is the number of rows; `remove()` of a community without a
  province dereferences null; after a `create()` that fails, or an `update()` that fails, the
  rollback reads an instance of the transaction before, too, and sets back one side of a
  relation that the client has changed on both; `setFilter()` and `setOrder()` replace the
  rows without a reset; slots connected to the removal find the deleted instance.

**Bounds, and why they are enough.** Depth 3 is the least at which an inner level lies
strictly inside another one; two tokens are needed for one to end the level of the other;
two contents tell what was saved. In the cache, three instances and ids let an address be
reused while two others are cached. In `session_faults`, `MaxId = 2` gives out an id again after a
rollback, `MaxManual = 1` is one transaction of the client around calls, `MaxTracked = 2`
lets one instance of an earlier transaction be tracked beside one of this, and two faults
allow a failure while another is being undone;
`session_calls` has more kinds of calls, and with them one id, one failure, and two
addresses at which the client makes instances (`NewAt`; a third holds what reads make).
The inductive invariants of the proofs were checked once as well, with these bounds (that of
`MergesLeaveRows` in 1.8 million states of `session_calls` and in 3.6 million with merges of
several and two ids).
In EntityLoader two rows of a class show an instance beside the one that is read, `MaxStack`
is above any depth that ends, and one changed, one tracked instance and one event
(`MaxModified`, `MaxTracked`, `MaxEvents`) are what a cause needs; the spare addresses let
`OneInstancePerRow` fail (chains of four rows, in 540,000 states, and two events, in 5 million,
were checked once). In EntityListModel instances are numbered by their rows
(`MaxInstances`): two provinces let a community move, two communities fill a list;
`Criteria`, `Editable` and `MaxUnsaved` say what the client may set (a larger instance, with
edits of both classes, was checked once, in 11 million states). The bounds stand in guards (`RoomForIds`,
`RoomForRows`, `MaxDepth`, `MaxFaults`); where a bound or a `qFatal` stops the system, the
configurations of Session say `CHECK_DEADLOCK FALSE`. In SchemaSync one fault and any number
of crashes show every half-done change, `MaxOutdated = 1` is the largest for which
`UpdateKeepsData` holds (the violated run has 2), and two mutually referencing classes are
the shortest cycle. In MetadataCache two classes with two references show every cycle,
a third one a cycle that is entered from outside; two clauses show where an argument ends.
In Query, three calls (`MaxCalls`) are two filters and a limit, or a filter over a query
that has a filter and a limit; a relation is up to two queries deep (`MaxDepth`), so that a
query both has one below it and is below another, and three statements share their parameters.
The configurations of these, of EntityLoader and of EntityListModel say `CHECK_DEADLOCK FALSE` because the process may have
ended with a `qFatal`, or the client may have asked for everything.

**Fairness.** `Session`, `EntityLoader`, `SchemaSync` and `MetadataCache` assume `WF_vars(Step)`: once a call runs, its next
step is taken, since the code is synchronous and waits for nobody. Nothing is assumed of the
client, and none of the other modules needs fairness.

Every property of a passing run has a mutant: a small change of one definition, as a bug
would make it, under which the same run finds the property violated.

## 4. Proofs

TLC checks small instances; TLAPS checks these for all constants that satisfy the named
assumptions of the modules. Every safety invariant and action property of a passing run is the
statement of a theorem.

- **OrmTransactionsProofs.** `TypeCorrect`; `CountersInSync`, `OnlyOutermostCommitSaves` and
  `NestingImplemented` when no failure is allowed; `LevelsAlwaysCovered`
  with any failures, for a client that uses manual levels, Require tokens and moves, and
  `LevelsAlwaysOwned` for one that moves none. The invariant relates the session's counter to
  the levels begun by hand plus those of engaged tokens: a token's end is safe only because
  the level it ends is one of those it is counted with. That none is leaked while nothing
  fails (`LevelsExact`) needs the agreement of the counters as well, since a begin or an end
  that is refused would leave a level behind. They agree because the provider's is 1 exactly
  while the session's is positive.
  `RollbacksUndo`: a token that ends with its action still Rollback saves nothing, whatever
  fails, and takes the connection back to what is saved if its level was the last and nothing
  failed. A token goes while engaged only by its destructor (`TokensGo`), and the agreement of
  the counters says that the ROLLBACK of the last level reaches SQLite.
  The refinement maps `depth` to `sess`; its step lemma has one case per action.
- **EntityInstanceCacheProofs.** `TypeCorrect`, `LookupsAreSound`, `RowsHaveOneInstance`,
  `NoChangeMissed`. The properties are not inductive: a new row must have an id that no
  cached instance has (`IdsUsed`: the ids in the cache have all been given out), an instance
  is noticed only if it is connected (`Watched`: cached ones are, but for those being filled
  or half filled), and an address without an object has no marks (`NobodyDirty`). Lemmas
  about each operation of `CacheOps` come first and are cited by every action's lemma.
- **SessionProofs.** `TypeCorrect`, `CallsLeaveNothing` (`CallsUnwind`) and
  `MergesSaveAsAWhole` (`SavedAsAWhole`), for any number of instances and classes, however
  they reference each other, and any number of failing statements. The invariant `IInv` has
  two parts. `CallInv` is about the stack: the frames below the innermost one wait at their
  statement and hold their token (`Waiting`), so that the session's counter is the client's
  levels plus the length of the stack, less one if the innermost frame has committed
  (`Levels`); different frames merge different instances (`Distinct`), because `doMerge()`
  returns at once for an instance that is being merged; and a rollback reaches SQLite only
  when one level is left, so that nothing but the frame that asked for it can be on the
  stack (`ReadingOK`). `DataInv` says what the steps rely on: the session owns exactly what
  it has cached, references lead to objects that exist, what is being read are rows, and an
  id is left for every instance that might be inserted. Lemmas about stacks come first
  (`WaitingCons`, `MergedCons`, ...), then one lemma per action; steps that leave a frame on
  top share `GoesOn`, those that return share `PopInv`, those that read share `ReadGoesOn`.

  `RollbacksRestore` (`RollbackRestores`) adds `TInv`: a cached instance is known under its own
  id, and each tracked one is still in the queue, is being overwritten, or is what its row is.

  `MergesLeaveRows` (`MergedIsInTable`) has two hypotheses. The client does not link an
  instance again after its merge: otherwise the property is false, as `session_relink` shows.
  And the classes reference each other in no circle (`Acyclic(rank)`; see "Met while
  modelling"): a self-reference ends in the `qFatal` about cross references anyway. The
  invariant `VInv` follows a value through a transaction: an unmodified cached instance has the
  value of its row (`DbOK`); what a rollback would bring back differs from it only for
  instances that are tracked or being merged (`SvOK`), so that the rollback reads again
  exactly those; rows of what is not cached are as they were saved (`UncachedSame`); and the
  frames of nested merges descend in rank (`Chain`), which is why a reference has its id when
  the statement is made.
- **SchemaSyncProofs.** `RecursionEnds`: for any finite set of classes, however they
  reference each other, the recursion of ensureSchemaSynchronized() is never deeper than the
  number of classes. The invariant says that the stack is no longer than the cache, and
  that a class being synchronized is not yet in it: this is what marking a class *before*
  its references buys.

  `SynchronizedFits`: for any classes, mappings, modes and number of
  faults, a class in `m_schemaSyncCache` has the table its mode promises, as long as no
  transaction around a call was undone and no COMMIT refused (`FitUnlessUndone`). Three
  facts make it inductive: what each step on the way to the insertion has achieved
  (`Progress`), that a class being synchronized is not yet cached, so that statements
  about it leave cached tables alone (`Touches`), and what the counter of the provider
  stands for (`LevelsCounted`). The last one is needed for the rollback of a failed class:
  it can reach SQLite only when the counter is 1, which inside a merge it is not, so it
  undoes the class's own statements and nothing else.

  `TypeCorrect`, and `ForeignKeysComeBack` (`ForeignKeysRestored`):
  between the two pragmas `withForeignKeys` holds what the configuration says, and the second
  one is reached outside a transaction, where SQLite obeys it: only because `updateSchema()`
  commits on the database and past the provider's counter, the same line that the violated
  run is about (`KeysKept`).

  `DataIsKept` (`UpdateKeepsData`), for `MaxOutdated <= 1`; `schema_update_twice` shows that it
  is false with two. While a table is left to alter, the counter of the provider is exactly
  the levels the running call will end, and a positive one stands for an open transaction
  (`LevelsDue`); so between dropping the old table and renaming the new one a transaction is
  open that becomes one with the new table or is rolled back (`Halfway`). After the commit on
  the database the counter is wrong, and nothing is left to alter (`OneOutdated`). The
  invariant was checked with one and with three faults before it was proved.
- **EntityLoaderProofs.** `TypeCorrect`, `OneInstance` (`OneInstancePerRow`), `ReadsAgree`
  (`UnmodifiedAgrees`), `DiesForReasons` (`DiesForAReason`) and `Discards` (`DiscardsInReach`),
  for any classes with at most one reference and one list, any tables, and any number of
  changes, tracked instances and events. The parts of the invariant are predicates of the
  program, the cache, the instances and the stack, so that a lemma about a step can name what
  the step makes of them. Frames alternate between reads and fills (`FramesIn`); each read is
  for the property its fill is at and has kept the order of the rows (`LinkIn`); a fill has
  set the properties before the one it is at, so that an instance that is not marked agrees
  with its row, or is still being filled, or will be read again by the rollback
  (`Agreement`). `Descent` says that a row filled for a new instance is not filled already,
  which bounds the stack by `2 * Cardinality(Keys) + 2`, and that what is read again is in a
  list of what is read again, so that a stack that grows further has gone round a ring of
  lists. For `Discards`, `Visited` keeps a set of rows that the rollback has begun to read and
  that is closed under lists when it ends. What a query returns is chosen in `RowOrder`; that
  a finite set of rows in a strict order is a sequence that has each row once
  (`OrderedIsSeq`, `OrderedIsOnto`) comes first, there and in EntityListModelProofs.
- **EntityListModelProofs.** `TypeCorrect`, `ListsStayInAgreement` (`ListsAgree`),
  `ModelsAreCurrent` (`ModelCurrent`) and `EndsForAReason` (`DiesForAReason`), for any number
  of provinces and communities, criteria and edits. The invariant says, as long as the process
  runs, that what has a row is alive, cached and listened to and that lists and references of
  communities that are not `loose` agree (`Graph`), that whatever is marked the client has
  changed (`Marked`), and that a model shows what it selects unless it is about to read
  (`Current`).
- **MetadataCacheProofs.** `TypesKept`, `HandsOutAsDeclared` (`HandedOutAsDeclared`) and
  `DeathHasReason` (`DiesForAReason`), for any finite set of classes, any properties and
  entries, provided that no word of a program is a keyword. The first half is about the
  scanner: where each clause begins in the text of an entry (`Layout`), hence what the code
  finds there is what was written (`ArgumentAt`, `ValueAt`, and `BadEntriesRead` for entries
  that end the process), and the descriptor that results says what the entries say of the
  property (`DescriptorSays`). The second half is the invariant `CacheInv`: the classes under
  construction are those on the stack, each once (`OnStack`), every property looked at is
  mapped and what it references is at least under construction (`Progress`), and when the
  stack is empty the references of everything constructed have been validated (`Validated`);
  then whatever is reachable from a class that was handed out is complete
  (`ReachableWithin`).
- **QueryProofs.** `AnswersMatch` (`AnswersAsked`) and `DeletesMatch` (`DeletesAsked`), for any
  class and table, any names of columns, any filters, orders, limits and offsets, and queries
  over queries of any depth. The invariant (`QueryInv`) is small: the table is a finite set of
  rows, and a query that has become a relation has only filters that resolve. The work is in
  what a builder becomes, in the order of the code:
  - `NewKeyIsNew`: the search of `insertParameter()` for a free name ends within as many
    numbers as there are parameters, and the name it finds is new, since numbers have
    different digits. Hence a value once bound is never replaced (`Inserted`), whatever the
    columns are called and however many statements share the map.
  - `ConditionIs`: a condition has the form of its expression and its parameters keep the values
    of the expression when the rest of the statement adds its own.
  - `ConditionTrue`: where an expression "holds" for a row, SQLite's three-valued condition is
    true, where it "fails" it is false, and conversely, node by node.
  - `FoldIs`: the expressions of several filters, folded with AND, hold for a row when each of
    them does (`BinarySays` for one AND: where in the longer sequence the two sides are).
  - `CutIsPage`: LIMIT and OFFSET cut a page out of any sorting: no row on it
    has more rows before it than its place allows.
  - `SelectStatementIs` and `FromIs` join these along the relation; `BuildIsAskable`, `AnswerIs`,
    `CountIs` and `DeleteIs` state them for a builder.

  The hypothesis of the property, no null inside a list, is needed: "Met while modelling" says
  what the code does with one.

**Only model-checked.** Liveness (`CallEnds` of Session and of SchemaSync, `LoadEnds`,
`GetReturns`), which is out of the prover's reach, as is ENABLED. The library's induction
theorems take an operator as a parameter and cannot be used; where a proof needs
induction over numbers (how a recursive function on a stack, a text or an expression gets its
value, how far a chain of references goes) it takes the least counterexample from a
well-founded order (lemmas such as `Least`, `UpTo`, `Iterates`, `Below`, `Recursion`). That is
why no module here has a RECURSIVE operator.

## 5. What is not modelled

- Projections without an object id (their instances are not cached); two models of one class
  over one session; `roles`, `data()` and the QML side of the list model, which only read.
- In EntityLoader and EntityListModel: merging (Session has it), invokable filters (Query has
  them), several lists of one class; a failed merge inside a list model fails as a whole.
- In Query: instances and the identity map (Session has them), transient properties in
  filters, predicates that already hold a mapping.
- In MetadataCache: names that contain a keyword (README.md:253 of the repository excludes
  them), column type names, what a macro refuses at compile time.
- In Session: foreign keys (the default is none), failures of BEGIN, COMMIT and ROLLBACK
  (OrmTransactions has them), the synchronization of the schema (SchemaSync has it), classes
  with several references. A reference property is taken to be declared before the values.
- In SchemaSync: the contents of rows beyond "the column still has its data", copies left
  behind by an earlier update, transactions the client opens by hand around a call, failing
  BEGINs, and the calls for referenced classes that reading an instance makes (they are
  calls of the same function).
- Values without state (`QOrmError`, `QOrmQueryResult`, mappings, relations), macros and
  type traits at compile time, debug output, detection of the SQLite version, examples.

## 6. Plan

Done: transactions, identity map, session, reading, schema synchronization, metadata cache,
queries and list models. Left, in this order:

1. Transactions opened by hand around calls in SchemaSync.
2. An abstract loader ("the result is the graph of the rows", in one step) that EntityLoader
   refines while nothing is modified and nothing fails.
3. Two models of one class in EntityListModel, of which only one reads after an update.

Theorem left: that EntityLoader implements the abstract loader, once it is there; its parts,
`ReadsAgree` and `OneInstance`, are proved.
