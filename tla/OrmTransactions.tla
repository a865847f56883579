-------------------------- MODULE OrmTransactions --------------------------
(***************************************************************************)
(* The transactions of QtOrm: the counter of QOrmSession, the counter of   *)
(* QOrmSqliteProvider, the SQLite connection under both, and the tokens    *)
(* that end a level when they are destroyed.  Failing SQL calls and the    *)
(* death of the process are part of the model.                             *)
(***************************************************************************)
EXTENDS Integers, FiniteSets

CONSTANTS
    Tokens,         \* QOrmTransactionToken objects that can exist at a time
    Data,           \* contents of the database
    Api,            \* the calls this client makes, a subset of AllCalls
    Failures,       \* the failures its backend shows, a subset of AllFailures
    MaxDepth,       \* bound on the nesting of levels
    MaxFaults       \* bound on the failures of one run of the process

AllCalls == {"manual", "Require", "Support", "DontSupport", "move", "retry"}
Propagation == {"Require", "Support", "DontSupport"}
TransactionAction == {"Commit", "Rollback"}

AllFailures == {"connectFails", "refused", "aborted", "rereadFails", "closed"}

ASSUME ApiAssumption == Api \subseteq AllCalls
ASSUME FailuresAssumption == Failures \subseteq AllFailures
ASSUME DepthAssumption == MaxDepth \in Nat \ {0}
ASSUME FaultsAssumption == MaxFaults \in Nat
ASSUME TokensAssumption == IsFiniteSet(Tokens)

VARIABLES
    sess,           \* QOrmSessionPrivate::m_transactionCounter
    prov,           \* QOrmSqliteProviderPrivate::m_transactionCounter
    conn,           \* the connection: "closed", "auto" (autocommit) or "tx"
    saved,          \* contents of the database file
    data,           \* contents the connection sees
    lastError,      \* QOrmSessionPrivate::m_lastError
    token,          \* per token: phase, final action, propagation it asked for
    manual,         \* history: levels the client has to end by hand
    faults          \* history: failures since the process started

store == <<conn, saved, data>>
vars == <<sess, prov, conn, saved, data, lastError, token, manual, faults>>

Phases == {"none", "engaged", "disengaged", "moved"}
TokenState == [phase : Phases, action : TransactionAction, asked : Propagation]
NoToken == [phase |-> "none", action |-> "Rollback", asked |-> "Require"]

TypeOK ==
    /\ sess \in 0..MaxDepth
    /\ prov \in Int
    /\ conn \in {"closed", "auto", "tx"}
    /\ saved \in Data
    /\ data \in Data
    /\ lastError \in {"None", "Provider", "TransactionNotActive"}
    /\ token \in [Tokens -> TokenState]
    /\ manual \in 0..MaxDepth
    /\ faults \in 0..MaxFaults

Init ==
    /\ sess = 0 /\ prov = 0 /\ manual = 0 /\ faults = 0
    /\ conn = "closed"
    /\ saved \in Data /\ data = saved
    /\ lastError = "None"
    /\ token = [t \in Tokens |-> NoToken]

-----------------------------------------------------------------------------
(* SQLite under QSqlDatabase.  An outcome says how the backend answers one *)
(* call: "ok", "connectFails", "refused" (error, nothing happened) or      *)
(* "aborted" (error, and SQLite has rolled the transaction back itself).   *)
(* Connecting again is part of every call: ensureProviderConnected().      *)

Outcomes == {"ok", "connectFails", "refused", "aborted"}

\* Whether the backend is asked at all, so that outcome o can occur.
Possible(o, asks) ==
    \/ o = "ok"
    \/ /\ o \in Failures
       /\ CASE o = "connectFails" -> conn = "closed"
            [] o = "refused" -> asks
            [] o = "aborted" -> asks /\ conn = "tx"

Charge(o) ==
    /\ faults' = IF o = "ok" THEN faults ELSE faults + 1
    /\ faults' <= MaxFaults

\* The connection once ensureProviderConnected() has returned.
Connected(o) == IF conn = "closed" /\ o # "connectFails" THEN "auto" ELSE conn

\* SQLite refuses BEGIN inside a transaction, and COMMIT and ROLLBACK outside.
SqlBegin(o) == o = "ok" /\ Connected(o) = "auto"
SqlEnd(o) == o = "ok" /\ Connected(o) = "tx"

-----------------------------------------------------------------------------
(* QOrmSqliteProvider: the counter moves before the database is asked, and *)
(* an error leaves it where it is.                                         *)

ProviderBeginSucceeds(o) == prov = 0 => SqlBegin(o)
ProviderEndSucceeds(o) == prov = 1 => SqlEnd(o)

ProviderBegin(o) ==
    /\ prov' = prov + 1
    /\ conn' = IF prov = 0 /\ SqlBegin(o) THEN "tx" ELSE Connected(o)
    /\ UNCHANGED <<saved, data>>

\* Mutant: the counter is left alone by an end.
ProviderEndKeepsCounter(o, savedAfter, dataAfter) ==
    /\ prov' = prov
    /\ prov = 1 /\ SqlEnd(o)
    /\ conn' = "auto" /\ saved' = savedAfter /\ data' = dataAfter

\* --m_transactionCounter, then COMMIT (or ROLLBACK) if it has reached zero.
ProviderEnd(o, savedAfter, dataAfter) ==
    /\ prov' = prov - 1
    /\ IF prov = 1 /\ SqlEnd(o)
       THEN conn' = "auto" /\ saved' = savedAfter /\ data' = dataAfter
       ELSE /\ conn' = IF o = "aborted" THEN "auto" ELSE Connected(o)
            /\ data' = IF o = "aborted" THEN saved ELSE data
            /\ UNCHANGED saved

ProviderCommit(o) == ProviderEnd(o, data, data)
ProviderRollback(o) == ProviderEnd(o, saved, saved)

-----------------------------------------------------------------------------
(* The process ends (qFatal, a crash, a kill) and is started again: what   *)
(* SQLite had committed is all that is left.                               *)

Abort ==
    /\ sess' = 0 /\ prov' = 0 /\ manual' = 0 /\ faults' = 0
    /\ conn' = "closed"
    /\ data' = saved /\ UNCHANGED saved
    /\ lastError' = "None"
    /\ token' = [t \in Tokens |-> NoToken]

-----------------------------------------------------------------------------
(* QOrmSession: only the outermost level reaches the provider.             *)

ErrorUnless(ok) == IF ok THEN "None" ELSE "Provider"

SessionBeginSucceeds(o) == sess = 0 => ProviderBeginSucceeds(o)

SessionBegin(o) ==
    /\ Possible(o, sess = 0 /\ prov = 0)
    /\ Charge(o)
    /\ sess' = IF SessionBeginSucceeds(o) THEN sess + 1 ELSE sess
    /\ sess' <= MaxDepth
    /\ lastError' = ErrorUnless(SessionBeginSucceeds(o))
    /\ IF sess = 0 THEN ProviderBegin(o) ELSE UNCHANGED <<prov, store>>

\* Mutant: an end without a beginning is not refused.
SessionEndUnchecked(o) == sess = 1 => ProviderEndSucceeds(o)

SessionEndSucceeds(o) == sess > 0 /\ (sess = 1 => ProviderEndSucceeds(o))

\* Mutant: every level reaches the provider, not only the outermost.
SessionEndEveryLevel(o, ProviderCall) ==
    /\ Possible(o, prov = 1)
    /\ Charge(o)
    /\ sess' = IF SessionEndSucceeds(o) THEN sess - 1 ELSE sess
    /\ lastError' = "None"
    /\ IF sess > 0 THEN ProviderCall ELSE UNCHANGED <<prov, store>>

\* Mutant: an inner end resets the counter instead of counting down.
SessionEndResets(o, ProviderCall) ==
    /\ Possible(o, sess = 1 /\ prov = 1)
    /\ Charge(o)
    /\ sess' = IF SessionEndSucceeds(o) THEN 0 ELSE sess
    /\ lastError' = "None"
    /\ IF sess = 1 THEN ProviderCall ELSE UNCHANGED <<prov, store>>

SessionEnd(o, ProviderCall) ==
    /\ Possible(o, sess = 1 /\ prov = 1)
    /\ Charge(o)
    /\ sess' = IF SessionEndSucceeds(o) THEN sess - 1 ELSE sess
    /\ lastError' = IF sess = 0 THEN "TransactionNotActive"
                    ELSE ErrorUnless(SessionEndSucceeds(o))
    /\ IF sess = 1 THEN ProviderCall ELSE UNCHANGED <<prov, store>>

SessionCommit(o) == SessionEnd(o, ProviderCommit(o))

\* Mutant: the rollback of the session commits.
SessionRollbackCommits(o) == SessionEnd(o, ProviderCommit(o))

SessionRollback(o) == SessionEnd(o, ProviderRollback(o))

SessionFinish(action, o) ==
    \/ action = "Commit" /\ SessionCommit(o)
    \/ action = "Rollback" /\ SessionRollback(o)

\* rollbackTrackedInstances() reads every tracked instance again after the
\* outermost rollback, and ends the program when a read fails.
RereadFails ==
    /\ sess = 1
    /\ ProviderEndSucceeds("ok")
    /\ "rereadFails" \in Failures
    /\ faults < MaxFaults
    /\ Abort

-----------------------------------------------------------------------------
(* The client: levels begun by hand.                                       *)

BeginTransaction(o) ==
    /\ "manual" \in Api
    /\ manual < MaxDepth
    /\ SessionBegin(o)
    /\ manual' = manual + (sess' - sess)
    /\ UNCHANGED token

\* The client ends by hand what it began by hand; a failed end is not one.
FinishTransaction(action, o) ==
    /\ manual > 0
    /\ SessionFinish(action, o)
    /\ manual' = IF SessionEndSucceeds(o) THEN manual - 1 ELSE manual
    /\ UNCHANGED token

RollbackTransactionFatal == manual > 0 /\ RereadFails

(* Tokens. *)

\* Only a token that asked for a transaction has begun a level.
OwnsLevel(t) == token[t].phase = "engaged" /\ token[t].asked = "Require"

Engage(t, propagation, action) ==
    token' = [token EXCEPT ![t] =
                [phase |-> "engaged", action |-> action, asked |-> propagation]]

DeclareRequire(t, action, o) ==
    /\ "Require" \in Api
    /\ token[t].phase = "none"
    /\ SessionBegin(o)
    /\ sess' > 0
    /\ Engage(t, "Require", action)
    /\ UNCHANGED manual

\* qFatal: transaction was requested but it could not be started.
DeclareRequireFatal(o) ==
    /\ "Require" \in Api
    /\ \E t \in Tokens : token[t].phase = "none"
    /\ sess = 0 /\ ~ProviderBeginSucceeds(o)
    /\ Possible(o, prov = 0)
    /\ o = "ok" \/ faults < MaxFaults
    /\ Abort

DeclareSupport(t, action) ==
    /\ "Support" \in Api
    /\ token[t].phase = "none"
    /\ Engage(t, "Support", action)
    /\ UNCHANGED <<sess, prov, store, lastError, manual, faults>>

DeclareDontSupport(t, action) ==
    /\ "DontSupport" \in Api
    /\ token[t].phase = "none"
    /\ IF sess > 0
       THEN Abort
       ELSE /\ Engage(t, "DontSupport", action)
            /\ UNCHANGED <<sess, prov, store, lastError, manual, faults>>

\* Mutant: the token stays engaged, and its destructor ends a level again.
TokenFinishStaysEngaged(t, action, o) ==
    /\ token[t].phase = "engaged"
    /\ SessionFinish(action, o)
    /\ UNCHANGED <<token, manual>>

\* commit() and rollback() disengage first, whether or not the end succeeds;
\* nothing stops a second call.
TokenFinish(t, action, o) ==
    /\ \/ token[t].phase = "engaged"
       \/ token[t].phase = "disengaged" /\ "retry" \in Api
    /\ SessionFinish(action, o)
    /\ token' = [token EXCEPT ![t].phase = "disengaged"]
    /\ UNCHANGED manual

\* The level of a disengaged token is the client's to end.
TokenDisengage(t) ==
    /\ OwnsLevel(t) => "manual" \in Api /\ manual < MaxDepth
    /\ token[t].phase = "engaged"
    /\ token' = [token EXCEPT ![t].phase = "disengaged"]
    /\ manual' = IF OwnsLevel(t) THEN manual + 1 ELSE manual
    /\ UNCHANGED <<sess, prov, store, lastError, faults>>

\* Mutant: the destructor only knows how to roll back.
DestroyEngagedSkipsCommit(t, o) ==
    /\ token[t].phase = "engaged"
    /\ IF token[t].action = "Rollback"
       THEN SessionRollback(o)
       ELSE UNCHANGED <<sess, prov, store, lastError, faults>>
    /\ token' = [token EXCEPT ![t] = NoToken]
    /\ UNCHANGED manual

DestroyEngaged(t, o) ==
    /\ token[t].phase = "engaged"
    /\ SessionFinish(token[t].action, o)
    /\ token' = [token EXCEPT ![t] = NoToken]
    /\ UNCHANGED manual

DestroyDisengaged(t) ==
    /\ token[t].phase = "disengaged"
    /\ token' = [token EXCEPT ![t] = NoToken]
    /\ UNCHANGED <<sess, prov, store, lastError, manual, faults>>

\* The destructor of a moved-from token dereferences its null pointer.
DestroyMoved(t) == token[t].phase = "moved" /\ Abort

TokenEndFatal(t) ==
    /\ token[t].phase = "engaged"
    /\ RereadFails

\* The defaulted moves: t takes the state of u, and what t held is dropped
\* without the destructor of a QOrmTransactionToken running for it.
MoveAssign(t, u) ==
    /\ "move" \in Api
    /\ t # u
    /\ token[u].phase \in {"engaged", "disengaged"}
    /\ token' = [token EXCEPT ![t] = token[u], ![u].phase = "moved"]
    /\ UNCHANGED <<sess, prov, store, lastError, manual, faults>>

-----------------------------------------------------------------------------
(* Statements: execute(), and the inserts, updates and deletes of merge()  *)
(* and remove().                                                           *)

Write(d, o) ==
    /\ Possible(o, TRUE)
    /\ Charge(o)
    /\ conn' = IF o = "aborted" THEN "auto" ELSE Connected(o)
    /\ data' = CASE o = "ok" -> d
                 [] o = "aborted" -> saved
                 [] OTHER -> data
    /\ saved' = IF o = "ok" /\ Connected(o) = "auto" THEN d ELSE saved
    /\ lastError' = ErrorUnless(o = "ok")
    /\ UNCHANGED <<sess, prov, token, manual>>

\* ~QOrmSession disconnects.  A copy of the configuration keeps the provider,
\* and its counter, alive for the next session.  Closing inside a transaction
\* is counted with the faults.
CloseSession(keepsProvider) ==
    /\ \A t \in Tokens : token[t].phase # "engaged"
    /\ sess > 0 => "closed" \in Failures
    /\ faults' = IF sess > 0 THEN faults + 1 ELSE faults
    /\ faults' <= MaxFaults
    /\ sess' = 0 /\ manual' = 0
    /\ prov' = IF keepsProvider THEN prov ELSE 0
    /\ conn' = "closed"
    /\ data' = saved
    /\ lastError' = "None"
    /\ UNCHANGED <<saved, token>>

-----------------------------------------------------------------------------
TokenNext(t) ==
    \/ \E o \in Outcomes :
        \/ \E a \in TransactionAction :
            DeclareRequire(t, a, o) \/ TokenFinish(t, a, o)
        \/ DestroyEngaged(t, o)
    \/ \E a \in TransactionAction : DeclareSupport(t, a) \/ DeclareDontSupport(t, a)
    \/ TokenDisengage(t) \/ DestroyDisengaged(t) \/ DestroyMoved(t) \/ TokenEndFatal(t)
    \/ \E u \in Tokens : MoveAssign(t, u)

Next ==
    \/ \E t \in Tokens : TokenNext(t)
    \/ \E o \in Outcomes :
        \/ BeginTransaction(o)
        \/ \E a \in TransactionAction : FinishTransaction(a, o)
        \/ DeclareRequireFatal(o)
        \/ \E d \in Data : Write(d, o)
    \/ RollbackTransactionFatal
    \/ \E k \in BOOLEAN : CloseSession(k)
    \/ Abort

Spec == Init /\ [][Next]_vars

-----------------------------------------------------------------------------
(* Properties. *)

\* As long as nothing has failed, the two counters and the connection agree:
\* the session believes in a transaction exactly when SQLite has one open,
\* whatever the client does with tokens (qormsession.cpp:351-452 and
\* qormsqliteprovider.cpp:1252-1313 each keep their own counter).
InSync ==
    faults = 0 =>
        /\ sess > 0 <=> conn = "tx"
        /\ prov = IF sess > 0 THEN 1 ELSE 0

\* Whatever fails, nothing is pending outside a transaction of SQLite: what
\* the session reads there survives a crash.
NothingPending == conn # "tx" => data = saved

Owners == {t \in Tokens : OwnsLevel(t)}
Levels == manual + Cardinality(Owners)

\* Whatever fails, every level a client or an engaged token still has to end
\* exists in the session: no end takes away a level of someone else.
LevelsCovered == Levels <= sess

\* As long as nothing has failed, every level of the session has an owner that
\* will end it: no return path leaks a level.
LevelsExact == faults = 0 => Levels = sess

\* No end takes away a level of someone else, whatever fails, and without a
\* failure no level is left behind either: every token ends its own level, once,
\* on each path on which it goes out of scope (qormtransactiontoken.cpp:44-85).
LevelsOwned == LevelsCovered /\ LevelsExact

\* While a level is open, the contents of the file change only in the step
\* that commits the outermost level, and then to what the session saw.
SavedByOutermostCommit ==
    [][faults' = 0 /\ sess > 0 /\ saved' # saved
        => sess = 1 /\ sess' = 0 /\ saved' = data]_vars

\* Destroying a token that was to roll back saves nothing, whatever fails; at
\* the outermost level, and with nothing failing, it also takes back what was
\* written since the transaction began.
RollbackUndoes ==
    [][\A t \in Tokens :
        /\ token[t].phase = "engaged" /\ token[t].action = "Rollback"
        /\ token'[t] = NoToken
        => /\ saved' = saved
           /\ sess = 1 /\ faults' = 0 => data' = saved]_vars

\* The transactions implement the nested levels of NestedTransaction.
Nested == INSTANCE NestedTransaction WITH depth <- sess
ImplementsNested == Nested!Spec
=============================================================================
