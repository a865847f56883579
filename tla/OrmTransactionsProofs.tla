----------------------- MODULE OrmTransactionsProofs -----------------------
(***************************************************************************)
(* Theorems about OrmTransactions, for any tokens, contents and bounds.    *)
(***************************************************************************)
EXTENDS OrmTransactions, FiniteSetTheorems, TLAPS

-----------------------------------------------------------------------------
(* Types: the counters stay in range although an end may fail; the counter *)
(* of the session never goes below 0.                                      *)

\* What a call of the session leaves typed: everything but the tokens and the
\* levels begun by hand.
CallTyped ==
    /\ sess' \in 0..MaxDepth
    /\ prov' \in Int
    /\ conn' \in {"closed", "auto", "tx"}
    /\ saved' \in Data
    /\ data' \in Data
    /\ lastError' \in {"None", "Provider", "TransactionNotActive"}
    /\ faults' \in 0..MaxFaults

LEMMA BeginTyped ==
    ASSUME TypeOK, NEW o \in Outcomes, SessionBegin(o)
    PROVE  CallTyped /\ (sess' = sess \/ sess' = sess + 1)
BY DepthAssumption, FaultsAssumption
   DEF CallTyped, TypeOK, SessionBegin, Charge, ErrorUnless, ProviderBegin, Connected, store

LEMMA FinishTyped ==
    ASSUME TypeOK, NEW o \in Outcomes, NEW a \in TransactionAction, SessionFinish(a, o)
    PROVE  CallTyped
BY DepthAssumption, FaultsAssumption
   DEF CallTyped, TypeOK, SessionFinish, SessionCommit, SessionRollback, SessionEnd,
       SessionEndSucceeds, Charge, ErrorUnless, ProviderCommit, ProviderRollback,
       ProviderEnd, Connected, store

LEMMA AbortTyped == TypeOK /\ Abort => TypeOK'
BY DepthAssumption, FaultsAssumption
   DEF TypeOK, Abort, TokenState, NoToken, Phases, TransactionAction, Propagation

LEMMA TokenTyped ==
    ASSUME TypeOK, NEW t \in Tokens
    PROVE  /\ NoToken \in TokenState
           /\ [token EXCEPT ![t] = NoToken] \in [Tokens -> TokenState]
           /\ \A u \in Tokens :
                [token EXCEPT ![t] = token[u], ![u].phase = "moved"] \in [Tokens -> TokenState]
           /\ [token EXCEPT ![t].phase = "disengaged"] \in [Tokens -> TokenState]
           /\ \A p \in Propagation, a \in TransactionAction :
                [token EXCEPT ![t] = [phase |-> "engaged", action |-> a, asked |-> p]]
                    \in [Tokens -> TokenState]
BY DEF TypeOK, TokenState, NoToken, Phases, TransactionAction, Propagation

LEMMA TokenNextTyped ==
    ASSUME TypeOK, NEW t \in Tokens, TokenNext(t)
    PROVE  TypeOK'
<1> USE DepthAssumption, FaultsAssumption
<1>1. ASSUME NEW o \in Outcomes, NEW a \in TransactionAction, DeclareRequire(t, a, o)
      PROVE  TypeOK'
  <2>1. CallTyped
    BY <1>1, BeginTyped DEF DeclareRequire
  <2> QED
    BY <1>1, <2>1, TokenTyped DEF TypeOK, CallTyped, DeclareRequire, Engage, Propagation
<1>2. ASSUME NEW o \in Outcomes, NEW a \in TransactionAction, TokenFinish(t, a, o)
      PROVE  TypeOK'
  <2>1. CallTyped
    BY <1>2, FinishTyped DEF TokenFinish
  <2> QED
    BY <1>2, <2>1, TokenTyped DEF TypeOK, CallTyped, TokenFinish
<1>3. ASSUME NEW o \in Outcomes, DestroyEngaged(t, o)
      PROVE  TypeOK'
  <2>1. token[t].action \in TransactionAction
    BY DEF TypeOK, TokenState
  <2>2. CallTyped
    BY <1>3, <2>1, FinishTyped DEF DestroyEngaged
  <2> QED
    BY <1>3, <2>2, TokenTyped DEF TypeOK, CallTyped, DestroyEngaged
<1>4. ASSUME NEW a \in TransactionAction, DeclareSupport(t, a)
      PROVE  TypeOK'
  BY <1>4, TokenTyped DEF TypeOK, DeclareSupport, Engage, Propagation, store
<1>5. ASSUME NEW a \in TransactionAction, DeclareDontSupport(t, a)
      PROVE  TypeOK'
  <2>1. CASE sess > 0
    BY <1>5, <2>1, AbortTyped DEF DeclareDontSupport
  <2>2. CASE ~(sess > 0)
    <3>1. /\ Engage(t, "DontSupport", a)
          /\ UNCHANGED <<sess, prov, store, lastError, manual, faults>>
      BY <1>5, <2>2 DEF DeclareDontSupport
    <3> QED
      BY <3>1, TokenTyped DEF TypeOK, Engage, Propagation, store
  <2> QED
    BY <2>1, <2>2
<1>6. CASE TokenDisengage(t)
  BY <1>6, TokenTyped DEF TypeOK, TokenDisengage, OwnsLevel, store
<1>7. CASE DestroyDisengaged(t)
  BY <1>7, TokenTyped DEF TypeOK, DestroyDisengaged, store
<1>8. CASE DestroyMoved(t) \/ TokenEndFatal(t)
  BY <1>8, AbortTyped DEF DestroyMoved, TokenEndFatal, RereadFails
<1>9. ASSUME NEW u \in Tokens, MoveAssign(t, u)
      PROVE  TypeOK'
  BY <1>9, TokenTyped DEF TypeOK, MoveAssign, store
<1> QED
  BY <1>1, <1>2, <1>3, <1>4, <1>5, <1>6, <1>7, <1>8, <1>9 DEF TokenNext

LEMMA NextTyped == TypeOK /\ [Next]_vars => TypeOK'
<1> USE DepthAssumption, FaultsAssumption
<1> SUFFICES ASSUME TypeOK, [Next]_vars PROVE TypeOK'
  OBVIOUS
<1>1. ASSUME NEW t \in Tokens, TokenNext(t) PROVE TypeOK'
  BY <1>1, TokenNextTyped
<1>2. ASSUME NEW o \in Outcomes, BeginTransaction(o) PROVE TypeOK'
  <2>1. CallTyped /\ (sess' = sess \/ sess' = sess + 1)
    BY <1>2, BeginTyped DEF BeginTransaction
  <2>2. manual' \in 0..MaxDepth
    <3>1. sess \in Int
      BY DEF TypeOK
    <3>2. manual < MaxDepth /\ manual' = manual + (sess' - sess)
      BY <1>2 DEF BeginTransaction
    <3> QED
      BY <2>1, <3>1, <3>2 DEF TypeOK
  <2> QED
    BY <1>2, <2>1, <2>2 DEF TypeOK, CallTyped, BeginTransaction
<1>3. ASSUME NEW o \in Outcomes, NEW a \in TransactionAction, FinishTransaction(a, o)
      PROVE  TypeOK'
  <2>1. CallTyped
    BY <1>3, FinishTyped DEF FinishTransaction
  <2> QED
    BY <1>3, <2>1 DEF TypeOK, CallTyped, FinishTransaction
<1>4. ASSUME NEW o \in Outcomes, NEW d \in Data, Write(d, o) PROVE TypeOK'
  BY <1>4 DEF TypeOK, Write, Charge, Connected, ErrorUnless
<1>5. ASSUME NEW k \in BOOLEAN, CloseSession(k) PROVE TypeOK'
  BY <1>5 DEF TypeOK, CloseSession
<1>6. ASSUME Abort PROVE TypeOK'
  BY <1>6, AbortTyped
<1>7. CASE RollbackTransactionFatal \/ \E o \in Outcomes : DeclareRequireFatal(o)
  BY <1>7, AbortTyped DEF RollbackTransactionFatal, DeclareRequireFatal, RereadFails
<1>8. CASE UNCHANGED vars
  BY <1>8 DEF TypeOK, vars
<1> QED
  BY <1>1, <1>2, <1>3, <1>4, <1>5, <1>6, <1>7, <1>8 DEF Next

LEMMA InitTyped == Init => TypeOK
BY DepthAssumption, FaultsAssumption
   DEF Init, TypeOK, TokenState, NoToken, Phases, TransactionAction, Propagation

\* Every reachable state is typed: the session's counter (qormsession.cpp:50)
\* stays between 0 and the deepest nesting whichever call fails.
THEOREM TypeCorrect == Spec => []TypeOK
<1>1. Init => TypeOK
  BY InitTyped
<1>2. TypeOK /\ [Next]_vars => TypeOK'
  BY NextTyped
<1> QED
  BY <1>1, <1>2, PTL DEF Spec

-----------------------------------------------------------------------------
(* The counters and the connection.  InSync is inductive once it knows     *)
(* that nothing is pending outside a transaction; a failure is charged in  *)
(* the step in which it happens, so that a step after which faults is 0    *)
(* is one in which every call succeeded.                                   *)

SyncInv == TypeOK /\ InSync /\ NothingPending

LEMMA BeginInSync ==
    ASSUME SyncInv, NEW o \in Outcomes, SessionBegin(o)
    PROVE  InSync' /\ NothingPending'
BY DepthAssumption, FaultsAssumption
   DEF SyncInv, TypeOK, InSync, NothingPending, SessionBegin, SessionBeginSucceeds, Charge,
       ProviderBegin, ProviderBeginSucceeds, SqlBegin, Connected, store, Outcomes

LEMMA FinishInSync ==
    ASSUME SyncInv, NEW o \in Outcomes, NEW a \in TransactionAction, SessionFinish(a, o)
    PROVE  InSync' /\ NothingPending'
<1>1. PICK kept \in {saved, data} :
        SessionEnd(o, ProviderEnd(o, kept, kept))
  BY DEF SessionFinish, SessionCommit, SessionRollback, ProviderCommit, ProviderRollback
<1>2. NothingPending'
  BY <1>1 DEF SyncInv, TypeOK, NothingPending, SessionEnd, ProviderEnd, Connected, store
<1>3. ASSUME faults' = 0 PROVE o = "ok" /\ faults = 0
  BY <1>1, <1>3, FaultsAssumption DEF SyncInv, TypeOK, SessionEnd, Charge
<1>4. InSync'
  BY <1>1, <1>3 DEF SyncInv, TypeOK, InSync, SessionEnd, SessionEndSucceeds,
       ProviderEndSucceeds, ProviderEnd, SqlEnd, Connected, store
<1> QED
  BY <1>2, <1>4

LEMMA AbortInSync == Abort => InSync' /\ NothingPending'
BY DEF Abort, InSync, NothingPending

LEMMA TokenNextInSync ==
    ASSUME SyncInv, NEW t \in Tokens, TokenNext(t)
    PROVE  InSync' /\ NothingPending'
<1>1. ASSUME NEW o \in Outcomes, NEW a \in TransactionAction, DeclareRequire(t, a, o)
      PROVE  InSync' /\ NothingPending'
  BY <1>1, BeginInSync DEF DeclareRequire
<1>2. ASSUME NEW o \in Outcomes, NEW a \in TransactionAction, TokenFinish(t, a, o)
      PROVE  InSync' /\ NothingPending'
  BY <1>2, FinishInSync DEF TokenFinish
<1>3. ASSUME NEW o \in Outcomes, DestroyEngaged(t, o)
      PROVE  InSync' /\ NothingPending'
  <2>1. token[t].action \in TransactionAction
    BY DEF SyncInv, TypeOK, TokenState
  <2> QED
    BY <1>3, <2>1, FinishInSync DEF DestroyEngaged
<1>4. ASSUME UNCHANGED <<sess, prov, store, lastError, faults>>
      PROVE  InSync' /\ NothingPending'
  BY <1>4 DEF SyncInv, InSync, NothingPending, store
<1>5. CASE \/ \E a \in TransactionAction : DeclareSupport(t, a) \/ DeclareDontSupport(t, a)
           \/ TokenDisengage(t) \/ DestroyDisengaged(t) \/ DestroyMoved(t) \/ TokenEndFatal(t)
           \/ \E u \in Tokens : MoveAssign(t, u)
  BY <1>4, <1>5, AbortInSync
     DEF DeclareSupport, DeclareDontSupport, TokenDisengage, DestroyDisengaged, DestroyMoved,
         TokenEndFatal, RereadFails, MoveAssign
<1> QED
  BY <1>1, <1>2, <1>3, <1>5 DEF TokenNext

LEMMA NextInSync == SyncInv /\ [Next]_vars => SyncInv'
<1> SUFFICES ASSUME SyncInv, [Next]_vars PROVE InSync' /\ NothingPending'
  BY NextTyped DEF SyncInv
<1>1. ASSUME NEW t \in Tokens, TokenNext(t) PROVE InSync' /\ NothingPending'
  BY <1>1, TokenNextInSync
<1>2. ASSUME NEW o \in Outcomes, BeginTransaction(o) PROVE InSync' /\ NothingPending'
  BY <1>2, BeginInSync DEF BeginTransaction
<1>3. ASSUME NEW o \in Outcomes, NEW a \in TransactionAction, FinishTransaction(a, o)
      PROVE  InSync' /\ NothingPending'
  BY <1>3, FinishInSync DEF FinishTransaction
<1>4. ASSUME NEW o \in Outcomes, NEW d \in Data, Write(d, o)
      PROVE  InSync' /\ NothingPending'
  BY <1>4, FaultsAssumption
     DEF SyncInv, TypeOK, InSync, NothingPending, Write, Charge, Connected, Possible, Outcomes
<1>5. ASSUME NEW k \in BOOLEAN, CloseSession(k) PROVE InSync' /\ NothingPending'
  BY <1>5, FaultsAssumption DEF SyncInv, TypeOK, InSync, NothingPending, CloseSession
<1>6. CASE Abort \/ RollbackTransactionFatal \/ \E o \in Outcomes : DeclareRequireFatal(o)
  BY <1>6, AbortInSync DEF RollbackTransactionFatal, DeclareRequireFatal, RereadFails
<1>7. CASE UNCHANGED vars
  BY <1>7 DEF SyncInv, InSync, NothingPending, vars
<1> QED
  BY <1>1, <1>2, <1>3, <1>4, <1>5, <1>6, <1>7 DEF Next

LEMMA SyncInvariant == Spec => []SyncInv
<1>1. Init => SyncInv
  BY InitTyped DEF Init, SyncInv, InSync, NothingPending
<1>2. SyncInv /\ [Next]_vars => SyncInv'
  BY NextInSync
<1> QED
  BY <1>1, <1>2, PTL DEF Spec

\* As long as no call fails, the session's counter, the provider's counter and
\* SQLite agree on whether a transaction is open, for any nesting and any use
\* of tokens.
THEOREM CountersInSync == Spec => []InSync
<1>1. SyncInv => InSync
  BY DEF SyncInv
<1> QED
  BY <1>1, SyncInvariant, PTL

-----------------------------------------------------------------------------
(* Levels and their owners.  The client asks for Require tokens only and   *)
(* ends a token once: then every token that is engaged has begun a level,  *)
(* and no end takes away a level of someone else, whichever call fails.    *)

PlainClient == Api \subseteq {"manual", "Require", "move"}

AllRequire == \A t \in Tokens : token[t].phase = "engaged" => token[t].asked = "Require"

CoverInv == TypeOK /\ AllRequire /\ LevelsCovered

LEMMA OwnersFinite == IsFiniteSet(Owners) /\ Cardinality(Owners) \in Nat
<1>1. Owners \subseteq Tokens
  BY DEF Owners
<1>2. IsFiniteSet(Owners)
  BY <1>1, TokensAssumption, FS_Subset
<1> QED
  BY <1>2, FS_CardinalityType

LEMMA OneMore ==
    ASSUME NEW S, IsFiniteSet(S), NEW t, t \notin S
    PROVE  Cardinality(S \cup {t}) = Cardinality(S) + 1
BY FS_AddElement

LEMMA OneLess ==
    ASSUME NEW S, IsFiniteSet(S), NEW t, t \in S
    PROVE  Cardinality(S \ {t}) = Cardinality(S) - 1
BY FS_RemoveElement

\* A begin that succeeds adds a level; an end takes at most one away.
LEMMA BeginLevel ==
    ASSUME TypeOK, NEW o \in Outcomes, SessionBegin(o)
    PROVE  /\ sess' = sess \/ sess' = sess + 1
           /\ sess' > 0 => sess' = sess + 1
BY DepthAssumption DEF TypeOK, SessionBegin, SessionBeginSucceeds

LEMMA FinishLevel ==
    ASSUME TypeOK, NEW o \in Outcomes, NEW a \in TransactionAction, SessionFinish(a, o)
    PROVE  sess' = IF SessionEndSucceeds(o) THEN sess - 1 ELSE sess
BY DEF TypeOK, SessionFinish, SessionCommit, SessionRollback, SessionEnd

LEMMA NobodyLeft ==
    ASSUME TypeOK', sess' = 0, manual' = 0, \A t \in Tokens : token'[t].phase # "engaged"
    PROVE  AllRequire' /\ LevelsCovered'
<1>1. Owners' = {}
  BY DEF Owners, OwnsLevel
<1> QED
  BY <1>1, FS_EmptySet DEF AllRequire, LevelsCovered, Levels

LEMMA AbortCovered == TypeOK' /\ Abort => AllRequire' /\ LevelsCovered'
BY NobodyLeft DEF Abort, NoToken

LEMMA TokenNextCovered ==
    ASSUME PlainClient, CoverInv, NEW t \in Tokens, TokenNext(t), TypeOK'
    PROVE  AllRequire' /\ LevelsCovered'
<1>1. ASSUME NEW o \in Outcomes, NEW a \in TransactionAction, DeclareRequire(t, a, o)
      PROVE  AllRequire' /\ LevelsCovered'
  <2>1. Owners' = Owners \cup {t} /\ t \notin Owners
    BY <1>1 DEF CoverInv, TypeOK, TokenState, DeclareRequire, Engage, Owners, OwnsLevel
  <2>2. sess' = sess + 1
    BY <1>1, BeginLevel DEF CoverInv, DeclareRequire
  <2>3. AllRequire'
    BY <1>1 DEF CoverInv, TypeOK, TokenState, AllRequire, DeclareRequire, Engage
  <2>4. Cardinality(Owners') = Cardinality(Owners) + 1
    BY <2>1, OwnersFinite, OneMore
  <2>5. manual' = manual
    BY <1>1 DEF DeclareRequire
  <2> QED
    BY <2>2, <2>3, <2>4, <2>5, OwnersFinite, DepthAssumption
       DEF CoverInv, TypeOK, LevelsCovered, Levels
<1>2. ASSUME NEW o \in Outcomes, NEW a \in TransactionAction, SessionFinish(a, o),
             token[t].phase = "engaged", manual' = manual,
             \/ token' = [token EXCEPT ![t].phase = "disengaged"]
             \/ token' = [token EXCEPT ![t] = NoToken]
      PROVE  AllRequire' /\ LevelsCovered'
  <2>1. Owners' = Owners \ {t} /\ t \in Owners
    BY <1>2 DEF CoverInv, AllRequire, TypeOK, TokenState, NoToken, Owners, OwnsLevel
  <2>2. sess' = sess \/ sess' = sess - 1
    BY <1>2, FinishLevel DEF CoverInv
  <2>3. AllRequire'
    BY <1>2 DEF CoverInv, TypeOK, TokenState, AllRequire, NoToken
  <2>4. Cardinality(Owners') = Cardinality(Owners) - 1
    BY <2>1, OwnersFinite, OneLess
  <2> QED
    BY <1>2, <2>2, <2>3, <2>4, OwnersFinite, DepthAssumption
       DEF CoverInv, TypeOK, LevelsCovered, Levels
<1>3. ASSUME NEW o \in Outcomes, NEW a \in TransactionAction, TokenFinish(t, a, o)
      PROVE  AllRequire' /\ LevelsCovered'
  BY <1>2, <1>3 DEF TokenFinish, PlainClient
<1>4. ASSUME NEW o \in Outcomes, DestroyEngaged(t, o)
      PROVE  AllRequire' /\ LevelsCovered'
  <2>1. token[t].action \in TransactionAction
    BY DEF CoverInv, TypeOK, TokenState
  <2> QED
    BY <1>2, <1>4, <2>1 DEF DestroyEngaged
<1>5. CASE TokenDisengage(t)
  <2>1. Owners' = Owners \ {t} /\ t \in Owners
    BY <1>5 DEF CoverInv, AllRequire, TypeOK, TokenState, TokenDisengage, Owners, OwnsLevel
  <2>2. Cardinality(Owners') = Cardinality(Owners) - 1
    BY <2>1, OwnersFinite, OneLess
  <2>3. manual' = manual + 1 /\ sess' = sess
    BY <1>5, <2>1 DEF TokenDisengage, Owners
  <2>4. AllRequire'
    BY <1>5 DEF CoverInv, TypeOK, TokenState, AllRequire, TokenDisengage
  <2> QED
    BY <2>2, <2>3, <2>4, OwnersFinite, DepthAssumption
       DEF CoverInv, TypeOK, LevelsCovered, Levels
<1>6. CASE DestroyDisengaged(t)
  <2>1. Owners' = Owners /\ AllRequire'
    BY <1>6 DEF CoverInv, TypeOK, TokenState, AllRequire, NoToken, DestroyDisengaged,
                Owners, OwnsLevel
  <2> QED
    BY <1>6, <2>1 DEF CoverInv, DestroyDisengaged, LevelsCovered, Levels
<1>7. CASE DestroyMoved(t) \/ TokenEndFatal(t)
  BY <1>7, AbortCovered DEF DestroyMoved, TokenEndFatal, RereadFails
<1>8. ASSUME NEW u \in Tokens, MoveAssign(t, u)
      PROVE  AllRequire' /\ LevelsCovered'
  <2>1. AllRequire'
    BY <1>8 DEF CoverInv, TypeOK, TokenState, AllRequire, MoveAssign
  <2>2. /\ token'[t] = token[u] /\ token'[u].phase = "moved" /\ t # u
        /\ \A v \in Tokens \ {t, u} : token'[v] = token[v]
    BY <1>8 DEF CoverInv, TypeOK, TokenState, MoveAssign
  <2>3. Cardinality(Owners') <= Cardinality(Owners)
    <3>1. Cardinality(Owners) \in Nat /\ IsFiniteSet(Owners)
      BY OwnersFinite
    <3>2. CASE u \notin Owners
      <4>1. Owners' = IF t \in Owners THEN Owners \ {t} ELSE Owners
        BY <2>2, <3>2 DEF Owners, OwnsLevel
      <4> QED
        BY <3>1, <4>1, OneLess
    <3>3. CASE u \in Owners /\ t \in Owners
      <4>1. Owners' = Owners \ {u}
        BY <2>2, <3>3 DEF Owners, OwnsLevel
      <4> QED
        BY <3>1, <3>3, <4>1, OneLess
    <3>4. CASE u \in Owners /\ t \notin Owners
      <4>1. Owners' = (Owners \ {u}) \cup {t}
        BY <2>2, <3>4 DEF Owners, OwnsLevel
      <4>2. IsFiniteSet(Owners \ {u}) /\ t \notin Owners \ {u}
        BY <3>1, <3>4, FS_RemoveElement
      <4>3. Cardinality(Owners') = Cardinality(Owners \ {u}) + 1
        BY <4>1, <4>2, OneMore
      <4>4. Cardinality(Owners \ {u}) = Cardinality(Owners) - 1
        BY <3>1, <3>4, OneLess
      <4> QED
        BY <3>1, <4>3, <4>4
    <3> QED
      BY <3>2, <3>3, <3>4
  <2>4. sess' = sess /\ manual' = manual
    BY <1>8 DEF MoveAssign
  <2>5. Cardinality(Owners') \in Nat
    <3>1. Owners' \subseteq Tokens
      BY DEF Owners
    <3> QED
      BY <3>1, TokensAssumption, FS_Subset, FS_CardinalityType
  <2> QED
    BY <2>1, <2>3, <2>4, <2>5, OwnersFinite, DepthAssumption
       DEF CoverInv, TypeOK, LevelsCovered, Levels
<1> QED
  BY <1>1, <1>3, <1>4, <1>5, <1>6, <1>7, <1>8
     DEF TokenNext, PlainClient, DeclareSupport, DeclareDontSupport

LEMMA NextCovered ==
    ASSUME PlainClient, CoverInv, [Next]_vars
    PROVE  CoverInv'
<1> SUFFICES AllRequire' /\ LevelsCovered'
  BY NextTyped DEF CoverInv
<1>1. TypeOK'
  BY NextTyped DEF CoverInv
<1>2. ASSUME NEW t \in Tokens, TokenNext(t) PROVE AllRequire' /\ LevelsCovered'
  BY <1>1, <1>2, TokenNextCovered
<1>3. ASSUME UNCHANGED token PROVE AllRequire' /\ Owners' = Owners
  BY <1>3 DEF CoverInv, AllRequire, Owners, OwnsLevel
<1>4. ASSUME NEW o \in Outcomes, BeginTransaction(o) PROVE LevelsCovered'
  <2>1. sess' = sess \/ sess' = sess + 1
    BY <1>4, BeginLevel DEF CoverInv, BeginTransaction
  <2>2. manual' = manual + (sess' - sess) /\ Owners' = Owners
    BY <1>3, <1>4 DEF BeginTransaction
  <2> QED
    BY <2>1, <2>2, OwnersFinite, DepthAssumption DEF CoverInv, TypeOK, LevelsCovered, Levels
<1>5. ASSUME NEW o \in Outcomes, NEW a \in TransactionAction, FinishTransaction(a, o)
      PROVE  LevelsCovered'
  <2>1. sess' = IF SessionEndSucceeds(o) THEN sess - 1 ELSE sess
    BY <1>5, FinishLevel DEF CoverInv, FinishTransaction
  <2>2. /\ manual' = IF SessionEndSucceeds(o) THEN manual - 1 ELSE manual
        /\ Owners' = Owners
    BY <1>3, <1>5 DEF FinishTransaction
  <2> QED
    BY <2>1, <2>2, OwnersFinite, DepthAssumption DEF CoverInv, TypeOK, LevelsCovered, Levels
<1>6. ASSUME NEW o \in Outcomes, NEW d \in Data, Write(d, o) PROVE LevelsCovered'
  BY <1>3, <1>6 DEF CoverInv, Write, LevelsCovered, Levels
<1>7. ASSUME NEW k \in BOOLEAN, CloseSession(k) PROVE AllRequire' /\ LevelsCovered'
  BY <1>1, <1>7, NobodyLeft DEF CloseSession
<1>8. CASE Abort \/ RollbackTransactionFatal \/ \E o \in Outcomes : DeclareRequireFatal(o)
  BY <1>1, <1>8, AbortCovered DEF RollbackTransactionFatal, DeclareRequireFatal, RereadFails
<1>9. CASE UNCHANGED vars
  BY <1>3, <1>9 DEF CoverInv, LevelsCovered, Levels, vars
<1> QED
  BY <1>1, <1>2, <1>3, <1>4, <1>5, <1>6, <1>7, <1>8, <1>9
     DEF CoverInv, Next, BeginTransaction, FinishTransaction, Write

\* A client that asks for Require tokens and ends each of them once never loses
\* a level it still has to end, whatever fails: begin, commit and rollback of
\* the session (qormsession.cpp:351-452) take away one level per owner at most.
THEOREM LevelsAlwaysCovered ==
    ASSUME PlainClient
    PROVE  Spec => []LevelsCovered
<1>1. Init => CoverInv
  <2>1. Init => Owners = {}
    BY DEF Init, Owners, OwnsLevel, NoToken
  <2> QED
    BY <2>1, InitTyped, FS_EmptySet
       DEF Init, CoverInv, AllRequire, NoToken, LevelsCovered, Levels
<1>2. CoverInv /\ [Next]_vars => CoverInv'
  BY NextCovered
<1>3. CoverInv => LevelsCovered
  BY DEF CoverInv
<1> QED
  BY <1>1, <1>2, <1>3, PTL DEF Spec

-----------------------------------------------------------------------------
(* Without a move assignment and without a failure, no level is left behind *)
(* either: then the counters agree (SyncInv), so that every begin and every *)
(* end succeeds, and the owners of levels change with the counter.          *)

PlainClientWithoutMoves == Api \subseteq {"manual", "Require"}

ExactInv == CoverInv /\ SyncInv /\ LevelsExact

LEMMA BeginSucceeds ==
    ASSUME SyncInv, NEW o \in Outcomes, SessionBegin(o), faults' = 0
    PROVE  faults = 0 /\ sess' = sess + 1
<1>1. o = "ok" /\ faults = 0
  BY FaultsAssumption DEF SyncInv, TypeOK, SessionBegin, Charge
<1> QED
  BY <1>1 DEF SyncInv, TypeOK, InSync, SessionBegin, SessionBeginSucceeds,
              ProviderBeginSucceeds, SqlBegin, Connected

LEMMA FinishSucceeds ==
    ASSUME SyncInv, NEW o \in Outcomes, NEW a \in TransactionAction, SessionFinish(a, o),
           faults' = 0, sess > 0
    PROVE  faults = 0 /\ sess' = sess - 1 /\ SessionEndSucceeds(o)
<1>1. o = "ok" /\ faults = 0
  BY FaultsAssumption
     DEF SyncInv, TypeOK, SessionFinish, SessionCommit, SessionRollback, SessionEnd, Charge
<1>2. SessionEndSucceeds(o)
  BY <1>1 DEF SyncInv, TypeOK, InSync, SessionEndSucceeds, ProviderEndSucceeds, SqlEnd,
              Connected
<1> QED
  BY <1>1, <1>2, FinishLevel DEF SyncInv

LEMMA NobodyOwns ==
    ASSUME sess' = 0, manual' = 0, \A t \in Tokens : token'[t].phase # "engaged"
    PROVE  LevelsExact'
<1>1. Owners' = {}
  BY DEF Owners, OwnsLevel
<1> QED
  BY <1>1, FS_EmptySet DEF LevelsExact, Levels

LEMMA AbortExact == Abort => LevelsExact'
BY NobodyOwns DEF Abort, NoToken

LEMMA TokenNextExact ==
    ASSUME PlainClientWithoutMoves, ExactInv, NEW t \in Tokens, TokenNext(t)
    PROVE  LevelsExact'
<1> SUFFICES ASSUME faults' = 0 PROVE Levels' = sess'
  BY DEF LevelsExact
<1>1. ASSUME NEW o \in Outcomes, NEW a \in TransactionAction, DeclareRequire(t, a, o)
      PROVE  Levels' = sess'
  <2>1. Owners' = Owners \cup {t} /\ t \notin Owners
    BY <1>1 DEF ExactInv, CoverInv, TypeOK, TokenState, DeclareRequire, Engage, Owners, OwnsLevel
  <2>2. faults = 0 /\ sess' = sess + 1 /\ manual' = manual
    BY <1>1, BeginSucceeds DEF ExactInv, DeclareRequire
  <2>3. Cardinality(Owners') = Cardinality(Owners) + 1
    BY <2>1, OwnersFinite, OneMore
  <2> QED
    BY <2>2, <2>3, OwnersFinite DEF ExactInv, CoverInv, TypeOK, LevelsExact, Levels
<1>2. ASSUME NEW o \in Outcomes, NEW a \in TransactionAction, SessionFinish(a, o),
             token[t].phase = "engaged", manual' = manual,
             \/ token' = [token EXCEPT ![t].phase = "disengaged"]
             \/ token' = [token EXCEPT ![t] = NoToken]
      PROVE  Levels' = sess'
  <2>1. Owners' = Owners \ {t} /\ t \in Owners
    BY <1>2 DEF ExactInv, CoverInv, AllRequire, TypeOK, TokenState, NoToken, Owners, OwnsLevel
  <2>2. Cardinality(Owners') = Cardinality(Owners) - 1 /\ Cardinality(Owners) # 0
    BY <2>1, OwnersFinite, OneLess, FS_EmptySet
  <2>3. sess > 0
    BY <2>2, OwnersFinite DEF ExactInv, CoverInv, TypeOK, LevelsCovered, Levels
  <2>4. faults = 0 /\ sess' = sess - 1
    BY <1>2, <2>3, FinishSucceeds DEF ExactInv
  <2> QED
    BY <1>2, <2>2, <2>4, OwnersFinite DEF ExactInv, CoverInv, TypeOK, LevelsExact, Levels
<1>3. ASSUME NEW o \in Outcomes, NEW a \in TransactionAction, TokenFinish(t, a, o)
      PROVE  Levels' = sess'
  BY <1>2, <1>3 DEF TokenFinish, PlainClientWithoutMoves
<1>4. ASSUME NEW o \in Outcomes, DestroyEngaged(t, o)
      PROVE  Levels' = sess'
  <2>1. token[t].action \in TransactionAction
    BY DEF ExactInv, CoverInv, TypeOK, TokenState
  <2> QED
    BY <1>2, <1>4, <2>1 DEF DestroyEngaged
<1>5. CASE TokenDisengage(t)
  <2>1. Owners' = Owners \ {t} /\ t \in Owners
    BY <1>5 DEF ExactInv, CoverInv, AllRequire, TypeOK, TokenState, TokenDisengage, Owners,
                OwnsLevel
  <2>2. Cardinality(Owners') = Cardinality(Owners) - 1
    BY <2>1, OwnersFinite, OneLess
  <2>3. manual' = manual + 1 /\ sess' = sess /\ faults' = faults
    BY <1>5, <2>1 DEF TokenDisengage, Owners
  <2> QED
    BY <2>2, <2>3, OwnersFinite DEF ExactInv, CoverInv, TypeOK, LevelsExact, Levels
<1>6. CASE DestroyDisengaged(t)
  <2>1. Owners' = Owners
    BY <1>6 DEF ExactInv, CoverInv, TypeOK, TokenState, NoToken, DestroyDisengaged, Owners,
                OwnsLevel
  <2> QED
    BY <1>6, <2>1 DEF ExactInv, DestroyDisengaged, LevelsExact, Levels
<1>7. CASE DestroyMoved(t) \/ TokenEndFatal(t)
  BY <1>7, AbortExact DEF DestroyMoved, TokenEndFatal, RereadFails, LevelsExact
<1> QED
  BY <1>1, <1>3, <1>4, <1>5, <1>6, <1>7
     DEF TokenNext, PlainClientWithoutMoves, DeclareSupport, DeclareDontSupport, MoveAssign

LEMMA NextExact ==
    ASSUME PlainClientWithoutMoves, ExactInv, [Next]_vars
    PROVE  ExactInv'
<1>1. CoverInv' /\ SyncInv'
  BY NextCovered, NextInSync DEF ExactInv, PlainClient, PlainClientWithoutMoves
<1> SUFFICES LevelsExact'
  BY <1>1 DEF ExactInv
<1>2. ASSUME NEW t \in Tokens, TokenNext(t) PROVE LevelsExact'
  BY <1>2, TokenNextExact
<1>3. ASSUME UNCHANGED token PROVE Owners' = Owners
  BY <1>3 DEF Owners, OwnsLevel
<1>4. ASSUME NEW o \in Outcomes, BeginTransaction(o), faults' = 0 PROVE Levels' = sess'
  <2>1. faults = 0 /\ sess' = sess + 1
    BY <1>4, BeginSucceeds DEF ExactInv, BeginTransaction
  <2>2. manual' = manual + (sess' - sess) /\ Owners' = Owners
    BY <1>3, <1>4 DEF BeginTransaction
  <2> QED
    BY <2>1, <2>2, OwnersFinite DEF ExactInv, CoverInv, TypeOK, LevelsExact, Levels
<1>5. ASSUME NEW o \in Outcomes, NEW a \in TransactionAction, FinishTransaction(a, o), faults' = 0
      PROVE  Levels' = sess'
  <2>1. sess > 0
    BY <1>5, OwnersFinite DEF FinishTransaction, ExactInv, CoverInv, TypeOK, LevelsCovered, Levels
  <2>2. faults = 0 /\ sess' = sess - 1 /\ SessionEndSucceeds(o)
    BY <1>5, <2>1, FinishSucceeds DEF ExactInv, FinishTransaction
  <2>3. manual' = manual - 1 /\ Owners' = Owners
    BY <1>3, <1>5, <2>2 DEF FinishTransaction
  <2> QED
    BY <2>2, <2>3, OwnersFinite DEF ExactInv, CoverInv, TypeOK, LevelsExact, Levels
<1>6. ASSUME NEW o \in Outcomes, NEW d \in Data, Write(d, o) PROVE LevelsExact'
  <2>1. faults' = 0 => faults = 0
    BY <1>6, FaultsAssumption DEF Write, Charge, ExactInv, CoverInv, TypeOK
  <2> QED
    BY <1>3, <1>6, <2>1 DEF ExactInv, Write, LevelsExact, Levels
<1>7. ASSUME NEW k \in BOOLEAN, CloseSession(k) PROVE LevelsExact'
  BY <1>7, NobodyOwns DEF CloseSession
<1>8. CASE Abort \/ RollbackTransactionFatal \/ \E o \in Outcomes : DeclareRequireFatal(o)
  BY <1>8, AbortExact DEF RollbackTransactionFatal, DeclareRequireFatal, RereadFails
<1>9. CASE UNCHANGED vars
  BY <1>3, <1>9 DEF ExactInv, LevelsExact, Levels, vars
<1> QED
  BY <1>2, <1>4, <1>5, <1>6, <1>7, <1>8, <1>9 DEF Next, LevelsExact

\* A client that begins levels by hand and with Require tokens, and moves none of
\* them, never loses a level it still has to end, whatever fails; and as long as
\* nothing fails every level of the session has its owner: none is left behind.
THEOREM LevelsAlwaysOwned ==
    ASSUME PlainClientWithoutMoves
    PROVE  Spec => []LevelsOwned
<1>1. Init => ExactInv
  <2>1. Init => Owners = {} /\ sess = 0 /\ manual = 0 /\ faults = 0
    BY DEF Init, Owners, OwnsLevel, NoToken
  <2>2. Init => CoverInv
    BY <2>1, InitTyped, FS_EmptySet
       DEF Init, CoverInv, AllRequire, NoToken, LevelsCovered, Levels
  <2>3. Init => SyncInv
    BY InitTyped DEF Init, SyncInv, InSync, NothingPending
  <2> QED
    BY <2>1, <2>2, <2>3, FS_EmptySet DEF ExactInv, LevelsExact, Levels
<1>2. ExactInv /\ [Next]_vars => ExactInv'
  BY NextExact
<1>3. ExactInv => LevelsOwned
  BY DEF ExactInv, CoverInv, LevelsOwned
<1> QED
  BY <1>1, <1>2, <1>3, PTL DEF Spec

-----------------------------------------------------------------------------
(* What a step does to the contents while nothing fails.  A call of the    *)
(* session enters a level, leaves an inner one, or ends the outermost one  *)
(* by saving or by undoing; the properties of the contents follow.         *)

NestedStep == [Nested!Next]_(Nested!vars)

LEMMA BeginNests ==
    ASSUME SyncInv, NEW o \in Outcomes, SessionBegin(o), faults' = 0
    PROVE  NestedStep /\ saved' = saved
<1>1. o = "ok" /\ faults = 0
  BY FaultsAssumption DEF SyncInv, TypeOK, SessionBegin, Charge
<1>2. sess' = sess + 1 /\ UNCHANGED <<saved, data>>
  BY <1>1 DEF SyncInv, TypeOK, InSync, SessionBegin, SessionBeginSucceeds,
              ProviderBegin, ProviderBeginSucceeds, SqlBegin, Connected, store
<1> QED
  BY <1>2 DEF NestedStep, Nested!Next, Nested!Enter

LEMMA FinishNests ==
    ASSUME SyncInv, NEW o \in Outcomes, NEW a \in TransactionAction, SessionFinish(a, o),
           faults' = 0
    PROVE  /\ NestedStep
           /\ saved' # saved => sess = 1 /\ sess' = 0 /\ saved' = data
<1>1. PICK kept \in {saved, data} : SessionEnd(o, ProviderEnd(o, kept, kept))
  BY DEF SessionFinish, SessionCommit, SessionRollback, ProviderCommit, ProviderRollback
<1>2. o = "ok" /\ faults = 0
  BY <1>1, FaultsAssumption DEF SyncInv, TypeOK, SessionEnd, Charge
<1>3. CASE sess = 0
  <2>1. UNCHANGED <<sess, saved, data>>
    BY <1>1, <1>3 DEF SessionEnd, SessionEndSucceeds, store
  <2> QED
    BY <2>1 DEF NestedStep, Nested!vars
<1>4. CASE sess = 1
  <2>1. conn = "tx" /\ prov = 1
    BY <1>2, <1>4 DEF SyncInv, InSync
  <2>2. sess' = 0 /\ saved' = kept /\ data' = kept
    BY <1>1, <1>2, <1>4, <2>1 DEF SessionEnd, SessionEndSucceeds, ProviderEndSucceeds,
                                  ProviderEnd, SqlEnd, Connected
  <2> QED
    BY <1>4, <2>2 DEF NestedStep, Nested!Next, Nested!Save, Nested!Undo
<1>5. CASE sess > 1
  <2>1. sess' = sess - 1 /\ UNCHANGED <<saved, data>>
    BY <1>1, <1>5 DEF SyncInv, TypeOK, SessionEnd, SessionEndSucceeds, store
  <2> QED
    BY <1>5, <2>1 DEF NestedStep, Nested!Next, Nested!LeaveInner
<1> QED
  BY <1>3, <1>4, <1>5, DepthAssumption DEF SyncInv, TypeOK

LEMMA AbortNests == SyncInv /\ faults = 0 /\ Abort => NestedStep /\ saved' = saved
<1> SUFFICES ASSUME SyncInv, faults = 0, Abort PROVE NestedStep /\ saved' = saved
  OBVIOUS
<1>1. CASE sess > 0
  BY <1>1 DEF Abort, NestedStep, Nested!Next, Nested!Undo
<1>2. CASE sess = 0
  BY <1>2 DEF SyncInv, InSync, NothingPending, Abort, NestedStep, Nested!vars
<1> QED
  BY <1>1, <1>2, DepthAssumption DEF SyncInv, TypeOK

SavedStep == sess > 0 /\ saved' # saved => sess = 1 /\ sess' = 0 /\ saved' = data

LEMMA NextNests ==
    ASSUME SyncInv, faults = 0, faults' = 0, [Next]_vars
    PROVE  NestedStep /\ SavedStep
<1>1. ASSUME UNCHANGED <<sess, saved, data>> PROVE NestedStep /\ SavedStep
  BY <1>1 DEF NestedStep, SavedStep, Nested!vars
<1>2. ASSUME NEW o \in Outcomes, SessionBegin(o) PROVE NestedStep /\ SavedStep
  BY <1>2, BeginNests DEF SavedStep
<1>3. ASSUME NEW o \in Outcomes, NEW a \in TransactionAction, SessionFinish(a, o)
      PROVE  NestedStep /\ SavedStep
  BY <1>3, FinishNests DEF SavedStep
<1>4. ASSUME Abort PROVE NestedStep /\ SavedStep
  BY <1>4, AbortNests DEF SavedStep
<1>5. ASSUME NEW t \in Tokens, TokenNext(t) PROVE NestedStep /\ SavedStep
  <2>1. token[t].action \in TransactionAction
    BY DEF SyncInv, TypeOK, TokenState
  <2>2. CASE \E o \in Outcomes : \/ \E a \in TransactionAction : \/ DeclareRequire(t, a, o)
                                                               \/ TokenFinish(t, a, o)
                                 \/ DestroyEngaged(t, o)
    BY <1>2, <1>3, <2>1, <2>2 DEF DeclareRequire, TokenFinish, DestroyEngaged
  <2>3. CASE \E a \in TransactionAction : DeclareSupport(t, a) \/ DeclareDontSupport(t, a)
    BY <1>1, <1>4, <2>3 DEF DeclareSupport, DeclareDontSupport, store
  <2>4. CASE \/ TokenDisengage(t) \/ DestroyDisengaged(t) \/ DestroyMoved(t)
             \/ TokenEndFatal(t) \/ \E u \in Tokens : MoveAssign(t, u)
    BY <1>1, <1>4, <2>4 DEF TokenDisengage, DestroyDisengaged, DestroyMoved, TokenEndFatal,
                            RereadFails, MoveAssign, store
  <2> QED
    BY <1>5, <2>2, <2>3, <2>4 DEF TokenNext
<1>6. ASSUME NEW o \in Outcomes, NEW d \in Data, Write(d, o) PROVE NestedStep /\ SavedStep
  <2>1. o = "ok"
    BY <1>6 DEF Write, Charge
  <2>2. data' = d /\ sess' = sess /\ saved' = IF sess = 0 THEN d ELSE saved
    BY <1>6, <2>1, DepthAssumption DEF SyncInv, TypeOK, InSync, Write, Connected
  <2> QED
    BY <2>2, DepthAssumption
       DEF SyncInv, TypeOK, SavedStep, NestedStep, Nested!Next, Nested!Write
<1>7. ASSUME NEW k \in BOOLEAN, CloseSession(k) PROVE NestedStep /\ SavedStep
  <2>1. sess = 0
    BY <1>7, DepthAssumption DEF SyncInv, TypeOK, CloseSession
  <2>2. UNCHANGED <<sess, saved, data>>
    BY <1>7, <2>1 DEF SyncInv, InSync, NothingPending, CloseSession
  <2> QED
    BY <1>1, <2>2
<1>8. CASE \E o \in Outcomes : \/ BeginTransaction(o) \/ DeclareRequireFatal(o)
                               \/ \E a \in TransactionAction : FinishTransaction(a, o)
  BY <1>2, <1>3, <1>4, <1>8 DEF BeginTransaction, DeclareRequireFatal, FinishTransaction
<1>9. CASE Abort \/ RollbackTransactionFatal
  BY <1>4, <1>9 DEF RollbackTransactionFatal, RereadFails
<1>10. CASE UNCHANGED vars
  BY <1>1, <1>10 DEF vars
<1> QED
  BY <1>5, <1>6, <1>7, <1>8, <1>9, <1>10 DEF Next

\* Failures of a process are forgotten only with the process.
LEMMA FaultsNeverForgotten ==
    ASSUME TypeOK, [Next]_vars, ~Abort, faults' = 0
    PROVE  faults = 0
<1>1. ASSUME NEW o \in Outcomes, Charge(o) PROVE faults = 0
  BY <1>1, FaultsAssumption DEF TypeOK, Charge
<1>2. ASSUME NEW t \in Tokens, TokenNext(t) PROVE faults = 0
  BY <1>1, <1>2
     DEF TokenNext, DeclareRequire, SessionBegin, TokenFinish, DestroyEngaged, SessionFinish,
         SessionCommit, SessionRollback, SessionEnd, DeclareSupport, DeclareDontSupport,
         TokenDisengage, DestroyDisengaged, DestroyMoved, TokenEndFatal, RereadFails, MoveAssign
<1>3. CASE \E o \in Outcomes : \/ BeginTransaction(o)
                               \/ \E a \in TransactionAction : FinishTransaction(a, o)
                               \/ \E d \in Data : Write(d, o)
  BY <1>1, <1>3 DEF BeginTransaction, SessionBegin, FinishTransaction, SessionFinish,
                    SessionCommit, SessionRollback, SessionEnd, Write
<1>4. ASSUME NEW k \in BOOLEAN, CloseSession(k) PROVE faults = 0
  BY <1>4, FaultsAssumption DEF TypeOK, CloseSession
<1>5. CASE UNCHANGED vars
  BY <1>5 DEF vars
<1> QED
  BY <1>2, <1>3, <1>4, <1>5 DEF Next, RollbackTransactionFatal, DeclareRequireFatal, RereadFails

\* While a level is open and nothing fails, only the commit of the outermost
\* level changes what survives a crash: SQLite's transaction spans exactly the
\* session's levels (qormsession.cpp:382-416).
THEOREM OnlyOutermostCommitSaves == Spec => SavedByOutermostCommit
<1>1. SyncInv /\ SyncInv' /\ [Next]_vars
        => [faults' = 0 /\ sess > 0 /\ saved' # saved
             => sess = 1 /\ sess' = 0 /\ saved' = data]_vars
  <2> SUFFICES ASSUME SyncInv, [Next]_vars, faults' = 0, sess > 0, saved' # saved
               PROVE  sess = 1 /\ sess' = 0 /\ saved' = data
    OBVIOUS
  <2>1. faults = 0
    BY FaultsNeverForgotten DEF SyncInv, TypeOK, Abort
  <2> QED
    BY <2>1, NextNests DEF SavedStep
<1> QED
  BY <1>1, SyncInvariant, PTL DEF Spec, SavedByOutermostCommit

\* On a backend that does not fail, the session, the provider and the tokens
\* together implement nested levels over one transaction.
THEOREM NestingImplemented ==
    ASSUME MaxFaults = 0
    PROVE  Spec => ImplementsNested
<1>1. Init => Nested!Init
  BY DEF Init, Nested!Init
<1>2. SyncInv /\ SyncInv' /\ [Next]_vars => NestedStep
  <2>1. SyncInv => faults = 0
    BY DEF SyncInv, TypeOK
  <2>2. SyncInv' => faults' = 0
    BY DEF SyncInv, TypeOK
  <2> QED
    BY <2>1, <2>2, NextNests
<1> QED
  BY <1>1, <1>2, SyncInvariant, PTL DEF Spec, ImplementsNested, Nested!Spec, NestedStep

-----------------------------------------------------------------------------
(* Rolling back.                                                           *)

\* The destructor of a token that is to roll back.
LEMMA RollbackSavesNothing ==
    ASSUME SyncInv, NEW o \in Outcomes, SessionRollback(o)
    PROVE  saved' = saved /\ (sess = 1 /\ faults' = 0 => data' = saved)
<1>1. saved' = saved
  BY DEF SessionRollback, SessionEnd, ProviderRollback, ProviderEnd, store
<1>2. ASSUME sess = 1, faults' = 0 PROVE data' = saved
  <2>1. o = "ok" /\ faults = 0
    BY <1>2, FaultsAssumption DEF SyncInv, TypeOK, SessionRollback, SessionEnd, Charge
  <2>2. conn = "tx" /\ prov = 1
    BY <1>2, <2>1 DEF SyncInv, InSync
  <2>3. ProviderRollback(o)
    BY <1>2 DEF SessionRollback, SessionEnd
  <2>4. QED
    BY <2>1, <2>2, <2>3 DEF ProviderRollback, ProviderEnd, SqlEnd, Connected
<1>3. QED
  BY <1>1, <1>2

\* A token in the state of one that is not declared is in phase "none".
LEMMA TokensGo ==
    ASSUME TypeOK, NEW t \in Tokens, token[t].phase = "engaged", token'[t] = NoToken, ~Abort,
           [Next]_vars
    PROVE  \E o \in Outcomes : DestroyEngaged(t, o)
<1>1. NoToken.phase = "none" /\ token \in [Tokens -> TokenState]
  BY DEF NoToken, TypeOK
<1>2. token'[t] # token[t]
  BY <1>1
<1>3. ASSUME NEW u \in Tokens, TokenNext(u) PROVE \E o \in Outcomes : DestroyEngaged(t, o)
  <2>1. ASSUME NEW p, NEW a, Engage(u, p, a) PROVE FALSE
    BY <1>1, <1>2, <2>1 DEF Engage
  <2>2. ASSUME NEW p, p # "none", token' = [token EXCEPT ![u].phase = p] PROVE FALSE
    BY <1>1, <1>2, <2>2 DEF TokenState
  <2>3. ASSUME NEW v \in Tokens, MoveAssign(u, v) PROVE FALSE
    <3>1. /\ u # v /\ token[v].phase \in {"engaged", "disengaged"}
          /\ token' = [token EXCEPT ![u] = token[v], ![v].phase = "moved"]
      BY <2>3 DEF MoveAssign
    <3>2. t = u => token'[t] = token[v]
      BY <1>1, <3>1
    <3>3. t = v => token'[t].phase = "moved"
      BY <1>1, <3>1 DEF TokenState
    <3>4. t # u /\ t # v => token'[t] = token[t]
      BY <1>1, <3>1
    <3>5. QED
      BY <1>1, <1>2, <3>1, <3>2, <3>3, <3>4
  <2>4. ASSUME token' = [token EXCEPT ![u] = NoToken] PROVE u = t
    BY <1>1, <1>2, <2>4
  <2>5. ASSUME NEW o \in Outcomes,
               \/ \E a \in TransactionAction : DeclareRequire(u, a, o) \/ TokenFinish(u, a, o)
               \/ DestroyEngaged(u, o)
        PROVE  DestroyEngaged(t, o)
    BY <2>1, <2>2, <2>4, <2>5 DEF DeclareRequire, TokenFinish, DestroyEngaged
  <2>6. ASSUME \/ \E a \in TransactionAction : DeclareSupport(u, a) \/ DeclareDontSupport(u, a)
               \/ TokenDisengage(u)
        PROVE  FALSE
    BY <2>1, <2>2, <2>6 DEF DeclareSupport, DeclareDontSupport, TokenDisengage
  <2>7. ASSUME DestroyDisengaged(u) \/ DestroyMoved(u) \/ TokenEndFatal(u) PROVE FALSE
    BY <2>4, <2>7 DEF DestroyDisengaged, DestroyMoved, TokenEndFatal, RereadFails
  <2>8. QED
    BY <1>3, <2>3, <2>5, <2>6, <2>7 DEF TokenNext
<1>4. ASSUME UNCHANGED token PROVE FALSE
  BY <1>2, <1>4
<1>5. CASE ~\E u \in Tokens : TokenNext(u)
  BY <1>4, <1>5 DEF Next, BeginTransaction, FinishTransaction, DeclareRequireFatal, Write,
     RollbackTransactionFatal, RereadFails, CloseSession, vars
<1>6. QED
  BY <1>3, <1>5

\* Whatever has failed before, the destructor of a token that was to roll back
\* saves nothing; at the outermost level it takes back what was written, unless
\* a call has failed (qormtransactiontoken.cpp:49-58, qormsession.cpp:418-448).
THEOREM RollbacksUndo == Spec => RollbackUndoes
<1>1. SyncInv /\ [Next]_vars
        => [\A t \in Tokens :
              /\ token[t].phase = "engaged" /\ token[t].action = "Rollback"
              /\ token'[t] = NoToken
              => /\ saved' = saved
                 /\ sess = 1 /\ faults' = 0 => data' = saved]_vars
  <2> SUFFICES ASSUME SyncInv, [Next]_vars, NEW t \in Tokens,
                      token[t].phase = "engaged", token[t].action = "Rollback",
                      token'[t] = NoToken
               PROVE  saved' = saved /\ (sess = 1 /\ faults' = 0 => data' = saved)
    OBVIOUS
  <2>1. CASE Abort
    BY <2>1 DEF Abort
  <2>2. CASE ~Abort
    <3>1. PICK o \in Outcomes : DestroyEngaged(t, o)
      BY <2>2, TokensGo DEF SyncInv
    <3>2. SessionRollback(o)
      BY <3>1 DEF DestroyEngaged, SessionFinish
    <3>3. QED
      BY <3>2, RollbackSavesNothing
  <2>3. QED
    BY <2>1, <2>2
<1>2. QED
  BY <1>1, SyncInvariant, PTL DEF Spec, RollbackUndoes
=============================================================================
