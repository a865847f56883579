---------------------------- MODULE MetadataCache ----------------------------
(* QOrmMetadataCache: how the mapping of an entity class is built from its   *)
(* properties and from its Q_ORM_CLASS() and Q_ORM_PROPERTY() entries when   *)
(* the class is first asked for, together with all classes it references,    *)
(* and how the references are validated (qormmetadatacache.cpp).             *)
(*                                                                           *)
(* The moc keeps the entries as text without white space.  Here the text is  *)
(* a sequence whose elements are keywords or words; that no word contains a  *)
(* keyword is what README.md:253 asks for.                                   *)

EXTENDS Integers, Sequences, FiniteSets

CONSTANTS
    Classes,    \* the entity classes
    Programs,   \* what they may look like: a set of [Classes -> Declaration]
    Words,      \* names of properties and columns, and other arguments
    NoClass

ClassKeywords == {"TABLE", "SCHEMA"}
PropertyKeywords == {"COLUMN", "IDENTITY", "TRANSIENT", "AUTOGENERATED", "NOT_NULL",
                     "FOREIGN_KEY", "UNIQUE"}
Keywords == ClassKeywords \cup PropertyKeywords

\* A clause of an entry is a keyword with its arguments; an entry about a
\* property begins with its name.
Clause(keywords) == [key : keywords, arg : Seq(Words)]
Entry == [about : {"class"}, name : Seq(Words), clauses : Seq(Clause(ClassKeywords))]
         \cup [about : {"property"}, name : Seq(Words), clauses : Seq(Clause(PropertyKeywords))]

\* "access": it has READ, WRITE and NOTIFY.  A type below QMetaType::User, which
\* is also what an unregistered one has, is a "value"; "enum" stands for every
\* other type that is not an entity.
Property == [name : Words, type : {"value", "enum"}, target : {NoClass},
             stored : BOOLEAN, access : BOOLEAN]
            \cup [name : Words, type : {"pointer", "list"}, target : Classes,
                  stored : BOOLEAN, access : BOOLEAN]

\* The invokable constructors, the properties that are not QObject's, and the
\* entries.
Declaration == [ctors : SUBSET {"default", "other"}, props : Seq(Property),
                entries : Seq(Entry)]

\* What stands for a property without UNIQUE.
NoGroup == <<"not", "unique">>

ASSUME ProgramsAssumption ==
    /\ IsFiniteSet(Classes) /\ NoClass \notin Classes
    /\ Keywords \cap Words = {} /\ NoGroup \notin Seq(Words)
    /\ \A P \in Programs : P \in [Classes -> Declaration]

VARIABLES
    decl,           \* the program
    text,           \* its entries as text
    cached,         \* the keys of m_cache
    mappings,       \* m_propertyMappings of each class
    info,           \* the entry about each class: m_tableName, m_userMetadata
    under,          \* m_underConstruction
    constructed,    \* m_constructed
    stack,          \* the running initialize() calls, innermost first
    dead,           \* the process has ended with qFatal()
    handed          \* history: the classes a client was given

vars == <<decl, text, cached, mappings, info, under, constructed, stack, dead, handed>>

Mapping == [name : Words, column : Seq(Words \cup {"_id"}), objectId : BOOLEAN,
            autogenerated : BOOLEAN, transient : BOOLEAN, notNull : BOOLEAN,
            foreignKey : BOOLEAN, unique : Seq(Words) \cup {NoGroup},
            ref : Classes \cup {NoClass}]

\* An empty "table" is the name of the class, an empty "schema" the mode of the
\* session.
ClassInfo == [table : Seq(Words), schema : Seq(Words)]

\* The type of the variables.
TypeOK ==
    /\ decl \in [Classes -> Declaration]
    /\ text \in [Classes -> Seq(Seq(Words \cup Keywords))]
    /\ cached \subseteq Classes /\ handed \subseteq Classes
    /\ under \subseteq Classes /\ constructed \subseteq Classes
    /\ mappings \in [Classes -> Seq(Mapping)]
    /\ info \in [Classes -> ClassInfo]
    /\ \A i \in 1..Len(stack) : stack[i] \in [cls : Classes, next : Nat]
    /\ dead \in BOOLEAN

\* What Q_CLASSINFO() leaves of an entry.
Written(e) ==
    LET from[i \in 0..Len(e.clauses)] ==
            IF i = 0 THEN e.name
            ELSE from[i - 1] \o <<e.clauses[i].key>> \o e.clauses[i].arg
    IN  from[Len(e.clauses)]

Init ==
    /\ decl \in Programs
    /\ text = [c \in Classes |-> [i \in 1..Len(decl[c].entries) |-> Written(decl[c].entries[i])]]
    /\ cached = {} /\ under = {} /\ constructed = {} /\ handed = {}
    /\ mappings = [c \in Classes |-> <<>>]
    /\ info = [c \in Classes |-> [table |-> <<>>, schema |-> <<>>]]
    /\ stack = <<>> /\ dead = FALSE

-----------------------------------------------------------------------------
(* What is read from the text of an entry.                                  *)

\* findNextKeyword(): a position, 0 for none.
NextKeyword(data, start, keywords) ==
    LET at == {i \in start..Len(data) : data[i] \in keywords}
    IN  IF at = {} THEN 0 ELSE CHOOSE i \in at : \A j \in at : i <= j

\* Mutant: one token too many.
ArgumentAndKeyword(data, pos, keywords) ==
    LET next == NextKeyword(data, pos + 1, keywords)
    IN  SubSeq(data, pos + 1, IF next = 0 THEN Len(data) ELSE next)

\* extractString(): the text up to the next keyword.
Argument(data, pos, keywords) ==
    LET next == NextKeyword(data, pos + 1, keywords)
    IN  SubSeq(data, pos + 1, IF next = 0 THEN Len(data) ELSE next - 1)

\* extractBoolean(): no argument stands for true.
IsBoolean(argument) == argument \in {<<>>, <<"true">>, <<"false">>}
Boolean(argument) == argument # <<"false">>

BadArgument(data, pos, keywords) ==
    LET argument == Argument(data, pos, keywords)
    IN  CASE data[pos] \in {"TABLE", "SCHEMA", "COLUMN"} -> argument = <<>>
          [] data[pos] = "UNIQUE" -> FALSE
          [] OTHER -> ~IsBoolean(argument)

Positions(data, keywords) == {i \in 1..Len(data) : data[i] \in keywords}

BadArguments(data, keywords) ==
    \E pos \in Positions(data, keywords) : BadArgument(data, pos, keywords)

\* extractClassInfo() ends the process.
BadClassEntry(data) ==
    NextKeyword(data, 1, ClassKeywords) # 1 \/ BadArguments(data, ClassKeywords)

\* Everything before the first keyword is the name of the property.
NameIn(data) == SubSeq(data, 1, NextKeyword(data, 1, PropertyKeywords) - 1)

\* extractPropertyInfo() ends the process.
BadPropertyEntry(data, props) ==
    \/ NextKeyword(data, 1, PropertyKeywords) = 0
    \/ ~\E i \in 1..Len(props) : <<props[i].name>> = NameIn(data)
    \/ BadArguments(data, PropertyKeywords)

Entries(c, about) == {i \in 1..Len(decl[c].entries) : decl[c].entries[i].about = about}
Text(c, i) == text[c][i]

\* The loop over classInfo() in initialize().
BadEntries(c) ==
    \/ Cardinality(Entries(c, "class")) > 1
    \/ \E i \in Entries(c, "class") : BadClassEntry(Text(c, i))
    \/ \E i \in Entries(c, "property") : BadPropertyEntry(Text(c, i), decl[c].props)
    \/ \E i, j \in Entries(c, "property") : i # j /\ NameIn(Text(c, i)) = NameIn(Text(c, j))

\* The user metadata of a property: the text of the entry about it.
UserText(c, p) ==
    LET about == {i \in Entries(c, "property") : NameIn(Text(c, i)) = <<p.name>>}
    IN  IF about = {} THEN <<>> ELSE Text(c, CHOOSE i \in about : TRUE)

Has(data, key) == \E i \in 1..Len(data) : data[i] = key

\* Mutant: the first occurrence stays.
FirstValueOf(data, key, keywords) ==
    Argument(data, NextKeyword(data, 1, {key}), keywords)

\* A keyword that is repeated replaces what it said before.
ValueOf(data, key, keywords) ==
    LET last == CHOOSE i \in 1..Len(data) :
                    data[i] = key /\ \A j \in i + 1..Len(data) : data[j] # key
    IN  Argument(data, last, keywords)

ClassInfoOf(c) ==
    LET about == Entries(c, "class")
        data == IF about = {} THEN <<>> ELSE Text(c, CHOOSE i \in about : TRUE)
        said(key) == IF Has(data, key) THEN ValueOf(data, key, ClassKeywords) ELSE <<>>
    IN  [table |-> said("TABLE"), schema |-> said("SCHEMA")]

-----------------------------------------------------------------------------
(* The mapping of a property.                                               *)

Flag(data, key, default) ==
    IF Has(data, key) THEN Boolean(ValueOf(data, key, PropertyKeywords)) ELSE default

Id == "id"

\* mappingDescriptor().  Of a property with a type of its own TRANSIENT and
\* STORED do not count: a list of entities is transient, others are not.
Descriptor(c, p) ==
    LET data == UserText(c, p)
        transient == IF p.type = "value" THEN Flag(data, "TRANSIENT", ~p.stored)
                     ELSE p.type = "list"
        column == IF Has(data, "COLUMN") THEN ValueOf(data, "COLUMN", PropertyKeywords) ELSE <<p.name>>
    IN  [name |-> p.name,
         column |-> CASE p.type = "list" -> <<>>
                      [] p.type = "pointer" /\ ~Has(data, "COLUMN") -> column \o <<"_id">>
                      [] OTHER -> column,
         objectId |-> Flag(data, "IDENTITY", p.name = Id),
         autogenerated |-> Flag(data, "AUTOGENERATED", p.name = Id),
         transient |-> transient,
         notNull |-> Flag(data, "NOT_NULL", FALSE),
         foreignKey |-> Flag(data, "FOREIGN_KEY", FALSE),
         unique |-> IF Has(data, "UNIQUE") THEN ValueOf(data, "UNIQUE", PropertyKeywords)
                    ELSE NoGroup,
         ref |-> IF p.type \in {"pointer", "list"} THEN p.target ELSE NoClass]

\* What initialize() refuses.
BadMapping(m, p) ==
    \/ ~m.transient /\ ~p.access
    \/ m.transient /\ m.objectId
    \/ m.autogenerated /\ ~m.objectId

MappingsOf(c) == {mappings[c][i] : i \in 1..Len(mappings[c])}

\* Mutant: a list needs no back reference.
NoBackReferenceNeeded(c, m) ==
    \/ m.ref = NoClass
    \/ m.transient
    \/ \E o \in MappingsOf(m.ref) : o.objectId

\* validateCrossReferences() of one mapping of the class.
ValidReference(c, m) ==
    \/ m.ref = NoClass
    \/ m.transient /\ \E back \in MappingsOf(m.ref) : back.ref = c
    \/ ~m.transient /\ \E o \in MappingsOf(m.ref) : o.objectId

CrossReferencesValid(classes) ==
    \A c \in classes : \A m \in MappingsOf(c) : ValidReference(c, m)

-----------------------------------------------------------------------------
(* The calls.                                                               *)

Die ==
    /\ dead' = TRUE
    /\ UNCHANGED <<decl, text, cached, mappings, info, under, constructed, stack, handed>>

\* Mutant: the class is cached once it is complete.
StartUncached(c) ==
    /\ under' = under \cup {c}
    /\ info' = [info EXCEPT ![c] = ClassInfoOf(c)]
    /\ stack' = <<[cls |-> c, next |-> 1]>> \o stack
    /\ UNCHANGED <<decl, text, cached, mappings, constructed, dead, handed>>

\* The class is cached before its properties are looked at, so that classes
\* can reference each other.
Start(c) ==
    /\ under' = under \cup {c}
    /\ cached' = cached \cup {c}
    /\ info' = [info EXCEPT ![c] = ClassInfoOf(c)]
    /\ stack' = <<[cls |-> c, next |-> 1]>> \o stack
    /\ UNCHANGED <<decl, text, mappings, constructed, dead, handed>>

\* validateConstructor(): each invokable constructor has to be a default one.
CanConstruct(c) == decl[c].ctors = {"default"}

\* The beginning of initialize().
Initialize(c) == IF ~CanConstruct(c) \/ BadEntries(c) THEN Die ELSE Start(c)

\* QOrmMetadataCache::operator[] of a class the client has not asked for yet.
Get(c) ==
    /\ stack = <<>> /\ ~dead /\ c \notin handed
    /\ IF c \in cached
       THEN /\ handed' = handed \cup {c}
            /\ UNCHANGED <<decl, text, cached, mappings, info, under, constructed, stack, dead>>
       ELSE Initialize(c)

Top == Head(stack)
Props(c) == decl[c].props

Mapped(c, m) ==
    /\ mappings' = [mappings EXCEPT ![c] = Append(@, m)]
    /\ stack' = [stack EXCEPT ![1].next = @ + 1]

\* Mutant: a transient property is skipped without going on to the next one.
SkipTransient(c, m) == IF m.transient THEN UNCHANGED <<mappings, stack>> ELSE Mapped(c, m)

AddMapping(c, m) == Mapped(c, m)

\* One round of the loop over the properties.  The class a property references
\* is initialized first.
MapProperty ==
    /\ stack # <<>> /\ ~dead /\ Top.next <= Len(Props(Top.cls))
    /\ \E c \in {Top.cls}, p \in {Props(Top.cls)[Top.next]} :
       \E m \in {Descriptor(c, p)} :
          \/ /\ p.type \in {"pointer", "list"} /\ p.target \notin cached
             /\ Initialize(p.target)
          \/ /\ p.type \in {"value", "enum"} \/ p.target \in cached
             /\ IF BadMapping(m, p) THEN Die
                ELSE /\ AddMapping(c, m)
                     /\ UNCHANGED <<decl, text, cached, info, under, constructed, dead, handed>>

\* Mutant: every initialize() validates, also inside another one.
ValidateEagerly(open, done) == ~CrossReferencesValid(done)

\* Mutant: the validation is left to whoever asks for the class again.
ValidateNever(open, done) == FALSE

\* References are looked at once nothing is under construction any more.
Refused(open, done) == open = {} /\ ~CrossReferencesValid(done)

\* The end of initialize().
Finish ==
    /\ stack # <<>> /\ ~dead /\ Top.next > Len(Props(Top.cls))
    /\ LET c == Top.cls
           open == under \ {c}
           done == constructed \cup {c}
       IN  /\ under' = open /\ constructed' = done
           /\ stack' = Tail(stack)
           /\ dead' = Refused(open, done)
           /\ handed' = IF Len(stack) = 1 /\ ~Refused(open, done) THEN handed \cup {c}
                        ELSE handed
    /\ UNCHANGED <<decl, text, cached, mappings, info>>

Step == MapProperty \/ Finish

Next == (\E c \in Classes : Get(c)) \/ Step

\* initialize() is synchronous and goes on to its end.
Spec == Init /\ [][Next]_vars /\ WF_vars(Step)

-----------------------------------------------------------------------------
(* What the declarations mean, clause by clause (README.md:236-254).        *)

\* The arguments of the clauses with the keyword in the entries about a
\* property, or about the class if the name is empty.
Said(c, about, name, key) ==
    LET said(e) == {i \in 1..Len(e.clauses) : e.clauses[i].key = key}
        last(e) == e.clauses[CHOOSE i \in said(e) : \A j \in said(e) : j <= i].arg
        es == {decl[c].entries[i] : i \in Entries(c, about)}
    IN  {last(e) : e \in {e \in es : e.name = name /\ said(e) # {}}}

IsSet(c, p, key, default) ==
    IF Said(c, "property", <<p.name>>, key) = {} THEN default
    ELSE Said(c, "property", <<p.name>>, key) # {<<"false">>}

\* A list is never stored; of the other properties only one of a built-in type
\* can be told not to be.
IsStored(c, p) ==
    /\ p.type # "list"
    /\ p.type = "value" => ~IsSet(c, p, "TRANSIENT", ~p.stored)

IsObjectId(c, p) == IsSet(c, p, "IDENTITY", p.name = Id)
PropertiesOf(c) == {decl[c].props[i] : i \in 1..Len(decl[c].props)}
IsReference(p) == p.type \in {"pointer", "list"}

\* The rules of README.md:146, 246-252 and 274.
BreaksRule(c) ==
    \/ ~CanConstruct(c)
    \/ \E i \in 1..Len(decl[c].entries) :
          LET e == decl[c].entries[i]
          IN  \/ e.clauses = <<>>
              \/ e.about = "class" /\ e.name # <<>>
              \/ e.about = "property" /\ ~\E p \in PropertiesOf(c) : e.name = <<p.name>>
              \/ \E j \in 1..Len(decl[c].entries) :
                    i # j /\ e.about = decl[c].entries[j].about /\ e.name = decl[c].entries[j].name
              \/ \E j \in 1..Len(e.clauses) :
                    LET k == e.clauses[j]
                    IN  \/ k.key \in {"TABLE", "SCHEMA", "COLUMN"} /\ k.arg = <<>>
                        \/ k.key \notin {"TABLE", "SCHEMA", "COLUMN", "UNIQUE"} /\ ~IsBoolean(k.arg)
    \/ \E p \in PropertiesOf(c) :
          \/ IsStored(c, p) /\ ~p.access
          \/ ~IsStored(c, p) /\ IsObjectId(c, p)
          \/ ~IsObjectId(c, p) /\ IsSet(c, p, "AUTOGENERATED", p.name = Id)
          \/ p.type = "list" /\ ~\E q \in PropertiesOf(p.target) : IsReference(q) /\ q.target = c
          \/ p.type = "pointer" /\ ~\E q \in PropertiesOf(p.target) : IsObjectId(p.target, q)

\* What the classes in the set reference, directly or not.
Reachable(classes) ==
    LET targets(from) == {p.target : p \in {p \in UNION {PropertiesOf(c) : c \in from} :
                                            IsReference(p)}}
        within[n \in 0..Cardinality(Classes)] ==
            IF n = 0 THEN classes ELSE within[n - 1] \cup targets(within[n - 1])
    IN  within[Cardinality(Classes)]

-----------------------------------------------------------------------------
(* Properties.                                                              *)

\* A class that a client was given, and every class it references over any
\* number of references, is completely mapped and keeps the rules: a list has
\* its back reference, a referenced class its object id.  validateCrossReferences()
\* runs only when nothing is under construction, over what was constructed.
HandedOutConsistent ==
    stack = <<>> /\ ~dead =>
        \A c \in Reachable(handed) :
            c \in constructed /\ Len(mappings[c]) = Len(decl[c].props) /\ ~BreaksRule(c)

\* The order in which classes are asked for, and the detours over the classes
\* they reference, leave no trace: as many properties as a class has been mapped
\* so far, each means what the clauses about it say, whichever clauses stand
\* before and after them in the text of the entry.
MappedAsDeclared ==
    \A c \in cached :
        /\ (IF info[c].table = <<>> THEN {} ELSE {info[c].table}) = Said(c, "class", <<>>, "TABLE")
        /\ (IF info[c].schema = <<>> THEN {} ELSE {info[c].schema}) = Said(c, "class", <<>>, "SCHEMA")
        /\ \A i \in 1..Len(mappings[c]) :
            LET p == decl[c].props[i]
                m == mappings[c][i]
                said(key) == Said(c, "property", <<p.name>>, key)
            IN  /\ m.name = p.name
                /\ IsStored(c, p) /\ said("COLUMN") # {} => {m.column} = said("COLUMN")
                /\ m.transient = ~IsStored(c, p)
                /\ m.objectId = IsObjectId(c, p)
                /\ m.autogenerated = IsSet(c, p, "AUTOGENERATED", p.name = Id)
                /\ m.notNull = IsSet(c, p, "NOT_NULL", FALSE)
                /\ m.foreignKey = IsSet(c, p, "FOREIGN_KEY", FALSE)
                /\ (IF m.unique = NoGroup THEN {} ELSE {m.unique}) = said("UNIQUE")
                /\ m.ref # NoClass => m.ref = p.target /\ m.ref \in cached

\* What a client is given is what the program declares: every class it can reach
\* from there is complete and keeps the rules, and each mapping means what its
\* entry says, in whichever order the classes were asked for
\* (qormmetadatacache.cpp:405-560).
HandedOutAsDeclared == HandedOutConsistent /\ MappedAsDeclared

\* The process ends only if a class breaks a rule; in particular not because a
\* class is validated while what it references is still half built.
DiesForAReason == dead => \E c \in Classes : BreaksRule(c)

\* operator[] returns or ends the process, also when references form a cycle.
GetReturns == (stack # <<>>) ~> (stack = <<>> \/ dead)

=============================================================================
