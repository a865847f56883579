--------------------------- MODULE MCMetadataCache ---------------------------
(* Programs for MetadataCache: what the classes reference, and what the      *)
(* entries say.                                                              *)

EXTENDS MetadataCache, TLC

CONSTANTS A, B, C

MCWords == {"id", "name", "ref", "back", "many", "group", "true", "false"}

Plain(name) == [name |-> name, type |-> "value", target |-> NoClass,
                stored |-> TRUE, access |-> TRUE]
Pointer(name, c) == [Plain(name) EXCEPT !.type = "pointer", !.target = c]
List(name, c) == [Plain(name) EXCEPT !.type = "list", !.target = c, !.access = FALSE]

Class(props, entries) == [ctors |-> {"default"}, props |-> props, entries |-> entries]
Empty == Class(<<>>, <<>>)

\* Up to n references to the classes, after an object id or none.
References(n, classes) ==
    LET one == {<<>>} \cup {<<Pointer("ref", c)>> : c \in classes}
                      \cup {<<List("many", c)>> : c \in classes}
        refs == IF n = 1 THEN one ELSE {r \o s : r \in one, s \in one}
    IN  {Class(id \o r, <<>>) : id \in {<<>>, <<Plain("id")>>}, r \in refs}

\* Two classes with two references each, three with one each.
ReferencePrograms ==
    {[c \in Classes |-> IF c = C THEN Empty ELSE P[c]] :
        P \in [{A, B} -> References(2, {A, B})]}
    \cup [Classes -> References(1, Classes)]

Clauses ==
    {[key |-> "COLUMN", arg |-> a] : a \in {<<>>, <<"group">>}}
    \cup {[key |-> k, arg |-> a] : k \in {"IDENTITY", "TRANSIENT"}, a \in {<<>>, <<"false">>}}
    \cup {[key |-> "AUTOGENERATED", arg |-> a] : a \in {<<>>, <<"group">>}}
    \cup {[key |-> "NOT_NULL", arg |-> <<"false">>], [key |-> "FOREIGN_KEY", arg |-> <<>>]}
    \cup {[key |-> "UNIQUE", arg |-> a] : a \in {<<>>, <<"group">>}}

UpTo2(set) == {<<>>} \cup {<<x>> : x \in set} \cup {<<x, y>> : x \in set, y \in set}

\* A property of every kind with up to two clauses.
ClausePrograms ==
    LET props == {[name |-> n, type |-> t, target |-> IF t \in {"pointer", "list"} THEN B ELSE NoClass,
                   stored |-> s, access |-> a] :
                   n \in {"id", "name"}, t \in {"value", "enum", "pointer", "list"},
                   s \in BOOLEAN, a \in BOOLEAN}
        entry(p, cs) == [about |-> "property", name |-> <<p.name>>, clauses |-> cs]
    IN  {(A :> Class(<<p>>, <<entry(p, cs)>>)) @@ (B :> Class(<<Plain("id"), Pointer("back", A)>>, <<>>))
           @@ (C :> Empty) : p \in props, cs \in UpTo2(Clauses)}

\* Entries about the class, about unknown properties and repeated ones, and
\* constructors.
EntryPrograms ==
    LET class == [about : {"class"}, name : {<<>>, <<"name">>},
                  clauses : UpTo2([key : {"TABLE", "SCHEMA"}, arg : {<<>>, <<"group">>}])]
        property == [about : {"property"}, name : {<<"name">>, <<"ref">>, <<>>},
                     clauses : {<<>>, <<[key |-> "NOT_NULL", arg |-> <<>>]>>}]
    IN  {[c \in Classes |->
            IF c = A THEN [ctors |-> k, props |-> <<Plain("name")>>, entries |-> es] ELSE Empty] :
            k \in SUBSET {"default", "other"},
            es \in {<<e>> : e \in class} \cup UpTo2(property)
                   \cup {<<e, f>> : e \in {e \in class : Len(e.clauses) = 1},
                                    f \in {e \in class : Len(e.clauses) = 1}}}

MCPrograms == ReferencePrograms \cup ClausePrograms \cup EntryPrograms

=============================================================================
