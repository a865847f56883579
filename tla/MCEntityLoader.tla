--------------------------- MODULE MCEntityLoader ---------------------------
(***************************************************************************)
(* Instances of EntityLoader for TLC: the classes of a program and the     *)
(* contents of its tables.                                                 *)
(***************************************************************************)
EXTENDS EntityLoader

CONSTANTS A, B

Class(props, ref, list) == [props |-> props, ref |-> ref, list |-> list]
Program(a, b) == [c \in Classes |-> IF c = A THEN a ELSE b]

\* Provinces (A) list their communities (B); or they have a capital, too; or the
\* community also lists the provinces it is the capital of.
Listing == Program(Class(<<"list", "value">>, NoClass, B), Class(<<"value", "ref">>, A, NoClass))
Capital == Program(Class(<<"value", "ref", "list">>, B, B), Class(<<"ref", "value">>, A, NoClass))
Mutual == Program(Class(<<"ref", "value", "list">>, B, B), Class(<<"ref", "list", "value">>, A, A))
MCShapes == {Listing, Capital, Mutual}

\* Every table of at most three rows, two where both classes list each other, and
\* one province where it has a capital; a class without a reference has no such
\* column, a second row follows a first and does not reference a lower one.
MCTablesOf(s) ==
    {t \in Tables :
        /\ Cardinality({k \in Keys : t[k] # NoRow}) <= IF s = Mutual THEN 2 ELSE 3
        /\ \A c \in Classes :
               /\ t[<<c, 2>>] # NoRow => t[<<c, 1>>] # NoRow /\ <<s, c>> # <<Capital, A>>
               /\ t[<<c, 2>>] # NoRow => t[<<c, 1>>].ref <= t[<<c, 2>>].ref
               /\ s[c].ref = NoClass => \A i \in 1..MaxId :
                                           t[<<c, i>>] # NoRow => t[<<c, i>>].ref = SqlNull}
=============================================================================
