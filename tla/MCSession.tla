----------------------------- MODULE MCSession -----------------------------
(***************************************************************************)
(* Instances of Session for TLC: which address holds which class, and      *)
(* which class references which.                                           *)
(***************************************************************************)
EXTENDS Session

CONSTANTS a1, b1, b2, A, B, v0, v1

\* A province (A) references a community (B).
MCClassOf == [o \in Objects |-> IF o = a1 THEN A ELSE B]
OneWay == [c \in Classes |-> IF c = A THEN B ELSE NoClass]

\* The two reference each other.
BothWays == [c \in Classes |-> IF c = A THEN B ELSE A]
=============================================================================
