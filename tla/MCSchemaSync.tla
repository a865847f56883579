----------------------------- MODULE MCSchemaSync -----------------------------
(* Two classes that reference each other, one of them with a second column. *)

EXTENDS SchemaSync

CONSTANTS A, B, f, g

MCMapped == [c \in {A, B} |-> IF c = A THEN {f} ELSE {f, g}]
BothWays == [c \in {A, B} |-> {A, B} \ {c}]

=============================================================================
