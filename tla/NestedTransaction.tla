------------------------- MODULE NestedTransaction -------------------------
(***************************************************************************)
(* What QOrmSession promises about transactions: nested levels over one    *)
(* transaction of the store.  Levels are flat: only the outermost one      *)
(* decides, an inner commit and an inner rollback alike just leave a level. *)
(***************************************************************************)
EXTENDS Naturals

CONSTANTS Data      \* the contents the store can have

VARIABLES
    depth,          \* open levels
    saved,          \* contents that survive a crash
    data            \* contents the session sees

vars == <<depth, saved, data>>

Init == depth = 0 /\ saved \in Data /\ data = saved

Enter == depth' = depth + 1 /\ UNCHANGED <<saved, data>>

LeaveInner == depth > 1 /\ depth' = depth - 1 /\ UNCHANGED <<saved, data>>

\* Several levels may end together: the program dies, or its session does.
Save == depth = 1 /\ depth' = 0 /\ saved' = data /\ UNCHANGED data

Undo == depth > 0 /\ depth' = 0 /\ data' = saved /\ UNCHANGED saved

Write == /\ data' \in Data
         /\ saved' = IF depth = 0 THEN data' ELSE saved
         /\ UNCHANGED depth

Next == Enter \/ LeaveInner \/ Save \/ Undo \/ Write

Spec == Init /\ [][Next]_vars
=============================================================================
