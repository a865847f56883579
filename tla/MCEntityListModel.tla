------------------------- MODULE MCEntityListModel -------------------------
(***************************************************************************)
(* An instance of EntityListModel for TLC.                                 *)
(***************************************************************************)
EXTENDS EntityListModel

CONSTANTS NumProvinces, NumCommunities

MCMaxInstances == [m \in Models |-> IF m = "province" THEN NumProvinces ELSE NumCommunities]

\* All communities, or those of the first province, also from the last to the first.
MCCriteria == {<<NoInstance, "ascending">>} \cup ({<<"province", 1>>} \X {"ascending", "descending"})
=============================================================================
