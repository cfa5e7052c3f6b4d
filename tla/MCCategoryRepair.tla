-------------------------- MODULE MCCategoryRepair --------------------------
(***************************************************************************)
(* Instances of CategoryRepair for TLC.                                    *)
(***************************************************************************)
EXTENDS CategoryRepair, TLC

CONSTANTS dairy, milk

MCCollationKey == [n \in Names |-> n]

\* A path which names a category that is not there yet, or not above this one.
MCStrayPaths == {<<9>>}

NoStrayPaths == {}

NameSymmetry == Permutations(Names)
=============================================================================
