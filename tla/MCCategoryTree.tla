--------------------------- MODULE MCCategoryTree ---------------------------
(***************************************************************************)
(* Instances of CategoryTree for TLC.  Ids 8, 9, 10 take one, one and two  *)
(* characters, so whether a path fits depends on which ids it names; the   *)
(* names dairy and DAIRY are one name to the collation.                    *)
(***************************************************************************)
EXTENDS CategoryTree, TLC

CONSTANTS dairy, DAIRY, milk

MCCollationKey == [n \in Names |-> IF n = DAIRY THEN dairy ELSE n]

RequestSymmetry == Permutations(Requests)

\* No action reads an earlier answer, so states that differ in it alone are one.
WithoutAnswers == <<tables, pc, call, object, oldPrefix, held, pending>>
=============================================================================
