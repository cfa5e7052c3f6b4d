--------------------------- MODULE MCSeedCatalog ---------------------------
(***************************************************************************)
(* An instance of SeedCatalog for TLC: one category under another and one  *)
(* product in it, next to one API request at a time.                       *)
(***************************************************************************)
EXTENDS SeedCatalog

CONSTANTS food, milk, oat

Keys == [n \in Names |-> n]

Categories == <<[name |-> food, under |-> 0], [name |-> milk, under |-> 1]>>
Assortment == <<[sku |-> oat, category |-> 2]>>
\* No action reads an earlier answer.
WithoutAnswers == <<tables, pc, call, object, oldPrefix, held, pending, progress>>
=============================================================================
