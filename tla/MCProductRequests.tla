------------------------- MODULE MCProductRequests -------------------------
(***************************************************************************)
(* Instances of ProductRequests for TLC.                                   *)
(***************************************************************************)
EXTENDS ProductRequests, TLC

\* Requests, SKUs and titles are told apart by nothing but their names.
Symmetry == Permutations(Requests) \cup Permutations(Skus) \cup Permutations(Titles)

\* One editor per product and nothing lost; many of them, and crashes.
Careful == [one_editor |-> TRUE, put_keeps_image |-> TRUE, crashes |-> FALSE]
Racing  == [one_editor |-> FALSE, put_keeps_image |-> FALSE, crashes |-> FALSE]
Wild    == [Racing EXCEPT !.crashes = TRUE]

CarefulOrWild == {Careful, Wild}
OnlyRacing    == {Racing}

\* No action reads an earlier answer.
WithoutAnswers == <<setting, storage, table, pc, call, instance, before>>
=============================================================================
