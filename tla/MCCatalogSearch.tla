-------------------------- MODULE MCCatalogSearch --------------------------
(***************************************************************************)
(* An instance of CatalogSearch for TLC: three categories, which can form  *)
(* every tree, and queries that use each parameter, alone or with others.  *)
(***************************************************************************)
EXTENDS CatalogSearch, TLC

CONSTANTS food, dairy, drinks

MCCollationKey == [n \in Names |-> n]

\* The words of a query may be found in title and SKU together: product 3.
MCWordIn == {<<"oat", "Oat Milk">>, <<"milk", "Oat Milk">>, <<"oat", "OAT-1">>, <<"milk", "Milk">>}

MCSku == <<"M-1", "M-2", "OAT-1">>

MCProductRows ==
    {[category |-> 2, price |-> 0, title |-> "Oat Milk"],
     [category |-> 3, price |-> 1, title |-> "Milk"]}

MCNormalized == [raw \in {"oat-1"} |-> "OAT-1"]

Anything == [q |-> {}, sku |-> None, min_price |-> None, max_price |-> None,
             category |-> None, ordering |-> "price", page_size |-> None]

MCQueries ==
    {[Anything EXCEPT !.category = 1, !.q = {"oat", "milk"}],
     [Anything EXCEPT !.category = 2, !.ordering = "-price"],
     [Anything EXCEPT !.sku = "oat-1", !.min_price = 1],
     [Anything EXCEPT !.min_price = 0, !.max_price = 0, !.page_size = 9],
     [Anything EXCEPT !.min_price = 1, !.max_price = 0],
     [Anything EXCEPT !.q = {"oat", "milk", "tea"}]}

NameSymmetry == Permutations(Names)
=============================================================================
