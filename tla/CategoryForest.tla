--------------------------- MODULE CategoryForest ---------------------------
(***************************************************************************)
(* What the catalog promises of its categories, without locks, requests or *)
(* paths: a forest that changes by one category at a time, each change     *)
(* leaving every rule of the tree true, and products that keep the         *)
(* category they are in.  CategoryTree implements it.                      *)
(***************************************************************************)
EXTENDS Integers

CONSTANTS Ids, Names, CollationKey, Products, None, NoRow

VARIABLES nodes, products

forest == <<nodes, products>>

Node == [parent : Ids \cup {None}, name : Names]

Present(f) == {i \in Ids : f[i] # NoRow}

ParentsPresent(f) == \A i \in Present(f) : f[i].parent \in Present(f) \cup {None}

Acyclic(f) == \A S \in (SUBSET Present(f)) \ {{}} : \E c \in S : f[c].parent \notin S

SiblingsDiffer(f) ==
    \A i, j \in Present(f) :
        i # j /\ f[i].parent = f[j].parent
        => CollationKey[f[i].name] # CollationKey[f[j].name]

Legal(f) == ParentsPresent(f) /\ Acyclic(f) /\ SiblingsDiffer(f)

Init ==
    /\ nodes = [i \in Ids |-> NoRow]
    /\ products = [p \in Products |-> None]

\* A category is created, or renamed, moved or both.
Put(c, node) ==
    /\ nodes' = [nodes EXCEPT ![c] = node]
    /\ Legal(nodes')
    /\ UNCHANGED products

\* Only a category that nothing is in can be deleted.
Remove(c) ==
    /\ nodes[c] # NoRow
    /\ \A i \in Present(nodes) : nodes[i].parent # c
    /\ \A p \in Products : products[p] # c
    /\ nodes' = [nodes EXCEPT ![c] = NoRow]
    /\ UNCHANGED products

File(p, c) ==
    /\ c \in Present(nodes)
    /\ products' = [products EXCEPT ![p] = c]
    /\ UNCHANGED nodes

Take(p) ==
    /\ products' = [products EXCEPT ![p] = None]
    /\ UNCHANGED nodes

Next ==
    \/ \E c \in Ids : Remove(c) \/ \E node \in Node : Put(c, node)
    \/ \E p \in Products : Take(p) \/ \E c \in Ids : File(p, c)

Spec == Init /\ [][Next]_forest
=============================================================================
