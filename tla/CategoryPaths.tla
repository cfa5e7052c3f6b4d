--------------------------- MODULE CategoryPaths ---------------------------
(***************************************************************************)
(* Materialized paths of the category tree (src/catalog/models/category.py)*)
(*                                                                         *)
(* A path is kept as the sequence of the ids it names, top level first:    *)
(* the text "/1/5/" is <<1, 5>> and ROOT_PATH, "/", is <<>>.  Every id is  *)
(* followed by a separator in the text, so a text starts with another one  *)
(* exactly when the sequences are prefixes; module PathText renders the    *)
(* text and checks that, the lengths and the cut on it.                    *)
(***************************************************************************)
EXTENDS Naturals, Sequences, SequencesExt

\* The path of the top level, and of the ancestors of a top-level category.
ROOT_PATH == <<>>

\* Category.path: the category's ancestors followed by the category itself.
FullPath(ancestor_path, id) == Append(ancestor_path, id)

\* str.startswith in the cycle check and LIKE 'prefix%' in the queries.
StartsWith(path, prefix) == IsPrefix(prefix, path)

\* Mutant: Substr counted from 0.
RebaseFromZero(path, old_prefix, new_prefix) ==
    new_prefix \o SubSeq(path, Len(old_prefix), Len(path))

\* Mutant: the cut is counted from the id after the one it starts at.
RebaseOneFurther(path, old_prefix, new_prefix) ==
    new_prefix \o SubSeq(path, Len(old_prefix) + 2, Len(path))

\* Concat(Value(new_prefix), Substr("ancestor_path", len(old_prefix) + 1)).
Rebase(path, old_prefix, new_prefix) ==
    new_prefix \o SubSeq(path, Len(old_prefix) + 1, Len(path))

\* How many characters an id takes in the text of a path.
Digits[n \in Nat] == IF n < 10 THEN 1 ELSE 1 + Digits[n \div 10]

\* The length of the text: "/", and every id with the "/" that follows it.
PathLength(path) ==
    LET upTo[n \in 0 .. Len(path)] ==
            IF n = 0 THEN 1 ELSE upTo[n - 1] + Digits[path[n]] + 1
    IN  upTo[Len(path)]
=============================================================================
