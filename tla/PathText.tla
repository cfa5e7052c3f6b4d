------------------------------ MODULE PathText ------------------------------
(***************************************************************************)
(* The text of a materialized path, character by character, against the    *)
(* sequence of ids CategoryPaths keeps of it: the length checks, the       *)
(* prefix matches and the cut of a move work on the text.  The state is    *)
(* three paths, grown id by id.                                            *)
(***************************************************************************)
EXTENDS Naturals, Sequences, CategoryPaths

CONSTANTS PathIds,      \* the ids a path may name
          MaxDepth      \* bound: how many of them

ASSUME PathIdsAssumption == PathIds \subseteq Nat \ {0} /\ MaxDepth \in Nat

VARIABLES path, prefix, new

vars == <<path, prefix, new>>

SEPARATOR == "/"

DigitText == <<"0", "1", "2", "3", "4", "5", "6", "7", "8", "9">>

IdText[n \in Nat] ==
    (IF n < 10 THEN <<>> ELSE IdText[n \div 10]) \o <<DigitText[(n % 10) + 1]>>

\* Mutant: ids are separated, and the last one is not closed.
TextUnclosed(p) ==
    FlattenSeq([i \in DOMAIN p |-> <<SEPARATOR>> \o IdText[p[i]]])

\* Category.path: "/", then every id with a "/" behind it.
Text(p) == <<SEPARATOR>> \o FlattenSeq([i \in DOMAIN p |-> IdText[p[i]] \o <<SEPARATOR>>])

Init == path = <<>> /\ prefix = <<>> /\ new = <<>>

Grow(p) == Len(p) < MaxDepth /\ \E id \in PathIds : p' = FullPath(p, id)

Next ==
    \/ Grow(path)   /\ UNCHANGED <<prefix, new>>
    \/ Grow(prefix) /\ UNCHANGED <<path, new>>
    \/ Grow(new)    /\ UNCHANGED <<path, prefix>>

Spec == Init /\ [][Next]_vars

-----------------------------------------------------------------------------
\* Len() of the text, which the length checks compare with PATH_MAX_LENGTH.
LengthAgrees == Len(Text(path)) = PathLength(path)

\* startswith() and LIKE on the text find descendants and nothing else: "/1/5/"
\* is no prefix of "/1/50/", at any depth and however many digits ids have.
PrefixAgrees == IsPrefix(Text(prefix), Text(path)) <=> StartsWith(path, prefix)

\* Concat and Substr on the text of a path under old_prefix give the text of the
\* path re-rooted under the new one.
CutAgrees ==
    StartsWith(path, prefix) =>
        Text(Rebase(path, prefix, new)) =
            Text(new) \o SubSeq(Text(path), Len(Text(prefix)) + 1, Len(Text(path)))
=============================================================================
