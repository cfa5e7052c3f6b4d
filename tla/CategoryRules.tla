--------------------------- MODULE CategoryRules ---------------------------
(***************************************************************************)
(* The rules of the category tree: what the category service computes from *)
(* a category table, whoever else is at work on it.  A table is a function *)
(* from Ids to rows; CategoryTree and CategoryRepair apply the rules to    *)
(* the table as their transactions see it.                                 *)
(***************************************************************************)
EXTENDS Integers, Sequences, FiniteSets, CategoryPaths

CONSTANTS
    FirstId, LastId,    \* the ids AUTO_INCREMENT may give, in this order
    Names,              \* category names, as the serializer trims them
    CollationKey,       \* what the column's collation compares of a name
    PathMax,            \* PATH_MAX_LENGTH
    None,               \* Python's None: no parent, no category, no id
    Unchanged,          \* the UNCHANGED marker: an argument that was not given
    NoRow,              \* no such row (or no such object)
    Untouched           \* a row that a statement or transaction has not written

Ids  == FirstId .. LastId
Row  == [parent : Ids \cup {None}, name : Names, ancestor_path : Seq(Ids)]

ASSUME IdsAssumption == FirstId \in Nat \ {0} /\ LastId \in Nat /\ FirstId <= LastId
ASSUME NamesAssumption == DOMAIN CollationKey = Names
ASSUME PathMaxAssumption == PathMax \in Nat
ASSUME MarkersAssumption ==
    /\ None \notin Ids \cup Names
    /\ Unchanged \notin Ids \cup Names \cup {None}
    /\ NoRow \notin Row
    /\ Untouched \notin Row /\ Untouched # NoRow

-----------------------------------------------------------------------------
(* Reading a table.                                                         *)

Existing(table) == {i \in Ids : table[i] # NoRow}

AncestorPathUnder(table, parent) ==
    IF parent = None THEN ROOT_PATH ELSE FullPath(table[parent].ancestor_path, parent)

\* descendants_of and under_path: a prefix match on the stored path.
UnderPath(table, prefix) ==
    {i \in Existing(table) : StartsWith(table[i].ancestor_path, prefix)}

Children(table, c) == {i \in Existing(table) : table[i].parent = c}

PathOf(table, c) == FullPath(table[c].ancestor_path, c)

\* Mutant: a column that compares names byte by byte.
IndexKeyBinary(row) == <<row.ancestor_path, row.name>>

\* What UNIQUE (ancestor_path, name) compares.
IndexKey(row) == <<row.ancestor_path, CollationKey[row.name]>>

PathFits(path) == PathLength(path) <= PathMax

\* _ensure_name_is_free: `ignore` is a category, or None.
NameIsFree(table, row, ignore) ==
    \A i \in Existing(table) \ {ignore} : IndexKey(table[i]) # IndexKey(row)

\* A re-read raises DoesNotExist when the row is gone.
Gone(table, id) == id \in Ids /\ table[id] = NoRow

\* A table whose stored paths agree with the parent links.
TableAgrees(table) ==
    \A i \in Existing(table) :
        /\ ~Gone(table, table[i].parent)
        /\ table[i].ancestor_path = AncestorPathUnder(table, table[i].parent)

-----------------------------------------------------------------------------
(* Writing one: what a statement or a transaction has written over it.      *)

NoWrites == [i \in Ids |-> Untouched]

Written(table, writes) ==
    [i \in Ids |-> IF writes[i] = Untouched THEN table[i] ELSE writes[i]]

Stored(writes) == {i \in Ids : writes[i] \notin {NoRow, Untouched}}

-----------------------------------------------------------------------------
(* create_category and update_category: the row wanted, and the checks.     *)

CreateVerdict(table, request, row) ==
    IF Gone(table, request.parent) THEN "DoesNotExist"
    ELSE IF ~PathFits(row.ancestor_path) THEN "CategoryTreeTooDeep"
    ELSE IF ~NameIsFree(table, row, None) THEN "DuplicateCategoryName"
    ELSE "ok"

\* Mutant: the name is taken without the test for UNCHANGED.
WantedUntested(table, request) ==
    LET parent == IF request.parent = Unchanged THEN table[request.id].parent
                  ELSE request.parent
    IN  [parent |-> parent, name |-> request.name,
         ancestor_path |-> AncestorPathUnder(table, parent)]

\* Mutant: the path is derived anew for another parent only.
WantedPathKept(table, request) ==
    LET row    == table[request.id]
        parent == IF request.parent = Unchanged THEN row.parent ELSE request.parent
    IN  [parent |-> parent,
         name |-> IF request.name = Unchanged THEN row.name ELSE request.name,
         ancestor_path |-> IF parent = row.parent THEN row.ancestor_path
                           ELSE AncestorPathUnder(table, parent)]

\* The row as it shall be: an argument not given is what the row says now.
Wanted(table, request) ==
    LET row    == table[request.id]
        parent == IF request.parent = Unchanged THEN row.parent ELSE request.parent
    IN  [parent |-> parent,
         name |-> IF request.name = Unchanged THEN row.name ELSE request.name,
         ancestor_path |-> AncestorPathUnder(table, parent)]

\* Mutant: only "parent == itself" is refused.
MovedUnderItself(table, c, row) == row.parent = c

\* _ensure_not_moved_into_own_subtree: new_ancestor_path is the new parent's path.
MovedIntoOwnSubtree(table, c, row) ==
    row.parent # None /\ StartsWith(row.ancestor_path, PathOf(table, c))

\* Mutant: the longest path is checked without the growth.
DescendantPathsFitNow(table, c, row) ==
    \A i \in UnderPath(table, PathOf(table, c)) : PathFits(table[i].ancestor_path)

\* _ensure_descendant_paths_fit
DescendantPathsFit(table, c, row) ==
    LET growth == PathLength(FullPath(row.ancestor_path, c)) - PathLength(PathOf(table, c))
    IN  \A i \in UnderPath(table, PathOf(table, c)) :
            PathLength(table[i].ancestor_path) + growth <= PathMax

\* Mutant: the new name is looked for where the category was, not where it goes.
UpdateVerdictAtOldPlace(table, request, row) ==
    LET c      == request.id
        isMove == row.ancestor_path # table[c].ancestor_path
    IN  IF isMove /\ MovedIntoOwnSubtree(table, c, row) THEN "InvalidCategoryMove"
        ELSE IF isMove /\ ~(PathFits(row.ancestor_path) /\ DescendantPathsFit(table, c, row))
             THEN "CategoryTreeTooDeep"
        ELSE IF ~NameIsFree(table, [table[c] EXCEPT !.name = row.name], c)
             THEN "DuplicateCategoryName"
        ELSE "ok"

UpdateVerdict(table, request, row) ==
    LET c      == request.id
        isMove == row.ancestor_path # table[c].ancestor_path
    IN  IF isMove /\ MovedIntoOwnSubtree(table, c, row) THEN "InvalidCategoryMove"
        ELSE IF isMove /\ ~(PathFits(row.ancestor_path) /\ DescendantPathsFit(table, c, row))
             THEN "CategoryTreeTooDeep"
        ELSE IF ~NameIsFree(table, row, c) THEN "DuplicateCategoryName"
        ELSE "ok"

\* _rewrite_descendant_paths: one UPDATE for the whole subtree.
Rewritten(table, old, new) ==
    [i \in Ids |->
        IF i \in UnderPath(table, old)
        THEN [table[i] EXCEPT !.ancestor_path = Rebase(@, old, new)]
        ELSE Untouched]

-----------------------------------------------------------------------------
(* What the stored paths stand for, told without them.                      *)

\* By the parent links alone: c is i, or above it; that is, it is in every set of
\* categories that has i and, with a category, its parent.
IsBelow(table, i, c) ==
    \A S \in SUBSET Existing(table) :
        i \in S /\ (\A j \in S : table[j].parent \in S \cup {None}) => c \in S
=============================================================================
