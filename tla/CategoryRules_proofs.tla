------------------------ MODULE CategoryRules_proofs ------------------------
(***************************************************************************)
(* Facts about category tables with any number of ids and names: what a    *)
(* single change does to stored paths, right or wrong ones, and what a     *)
(* prefix match finds where they are right.                                *)
(***************************************************************************)
EXTENDS CategoryRules, CategoryPaths_proofs

Tables == [Ids -> Row \cup {NoRow}]
Writes == [Ids -> Row \cup {NoRow, Untouched}]

\* The two halves of TableAgrees, of which a damaged table has the first.
ParentsExist(T) == \A i \in Existing(T) : T[i].parent \in Existing(T) \cup {None}
Right(T, i) == T[i].ancestor_path = AncestorPathUnder(T, T[i].parent)

-----------------------------------------------------------------------------
(* Tables                                                                   *)

\* The markers differ from every id and from each other.
LEMMA IdsFacts ==
  /\ None \notin Ids /\ Unchanged \notin Ids /\ None # Unchanged
  /\ \A row \in Row : row # NoRow /\ row # Untouched
  /\ NoRow # Untouched
BY MarkersAssumption

\* The fields of a row.
LEMMA RowFields ==
  ASSUME NEW row \in Row
  PROVE  /\ row.parent \in Ids \cup {None}
         /\ row.name \in Names
         /\ row.ancestor_path \in Seq(Ids)
BY DEF Row

\* What exists is a row under an id.
LEMMA ExistingFacts ==
  ASSUME NEW T \in Tables, NEW i \in Existing(T)
  PROVE  i \in Ids /\ T[i] \in Row /\ T[i] # NoRow
BY DEF Tables, Existing

\* A table with writes applied is a table.
LEMMA WrittenType ==
  ASSUME NEW T \in Tables, NEW w \in Writes
  PROVE  Written(T, w) \in Tables
BY DEF Written, Tables, Writes

\* The path below a category, or below the root, is a path.
LEMMA AncestorPathType ==
  ASSUME NEW T \in Tables, NEW p \in Existing(T) \cup {None}
  PROVE  AncestorPathUnder(T, p) \in Seq(Ids)
<1>1. CASE p = None
  BY <1>1, EmptySeq DEF AncestorPathUnder, ROOT_PATH
<1>2. CASE p # None
  BY <1>2, ExistingFacts, RowFields, FullPathIsLonger DEF AncestorPathUnder
<1> QED
  BY <1>1, <1>2

\* What TableAgrees says of one category, in the form the steps below use.
LEMMA AgreesAt ==
  ASSUME NEW T \in Tables, TableAgrees(T), NEW i \in Existing(T)
  PROVE  /\ T[i].parent \in Existing(T) \cup {None}
         /\ T[i].ancestor_path = AncestorPathUnder(T, T[i].parent)
BY ExistingFacts, RowFields DEF TableAgrees, Gone, Existing

\* A table agrees with itself when every row carries the path its parent gives it.
LEMMA AgreesIntro ==
  ASSUME NEW T \in Tables,
         \A i \in Existing(T) :
            /\ T[i].parent \in Existing(T) \cup {None}
            /\ T[i].ancestor_path = AncestorPathUnder(T, T[i].parent)
  PROVE  TableAgrees(T)
BY IdsFacts DEF TableAgrees, Gone, Existing

\* A new category under a category there is, or at the top level.
LEMMA InsertAgrees ==
  ASSUME NEW T \in Tables, TableAgrees(T), NEW c \in Ids, T[c] = NoRow,
         NEW row \in Row, row.parent \in Existing(T) \cup {None},
         row.ancestor_path = AncestorPathUnder(T, row.parent)
  PROVE  TableAgrees([T EXCEPT ![c] = row])
<1> DEFINE U == [T EXCEPT ![c] = row]
<1>1. U \in Tables /\ Existing(U) = Existing(T) \cup {c} /\ c \notin Existing(T)
  BY IdsFacts DEF Tables, Existing
<1>2. \A p \in Existing(T) \cup {None} : AncestorPathUnder(U, p) = AncestorPathUnder(T, p)
  BY ExistingFacts DEF AncestorPathUnder, Existing
<1>3. ASSUME NEW i \in Existing(U)
      PROVE  /\ U[i].parent \in Existing(U) \cup {None}
             /\ U[i].ancestor_path = AncestorPathUnder(U, U[i].parent)
  <2>1. CASE i = c
    BY <1>1, <1>2, <2>1 DEF Tables
  <2>2. CASE i # c
    <3>1. i \in Existing(T) /\ U[i] = T[i]
      BY <1>1, <2>2 DEF Existing
    <3> QED
      BY <1>1, <1>2, <3>1, AgreesAt
  <2> QED
    BY <2>1, <2>2
<1> HIDE DEF U
<1>4. TableAgrees(U)
  BY <1>1, <1>3, AgreesIntro
<1> QED
  BY <1>4 DEF U

\* A category that stays where it is.
LEMMA RenameAgrees ==
  ASSUME NEW T \in Tables, TableAgrees(T), NEW c \in Existing(T),
         NEW row \in Row, row.parent = T[c].parent,
         row.ancestor_path = T[c].ancestor_path
  PROVE  TableAgrees([T EXCEPT ![c] = row])
<1> DEFINE U == [T EXCEPT ![c] = row]
<1>1. U \in Tables /\ Existing(U) = Existing(T)
  BY IdsFacts, ExistingFacts DEF Tables, Existing
<1>2. \A p \in Existing(T) \cup {None} : AncestorPathUnder(U, p) = AncestorPathUnder(T, p)
  BY ExistingFacts DEF AncestorPathUnder, Existing, Tables
<1>3. \A i \in Existing(T) : /\ U[i].parent = T[i].parent
                             /\ U[i].ancestor_path = T[i].ancestor_path
  BY ExistingFacts DEF Tables
<1> HIDE DEF U
<1>4. TableAgrees(U)
  BY <1>1, <1>2, <1>3, AgreesAt, AgreesIntro
<1> QED
  BY <1>4 DEF U

\* A category nothing is under.
LEMMA RemoveAgrees ==
  ASSUME NEW T \in Tables, TableAgrees(T), NEW c \in Ids, Children(T, c) = {}
  PROVE  TableAgrees([T EXCEPT ![c] = NoRow])
<1> DEFINE U == [T EXCEPT ![c] = NoRow]
<1>1. U \in Tables /\ Existing(U) = Existing(T) \ {c}
  BY DEF Tables, Existing
<1>2. ASSUME NEW i \in Existing(U)
      PROVE  /\ U[i].parent \in Existing(U) \cup {None}
             /\ U[i].ancestor_path = AncestorPathUnder(U, U[i].parent)
  <2>1. i \in Existing(T) /\ U[i] = T[i]
    BY <1>1 DEF Tables, Existing
  <2>2. T[i].parent # c
    BY <2>1 DEF Children
  <2>3. /\ T[i].parent \in Existing(U) \cup {None}
        /\ T[i].ancestor_path = AncestorPathUnder(T, T[i].parent)
    BY <1>1, <2>1, <2>2, AgreesAt
  <2>4. AncestorPathUnder(U, T[i].parent) = AncestorPathUnder(T, T[i].parent)
    BY <2>2 DEF AncestorPathUnder, Tables
  <2> QED
    BY <2>1, <2>3, <2>4
<1> HIDE DEF U
<1>3. TableAgrees(U)
  BY <1>1, <1>2, AgreesIntro
<1> QED
  BY <1>3 DEF U

\* A category saved under its new parent and its descendants rewritten, in any
\* table.  A category below it whose path was right is rewritten exactly when its
\* parent is, or is the moved category itself; the new parent is not, which is
\* what the cycle check says.
LEMMA MoveSpreadsNoDamage ==
  ASSUME NEW T \in Tables, ParentsExist(T), NEW c \in Existing(T),
         NEW row \in Row, row.parent \in Existing(T) \cup {None},
         row.ancestor_path = AncestorPathUnder(T, row.parent),
         ~StartsWith(row.ancestor_path, PathOf(T, c))
  PROVE  LET saved == [T EXCEPT ![c] = row]
             U == Written(saved, Rewritten(saved, PathOf(T, c), FullPath(row.ancestor_path, c)))
         IN  /\ U \in Tables /\ Existing(U) = Existing(T) /\ U[c] = row
             /\ \A i \in Existing(T) \ {c} : U[i].parent = T[i].parent /\ U[i].name = T[i].name
             /\ \A i \in Existing(T) : i = c \/ Right(T, i) => Right(U, i)
<1> DEFINE old == PathOf(T, c)
           new == FullPath(row.ancestor_path, c)
           saved == [T EXCEPT ![c] = row]
           U == Written(saved, Rewritten(saved, old, new))
           Under(i) == StartsWith(T[i].ancestor_path, old)
<1>1. /\ c \in Ids /\ T[c] \in Row
      /\ old \in Seq(Ids) /\ new \in Seq(Ids) /\ row.ancestor_path \in Seq(Ids)
      /\ old = FullPath(T[c].ancestor_path, c)
      /\ T[c].ancestor_path \in Seq(Ids)
  BY ExistingFacts, RowFields, FullPathIsLonger DEF PathOf
<1>2. saved \in Tables /\ Existing(saved) = Existing(T)
  BY <1>1, IdsFacts DEF Tables, Existing
<1>3. \A i \in Existing(T) : T[i].ancestor_path \in Seq(Ids) /\ T[i] \in Row /\ i \in Ids
  BY ExistingFacts, RowFields
<1>4. ~Under(c)
  BY <1>1, FullPathIsLonger
<1>5. \A i \in Existing(T) \ {c} : saved[i] = T[i]
  BY <1>3 DEF Tables
<1>6. saved[c] = row
  BY <1>1 DEF Tables
<1>7. UnderPath(saved, old) = {i \in Existing(T) \ {c} : Under(i)}
  BY <1>2, <1>5, <1>6 DEF UnderPath
<1> HIDE DEF old, new, saved, Under
<1>8. U[c] = row
  BY <1>1, <1>6, <1>7, IdsFacts DEF Written, Rewritten
<1>9. ASSUME NEW i \in Existing(T), i # c, Under(i)
      PROVE  U[i] = [T[i] EXCEPT !.ancestor_path = Rebase(T[i].ancestor_path, old, new)]
  <2>1. i \in UnderPath(saved, old) /\ saved[i] = T[i] /\ i \in Ids
    BY <1>3, <1>5, <1>7, <1>9
  <2>2. [T[i] EXCEPT !.ancestor_path = Rebase(T[i].ancestor_path, old, new)] # Untouched
    <3>1. Rebase(T[i].ancestor_path, old, new) \in Seq(Ids)
      BY <1>1, <1>3, RebaseType
    <3>2. [T[i] EXCEPT !.ancestor_path = Rebase(T[i].ancestor_path, old, new)] \in Row
      BY <1>3, <3>1 DEF Row
    <3> QED
      BY <3>2, IdsFacts
  <2> QED
    BY <2>1, <2>2 DEF Written, Rewritten
<1>10. ASSUME NEW i \in Ids, i # c, i \notin Existing(T) \/ ~Under(i)
       PROVE  U[i] = T[i]
  <2>1. i \notin UnderPath(saved, old)
    BY <1>7, <1>10
  <2>2. saved[i] = T[i]
    BY <1>10 DEF saved, Tables
  <2> QED
    BY <2>1, <2>2 DEF Written, Rewritten
<1>11. \A i \in Existing(T) : U[i] \in Row
  <2>1. ASSUME NEW i \in Existing(T), i # c, Under(i)
        PROVE  U[i] \in Row
    <3>1. Rebase(T[i].ancestor_path, old, new) \in Seq(Ids)
      BY <1>1, <1>3, RebaseType
    <3> QED
      BY <1>3, <1>9, <2>1, <3>1, ZenonT(60) DEF Row
  <2> QED
    BY <1>3, <1>8, <1>10, <2>1
<1>12. U \in Tables /\ Existing(U) = Existing(T)
  <2>1. U = [i \in Ids |-> U[i]]
    BY DEF Written
  <2>2. \A i \in Ids \ Existing(T) : U[i] = NoRow
    BY <1>1, <1>10 DEF Existing
  <2>3. \A i \in Existing(T) : U[i] # NoRow
    BY <1>11, IdsFacts
  <2> HIDE DEF U
  <2> QED
    BY <1>11, <2>1, <2>2, <2>3 DEF Tables, Existing
<1> HIDE DEF U
<1>13. \A p \in Existing(T) : U[p].ancestor_path =
           IF p = c THEN row.ancestor_path
           ELSE IF Under(p) THEN Rebase(T[p].ancestor_path, old, new)
           ELSE T[p].ancestor_path
  BY <1>3, <1>8, <1>9, <1>10 DEF Row
<1>14. \A p \in Existing(T) : p # c => U[p].parent = T[p].parent /\ U[p].name = T[p].name
  BY <1>3, <1>9, <1>10 DEF Row
<1>15. ASSUME NEW i \in Existing(T), i = c \/ Right(T, i)
       PROVE  U[i].ancestor_path = AncestorPathUnder(U, U[i].parent)
  <2>1. CASE i = c
    <3>1. U[i].parent = row.parent /\ U[i].ancestor_path = row.ancestor_path
      BY <1>8, <2>1
    <3>2. CASE row.parent = None
      BY <3>1, <3>2 DEF AncestorPathUnder
    <3>3. CASE row.parent \in Existing(T) /\ row.parent # None
      <4> DEFINE p == row.parent
      <4>1. row.ancestor_path = FullPath(T[p].ancestor_path, p)
        BY <3>3 DEF AncestorPathUnder
      <4>2. ~StartsWith(row.ancestor_path, old)
        BY DEF old
      <4>3. p # c
        BY <1>1, <4>1, <4>2, StartsWithItself
      <4>4. ~Under(p)
        BY <1>1, <1>3, <3>3, <4>1, <4>2, PrefixOfFullPath DEF Under
      <4> QED
        BY <1>13, <3>1, <3>3, <4>1, <4>3, <4>4 DEF AncestorPathUnder
    <3> QED
      BY <3>1, <3>2, <3>3
  <2>2. CASE i # c
    <3> DEFINE j == T[i].parent
    <3>1. /\ j \in Existing(T) \cup {None} /\ U[i].parent = j
          /\ T[i].ancestor_path = AncestorPathUnder(T, j)
      BY <1>14, <1>15, <2>2 DEF ParentsExist, Right
    <3>2. CASE j = None
      <4>1. ~Under(i)
        BY <1>1, <3>1, <3>2, FullPathIsLonger DEF AncestorPathUnder, Under
      <4> QED
        BY <1>13, <2>2, <3>1, <3>2, <4>1 DEF AncestorPathUnder
    <3>3. CASE j \in Existing(T) /\ j # None
      <4>1. T[i].ancestor_path = FullPath(T[j].ancestor_path, j)
        BY <3>1, <3>3 DEF AncestorPathUnder
      <4>2. T[j].ancestor_path \in Seq(Ids) /\ j \in Ids
        BY <1>3, <3>3
      <4>3. Under(i) <=> Under(j) \/ old = T[i].ancestor_path
        BY <1>1, <4>1, <4>2, PrefixOfFullPath DEF Under
      <4>4. old = T[i].ancestor_path <=> j = c
        BY <1>1, <4>1, <4>2, FullPathInjective
      <4>5. AncestorPathUnder(U, j) = FullPath(U[j].ancestor_path, j)
        BY <3>3 DEF AncestorPathUnder
      <4>6. CASE j = c
        BY <1>1, <1>13, <2>2, <3>1, <4>3, <4>4, <4>5, <4>6, RebasePrefix DEF new
      <4>7. CASE j # c /\ Under(j)
        BY <1>1, <1>13, <2>2, <3>1, <3>3, <4>1, <4>2, <4>3, <4>5, <4>7, RebaseFullPath DEF Under
      <4>8. CASE j # c /\ ~Under(j)
        BY <1>13, <2>2, <3>1, <3>3, <4>1, <4>3, <4>4, <4>5, <4>8
      <4> QED
        BY <3>1, <4>6, <4>7, <4>8
    <3> QED
      BY <3>1, <3>2, <3>3
  <2> QED
    BY <2>1, <2>2
<1>16. /\ U \in Tables /\ Existing(U) = Existing(T) /\ U[c] = row
       /\ \A i \in Existing(T) \ {c} : U[i].parent = T[i].parent /\ U[i].name = T[i].name
       /\ \A i \in Existing(T) : i = c \/ Right(T, i) => Right(U, i)
  BY <1>8, <1>12, <1>14, <1>15 DEF Right
<1> QED
  BY <1>16 DEF U, saved, old, new

\* `update_category` and `_rewrite_descendant_paths`: when a category is saved with a
\* new parent outside its own subtree, and what is under its old path is rewritten,
\* every category has the path its parents give it, as before the move.
LEMMA MoveAgrees ==
  ASSUME NEW T \in Tables, TableAgrees(T), NEW c \in Existing(T),
         NEW row \in Row, row.parent \in Existing(T) \cup {None},
         row.ancestor_path = AncestorPathUnder(T, row.parent),
         ~StartsWith(row.ancestor_path, PathOf(T, c))
  PROVE  LET saved == [T EXCEPT ![c] = row]
         IN  TableAgrees(Written(saved, Rewritten(saved, PathOf(T, c),
                                                  FullPath(row.ancestor_path, c))))
<1> DEFINE saved == [T EXCEPT ![c] = row]
           U == Written(saved, Rewritten(saved, PathOf(T, c), FullPath(row.ancestor_path, c)))
<1>1. ParentsExist(T) /\ \A i \in Existing(T) : Right(T, i)
  BY AgreesAt DEF ParentsExist, Right
<1>2. /\ U \in Tables /\ Existing(U) = Existing(T) /\ U[c] = row
      /\ \A i \in Existing(T) \ {c} : U[i].parent = T[i].parent /\ U[i].name = T[i].name
      /\ \A i \in Existing(T) : i = c \/ Right(T, i) => Right(U, i)
  BY <1>1, MoveSpreadsNoDamage, Zenon
<1> HIDE DEF U
<1>3. TableAgrees(U)
  BY <1>1, <1>2, AgreesIntro DEF ParentsExist, Right
<1> QED
  BY <1>3 DEF U

\* New categories that another transaction has added meanwhile, below each other
\* or at the top level.
LEMMA AdditionsAgree ==
  ASSUME NEW T \in Tables, NEW U \in Tables, NEW w \in Writes,
         TableAgrees(U), TableAgrees(Written(T, w)),
         \A i \in Ids : w[i] # Untouched =>
            U[i] = NoRow /\ w[i] # NoRow /\ w[i].parent \in Stored(w) \cup {None}
  PROVE  TableAgrees(Written(U, w))
<1> DEFINE V == Written(T, w)
           W == Written(U, w)
<1>1. V \in Tables /\ W \in Tables
  BY WrittenType
<1>2. \A i \in Ids : IF w[i] = Untouched THEN W[i] = U[i]
                     ELSE i \in Stored(w) /\ W[i] = w[i] /\ V[i] = w[i] /\ W[i] # NoRow
  BY DEF Written, Stored
<1>3. Stored(w) \subseteq Ids /\ None \notin Ids /\ \A i \in Stored(w) : w[i] # Untouched
  BY IdsFacts DEF Stored
<1> HIDE DEF V, W
<1>4. \A p \in Stored(w) : p \in Existing(W) /\ p \in Existing(V) /\ W[p] = V[p]
  BY <1>2, <1>3 DEF Existing
<1>5. \A p \in Existing(U) : w[p] = Untouched /\ p \in Existing(W) /\ W[p] = U[p]
  BY <1>2 DEF Existing
<1>6. ASSUME NEW i \in Existing(W)
      PROVE  /\ W[i].parent \in Existing(W) \cup {None}
             /\ W[i].ancestor_path = AncestorPathUnder(W, W[i].parent)
  <2>1. CASE i \in Stored(w)
    <3>1. W[i] = V[i] /\ i \in Existing(V) /\ W[i].parent \in Stored(w) \cup {None}
      BY <1>2, <1>3, <1>4, <2>1
    <3>2. W[i].ancestor_path = AncestorPathUnder(V, W[i].parent)
      BY <1>1, <3>1, AgreesAt DEF V
    <3> QED
      BY <1>4, <3>1, <3>2 DEF AncestorPathUnder
  <2>2. CASE i \notin Stored(w)
    <3>1. W[i] = U[i] /\ i \in Existing(U)
      BY <1>2, <2>2 DEF Existing
    <3>2. /\ U[i].parent \in Existing(U) \cup {None}
          /\ U[i].ancestor_path = AncestorPathUnder(U, U[i].parent)
      BY <3>1, AgreesAt
    <3> QED
      BY <1>5, <3>1, <3>2 DEF AncestorPathUnder
  <2> QED
    BY <2>1, <2>2
<1>7. TableAgrees(W)
  BY <1>1, <1>6, AgreesIntro
<1> QED
  BY <1>7 DEF W

-----------------------------------------------------------------------------
(* What a prefix match finds                                                *)

\* A set of categories has one whose path is the shortest.
LEMMA ShortestPath ==
  ASSUME NEW T \in Tables, NEW S \in SUBSET Existing(T), S # {}
  PROVE  \E i \in S : \A j \in S : Len(T[i].ancestor_path) <= Len(T[j].ancestor_path)
<1> DEFINE depth(i) == Len(T[i].ancestor_path)
           Depths == {depth(i) : i \in S}
<1>1. \A i \in S : depth(i) \in Nat
  BY ExistingFacts, RowFields, LenProperties
<1> HIDE DEF depth
<1>2. Depths \in SUBSET Nat /\ Depths # {}
  BY <1>1
<1>3. PICK d \in Depths : \A e \in Depths : d <= e
  BY <1>2, LeastOf
<1> QED
  BY <1>3 DEF depth

\* Where the paths are right, a path that starts with another one's ancestors
\* and itself is found under that category, in that place, and nowhere else.
LEMMA PrefixNamesAPath ==
  ASSUME NEW T \in Tables, TableAgrees(T), NEW i \in Existing(T),
         NEW path \in Seq(Ids), NEW c \in Ids,
         StartsWith(T[i].ancestor_path, FullPath(path, c))
  PROVE  c \in Existing(T) /\ T[c].ancestor_path = path
<1> DEFINE p == FullPath(path, c)
           D == {j \in Existing(T) : StartsWith(T[j].ancestor_path, p)}
<1>1. p \in Seq(Ids) /\ ~StartsWith(ROOT_PATH, p)
  BY FullPathIsLonger
<1> HIDE DEF p
<1>2. PICK j \in D : \A k \in D : Len(T[j].ancestor_path) <= Len(T[k].ancestor_path)
  <2>1. D \in SUBSET Existing(T) /\ D # {}
    BY DEF p
  <2> QED
    BY <2>1, ShortestPath
<1>3. PICK q : q = T[j].parent
  OBVIOUS
<1>4. j \in Existing(T) /\ StartsWith(T[j].ancestor_path, p)
  BY <1>2
<1>5. /\ q \in Existing(T) \cup {None}
      /\ T[j].ancestor_path = AncestorPathUnder(T, q)
  BY <1>3, <1>4, AgreesAt
<1>6. q \in Existing(T) /\ q # None
  BY <1>1, <1>4, <1>5 DEF AncestorPathUnder
<1>7. T[j].ancestor_path = FullPath(T[q].ancestor_path, q)
  BY <1>5, <1>6 DEF AncestorPathUnder
<1>8. T[q].ancestor_path \in Seq(Ids) /\ q \in Ids
  BY <1>6, ExistingFacts, RowFields
<1>9. Len(T[j].ancestor_path) = Len(T[q].ancestor_path) + 1 /\ Len(T[q].ancestor_path) \in Nat
  <2>1. PICK above : above = T[q].ancestor_path
    OBVIOUS
  <2>2. Len(FullPath(above, q)) = Len(above) + 1 /\ Len(above) \in Nat
    BY <1>8, <2>1, FullPathIsLonger, LenProperties
  <2> QED
    BY <1>7, <2>1, <2>2
<1>10. ~StartsWith(T[q].ancestor_path, p)
  BY <1>2, <1>6, <1>9
<1>11. p = FullPath(T[q].ancestor_path, q)
  BY <1>1, <1>4, <1>7, <1>8, <1>10, PrefixOfFullPath
<1>12. path = T[q].ancestor_path /\ c = q
  BY <1>8, <1>11, FullPathInjective DEF p
<1> QED
  BY <1>6, <1>12

\* A path that starts with a full path starts with its ancestors.
LEMMA StartsWithAncestors ==
  ASSUME NEW S, NEW s \in Seq(S), NEW t \in Seq(S), NEW x \in S, StartsWith(s, FullPath(t, x))
  PROVE  StartsWith(s, t)
<1> DEFINE u == FullPath(t, x)
<1>1. /\ u \in Seq(S) /\ Len(u) = Len(t) + 1 /\ Len(t) \in Nat /\ Len(s) \in Nat
      /\ \A n \in 1 .. Len(t) : u[n] = t[n]
  BY AppendProperties, LenProperties DEF FullPath
<1> HIDE DEF u
<1>2. Len(u) <= Len(s) /\ \A n \in 1 .. Len(u) : u[n] = s[n]
  BY <1>1, PrefixIsPointwise DEF u
<1>3. Len(t) <= Len(s) /\ \A n \in 1 .. Len(t) : t[n] = s[n]
  BY <1>1, <1>2
<1> QED
  BY <1>3, PrefixIsPointwise

\* The prefix match finds what the parent links say.
LEMMA PrefixMatchIsBelow ==
  ASSUME NEW T \in Tables, TableAgrees(T), NEW i \in Existing(T), NEW c \in Existing(T)
  PROVE  IsBelow(T, i, c) <=> i = c \/ StartsWith(T[i].ancestor_path, PathOf(T, c))
<1>1. \A j \in Existing(T) :
        /\ j \in Ids /\ T[j].ancestor_path \in Seq(Ids)
        /\ PathOf(T, j) = FullPath(T[j].ancestor_path, j) /\ PathOf(T, j) \in Seq(Ids)
  BY ExistingFacts, RowFields, FullPathIsLonger DEF PathOf
<1>2. \A j \in Existing(T) : T[j].parent # None =>
        T[j].parent \in Existing(T) /\ T[j].ancestor_path = PathOf(T, T[j].parent)
  BY AgreesAt DEF AncestorPathUnder, PathOf
<1>3. \A j, k \in Existing(T) : StartsWith(PathOf(T, j), PathOf(T, k))
        <=> StartsWith(T[j].ancestor_path, PathOf(T, k)) \/ j = k
  <2>1. ASSUME NEW j \in Existing(T), NEW k \in Existing(T)
        PROVE  StartsWith(PathOf(T, j), PathOf(T, k))
                 <=> StartsWith(T[j].ancestor_path, PathOf(T, k)) \/ PathOf(T, k) = PathOf(T, j)
    BY <1>1, PrefixOfFullPath
  <2>2. ASSUME NEW j \in Existing(T), NEW k \in Existing(T), PathOf(T, k) = PathOf(T, j)
        PROVE  j = k
    BY <1>1, <2>2, FullPathInjective
  <2> QED
    BY <2>1, <2>2
<1>4. ASSUME IsBelow(T, i, c)
      PROVE  i = c \/ StartsWith(T[i].ancestor_path, PathOf(T, c))
  <2> DEFINE S == {j \in Existing(T) : StartsWith(PathOf(T, i), PathOf(T, j))}
  <2>1. i \in S
    BY <1>1, StartsWithItself
  <2>2. ASSUME NEW j \in S, T[j].parent # None
        PROVE  T[j].parent \in S
    <3>1. PICK q : q = T[j].parent
      OBVIOUS
    <3>2. q \in Existing(T) /\ T[j].ancestor_path = PathOf(T, q) /\ j \in Existing(T)
      BY <1>2, <2>2, <3>1
    <3>3. PathOf(T, j) = FullPath(PathOf(T, q), j)
      BY <1>1, <3>2
    <3>4. StartsWith(PathOf(T, i), PathOf(T, q))
      BY <1>1, <3>2, <3>3, StartsWithAncestors
    <3> QED
      BY <3>1, <3>2, <3>4
  <2>3. c \in S
    BY <1>4, <2>1, <2>2 DEF IsBelow
  <2> QED
    BY <1>3, <2>3
<1>5. ASSUME i # c, StartsWith(T[i].ancestor_path, PathOf(T, c)),
             NEW S \in SUBSET Existing(T), i \in S,
             \A j \in S : T[j].parent \in S \cup {None}
      PROVE  c \in S
  <2> DEFINE D == {j \in S : StartsWith(PathOf(T, j), PathOf(T, c))}
  <2>1. D \in SUBSET Existing(T) /\ D # {}
    BY <1>3, <1>5
  <2>2. PICK j \in D : \A k \in D : Len(T[j].ancestor_path) <= Len(T[k].ancestor_path)
    BY <2>1, ShortestPath
  <2>3. ASSUME j # c PROVE FALSE
    <3>1. PICK q : q = T[j].parent
      OBVIOUS
    <3>2. j \in S /\ StartsWith(T[j].ancestor_path, PathOf(T, c))
      BY <1>3, <2>2, <2>3
    <3>3. T[j].ancestor_path # ROOT_PATH
      BY <1>1, <3>2, FullPathIsLonger
    <3>4. q # None /\ q \in S /\ q \in Existing(T) /\ T[j].ancestor_path = PathOf(T, q)
      BY <1>2, <1>5, <3>1, <3>2, <3>3, AgreesAt DEF AncestorPathUnder
    <3>5. q \in D
      BY <3>2, <3>4
    <3>6. Len(T[j].ancestor_path) = Len(T[q].ancestor_path) + 1 /\ Len(T[q].ancestor_path) \in Nat
      BY <1>1, <3>4, FullPathIsLonger, LenProperties, ZenonT(60)
    <3> QED
      BY <2>2, <3>5, <3>6
  <2> QED
    BY <2>2, <2>3
<1>6. i = c => IsBelow(T, i, c)
  BY DEF IsBelow
<1> QED
  BY <1>4, <1>5, <1>6 DEF IsBelow


-----------------------------------------------------------------------------
(* What the checks of a move promise of lengths                             *)

\* Ids are natural numbers.
LEMMA IdsAreNats == Ids \in SUBSET Nat
BY IdsAssumption DEF Ids

\* The check of the longest descendant covers what the rewriting will store:
\* no path under the old prefix is too long under the new one.
LEMMA MoveFits ==
  ASSUME NEW T \in Tables, NEW request, NEW c, c = request.id, c \in Existing(T),
         NEW row \in Row, UpdateVerdict(T, request, row) = "ok",
         FullPath(row.ancestor_path, c) # PathOf(T, c)
  PROVE  /\ PathFits(row.ancestor_path)
         /\ \A i \in UnderPath(T, PathOf(T, c)) :
                PathFits(Rebase(T[i].ancestor_path, PathOf(T, c), FullPath(row.ancestor_path, c)))
<1> DEFINE old == PathOf(T, c)
           new == FullPath(row.ancestor_path, c)
<1>1. row.ancestor_path # T[c].ancestor_path
  BY DEF PathOf
<1>2. PathFits(row.ancestor_path) /\ DescendantPathsFit(T, c, row)
  BY <1>1 DEF UpdateVerdict
<1>3. old \in Seq(Ids) /\ new \in Seq(Ids) /\ c \in Ids
  BY ExistingFacts, RowFields, FullPathIsLonger DEF PathOf
<1>4. ASSUME NEW i \in UnderPath(T, old)
      PROVE  PathFits(Rebase(T[i].ancestor_path, old, new))
  <2>1. i \in Existing(T) /\ StartsWith(T[i].ancestor_path, old)
    BY DEF UnderPath
  <2>2. T[i].ancestor_path \in Seq(Ids)
    BY <2>1, ExistingFacts, RowFields
  <2>3. PathLength(T[i].ancestor_path) + (PathLength(new) - PathLength(old)) <= PathMax
    BY <1>2 DEF DescendantPathsFit
  <2> HIDE DEF old, new
  <2>4. PathLength(Rebase(T[i].ancestor_path, old, new))
          = PathLength(T[i].ancestor_path) + (PathLength(new) - PathLength(old))
    BY <1>3, <2>1, <2>2, IdsAreNats, PathLengthOfRebase
  <2> QED
    BY <2>3, <2>4 DEF PathFits
<1> QED
  BY <1>2, <1>4
=============================================================================
