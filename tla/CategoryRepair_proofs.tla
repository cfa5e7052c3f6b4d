------------------------ MODULE CategoryRepair_proofs ------------------------
(***************************************************************************)
(* For every number of ids and names and every path that is written by     *)
(* hand: rebuild_category_paths rights and reports what it promises to,    *)
(* whatever the table was like, and the service spreads no damage.         *)
(*                                                                         *)
(* First paths that the parent links spell, and sound categories; then what*)
(* a service request does to a damaged table; then the walk; last the      *)
(* theorems.                                                               *)
(***************************************************************************)
EXTENDS CategoryRepair, CategoryRules_proofs

-----------------------------------------------------------------------------
(* Paths that the parent links spell                                        *)

\* A top-level category has the root path, ...
LEMMA SpellsRoot ==
  ASSUME NEW T \in Tables, NEW c \in Existing(T), T[c].parent = None
  PROVE  Spells(T, ROOT_PATH, c)
<1> DEFINE chain == FullPath(ROOT_PATH, c)
<1>1. chain = <<c>>
  BY DEF FullPath, ROOT_PATH
<1>2. Len(chain) = 1 /\ chain[1] = c
  BY <1>1
<1> QED
  BY <1>2 DEF Spells

\* ... and a child the full path of its parent.
LEMMA SpellsChild ==
  ASSUME NEW T \in Tables, NEW c \in Existing(T), NEW path \in Seq(Ids),
         Spells(T, path, c), NEW d \in Existing(T), T[d].parent = c
  PROVE  Spells(T, FullPath(path, c), d)
<1> DEFINE chain == FullPath(path, c)
           longer == FullPath(chain, d)
<1>1. c \in Ids /\ d \in Ids
  BY ExistingFacts
<1>2. /\ chain \in Seq(Ids) /\ Len(chain) = Len(path) + 1 /\ Len(path) \in Nat
      /\ chain[Len(path) + 1] = c
  BY <1>1, AppendProperties, LenProperties DEF FullPath
<1> HIDE DEF chain
<1>3. /\ Len(longer) = Len(chain) + 1 /\ longer[Len(chain) + 1] = d
      /\ \A n \in 1 .. Len(chain) : longer[n] = chain[n]
  BY <1>1, <1>2, AppendProperties DEF FullPath
<1> HIDE DEF longer
<1>4. \A n \in 1 .. Len(chain) :
        /\ chain[n] \in Existing(T)
        /\ T[chain[n]].parent = IF n = 1 THEN None ELSE chain[n - 1]
  BY DEF Spells, chain
<1>5. ASSUME NEW n \in 1 .. Len(longer)
      PROVE  /\ longer[n] \in Existing(T)
             /\ T[longer[n]].parent = IF n = 1 THEN None ELSE longer[n - 1]
  <2>1. CASE n = Len(chain) + 1
    <3>1. n # 1 /\ n - 1 = Len(chain) /\ Len(chain) \in 1 .. Len(chain)
      BY <1>2, <2>1
    <3> QED
      BY <1>2, <1>3, <2>1, <3>1
  <2>2. CASE n # Len(chain) + 1
    <3>1. n \in 1 .. Len(chain) /\ (n # 1 => n - 1 \in 1 .. Len(chain))
      BY <1>2, <1>3, <2>2
    <3> QED
      BY <1>3, <1>4, <3>1
  <2> QED
    BY <2>1, <2>2
<1>6. Spells(T, chain, d)
  BY <1>5 DEF Spells, longer
<1> QED
  BY <1>6 DEF chain

\* The links spell one path only: read from its end, each place follows from the
\* one after it, and the beginning is where a category has no parent.
LEMMA SpellsOnePath ==
  ASSUME NEW T \in Tables, NEW c \in Ids, NEW s \in Seq(Ids), NEW t \in Seq(Ids),
         Spells(T, s, c), Spells(T, t, c)
  PROVE  s = t
<1> DEFINE p == FullPath(s, c)
           q == FullPath(t, c)
<1>1. /\ p \in Seq(Ids) /\ Len(p) \in Nat /\ Len(p) >= 1 /\ p[Len(p)] = c
      /\ q \in Seq(Ids) /\ Len(q) \in Nat /\ Len(q) >= 1 /\ q[Len(q)] = c
  BY AppendProperties, LenProperties DEF FullPath
<1>2. /\ \A n \in 1 .. Len(p) : /\ p[n] \in Existing(T)
                                /\ T[p[n]].parent = IF n = 1 THEN None ELSE p[n - 1]
      /\ \A n \in 1 .. Len(q) : /\ q[n] \in Existing(T)
                                /\ T[q[n]].parent = IF n = 1 THEN None ELSE q[n - 1]
  BY DEF Spells
<1> HIDE DEF p, q
<1>3. None \notin Existing(T)
  BY IdsFacts DEF Existing
<1>4. ASSUME NEW k \in Nat, k < Len(p), k < Len(q)
      PROVE  p[Len(p) - k] = q[Len(q) - k]
  <2> DEFINE Differs == {j \in Nat : j < Len(p) /\ j < Len(q) /\ p[Len(p) - j] # q[Len(q) - j]}
  <2>1. CASE Differs = {}
    BY <1>4, <2>1
  <2>2. CASE Differs # {}
    <3>1. PICK j \in Differs : \A i \in Differs : j <= i
      BY <2>2, LeastOf
    <3>2. j # 0
      BY <1>1, <3>1
    <3>3. /\ j \in Nat /\ j - 1 \in Nat /\ j - 1 < Len(p) /\ j - 1 < Len(q)
          /\ ~(j <= j - 1)
      BY <1>1, <3>2
    <3>4. p[Len(p) - (j - 1)] = q[Len(q) - (j - 1)]
      <4> HIDE DEF Differs
      <4>1. j - 1 \notin Differs
        BY <3>1, <3>3
      <4> QED
        BY <3>3, <4>1 DEF Differs
    <3>5. PICK m, n : m = Len(p) - j + 1 /\ n = Len(q) - j + 1
      OBVIOUS
    <3>6. /\ m \in 1 .. Len(p) /\ n \in 1 .. Len(q) /\ m # 1 /\ n # 1
          /\ m - 1 = Len(p) - j /\ n - 1 = Len(q) - j
          /\ m = Len(p) - (j - 1) /\ n = Len(q) - (j - 1)
      BY <1>1, <3>1, <3>2, <3>5
    <3>7. p[m] = q[n]
      BY <3>4, <3>6
    <3>8. T[p[m]].parent = p[m - 1] /\ T[q[n]].parent = q[n - 1]
      BY <1>2, <3>6
    <3>9. p[m - 1] = q[n - 1]
      BY <3>7, <3>8
    <3> QED
      BY <3>1, <3>6, <3>9
  <2> QED
    BY <2>1, <2>2
<1>5. Len(p) = Len(q)
  <2>1. ASSUME Len(p) < Len(q) PROVE FALSE
    <3>1. PICK n : n = Len(q) - Len(p) + 1
      OBVIOUS
    <3>2. /\ n \in 1 .. Len(q) /\ n # 1 /\ n - 1 \in 1 .. Len(q) /\ 1 \in 1 .. Len(p)
          /\ Len(p) - 1 \in Nat /\ Len(p) - 1 < Len(p) /\ Len(p) - 1 < Len(q)
          /\ Len(p) - (Len(p) - 1) = 1 /\ Len(q) - (Len(p) - 1) = n
      BY <1>1, <2>1, <3>1
    <3>3. p[1] = q[n]
      BY <1>4, <3>2
    <3>4. T[p[1]].parent = None /\ T[q[n]].parent = q[n - 1] /\ q[n - 1] \in Existing(T)
      BY <1>2, <3>2
    <3> QED
      BY <1>3, <3>3, <3>4
  <2>2. ASSUME Len(q) < Len(p) PROVE FALSE
    <3>1. PICK n : n = Len(p) - Len(q) + 1
      OBVIOUS
    <3>2. /\ n \in 1 .. Len(p) /\ n # 1 /\ n - 1 \in 1 .. Len(p) /\ 1 \in 1 .. Len(q)
          /\ Len(q) - 1 \in Nat /\ Len(q) - 1 < Len(q) /\ Len(q) - 1 < Len(p)
          /\ Len(q) - (Len(q) - 1) = 1 /\ Len(p) - (Len(q) - 1) = n
      BY <1>1, <2>2, <3>1
    <3>3. q[1] = p[n]
      BY <1>4, <3>2
    <3>4. T[q[1]].parent = None /\ T[p[n]].parent = p[n - 1] /\ p[n - 1] \in Existing(T)
      BY <1>2, <3>2
    <3> QED
      BY <1>3, <3>3, <3>4
  <2> QED
    BY <1>1, <2>1, <2>2
<1>6. ASSUME NEW i \in 1 .. Len(p)
      PROVE  p[i] = q[i]
  <2>1. /\ Len(p) - i \in Nat /\ Len(p) - i < Len(p) /\ Len(p) - i < Len(q)
        /\ Len(p) - (Len(p) - i) = i /\ Len(q) - (Len(p) - i) = i
    BY <1>1, <1>5
  <2> QED
    BY <1>4, <2>1
<1>7. p = q
  BY <1>1, <1>5, <1>6, SeqEqual
<1> QED
  BY <1>7, FullPathInjective DEF p, q

\* Only the categories and their parents matter.
LEMMA SpellsByLinks ==
  ASSUME NEW T, NEW U, Existing(T) = Existing(U),
         \A c \in Existing(T) : T[c].parent = U[c].parent
  PROVE  /\ \A path, c : Spells(T, path, c) <=> Spells(U, path, c)
         /\ Rooted(T) = Rooted(U)
<1>1. \A path, c : Spells(T, path, c) <=> Spells(U, path, c)
  BY DEF Spells
<1>2. \A S \in SUBSET Existing(T) : Airborne(T, S) <=> Airborne(U, S)
  BY DEF Airborne
<1> QED
  BY <1>1, <1>2 DEF Rooted

\* Categories that hang on a rooted one, or at the top level, are rooted.
LEMMA RootedFromAbove ==
  ASSUME NEW T, NEW c \in Existing(T), None \notin Existing(T),
         T[c].parent \in Rooted(T) \cup {None}
  PROVE  c \in Rooted(T)
BY DEF Rooted, Airborne

\* What has no category above it that is rooted, or at the top level, is not.
LEMMA AirborneIsNotRooted ==
  ASSUME NEW T, NEW S \in SUBSET Existing(T), Airborne(T, S)
  PROVE  S \cap Rooted(T) = {}
BY DEF Rooted

-----------------------------------------------------------------------------
(* Sound categories                                                         *)

\* A prefix of a path that has grown at its end.
LEMMA PrefixOfLonger ==
  ASSUME NEW s \in Seq(Ids), NEW x \in Ids, NEW m \in 0 .. Len(s)
  PROVE  SubSeq(FullPath(s, x), 1, m) = SubSeq(s, 1, m)
<1> DEFINE t == FullPath(s, x)
<1>1. /\ Len(s) \in Nat /\ \A i \in 1 .. Len(s) : t[i] = s[i] /\ s[i] \in Ids
  BY AppendProperties, LenProperties, ElementOfSeq DEF FullPath
<1> HIDE DEF t
<1>2. \A i \in 1 .. m : t[i] \in Ids /\ s[i] \in Ids /\ t[i] = s[i]
  BY <1>1
<1>3. /\ SubSeq(t, 1, m) \in Seq(Ids) /\ Len(SubSeq(t, 1, m)) = m
      /\ \A i \in 1 .. m : SubSeq(t, 1, m)[i] = t[i]
  BY <1>1, <1>2, SubSeqProperties
<1>4. /\ SubSeq(s, 1, m) \in Seq(Ids) /\ Len(SubSeq(s, 1, m)) = m
      /\ \A i \in 1 .. m : SubSeq(s, 1, m)[i] = s[i]
  BY <1>1, <1>2, SubSeqProperties
<1>5. SubSeq(t, 1, m) = SubSeq(s, 1, m)
  BY <1>2, <1>3, <1>4, SeqEqual
<1> QED
  BY <1>5 DEF t

\* The path of a category, and what is on it.
LEMMA PathOfFacts ==
  ASSUME NEW T \in Tables, NEW c \in Existing(T),
         NEW path, path = T[c].ancestor_path, NEW chain, chain = PathOf(T, c)
  PROVE  /\ c \in Ids /\ path \in Seq(Ids) /\ Len(path) \in Nat
         /\ chain = FullPath(path, c) /\ DOMAIN chain = 1 .. Len(path) + 1
         /\ chain[Len(path) + 1] = c /\ \A n \in 1 .. Len(path) : chain[n] = path[n]
         /\ \A n \in 1 .. Len(path) + 1 : SubSeq(chain, 1, n - 1) = SubSeq(path, 1, n - 1)
<1>1. c \in Ids /\ path \in Seq(Ids)
  BY ExistingFacts, RowFields
<1>2. Len(path) \in Nat /\ chain = FullPath(path, c)
  BY <1>1, LenProperties DEF PathOf
<1>3. /\ DOMAIN chain = 1 .. Len(path) + 1
      /\ chain[Len(path) + 1] = c /\ \A n \in 1 .. Len(path) : chain[n] = path[n]
  BY <1>1, <1>2, AppendProperties, LenProperties DEF FullPath
<1>4. ASSUME NEW n \in 1 .. Len(path) + 1
      PROVE  SubSeq(chain, 1, n - 1) = SubSeq(path, 1, n - 1)
  <2>1. n - 1 \in 0 .. Len(path)
    BY <1>2
  <2> QED
    BY <1>1, <1>2, <2>1, PrefixOfLonger
<1> QED
  BY <1>1, <1>2, <1>3, <1>4

\* At the top level a category is sound if its path is the root path; ...
LEMMA SoundTop ==
  ASSUME NEW T \in Tables, NEW c \in Existing(T), T[c].parent = None, Right(T, c)
  PROVE  c \in Sound(T)
<1> DEFINE path == T[c].ancestor_path
           chain == PathOf(T, c)
<1>1. path = <<>>
  BY DEF Right, AncestorPathUnder, ROOT_PATH
<1>2. Len(path) = 0
  BY <1>1, EmptySeq
<1>3. /\ DOMAIN chain = 1 .. Len(path) + 1 /\ chain[Len(path) + 1] = c
      /\ \A n \in 1 .. Len(path) + 1 : SubSeq(chain, 1, n - 1) = SubSeq(path, 1, n - 1)
  BY PathOfFacts
<1> HIDE DEF path, chain
<1>4. \A n \in DOMAIN chain : n = 1
  BY <1>2, <1>3
<1>5. chain[1] = c /\ SubSeq(chain, 1, 1 - 1) = SubSeq(path, 1, 1 - 1)
  BY <1>2, <1>3
<1>6. SubSeq(path, 1, 1 - 1) = <<>>
  BY SubSeqEmpty
<1>7. ASSUME NEW n \in DOMAIN chain
      PROVE  /\ chain[n] \in Existing(T)
             /\ T[chain[n]].parent = (IF n = 1 THEN None ELSE chain[n - 1])
             /\ T[chain[n]].ancestor_path = SubSeq(chain, 1, n - 1)
  <2>1. n = 1
    BY <1>4
  <2>2. T[c].ancestor_path = SubSeq(chain, 1, 1 - 1)
    BY <1>1, <1>5, <1>6 DEF path
  <2> QED
    BY <1>5, <2>1, <2>2
<1> QED
  BY <1>7 DEF Sound, chain

\* ... below a sound category, if its path is what its parent gives it; ...
LEMMA SoundBelow ==
  ASSUME NEW T \in Tables, NEW c \in Existing(T), NEW p \in Sound(T),
         T[c].parent = p, Right(T, c)
  PROVE  c \in Sound(T)
<1> DEFINE path == T[c].ancestor_path
           chain == PathOf(T, c)
<1>1. p \in Existing(T) /\ p \in Ids /\ p # None
  BY ExistingFacts, IdsFacts DEF Sound
<1>2. path = PathOf(T, p)
  BY <1>1 DEF Right, AncestorPathUnder, PathOf
<1>3. \A n \in DOMAIN path :
        /\ path[n] \in Existing(T)
        /\ T[path[n]].parent = (IF n = 1 THEN None ELSE path[n - 1])
        /\ T[path[n]].ancestor_path = SubSeq(path, 1, n - 1)
  BY <1>2 DEF Sound
<1>4. /\ DOMAIN path = 1 .. Len(path) /\ Len(path) >= 1 /\ path[Len(path)] = p
  <2>1. PICK q : q = T[p].ancestor_path
    OBVIOUS
  <2>2. path \in Seq(Ids) /\ DOMAIN path = 1 .. Len(q) + 1 /\ path[Len(q) + 1] = p /\ Len(q) \in Nat
    BY <1>1, <1>2, <2>1, PathOfFacts
  <2>3. Len(path) = Len(q) + 1
    BY <2>2, LenProperties
  <2> QED
    BY <2>2, <2>3
<1>5. /\ DOMAIN chain = 1 .. Len(path) + 1 /\ path \in Seq(Ids) /\ Len(path) \in Nat
      /\ chain[Len(path) + 1] = c /\ \A n \in 1 .. Len(path) : chain[n] = path[n]
      /\ \A n \in 1 .. Len(path) + 1 : SubSeq(chain, 1, n - 1) = SubSeq(path, 1, n - 1)
  BY PathOfFacts
<1>6. SubSeq(path, 1, Len(path)) = path
  BY <1>5, SubSeqFull
<1> HIDE DEF path, chain
<1>7. ASSUME NEW n \in DOMAIN chain
      PROVE  /\ chain[n] \in Existing(T)
             /\ T[chain[n]].parent = (IF n = 1 THEN None ELSE chain[n - 1])
             /\ T[chain[n]].ancestor_path = SubSeq(chain, 1, n - 1)
  <2>1. CASE n = Len(path) + 1
    <3>1. /\ n # 1 /\ n - 1 = Len(path) /\ n - 1 \in 1 .. Len(path) /\ chain[n] = c
      BY <1>4, <1>5, <2>1
    <3>2. chain[n - 1] = p
      BY <1>4, <1>5, <3>1
    <3>3. SubSeq(chain, 1, n - 1) = path
      BY <1>5, <1>6, <2>1, <3>1
    <3> QED
      BY <3>1, <3>2, <3>3 DEF path
  <2>2. CASE n # Len(path) + 1
    <3>1. n \in 1 .. Len(path) /\ (n # 1 => n - 1 \in 1 .. Len(path))
      BY <1>5, <2>2
    <3>2. SubSeq(chain, 1, n - 1) = SubSeq(path, 1, n - 1)
      BY <1>5, <3>1
    <3> QED
      BY <1>3, <1>4, <1>5, <3>1, <3>2
  <2> QED
    BY <2>1, <2>2
<1> QED
  BY <1>7 DEF Sound, chain

\* ... and there are no others.
LEMMA SoundAbove ==
  ASSUME NEW T \in Tables, NEW c \in Sound(T)
  PROVE  c \in Existing(T) /\ Right(T, c) /\ T[c].parent \in Sound(T) \cup {None}
<1> DEFINE path == T[c].ancestor_path
           chain == PathOf(T, c)
           p == T[c].parent
<1>1. /\ c \in Existing(T)
      /\ \A n \in DOMAIN chain :
           /\ chain[n] \in Existing(T)
           /\ T[chain[n]].parent = (IF n = 1 THEN None ELSE chain[n - 1])
           /\ T[chain[n]].ancestor_path = SubSeq(chain, 1, n - 1)
  BY DEF Sound
<1>2. /\ DOMAIN chain = 1 .. Len(path) + 1 /\ path \in Seq(Ids) /\ Len(path) \in Nat
      /\ chain = FullPath(path, c)
      /\ chain[Len(path) + 1] = c /\ \A n \in 1 .. Len(path) : chain[n] = path[n]
      /\ \A n \in 1 .. Len(path) + 1 : SubSeq(chain, 1, n - 1) = SubSeq(path, 1, n - 1)
  <2>1. c \in Existing(T)
    BY <1>1
  <2> QED
    BY <2>1, PathOfFacts
<1>3. None \notin Existing(T)
  BY IdsFacts DEF Existing
<1> HIDE DEF path, chain, p
<1>4. p = IF Len(path) + 1 = 1 THEN None ELSE chain[Len(path) + 1 - 1]
  BY <1>1, <1>2 DEF p
<1>5. CASE Len(path) = 0
  <2>1. p = None /\ path = <<>>
    BY <1>2, <1>4, <1>5, EmptySeq
  <2> QED
    BY <1>1, <2>1 DEF path, p, Right, AncestorPathUnder, ROOT_PATH
<1>6. CASE Len(path) # 0
  <2>1. /\ Len(path) \in 1 .. Len(path) + 1 /\ Len(path) \in 1 .. Len(path)
        /\ Len(path) + 1 # 1 /\ Len(path) + 1 - 1 = Len(path)
    BY <1>2, <1>6
  <2>2. p = chain[Len(path)] /\ p = path[Len(path)]
    BY <1>2, <1>4, <2>1
  <2>3. /\ p \in Existing(T) /\ p # None
        /\ T[p].ancestor_path = SubSeq(path, 1, Len(path) - 1)
    <3>1. p \in Existing(T) /\ T[p].ancestor_path = SubSeq(chain, 1, Len(path) - 1)
      <4>1. Len(path) \in DOMAIN chain /\ p = chain[Len(path)]
        BY <1>2, <2>1, <2>2
      <4> QED
        BY <1>1, <4>1
    <3>2. SubSeq(chain, 1, Len(path) - 1) = SubSeq(path, 1, Len(path) - 1)
      BY <1>2, <2>1
    <3> QED
      BY <1>3, <3>1, <3>2
  <2>4. PathOf(T, p) = path
    <3> DEFINE q == SubSeq(path, 1, Len(path) - 1)
               above == FullPath(q, p)
    <3>1. \A n \in 1 .. Len(path) : path[n] \in Ids
      BY <1>2, ElementOfSeq
    <3>2. q \in Seq(Ids) /\ Len(q) = Len(path) - 1 /\ \A n \in 1 .. Len(path) - 1 : q[n] = path[n]
      BY <1>2, <2>1, <3>1, SubSeqProperties
    <3> HIDE DEF q
    <3>3. p \in Ids
      BY <2>1, <2>2, <3>1
    <3>4. /\ above \in Seq(Ids) /\ Len(above) = Len(q) + 1 /\ above[Len(q) + 1] = p
          /\ \A n \in 1 .. Len(q) : above[n] = q[n]
      BY <3>2, <3>3, AppendProperties, LenProperties DEF FullPath
    <3> HIDE DEF above
    <3>5. Len(above) = Len(path) /\ \A n \in 1 .. Len(path) : above[n] = path[n]
      BY <1>2, <2>1, <2>2, <3>2, <3>4
    <3>6. above = path
      BY <1>2, <3>4, <3>5, SeqEqual
    <3> QED
      BY <2>3, <3>6 DEF PathOf, above, q
  <2>5. p \in Sound(T)
    <3>1. DOMAIN path = 1 .. Len(path)
      BY <1>2, LenProperties
    <3>2. ASSUME NEW n \in DOMAIN path
          PROVE  /\ path[n] \in Existing(T)
                 /\ T[path[n]].parent = (IF n = 1 THEN None ELSE path[n - 1])
                 /\ T[path[n]].ancestor_path = SubSeq(path, 1, n - 1)
      <4>1. /\ n \in 1 .. Len(path) /\ n \in 1 .. Len(path) + 1
            /\ (n # 1 => n - 1 \in 1 .. Len(path))
        BY <1>2, <3>1
      <4>2. chain[n] = path[n] /\ SubSeq(chain, 1, n - 1) = SubSeq(path, 1, n - 1)
        BY <1>2, <4>1
      <4>3. n # 1 => chain[n - 1] = path[n - 1]
        BY <1>2, <4>1
      <4> QED
        BY <1>1, <1>2, <4>1, <4>2, <4>3
    <3> QED
      BY <2>3, <2>4, <3>2 DEF Sound
  <2>6. path = AncestorPathUnder(T, p)
    BY <2>3, <2>4 DEF AncestorPathUnder, PathOf
  <2> QED
    BY <1>1, <2>5, <2>6 DEF path, p, Right
<1> QED
  BY <1>2, <1>5, <1>6

\* Categories with right paths whose parents are among them, or none, are sound:
\* of one with a shortest path, all that is above it is.
LEMMA ClosedIsSound ==
  ASSUME NEW T \in Tables, NEW G \in SUBSET Existing(T),
         \A g \in G : Right(T, g) /\ T[g].parent \in G \cup {None}
  PROVE  G \subseteq Sound(T)
<1> DEFINE Bad == G \ Sound(T)
           Lengths == {Len(T[g].ancestor_path) : g \in Bad}
<1>1. \A g \in G : g \in Ids /\ T[g].ancestor_path \in Seq(Ids)
  BY ExistingFacts, RowFields
<1>2. SUFFICES ASSUME Bad # {}
               PROVE  FALSE
  OBVIOUS
<1>3. Lengths \in SUBSET Nat /\ Lengths # {}
  <2>1. \A g \in G : Len(T[g].ancestor_path) \in Nat
    BY <1>1, LenProperties
  <2> QED
    BY <1>2, <2>1
<1>4. PICK k \in Lengths : \A l \in Lengths : k <= l
  BY <1>3, LeastOf
<1>5. PICK g \in Bad : k = Len(T[g].ancestor_path)
  BY <1>4
<1>6. g \in G /\ g \in Existing(T) /\ Right(T, g)
  BY <1>5
<1>7. T[g].parent # None
  BY <1>5, <1>6, SoundTop
<1>8. PICK p : p = T[g].parent
  OBVIOUS
<1>9. p \in G /\ p # None /\ T[g].ancestor_path = FullPath(T[p].ancestor_path, p)
  BY <1>6, <1>7, <1>8 DEF Right, AncestorPathUnder
<1>10. p \notin Sound(T)
  BY <1>5, <1>6, <1>8, SoundBelow
<1>11. Len(T[p].ancestor_path) \in Lengths
  BY <1>9, <1>10
<1>12. Len(T[p].ancestor_path) \in Nat /\ Len(T[g].ancestor_path) = Len(T[p].ancestor_path) + 1
  <2>1. p \in Ids /\ T[p].ancestor_path \in Seq(Ids)
    BY <1>1, <1>9
  <2>2. Len(T[p].ancestor_path) \in Nat
    BY <2>1, LenProperties
  <2>3. Len(FullPath(T[p].ancestor_path, p)) = Len(T[p].ancestor_path) + 1
    BY <2>1, FullPathIsLonger
  <2> QED
    BY <1>9, <2>2, <2>3
<1> QED
  BY <1>4, <1>5, <1>11, <1>12

\* A sound category is under the top level: it is on no cycle, nor below one.
LEMMA SoundIsRooted ==
  ASSUME NEW T \in Tables
  PROVE  Sound(T) \subseteq Rooted(T) \ Misplaced(T)
<1>1. ASSUME NEW S \in SUBSET Existing(T), Airborne(T, S), S \cap Sound(T) # {}
      PROVE  FALSE
  <2> DEFINE Lengths == {Len(T[c].ancestor_path) : c \in S \cap Sound(T)}
  <2>1. \A c \in S : c \in Ids /\ T[c].ancestor_path \in Seq(Ids)
    BY ExistingFacts, RowFields
  <2>2. Lengths \in SUBSET Nat /\ Lengths # {}
    <3>1. \A c \in S : Len(T[c].ancestor_path) \in Nat
      BY <2>1, LenProperties
    <3>2. PICK c : c \in S \cap Sound(T)
      BY <1>1
    <3>3. Len(T[c].ancestor_path) \in Lengths
      BY <3>2
    <3> QED
      BY <3>1, <3>3
  <2>3. PICK k \in Lengths : \A l \in Lengths : k <= l
    BY <2>2, LeastOf
  <2>4. PICK c \in S \cap Sound(T) : k = Len(T[c].ancestor_path)
    BY <2>3
  <2>5. PICK p : p = T[c].parent
    OBVIOUS
  <2>6. p \in S /\ p # None /\ None \notin Existing(T)
    BY <1>1, <2>4, <2>5, IdsFacts DEF Airborne, Existing
  <2>7. p \in Sound(T) /\ T[c].ancestor_path = FullPath(T[p].ancestor_path, p)
    BY <2>4, <2>5, <2>6, SoundAbove DEF Right, AncestorPathUnder
  <2>8. Len(T[p].ancestor_path) \in Lengths
    BY <2>6, <2>7
  <2>9. Len(T[p].ancestor_path) \in Nat /\ Len(T[c].ancestor_path) = Len(T[p].ancestor_path) + 1
    <3>1. p \in Ids /\ T[p].ancestor_path \in Seq(Ids)
      BY <2>1, <2>6
    <3>2. Len(T[p].ancestor_path) \in Nat
      BY <3>1, LenProperties
    <3>3. Len(FullPath(T[p].ancestor_path, p)) = Len(T[p].ancestor_path) + 1
      BY <3>1, FullPathIsLonger
    <3> QED
      BY <2>7, <3>2, <3>3
  <2> QED
    BY <2>3, <2>4, <2>8, <2>9
<1>2. Sound(T) \subseteq Rooted(T)
  BY <1>1 DEF Rooted, Sound
<1>3. ASSUME NEW c \in Sound(T)
      PROVE  Spells(T, T[c].ancestor_path, c)
  <2>1. c \in Existing(T) /\ PathOf(T, c) = FullPath(T[c].ancestor_path, c)
    BY DEF Sound, PathOf
  <2>2. DOMAIN PathOf(T, c) = 1 .. Len(PathOf(T, c))
    BY <2>1, ExistingFacts, RowFields, FullPathIsLonger, LenProperties
  <2> QED
    BY <2>1, <2>2 DEF Sound, Spells
<1> QED
  BY <1>2, <1>3 DEF Misplaced

-----------------------------------------------------------------------------
(* Changes of the table                                                     *)

\* What a service request does to a table, damaged or not: one category, c, is
\* created, changed or deleted, and of the others only paths are written; no path
\* that was right is wrong after it, and c's is right.
Edit(T, U, c) ==
  /\ ParentsExist(U)
  /\ \A i \in Existing(U) \ {c} :
        i \in Existing(T) /\ U[i].parent = T[i].parent /\ U[i].name = T[i].name
  /\ \A i \in Existing(U) : i = c \/ Right(T, i) => Right(U, i)

\* What is not under c is on its place with everything above it; if c is put below
\* a sound category, so is c, with what is under it.
LEMMA EditSpreadsNoDamage ==
  ASSUME NEW T \in Tables, NEW U \in Tables, NEW c \in Ids, Edit(T, U, c)
  PROVE  SpreadsNoDamage(T, U)
<1> DEFINE sound == Sound(T)
           still == Sound(U)
<1>1. /\ \A i \in Existing(U) : U[i].parent \in Existing(U) \cup {None}
      /\ \A i \in Existing(U) \ {c} :
           i \in Existing(T) /\ U[i].parent = T[i].parent /\ U[i].name = T[i].name
      /\ \A i \in Existing(U) : i = c \/ Right(T, i) => Right(U, i)
  BY DEF Edit, ParentsExist
<1>2. \A i \in sound : Right(T, i) /\ T[i].parent \in sound \cup {None}
  BY SoundAbove
<1>3. None \notin Existing(T) /\ None \notin Existing(U)
  BY IdsFacts DEF Existing
<1> HIDE DEF sound, still
<1>4. ASSUME c \in Existing(U) => U[c].parent \in sound \cup {None}
      PROVE  sound \cap Existing(U) \subseteq still
  <2> DEFINE G == sound \cap Existing(U)
  <2>1. ASSUME NEW g \in G
        PROVE  Right(U, g) /\ U[g].parent \in G \cup {None}
    <3>1. U[g].parent \in sound \cup {None}
      BY <1>1, <1>2, <1>4
    <3> QED
      BY <1>1, <1>2, <3>1
  <2> QED
    BY <2>1, ClosedIsSound DEF still
<1>5. ASSUME NEW i \in sound \cap Existing(U),
             \A n \in DOMAIN PathOf(T, i) : U[PathOf(T, i)[n]].parent \in sound \cup {None}
      PROVE  i \in still
  <2>1. CASE c \in Existing(U) => U[c].parent \in sound \cup {None}
    BY <1>4, <1>5, <2>1
  <2>2. CASE c \in Existing(U) /\ U[c].parent \notin sound \cup {None}
    <3> DEFINE On(s) == \E n \in DOMAIN PathOf(T, s) : PathOf(T, s)[n] = c
               G == {s \in sound \cap Existing(U) : ~On(s)}
    <3>1. i \in G
      BY <1>5, <2>2
    <3>2. ASSUME NEW g \in G
          PROVE  Right(U, g) /\ U[g].parent \in G \cup {None}
      <4>1. g \in Existing(T)
        BY DEF sound, Sound
      <4>2. PICK path : path = T[g].ancestor_path
        OBVIOUS
      <4>3. /\ DOMAIN PathOf(T, g) = 1 .. Len(path) + 1 /\ PathOf(T, g)[Len(path) + 1] = g
            /\ \A n \in 1 .. Len(path) : PathOf(T, g)[n] = path[n]
            /\ Len(path) \in Nat /\ path \in Seq(Ids)
        BY <4>1, <4>2, PathOfFacts
      <4>4. g # c
        BY <4>3
      <4>5. /\ U[g].parent = T[g].parent /\ Right(U, g)
            /\ T[g].parent \in sound \cup {None} /\ T[g].parent \in Existing(U) \cup {None}
        BY <1>1, <1>2, <4>1, <4>4
      <4>6. ASSUME T[g].parent # None
            PROVE  ~On(T[g].parent)
        <5>1. PathOf(T, T[g].parent) = path
          <6>1. Right(T, g)
            BY <1>2
          <6> QED
            BY <4>2, <4>6, <6>1 DEF Right, AncestorPathUnder, PathOf
        <5>2. DOMAIN path = 1 .. Len(path)
          BY <4>3, LenProperties
        <5>3. \A n \in 1 .. Len(path) : n \in 1 .. Len(path) + 1
          BY <4>3
        <5> QED
          BY <4>3, <5>1, <5>2, <5>3
      <4> QED
        BY <4>5, <4>6
    <3> HIDE DEF G
    <3>3. G \subseteq Existing(U)
      BY DEF G
    <3> QED
      BY <3>1, <3>2, <3>3, ClosedIsSound DEF still
  <2> QED
    BY <2>1, <2>2
<1>6. ASSUME NEW i \in Existing(U), Changed(T, U, i), U[i].parent \in sound \cup {None}
      PROVE  i \in still
  <2>1. i = c
    BY <1>1, <1>6 DEF Changed, Existing
  <2>2. Right(U, i)
    BY <1>1, <2>1
  <2>3. CASE U[i].parent = None
    BY <2>2, <2>3, SoundTop DEF still
  <2>4. CASE U[i].parent \in sound
    <3>1. U[i].parent \in Existing(U)
      BY <1>1, <1>3, <2>4 DEF sound, Sound
    <3>2. U[i].parent \in still
      BY <1>4, <1>6, <2>1, <2>4, <3>1
    <3> QED
      BY <2>2, <3>2, SoundBelow DEF still
  <2> QED
    BY <1>6, <2>3, <2>4
<1> QED
  BY <1>5, <1>6 DEF SpreadsNoDamage, sound, still

\* Both the table and the objects read from it are tables.
LEMMA Types == TypeOK => rows \in Tables /\ objects \in Tables
BY DEF TypeOK, Tables

\* TableInv says in particular that every parent exists.
LEMMA LinksExist == TableInv => ParentsExist(rows)
BY DEF TableInv, ParentsExist

\* A repair that has locked no row, if there is one, has nothing to do.
LEMMA NothingHeld ==
  ASSUME IInv, Held = {}, UNCHANGED repair
  PROVE  ReadInv' /\ WalkInv'
<1>1. Held' = {} /\ pc' = pc /\ objects' = objects /\ to_visit' = to_visit /\ repaired' = repaired
  BY DEF repair, Held, Existing
<1>2. ReadInv'
  BY <1>1 DEF IInv, ReadInv
<1>3. pc = "walking" => to_visit = {} /\ repaired = {}
  BY DEF IInv, WalkInv, Visited
<1>4. pc' = "walking" => Visited({})'
  BY <1>1, <1>3 DEF Visited
<1> QED
  BY <1>1, <1>2, <1>4 DEF WalkInv

\* A step of somebody else keeps the invariant if it keeps the foreign key.
LEMMA ChangeKeeps ==
  ASSUME IInv, Held = {}, UNCHANGED repair, rows' \in Tables,
         lastId' \in (FirstId - 1) .. LastId, TableInv'
  PROVE  IInv'
<1>1. TypeOK'
  BY DEF IInv, TypeOK, Tables, repair
<1> QED
  BY <1>1, NothingHeld DEF IInv

\* A new category starts with a right path, and changes no other row.
LEMMA CreateFacts ==
  ASSUME IInv, Create
  PROVE  IInv' /\ \E c \in Ids : Edit(rows, rows', c)
<1> USE DEF IInv
<1>1. PICK name, parent, row :
        /\ name \in Names /\ parent \in Existing(rows) \cup {None}
        /\ row = [parent |-> parent, name |-> name, ancestor_path |-> AncestorPathUnder(rows, parent)]
        /\ Held = {} /\ lastId < LastId
        /\ lastId' = lastId + 1
        /\ rows' = [rows EXCEPT ![lastId + 1] = row]
        /\ UNCHANGED repair
  BY DEF Create
<1> name \in Names /\ parent \in Existing(rows) \cup {None}
  BY <1>1
<1>2. PICK c : c = lastId + 1
  OBVIOUS
<1>3. rows \in Tables /\ parent \in Ids \cup {None}
  BY Types, ExistingFacts
<1>4. row \in Row /\ row # NoRow
  BY <1>1, <1>3, AncestorPathType, IdsFacts DEF Row
<1>5. c \in Ids /\ c \notin Existing(rows) /\ lastId' \in (FirstId - 1) .. LastId
  BY <1>1, <1>2, IdsAssumption DEF TypeOK, TableInv, Ids
<1>6. /\ rows' \in Tables /\ Existing(rows') = Existing(rows) \cup {c}
      /\ rows'[c] = row /\ \A i \in Existing(rows) : rows'[i] = rows[i]
  BY <1>1, <1>2, <1>3, <1>4, <1>5 DEF Tables, Existing
<1>7. TableInv'
  <2>1. c <= lastId' /\ \A i \in Existing(rows) : i <= lastId'
    BY <1>1, <1>2, IdsAssumption, ExistingFacts, Types DEF TableInv, TypeOK, Ids
  <2>2. row.parent = parent
    BY <1>1
  <2> QED
    BY <1>6, <2>1, <2>2 DEF TableInv
<1>8. \A p \in Existing(rows) \cup {None} : AncestorPathUnder(rows', p) = AncestorPathUnder(rows, p)
  BY <1>6 DEF AncestorPathUnder
<1>9. Right(rows', c)
  <2>1. row.parent = parent /\ row.ancestor_path = AncestorPathUnder(rows, parent)
    BY <1>1
  <2>2. AncestorPathUnder(rows', parent) = AncestorPathUnder(rows, parent)
    BY <1>8
  <2>3. rows'[c] = row
    BY <1>6
  <2> QED
    BY <2>1, <2>2, <2>3 DEF Right
<1>10. ASSUME NEW i \in Existing(rows), Right(rows, i)
       PROVE  Right(rows', i)
  <2>1. rows[i].parent \in Existing(rows) \cup {None}
    BY DEF TableInv
  <2> QED
    BY <1>6, <1>8, <1>10, <2>1 DEF Right
<1>11. Edit(rows, rows', c)
  <2>1. ParentsExist(rows')
    BY <1>7 DEF TableInv, ParentsExist
  <2> QED
    BY <1>6, <1>9, <1>10, <2>1 DEF Edit
<1> QED
  BY <1>1, <1>5, <1>6, <1>7, <1>11, ChangeKeeps

\* The update of a category in a table with wrong paths: what was right stays
\* right, and the category's own path becomes what its new parent's path says.
LEMMA UpdateFacts ==
  ASSUME IInv, Update
  PROVE  IInv' /\ \E c \in Ids : Edit(rows, rows', c)
<1> USE DEF IInv
<1>1. PICK c \in Existing(rows), name \in Names, parent \in Existing(rows) \cup {None} :
        LET row    == Wanted(rows, [id |-> c, name |-> name, parent |-> parent])
            saved  == [rows EXCEPT ![c] = row]
            writes == IF PathOf(saved, c) = PathOf(rows, c) THEN NoWrites
                      ELSE Rewritten(saved, PathOf(rows, c), PathOf(saved, c))
        IN  /\ Held = {}
            /\ UpdateVerdict(rows, [id |-> c], row) = "ok"
            /\ rows' = Written(saved, writes)
            /\ UNCHANGED <<lastId, repair>>
  BY ZenonT(60) DEF Update
<1>2. PICK row : row = Wanted(rows, [id |-> c, name |-> name, parent |-> parent])
  OBVIOUS
<1>3. PICK saved : saved = [rows EXCEPT ![c] = row]
  OBVIOUS
<1>4. /\ Held = {} /\ UpdateVerdict(rows, [id |-> c], row) = "ok"
      /\ rows' = Written(saved, IF PathOf(saved, c) = PathOf(rows, c) THEN NoWrites
                                ELSE Rewritten(saved, PathOf(rows, c), PathOf(saved, c)))
      /\ UNCHANGED <<lastId, repair>>
  BY <1>1, <1>2, <1>3
<1>5. /\ rows \in Tables /\ ParentsExist(rows) /\ c \in Ids /\ parent \in Ids \cup {None}
      /\ rows[c].ancestor_path \in Seq(Ids)
  BY Types, LinksExist, ExistingFacts, RowFields
<1>6. row = [parent |-> parent, name |-> name, ancestor_path |-> AncestorPathUnder(rows, parent)]
  BY <1>2, <1>5, MarkersAssumption DEF Wanted
<1>7. /\ row \in Row /\ row # NoRow /\ row.parent = parent
      /\ row.ancestor_path = AncestorPathUnder(rows, parent) /\ row.ancestor_path \in Seq(Ids)
  BY <1>5, <1>6, AncestorPathType, IdsFacts DEF Row
<1>8. /\ saved \in Tables /\ Existing(saved) = Existing(rows) /\ saved[c] = row
      /\ \A i \in Existing(rows) \ {c} : saved[i] = rows[i]
      /\ PathOf(saved, c) = FullPath(row.ancestor_path, c)
  BY <1>3, <1>5, <1>7 DEF Tables, Existing, PathOf
<1>9. CASE PathOf(saved, c) = PathOf(rows, c)
  <2>1. rows' = saved
    BY <1>4, <1>8, <1>9 DEF Written, NoWrites, Tables
  <2>2. row.ancestor_path = rows[c].ancestor_path
    BY <1>5, <1>7, <1>8, <1>9, FullPathInjective DEF PathOf
  <2>3. parent # c
    <3>1. FullPath(rows[c].ancestor_path, c) # rows[c].ancestor_path
      BY <1>5, FullPathIsLonger, StartsWithItself
    <3> QED
      BY <1>5, <1>7, <2>2, <3>1, IdsFacts DEF AncestorPathUnder
  <2>4. TableInv'
    BY <1>4, <1>7, <1>8, <2>1 DEF TableInv
  <2>5. \A p \in Existing(rows) \cup {None} : AncestorPathUnder(rows', p) = AncestorPathUnder(rows, p)
    BY <1>8, <2>1, <2>2 DEF AncestorPathUnder
  <2>6. ASSUME NEW i \in Existing(rows), i = c \/ Right(rows, i)
        PROVE  Right(rows', i)
    <3>1. rows[i].parent \in Existing(rows) \cup {None}
      BY DEF TableInv
    <3> QED
      BY <1>7, <1>8, <2>1, <2>5, <2>6, <3>1 DEF Right
  <2>7. Edit(rows, rows', c)
    <3>1. ParentsExist(rows')
      BY <2>4 DEF TableInv, ParentsExist
    <3> QED
      BY <1>8, <2>1, <2>6, <3>1 DEF Edit
  <2> QED
    BY <1>4, <1>5, <1>8, <2>1, <2>4, <2>7, ChangeKeeps DEF TypeOK
<1>10. CASE PathOf(saved, c) # PathOf(rows, c)
  <2>1. row.ancestor_path # rows[c].ancestor_path
    BY <1>8, <1>10 DEF PathOf
  <2>2. ~MovedIntoOwnSubtree(rows, c, row)
    BY <1>4, <2>1 DEF UpdateVerdict
  <2>3. ~StartsWith(row.ancestor_path, PathOf(rows, c))
    <3>1. CASE parent = None
      BY <1>5, <1>7, <3>1, FullPathIsLonger DEF AncestorPathUnder, PathOf
    <3>2. CASE parent # None
      BY <1>7, <2>2, <3>2 DEF MovedIntoOwnSubtree
    <3> QED
      BY <3>1, <3>2
  <2> DEFINE U == Written([rows EXCEPT ![c] = row],
                          Rewritten([rows EXCEPT ![c] = row], PathOf(rows, c),
                                    FullPath(row.ancestor_path, c)))
  <2>4. rows' = U
    BY <1>3, <1>4, <1>8, <1>10
  <2>5. /\ rows' \in Tables /\ Existing(rows') = Existing(rows) /\ rows'[c] = row
        /\ \A i \in Existing(rows) \ {c} : rows'[i].parent = rows[i].parent /\ rows'[i].name = rows[i].name
        /\ \A i \in Existing(rows) : i = c \/ Right(rows, i) => Right(rows', i)
    <3>1. /\ U \in Tables /\ Existing(U) = Existing(rows) /\ U[c] = row
          /\ \A i \in Existing(rows) \ {c} : U[i].parent = rows[i].parent /\ U[i].name = rows[i].name
          /\ \A i \in Existing(rows) : i = c \/ Right(rows, i) => Right(U, i)
      <4>1. row.parent \in Existing(rows) \cup {None} /\ row.ancestor_path = AncestorPathUnder(rows, row.parent)
        BY <1>7
      <4> QED
        BY <1>5, <1>7, <2>3, <4>1, MoveSpreadsNoDamage
    <3> HIDE DEF U
    <3> QED
      BY <2>4, <3>1
  <2> HIDE DEF U
  <2>6. TableInv'
    BY <1>4, <1>7, <2>5 DEF TableInv
  <2>7. Edit(rows, rows', c)
    <3>1. ParentsExist(rows')
      BY <2>6 DEF TableInv, ParentsExist
    <3> QED
      BY <2>5, <3>1 DEF Edit
  <2> QED
    BY <1>4, <1>5, <2>5, <2>6, <2>7, ChangeKeeps DEF TypeOK
<1> QED
  BY <1>9, <1>10

\* Only a category without children is deleted, so no path loses its meaning.
LEMMA DeleteFacts ==
  ASSUME IInv, Delete
  PROVE  IInv' /\ \E c \in Ids : Edit(rows, rows', c)
<1> USE DEF IInv
<1>1. PICK c \in Existing(rows) :
        /\ Held = {} /\ Children(rows, c) = {}
        /\ rows' = [rows EXCEPT ![c] = NoRow] /\ UNCHANGED <<lastId, repair>>
  BY DEF Delete
<1>2. rows \in Tables
  BY Types
<1>3. /\ rows' \in Tables /\ Existing(rows') = Existing(rows) \ {c}
      /\ \A i \in Existing(rows') : rows'[i] = rows[i]
      /\ \A i \in Existing(rows') : rows[i].parent \in Existing(rows') \cup {None}
  BY <1>1, <1>2 DEF Tables, Existing, Children, TableInv
<1>4. TableInv'
  BY <1>1, <1>3 DEF TableInv
<1>5. \A i \in Existing(rows') : AncestorPathUnder(rows', rows[i].parent) = AncestorPathUnder(rows, rows[i].parent)
  BY <1>3 DEF AncestorPathUnder
<1>6. \A i \in Existing(rows') : Right(rows', i) <=> Right(rows, i)
  BY <1>3, <1>5 DEF Right
<1>7. Edit(rows, rows', c)
  <2>1. ParentsExist(rows') /\ c \notin Existing(rows')
    BY <1>3, <1>4 DEF TableInv, ParentsExist
  <2>2. \A i \in Existing(rows') : i \in Existing(rows)
    BY <1>3
  <2> QED
    BY <1>3, <1>6, <2>1, <2>2 DEF Edit
<1>8. c \in Ids
  BY <1>2, ExistingFacts
<1> QED
  BY <1>1, <1>3, <1>4, <1>7, <1>8, ChangeKeeps DEF TypeOK

\* The command keeps its invariant whatever the damage done before it took the lock.
LEMMA SetFieldKeeps ==
  ASSUME IInv, SetParent \/ SetPath
  PROVE  IInv'
<1> USE DEF IInv
<1>1. PICK c \in Existing(rows), row \in Row :
        /\ Held = {} /\ rows' = [rows EXCEPT ![c] = row] /\ UNCHANGED <<lastId, repair>>
        /\ row.parent \in Existing(rows) \cup {None}
  <2>1. rows \in Tables
    BY Types
  <2>2. ASSUME SetParent
        PROVE  \E c \in Existing(rows), row \in Row :
                  /\ Held = {} /\ rows' = [rows EXCEPT ![c] = row] /\ UNCHANGED <<lastId, repair>>
                  /\ row.parent \in Existing(rows) \cup {None}
    <3>1. PICK c \in Existing(rows), parent \in Existing(rows) \cup {None} :
            /\ Held = {} /\ rows' = [rows EXCEPT ![c].parent = parent]
            /\ UNCHANGED <<lastId, repair>>
      BY <2>2 DEF SetParent
    <3>2. PICK row : row = [rows[c] EXCEPT !.parent = parent]
      OBVIOUS
    <3>3. rows[c] \in Row /\ parent \in Ids \cup {None}
      BY <2>1, ExistingFacts
    <3>4. row \in Row /\ row.parent = parent
      BY <3>2, <3>3 DEF Row
    <3> QED
      BY <3>1, <3>2, <3>4
  <2>3. ASSUME SetPath
        PROVE  \E c \in Existing(rows), row \in Row :
                  /\ Held = {} /\ rows' = [rows EXCEPT ![c] = row] /\ UNCHANGED <<lastId, repair>>
                  /\ row.parent \in Existing(rows) \cup {None}
    <3>1. PICK c \in Existing(rows), path \in StrayPaths :
            /\ Held = {} /\ rows' = [rows EXCEPT ![c].ancestor_path = path]
            /\ UNCHANGED <<lastId, repair>>
      BY <2>3 DEF SetPath
    <3>2. PICK row : row = [rows[c] EXCEPT !.ancestor_path = path]
      OBVIOUS
    <3>3. rows[c] \in Row /\ path \in Seq(Ids) /\ rows[c].parent \in Existing(rows) \cup {None}
      BY <2>1, ExistingFacts, StrayPathsAssumption DEF TableInv
    <3>4. row \in Row /\ row.parent = rows[c].parent
      BY <3>2, <3>3 DEF Row
    <3> QED
      BY <3>1, <3>2, <3>3, <3>4
  <2> QED
    BY <2>2, <2>3
<1>2. rows \in Tables /\ row # NoRow
  BY <1>1, Types, IdsFacts
<1>3. /\ rows' \in Tables /\ Existing(rows') = Existing(rows)
      /\ rows'[c] = row /\ \A i \in Existing(rows) \ {c} : rows'[i] = rows[i]
  BY <1>1, <1>2 DEF Tables, Existing
<1>4. TableInv'
  BY <1>1, <1>3 DEF TableInv
<1> QED
  BY <1>1, <1>3, <1>4, ChangeKeeps DEF TypeOK

-----------------------------------------------------------------------------
(* The walk                                                                 *)

\* The walk starts from the rows as they are under the lock, with nothing visited.
LEMMA LockKeeps ==
  ASSUME IInv, LockAndRead
  PROVE  IInv'
<1> USE DEF IInv
<1>1. /\ pc' = "walking" /\ dry_run' \in BOOLEAN /\ objects' = rows /\ rows' = rows /\ lastId' = lastId
      /\ to_visit' = Below(rows, None, ROOT_PATH)
      /\ repaired' = {} /\ outcome' = "none"
  BY DEF LockAndRead, table
<1>2. rows \in Tables /\ None \notin Existing(rows)
  BY Types, IdsFacts DEF Existing
<1>3. Held' = Existing(rows)
  BY <1>1 DEF Held
<1>4. \A next \in to_visit' :
        \E c \in Existing(rows) : rows[c].parent = None /\ next = <<ROOT_PATH, c>>
  BY <1>1 DEF Below, Children
<1>5. \A c \in Existing(rows) : rows[c].parent = None => <<ROOT_PATH, c>> \in to_visit'
  BY <1>1 DEF Below, Children
<1>6. \A c \in Existing(rows) : rows[c].parent = None => Spells(rows, ROOT_PATH, c)
  BY <1>2, SpellsRoot
<1>7. TypeOK'
  <2>1. ROOT_PATH \in Seq(Ids) /\ Existing(rows) \subseteq Ids
    BY DEF ROOT_PATH, Existing
  <2>2. to_visit' \subseteq Seq(Ids) \X Ids
    BY <1>4, <2>1
  <2> QED
    BY <1>1, <2>2 DEF TypeOK
<1>8. TableInv' /\ ReadInv'
  BY <1>1, <1>3 DEF TableInv, ReadInv
<1>9. Visited({})'
  <2>1. \A next \in to_visit' : next[2] \in Held' /\ Spells(rows', next[1], next[2])
    BY <1>1, <1>3, <1>4, <1>6
  <2>2. ASSUME NEW c \in Held'
        PROVE  rows'[c].parent = None <=> \E next \in to_visit' : next[2] = c
    <3>1. CASE rows[c].parent = None
      <4>1. <<ROOT_PATH, c>> \in to_visit' /\ <<ROOT_PATH, c>>[2] = c
        BY <1>3, <1>5, <3>1
      <4> QED
        BY <1>1, <3>1, <4>1
    <3>2. CASE rows[c].parent # None
      BY <1>1, <1>4, <3>2
    <3> QED
      BY <3>1, <3>2
  <2> QED
    BY <1>1, <1>3, <2>1, <2>2 DEF Visited
<1> QED
  BY <1>7, <1>8, <1>9 DEF WalkInv

\* The next category is one that the walk has not been to: what is on the stack
\* for it is the one path that its links spell.
LEMMA VisitKeeps ==
  ASSUME IInv, Visit
  PROVE  IInv'
<1> USE DEF IInv
<1>1. PICK next, expected, category :
        /\ next \in to_visit
        /\ expected = next[1] /\ category = next[2]
        /\ objects' = [objects EXCEPT ![category].ancestor_path = expected]
        /\ repaired' = IF objects[category].ancestor_path # expected
                       THEN repaired \cup {category} ELSE repaired
        /\ to_visit' = (to_visit \ {next})
               \cup Below(objects, category, FullPath(expected, category))
  <2>1. PICK next \in to_visit :
        /\ objects' = [objects EXCEPT ![next[2]].ancestor_path = next[1]]
        /\ repaired' = IF objects[next[2]].ancestor_path # next[1]
                       THEN repaired \cup {next[2]} ELSE repaired
        /\ to_visit' = (to_visit \ {next})
               \cup Below(objects, next[2], FullPath(next[1], next[2]))
    BY DEF Visit
  <2> QED
    BY <2>1
<1> next \in to_visit
  BY <1>1
<1>2. pc = "walking" /\ UNCHANGED <<table, pc, dry_run, outcome>>
  BY DEF Visit
<1>3. rows' = rows /\ lastId' = lastId /\ pc' = "walking"
  BY <1>2 DEF table
<1>4. PICK V \in SUBSET Held : Visited(V)
  BY <1>2 DEF WalkInv
<1>5. /\ rows \in Tables /\ objects \in Tables /\ None \notin Existing(rows)
  BY Types, IdsFacts DEF Existing
<1>6. /\ category \in Held \ V /\ Spells(rows, expected, category)
      /\ next \in Seq(Ids) \X Ids /\ next = <<expected, category>>
      /\ expected \in Seq(Ids) /\ category \in Ids
  BY <1>1, <1>4 DEF Visited, TypeOK
<1>7. /\ Held = Existing(rows) /\ Held \subseteq Ids
      /\ \A c \in Held : objects[c].parent = rows[c].parent
  BY <1>5, <1>6, ExistingFacts DEF ReadInv, Held
<1>8. objects[category] \in Row
  BY <1>5, <1>6, ExistingFacts DEF Held
<1>9. /\ objects' \in Tables /\ Held' = Held
      /\ objects'[category].ancestor_path = expected
      /\ \A c \in Held : objects'[c].parent = rows[c].parent
      /\ \A c \in Held \ {category} : objects'[c] = objects[c]
  <2>1. PICK row : row = [objects[category] EXCEPT !.ancestor_path = expected]
    OBVIOUS
  <2>2. /\ row \in Row /\ row.parent = objects[category].parent
        /\ row.ancestor_path = expected /\ row # NoRow
    BY <1>6, <1>8, <2>1, IdsFacts DEF Row
  <2>3. objects' = [objects EXCEPT ![category] = row]
    BY <1>1, <2>1
  <2>4. objects' \in Tables /\ Existing(objects') = Existing(objects) /\ objects'[category] = row
    BY <1>5, <1>6, <2>2, <2>3 DEF Tables, Existing, Held
  <2> QED
    BY <1>5, <1>7, <2>2, <2>3, <2>4 DEF Held, Tables
<1> DEFINE W == V \cup {category}
           below == FullPath(expected, category)
           Next2 == Below(objects, category, below)
<1>10. below \in Seq(Ids)
  BY <1>6, FullPathIsLonger
<1> HIDE DEF below
<1>11. \A e \in Next2 : \E d \in Held : rows[d].parent = category /\ e = <<below, d>>
  BY <1>7 DEF Below, Children, Held
<1>12. \A d \in Held : rows[d].parent = category => <<below, d>> \in Next2
  BY <1>7 DEF Below, Children, Held
<1>13. to_visit' = (to_visit \ {next}) \cup Next2
  BY <1>1 DEF below
<1> HIDE DEF Next2
<1>14. \A c \in Held : rows[c].parent \in V \cup {None} <=>
         c \in V \/ \E e \in to_visit : e[2] = c
  BY <1>4 DEF Visited
<1>15. category # None /\ rows[category].parent \in V \cup {None}
  BY <1>1, <1>5, <1>6, <1>7, <1>14
<1>16. \A e \in to_visit : e[2] = category => e = next
  <2>1. ASSUME NEW e \in to_visit, e[2] = category
        PROVE  e = next
    <3>1. e \in Seq(Ids) \X Ids /\ Spells(rows, e[1], category)
      BY <1>4, <2>1 DEF Visited, TypeOK
    <3>2. e[1] = expected
      BY <1>5, <1>6, <3>1, SpellsOnePath
    <3> QED
      BY <1>6, <2>1, <3>1, <3>2
  <2> QED
    BY <2>1
<1>17. TypeOK'
  <2>1. to_visit' \subseteq Seq(Ids) \X Ids
    BY <1>7, <1>10, <1>11, <1>13 DEF TypeOK
  <2>2. repaired' \subseteq Ids
    BY <1>1, <1>6 DEF TypeOK
  <2> QED
    BY <1>2, <1>3, <1>9, <2>1, <2>2 DEF TypeOK, Tables
<1>18. TableInv' /\ ReadInv'
  BY <1>3, <1>7, <1>9 DEF TableInv, ReadInv
<1>19. W \subseteq Rooted(rows)
  <2>1. V \subseteq Rooted(rows)
    BY <1>4 DEF Visited
  <2> QED
    BY <1>5, <1>6, <1>7, <1>15, <2>1, RootedFromAbove
<1>20. \A c \in W : Spells(rows, objects'[c].ancestor_path, c)
  <2>1. \A c \in V : Spells(rows, objects[c].ancestor_path, c) /\ c \in Held \ {category}
    BY <1>4, <1>6 DEF Visited
  <2> QED
    BY <1>6, <1>9, <2>1
<1>21. \A c \in Held \ W : objects'[c] = rows[c]
  BY <1>4, <1>9 DEF Visited
<1>22. ASSUME NEW e \in to_visit'
       PROVE  e[2] \in Held \ W /\ Spells(rows, e[1], e[2])
  <2>1. CASE e \in to_visit \ {next}
    <3>1. e[2] \in Held \ V /\ Spells(rows, e[1], e[2])
      BY <1>4, <2>1 DEF Visited
    <3> QED
      BY <1>16, <2>1, <3>1
  <2>2. CASE e \in Next2
    <3>1. PICK d \in Held : rows[d].parent = category /\ e = <<below, d>>
      BY <1>11, <2>2
    <3>2. Spells(rows, below, d)
      BY <1>5, <1>6, <1>7, <3>1, SpellsChild DEF below
    <3>3. d \notin V /\ d # category
      BY <1>6, <1>14, <1>15, <3>1
    <3> QED
      BY <3>1, <3>2, <3>3
  <2> QED
    BY <1>13, <2>1, <2>2
<1>23. ASSUME NEW c \in Held
       PROVE  rows[c].parent \in W \cup {None} <=> c \in W \/ \E e \in to_visit' : e[2] = c
  <2>1. ASSUME rows[c].parent \in W \cup {None}
        PROVE  c \in W \/ \E e \in to_visit' : e[2] = c
    <3>1. CASE rows[c].parent = category
      <4>1. <<below, c>> \in to_visit' /\ <<below, c>>[2] = c
        BY <1>12, <1>13, <3>1
      <4> QED
        BY <4>1
    <3>2. CASE rows[c].parent # category
      <4>1. c \in V \/ \E e \in to_visit : e[2] = c
        BY <1>14, <2>1, <3>2
      <4> QED
        BY <1>1, <1>13, <4>1
    <3> QED
      BY <3>1, <3>2
  <2>2. ASSUME c \in W \/ \E e \in to_visit' : e[2] = c
        PROVE  rows[c].parent \in W \cup {None}
    <3>1. CASE \E e \in Next2 : e[2] = c
      <4>1. PICK d \in Held : rows[d].parent = category /\ d = c
        BY <1>11, <3>1
      <4> QED
        BY <4>1
    <3>2. CASE c = category
      BY <1>15, <3>2
    <3>3. CASE c \in V \/ \E e \in to_visit : e[2] = c
      BY <1>14, <3>3
    <3> QED
      BY <1>13, <2>2, <3>1, <3>2, <3>3
  <2> QED
    BY <2>1, <2>2
<1>24. repaired' = {c \in W : objects'[c].ancestor_path # rows[c].ancestor_path}
  <2>1. repaired = {c \in V : objects[c].ancestor_path # rows[c].ancestor_path}
    BY <1>4 DEF Visited
  <2>2. objects[category] = rows[category]
    BY <1>4, <1>6 DEF Visited
  <2>3. \A c \in V : objects'[c] = objects[c]
    BY <1>6, <1>9
  <2> QED
    BY <1>1, <1>9, <2>1, <2>2, <2>3
<1>25. W \in SUBSET Held' /\ Visited(W)'
  <2> HIDE DEF W
  <2>1. /\ W \subseteq Rooted(rows')
        /\ \A c \in W : Spells(rows', objects'[c].ancestor_path, c)
        /\ \A c \in Held' \ W : objects'[c] = rows'[c]
        /\ \A e \in to_visit' : e[2] \in Held' \ W /\ Spells(rows', e[1], e[2])
        /\ \A c \in Held' : rows'[c].parent \in W \cup {None} <=>
             c \in W \/ \E e \in to_visit' : e[2] = c
        /\ repaired' = {c \in W : objects'[c].ancestor_path # rows'[c].ancestor_path}
    BY <1>3, <1>9, <1>19, <1>20, <1>21, <1>22, <1>23, <1>24
  <2>2. W \in SUBSET Held'
    BY <1>6, <1>9 DEF W
  <2> QED
    BY <2>1, <2>2 DEF Visited
<1> QED
  BY <1>17, <1>18, <1>25 DEF WalkInv

\* When the stack is empty, what the walk has not visited hangs in the air: it has
\* been to every rooted category, and reports those whose path was not the one
\* that the links spell.
LEMMA WalkEnds ==
  ASSUME IInv, pc = "walking", to_visit = {}, Held # {}
  PROVE  /\ repaired = Misplaced(rows)
         /\ \A c \in Rooted(rows) : c \in Held /\ Spells(rows, objects[c].ancestor_path, c)
         /\ \A c \in Rooted(rows) \ repaired : objects[c].ancestor_path = rows[c].ancestor_path
<1> USE DEF IInv
<1>1. PICK V \in SUBSET Held : Visited(V)
  BY DEF WalkInv
<1>2. /\ rows \in Tables /\ objects \in Tables /\ None \notin Existing(rows)
      /\ Held = Existing(rows)
  BY Types, IdsFacts DEF Existing, ReadInv
<1>3. Airborne(rows, Held \ V)
  <2>1. ASSUME NEW c \in Held \ V
        PROVE  rows[c].parent \in Held \ V
    <3>1. rows[c].parent \notin V \cup {None}
      BY <1>1 DEF Visited
    <3>2. rows[c].parent \in Held \cup {None}
      BY <1>2 DEF TableInv
    <3> QED
      BY <3>1, <3>2
  <2> QED
    BY <2>1 DEF Airborne
<1>4. V = Rooted(rows)
  <2>1. (Held \ V) \cap Rooted(rows) = {}
    BY <1>2, <1>3, AirborneIsNotRooted
  <2>2. Rooted(rows) \subseteq Held /\ V \subseteq Rooted(rows)
    BY <1>1, <1>2 DEF Rooted, Visited
  <2> QED
    BY <2>1, <2>2
<1>5. \A c \in V : Spells(rows, objects[c].ancestor_path, c)
  BY <1>1 DEF Visited
<1>6. repaired = {c \in V : objects[c].ancestor_path # rows[c].ancestor_path}
  BY <1>1 DEF Visited
<1>7. ASSUME NEW c \in V
      PROVE  objects[c].ancestor_path = rows[c].ancestor_path
                <=> Spells(rows, rows[c].ancestor_path, c)
  <2>1. c \in Ids /\ objects[c] \in Row /\ rows[c] \in Row
    BY <1>2, ExistingFacts DEF Held
  <2>2. objects[c].ancestor_path \in Seq(Ids) /\ rows[c].ancestor_path \in Seq(Ids)
    BY <2>1, RowFields
  <2>3. Spells(rows, objects[c].ancestor_path, c)
    BY <1>5
  <2> QED
    BY <1>2, <2>1, <2>2, <2>3, SpellsOnePath
<1>8. repaired = Misplaced(rows)
  BY <1>4, <1>6, <1>7 DEF Misplaced
<1> QED
  BY <1>4, <1>5, <1>6, <1>8

\* The one statement writes paths into the rows that are reported.
LEMMA CorrectionsFacts ==
  ASSUME IInv, pc = "walking", NEW U, U = Written(rows, Corrections)
  PROVE  /\ U \in Tables /\ Existing(U) = Existing(rows)
         /\ \A c \in Existing(rows) : U[c].parent = rows[c].parent
         /\ \A c \in Existing(rows) \cap repaired : U[c].ancestor_path = objects[c].ancestor_path
         /\ \A c \in Existing(rows) \ repaired : U[c] = rows[c]
<1> USE DEF IInv
<1>1. PICK V \in SUBSET Held : Visited(V)
  BY DEF WalkInv
<1>2. rows \in Tables /\ objects \in Tables
  BY Types
<1>3. repaired \subseteq Held
  BY <1>1 DEF Visited
<1>4. ASSUME NEW c \in Existing(rows) \cap repaired
      PROVE  /\ U[c] \in Row /\ U[c].parent = rows[c].parent
             /\ U[c].ancestor_path = objects[c].ancestor_path
  <2>1. /\ c \in Ids /\ rows[c] \in Row /\ objects[c].ancestor_path \in Seq(Ids)
    BY <1>2, <1>3, ExistingFacts, RowFields DEF Held
  <2>2. PICK row : row = [rows[c] EXCEPT !.ancestor_path = objects[c].ancestor_path]
    OBVIOUS
  <2>3. /\ row \in Row /\ row.parent = rows[c].parent
        /\ row.ancestor_path = objects[c].ancestor_path
    BY <2>1, <2>2 DEF Row
  <2>4. Corrections[c] = row /\ row # Untouched
    BY <2>1, <2>2, <2>3, IdsFacts DEF Corrections
  <2>5. U[c] = row
    BY <2>1, <2>4 DEF Written
  <2> QED
    BY <2>3, <2>5
<1>5. \A c \in Ids : c \notin Existing(rows) \cap repaired => U[c] = rows[c]
  BY DEF Written, Corrections
<1>6. U \in Tables
  <2>1. DOMAIN U = Ids /\ U = [c \in Ids |-> U[c]]
    BY DEF Written
  <2>2. \A c \in Ids : U[c] \in Row \cup {NoRow}
    BY <1>2, <1>4, <1>5 DEF Tables
  <2> QED
    BY <2>1, <2>2 DEF Tables
<1>7. Existing(U) = Existing(rows)
  BY <1>4, <1>5, IdsFacts DEF Existing
<1> QED
  BY <1>4, <1>5, <1>6, <1>7 DEF Existing

\* At its end the repair has nothing in hand, and the foreign key holds.
LEMMA EndKeeps ==
  ASSUME IInv, NEW result \in {"ok", "refused", "lost"}, NEW report \in SUBSET Ids,
         End(result, report), lastId' = lastId,
         rows' \in Tables, Existing(rows') = Existing(rows),
         \A c \in Existing(rows) : rows'[c].parent = rows[c].parent
  PROVE  IInv'
<1> USE DEF IInv
<1>1. NoObjects \in Tables /\ Existing(NoObjects) = {}
  BY DEF NoObjects, Tables, Existing
<1>2. /\ pc' = "idle" /\ dry_run' = FALSE /\ objects' = NoObjects /\ to_visit' = {}
      /\ repaired' = report /\ outcome' = result /\ Held' = {}
  BY <1>1 DEF End, Held
<1>3. TypeOK'
  BY <1>1, <1>2 DEF TypeOK, Tables
<1>4. TableInv' /\ ReadInv' /\ WalkInv'
  BY <1>2 DEF TableInv, ReadInv, WalkInv
<1> QED
  BY <1>3, <1>4

\* Writing the corrections, and dropping the lock with them, keeps the invariant.
LEMMA FinishKeeps ==
  ASSUME IInv, Finish
  PROVE  IInv'
<1> USE DEF IInv
<1>1. pc = "walking" /\ lastId' = lastId /\ rows \in Tables /\ repaired \in SUBSET Ids
  BY Types DEF Finish, TypeOK
<1>2. CASE rows' = rows
  <2>1. End("ok", repaired) \/ End("refused", {})
    BY DEF Finish
  <2> QED
    BY <1>1, <1>2, <2>1, EndKeeps
<1>3. CASE rows' # rows
  <2>1. End("ok", repaired) /\ rows' = Written(rows, Corrections)
    BY <1>3 DEF Finish
  <2>2. PICK U : U = Written(rows, Corrections)
    OBVIOUS
  <2>3. /\ U \in Tables /\ Existing(U) = Existing(rows)
        /\ \A c \in Existing(rows) : U[c].parent = rows[c].parent
    BY <1>1, <2>2, CorrectionsFacts
  <2> QED
    BY <1>1, <2>1, <2>2, <2>3, EndKeeps
<1> QED
  BY <1>2, <1>3

\* So does giving up, which writes nothing.
LEMMA AbortKeeps ==
  ASSUME IInv, Abort
  PROVE  IInv'
<1>1. End("lost", {}) /\ rows' = rows /\ lastId' = lastId /\ rows \in Tables
  BY Types DEF Abort, table, IInv
<1> QED
  BY <1>1, EndKeeps

\* The invariant reads nothing but the variables.
LEMMA StutterKeeps ==
  ASSUME IInv, UNCHANGED vars
  PROVE  IInv'
<1>1. /\ rows' = rows /\ lastId' = lastId /\ pc' = pc /\ dry_run' = dry_run /\ objects' = objects
      /\ to_visit' = to_visit /\ repaired' = repaired /\ outcome' = outcome
  BY DEF vars, table, repair
<1>2. TypeOK' /\ TableInv' /\ ReadInv'
  BY <1>1 DEF IInv, TypeOK, TableInv, ReadInv, Held
<1>3. Held' = Held /\ \A V : Visited(V)' <=> Visited(V)
  BY <1>1 DEF Visited, Held
<1> QED
  BY <1>1, <1>2, <1>3 DEF IInv, WalkInv

-----------------------------------------------------------------------------
(* The theorems                                                             *)

\* The empty table, and no repair, satisfy the invariant.
LEMMA InitEstablishes == Init => IInv
<1> SUFFICES ASSUME Init PROVE IInv
  OBVIOUS
<1>1. NoObjects \in Tables /\ Existing(NoObjects) = {}
  BY DEF NoObjects, Tables, Existing
<1>2. TypeOK
  <2>1. lastId \in (FirstId - 1) .. LastId
    BY IdsAssumption DEF Init
  <2> QED
    BY <1>1, <2>1 DEF Init, TypeOK, Tables
<1>3. TableInv /\ ReadInv /\ WalkInv
  BY <1>1 DEF Init, TableInv, ReadInv, WalkInv, Held
<1> QED
  BY <1>2, <1>3 DEF IInv

\* Every step keeps it.
LEMMA StepKeeps == IInv /\ [Next]_vars => IInv'
<1> SUFFICES ASSUME IInv, [Next]_vars PROVE IInv'
  OBVIOUS
<1>1. CASE Service
  BY <1>1, CreateFacts, UpdateFacts, DeleteFacts DEF Service
<1>2. CASE SetParent \/ SetPath
  BY <1>2, SetFieldKeeps
<1>3. CASE LockAndRead
  BY <1>3, LockKeeps
<1>4. CASE Visit
  BY <1>4, VisitKeeps
<1>5. CASE Finish
  BY <1>5, FinishKeeps
<1>6. CASE Abort
  BY <1>6, AbortKeeps
<1>7. CASE UNCHANGED vars
  BY <1>7, StutterKeeps
<1> QED
  BY <1>1, <1>2, <1>3, <1>4, <1>5, <1>6, <1>7 DEF Next

\* The table keeps its foreign key, and the walk of rebuild_category_paths knows
\* what it has visited.
THEOREM IInvariant == Spec => []IInv
BY InitEstablishes, StepKeeps, PTL DEF Spec

\* Every variable has its type, however long the paths written by hand.
THEOREM TypesAreRight == Spec => []TypeOK
<1>1. IInv => TypeOK
  BY DEF IInv
<1> QED
  BY <1>1, IInvariant, PTL

\* However damaged the table: a request of the category service leaves a category
\* that is placed as the parent links say, all the way up, so placed, unless it
\* puts that category or one above it below a damaged one; and places a category
\* that it creates, puts or renames below such a one as the links say.
THEOREM NoRequestSpreadsDamage == Spec => ServiceSpreadsNoDamage
<1>1. ASSUME IInv, [Next]_vars, Service
      PROVE  SpreadsNoDamage(rows, rows')
  <2>1. IInv' /\ \E c \in Ids : Edit(rows, rows', c)
    BY <1>1, CreateFacts, UpdateFacts, DeleteFacts DEF Service
  <2>2. rows \in Tables /\ rows' \in Tables
    BY <1>1, <2>1 DEF IInv, TypeOK, Tables
  <2> QED
    BY <2>1, <2>2, EditSpreadsNoDamage
<1>2. IInv /\ [Next]_vars => [SpreadsNoDamage(rows, rows') \/ ~Service]_rows
  BY <1>1
<1> QED
  BY <1>2, IInvariant, PTL DEF Spec, ServiceSpreadsNoDamage

\* A repair that ends well is the end of its walk.
LEMMA RepairedIsFinished ==
  ASSUME IInv, Next, Repaired
  PROVE  /\ Finish /\ pc = "walking" /\ to_visit = {} /\ Held # {}
         /\ repaired' = repaired
         /\ dry_run \/ rows' = Written(rows, Corrections)
<1>1. pc = "walking" /\ Held # {} /\ pc' = "idle" /\ outcome' = "ok"
  BY DEF Repaired
<1>2. ~Service /\ ~SetParent /\ ~SetPath
  BY <1>1 DEF Service, Create, Update, Delete, SetParent, SetPath, repair
<1>3. ~LockAndRead /\ ~Visit /\ ~Abort
  BY <1>1 DEF LockAndRead, Visit, Abort, End
<1>4. Finish
  BY <1>2, <1>3 DEF Next
<1> QED
  BY <1>1, <1>4 DEF Finish, End

\* A repair, or its dry run, returns the categories under the top level whose
\* stored path was wrong, and no others.
THEOREM TheReportIsRight == Spec => ReportsWhatWasWrong
<1>1. IInv /\ [Next]_vars => [Repaired => repaired' = Misplaced(rows)]_vars
  BY RepairedIsFinished, WalkEnds
<1> QED
  BY <1>1, IInvariant, PTL DEF Spec, ReportsWhatWasWrong

\* A repair rights the path of every category under the top level, and writes
\* nothing else.
LEMMA RightsWhatItReaches ==
  ASSUME IInv, Next, Repaired, ~dry_run
  PROVE  /\ Misplaced(rows') = {}
         /\ \A c \in Existing(rows) \ Misplaced(rows) : rows'[c] = rows[c]
<1>1. /\ pc = "walking" /\ to_visit = {} /\ Held # {} /\ rows' = Written(rows, Corrections)
  BY RepairedIsFinished
<1>2. /\ repaired = Misplaced(rows)
      /\ \A c \in Rooted(rows) : c \in Held /\ Spells(rows, objects[c].ancestor_path, c)
      /\ \A c \in Rooted(rows) \ repaired : objects[c].ancestor_path = rows[c].ancestor_path
  BY <1>1, WalkEnds
<1>3. PICK U : U = Written(rows, Corrections)
  OBVIOUS
<1>4. /\ U \in Tables /\ Existing(U) = Existing(rows)
      /\ \A c \in Existing(rows) : U[c].parent = rows[c].parent
      /\ \A c \in Existing(rows) \cap repaired : U[c].ancestor_path = objects[c].ancestor_path
      /\ \A c \in Existing(rows) \ repaired : U[c] = rows[c]
  BY <1>1, <1>3, CorrectionsFacts
<1>5. Rooted(U) = Rooted(rows) /\ \A path, c : Spells(U, path, c) <=> Spells(rows, path, c)
  BY <1>4, SpellsByLinks
<1>6. ASSUME NEW c \in Rooted(rows)
      PROVE  Spells(rows, U[c].ancestor_path, c)
  <2>1. U[c].ancestor_path = objects[c].ancestor_path
    BY <1>2, <1>4 DEF Rooted
  <2> QED
    BY <1>2, <2>1
<1>7. Misplaced(U) = {}
  BY <1>5, <1>6 DEF Misplaced
<1> QED
  BY <1>1, <1>2, <1>3, <1>4, <1>7

\* Whatever the table was like, after a repair every category under the top level
\* has the path that its parent links spell, and nothing else has changed.
THEOREM TheRepairIsComplete == Spec => RepairRightsWhatItReaches
<1>1. IInv /\ [Next]_vars =>
        [Repaired /\ ~dry_run =>
        /\ Misplaced(rows') = {}
        /\ \A c \in Existing(rows) \ Misplaced(rows) : rows'[c] = rows[c]]_vars
  BY RightsWhatItReaches
<1> QED
  BY <1>1, IInvariant, PTL DEF Spec, RepairRightsWhatItReaches

=============================================================================
