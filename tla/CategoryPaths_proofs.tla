------------------------ MODULE CategoryPaths_proofs ------------------------
(***************************************************************************)
(* Facts about paths of any length over any ids, on which the correctness  *)
(* of a move rests.                                                        *)
(***************************************************************************)
EXTENDS CategoryPaths, SequenceTheorems, WellFoundedInduction, TLAPS

\* A path is a prefix of a longer one as soon as it is one element for element.
LEMMA PrefixIsPointwise ==
  ASSUME NEW S, NEW s \in Seq(S), NEW t \in Seq(S)
  PROVE  StartsWith(t, s) <=> Len(s) <= Len(t) /\ \A i \in 1 .. Len(s) : s[i] = t[i]
<1>1. ASSUME Len(s) <= Len(t)
      PROVE  /\ SubSeq(s, 1, Len(s)) = s
             /\ SubSeq(t, 1, Len(s)) \in Seq(S)
             /\ Len(SubSeq(t, 1, Len(s))) = Len(s)
             /\ \A i \in 1 .. Len(s) : SubSeq(t, 1, Len(s))[i] = t[i]
  <2>1. \A i \in 1 .. Len(s) : t[i] \in S
    BY <1>1, LenProperties, ElementOfSeq
  <2> QED
    BY <2>1, LenProperties, SubSeqFull, SubSeqProperties
<1>2. CASE Len(s) <= Len(t)
  BY <1>1, <1>2, SeqEqual DEF StartsWith, IsPrefix
<1>3. CASE ~(Len(s) <= Len(t))
  BY <1>3 DEF StartsWith, IsPrefix
<1> QED
  BY <1>2, <1>3

\* A path that starts with the ancestors and one more id is the ancestors' own
\* extension or starts with what the ancestors start with.
LEMMA PrefixOfFullPath ==
  ASSUME NEW S, NEW o \in Seq(S), NEW s \in Seq(S), NEW x \in S
  PROVE  StartsWith(FullPath(s, x), o) <=> StartsWith(s, o) \/ o = FullPath(s, x)
<1> DEFINE t == FullPath(s, x)
<1>1. /\ t \in Seq(S) /\ Len(t) = Len(s) + 1 /\ t[Len(s) + 1] = x
      /\ \A i \in 1 .. Len(s) : t[i] = s[i]
      /\ Len(s) \in Nat /\ Len(o) \in Nat
  BY AppendProperties, LenProperties DEF FullPath
<1> HIDE DEF t
<1>2. ASSUME StartsWith(s, o)
      PROVE  StartsWith(t, o)
  <2>1. Len(o) <= Len(s) /\ \A i \in 1 .. Len(o) : o[i] = s[i]
    BY <1>2, PrefixIsPointwise
  <2>2. Len(o) <= Len(t) /\ \A i \in 1 .. Len(o) : o[i] = t[i]
    BY <1>1, <2>1
  <2> QED
    BY <1>1, <2>2, PrefixIsPointwise
<1>3. o = t => StartsWith(t, o)
  BY <1>1, PrefixIsPointwise
<1>4. ASSUME StartsWith(t, o), Len(o) <= Len(s)
      PROVE  StartsWith(s, o)
  BY <1>1, <1>4, PrefixIsPointwise
<1>5. ASSUME StartsWith(t, o), ~(Len(o) <= Len(s))
      PROVE  o = t
  <2>1. Len(o) = Len(t) /\ \A i \in 1 .. Len(o) : o[i] = t[i]
    BY <1>1, <1>5, PrefixIsPointwise
  <2> QED
    BY <1>1, <2>1, SeqEqual
<1> QED
  BY <1>2, <1>3, <1>4, <1>5 DEF t

\* Two full paths are the same only for the same category in the same place.
LEMMA FullPathInjective ==
  ASSUME NEW S, NEW s \in Seq(S), NEW t \in Seq(S), NEW x \in S, NEW y \in S,
         FullPath(s, x) = FullPath(t, y)
  PROVE  s = t /\ x = y
BY AppendInjective DEF FullPath

\* A path starts with itself.
LEMMA StartsWithItself ==
  ASSUME NEW S, NEW s \in Seq(S)
  PROVE  StartsWith(s, s)
BY PrefixIsPointwise, LenProperties

\* A full path is longer than the root path and than its own ancestors, and no
\* shorter path starts with it.
LEMMA FullPathIsLonger ==
  ASSUME NEW S, NEW s \in Seq(S), NEW x \in S
  PROVE  /\ FullPath(s, x) \in Seq(S)
         /\ Len(FullPath(s, x)) = Len(s) + 1
         /\ FullPath(s, x) # ROOT_PATH
         /\ ~StartsWith(ROOT_PATH, FullPath(s, x))
         /\ ~StartsWith(s, FullPath(s, x))
<1>1. /\ FullPath(s, x) \in Seq(S)
      /\ Len(FullPath(s, x)) = Len(s) + 1 /\ Len(s) \in Nat
      /\ FullPath(s, x) # ROOT_PATH
  BY AppendProperties, LenProperties DEF FullPath, ROOT_PATH
<1>2. ROOT_PATH \in Seq(S) /\ Len(ROOT_PATH) = 0
  BY EmptySeq DEF ROOT_PATH
<1>3. ~StartsWith(ROOT_PATH, FullPath(s, x))
  <2>1. StartsWith(ROOT_PATH, FullPath(s, x)) => Len(FullPath(s, x)) <= Len(ROOT_PATH)
    BY <1>1, <1>2, PrefixIsPointwise
  <2> QED
    BY <1>1, <1>2, <2>1
<1>4. ~StartsWith(s, FullPath(s, x))
  BY <1>1, PrefixIsPointwise
<1> QED
  BY <1>1, <1>3, <1>4

\* Re-rooting a path gives a path.
LEMMA RebaseType ==
  ASSUME NEW S, NEW s \in Seq(S), NEW o \in Seq(S), NEW n \in Seq(S)
  PROVE  Rebase(s, o, n) \in Seq(S)
<1>1. Len(s) \in Nat /\ Len(o) \in Nat
  BY LenProperties
<1>2. \A i \in Len(o) + 1 .. Len(s) : s[i] \in S
  BY <1>1, ElementOfSeq
<1>3. SubSeq(s, Len(o) + 1, Len(s)) \in Seq(S)
  BY <1>1, <1>2, SubSeqProperties
<1> QED
  BY <1>3, ConcatProperties DEF Rebase

\* The old prefix itself becomes the new one.
LEMMA RebasePrefix ==
  ASSUME NEW S, NEW o \in Seq(S), NEW n \in Seq(S)
  PROVE  Rebase(o, o, n) = n
<1>1. SubSeq(o, Len(o) + 1, Len(o)) = <<>>
  BY LenProperties, SubSeqEmpty
<1> QED
  BY <1>1, ConcatEmptySeq DEF Rebase

\* The end of an extended path is the extended end, wherever it is cut.
LEMMA SubSeqOfAppend ==
  ASSUME NEW S, NEW s \in Seq(S), NEW x \in S, NEW m \in 1 .. Len(s) + 1
  PROVE  SubSeq(Append(s, x), m, Len(s) + 1) = Append(SubSeq(s, m, Len(s)), x)
<1> DEFINE t == Append(s, x)
           u == SubSeq(s, m, Len(s))
           a == SubSeq(t, m, Len(s) + 1)
           b == Append(u, x)
<1>1. /\ t \in Seq(S) /\ Len(s) \in Nat /\ Len(t) = Len(s) + 1
      /\ \A i \in 1 .. Len(s) : t[i] = s[i]
      /\ t[Len(s) + 1] = x
  BY AppendProperties, LenProperties
<1>2. /\ \A i \in m .. Len(s) : s[i] \in S
      /\ \A i \in m .. Len(s) + 1 : t[i] \in S
  BY <1>1, ElementOfSeq
<1>3. /\ u \in Seq(S)
      /\ Len(u) = Len(s) - m + 1
      /\ \A i \in 1 .. Len(s) - m + 1 : u[i] = s[m + i - 1]
  BY <1>1, <1>2, SubSeqProperties
<1> HIDE DEF t, u
<1>4. /\ a \in Seq(S)
      /\ Len(a) = Len(s) + 1 - m + 1
      /\ \A i \in 1 .. Len(s) + 1 - m + 1 : a[i] = t[m + i - 1]
  BY <1>1, <1>2, SubSeqProperties
<1>5. /\ b \in Seq(S)
      /\ Len(b) = Len(u) + 1 /\ b[Len(u) + 1] = x
      /\ \A i \in 1 .. Len(u) : b[i] = u[i]
  BY <1>3, AppendProperties
<1> HIDE DEF a, b
<1>6. Len(a) = Len(b)
  BY <1>1, <1>3, <1>4, <1>5
<1>7. ASSUME NEW i \in 1 .. Len(a)
      PROVE  a[i] = b[i]
  <2>1. CASE i <= Len(u)
    <3>1. i \in 1 .. Len(u) /\ i \in 1 .. Len(s) - m + 1 /\ i \in 1 .. Len(s) + 1 - m + 1
      BY <1>1, <1>3, <1>4, <2>1
    <3>2. m + i - 1 \in 1 .. Len(s)
      BY <1>1, <3>1
    <3> QED
      BY <1>1, <1>3, <1>4, <1>5, <3>1, <3>2
  <2>2. CASE i = Len(u) + 1
    <3>1. i = Len(s) + 1 - m + 1 /\ m + i - 1 = Len(s) + 1
      BY <1>1, <1>3, <2>2
    <3>2. a[i] = t[Len(s) + 1]
      BY <1>1, <1>4, <3>1
    <3> QED
      BY <1>1, <1>5, <2>2, <3>2
  <2> QED
    BY <1>1, <1>3, <1>5, <1>6, <2>1, <2>2
<1> QED
  BY <1>4, <1>5, <1>6, <1>7, SeqEqual DEF a, b, t, u

\* Extending a concatenation extends its second part.
LEMMA ConcatAppend ==
  ASSUME NEW S, NEW n \in Seq(S), NEW u \in Seq(S), NEW x \in S
  PROVE  n \o Append(u, x) = Append(n \o u, x)
<1>1. /\ Append(u, x) = u \o <<x>>
      /\ n \o u \in Seq(S) /\ <<x>> \in Seq(S)
      /\ Append(n \o u, x) = (n \o u) \o <<x>>
  BY ConcatProperties, AppendIsConcat
<1> QED
  BY <1>1, ConcatAssociative

\* Re-rooting a child's path is the child of the re-rooted path.
LEMMA RebaseFullPath ==
  ASSUME NEW S, NEW s \in Seq(S), NEW o \in Seq(S), NEW n \in Seq(S), NEW x \in S,
         StartsWith(s, o)
  PROVE  Rebase(FullPath(s, x), o, n) = FullPath(Rebase(s, o, n), x)
<1> DEFINE rest == SubSeq(s, Len(o) + 1, Len(s))
<1>1. /\ Len(s) \in Nat /\ Len(o) \in Nat
      /\ Len(FullPath(s, x)) = Len(s) + 1
      /\ Len(o) + 1 \in 1 .. Len(s) + 1
  BY AppendProperties, LenProperties, PrefixIsPointwise DEF FullPath
<1>2. rest \in Seq(S)
  <2>1. \A i \in Len(o) + 1 .. Len(s) : s[i] \in S
    BY <1>1, ElementOfSeq
  <2> QED
    BY <1>1, <2>1, SubSeqProperties
<1>3. SubSeq(FullPath(s, x), Len(o) + 1, Len(s) + 1)
        = Append(rest, x)
  BY <1>1, SubSeqOfAppend DEF FullPath
<1>4. n \o Append(rest, x) = Append(n \o rest, x)
  <2> HIDE DEF rest
  <2> QED
    BY <1>2, ConcatAppend
<1>5. Rebase(FullPath(s, x), o, n) = n \o SubSeq(FullPath(s, x), Len(o) + 1, Len(s) + 1)
  BY <1>1 DEF Rebase
<1> QED
  BY <1>3, <1>4, <1>5 DEF Rebase, FullPath

-----------------------------------------------------------------------------
(* Lengths                                                                  *)

\* Every set of natural numbers has a least one: induction, where it is needed.
LEMMA LeastOf ==
  ASSUME NEW D \in SUBSET Nat, D # {}
  PROVE  \E d \in D : \A e \in D : d <= e
<1> DEFINE Less == {ss \in Nat \X Nat : ss[1] < ss[2]}
<1>1. IsWellFoundedOn(Less, Nat)
  BY NatLessThanWellFounded DEF OpToRel
<1>2. \A e, d \in Nat : <<e, d>> \notin Less => d <= e
  OBVIOUS
<1> HIDE DEF Less
<1>3. \E d \in D : \A e \in D : <<e, d>> \notin Less
  BY <1>1, WFMin
<1> QED
  BY <1>2, <1>3

\* The numbers of digits, of the ids up to m.
DigitsUpTo(g, m) ==
  /\ g \in [0 .. m -> Nat]
  /\ \A n \in 0 .. m : g[n] = IF n < 10 THEN 1 ELSE 1 + g[n \div 10]

\* Dropping the last digit of a number makes it smaller.
LEMMA FewerDigits ==
  ASSUME NEW n \in Nat, ~(n < 10)
  PROVE  n \div 10 \in Nat /\ n \div 10 < n
OBVIOUS

\* The digit count is defined for every number up to any bound.
LEMMA DigitsUpToExists == \A m \in Nat : \E g : DigitsUpTo(g, m)
<1> DEFINE Bad == {m \in Nat : ~\E g : DigitsUpTo(g, m)}
<1>1. SUFFICES ASSUME Bad # {}
               PROVE  FALSE
  OBVIOUS
<1>2. PICK m \in Bad : \A k \in Bad : m <= k
  BY <1>1, LeastOf
<1>3. CASE m = 0
  <2>1. DigitsUpTo([n \in 0 .. 0 |-> 1], 0)
    BY DEF DigitsUpTo
  <2> QED
    BY <1>2, <1>3, <2>1
<1>4. CASE m # 0
  <2>1. m \in Nat /\ m - 1 \in Nat /\ ~(m <= m - 1)
    BY <1>2, <1>4
  <2>2. PICK g : DigitsUpTo(g, m - 1)
    BY <1>2, <2>1
  <2> DEFINE h == [n \in 0 .. m |-> IF n < m THEN g[n]
                                    ELSE IF n < 10 THEN 1 ELSE 1 + g[n \div 10]]
  <2>3. \A n \in 0 .. m : n < m => n \in 0 .. m - 1 /\ h[n] = g[n] /\ g[n] \in Nat
    BY <2>1, <2>2 DEF DigitsUpTo
  <2>4. \A n \in 0 .. m : ~(n < 10) => n \div 10 \in 0 .. m /\ n \div 10 < m
    BY <2>1, FewerDigits
  <2>5. \A n \in 0 .. m : h[n] = IF n < 10 THEN 1 ELSE 1 + h[n \div 10]
    <3>1. TAKE n \in 0 .. m
    <3>2. CASE n < m
      <4>1. g[n] = IF n < 10 THEN 1 ELSE 1 + g[n \div 10]
        BY <2>2, <2>3, <3>2 DEF DigitsUpTo
      <4> HIDE DEF h
      <4> QED
        BY <2>3, <2>4, <3>2, <4>1
    <3>3. CASE n = m
      <4>1. h[n] = IF n < 10 THEN 1 ELSE 1 + g[n \div 10]
        BY <2>1, <3>3
      <4> HIDE DEF h
      <4> QED
        BY <2>3, <2>4, <4>1
    <3> QED
      BY <2>1, <3>2, <3>3
  <2>6. h \in [0 .. m -> Nat]
    <3>1. \A n \in 0 .. m : h[n] \in Nat
      <4> HIDE DEF h
      <4>1. TAKE n \in 0 .. m
      <4>2. CASE n < m
        BY <2>3, <4>2
      <4>3. CASE ~(n < m)
        BY <2>3, <2>4, <2>5
      <4> QED
        BY <4>2, <4>3
    <3> QED
      BY <3>1
  <2>7. DigitsUpTo(h, m)
    BY <2>5, <2>6 DEF DigitsUpTo
  <2> QED
    BY <1>2, <2>7
<1> QED
  BY <1>3, <1>4

\* And only one function defines it.
LEMMA DigitsUpToUnique ==
  ASSUME NEW m \in Nat, NEW k \in Nat, NEW g, NEW h,
         DigitsUpTo(g, m), DigitsUpTo(h, k),
         NEW n \in Nat, n <= m, n <= k
  PROVE  g[n] = h[n]
<1> DEFINE Bad == {j \in Nat : j <= m /\ j <= k /\ g[j] # h[j]}
<1>1. SUFFICES ASSUME Bad # {}
               PROVE  FALSE
  OBVIOUS
<1>2. PICK j \in Bad : \A i \in Bad : j <= i
  BY <1>1, LeastOf
<1>3. /\ g[j] = IF j < 10 THEN 1 ELSE 1 + g[j \div 10]
      /\ h[j] = IF j < 10 THEN 1 ELSE 1 + h[j \div 10]
  BY <1>2 DEF DigitsUpTo
<1>4. ~(j < 10)
  BY <1>2, <1>3
<1>5. j \div 10 \in Nat /\ j \div 10 < j
  BY <1>2, <1>4, FewerDigits
<1>6. j \div 10 \notin Bad
  BY <1>2, <1>5
<1>7. g[j \div 10] = h[j \div 10]
  BY <1>2, <1>5, <1>6
<1> QED
  BY <1>2, <1>3, <1>4, <1>7

\* An id takes one character more than it does without its last digit.
LEMMA DigitsStep ==
  /\ DOMAIN Digits = Nat
  /\ \A n \in Nat : Digits[n] = IF n < 10 THEN 1 ELSE 1 + Digits[n \div 10]
  /\ Digits = [n \in Nat |-> Digits[n]]
<1> DEFINE Eq(f) == f = [n \in Nat |-> IF n < 10 THEN 1 ELSE 1 + f[n \div 10]]
           G(m) == CHOOSE g : DigitsUpTo(g, m)
           F == [n \in Nat |-> G(n)[n]]
<1>1. \A m \in Nat : DigitsUpTo(G(m), m)
  BY DigitsUpToExists
<1> HIDE DEF G
<1>2. Eq(F)
  <2>1. ASSUME NEW n \in Nat
        PROVE  F[n] = IF n < 10 THEN 1 ELSE 1 + F[n \div 10]
    <3>1. G(n)[n] = IF n < 10 THEN 1 ELSE 1 + G(n)[n \div 10]
      BY <1>1 DEF DigitsUpTo
    <3>2. CASE n < 10
      BY <3>1, <3>2
    <3>3. CASE ~(n < 10)
      <4>1. n \div 10 \in Nat /\ n \div 10 <= n /\ n \div 10 <= n \div 10
        BY <3>3, FewerDigits
      <4>2. DigitsUpTo(G(n), n) /\ DigitsUpTo(G(n \div 10), n \div 10)
        BY <1>1, <4>1
      <4>3. G(n)[n \div 10] = G(n \div 10)[n \div 10]
        BY <4>1, <4>2, DigitsUpToUnique
      <4> QED
        BY <3>1, <3>3, <4>1, <4>3
    <3> QED
      BY <3>2, <3>3
  <2> QED
    BY <2>1
<1>3. Eq(Digits)
  <2>1. \E f : Eq(f)
    BY <1>2
  <2> HIDE DEF Eq
  <2>2. Eq(CHOOSE f : Eq(f))
    BY <2>1
  <2> QED
    BY <2>2 DEF Digits, Eq
<1> QED
  BY <1>3

\* Every id takes some number of characters.
LEMMA DigitsType == Digits \in [Nat -> Nat]
<1>1. \A n \in Nat : Digits[n] \in Nat
  <2> DEFINE Bad == {n \in Nat : Digits[n] \notin Nat}
  <2>1. SUFFICES ASSUME Bad # {}
                 PROVE  FALSE
    OBVIOUS
  <2>2. PICK n \in Bad : \A k \in Bad : n <= k
    BY <2>1, LeastOf
  <2>3. ~(n < 10)
    BY <2>2, DigitsStep
  <2>4. n \div 10 \in Nat /\ n \div 10 < n
    BY <2>2, <2>3, FewerDigits
  <2>5. Digits[n \div 10] \in Nat
    BY <2>2, <2>4
  <2> QED
    BY <2>2, <2>3, <2>5, DigitsStep
<1> QED
  BY <1>1, DigitsStep

\* PathLength's recursion has a function that follows it, on every path.
LEMMA LengthsExist ==
  ASSUME NEW S \in SUBSET Nat, NEW path \in Seq(S)
  PROVE  \E f : f = [n \in 0 .. Len(path) |->
                       IF n = 0 THEN 1 ELSE f[n - 1] + Digits[path[n]] + 1]
<1> DEFINE Upto(f, m) == f = [n \in 0 .. m |->
                               IF n = 0 THEN 1 ELSE f[n - 1] + Digits[path[n]] + 1]
           Bad == {m \in Nat : ~\E f : Upto(f, m)}
<1>1. SUFFICES ASSUME Bad # {}
               PROVE  FALSE
  BY LenProperties
<1>2. PICK m \in Bad : \A k \in Bad : m <= k
  BY <1>1, LeastOf
<1>3. CASE m = 0
  <2>1. Upto([n \in 0 .. 0 |-> 1], 0)
    OBVIOUS
  <2> QED
    BY <1>2, <1>3, <2>1
<1>4. CASE m # 0
  <2>1. m \in Nat /\ m - 1 \in Nat /\ ~(m <= m - 1)
    BY <1>2, <1>4
  <2>2. PICK g : Upto(g, m - 1)
    BY <1>2, <2>1
  <2> DEFINE h == [n \in 0 .. m |-> IF n < m THEN g[n]
                                    ELSE g[m - 1] + Digits[path[m]] + 1]
  <2>3. \A n \in 0 .. m - 1 : n \in 0 .. m /\ n < m /\ h[n] = g[n]
    BY <2>1
  <2>4. ASSUME NEW n \in 0 .. m
        PROVE  h[n] = IF n = 0 THEN 1 ELSE h[n - 1] + Digits[path[n]] + 1
    <3>1. CASE n < m
      <4>1. n \in 0 .. m - 1 /\ (n # 0 => n - 1 \in 0 .. m - 1)
        BY <2>1, <3>1
      <4>2. g[n] = IF n = 0 THEN 1 ELSE g[n - 1] + Digits[path[n]] + 1
        BY <2>2, <4>1
      <4> HIDE DEF h
      <4> QED
        BY <2>3, <4>1, <4>2
    <3>2. CASE n = m
      <4>1. m - 1 \in 0 .. m - 1 /\ h[m] = g[m - 1] + Digits[path[m]] + 1
        BY <2>1
      <4> HIDE DEF h
      <4> QED
        BY <1>4, <2>3, <3>2, <4>1
    <3> QED
      BY <2>1, <3>1, <3>2
  <2>5. Upto(h, m)
    BY <2>4
  <2> QED
    BY <1>2, <2>5
<1> QED
  BY <1>3, <1>4

\* The lengths of the beginnings of a path, of which PathLength takes the last.
LengthsOf(f, path) ==
  /\ f[0] = 1
  /\ \A n \in 1 .. Len(path) : f[n] = f[n - 1] + Digits[path[n]] + 1

\* PathLength is the last value of a running sum over the path.
LEMMA LengthsStep ==
  ASSUME NEW S \in SUBSET Nat, NEW path \in Seq(S)
  PROVE  \E f : LengthsOf(f, path) /\ PathLength(path) = f[Len(path)]
<1> DEFINE Eq(f) == f = [n \in 0 .. Len(path) |->
                           IF n = 0 THEN 1 ELSE f[n - 1] + Digits[path[n]] + 1]
<1>1. PICK f : f = CHOOSE g : Eq(g)
  OBVIOUS
<1>2. PathLength(path) = f[Len(path)]
  BY <1>1 DEF PathLength
<1>3. Eq(f)
  <2>1. \E g : Eq(g)
    BY LengthsExist
  <2> HIDE DEF Eq
  <2> QED
    BY <1>1, <2>1
<1>4. LengthsOf(f, path)
  <2>1. Len(path) \in Nat
    BY LenProperties
  <2>2. \A n \in 0 .. Len(path) :
          f[n] = IF n = 0 THEN 1 ELSE f[n - 1] + Digits[path[n]] + 1
    BY <1>3
  <2>3. 0 \in 0 .. Len(path)
        /\ \A n \in 1 .. Len(path) : n \in 0 .. Len(path) /\ n # 0
    BY <2>1
  <2> QED
    BY <2>2, <2>3 DEF LengthsOf
<1> QED
  BY <1>2, <1>4

\* And only one running sum exists.
LEMMA LengthsDecided ==
  ASSUME NEW S \in SUBSET Nat, NEW path \in Seq(S), NEW g, LengthsOf(g, path)
  PROVE  PathLength(path) = g[Len(path)] /\ PathLength(path) \in Nat
<1>1. Len(path) \in Nat /\ \A n \in 1 .. Len(path) : path[n] \in S
  BY LenProperties, ElementOfSeq
<1>2. PICK f : LengthsOf(f, path) /\ PathLength(path) = f[Len(path)]
  BY LengthsStep
<1>3. \A n \in 1 .. Len(path) : Digits[path[n]] \in Nat
  BY <1>1, DigitsType
<1> DEFINE Bad == {n \in Nat : n <= Len(path) /\ ~(f[n] = g[n] /\ f[n] \in Nat)}
<1>4. CASE Bad = {}
  BY <1>1, <1>2, <1>4
<1>5. CASE Bad # {}
  <2>1. PICK n \in Bad : \A k \in Bad : n <= k
    BY <1>5, LeastOf
  <2>2. n \in Nat /\ n # 0
    BY <1>2, <2>1 DEF LengthsOf
  <2>3. n \in 1 .. Len(path) /\ n - 1 \in Nat /\ n - 1 <= Len(path) /\ ~(n <= n - 1)
    BY <1>1, <2>1, <2>2
  <2>4. f[n - 1] = g[n - 1] /\ f[n - 1] \in Nat
    <3>1. n - 1 \notin Bad
      BY <2>1, <2>3
    <3> QED
      BY <2>3, <3>1
  <2>5. /\ f[n] = f[n - 1] + Digits[path[n]] + 1
        /\ g[n] = g[n - 1] + Digits[path[n]] + 1
    BY <1>2, <2>3 DEF LengthsOf
  <2> QED
    BY <1>3, <2>1, <2>3, <2>4, <2>5
<1> QED
  BY <1>4, <1>5

\* The length of a path is a natural number.
LEMMA PathLengthType ==
  ASSUME NEW S \in SUBSET Nat, NEW path \in Seq(S)
  PROVE  PathLength(path) \in Nat
BY LengthsStep, LengthsDecided

\* The text of a category's path is its ancestors' with the id and a "/".
LEMMA PathLengthOfFullPath ==
  ASSUME NEW S \in SUBSET Nat, NEW s \in Seq(S), NEW x \in S
  PROVE  PathLength(FullPath(s, x)) = PathLength(s) + Digits[x] + 1
<1>1. /\ FullPath(s, x) \in Seq(S) /\ Len(FullPath(s, x)) = Len(s) + 1
      /\ FullPath(s, x)[Len(s) + 1] = x /\ Len(s) \in Nat
      /\ \A i \in 1 .. Len(s) : FullPath(s, x)[i] = s[i]
  BY AppendProperties, LenProperties DEF FullPath
<1>2. PICK f : LengthsOf(f, FullPath(s, x)) /\ PathLength(FullPath(s, x)) = f[Len(s) + 1]
  BY <1>1, LengthsStep
<1>3. LengthsOf(f, s)
  <2>1. \A i \in 1 .. Len(s) : i \in 1 .. Len(s) + 1
    BY <1>1
  <2> QED
    BY <1>1, <1>2, <2>1 DEF LengthsOf
<1>4. PathLength(s) = f[Len(s)]
  BY <1>3, LengthsDecided
<1>5. Len(s) + 1 \in 1 .. Len(s) + 1 /\ (Len(s) + 1) - 1 = Len(s)
  BY <1>1
<1>6. f[Len(s) + 1] = f[Len(s)] + Digits[x] + 1
  BY <1>1, <1>2, <1>5 DEF LengthsOf
<1> QED
  BY <1>2, <1>4, <1>6

\* A path that starts with another one, and is not it, is a full path below it.
LEMMA LongerPathIsFullPath ==
  ASSUME NEW S, NEW s \in Seq(S), NEW o \in Seq(S), StartsWith(s, o), s # o
  PROVE  \E u \in Seq(S), x \in S : /\ s = FullPath(u, x) /\ StartsWith(u, o)
                                    /\ Len(u) + 1 = Len(s)
<1>1. /\ Len(s) \in Nat /\ Len(o) \in Nat /\ Len(o) <= Len(s)
      /\ \A i \in 1 .. Len(o) : o[i] = s[i]
      /\ \A i \in 1 .. Len(s) : s[i] \in S
  BY LenProperties, PrefixIsPointwise, ElementOfSeq
<1>2. Len(o) < Len(s)
  BY <1>1, SeqEqual
<1> DEFINE u == SubSeq(s, 1, Len(s) - 1)
           x == s[Len(s)]
<1>3. Len(s) - 1 \in Nat /\ Len(s) \in 1 .. Len(s)
      /\ \A i \in 1 .. Len(s) - 1 : i \in 1 .. Len(s)
  BY <1>1, <1>2
<1>4. u \in Seq(S) /\ Len(u) = Len(s) - 1 /\ \A i \in 1 .. Len(s) - 1 : u[i] = s[i]
  <2>1. \A i \in 1 .. Len(s) - 1 : s[i] \in S
    BY <1>1, <1>3
  <2>2. PICK m : m = Len(s) - 1
    OBVIOUS
  <2>3. m \in Int /\ 1 \in Int /\ (\A i \in 1 .. m : s[i] \in S) /\ u = SubSeq(s, 1, m)
    BY <1>3, <2>1, <2>2
  <2> HIDE DEF u
  <2>4. /\ u \in Seq(S)
        /\ Len(u) = IF 1 <= m THEN m - 1 + 1 ELSE 0
        /\ \A i \in 1 .. m - 1 + 1 : u[i] = s[1 + i - 1]
    BY <2>3, SubSeqProperties
  <2>5. m \in Nat /\ m - 1 + 1 = m /\ (~(1 <= m) => m = 0)
        /\ \A i \in 1 .. m : 1 + i - 1 = i
    BY <1>3, <2>2
  <2> QED
    BY <2>2, <2>4, <2>5
<1>5. x \in S
  BY <1>1, <1>3
<1> HIDE DEF u, x
<1>6. /\ FullPath(u, x) \in Seq(S) /\ Len(FullPath(u, x)) = Len(s)
      /\ FullPath(u, x)[Len(s)] = x
      /\ \A i \in 1 .. Len(s) - 1 : FullPath(u, x)[i] = u[i]
  <2>1. Len(u) + 1 = Len(s)
    BY <1>3, <1>4
  <2> QED
    BY <1>4, <1>5, <2>1, AppendProperties DEF FullPath
<1>7. \A i \in 1 .. Len(s) : s[i] = FullPath(u, x)[i]
  <2>1. TAKE i \in 1 .. Len(s)
  <2>2. CASE i = Len(s)
    BY <1>6, <2>2 DEF x
  <2>3. CASE i # Len(s)
    <3>1. i \in 1 .. Len(s) - 1
      BY <1>1, <2>3
    <3> QED
      BY <1>4, <1>6, <3>1
  <2> QED
    BY <2>2, <2>3
<1>8. s = FullPath(u, x)
  BY <1>6, <1>7, SeqEqual
<1>9. StartsWith(u, o)
  BY <1>4, <1>5, <1>8, PrefixOfFullPath
<1> QED
  BY <1>3, <1>4, <1>5, <1>8, <1>9

\* A move makes every path under the old prefix longer by the same growth.
LEMMA PathLengthOfRebase ==
  ASSUME NEW S \in SUBSET Nat, NEW o \in Seq(S), NEW n \in Seq(S),
         NEW s \in Seq(S), StartsWith(s, o)
  PROVE  PathLength(Rebase(s, o, n)) = PathLength(s) + (PathLength(n) - PathLength(o))
<1> DEFINE Grows(t) == PathLength(Rebase(t, o, n))
                         = PathLength(t) + (PathLength(n) - PathLength(o))
           Bad == {k \in Nat : \E t \in Seq(S) : /\ Len(t) = k /\ StartsWith(t, o)
                                                 /\ ~Grows(t)}
<1>1. PathLength(o) \in Nat /\ PathLength(n) \in Nat
  BY PathLengthType
<1>2. Grows(o)
  BY <1>1, RebasePrefix
<1> HIDE DEF Grows
<1>3. CASE Bad = {}
  <2>1. Grows(s)
    BY <1>3, LenProperties
  <2> QED
    BY <2>1 DEF Grows
<1>4. CASE Bad # {}
  <2>1. PICK k \in Bad : \A j \in Bad : k <= j
    BY <1>4, LeastOf
  <2>2. PICK t \in Seq(S) : Len(t) = k /\ StartsWith(t, o) /\ ~Grows(t)
    BY <2>1
  <2>3. PICK u \in Seq(S), x \in S : /\ t = FullPath(u, x) /\ StartsWith(u, o)
                                     /\ Len(u) + 1 = Len(t)
    <3>1. t # o
      BY <1>2, <2>2
    <3> QED
      <4> HIDE DEF Bad
      <4> QED
        BY <2>2, <3>1, LongerPathIsFullPath, ZenonT(60)
  <2>4. Grows(u)
    <3>1. Len(u) \in Nat /\ ~(k <= Len(u))
      BY <2>2, <2>3, LenProperties
    <3>2. Len(u) \notin Bad
      BY <2>1, <3>1
    <3> QED
      BY <2>3, <3>1, <3>2
  <2>5. Rebase(u, o, n) \in Seq(S) /\ Rebase(t, o, n) = FullPath(Rebase(u, o, n), x)
    BY <2>3, RebaseType, RebaseFullPath
  <2>6. /\ PathLength(t) = PathLength(u) + Digits[x] + 1
        /\ PathLength(Rebase(t, o, n)) = PathLength(Rebase(u, o, n)) + Digits[x] + 1
    BY <2>3, <2>5, PathLengthOfFullPath
  <2>7. /\ PathLength(u) \in Nat /\ Digits[x] \in Nat
    BY PathLengthType, DigitsType
  <2>8. PathLength(Rebase(u, o, n)) = PathLength(u) + (PathLength(n) - PathLength(o))
    BY <2>4 DEF Grows
  <2>9. Grows(t)
    BY <1>1, <2>6, <2>7, <2>8 DEF Grows
  <2> QED
    BY <2>2, <2>9
<1> QED
  BY <1>3, <1>4
=============================================================================
