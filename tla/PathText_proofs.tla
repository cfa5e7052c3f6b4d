-------------------------- MODULE PathText_proofs --------------------------
(***************************************************************************)
(* The text of a path says what the sequence of its ids says, for ids of   *)
(* any number of digits and paths of any depth: its length, which paths    *)
(* start with it, and what a cut leaves of it.                             *)
(***************************************************************************)
EXTENDS PathText, CategoryPaths_proofs

-----------------------------------------------------------------------------
(* The text of an id                                                        *)

DigitChars == {DigitText[i] : i \in 1 .. 10}

Chars == DigitChars \cup {SEPARATOR}

\* The ten digits are told apart, and none of them is the separator.
LEMMA DigitsDiffer ==
  /\ \A i, j \in 1 .. 10 : DigitText[i] = DigitText[j] => i = j
  /\ SEPARATOR \notin DigitChars
  /\ \A n \in Nat : (n % 10) + 1 \in 1 .. 10 /\ DigitText[(n % 10) + 1] \in DigitChars
<1>1. \A i, j \in 1 .. 10 : DigitText[i] = DigitText[j] => i = j
  BY DEF DigitText
<1>2. SEPARATOR \notin DigitChars
  BY DEF DigitText, DigitChars, SEPARATOR
<1>3. \A n \in Nat : (n % 10) + 1 \in 1 .. 10
  OBVIOUS
<1> QED
  BY <1>1, <1>2, <1>3 DEF DigitChars

\* The texts of the ids up to m.
TextsUpTo(g, m) ==
  /\ g \in [0 .. m -> Seq(DigitChars)]
  /\ \A n \in 0 .. m :
       g[n] = (IF n < 10 THEN <<>> ELSE g[n \div 10]) \o <<DigitText[(n % 10) + 1]>>

\* The last character of an id is a digit, in front of it are digits only.
LEMMA DigitAppended ==
  ASSUME NEW s \in Seq(DigitChars), NEW n \in Nat
  PROVE  /\ s \o <<DigitText[(n % 10) + 1]>> = Append(s, DigitText[(n % 10) + 1])
         /\ s \o <<DigitText[(n % 10) + 1]>> \in Seq(DigitChars)
         /\ Len(s \o <<DigitText[(n % 10) + 1]>>) = Len(s) + 1
<1>1. DigitText[(n % 10) + 1] \in DigitChars
  BY DigitsDiffer
<1> QED
  BY <1>1, AppendIsConcat, AppendProperties

\* The texts of the ids are defined up to any bound.
LEMMA TextsUpToExists == \A m \in Nat : \E g : TextsUpTo(g, m)
<1> DEFINE Bad == {m \in Nat : ~\E g : TextsUpTo(g, m)}
<1>1. SUFFICES ASSUME Bad # {}
               PROVE  FALSE
  OBVIOUS
<1>2. PICK m \in Bad : \A k \in Bad : m <= k
  BY <1>1, LeastOf
<1> DEFINE Digit(n) == <<DigitText[(n % 10) + 1]>>
<1>a. <<>> \in Seq(DigitChars)
  BY EmptySeq
<1>b. \A s \in Seq(DigitChars), n \in Nat : s \o Digit(n) \in Seq(DigitChars)
  BY DigitAppended
<1> HIDE DEF Digit
<1>3. CASE m = 0
  <2>1. PICK g : g = [n \in 0 .. 0 |-> <<>> \o Digit(0)]
    OBVIOUS
  <2>2. g \in [0 .. 0 -> Seq(DigitChars)]
    BY <1>a, <1>b, <2>1
  <2>3. \A n \in 0 .. 0 : n < 10 /\ g[n] = <<>> \o Digit(n)
    BY <2>1
  <2>4. TextsUpTo(g, 0)
    BY <2>2, <2>3 DEF TextsUpTo, Digit
  <2> QED
    BY <1>2, <1>3, <2>4
<1>4. CASE m # 0
  <2>1. m \in Nat /\ m - 1 \in Nat /\ ~(m <= m - 1)
    BY <1>2, <1>4
  <2>2. PICK g : TextsUpTo(g, m - 1)
    BY <1>2, <2>1
  <2>3. /\ g \in [0 .. m - 1 -> Seq(DigitChars)]
        /\ \A n \in 0 .. m - 1 :
             g[n] = (IF n < 10 THEN <<>> ELSE g[n \div 10]) \o Digit(n)
    BY <2>2 DEF TextsUpTo, Digit
  <2> DEFINE h == [n \in 0 .. m |-> IF n < m THEN g[n]
                       ELSE (IF n < 10 THEN <<>> ELSE g[n \div 10]) \o Digit(n)]
  <2>4. \A n \in 0 .. m : n < m => n \in 0 .. m - 1 /\ h[n] = g[n] /\ g[n] \in Seq(DigitChars)
    BY <2>1, <2>3
  <2>5. \A n \in 0 .. m : ~(n < 10) => n \div 10 \in 0 .. m /\ n \div 10 < m
    BY <2>1, FewerDigits
  <2>6. h[m] = (IF m < 10 THEN <<>> ELSE g[m \div 10]) \o Digit(m)
    BY <2>1
  <2> HIDE DEF h
  <2>7. ASSUME NEW n \in 0 .. m
        PROVE  h[n] = (IF n < 10 THEN <<>> ELSE h[n \div 10]) \o Digit(n)
    <3>1. CASE n < m
      <4>1. g[n] = (IF n < 10 THEN <<>> ELSE g[n \div 10]) \o Digit(n)
        BY <2>3, <2>4, <3>1
      <4> QED
        BY <2>4, <2>5, <3>1, <4>1
    <3>2. CASE n = m
      BY <2>4, <2>5, <2>6, <3>2
    <3> QED
      BY <2>1, <3>1, <3>2
  <2>8. \A n \in 0 .. m : h[n] \in Seq(DigitChars)
    <3>1. TAKE n \in 0 .. m
    <3>2. CASE n < m
      BY <2>4, <3>2
    <3>3. CASE ~(n < m)
      <4>1. PICK s : s = IF n < 10 THEN <<>> ELSE h[n \div 10]
        OBVIOUS
      <4>2. s \in Seq(DigitChars)
        BY <1>a, <2>4, <2>5, <4>1
      <4>3. h[n] = s \o Digit(n)
        BY <2>7, <4>1
      <4> QED
        BY <1>b, <2>1, <4>2, <4>3
    <3> QED
      BY <3>2, <3>3
  <2>9. h \in [0 .. m -> Seq(DigitChars)]
    BY <2>8 DEF h
  <2>10. TextsUpTo(h, m)
    BY <2>7, <2>9 DEF TextsUpTo, Digit
  <2> QED
    BY <1>2, <2>10
<1> QED
  BY <1>3, <1>4

\* And there is only one text of an id.
LEMMA TextsUpToUnique ==
  ASSUME NEW m \in Nat, NEW k \in Nat, NEW g, NEW h,
         TextsUpTo(g, m), TextsUpTo(h, k),
         NEW n \in Nat, n <= m, n <= k
  PROVE  g[n] = h[n]
<1> DEFINE Bad == {j \in Nat : j <= m /\ j <= k /\ g[j] # h[j]}
<1>1. SUFFICES ASSUME Bad # {}
               PROVE  FALSE
  OBVIOUS
<1>2. PICK j \in Bad : \A i \in Bad : j <= i
  BY <1>1, LeastOf
<1> DEFINE Digit == <<DigitText[(j % 10) + 1]>>
<1>3. /\ g[j] = (IF j < 10 THEN <<>> ELSE g[j \div 10]) \o Digit
      /\ h[j] = (IF j < 10 THEN <<>> ELSE h[j \div 10]) \o Digit
  <2>1. j \in 0 .. m /\ j \in 0 .. k
    BY <1>2
  <2> QED
    BY <2>1 DEF TextsUpTo
<1> HIDE DEF Digit
<1>4. ~(j < 10)
  BY <1>2, <1>3
<1>5. j \div 10 \in Nat /\ j \div 10 < j
  BY <1>2, <1>4, FewerDigits
<1>6. j \div 10 \notin Bad
  BY <1>2, <1>5
<1>7. g[j \div 10] = h[j \div 10]
  BY <1>2, <1>5, <1>6
<1> QED
  BY <1>2, <1>3, <1>4, <1>7

\* The text of an id is the text without its last digit, with that digit.
LEMMA IdTextStep ==
  \A n \in Nat :
    IdText[n] = (IF n < 10 THEN <<>> ELSE IdText[n \div 10]) \o <<DigitText[(n % 10) + 1]>>
<1> DEFINE Digit(n) == <<DigitText[(n % 10) + 1]>>
           Eq(f) == f = [n \in Nat |-> (IF n < 10 THEN <<>> ELSE f[n \div 10]) \o Digit(n)]
           G(m) == CHOOSE g : TextsUpTo(g, m)
           F == [n \in Nat |-> G(n)[n]]
<1>1. \A m \in Nat : TextsUpTo(G(m), m)
  BY TextsUpToExists
<1>2. \A m \in Nat : \A n \in 0 .. m :
        G(m)[n] = (IF n < 10 THEN <<>> ELSE G(m)[n \div 10]) \o Digit(n)
  BY <1>1 DEF TextsUpTo
<1> HIDE DEF G
<1>3. IdText = CHOOSE f : Eq(f)
  BY DEF IdText
<1> HIDE DEF Digit
<1>4. Eq(F)
  <2>1. ASSUME NEW n \in Nat
        PROVE  F[n] = (IF n < 10 THEN <<>> ELSE F[n \div 10]) \o Digit(n)
    <3>1. G(n)[n] = (IF n < 10 THEN <<>> ELSE G(n)[n \div 10]) \o Digit(n)
      <4>1. n \in 0 .. n
        OBVIOUS
      <4> QED
        BY <1>2, <4>1
    <3>2. CASE n < 10
      BY <3>1, <3>2
    <3>3. CASE ~(n < 10)
      <4>1. n \div 10 \in Nat /\ n \div 10 <= n /\ n \div 10 <= n \div 10
        BY <3>3, FewerDigits
      <4>2. TextsUpTo(G(n), n) /\ TextsUpTo(G(n \div 10), n \div 10)
        BY <1>1, <4>1
      <4>3. G(n)[n \div 10] = G(n \div 10)[n \div 10]
        BY <4>1, <4>2, TextsUpToUnique
      <4> QED
        BY <3>1, <3>3, <4>1, <4>3
    <3> QED
      BY <3>2, <3>3
  <2> QED
    BY <2>1
<1>5. Eq(IdText)
  <2>1. \E f : Eq(f)
    BY <1>4
  <2> HIDE DEF Eq
  <2> QED
    BY <1>3, <2>1
<1>6. \A n \in Nat : IdText[n] = (IF n < 10 THEN <<>> ELSE IdText[n \div 10]) \o Digit(n)
  BY <1>5
<1> QED
  BY <1>6 DEF Digit

\* The text of an id is made of digits, as many as Digits counts.
LEMMA IdTextType ==
  \A n \in Nat : /\ IdText[n] \in Seq(DigitChars)
                 /\ Len(IdText[n]) = Digits[n]
                 /\ Len(IdText[n]) \in Nat \ {0}
<1> DEFINE Good(n) == /\ IdText[n] \in Seq(DigitChars)
                      /\ Len(IdText[n]) = Digits[n]
                      /\ Len(IdText[n]) \in Nat \ {0}
           Bad == {n \in Nat : ~Good(n)}
<1>1. SUFFICES ASSUME Bad # {}
               PROVE  FALSE
  OBVIOUS
<1>2. PICK n \in Bad : \A k \in Bad : n <= k
  BY <1>1, LeastOf
<1> DEFINE Digit == <<DigitText[(n % 10) + 1]>>
<1>3. /\ IdText[n] = (IF n < 10 THEN <<>> ELSE IdText[n \div 10]) \o Digit
      /\ Digits[n] = IF n < 10 THEN 1 ELSE 1 + Digits[n \div 10]
  BY <1>2, IdTextStep, DigitsStep
<1>4. \A s \in Seq(DigitChars) : /\ s \o Digit \in Seq(DigitChars)
                                 /\ Len(s \o Digit) = Len(s) + 1
                                 /\ Len(s) \in Nat
  BY <1>2, DigitAppended, LenProperties
<1>5. <<>> \in Seq(DigitChars) /\ Len(<<>>) = 0
  BY EmptySeq
<1> HIDE DEF Digit
<1>6. CASE n < 10
  <2>1. IdText[n] = <<>> \o Digit /\ Digits[n] = 1
    BY <1>3, <1>6
  <2>2. PICK s : s = <<>> /\ s \in Seq(DigitChars) /\ Len(s) = 0
    BY <1>5
  <2>3. IdText[n] \in Seq(DigitChars) /\ Len(IdText[n]) = Len(s) + 1
    BY <1>4, <2>1, <2>2
  <2>4. Good(n)
    BY <2>1, <2>2, <2>3
  <2> QED
    BY <1>2, <2>4
<1>7. CASE ~(n < 10)
  <2>1. n \div 10 \in Nat /\ n \div 10 < n
    BY <1>2, <1>7, FewerDigits
  <2>2. n \div 10 \notin Bad
    BY <1>2, <2>1
  <2>3. Good(n \div 10)
    BY <2>1, <2>2
  <2>4. IdText[n] = IdText[n \div 10] \o Digit /\ Digits[n] = 1 + Digits[n \div 10]
    BY <1>3, <1>7
  <2>5. PICK s : s = IdText[n \div 10] /\ s \in Seq(DigitChars)
                 /\ Len(s) = Digits[n \div 10] /\ Len(s) \in Nat
    BY <2>3
  <2>6. /\ IdText[n] \in Seq(DigitChars) /\ Len(IdText[n]) = Len(s) + 1
    BY <1>4, <2>4, <2>5
  <2>7. Good(n)
    BY <2>4, <2>5, <2>6
  <2> QED
    BY <1>2, <2>7
<1> QED
  BY <1>6, <1>7

\* Different ids have different texts.
LEMMA IdTextInjective ==
  ASSUME NEW a \in Nat, NEW b \in Nat, IdText[a] = IdText[b]
  PROVE  a = b
<1> DEFINE Bad == {n \in Nat : \E k \in Nat : IdText[n] = IdText[k] /\ n # k}
<1>1. SUFFICES ASSUME Bad # {}
               PROVE  FALSE
  OBVIOUS
<1>2. PICK n \in Bad : \A k \in Bad : n <= k
  BY <1>1, LeastOf
<1>3. PICK k \in Nat : IdText[n] = IdText[k] /\ n # k
  BY <1>2
<1> DEFINE Before(m) == IF m < 10 THEN <<>> ELSE IdText[m \div 10]
           Digit(m) == DigitText[(m % 10) + 1]
<1>4. \A m \in Nat : /\ Before(m) \in Seq(DigitChars) /\ Digit(m) \in DigitChars
                     /\ IdText[m] = Append(Before(m), Digit(m))
  <2>1. TAKE m \in Nat
  <2>2. Before(m) \in Seq(DigitChars)
    <3>1. CASE m < 10
      BY <3>1, EmptySeq
    <3>2. CASE ~(m < 10)
      BY <3>2, FewerDigits, IdTextType
    <3> QED
      BY <3>1, <3>2
  <2>3. IdText[m] = Before(m) \o <<Digit(m)>>
    BY IdTextStep
  <2> HIDE DEF Before
  <2> QED
    BY <2>2, <2>3, DigitAppended, DigitsDiffer
<1>5. Before(n) = Before(k) /\ Digit(n) = Digit(k)
  <2> HIDE DEF Before, Digit
  <2>1. /\ Before(n) \in Seq(DigitChars) /\ Digit(n) \in DigitChars
        /\ Before(k) \in Seq(DigitChars) /\ Digit(k) \in DigitChars
        /\ Append(Before(n), Digit(n)) = Append(Before(k), Digit(k))
    BY <1>2, <1>3, <1>4
  <2> QED
    BY <2>1, AppendInjective
<1>6. n % 10 = k % 10
  <2>1. (n % 10) + 1 \in 1 .. 10 /\ (k % 10) + 1 \in 1 .. 10
    BY <1>2, <1>3
  <2>2. (n % 10) + 1 = (k % 10) + 1
    BY <1>5, <2>1, DigitsDiffer
  <2> QED
    BY <1>2, <1>3, <2>2
<1>7. ASSUME NEW m \in Nat, ~(m < 10)
      PROVE  Before(m) # <<>>
  <2>1. m \div 10 \in Nat
    BY <1>7, FewerDigits
  <2>2. Len(IdText[m \div 10]) # 0 /\ Len(<<>>) = 0
    BY <2>1, IdTextType, EmptySeq
  <2> QED
    BY <1>7, <2>2
<1>8. CASE n < 10
  <2>1. k < 10
    BY <1>3, <1>5, <1>7, <1>8
  <2> QED
    BY <1>2, <1>3, <1>6, <1>8, <2>1
<1>9. CASE ~(n < 10)
  <2>1. ~(k < 10)
    BY <1>2, <1>5, <1>7, <1>9
  <2>2. /\ n \div 10 \in Nat /\ n \div 10 < n
        /\ k \div 10 \in Nat
    BY <1>2, <1>3, <1>9, <2>1, FewerDigits
  <2>3. IdText[n \div 10] = IdText[k \div 10]
    BY <1>5, <1>9, <2>1
  <2>4. n \div 10 \notin Bad
    BY <1>2, <2>2
  <2>5. n \div 10 = k \div 10
    BY <2>2, <2>3, <2>4
  <2> QED
    BY <1>2, <1>3, <1>6, <2>5
<1> QED
  BY <1>8, <1>9

-----------------------------------------------------------------------------
(* The text of a path                                                       *)

\* The beginnings of a flattened sequence, of which FlattenSeq takes the last.
FlatOf(f, seqs) ==
  \A i \in 1 .. Len(seqs) : f[i] = IF i = 1 THEN seqs[i] ELSE f[i - 1] \o seqs[i]

\* FlattenSeq's recursion has a function that follows it, on every sequence.
LEMMA FlatExists ==
  ASSUME NEW S, NEW seqs \in Seq(Seq(S))
  PROVE  \E f : f = [i \in 1 .. Len(seqs) |->
                       IF i = 1 THEN seqs[i] ELSE f[i - 1] \o seqs[i]]
<1> DEFINE Upto(f, m) == f = [i \in 1 .. m |->
                               IF i = 1 THEN seqs[i] ELSE f[i - 1] \o seqs[i]]
           Bad == {m \in Nat : ~\E f : Upto(f, m)}
<1>1. SUFFICES ASSUME Bad # {}
               PROVE  FALSE
  BY LenProperties, ZenonT(60)
<1>2. PICK m \in Bad : \A k \in Bad : m <= k
  BY <1>1, LeastOf
<1>3. CASE m = 0
  <2>1. Upto([i \in 1 .. 0 |-> <<>>], 0)
    OBVIOUS
  <2> QED
    BY <1>2, <1>3, <2>1
<1>4. CASE m # 0
  <2>1. m \in Nat /\ m - 1 \in Nat /\ ~(m <= m - 1)
    BY <1>2, <1>4
  <2>2. PICK g : Upto(g, m - 1)
    BY <1>2, <2>1
  <2> DEFINE h == [i \in 1 .. m |-> IF i < m THEN g[i]
                                    ELSE IF i = 1 THEN seqs[i] ELSE g[i - 1] \o seqs[i]]
  <2>3. \A i \in 1 .. m - 1 : i \in 1 .. m /\ i < m /\ h[i] = g[i]
    BY <2>1
  <2>4. ASSUME NEW i \in 1 .. m
        PROVE  h[i] = IF i = 1 THEN seqs[i] ELSE h[i - 1] \o seqs[i]
    <3>1. CASE i < m
      <4>1. i \in 1 .. m - 1 /\ (i # 1 => i - 1 \in 1 .. m - 1)
        BY <2>1, <3>1
      <4>2. g[i] = IF i = 1 THEN seqs[i] ELSE g[i - 1] \o seqs[i]
        BY <2>2, <4>1
      <4> HIDE DEF h
      <4> QED
        BY <2>3, <4>1, <4>2
    <3>2. CASE i = m
      <4>1. h[m] = IF m = 1 THEN seqs[m] ELSE g[m - 1] \o seqs[m]
        BY <2>1, <3>2
      <4>2. m # 1 => m - 1 \in 1 .. m - 1
        BY <2>1
      <4> HIDE DEF h
      <4> QED
        BY <2>3, <3>2, <4>1, <4>2
    <3> QED
      BY <2>1, <3>1, <3>2
  <2>5. Upto(h, m)
    BY <2>4
  <2> QED
    BY <1>2, <2>5
<1> QED
  BY <1>3, <1>4

\* FlattenSeq is the last value of a running concatenation.
LEMMA FlatStep ==
  ASSUME NEW S, NEW seqs \in Seq(Seq(S)), seqs # <<>>
  PROVE  \E f : FlatOf(f, seqs) /\ FlattenSeq(seqs) = f[Len(seqs)]
<1> DEFINE Eq(f) == f = [i \in 1 .. Len(seqs) |->
                           IF i = 1 THEN seqs[i] ELSE f[i - 1] \o seqs[i]]
<1>1. PICK f : f = CHOOSE g : Eq(g)
  OBVIOUS
<1>2. Len(seqs) # 0
  BY EmptySeq
<1>3. FlattenSeq(seqs) = f[Len(seqs)]
  BY <1>1, <1>2 DEF FlattenSeq
<1>4. Eq(f)
  <2>1. \E g : Eq(g)
    BY FlatExists
  <2> HIDE DEF Eq
  <2> QED
    BY <1>1, <2>1
<1>5. FlatOf(f, seqs)
  BY <1>4 DEF FlatOf
<1> QED
  BY <1>3, <1>5

\* And only one running concatenation exists.
LEMMA FlatDecided ==
  ASSUME NEW S, NEW seqs \in Seq(Seq(S)), NEW f, NEW g, FlatOf(f, seqs),
         NEW m \in Nat, m <= Len(seqs), FlatOf(g, SubSeq(seqs, 1, m)),
         NEW k \in 1 .. m
  PROVE  f[k] = g[k] /\ f[k] \in Seq(S)
<1>1. /\ Len(seqs) \in Nat /\ \A i \in 1 .. Len(seqs) : seqs[i] \in Seq(S)
      /\ m <= Len(seqs)
  BY LenProperties, ElementOfSeq
<1>2. /\ Len(SubSeq(seqs, 1, m)) = m
      /\ \A i \in 1 .. m : SubSeq(seqs, 1, m)[i] = seqs[i]
  <2>1. 1 \in Int /\ m \in Int /\ \A i \in 1 .. m : seqs[i] \in Seq(S)
    BY <1>1
  <2>2. /\ Len(SubSeq(seqs, 1, m)) = IF 1 <= m THEN m - 1 + 1 ELSE 0
        /\ \A i \in 1 .. m - 1 + 1 : SubSeq(seqs, 1, m)[i] = seqs[1 + i - 1]
    BY <2>1, SubSeqProperties
  <2>3. m - 1 + 1 = m /\ (~(1 <= m) => m = 0) /\ \A i \in 1 .. m : 1 + i - 1 = i
    OBVIOUS
  <2> QED
    BY <2>2, <2>3
<1> DEFINE Same(i) == f[i] = g[i] /\ f[i] \in Seq(S)
           Bad == {i \in Nat : i \in 1 .. m /\ ~Same(i)}
<1>3. SUFFICES ASSUME Bad # {}
               PROVE  FALSE
  <2>1. k \in Nat
    OBVIOUS
  <2>2. Bad = {} => Same(k)
    <3> HIDE DEF Same
    <3> QED
      BY <2>1
  <2> QED
    BY <2>2
<1>4. PICK i \in Bad : \A j \in Bad : i <= j
  BY <1>3, LeastOf
<1>5. i \in 1 .. m /\ i \in 1 .. Len(seqs)
  BY <1>1, <1>4
<1>6. f[i] = IF i = 1 THEN seqs[i] ELSE f[i - 1] \o seqs[i]
  BY <1>5 DEF FlatOf
<1>7. g[i] = IF i = 1 THEN seqs[i] ELSE g[i - 1] \o seqs[i]
  BY <1>2, <1>5 DEF FlatOf
<1>8. i # 1
  BY <1>1, <1>4, <1>5, <1>6, <1>7
<1>9. i - 1 \in Nat /\ i - 1 \in 1 .. m /\ ~(i <= i - 1)
  BY <1>5, <1>8
<1>10. i - 1 \notin Bad
  BY <1>4, <1>9
<1>11. f[i - 1] = g[i - 1] /\ f[i - 1] \in Seq(S)
  BY <1>9, <1>10
<1>12. f[i] = f[i - 1] \o seqs[i] /\ g[i] = f[i - 1] \o seqs[i]
  BY <1>6, <1>7, <1>8, <1>11
<1>13. f[i - 1] \o seqs[i] \in Seq(S)
  BY <1>1, <1>5, <1>11, ConcatProperties
<1> QED
  BY <1>4, <1>12, <1>13

\* A sequence is the beginning of what is appended to it.
LEMMA SubSeqOfMore ==
  ASSUME NEW S, NEW s \in Seq(S), NEW e \in S
  PROVE  SubSeq(Append(s, e), 1, Len(s)) = s
<1> DEFINE t == Append(s, e)
           n == Len(s)
           u == SubSeq(t, 1, n)
<1>1. /\ n \in Nat /\ \A i \in 1 .. n : t[i] = s[i] /\ s[i] \in S
  BY AppendProperties, LenProperties, ElementOfSeq
<1> HIDE DEF t
<1>2. 1 \in Int /\ n \in Int /\ \A i \in 1 .. n : t[i] \in S
  BY <1>1
<1> HIDE DEF n
<1>3. /\ u \in Seq(S) /\ Len(u) = IF 1 <= n THEN n - 1 + 1 ELSE 0
      /\ \A i \in 1 .. n - 1 + 1 : u[i] = t[1 + i - 1]
  BY <1>2, SubSeqProperties
<1>4. n - 1 + 1 = n /\ (~(1 <= n) => n = 0) /\ \A i \in 1 .. n : 1 + i - 1 = i
  BY <1>1 DEF n
<1> HIDE DEF u
<1>5. Len(u) = Len(s) /\ \A i \in 1 .. Len(u) : u[i] = s[i]
  BY <1>1, <1>3, <1>4 DEF n
<1> QED
  BY <1>3, <1>5, SeqEqual DEF t, u, n

\* One more sequence is flattened behind the ones before it.
LEMMA FlattenAppend ==
  ASSUME NEW S, NEW seqs \in Seq(Seq(S)), NEW e \in Seq(S)
  PROVE  /\ FlattenSeq(seqs) \in Seq(S)
         /\ FlattenSeq(Append(seqs, e)) = FlattenSeq(seqs) \o e
<1> DEFINE more == Append(seqs, e)
           n == Len(seqs)
<1>1. /\ more \in Seq(Seq(S)) /\ more # <<>> /\ Len(more) = n + 1
      /\ \A i \in 1 .. n : more[i] = seqs[i]
      /\ more[n + 1] = e /\ n \in Nat
  BY AppendProperties, LenProperties
<1>2. PICK f : FlatOf(f, more) /\ FlattenSeq(more) = f[n + 1]
  BY <1>1, FlatStep
<1> HIDE DEF more
<1>3. f[n + 1] = IF n = 0 THEN e ELSE f[n] \o e
  <2>1. n + 1 \in 1 .. Len(more) /\ (n + 1 = 1 <=> n = 0) /\ (n + 1) - 1 = n
    BY <1>1
  <2>2. f[n + 1] = IF n + 1 = 1 THEN more[n + 1] ELSE f[(n + 1) - 1] \o more[n + 1]
    BY <1>2, <2>1 DEF FlatOf
  <2> QED
    BY <1>1, <2>1, <2>2
<1>4. CASE n = 0
  <2>1. seqs = <<>>
    BY <1>4, EmptySeq
  <2>2. FlattenSeq(seqs) = <<>>
    BY <1>4, <2>1 DEF FlattenSeq
  <2>3. <<>> \in Seq(S) /\ <<>> \o e = e
    BY EmptySeq, ConcatEmptySeq
  <2> QED
    BY <1>2, <1>3, <1>4, <2>2, <2>3 DEF more
<1>5. CASE n # 0
  <2>1. seqs # <<>>
    BY <1>5, EmptySeq
  <2>2. PICK g : FlatOf(g, seqs) /\ FlattenSeq(seqs) = g[n]
    BY <2>1, FlatStep
  <2>3. SubSeq(more, 1, n) = seqs
    BY <1>1, SubSeqOfMore DEF more
  <2>4. n \in Nat /\ n <= Len(more) /\ n \in 1 .. n
    BY <1>1, <1>5
  <2>5. f[n] = g[n] /\ f[n] \in Seq(S)
    <3>1. FlatOf(g, SubSeq(more, 1, n))
      BY <2>2, <2>3
    <3> QED
      BY <1>1, <1>2, <2>4, <3>1, FlatDecided
  <2> QED
    BY <1>2, <1>3, <1>5, <2>2, <2>5 DEF more
<1> QED
  BY <1>4, <1>5

\* What an id adds to the text of a path.
Segment(x) == IdText[x] \o <<SEPARATOR>>

\* What the ids of a path add to the text of the path in front of them.
TextOfIds(p) == FlattenSeq([i \in DOMAIN p |-> Segment(p[i])])

\* An id adds its digits, none of them a separator, and one separator.
LEMMA SegmentType ==
  ASSUME NEW x \in Nat
  PROVE  /\ Segment(x) \in Seq(Chars)
         /\ Len(Segment(x)) = Digits[x] + 1
         /\ Digits[x] \in Nat \ {0}
         /\ Segment(x)[Digits[x] + 1] = SEPARATOR
         /\ \A i \in 1 .. Digits[x] : /\ Segment(x)[i] = IdText[x][i]
                                      /\ Segment(x)[i] # SEPARATOR
<1> DEFINE t == IdText[x]
           n == Digits[x]
<1>1. t \in Seq(DigitChars) /\ Len(t) = n /\ n \in Nat \ {0}
  BY IdTextType
<1>2. t \in Seq(Chars)
  <2>1. DigitChars \subseteq Chars
    BY DEF Chars
  <2> QED
    BY <1>1, <2>1, SeqMonotonic
<1>3. SEPARATOR \in Chars
  BY DEF Chars
<1>4. Segment(x) = Append(t, SEPARATOR)
  <2> HIDE DEF t
  <2> QED
    BY <1>2, <1>3, AppendIsConcat DEF Segment, t
<1>5. \A i \in 1 .. n : t[i] # SEPARATOR
  BY <1>1, ElementOfSeq, DigitsDiffer
<1> HIDE DEF t, n
<1>6. /\ Append(t, SEPARATOR) \in Seq(Chars) /\ Len(Append(t, SEPARATOR)) = n + 1
      /\ \A i \in 1 .. n : Append(t, SEPARATOR)[i] = t[i]
      /\ Append(t, SEPARATOR)[n + 1] = SEPARATOR
  BY <1>1, <1>2, <1>3, AppendProperties
<1> QED
  BY <1>1, <1>4, <1>5, <1>6 DEF t, n

\* A path one id longer has a text one segment longer.
LEMMA TextOfIdsAppend ==
  ASSUME NEW S \in SUBSET Nat, NEW p \in Seq(S), NEW x \in S
  PROVE  /\ TextOfIds(p) \in Seq(Chars)
         /\ TextOfIds(Append(p, x)) = TextOfIds(p) \o Segment(x)
<1> DEFINE segs(q) == [i \in DOMAIN q |-> Segment(q[i])]
           more == Append(p, x)
           n == Len(p)
<1>1. \A q \in Seq(S) : segs(q) \in Seq(Seq(Chars)) /\ Len(segs(q)) = Len(q)
                        /\ \A i \in 1 .. Len(q) : segs(q)[i] = Segment(q[i])
  <2>1. TAKE q \in Seq(S)
  <2>2. Len(q) \in Nat /\ DOMAIN q = 1 .. Len(q)
    BY LenProperties
  <2>3. \A i \in 1 .. Len(q) : Segment(q[i]) \in Seq(Chars)
    <3>1. \A i \in 1 .. Len(q) : q[i] \in Nat
      BY ElementOfSeq
    <3> QED
      BY <3>1, SegmentType
  <2>4. segs(q) \in [1 .. Len(q) -> Seq(Chars)]
    <3> HIDE DEF Segment
    <3> QED
      BY <2>2, <2>3
  <2>5. segs(q) \in Seq(Seq(Chars)) /\ DOMAIN segs(q) = 1 .. Len(q)
    <3> HIDE DEF segs
    <3>1. segs(q) \in UNION {[1 .. m -> Seq(Chars)] : m \in Nat}
      BY <2>2, <2>4
    <3>2. Seq(Seq(Chars)) = UNION {[1 .. m -> Seq(Chars)] : m \in Nat}
      BY SeqDef
    <3> QED
      BY <2>4, <3>1, <3>2
  <2>6. Len(segs(q)) = Len(q)
    <3> HIDE DEF segs
    <3>1. Len(segs(q)) \in Nat /\ DOMAIN segs(q) = 1 .. Len(segs(q))
      BY <2>5, LenProperties
    <3> QED
      BY <2>2, <2>5, <3>1
  <2> QED
    BY <2>2, <2>5, <2>6
<1>2. /\ more \in Seq(S) /\ Len(more) = n + 1 /\ n \in Nat
      /\ \A i \in 1 .. n : more[i] = p[i]
      /\ more[n + 1] = x
  BY AppendProperties, LenProperties
<1>3. Segment(x) \in Seq(Chars)
  BY SegmentType
<1> HIDE DEF more
<1>4. segs(more) = Append(segs(p), Segment(x))
  <2> DEFINE a == segs(more)
             b == Append(segs(p), Segment(x))
  <2>1. /\ a \in Seq(Seq(Chars)) /\ Len(a) = n + 1
        /\ \A i \in 1 .. n + 1 : a[i] = Segment(more[i])
    BY <1>1, <1>2
  <2>2. /\ segs(p) \in Seq(Seq(Chars)) /\ Len(segs(p)) = n
        /\ \A i \in 1 .. n : segs(p)[i] = Segment(p[i])
    BY <1>1
  <2> HIDE DEF segs
  <2>3. /\ b \in Seq(Seq(Chars)) /\ Len(b) = n + 1 /\ b[n + 1] = Segment(x)
        /\ \A i \in 1 .. n : b[i] = segs(p)[i]
    BY <1>3, <2>2, AppendProperties
  <2> HIDE DEF a, b
  <2>4. \A i \in 1 .. n + 1 : a[i] = b[i]
    <3>1. \A i \in 1 .. n + 1 : i \in 1 .. n \/ i = n + 1
      BY <1>2
    <3> QED
      BY <1>2, <2>1, <2>2, <2>3, <3>1
  <2>5. a = b
    BY <2>1, <2>3, <2>4, SeqEqual
  <2> QED
    BY <2>5 DEF a, b
<1>5. segs(p) \in Seq(Seq(Chars))
  BY <1>1
<1>6. TextOfIds(p) = FlattenSeq(segs(p)) /\ TextOfIds(more) = FlattenSeq(segs(more))
  BY DEF TextOfIds
<1> HIDE DEF segs
<1> QED
  BY <1>3, <1>4, <1>5, <1>6, FlattenAppend DEF more

\* No ids add nothing.
LEMMA TextOfNone == TextOfIds(<<>>) = <<>>
<1>1. [i \in DOMAIN <<>> |-> Segment(<<>>[i])] = <<>>
  OBVIOUS
<1> QED
  BY <1>1 DEF TextOfIds, FlattenSeq

\* What ids add to a text is text.
LEMMA TextOfIdsType ==
  ASSUME NEW S \in SUBSET Nat, NEW p \in Seq(S)
  PROVE  TextOfIds(p) \in Seq(Chars)
<1>1. CASE p = <<>>
  BY <1>1, TextOfNone, EmptySeq
<1>2. CASE p # <<>>
  <2>1. PICK x \in S : TRUE
    BY <1>2, SequenceEmptyOrAppend
  <2> QED
    BY <2>1, TextOfIdsAppend
<1> QED
  BY <1>1, <1>2

\* Concatenating texts is associative.
LEMMA CharsAssociative ==
  \A a, b, c \in Seq(Chars) : (a \o b) \o c = a \o (b \o c)
<1> DEFINE C == Chars
<1> HIDE DEF C
<1>1. \A a, b, c \in Seq(C) : (a \o b) \o c = a \o (b \o c)
  BY ConcatAssociative
<1> QED
  BY <1>1 DEF C

\* The ids behind a path add what they add behind any other path.
LEMMA TextOfIdsConcat ==
  ASSUME NEW S \in SUBSET Nat, NEW p \in Seq(S), NEW q \in Seq(S)
  PROVE  TextOfIds(p \o q) = TextOfIds(p) \o TextOfIds(q)
<1> DEFINE Good(t) == TextOfIds(p \o t) = TextOfIds(p) \o TextOfIds(t)
           Bad == {k \in Nat : \E t \in Seq(S) : Len(t) = k /\ ~Good(t)}
<1>1. CASE Bad = {}
  BY <1>1, LenProperties
<1>2. CASE Bad # {}
  <2>1. PICK k \in Bad : \A j \in Bad : k <= j
    BY <1>2, LeastOf
  <2>2. PICK t \in Seq(S) : Len(t) = k /\ ~Good(t)
    BY <2>1
  <2>3. t # <<>>
    <3>1. p \o <<>> = p /\ TextOfIds(p) \o <<>> = TextOfIds(p)
      BY TextOfIdsAppend, ConcatEmptySeq, TextOfIdsType
    <3> QED
      BY <2>2, <3>1, TextOfNone
  <2>4. PICK u \in Seq(S), x \in S : t = Append(u, x)
    BY <2>3, SequenceEmptyOrAppend
  <2>5. Len(t) = Len(u) + 1 /\ Len(u) \in Nat
    BY <2>4, AppendProperties, LenProperties
  <2>6. Good(u)
    <3>1. Len(u) \in Nat /\ ~(k <= Len(u))
      BY <2>2, <2>5
    <3>2. Len(u) \notin Bad
      BY <2>1, <3>1
    <3> QED
      BY <3>1, <3>2
  <2>7. p \o t = Append(p \o u, x) /\ p \o u \in Seq(S)
    BY <2>4, ConcatAppend, ConcatProperties, SMTT(30)
  <2>8. TextOfIds(p \o t) = TextOfIds(p \o u) \o Segment(x)
    BY <2>7, TextOfIdsAppend
  <2>9. TextOfIds(t) = TextOfIds(u) \o Segment(x)
    BY <2>4, TextOfIdsAppend
  <2>10. (TextOfIds(p) \o TextOfIds(u)) \o Segment(x) = TextOfIds(p) \o (TextOfIds(u) \o Segment(x))
    <3>1. TextOfIds(p) \in Seq(Chars) /\ TextOfIds(u) \in Seq(Chars) /\ Segment(x) \in Seq(Chars)
      BY TextOfIdsType, SegmentType
    <3> QED
      BY <3>1, CharsAssociative
  <2>11. Good(t)
    BY <2>6, <2>8, <2>9, <2>10
  <2> QED
    BY <2>2, <2>11
<1> QED
  BY <1>1, <1>2

\* The text of a path is the separator and what its ids add.
LEMMA TextIs ==
  ASSUME NEW S \in SUBSET Nat, NEW p \in Seq(S)
  PROVE  /\ Text(p) = <<SEPARATOR>> \o TextOfIds(p)
         /\ Text(p) \in Seq(Chars)
<1>1. <<SEPARATOR>> \in Seq(Chars)
  <2>1. <<>> \in Seq(Chars) /\ SEPARATOR \in Chars
    BY EmptySeq DEF Chars
  <2> QED
    BY <2>1
<1>2. Text(p) = <<SEPARATOR>> \o TextOfIds(p)
  BY DEF Text, TextOfIds, Segment
<1> QED
  BY <1>1, <1>2, TextOfIdsType, ConcatProperties

\* The text of the ids behind a path follows the text of the path.
LEMMA TextOfConcat ==
  ASSUME NEW S \in SUBSET Nat, NEW p \in Seq(S), NEW q \in Seq(S)
  PROVE  Text(p \o q) = Text(p) \o TextOfIds(q)
<1>1. /\ <<SEPARATOR>> \in Seq(Chars)
      /\ TextOfIds(p) \in Seq(Chars) /\ TextOfIds(q) \in Seq(Chars)
  <2>1. <<>> \in Seq(Chars) /\ SEPARATOR \in Chars
    BY EmptySeq DEF Chars
  <2> QED
    BY <2>1, TextOfIdsType
<1>3. TextOfIds(p \o q) = TextOfIds(p) \o TextOfIds(q)
  BY TextOfIdsConcat
<1>4. /\ Text(p \o q) = <<SEPARATOR>> \o TextOfIds(p \o q)
      /\ Text(p) = <<SEPARATOR>> \o TextOfIds(p)
  BY TextIs, ConcatProperties
<1> QED
  BY <1>1, <1>3, <1>4, CharsAssociative

\* The text of a path is as long as PathLength says.
LEMMA TextLength ==
  ASSUME NEW S \in SUBSET Nat, NEW p \in Seq(S)
  PROVE  Len(Text(p)) = PathLength(p)
<1> DEFINE Good(t) == Len(Text(t)) = PathLength(t)
           Bad == {k \in Nat : \E t \in Seq(S) : Len(t) = k /\ ~Good(t)}
<1>1. CASE Bad = {}
  BY <1>1, LenProperties
<1>2. CASE Bad # {}
  <2>1. PICK k \in Bad : \A j \in Bad : k <= j
    BY <1>2, LeastOf
  <2>2. PICK t \in Seq(S) : Len(t) = k /\ ~Good(t)
    BY <2>1
  <2>3. t # <<>>
    <3>1. <<SEPARATOR>> \o <<>> = <<SEPARATOR>> /\ Len(<<SEPARATOR>>) = 1
      <4>1. <<>> \in Seq({SEPARATOR}) /\ SEPARATOR \in {SEPARATOR}
        BY EmptySeq
      <4>2. <<SEPARATOR>> \in Seq({SEPARATOR})
        BY <4>1
      <4> QED
        BY <4>2, ConcatEmptySeq
    <3>2. <<>> \in Seq(S) /\ Len(<<>>) = 0
      BY EmptySeq
    <3>3. Len(Text(<<>>)) = 1
      BY <3>1, <3>2, TextIs, TextOfNone
    <3>4. PathLength(<<>>) = 1
      <4>1. PICK f : LengthsOf(f, <<>>) /\ PathLength(<<>>) = f[Len(<<>>)]
        BY <3>2, LengthsStep
      <4> QED
        BY <3>2, <4>1 DEF LengthsOf
    <3> QED
      BY <2>2, <3>3, <3>4
  <2>4. PICK u \in Seq(S), x \in S : t = Append(u, x)
    BY <2>3, SequenceEmptyOrAppend
  <2>5. Len(t) = Len(u) + 1 /\ Len(u) \in Nat
    BY <2>4, AppendProperties, LenProperties
  <2>6. Good(u)
    <3>1. Len(u) \in Nat /\ ~(k <= Len(u))
      BY <2>2, <2>5
    <3>2. Len(u) \notin Bad
      BY <2>1, <3>1
    <3> QED
      BY <3>1, <3>2
  <2>7. PathLength(t) = PathLength(u) + Digits[x] + 1 /\ PathLength(u) \in Nat
    BY <2>4, PathLengthOfFullPath, PathLengthType DEF FullPath
  <2>8. /\ Segment(x) \in Seq(Chars) /\ Len(Segment(x)) = Digits[x] + 1
        /\ Digits[x] \in Nat
    BY SegmentType
  <2>9. Text(u) \in Seq(Chars) /\ Text(t) = Text(u) \o Segment(x)
    <3>1. TextOfIds(t) = TextOfIds(u) \o Segment(x)
      BY <2>4, TextOfIdsAppend
    <3>3. <<SEPARATOR>> \in Seq(Chars)
      <4>1. <<>> \in Seq(Chars) /\ SEPARATOR \in Chars
        BY EmptySeq DEF Chars
      <4> QED
        BY <4>1
    <3>4. TextOfIds(u) \in Seq(Chars)
      BY TextOfIdsType
    <3>5. /\ Text(t) = <<SEPARATOR>> \o TextOfIds(t)
          /\ Text(u) = <<SEPARATOR>> \o TextOfIds(u) /\ Text(u) \in Seq(Chars)
      BY TextIs
    <3> QED
      <4>1. (<<SEPARATOR>> \o TextOfIds(u)) \o Segment(x)
              = <<SEPARATOR>> \o (TextOfIds(u) \o Segment(x))
        BY <2>8, <3>3, <3>4, CharsAssociative
      <4> QED
        BY <3>1, <3>5, <4>1
  <2>10. Len(Text(t)) = Len(Text(u)) + (Digits[x] + 1)
    <3>1. PICK a, b : a = Text(u) /\ b = Segment(x)
      OBVIOUS
    <3>2. a \in Seq(Chars) /\ b \in Seq(Chars) /\ Text(t) = a \o b
      BY <2>8, <2>9, <3>1
    <3>3. Len(a \o b) = Len(a) + Len(b)
      BY <3>2, ConcatProperties
    <3> QED
      BY <2>8, <3>1, <3>2, <3>3
  <2>11. Good(t)
    BY <2>6, <2>7, <2>8, <2>10
  <2> QED
    BY <2>2, <2>11
<1> QED
  BY <1>1, <1>2

-----------------------------------------------------------------------------
(* What a text starts with                                                  *)

\* What is behind the beginning of a concatenation is its second part.
LEMMA EndOfConcat ==
  ASSUME NEW S, NEW s \in Seq(S), NEW t \in Seq(S)
  PROVE  SubSeq(s \o t, Len(s) + 1, Len(s \o t)) = t
<1> DEFINE n == Len(s)
           m == Len(t)
           st == s \o t
           u == SubSeq(st, n + 1, n + m)
<1>1. /\ n \in Nat /\ m \in Nat /\ Len(st) = n + m
      /\ \A i \in 1 .. n + m : st[i] = IF i <= n THEN s[i] ELSE t[i - n]
      /\ \A i \in 1 .. m : t[i] \in S
  BY ConcatProperties, LenProperties, ElementOfSeq
<1> HIDE DEF n, m, st
<1>2. \A i \in n + 1 .. n + m : st[i] \in S
  <2>1. TAKE i \in n + 1 .. n + m
  <2>2. i \in 1 .. n + m /\ ~(i <= n) /\ i - n \in 1 .. m
    BY <1>1
  <2> QED
    BY <1>1, <2>2
<1>3. /\ u \in Seq(S) /\ Len(u) = IF n + 1 <= n + m THEN (n + m) - (n + 1) + 1 ELSE 0
      /\ \A i \in 1 .. (n + m) - (n + 1) + 1 : u[i] = st[(n + 1) + i - 1]
  <2>1. n + 1 \in Int /\ n + m \in Int
    BY <1>1
  <2> QED
    BY <1>2, <2>1, SubSeqProperties
<1> HIDE DEF u
<1>4. Len(u) = m /\ (n + m) - (n + 1) + 1 = m
  BY <1>1, <1>3
<1>5. \A i \in 1 .. m : u[i] = t[i]
  <2>1. TAKE i \in 1 .. m
  <2>2. (n + 1) + i - 1 = n + i /\ n + i \in 1 .. n + m /\ ~(n + i <= n) /\ (n + i) - n = i
    BY <1>1
  <2> QED
    BY <1>1, <1>3, <1>4, <2>2
<1>6. u = t
  BY <1>3, <1>4, <1>5, SeqEqual DEF m
<1> QED
  BY <1>1, <1>6 DEF u, n, m, st

\* A path that starts with another one is that one and what is behind it.
LEMMA StartAndEnd ==
  ASSUME NEW S, NEW s \in Seq(S), NEW o \in Seq(S), StartsWith(s, o)
  PROVE  /\ SubSeq(s, Len(o) + 1, Len(s)) \in Seq(S)
         /\ s = o \o SubSeq(s, Len(o) + 1, Len(s))
<1> DEFINE n == Len(o)
           m == Len(s)
<1>1. n \in Nat /\ m \in Nat /\ n <= m /\ \A i \in 1 .. m : s[i] \in S
  BY LenProperties, PrefixIsPointwise, ElementOfSeq
<1>2. SubSeq(s, 1, n) = o
  BY SubSeqFull DEF StartsWith, IsPrefix
<1>3. SubSeq(s, 1, m) = s
  BY SubSeqFull
<1>4. SubSeq(s, 1, n) \o SubSeq(s, n + 1, m) = SubSeq(s, 1, m)
  <2>1. 1 \in 1 .. m + 1 /\ n \in 1 - 1 .. m /\ m \in n .. m
    BY <1>1
  <2> QED
    BY <2>1, ConcatAdjacentSubSeq
<1>5. SubSeq(s, n + 1, m) \in Seq(S)
  <2>1. n + 1 \in Int /\ m \in Int /\ \A i \in n + 1 .. m : s[i] \in S
    BY <1>1
  <2> HIDE DEF n, m
  <2> QED
    BY <2>1, SubSeqProperties
<1> QED
  BY <1>2, <1>3, <1>4, <1>5

\* A concatenation starts with its first part.
LEMMA StartsWithFirst ==
  ASSUME NEW S, NEW s \in Seq(S), NEW t \in Seq(S)
  PROVE  StartsWith(s \o t, s)
<1>1. /\ s \o t \in Seq(S) /\ Len(s \o t) = Len(s) + Len(t)
      /\ \A i \in 1 .. Len(s) + Len(t) :
           (s \o t)[i] = IF i <= Len(s) THEN s[i] ELSE t[i - Len(s)]
      /\ Len(s) \in Nat /\ Len(t) \in Nat
  BY ConcatProperties, LenProperties
<1>2. Len(s) <= Len(s \o t) /\ \A i \in 1 .. Len(s) : s[i] = (s \o t)[i]
  BY <1>1
<1> QED
  BY <1>1, <1>2, PrefixIsPointwise

\* Two ids, the text behind the first of which starts with the second one's
\* text and separator, are one: the separator ends both.
LEMMA SegmentsDiffer ==
  ASSUME NEW x \in Nat, NEW y \in Nat, NEW t \in Seq(Chars),
         StartsWith(Segment(y) \o t, Segment(x))
  PROVE  x = y
<1> DEFINE a == Segment(x)
           b == Segment(y)
           n == Digits[x]
           m == Digits[y]
<1>1. /\ a \in Seq(Chars) /\ Len(a) = n + 1 /\ n \in Nat \ {0} /\ a[n + 1] = SEPARATOR
      /\ \A i \in 1 .. n : a[i] = IdText[x][i] /\ a[i] # SEPARATOR
  BY SegmentType
<1>2. /\ b \in Seq(Chars) /\ Len(b) = m + 1 /\ m \in Nat \ {0} /\ b[m + 1] = SEPARATOR
      /\ \A i \in 1 .. m : b[i] = IdText[y][i] /\ b[i] # SEPARATOR
  BY SegmentType
<1>3. StartsWith(b \o t, a)
  OBVIOUS
<1> HIDE DEF a, b, n, m
<1>4. /\ b \o t \in Seq(Chars)
      /\ \A i \in 1 .. Len(b) + Len(t) :
           (b \o t)[i] = IF i <= Len(b) THEN b[i] ELSE t[i - Len(b)]
      /\ Len(b \o t) = Len(b) + Len(t) /\ Len(t) \in Nat
  BY <1>2, ConcatProperties, LenProperties, ZenonT(60)
<1>5. /\ n + 1 <= Len(b) + Len(t)
      /\ \A i \in 1 .. n + 1 : a[i] = (b \o t)[i]
  <2>1. Len(a) <= Len(b \o t) /\ \A i \in 1 .. Len(a) : a[i] = (b \o t)[i]
    <3>1. PICK s : s = b \o t
      OBVIOUS
    <3>2. s \in Seq(Chars) /\ StartsWith(s, a)
      BY <1>3, <1>4, <3>1
    <3>3. Len(a) <= Len(s) /\ \A i \in 1 .. Len(a) : a[i] = s[i]
      BY <1>1, <3>2, PrefixIsPointwise
    <3> QED
      BY <3>1, <3>3
  <2> QED
    BY <1>1, <1>4, <2>1
<1>6. \A i \in 1 .. n + 1 : i <= m + 1 => a[i] = b[i]
  <2>1. TAKE i \in 1 .. n + 1
  <2>2. HAVE i <= m + 1
  <2>3. i \in 1 .. Len(b) + Len(t) /\ i <= Len(b)
    BY <1>1, <1>2, <1>4, <1>5, <2>2
  <2> QED
    BY <1>4, <1>5, <2>3
<1>7. n = m
  <2>1. CASE n < m
    <3>1. n + 1 \in 1 .. m /\ n + 1 \in 1 .. n + 1 /\ n + 1 <= m + 1
      BY <1>1, <1>2, <2>1
    <3> QED
      BY <1>1, <1>2, <1>6, <3>1
  <2>2. CASE m < n
    <3>1. m + 1 \in 1 .. n /\ m + 1 \in 1 .. n + 1 /\ m + 1 <= m + 1
      BY <1>1, <1>2, <2>2
    <3> QED
      BY <1>1, <1>2, <1>6, <3>1
  <2> QED
    BY <1>1, <1>2, <2>1, <2>2
<1>8. \A i \in 1 .. n : IdText[x][i] = IdText[y][i]
  <2>1. TAKE i \in 1 .. n
  <2>2. i \in 1 .. m /\ i \in 1 .. n + 1 /\ i <= m + 1
    BY <1>1, <1>7
  <2> QED
    BY <1>1, <1>2, <1>6, <2>2
<1>9. /\ IdText[x] \in Seq(DigitChars) /\ Len(IdText[x]) = n
      /\ IdText[y] \in Seq(DigitChars) /\ Len(IdText[y]) = n
  BY <1>7, IdTextType DEF n, m
<1>10. IdText[x] = IdText[y]
  BY <1>8, <1>9, SeqEqual
<1> QED
  BY <1>10, IdTextInjective

\* The text of one id is its segment.
LEMMA TextOfOne ==
  ASSUME NEW x \in Nat
  PROVE  TextOfIds(<<x>>) = Segment(x)
<1>1. <<>> \in Seq(Nat)
  BY EmptySeq
<1>2. Append(<<>>, x) = <<x>>
  OBVIOUS
<1>3. TextOfIds(Append(<<>>, x)) = <<>> \o Segment(x)
  BY <1>1, TextOfIdsAppend, TextOfNone
<1>4. Segment(x) \in Seq(Chars)
  BY SegmentType
<1>5. <<>> \o Segment(x) = Segment(x)
  BY <1>4, ConcatEmptySeq
<1> QED
  BY <1>2, <1>3, <1>5

\* What starts with a sequence starts with what that one starts with.
LEMMA StartsTransitively ==
  ASSUME NEW S, NEW a \in Seq(S), NEW b \in Seq(S), NEW c \in Seq(S),
         StartsWith(c, b), StartsWith(b, a)
  PROVE  StartsWith(c, a)
<1>1. /\ Len(a) <= Len(b) /\ \A i \in 1 .. Len(a) : a[i] = b[i]
      /\ Len(b) <= Len(c) /\ \A i \in 1 .. Len(b) : b[i] = c[i]
      /\ Len(a) \in Nat /\ Len(b) \in Nat /\ Len(c) \in Nat
  BY PrefixIsPointwise, LenProperties
<1>2. Len(a) <= Len(c) /\ \A i \in 1 .. Len(a) : a[i] = c[i]
  BY <1>1
<1> QED
  BY <1>2, PrefixIsPointwise

\* Behind a common beginning, one sequence starts with the other all the same.
LEMMA StartsBehind ==
  ASSUME NEW S, NEW a \in Seq(S), NEW b \in Seq(S), NEW c \in Seq(S),
         StartsWith(a \o c, a \o b)
  PROVE  StartsWith(c, b)
<1> DEFINE n == Len(a)
<1>1. PICK ab, ac : ab = a \o b /\ ac = a \o c
  OBVIOUS
<1>2. /\ ab \in Seq(S) /\ Len(ab) = n + Len(b)
      /\ \A i \in 1 .. n + Len(b) : ab[i] = IF i <= n THEN a[i] ELSE b[i - n]
      /\ ac \in Seq(S) /\ Len(ac) = n + Len(c)
      /\ \A i \in 1 .. n + Len(c) : ac[i] = IF i <= n THEN a[i] ELSE c[i - n]
      /\ n \in Nat /\ Len(b) \in Nat /\ Len(c) \in Nat
  BY <1>1, ConcatProperties, LenProperties
<1>3. Len(ab) <= Len(ac) /\ \A i \in 1 .. Len(ab) : ab[i] = ac[i]
  <2>1. StartsWith(ac, ab)
    BY <1>1
  <2> QED
    BY <1>2, <2>1, PrefixIsPointwise, ZenonT(60)
<1> HIDE DEF n
<1>4. Len(b) <= Len(c)
  BY <1>2, <1>3
<1>5. \A i \in 1 .. Len(b) : b[i] = c[i]
  <2>1. TAKE i \in 1 .. Len(b)
  <2>2. /\ n + i \in 1 .. n + Len(b) /\ n + i \in 1 .. n + Len(c) /\ n + i \in 1 .. Len(ab)
        /\ ~(n + i <= n) /\ (n + i) - n = i
    BY <1>2, <1>4
  <2>3. ab[n + i] = b[i] /\ ac[n + i] = c[i]
    BY <1>2, <2>2
  <2> QED
    BY <1>3, <2>2, <2>3
<1> QED
  BY <1>4, <1>5, PrefixIsPointwise

\* A path of some length has a first id.
LEMMA FirstAndRest ==
  ASSUME NEW S, NEW q \in Seq(S), q # <<>>
  PROVE  \E y \in S, v \in Seq(S) : q = <<y>> \o v
<1>1. Len(q) \in Nat /\ Len(q) # 0
  BY EmptySeq, LenProperties
<1>2. 1 \in 1 .. Len(q) /\ Len(q) \in 1 .. Len(q)
  BY <1>1
<1>3. q = <<q[1]>> \o SubSeq(q, 2, Len(q))
  <2>1. SubSeq(q, 1, Len(q)) = <<q[1]>> \o SubSeq(q, 1 + 1, Len(q))
    BY <1>2, SubSeqRecursiveFirst
  <2>2. SubSeq(q, 1, Len(q)) = q
    BY SubSeqFull
  <2> QED
    BY <2>1, <2>2
<1>4. q[1] \in S /\ SubSeq(q, 2, Len(q)) \in Seq(S)
  <2>1. \A i \in 1 .. Len(q) : q[i] \in S
    BY ElementOfSeq
  <2>2. 2 \in Int /\ Len(q) \in Int /\ \A i \in 2 .. Len(q) : q[i] \in S
    BY <1>1, <2>1
  <2> QED
    BY <1>2, <2>1, <2>2, SubSeqProperties
<1> QED
  BY <1>3, <1>4

\* A path starts with another one exactly when its text starts with that one's.
LEMMA TextPrefix ==
  ASSUME NEW S \in SUBSET Nat, NEW s \in Seq(S), NEW o \in Seq(S)
  PROVE  IsPrefix(Text(o), Text(s)) <=> StartsWith(s, o)
<1>1. ASSUME StartsWith(s, o)
      PROVE  IsPrefix(Text(o), Text(s))
  <2>1. PICK q \in Seq(S) : s = o \o q
    BY <1>1, StartAndEnd, ZenonT(60)
  <2>2. Text(s) = Text(o) \o TextOfIds(q) /\ Text(o) \in Seq(Chars) /\ TextOfIds(q) \in Seq(Chars)
    BY <2>1, TextOfConcat, TextIs, TextOfIdsType
  <2>3. \A a, b \in Seq(Chars) : StartsWith(a \o b, a)
    BY StartsWithFirst
  <2> QED
    BY <2>2, <2>3 DEF StartsWith
<1>2. ASSUME IsPrefix(Text(o), Text(s))
      PROVE  StartsWith(s, o)
  <2> DEFINE Good(t) == StartsWith(Text(s), Text(t)) => StartsWith(s, t)
             Bad == {k \in Nat : \E t \in Seq(S) : Len(t) = k /\ ~Good(t)}
  <2>1. CASE Bad = {}
    BY <1>2, <2>1, LenProperties DEF StartsWith
  <2>2. CASE Bad # {}
    <3>1. PICK k \in Bad : \A j \in Bad : k <= j
      BY <2>2, LeastOf
    <3>2. PICK t \in Seq(S) : Len(t) = k /\ ~Good(t)
      BY <3>1
    <3>3. t # <<>>
      <4>1. StartsWith(s, <<>>)
        <5>1. PICK e : e = <<>> /\ e \in Seq(S) /\ Len(e) = 0
          BY EmptySeq
        <5>2. Len(s) \in Nat /\ Len(e) <= Len(s) /\ \A i \in 1 .. Len(e) : e[i] = s[i]
          BY <5>1, LenProperties
        <5>3. StartsWith(s, e)
          BY <5>1, <5>2, PrefixIsPointwise
        <5> QED
          BY <5>1, <5>3
      <4> QED
        BY <3>2, <4>1
    <3>4. PICK u \in Seq(S), x \in S : t = Append(u, x)
      BY <3>3, SequenceEmptyOrAppend
    <3>5. Len(t) = Len(u) + 1 /\ Len(u) \in Nat
      BY <3>4, AppendProperties, LenProperties
    <3>6. Good(u)
      <4>1. Len(u) \in Nat /\ ~(k <= Len(u))
        BY <3>2, <3>5
      <4>2. Len(u) \notin Bad
        BY <3>1, <4>1
      <4> QED
        BY <4>1, <4>2
    <3>7. <<x>> \in Seq(S) /\ t = u \o <<x>>
      <4>1. <<>> \in Seq(S)
        BY EmptySeq
      <4> QED
        BY <3>4, <4>1, AppendIsConcat
    <3>8. /\ Text(u) \in Seq(Chars) /\ Text(s) \in Seq(Chars) /\ Text(t) \in Seq(Chars)
          /\ TextOfIds(<<x>>) = Segment(x) /\ Segment(x) \in Seq(Chars)
          /\ Text(t) = Text(u) \o Segment(x)
      <4>1. TextOfIds(<<x>>) = Segment(x)
        BY TextOfOne
      <4>2. Text(t) = Text(u) \o TextOfIds(<<x>>)
        BY <3>7, TextOfConcat
      <4>3. Text(u) \in Seq(Chars) /\ Text(s) \in Seq(Chars) /\ Text(t) \in Seq(Chars)
        BY TextIs
      <4>4. Segment(x) \in Seq(Chars)
        BY SegmentType
      <4> QED
        BY <4>1, <4>2, <4>3, <4>4
    <3>9. StartsWith(Text(s), Text(t)) /\ ~StartsWith(s, t)
      BY <3>2
    <3>10. StartsWith(s, u)
      <4>1. StartsWith(Text(t), Text(u))
        <5>1. \A a, b \in Seq(Chars) : StartsWith(a \o b, a)
          BY StartsWithFirst
        <5> QED
          BY <3>8, <5>1
      <4>2. StartsWith(Text(s), Text(u))
        BY <3>8, <3>9, <4>1, StartsTransitively
      <4> QED
        BY <3>6, <4>2
    <3>11. PICK q \in Seq(S) : s = u \o q
      <4>1. /\ SubSeq(s, Len(u) + 1, Len(s)) \in Seq(S)
            /\ s = u \o SubSeq(s, Len(u) + 1, Len(s))
        BY <3>10, StartAndEnd
      <4> QED
        BY <4>1
    <3>12. Text(s) = Text(u) \o TextOfIds(q) /\ TextOfIds(q) \in Seq(Chars)
      BY <3>11, TextOfConcat, TextOfIdsType
    <3>13. StartsWith(TextOfIds(q), Segment(x))
      BY <3>8, <3>9, <3>12, StartsBehind
    <3>14. q # <<>>
      <4>1. Len(Segment(x)) \in Nat /\ Len(Segment(x)) > 0
        <5>1. x \in Nat
          OBVIOUS
        <5>2. Len(Segment(x)) = Digits[x] + 1 /\ Digits[x] \in Nat
          BY <5>1, SegmentType
        <5> QED
          BY <5>2
      <4>2. ASSUME q = <<>>
            PROVE  FALSE
        <5>1. TextOfIds(q) = <<>> /\ Len(<<>>) = 0
          BY <4>2, TextOfNone, EmptySeq
        <5> QED
          BY <3>8, <3>12, <3>13, <4>1, <5>1 DEF StartsWith, IsPrefix
      <4> QED
        BY <4>2
    <3>15. PICK y \in S, v \in Seq(S) : q = <<y>> \o v
      BY <3>14, FirstAndRest
    <3>16. <<y>> \in Seq(S)
      <4>1. <<>> \in Seq(S)
        BY EmptySeq
      <4> QED
        BY <4>1
    <3>17. TextOfIds(q) = Segment(y) \o TextOfIds(v) /\ TextOfIds(v) \in Seq(Chars)
      <4>1. TextOfIds(<<y>>) = Segment(y)
        BY TextOfOne
      <4>2. TextOfIds(q) = TextOfIds(<<y>>) \o TextOfIds(v)
        BY <3>15, <3>16, TextOfIdsConcat
      <4>3. TextOfIds(v) \in Seq(Chars)
        BY TextOfIdsType
      <4> QED
        BY <4>1, <4>2, <4>3
    <3>18. x = y
      BY <3>13, <3>17, SegmentsDiffer
    <3>19. s = t \o v
      <4>1. (u \o <<x>>) \o v = u \o (<<x>> \o v)
        BY <3>7, <3>15, ConcatAssociative, SMTT(30)
      <4> QED
        BY <3>7, <3>11, <3>15, <3>18, <4>1
    <3>20. StartsWith(s, t)
      BY <3>15, <3>19, StartsWithFirst
    <3> QED
      BY <3>9, <3>20
  <2> QED
    BY <2>1, <2>2
<1> QED
  BY <1>1, <1>2

-----------------------------------------------------------------------------
(* The theorems                                                             *)

\* The three paths are sequences of ids.
PathsAreSequences ==
  path \in Seq(PathIds) /\ prefix \in Seq(PathIds) /\ new \in Seq(PathIds)

\* Every path the growing reaches is a sequence of ids.
LEMMA AlwaysSequences == Spec => []PathsAreSequences
<1>1. Init => PathsAreSequences
  BY EmptySeq DEF Init, PathsAreSequences
<1>2. PathsAreSequences /\ [Next]_vars => PathsAreSequences'
  <2>1. ASSUME NEW p \in Seq(PathIds), NEW id \in PathIds
        PROVE  FullPath(p, id) \in Seq(PathIds)
    BY AppendProperties DEF FullPath
  <2> QED
    BY <2>1 DEF PathsAreSequences, Next, vars, Grow
<1> QED
  BY <1>1, <1>2, PTL DEF Spec

\* Len() of the text of a path is what PathLength computes, for ids of any number
\* of digits and paths of any depth: the length checks compare the right number.
THEOREM LengthCorrect == Spec => []LengthAgrees
<1>1. PathsAreSequences => LengthAgrees
  BY PathIdsAssumption, TextLength DEF PathsAreSequences, LengthAgrees
<1> QED
  BY <1>1, AlwaysSequences, PTL

\* startswith() and LIKE on the texts of two paths hold exactly when the one is
\* the other's beginning, id by id: no id passes for the start of a longer one.
THEOREM PrefixCorrect == Spec => []PrefixAgrees
<1>1. PathsAreSequences => PrefixAgrees
  BY PathIdsAssumption, TextPrefix DEF PathsAreSequences, PrefixAgrees
<1> QED
  BY <1>1, AlwaysSequences, PTL

\* Concat and Substr on the texts re-root a path as Rebase does on its ids, with
\* nothing lost and nothing left over.
THEOREM CutCorrect == Spec => []CutAgrees
<1>1. PathsAreSequences => CutAgrees
  <2>1. SUFFICES ASSUME PathsAreSequences, StartsWith(path, prefix)
                 PROVE  Text(Rebase(path, prefix, new)) =
                          Text(new) \o SubSeq(Text(path), Len(Text(prefix)) + 1, Len(Text(path)))
    BY DEF CutAgrees
  <2> DEFINE q == SubSeq(path, Len(prefix) + 1, Len(path))
  <2>2. PathIds \in SUBSET Nat
        /\ path \in Seq(PathIds) /\ prefix \in Seq(PathIds) /\ new \in Seq(PathIds)
    BY <2>1, PathIdsAssumption DEF PathsAreSequences
  <2>3. q \in Seq(PathIds) /\ path = prefix \o q /\ Rebase(path, prefix, new) = new \o q
    BY <2>1, <2>2, StartAndEnd DEF Rebase
  <2> HIDE DEF q
  <2>4. /\ Text(path) = Text(prefix) \o TextOfIds(q)
        /\ Text(Rebase(path, prefix, new)) = Text(new) \o TextOfIds(q)
        /\ Text(prefix) \in Seq(Chars) /\ TextOfIds(q) \in Seq(Chars)
    BY <2>2, <2>3, TextOfConcat, TextIs, TextOfIdsType
  <2>5. SubSeq(Text(path), Len(Text(prefix)) + 1, Len(Text(path))) = TextOfIds(q)
    BY <2>4, EndOfConcat
  <2> QED
    BY <2>4, <2>5
<1> QED
  BY <1>1, AlwaysSequences, PTL

=============================================================================
