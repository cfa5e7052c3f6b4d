------------------------ MODULE CatalogSearch_proofs ------------------------
(***************************************************************************)
(* For every catalogue, every page size and every set of queries: a search *)
(* finds what the client means, whatever changes next to it, and without   *)
(* changes its pages add up.                                               *)
(*                                                                         *)
(* First the arithmetic of pages and what is found; then listings, which   *)
(* are unique; then the steps; last the theorems.                          *)
(***************************************************************************)
EXTENDS CatalogSearch, CategoryRules_proofs, FiniteSetTheorems

-----------------------------------------------------------------------------
(* Pages                                                                    *)

\* Rounding up.
LEMMA Ceiling ==
  ASSUME NEW n \in Nat, NEW s \in Nat \ {0}, NEW q, q = (n + s - 1) \div s
  PROVE  q \in Nat /\ n <= q * s /\ q * s < n + s
OBVIOUS

\* A product of naturals grows with its first factor.
LEMMA Monotonic ==
  ASSUME NEW k \in Int, NEW m \in Int, k <= m, NEW s \in Nat
  PROVE  k * s <= m * s
OBVIOUS

\* The page size the API uses is never zero: it is what `page_size` is cut to.
LEMMA SizeType ==
  ASSUME query \in Queries
  PROVE  Size \in Nat \ {0}
<1>1. /\ query.page_size \in (Nat \ {0}) \cup {None}
      /\ DefaultSize \in Nat \ {0} /\ MaxSize \in Nat \ {0}
  BY SearchAssumption
<1>2. \A a, b \in Nat \ {0} : Min({a, b}) \in Nat \ {0}
  BY DEF Min
<1> QED
  BY <1>1, <1>2 DEF Size

\* All but the last page are full, and there is no empty one but the first.
LEMMA PagesFacts ==
  ASSUME query \in Queries, NEW n \in Nat, NEW pages, pages = Pages(n)
  PROVE  /\ pages \in Nat \ {0} /\ (pages <= n \/ pages = 1)
         /\ n <= pages * Size
         /\ \A k \in Nat : k + 1 <= pages => k * Size <= n
         /\ \A k \in Nat : k # 0 /\ k < pages => k * Size < n
<1>1. PICK s : s = Size
  OBVIOUS
<1>2. s \in Nat \ {0}
  BY <1>1, SizeType
<1>3. PICK q : q = (n + s - 1) \div s
  OBVIOUS
<1>4. q \in Nat /\ n <= q * s /\ q * s < n + s
  BY <1>2, <1>3, Ceiling
<1>5. pages = Max({1, q})
  BY <1>1, <1>3 DEF Pages
<1>6. pages = IF q <= 1 THEN 1 ELSE q
  BY <1>4, <1>5 DEF Max
<1>7. n <= pages * s
  BY <1>2, <1>4, <1>6
<1>8. q <= n \/ q <= 1
  <2>1. SUFFICES ASSUME n < q, 1 < q PROVE FALSE
    BY <1>4
  <2>2. n * s <= (q - 1) * s
    BY <1>2, <1>4, <2>1, Monotonic
  <2>3. (q - 1) * s = q * s - s
    BY <1>2, <1>4
  <2>4. q * s \in Nat /\ n * s \in Nat
    BY <1>2, <1>4
  <2>5. n * s < n
    BY <1>2, <1>4, <2>2, <2>3, <2>4
  <2>6. n * 1 <= n * s
    BY <1>2
  <2> QED
    BY <2>4, <2>5, <2>6
<1>9. ASSUME NEW k \in Nat, k # 0, k < pages
      PROVE  k * s < n
  <2>1. k <= q - 1 /\ q - 1 \in Int
    BY <1>4, <1>6, <1>9
  <2>2. k * s <= (q - 1) * s
    BY <1>2, <2>1, Monotonic
  <2>3. (q - 1) * s = q * s - s
    BY <1>2, <1>4
  <2>4. q * s \in Nat /\ k * s \in Nat
    BY <1>2, <1>4, <1>9
  <2> QED
    BY <1>2, <1>4, <2>2, <2>3, <2>4
<1>10. ASSUME NEW k \in Nat, k + 1 <= pages
       PROVE  k * s <= n
  <2>1. CASE k = 0
    BY <1>2, <2>1
  <2>2. CASE k # 0
    <3>1. k < pages
      BY <1>4, <1>6, <1>10
    <3>2. k * s < n /\ k * s \in Nat
      BY <1>2, <1>9, <2>2, <3>1
    <3> QED
      BY <3>2
  <2> QED
    BY <2>1, <2>2
<1> QED
  BY <1>1, <1>4, <1>6, <1>7, <1>8, <1>9, <1>10

-----------------------------------------------------------------------------
(* What is found                                                            *)

\* What a search finds is what its client means as far as it is about the
\* products; the category is found by its prefix, and meant by the parent links.
LEMMA FoundAndMeant ==
  ASSUME TypeOK, query \in Queries,
         NEW p \in ProductsExisting
  PROVE  \E other \in BOOLEAN :
            /\ p \in Found <=> other /\ (query.category # None =>
                    products[p].category \in SubtreeOf(query.category, prefix))
            /\ p \in Meant <=> other /\ (query.category # None =>
                    IsBelow(rows, products[p].category, query.category))
<1>1. /\ products[p] \in ProductRows /\ products[p].price \in Nat
      /\ query.min_price \in Int \cup {None} /\ query.max_price \in Int \cup {None}
  BY SearchAssumption DEF TypeOK, ProductsExisting
<1> DEFINE words == \A word \in query.q : <<word, products[p].title>> \in WordIn \/ <<word, Sku[p]>> \in WordIn
           sku == query.sku # None => Sku[p] = Normalized[query.sku]
           min == query.min_price # None => query.min_price <= products[p].price
           max == query.max_price # None => products[p].price <= query.max_price
<1>2. MatchesTerms(p, query.q) <=> words
  BY DEF MatchesTerms
<1>3. WithSku(p, query.sku) <=> sku
  BY DEF WithSku
<1>4. PricedBetween(products[p], query.min_price, query.max_price) <=> min /\ max
  BY <1>1 DEF PricedBetween
<1>5. (\A word \in query.q : \E text \in {products[p].title, Sku[p]} : <<word, text>> \in WordIn) <=> words
  OBVIOUS
<1>6. (query.sku # None => Normalized[query.sku] = Sku[p]) <=> sku
  OBVIOUS
<1> HIDE DEF words, sku, min, max
<1>7. p \in Found <=> (words /\ sku /\ min /\ max) /\ (query.category # None =>
        products[p].category \in SubtreeOf(query.category, prefix))
  BY <1>2, <1>3, <1>4 DEF Found
<1>8. p \in Meant <=> (words /\ sku /\ min /\ max) /\ (query.category # None =>
        IsBelow(rows, products[p].category, query.category))
  BY <1>5, <1>6 DEF Meant, min, max
<1> QED
  BY <1>7, <1>8

\* A prefix that ends with the category matches below that category, and nowhere
\* once the category is not where it was.
LEMMA PrefixMatches ==
  ASSUME NEW T \in Tables, TableAgrees(T), NEW i \in Existing(T), NEW c \in Ids,
         NEW path \in Seq(Ids), path # ROOT_PATH, path[Len(path)] = c
  PROVE  LET matches == i = c \/ StartsWith(T[i].ancestor_path, path)
         IN  /\ c \in Existing(T) /\ path = PathOf(T, c) => (matches <=> IsBelow(T, i, c))
             /\ ~(c \in Existing(T) /\ path = PathOf(T, c)) => (matches <=> i = c)
             /\ c \notin Existing(T) => ~IsBelow(T, i, c)
<1>1. PICK above \in Seq(Ids) : path = FullPath(above, c)
  <2>1. PICK above \in Seq(Ids), last \in Ids : path = Append(above, last)
    BY SequenceEmptyOrAppend DEF ROOT_PATH
  <2>2. last = c
    BY <2>1, AppendProperties
  <2> QED
    BY <2>1, <2>2 DEF FullPath
<1>2. StartsWith(T[i].ancestor_path, path) => c \in Existing(T) /\ path = PathOf(T, c)
  BY <1>1, PrefixNamesAPath DEF PathOf
<1>3. c \in Existing(T) => (IsBelow(T, i, c) <=> i = c \/ StartsWith(T[i].ancestor_path, PathOf(T, c)))
  BY PrefixMatchIsBelow
<1>4. c \notin Existing(T) => ~IsBelow(T, i, c)
  <2>1. \A j \in Existing(T) : T[j].parent \in Existing(T) \cup {None}
    BY AgreesAt
  <2> QED
    BY <2>1 DEF IsBelow
<1> QED
  BY <1>2, <1>3, <1>4

\* The foreign key: a product that exists is in a category that exists.
LEMMA ProductsHaveCategories ==
  ASSUME TypeOK, TablesInv, NEW p \in ProductsExisting
  PROVE  products[p].category \in Existing(rows) /\ products[p].category \in Ids
BY DEF TablesInv, Existing

\* As long as the category is where the request has found it, the search finds
\* what the client means.
LEMMA InPlaceFindsWhatIsMeant ==
  ASSUME TypeOK, TablesInv, LookupInv, Searching, ~Stale
  PROVE  Found = Meant
<1>1. query \in Queries /\ rows \in Tables /\ prefix \in Seq(Ids) /\ query.category \in Ids \cup {None}
  BY SearchAssumption DEF LookupInv, Searching, TypeOK, Tables
<1>2. ASSUME NEW p \in ProductsExisting
      PROVE  p \in Found <=> p \in Meant
  <2>1. PICK c, i : c = query.category /\ i = products[p].category
    OBVIOUS
  <2>2. CASE c = None
    BY <1>1, <2>1, <2>2, FoundAndMeant
  <2>3. CASE c # None
    <3>1. i \in Existing(rows) /\ c \in Ids /\ prefix # ROOT_PATH /\ prefix[Len(prefix)] = c
      BY <1>1, <2>1, <2>3, ProductsHaveCategories DEF LookupInv
    <3>2. (i = c \/ StartsWith(rows[i].ancestor_path, prefix)) <=> IsBelow(rows, i, c)
      <4>1. CASE c \in Existing(rows) /\ prefix = PathOf(rows, c)
        BY <1>1, <3>1, <4>1, PrefixMatches DEF TablesInv
      <4>2. CASE ~(c \in Existing(rows) /\ prefix = PathOf(rows, c))
        <5>1. c \notin Existing(rows)
          BY <2>1, <4>2 DEF Stale
        <5>2. ~IsBelow(rows, i, c)
          BY <1>1, <3>1, <5>1, PrefixMatches DEF TablesInv
        <5>3. (i = c \/ StartsWith(rows[i].ancestor_path, prefix)) <=> i = c
          BY <1>1, <3>1, <4>2, PrefixMatches DEF TablesInv
        <5> QED
          BY <3>1, <5>1, <5>2, <5>3
      <4> QED
        BY <4>1, <4>2
    <3>3. i \in SubtreeOf(c, prefix) <=> i = c \/ StartsWith(rows[i].ancestor_path, prefix)
      BY <3>1 DEF SubtreeOf, UnderPath
    <3> QED
      BY <1>1, <2>1, <3>2, <3>3, FoundAndMeant
  <2> QED
    BY <2>2, <2>3
<1>3. Found \subseteq ProductsExisting /\ Meant \subseteq ProductsExisting
  BY DEF Found, Meant
<1> QED
  BY <1>2, <1>3

\* When it has been moved, the search finds what is in the category itself.
LEMMA StaleFindsTheCategoryItself ==
  ASSUME TypeOK, TablesInv, LookupInv, Searching, Stale
  PROVE  Found = {p \in Meant : products[p].category = query.category}
<1>1. query \in Queries /\ rows \in Tables /\ prefix \in Seq(Ids) /\ query.category \in Ids \cup {None}
  BY SearchAssumption DEF LookupInv, Searching, TypeOK, Tables
<1>2. query.category \in Existing(rows) /\ query.category \in Ids /\ query.category # None
  BY IdsFacts DEF Stale, Existing
<1>3. ASSUME NEW p \in ProductsExisting
      PROVE  p \in Found <=> p \in Meant /\ products[p].category = query.category
  <2>1. PICK c, i : c = query.category /\ i = products[p].category
    OBVIOUS
  <2>2. i \in Existing(rows) /\ c \in Ids /\ prefix # ROOT_PATH /\ prefix[Len(prefix)] = c
    BY <1>1, <1>2, <2>1, ProductsHaveCategories DEF LookupInv
  <2>3. (i = c \/ StartsWith(rows[i].ancestor_path, prefix)) <=> i = c
    BY <1>1, <2>1, <2>2, PrefixMatches DEF TablesInv, Stale
  <2>4. i = c => IsBelow(rows, i, c)
    BY DEF IsBelow
  <2>5. i \in SubtreeOf(c, prefix) <=> i = c \/ StartsWith(rows[i].ancestor_path, prefix)
    BY <2>2 DEF SubtreeOf, UnderPath
  <2> QED
    BY <1>1, <1>2, <2>1, <2>3, <2>4, <2>5, FoundAndMeant
<1>4. Found \subseteq ProductsExisting /\ Meant \subseteq ProductsExisting
  BY DEF Found, Meant
<1> QED
  BY <1>3, <1>4

-----------------------------------------------------------------------------
(* Listings                                                                 *)

\* A listing of a finite set has everything in it, once.
LEMMA ListingOf ==
  ASSUME NEW S, IsFiniteSet(S), NEW s \in SetToSeqs(S)
  PROVE  /\ s \in Seq(S) /\ Len(s) = Cardinality(S) /\ DOMAIN s = 1 .. Len(s)
         /\ \A i, j \in 1 .. Len(s) : s[i] = s[j] => i = j
         /\ \A x \in S : \E i \in 1 .. Len(s) : s[i] = x
         /\ ToSet(s) = S
<1> DEFINE n == Cardinality(S)
           D == 1 .. n
<1>1. n \in Nat
  BY FS_CardinalityType
<1> HIDE DEF n
<1>2. s \in [D -> S] /\ \A i, j \in D : i # j => s[i] # s[j]
  BY DEF SetToSeqs, n
<1>3. s \in Seq(S) /\ Len(s) = n /\ DOMAIN s = D
  BY <1>1, <1>2
<1>4. s \in Injection(D, S)
  BY <1>2 DEF Injection, IsInjective
<1>5. IsFiniteSet(D) /\ Cardinality(D) = n
  BY <1>1, FS_Interval
<1>6. s \in Surjection(D, S)
  BY <1>4, <1>5, FS_Injection DEF n
<1>7. \A x \in S : \E i \in D : s[i] = x
  BY <1>6 DEF Surjection
<1>8. ToSet(s) = S
  BY <1>2, <1>3, <1>7 DEF ToSet
<1> QED
  BY <1>2, <1>3, <1>7, <1>8 DEF n

\* What a query finds and what it means are finite, so they can be counted.
LEMMA MeantIsFinite ==
  /\ ProductsExisting \subseteq Products /\ Found \subseteq ProductsExisting /\ Meant \subseteq ProductsExisting
  /\ IsFiniteSet(Products) /\ Cardinality(Products) \in Nat
  /\ IsFiniteSet(Found) /\ Cardinality(Found) \in 0 .. Cardinality(Products)
  /\ IsFiniteSet(Meant) /\ Cardinality(Meant) \in 0 .. Cardinality(Products)
<1>1. Found \subseteq ProductsExisting /\ Meant \subseteq ProductsExisting /\ ProductsExisting \subseteq Products
  BY DEF Found, Meant, ProductsExisting
<1>2. IsFiniteSet(Products)
  BY SearchAssumption
<1>3. \A S \in SUBSET Products : IsFiniteSet(S) /\ Cardinality(S) \in 0 .. Cardinality(Products)
  BY <1>2, FS_Subset, FS_CardinalityType
<1>4. Found \in SUBSET Products /\ Meant \in SUBSET Products
  BY <1>1
<1> QED
  BY <1>1, <1>2, <1>3, <1>4, FS_CardinalityType

\* The ids make the order total.
LEMMA OneGoesFirst ==
  ASSUME TypeOK, query \in Queries, NEW p \in ProductsExisting, NEW q \in ProductsExisting,
         Precedes(p, q), Precedes(q, p)
  PROVE  p = q
<1>1. /\ products[p].price \in Nat /\ products[q].price \in Nat /\ p \in Nat /\ q \in Nat
  BY SearchAssumption DEF TypeOK, ProductsExisting
<1> QED
  BY <1>1 DEF Precedes

\* So there is one listing: where two differed first, each of the two products
\* would go before the other.
LEMMA OneListing ==
  ASSUME TypeOK, query \in Queries, NEW s \in Listings, NEW t \in Listings
  PROVE  s = t
<1>1. /\ s \in SetToSeqs(Meant) /\ t \in SetToSeqs(Meant)
      /\ \A i, j \in DOMAIN s : i < j => Precedes(s[i], s[j])
      /\ \A i, j \in DOMAIN t : i < j => Precedes(t[i], t[j])
  BY DEF Listings
<1>2. PICK n : n = Cardinality(Meant)
  OBVIOUS
<1>3. n \in Nat /\ Meant \subseteq ProductsExisting
  BY <1>2, MeantIsFinite, FS_CardinalityType
<1>4. /\ s \in Seq(Meant) /\ Len(s) = n /\ DOMAIN s = 1 .. n
      /\ \A i, j \in 1 .. n : s[i] = s[j] => i = j
      /\ \A x \in Meant : \E i \in 1 .. n : s[i] = x
  BY <1>1, <1>2, MeantIsFinite, ListingOf
<1>5. /\ t \in Seq(Meant) /\ Len(t) = n /\ DOMAIN t = 1 .. n
      /\ \A i, j \in 1 .. n : t[i] = t[j] => i = j
      /\ \A x \in Meant : \E i \in 1 .. n : t[i] = x
  BY <1>1, <1>2, MeantIsFinite, ListingOf
<1>6. ASSUME NEW k \in 1 .. n, s[k] # t[k]
      PROVE  FALSE
  <2> DEFINE Differ == {i \in 1 .. n : s[i] # t[i]}
  <2>1. Differ \in SUBSET Nat /\ Differ # {}
    BY <1>3, <1>6
  <2>2. PICK d \in Differ : \A e \in Differ : d <= e
    BY <2>1, LeastOf
  <2>3. d \in 1 .. n /\ s[d] # t[d] /\ s[d] \in Meant /\ t[d] \in Meant
    BY <1>4, <1>5, <2>2
  <2>4. \A e \in 1 .. n : e < d => s[e] = t[e]
    BY <1>3, <2>2, <2>3
  <2>5. PICK i \in 1 .. n : t[i] = s[d]
    BY <1>5, <2>3
  <2>6. PICK j \in 1 .. n : s[j] = t[d]
    BY <1>4, <2>3
  <2>7. d < i
    BY <1>3, <1>4, <2>3, <2>4, <2>5
  <2>8. d < j
    BY <1>3, <1>5, <2>3, <2>4, <2>6
  <2>9. Precedes(s[d], t[d])
    BY <1>1, <1>4, <2>3, <2>6, <2>8
  <2>10. Precedes(t[d], s[d])
    BY <1>1, <1>5, <2>3, <2>5, <2>7
  <2> QED
    BY <1>3, <2>3, <2>9, <2>10, OneGoesFirst
<1> QED
  BY <1>4, <1>5, <1>6, SeqEqual

\* A page put after the pages before it makes a longer beginning of the same list.
LEMMA NextPart ==
  ASSUME NEW S, NEW s \in Seq(S), NEW a \in Nat, NEW b \in Nat, a <= b, b <= Len(s)
  PROVE  SubSeq(s, 1, a) \o SubSeq(s, a + 1, b) = SubSeq(s, 1, b)
<1> DEFINE u == SubSeq(s, 1, a)
           v == SubSeq(s, a + 1, b)
           w == SubSeq(s, 1, b)
<1>1. /\ u \in Seq(S) /\ Len(u) = a /\ \A i \in 1 .. a : u[i] = s[i]
      /\ w \in Seq(S) /\ Len(w) = b /\ \A i \in 1 .. b : w[i] = s[i]
  BY LenProperties, SubSeqProperties
<1>2. v \in Seq(S) /\ Len(v) = b - a /\ \A i \in 1 .. b - a : v[i] = s[a + i]
  BY LenProperties, SubSeqProperties
<1> HIDE DEF u, v, w
<1>3. /\ u \o v \in Seq(S) /\ Len(u \o v) = b
      /\ \A i \in 1 .. b : (u \o v)[i] = IF i <= a THEN u[i] ELSE v[i - a]
  <2>1. PICK m : m = Len(v)
    OBVIOUS
  <2>2. m \in Nat /\ a + m = b
    BY <1>2, <2>1
  <2>3. /\ u \o v \in Seq(S) /\ Len(u \o v) = a + m
        /\ \A i \in 1 .. a + m : (u \o v)[i] = IF i <= a THEN u[i] ELSE v[i - a]
    BY <1>1, <1>2, <2>1, ConcatProperties
  <2> QED
    BY <2>2, <2>3
<1>4. ASSUME NEW i \in 1 .. b
      PROVE  (u \o v)[i] = w[i]
  <2>1. CASE i <= a
    BY <1>1, <1>3, <2>1
  <2>2. CASE ~(i <= a)
    <3>1. i - a \in 1 .. b - a /\ a + (i - a) = i
      BY <2>2
    <3> QED
      BY <1>1, <1>2, <1>3, <2>2, <3>1, ZenonT(60)
  <2> QED
    BY <2>1, <2>2
<1>5. u \o v = w
  BY <1>1, <1>3, <1>4, SeqEqual
<1> QED
  BY <1>5 DEF u, v, w

-----------------------------------------------------------------------------
(* Steps                                                                    *)

\* There is at least one product to file.
LEMMA ThereIsAProduct == Cardinality(Products) \in Nat \ {0}
BY SearchAssumption, FS_EmptySet, FS_CardinalityType

\* There is a first page, even of nothing.
LEMMA ThereIsAPage == query \in Queries => 1 <= Pages(Cardinality(Meant))
<1> SUFFICES ASSUME query \in Queries PROVE 1 <= Pages(Cardinality(Meant))
  OBVIOUS
<1>1. PICK n, pages : n = Cardinality(Meant) /\ pages = Pages(n)
  OBVIOUS
<1>2. n \in Nat
  BY <1>1, MeantIsFinite, FS_CardinalityType
<1>3. pages \in Nat \ {0}
  BY <1>1, <1>2, PagesFacts
<1> QED
  BY <1>1, <1>3

\* What a step leaves alone of the tables and the query decides what is meant.
LEMMA Frame ==
  ASSUME rows' = rows, products' = products, query' = query
  PROVE  /\ ProductsExisting' = ProductsExisting /\ Meant' = Meant /\ Size' = Size
         /\ \A n : Pages(n)' = Pages(n)
         /\ Listings' = Listings
<1>1. ProductsExisting' = ProductsExisting
  BY DEF ProductsExisting
<1>2. Meant' = Meant
  BY <1>1 DEF Meant
<1>3. Size' = Size
  BY DEF Size
<1>4. \A n : Pages(n)' = Pages(n)
  BY <1>3 DEF Pages
<1>5. \A p, q : Precedes(p, q)' <=> Precedes(p, q)
  BY DEF Precedes
<1>6. Listings' = Listings
  BY <1>2, <1>5 DEF Listings
<1> QED
  BY <1>1, <1>2, <1>3, <1>4, <1>6

\* A change next to a search takes its promises from it, but not what it knows.
LEMMA ChangeKeeps ==
  ASSUME IInv, UNCHANGED locals, quiet' = (quiet /\ pc = "idle"),
         rows' \in Tables, products' \in [Products -> ProductRows \cup {NoRow}], TablesInv'
  PROVE  IInv'
<1>1. /\ pc' = pc /\ query' = query /\ page' = page /\ prefix' = prefix /\ count' = count
      /\ answer' = answer /\ seen' = seen
  BY DEF locals
<1>2. TypeOK'
  BY <1>1 DEF IInv, TypeOK, Tables
<1>3. LookupInv'
  BY <1>1 DEF IInv, LookupInv, Searching
<1>4. PagesInv'
  <2>1. SUFFICES ASSUME quiet' PROVE PagesInv'
    BY DEF PagesInv
  <2>2. quiet /\ pc' = "idle"
    BY <1>1, <2>1
  <2>3. answer' # "404"
    BY <1>1, <2>2 DEF IInv, PagesInv
  <2>4. ~Searching' /\ pc' \notin {"asked", "resolved", "counted", "done"}
    BY <2>2 DEF Searching
  <2> QED
    BY <2>3, <2>4 DEF PagesInv
<1> QED
  BY <1>2, <1>3, <1>4 DEF IInv

\* Saving a product touches no category path.
LEMMA SaveProductKeeps ==
  ASSUME IInv, SaveProduct
  PROVE  IInv'
<1>1. PICK p \in Products, row \in ProductRows :
        /\ row.category \in Existing(rows)
        /\ products' = [products EXCEPT ![p] = row]
        /\ quiet' = (quiet /\ pc = "idle") /\ UNCHANGED <<rows, locals>>
  BY DEF SaveProduct
<1>2. rows \in Tables /\ products \in [Products -> ProductRows \cup {NoRow}] /\ TablesInv
  BY DEF IInv, TypeOK, Tables
<1>3. products' \in [Products -> ProductRows \cup {NoRow}]
  BY <1>1, <1>2
<1>4. \A q \in Products : products'[q] = IF q = p THEN row ELSE products[q]
  BY <1>1, <1>2
<1>5. TablesInv'
  BY <1>1, <1>2, <1>4 DEF TablesInv, ProductsExisting
<1> QED
  BY <1>1, <1>2, <1>3, <1>5, ChangeKeeps

\* Deleting a product leaves the other products in their categories.
LEMMA DeleteProductKeeps ==
  ASSUME IInv, DeleteProduct
  PROVE  IInv'
<1>1. PICK p \in ProductsExisting :
        /\ products' = [products EXCEPT ![p] = NoRow]
        /\ quiet' = (quiet /\ pc = "idle") /\ UNCHANGED <<rows, locals>>
  BY DEF DeleteProduct
<1>2. rows \in Tables /\ products \in [Products -> ProductRows \cup {NoRow}] /\ TablesInv
  BY DEF IInv, TypeOK, Tables
<1>3. products' \in [Products -> ProductRows \cup {NoRow}]
  BY <1>1, <1>2
<1>4. \A q \in Products : products'[q] = IF q = p THEN NoRow ELSE products[q]
  BY <1>1, <1>2
<1>5. TablesInv'
  BY <1>1, <1>2, <1>4 DEF TablesInv, ProductsExisting
<1> QED
  BY <1>1, <1>2, <1>3, <1>5, ChangeKeeps

\* A move that changes anything changes the path.
LEMMA MoveCategoryKeeps ==
  ASSUME IInv, MoveCategory
  PROVE  IInv'
<1>1. PICK c, parent, request, row, saved :
        /\ c \in Existing(rows) /\ parent \in Existing(rows) \cup {None}
        /\ request = [id |-> c, name |-> Unchanged, parent |-> parent]
        /\ row = Wanted(rows, request)
        /\ saved = [rows EXCEPT ![c] = row]
        /\ row # rows[c] /\ UpdateVerdict(rows, request, row) = "ok"
        /\ rows' = Written(saved, Rewritten(saved, PathOf(rows, c), PathOf(saved, c)))
        /\ quiet' = (quiet /\ pc = "idle") /\ UNCHANGED <<products, locals>>
  BY DEF MoveCategory
<1> c \in Existing(rows) /\ parent \in Existing(rows) \cup {None}
  BY <1>1
<1>2. /\ rows \in Tables /\ products \in [Products -> ProductRows \cup {NoRow}] /\ TablesInv
      /\ TableAgrees(rows) /\ ParentsExist(rows)
  <2>1. rows \in Tables /\ products \in [Products -> ProductRows \cup {NoRow}] /\ TablesInv
    BY DEF IInv, TypeOK, Tables
  <2>2. TableAgrees(rows)
    BY <2>1 DEF TablesInv
  <2> QED
    BY <2>1, <2>2, AgreesAt DEF ParentsExist
<1>3. /\ c \in Ids /\ parent \in Ids \cup {None} /\ rows[c] \in Row
      /\ rows[c].parent \in Existing(rows) \cup {None}
      /\ rows[c].ancestor_path = AncestorPathUnder(rows, rows[c].parent)
      /\ rows[c].ancestor_path \in Seq(Ids)
  BY <1>2, ExistingFacts, RowFields, AgreesAt
<1>4. row = [parent |-> parent, name |-> rows[c].name,
             ancestor_path |-> AncestorPathUnder(rows, parent)]
  BY <1>1, <1>3, MarkersAssumption DEF Wanted
<1>5. /\ row \in Row /\ row.parent = parent /\ row.name = rows[c].name
      /\ row.ancestor_path = AncestorPathUnder(rows, row.parent)
      /\ row.ancestor_path \in Seq(Ids)
  BY <1>2, <1>3, <1>4, AncestorPathType DEF Row
<1>6. row.ancestor_path # rows[c].ancestor_path
  <2>1. SUFFICES ASSUME row.ancestor_path = rows[c].ancestor_path PROVE row.parent = rows[c].parent
    BY <1>1, <1>3, <1>5 DEF Row
  <2>2. PICK a, b : a = rows[c].parent /\ b = parent
    OBVIOUS
  <2>3. AncestorPathUnder(rows, a) = AncestorPathUnder(rows, b)
    BY <1>3, <1>5, <2>1, <2>2
  <2>4. \A d \in Existing(rows) : /\ d \in Ids /\ d # None /\ rows[d].ancestor_path \in Seq(Ids)
                                 /\ FullPath(rows[d].ancestor_path, d) # ROOT_PATH
    BY <1>2, ExistingFacts, RowFields, FullPathIsLonger, IdsFacts
  <2>5. CASE a = None \/ b = None
    BY <1>1, <1>3, <1>5, <2>2, <2>3, <2>4, <2>5 DEF AncestorPathUnder
  <2>6. CASE a # None /\ b # None
    <3>1. a \in Existing(rows) /\ b \in Existing(rows)
      BY <1>1, <1>3, <2>2, <2>6
    <3>2. FullPath(rows[a].ancestor_path, a) = FullPath(rows[b].ancestor_path, b)
      BY <2>3, <2>6 DEF AncestorPathUnder
    <3>3. a = b
      BY <2>4, <3>1, <3>2, FullPathInjective
    <3> QED
      BY <1>5, <2>2, <3>3
  <2> QED
    BY <2>5, <2>6
<1>7. ~StartsWith(row.ancestor_path, PathOf(rows, c))
  <2>1. ~MovedIntoOwnSubtree(rows, c, row)
    BY <1>1, <1>6 DEF UpdateVerdict
  <2>2. CASE parent = None
    <3>1. row.ancestor_path = ROOT_PATH
      BY <1>5, <2>2 DEF AncestorPathUnder
    <3>2. ~StartsWith(ROOT_PATH, FullPath(rows[c].ancestor_path, c))
      BY <1>3, FullPathIsLonger
    <3> QED
      BY <3>1, <3>2 DEF PathOf
  <2>3. CASE parent # None
    BY <1>5, <2>1, <2>3 DEF MovedIntoOwnSubtree
  <2> QED
    BY <2>2, <2>3
<1>8. PathOf(saved, c) = FullPath(row.ancestor_path, c)
  BY <1>1, <1>2, <1>3 DEF PathOf, Tables
<1> DEFINE U == Written([rows EXCEPT ![c] = row],
                        Rewritten([rows EXCEPT ![c] = row], PathOf(rows, c),
                                  FullPath(row.ancestor_path, c)))
<1>9. rows' = U
  BY <1>1, <1>8
<1>10. /\ U \in Tables /\ Existing(U) = Existing(rows) /\ U[c] = row
       /\ \A i \in Existing(rows) \ {c} : U[i].parent = rows[i].parent /\ U[i].name = rows[i].name
       /\ \A i \in Existing(rows) : i = c \/ Right(rows, i) => Right(U, i)
  <2>1. row.parent \in Existing(rows) \cup {None}
    BY <1>5
  <2> QED
    BY <1>2, <1>5, <1>7, <2>1, MoveSpreadsNoDamage
<1>11. TableAgrees(U)
  BY <1>2, <1>5, <1>7, MoveAgrees
<1> HIDE DEF U
<1>12. TablesInv'
  BY <1>1, <1>2, <1>9, <1>10, <1>11 DEF TablesInv, ProductsExisting
<1> QED
  BY <1>1, <1>2, <1>9, <1>10, <1>12, ChangeKeeps

\* Only an empty category is deleted, so nothing that is left points to it.
LEMMA DeleteCategoryKeeps ==
  ASSUME IInv, DeleteCategory
  PROVE  IInv'
<1>1. PICK c \in Existing(rows) :
        /\ Children(rows, c) = {} /\ \A p \in ProductsExisting : products[p].category # c
        /\ rows' = [rows EXCEPT ![c] = NoRow]
        /\ quiet' = (quiet /\ pc = "idle") /\ UNCHANGED <<products, locals>>
  BY DEF DeleteCategory
<1>2. rows \in Tables /\ products \in [Products -> ProductRows \cup {NoRow}] /\ TablesInv
  BY DEF IInv, TypeOK, Tables
<1>3. c \in Ids /\ TableAgrees(rows)
  BY <1>2, ExistingFacts DEF TablesInv
<1>4. TableAgrees(rows')
  <2>1. TableAgrees([rows EXCEPT ![c] = NoRow])
    BY <1>1, <1>2, <1>3, RemoveAgrees
  <2> QED
    BY <1>1, <2>1
<1>5. rows' \in Tables /\ Existing(rows') = Existing(rows) \ {c}
  BY <1>1, <1>2, <1>3 DEF Tables, Existing
<1>6. TablesInv'
  BY <1>1, <1>2, <1>4, <1>5 DEF TablesInv, ProductsExisting
<1> QED
  BY <1>1, <1>2, <1>5, <1>6, ChangeKeeps

\* A search that is over leaves nothing behind.
LEMMA EndKeeps ==
  ASSUME IInv, NEW status \in {"none", "400", "404"}, End(status), status = "404" => ~quiet
  PROVE  IInv'
<1>1. /\ pc' = "idle" /\ query' = None /\ page' = 1 /\ prefix' = ROOT_PATH /\ count' = 0
      /\ answer' = status /\ seen' = <<>> /\ rows' = rows /\ products' = products
      /\ quiet' = quiet
  BY DEF End, tables
<1>2. TypeOK'
  <2>1. 1 \in 1 .. Cardinality(Products) /\ 0 \in 0 .. Cardinality(Products)
    BY ThereIsAProduct
  <2>2. ROOT_PATH \in Seq(Ids) /\ <<>> \in Seq(Products)
    BY DEF ROOT_PATH
  <2> QED
    BY <1>1, <2>1, <2>2 DEF IInv, TypeOK
<1>3. TablesInv'
  BY <1>1 DEF IInv, TablesInv, ProductsExisting
<1>4. LookupInv' /\ PagesInv'
  BY <1>1 DEF LookupInv, PagesInv, Searching
<1> QED
  BY <1>2, <1>3, <1>4 DEF IInv

\* A new search starts with nothing seen.
LEMMA AskKeeps ==
  ASSUME IInv, Ask
  PROVE  IInv'
<1>1. pc = "idle" /\ page = 1 /\ seen = <<>>
  BY DEF Ask, IInv, LookupInv
<1>2. CASE End("400")
  BY <1>2, EndKeeps
<1>3. CASE ~End("400")
  <2>1. /\ query' \in Queries /\ pc' = "asked" /\ answer' = "none" /\ quiet' = TRUE
        /\ rows' = rows /\ products' = products /\ page' = page /\ prefix' = prefix
        /\ count' = count /\ seen' = seen
    BY <1>3 DEF Ask, tables
  <2>2. TypeOK' /\ TablesInv'
    BY <2>1 DEF IInv, TypeOK, TablesInv, ProductsExisting
  <2>3. LookupInv'
    BY <2>1 DEF LookupInv, Searching
  <2>4. 1 <= Pages(Cardinality(Meant))'
    <3>1. (query \in Queries => 1 <= Pages(Cardinality(Meant)))'
      BY ThereIsAPage, PTL
    <3> QED
      BY <2>1, <3>1
  <2>5. PagesInv'
    BY <1>1, <2>1, <2>4 DEF PagesInv, Searching
  <2> QED
    BY <2>2, <2>3, <2>5 DEF IInv
<1> QED
  BY <1>2, <1>3

\* The category is read, and its path with it, in one query.
LEMMA ResolveKeeps ==
  ASSUME IInv, Resolve
  PROVE  IInv'
<1>1. CASE End("400")
  BY <1>1, EndKeeps
<1>2. CASE ~End("400")
  <2>1. /\ pc = "asked" /\ pc' = "resolved" /\ ~Gone(rows, query.category)
        /\ prefix' = IF query.category = None THEN ROOT_PATH ELSE PathOf(rows, query.category)
        /\ rows' = rows /\ products' = products /\ query' = query /\ page' = page
        /\ count' = count /\ answer' = answer /\ seen' = seen /\ quiet' = quiet
    BY <1>2 DEF Resolve, tables
  <2>2. /\ rows \in Tables /\ query \in Queries /\ query.category \in Ids \cup {None}
    BY <2>1, SearchAssumption DEF IInv, TypeOK, Tables, LookupInv
  <2>3. PICK c : c = query.category
    OBVIOUS
  <2>4. c # None =>
          /\ prefix' = Append(rows[c].ancestor_path, c) /\ c \in Ids
          /\ rows[c].ancestor_path \in Seq(Ids)
    <3>1. c # None => c \in Existing(rows)
      BY <2>1, <2>2, <2>3 DEF Gone, Existing
    <3> QED
      BY <2>1, <2>2, <2>3, <3>1, ExistingFacts, RowFields DEF PathOf, FullPath
  <2>5. c # None => prefix' \in Seq(Ids) /\ prefix' # ROOT_PATH /\ prefix'[Len(prefix')] = c
    BY <2>4, AppendProperties DEF ROOT_PATH
  <2>6. prefix' \in Seq(Ids)
    BY <2>1, <2>3, <2>5 DEF ROOT_PATH
  <2>7. TypeOK' /\ TablesInv'
    BY <2>1, <2>6 DEF IInv, TypeOK, TablesInv, ProductsExisting
  <2>8. LookupInv'
    BY <2>1, <2>2, <2>3, <2>5 DEF LookupInv
  <2>9. PagesInv'
    <3>1. SUFFICES ASSUME quiet' PROVE PagesInv'
      BY DEF PagesInv
    <3>2. /\ answer # "404" /\ page <= Pages(Cardinality(Meant))
          /\ \/ page = 1 /\ seen = <<>>
             \/ \E s \in Listings : seen = SubSeq(s, 1, (page - 1) * Size)
      BY <2>1, <3>1 DEF IInv, PagesInv
    <3>3. /\ page' <= Pages(Cardinality(Meant))'
          /\ \/ page' = 1 /\ seen' = <<>>
             \/ \E s \in Listings' : seen' = SubSeq(s, 1, (page' - 1) * Size')
      <4>1. Meant' = Meant /\ Size' = Size /\ Listings' = Listings /\ \A n : Pages(n)' = Pages(n)
        BY <2>1, Frame
      <4> QED
        BY <2>1, <3>2, <4>1
    <3>4. ~Stale' /\ ~Gone(rows', query'.category)
      BY <2>1, IdsFacts DEF Stale, Existing, PathOf
    <3> QED
      BY <2>1, <3>2, <3>3, <3>4 DEF PagesInv
  <2> QED
    BY <2>7, <2>8, <2>9 DEF IInv
<1> QED
  BY <1>1, <1>2

\* A page is missed only if something has changed: what is counted is what is meant.
LEMMA CountKeeps ==
  ASSUME IInv, Count
  PROVE  IInv'
<1>1. pc = "resolved"
  BY DEF Count
<1>2. quiet => Found = Meant
  <2>1. quiet => ~Stale
    BY <1>1 DEF IInv, PagesInv, Searching
  <2> QED
    BY <1>1, <2>1, InPlaceFindsWhatIsMeant DEF IInv, Searching
<1>3. CASE End("404")
  <2>1. pc' = "idle"
    BY <1>3 DEF End
  <2>2. ~(page <= Pages(Cardinality(Found)))
    BY <2>1 DEF Count
  <2>3. quiet => page <= Pages(Cardinality(Meant))
    BY <1>1 DEF IInv, PagesInv
  <2> QED
    BY <1>2, <1>3, <2>2, <2>3, EndKeeps
<1>4. CASE ~End("404")
  <2>1. /\ pc' = "counted" /\ count' = Cardinality(Found)
        /\ rows' = rows /\ products' = products /\ query' = query /\ page' = page
        /\ prefix' = prefix /\ answer' = answer /\ seen' = seen /\ quiet' = quiet
    BY <1>4 DEF Count, tables
  <2>2. TypeOK' /\ TablesInv'
    BY <2>1, MeantIsFinite DEF IInv, TypeOK, TablesInv, ProductsExisting
  <2>3. LookupInv'
    BY <1>1, <2>1 DEF IInv, LookupInv, Searching
  <2>4. PagesInv'
    <3>1. SUFFICES ASSUME quiet' PROVE PagesInv'
      BY DEF PagesInv
    <3>2. /\ answer # "404" /\ page <= Pages(Cardinality(Meant)) /\ ~Stale /\ ~Gone(rows, query.category)
          /\ \/ page = 1 /\ seen = <<>>
             \/ \E s \in Listings : seen = SubSeq(s, 1, (page - 1) * Size)
      BY <1>1, <2>1, <3>1 DEF IInv, PagesInv, Searching
    <3>3. /\ page' <= Pages(Cardinality(Meant))' /\ count' = Cardinality(Meant')
          /\ \/ page' = 1 /\ seen' = <<>>
             \/ \E s \in Listings' : seen' = SubSeq(s, 1, (page' - 1) * Size')
      <4>1. Meant' = Meant /\ Size' = Size /\ Listings' = Listings /\ \A n : Pages(n)' = Pages(n)
        BY <2>1, Frame
      <4> QED
        BY <1>2, <2>1, <3>1, <3>2, <4>1
    <3>4. ~Stale' /\ ~Gone(rows', query'.category)
      BY <2>1, <3>2 DEF Stale
    <3> QED
      BY <2>1, <3>2, <3>3, <3>4 DEF PagesInv
  <2> QED
    BY <2>2, <2>3, <2>4 DEF IInv
<1> QED
  BY <1>3, <1>4

\* The products of a page come from one listing of what is found, behind those of
\* the pages before it.
LEMMA FetchPageKeeps ==
  ASSUME IInv, FetchPage
  PROVE  IInv'
<1>1. PICK s, size, bottom, top :
        /\ s \in Results
        /\ size = Size /\ bottom = (page - 1) * size /\ top = Min({bottom + size, count})
        /\ seen' = seen \o SubSeq(s, bottom + 1, Min({top, Len(s)}))
  BY DEF FetchPage
<1> s \in Results
  BY <1>1
<1>2. /\ pc = "counted"
      /\ IF page < Pages(count) THEN page' = page + 1 /\ pc' = "asked" ELSE pc' = "done" /\ page' = page
      /\ answer' = "200"
      /\ rows' = rows /\ products' = products /\ query' = query /\ prefix' = prefix
      /\ count' = count /\ quiet' = quiet
  BY DEF FetchPage, tables
<1>3. /\ query \in Queries /\ size \in Nat \ {0} /\ seen \in Seq(Products)
      /\ page \in Nat \ {0} /\ page <= Cardinality(Products)
      /\ count \in Nat /\ count <= Cardinality(Products) /\ Cardinality(Products) \in Nat
  <2>1. query \in Queries
    BY <1>2 DEF IInv, LookupInv
  <2>2. page \in 1 .. Cardinality(Products) /\ count \in 0 .. Cardinality(Products) /\ seen \in Seq(Products)
    BY DEF IInv, TypeOK
  <2> QED
    BY <1>1, <2>1, <2>2, SizeType, ThereIsAProduct
<1>4. PICK pages : pages = Pages(count)
  OBVIOUS
<1>5. /\ pages \in Nat \ {0} /\ (pages <= count \/ pages = 1)
      /\ count <= pages * size
      /\ \A k \in Nat : k + 1 <= pages => k * size <= count
      /\ \A k \in Nat : k # 0 /\ k < pages => k * size < count
  BY <1>1, <1>3, <1>4, PagesFacts
<1>6. s \in Seq(Found) /\ s \in Seq(Products) /\ Len(s) = Cardinality(Found) /\ Len(s) \in Nat
  BY MeantIsFinite, ListingOf DEF Results
<1>7. bottom \in Nat /\ page * size \in Nat /\ bottom + size = page * size
  BY <1>1, <1>3
<1>8. \A a, b \in Int : Min({a, b}) = IF a <= b THEN a ELSE b
  BY DEF Min
<1>9. top \in Nat /\ top = IF bottom + size <= count THEN bottom + size ELSE count
  <2>1. PICK e : e = bottom + size
    OBVIOUS
  <2>2. e \in Nat /\ count \in Nat
    BY <1>3, <1>7, <2>1
  <2>3. top = Min({e, count})
    BY <1>1, <2>1
  <2>4. top = IF e <= count THEN e ELSE count
    BY <1>8, <2>2, <2>3
  <2> QED
    BY <2>1, <2>2, <2>4
<1>10. PICK last : last = Min({top, Len(s)})
  OBVIOUS
<1>11. last \in Nat /\ last <= Len(s) /\ last = IF top <= Len(s) THEN top ELSE Len(s)
  BY <1>6, <1>8, <1>9, <1>10
<1>12. seen' \in Seq(Products)
  <2>1. \A i \in bottom + 1 .. last : s[i] \in Products
    BY <1>6, <1>7, <1>11
  <2>2. SubSeq(s, bottom + 1, last) \in Seq(Products)
    BY <1>7, <1>11, <2>1, SubSeqProperties
  <2> QED
    BY <1>1, <1>3, <1>10, <2>2, ConcatProperties
<1>13. page' \in 1 .. Cardinality(Products)
  <2>1. CASE page < pages
    <3>1. page' = page + 1
      BY <1>2, <1>4, <2>1
    <3>2. pages <= count
      BY <1>3, <1>5, <2>1
    <3> QED
      BY <1>3, <1>5, <2>1, <3>1, <3>2
  <2>2. CASE ~(page < pages)
    <3>1. page' = page
      BY <1>2, <1>4, <2>2
    <3> QED
      BY <1>3, <3>1
  <2> QED
    BY <2>1, <2>2
<1>14. TypeOK' /\ TablesInv'
  BY <1>2, <1>12, <1>13 DEF IInv, TypeOK, TablesInv, ProductsExisting
<1>15. LookupInv'
  BY <1>2, <1>3 DEF LookupInv, Searching
<1>16. PagesInv'
  <2>1. SUFFICES ASSUME quiet PROVE PagesInv'
    BY <1>2 DEF PagesInv
  <2>2. /\ page <= pages /\ ~Stale /\ count = Cardinality(Meant)
        /\ \/ page = 1 /\ seen = <<>>
           \/ \E t \in Listings : seen = SubSeq(t, 1, (page - 1) * Size)
    BY <1>2, <1>4, <2>1 DEF IInv, PagesInv, Searching
  <2>3. Found = Meant
    BY <1>2, <2>2, InPlaceFindsWhatIsMeant DEF IInv, Searching
  <2>4. s \in Listings /\ Len(s) = count
    BY <1>6, <2>2, <2>3 DEF Results, Listings
  <2>5. bottom <= count
    <3>1. page - 1 \in Nat /\ (page - 1) + 1 <= pages
      BY <1>3, <1>5, <2>2
    <3> QED
      BY <1>1, <1>5, <3>1
  <2>6. seen = SubSeq(s, 1, bottom)
    <3>1. CASE page = 1 /\ seen = <<>>
      <4>1. bottom = 0
        BY <1>1, <1>3, <3>1
      <4>2. SubSeq(s, 1, 0) = <<>>
        BY SubSeqEmpty
      <4> QED
        BY <3>1, <4>1, <4>2
    <3>2. CASE ~(page = 1 /\ seen = <<>>)
      <4>1. PICK t \in Listings : seen = SubSeq(t, 1, (page - 1) * Size)
        BY <2>2, <3>2
      <4>2. t = s
        BY <1>3, <2>4, OneListing DEF IInv
      <4> QED
        BY <1>1, <4>1, <4>2
    <3> QED
      BY <3>1, <3>2
  <2>7. last = top /\ bottom <= top /\ top <= Len(s)
    <3>1. bottom <= bottom + size
      BY <1>3, <1>7
    <3>2. bottom <= top /\ top <= count
      BY <1>3, <1>7, <1>9, <2>5, <3>1
    <3> QED
      BY <1>6, <1>11, <2>4, <3>2
  <2>8. seen' = SubSeq(s, 1, top)
    <3>1. seen' = SubSeq(s, 1, bottom) \o SubSeq(s, bottom + 1, top)
      BY <1>1, <1>10, <2>6, <2>7
    <3> QED
      BY <1>6, <1>7, <1>9, <2>7, <3>1, NextPart
  <2>9. Meant' = Meant /\ Size' = Size /\ Listings' = Listings /\ \A n : Pages(n)' = Pages(n)
    BY <1>2, Frame
  <2>10. CASE page < pages
    <3>1. pc' = "asked" /\ page' = page + 1
      BY <1>2, <1>4, <2>10
    <3>2. page' <= pages
      BY <1>3, <1>5, <2>10, <3>1
    <3>3. page' <= Pages(Cardinality(Meant))'
      BY <1>4, <2>2, <2>9, <3>2
    <3>4. top = page * size
      <4>1. page * size < count
        BY <1>3, <1>5, <2>10
      <4> QED
        BY <1>3, <1>7, <1>9, <4>1
    <3>5. page' - 1 = page
      BY <1>3, <3>1
    <3>6. seen' = SubSeq(s, 1, (page' - 1) * Size')
      BY <1>1, <2>8, <2>9, <3>4, <3>5
    <3>7. ~Searching' /\ answer' # "404"
      BY <1>2, <3>1 DEF Searching
    <3> QED
      BY <2>4, <2>9, <3>1, <3>3, <3>6, <3>7 DEF PagesInv
  <2>11. CASE ~(page < pages)
    <3>1. pc' = "done"
      BY <1>2, <1>4, <2>11
    <3>2. page = pages
      BY <1>3, <1>5, <2>2, <2>11
    <3>3. top = count
      BY <1>3, <1>5, <1>7, <1>9, <3>2
    <3>4. seen' = s
      BY <1>6, <2>4, <2>8, <3>3, SubSeqFull
    <3>5. ~Searching' /\ answer' # "404"
      BY <1>2, <3>1 DEF Searching
    <3> QED
      BY <2>4, <2>9, <3>1, <3>4, <3>5 DEF PagesInv
  <2> QED
    BY <2>10, <2>11
<1> QED
  BY <1>14, <1>15, <1>16 DEF IInv

-----------------------------------------------------------------------------
(* The theorems                                                             *)

\* Top-level categories, no products and no search satisfy the invariant.
LEMMA InitEstablishes == Init => IInv
<1> SUFFICES ASSUME Init PROVE IInv
  OBVIOUS
<1>1. PICK names \in Injection(Ids, Names) :
        rows = [i \in Ids |-> [parent |-> None, name |-> names[i], ancestor_path |-> ROOT_PATH]]
  BY DEF Init
<1>2. \A i \in Ids : rows[i] \in Row /\ rows[i].parent = None /\ rows[i].ancestor_path = ROOT_PATH
  <2>1. \A i \in Ids : names[i] \in Names
    BY <1>1 DEF Injection
  <2>2. ROOT_PATH \in Seq(Ids)
    BY DEF ROOT_PATH
  <2> QED
    BY <1>1, <2>1, <2>2 DEF Row
<1>3. rows \in Tables
  BY <1>1, <1>2 DEF Tables
<1>4. TableAgrees(rows)
  BY <1>2, IdsFacts DEF TableAgrees, Gone, AncestorPathUnder, Existing
<1>5. TypeOK
  <2>1. 1 \in 1 .. Cardinality(Products) /\ 0 \in 0 .. Cardinality(Products)
    BY ThereIsAProduct
  <2>2. ROOT_PATH \in Seq(Ids) /\ <<>> \in Seq(Products)
    BY DEF ROOT_PATH
  <2> QED
    BY <1>3, <2>1, <2>2 DEF Init, TypeOK, Tables
<1>6. TablesInv
  BY <1>4 DEF Init, TablesInv, ProductsExisting
<1>7. LookupInv /\ PagesInv
  BY DEF Init, LookupInv, PagesInv, Searching
<1> QED
  BY <1>5, <1>6, <1>7 DEF IInv

\* The invariant reads nothing but the variables.
LEMMA StutterKeeps ==
  ASSUME IInv, UNCHANGED vars
  PROVE  IInv'
<1>1. /\ rows' = rows /\ products' = products /\ pc' = pc /\ query' = query /\ page' = page
      /\ prefix' = prefix /\ count' = count /\ answer' = answer /\ seen' = seen /\ quiet' = quiet
  BY DEF vars, tables, locals
<1>2. TypeOK' /\ TablesInv' /\ LookupInv'
  BY <1>1 DEF IInv, TypeOK, TablesInv, LookupInv, ProductsExisting, Searching
<1>3. /\ Meant' = Meant /\ Size' = Size /\ Listings' = Listings /\ \A n : Pages(n)' = Pages(n)
      /\ Stale' = Stale /\ Searching' = Searching
  BY <1>1, Frame DEF Stale, Searching
<1>4. PagesInv'
  BY <1>1, <1>3 DEF IInv, PagesInv
<1> QED
  BY <1>2, <1>4 DEF IInv

\* Every step keeps it.
LEMMA StepKeeps == IInv /\ [Next]_vars => IInv'
<1> SUFFICES ASSUME IInv, [Next]_vars PROVE IInv'
  OBVIOUS
<1>1. CASE SaveProduct
  BY <1>1, SaveProductKeeps
<1>2. CASE DeleteProduct
  BY <1>2, DeleteProductKeeps
<1>3. CASE MoveCategory
  BY <1>3, MoveCategoryKeeps
<1>4. CASE DeleteCategory
  BY <1>4, DeleteCategoryKeeps
<1>5. CASE Ask
  BY <1>5, AskKeeps
<1>6. CASE Resolve
  BY <1>6, ResolveKeeps
<1>7. CASE Count
  BY <1>7, CountKeeps
<1>8. CASE FetchPage
  BY <1>8, FetchPageKeeps
<1>9. CASE Leave
  BY <1>9, EndKeeps DEF Leave
<1>10. CASE UNCHANGED vars
  BY <1>10, StutterKeeps
<1> QED
  BY <1>1, <1>2, <1>3, <1>4, <1>5, <1>6, <1>7, <1>8, <1>9, <1>10 DEF Next

\* The paths, what has been looked up and the pages so far, in one invariant.
THEOREM IInvariant == Spec => []IInv
BY InitEstablishes, StepKeeps, PTL DEF Spec

\* Every variable has its type; there are never more pages than products.
THEOREM TypesAreRight == Spec => []TypeOK
<1>1. IInv => TypeOK
  BY DEF IInv
<1> QED
  BY <1>1, IInvariant, PTL

\* The prefix match, the filter objects and the values of search_products amount to
\* what the client means, as long as the category is where it was looked up.
THEOREM SearchesFindWhatIsMeant == Spec => []FindsWhatIsMeant
<1>1. IInv => FindsWhatIsMeant
  BY InPlaceFindsWhatIsMeant DEF IInv, FindsWhatIsMeant
<1> QED
  BY <1>1, IInvariant, PTL

\* A search that a move overtakes between its reads shows too little (the category
\* without its sub-categories), and never what is not below the category.
THEOREM MovesHideTheSubtree == Spec => []AMoveHidesTheSubtree
<1>1. IInv => AMoveHidesTheSubtree
  BY StaleFindsTheCategoryItself DEF IInv, AMoveHidesTheSubtree
<1> QED
  BY <1>1, IInvariant, PTL

\* The last page completes a listing of all that is meant.
LEMMA ListingsAddUp ==
  ASSUME IInv, quiet, pc = "done"
  PROVE  /\ ToSet(seen) = Meant /\ Len(seen) = Cardinality(Meant)
         /\ \A i, j \in DOMAIN seen : i < j =>
            IF query.ordering = "price"
            THEN products[seen[i]].price <= products[seen[j]].price
            ELSE products[seen[i]].price >= products[seen[j]].price
<1>1. /\ seen \in SetToSeqs(Meant)
      /\ \A i, j \in DOMAIN seen : i < j => Precedes(seen[i], seen[j])
  BY DEF IInv, PagesInv, Listings
<1>2. ToSet(seen) = Meant /\ Len(seen) = Cardinality(Meant) /\ \A i \in DOMAIN seen : seen[i] \in Meant
  BY <1>1, MeantIsFinite, ListingOf
<1>3. \A p \in Meant : products[p].price \in Nat
  BY MeantIsFinite, SearchAssumption DEF IInv, TypeOK, ProductsExisting
<1>4. ASSUME NEW p \in Meant, NEW q \in Meant, Precedes(p, q)
      PROVE  IF query.ordering = "price" THEN products[p].price <= products[q].price
             ELSE products[p].price >= products[q].price
  BY <1>3, <1>4 DEF Precedes
<1> QED
  BY <1>1, <1>2, <1>4

\* Without changes no page is missing, and the pages that a client is shown are all
\* that is meant, each product once and in order, for every page size.
THEOREM ThePagesAddUp == Spec => []PagesAddUp
<1>1. IInv => PagesAddUp
  <2>1. SUFFICES ASSUME IInv PROVE PagesAddUp
    OBVIOUS
  <2>2. answer = "404" => ~quiet
    <3>1. PagesInv
      BY <2>1 DEF IInv
    <3> QED
      BY <3>1 DEF PagesInv
  <2>3. CASE pc = "done" /\ quiet
    <3>1. /\ ToSet(seen) = Meant /\ Len(seen) = Cardinality(Meant)
          /\ \A i, j \in DOMAIN seen : i < j =>
            IF query.ordering = "price"
            THEN products[seen[i]].price <= products[seen[j]].price
            ELSE products[seen[i]].price >= products[seen[j]].price
      BY <2>1, <2>3, ListingsAddUp
    <3> QED
      BY <2>2, <3>1 DEF PagesAddUp
  <2>4. CASE ~(pc = "done" /\ quiet)
    BY <2>2, <2>4 DEF PagesAddUp
  <2> QED
    BY <2>3, <2>4
<1> QED
  BY <1>1, IInvariant, PTL

=============================================================================
