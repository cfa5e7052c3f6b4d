---------------------------- MODULE CatalogSearch ----------------------------
(***************************************************************************)
(* Product search: the query string, the criteria it becomes, the query    *)
(* built from them and the pages of its answer (search.py, the filters of  *)
(* ProductQuerySet, ProductSearchQuerySerializer and StandardPagination).  *)
(*                                                                         *)
(* A request reads three times, each time what is committed then: the      *)
(* category it names (Resolve), the number of products found (Count) and   *)
(* one page of them (FetchPage).  A client that follows the "next" links   *)
(* makes one request after the other.  Products and categories change      *)
(* whenever they like; a move of a category is one step here, because      *)
(* nobody sees it half-done (CategoryTree).                                *)
(***************************************************************************)
EXTENDS CategoryRules, FiniteSetsExt

CONSTANTS
    Products,       \* ids of products, which also break ties in the order; bound:
                    \* a product created after a deletion may get the same id
    Sku,            \* the SKU of each, which never changes
    ProductRows,    \* bound: what else a product may be
    Queries,        \* bound: what a client may ask for; a parameter that is left
                    \* out, empty or blank is None, or no words
    WordIn,         \* <<word, text>>: the text contains the word, ignoring case
    Normalized,     \* normalize_sku, for the SKUs in the queries
    MaxWords,       \* MAX_SEARCH_WORDS
    DefaultSize,    \* page_size
    MaxSize         \* max_page_size

ASSUME SearchAssumption ==
    /\ Products # {} /\ IsFiniteSet(Products) /\ Products \subseteq Nat
    /\ \A p, q \in Products : Sku[p] = Sku[q] => p = q
    /\ \A asked \in Queries :
        /\ asked.ordering \in {"price", "-price"}
        /\ asked.category \in Ids \cup {None}
        /\ {asked.min_price, asked.max_price} \subseteq Int \cup {None}
        /\ asked.page_size \in (Nat \ {0}) \cup {None}
    /\ \A row \in ProductRows : row.category \in Ids /\ row.price \in Nat
    /\ {MaxWords, DefaultSize, MaxSize} \subseteq Nat \ {0}

VARIABLES
    rows, products, \* the committed tables
    pc,             \* where the search request is
    query,          \* the query string; None: no search
    page,           \* the number of the page asked for
    prefix,         \* the path of criteria.category, as resolved
    count,          \* Paginator.count
    answer,         \* the status of the last answer
    seen,           \* what the client has been shown, page after page
    quiet           \* did nothing change during the last search?

tables == <<rows, products>>
locals == <<pc, query, page, prefix, count, answer, seen>>
vars   == <<tables, locals, quiet>>

ProductsExisting == {p \in Products : products[p] # NoRow}

\* As many categories as there are ids, at the top level, and nothing in them.
Init ==
    /\ rows \in {[i \in Ids |-> [parent |-> None, name |-> names[i],
                                 ancestor_path |-> ROOT_PATH]] :
                 names \in Injection(Ids, Names)}
    /\ products = [p \in Products |-> NoRow]
    /\ pc = "idle"
    /\ query = None
    /\ page = 1
    /\ prefix = ROOT_PATH
    /\ count = 0
    /\ answer = "none"
    /\ seen = <<>>
    /\ quiet = TRUE

-----------------------------------------------------------------------------
(* Committed changes.                                                       *)

\* A product is created or changed in any of its fields; its category exists.
SaveProduct ==
    \E p \in Products, row \in ProductRows :
        /\ row.category \in Existing(rows)
        /\ products' = [products EXCEPT ![p] = row]
        /\ quiet' = (quiet /\ pc = "idle")
        /\ UNCHANGED <<rows, locals>>

DeleteProduct ==
    \E p \in ProductsExisting :
        /\ products' = [products EXCEPT ![p] = NoRow]
        /\ quiet' = (quiet /\ pc = "idle")
        /\ UNCHANGED <<rows, locals>>

\* update_category, as others see it: the category and its subtree at once.
MoveCategory ==
    \E c \in Existing(rows), parent \in Existing(rows) \cup {None} :
        LET request == [id |-> c, name |-> Unchanged, parent |-> parent]
            row     == Wanted(rows, request)
            saved   == [rows EXCEPT ![c] = row]
        IN  /\ row # rows[c] /\ UpdateVerdict(rows, request, row) = "ok"
            /\ rows' = Written(saved, Rewritten(saved, PathOf(rows, c), PathOf(saved, c)))
            /\ quiet' = (quiet /\ pc = "idle")
            /\ UNCHANGED <<products, locals>>

\* delete_category: only one that has no sub-categories and no products.
DeleteCategory ==
    \E c \in Existing(rows) :
        /\ Children(rows, c) = {} /\ \A p \in ProductsExisting : products[p].category # c
        /\ rows' = [rows EXCEPT ![c] = NoRow]
        /\ quiet' = (quiet /\ pc = "idle")
        /\ UNCHANGED <<products, locals>>

-----------------------------------------------------------------------------
(* ProductSearchQuerySerializer and ProductSearchCriteria                   *)

ValidPrices(min, max) ==
    /\ min # None => min >= 0
    /\ max # None => max >= 0
    /\ min # None /\ max # None => min <= max

Valid(asked) == Cardinality(asked.q) <= MaxWords /\ ValidPrices(asked.min_price, asked.max_price)

(* search_products: the filters of ProductQuerySet.                         *)

MatchesTerms(p, terms) ==
    \A word \in terms : <<word, products[p].title>> \in WordIn \/ <<word, Sku[p]>> \in WordIn

WithSku(p, sku) == sku # None => Sku[p] = Normalized[sku]

\* Mutant: a bound of 0 counts as none.
PricedBetweenTruthy(row, min, max) ==
    /\ min \notin {None, 0} => row.price >= min
    /\ max \notin {None, 0} => row.price <= max

PricedBetween(row, min, max) ==
    /\ min # None => row.price >= min
    /\ max # None => row.price <= max

\* Mutant: the directory of the category, not its path.
SubtreeOfDirectory(c, path) ==
    {c} \cup UnderPath(rows, SubSeq(path, 1, Len(path) - 1))

\* subtree_of: the category itself, and what is under its path.
SubtreeOf(c, path) == {c} \cup UnderPath(rows, path)

Found ==
    {p \in ProductsExisting :
        /\ MatchesTerms(p, query.q)
        /\ WithSku(p, query.sku)
        /\ PricedBetween(products[p], query.min_price, query.max_price)
        /\ query.category # None => products[p].category \in SubtreeOf(query.category, prefix)}

\* Mutant: products of one price in any order.
PrecedesByPrice(p, q) ==
    IF query.ordering = "price" THEN products[p].price <= products[q].price
    ELSE products[p].price >= products[q].price

\* order_by(ordering, "id").  (Price stands for title and created_at as well.)
Precedes(p, q) ==
    LET a == products[p].price
        b == products[q].price
    IN  IF a = b THEN p <= q
        ELSE IF query.ordering = "price" THEN a < b ELSE b < a

\* The orders in which the database may return what it finds.
Results ==
    {s \in SetToSeqs(Found) : \A i, j \in DOMAIN s : i < j => Precedes(s[i], s[j])}

-----------------------------------------------------------------------------
(* StandardPagination                                                       *)

Size  == IF query.page_size = None THEN DefaultSize ELSE Min({query.page_size, MaxSize})

\* Mutant: a full last page is followed by an empty one.
PagesOneMore(found) == found \div Size + 1

Pages(found) == Max({1, (found + Size - 1) \div Size})

\* The search is over, with its last answer.
End(status) ==
    /\ pc' = "idle"
    /\ query' = None
    /\ page' = 1
    /\ prefix' = ROOT_PATH
    /\ count' = 0
    /\ answer' = status
    /\ seen' = <<>>
    /\ UNCHANGED <<tables, quiet>>

\* Another search, which asks for the first page.
Ask ==
    \E asked \in Queries :
        /\ pc = "idle"
        /\ IF Valid(asked)
           THEN /\ pc' = "asked"
                /\ query' = asked
                /\ answer' = "none"
                /\ quiet' = TRUE
                /\ UNCHANGED <<tables, page, prefix, count, seen>>
           ELSE End("400")

\* PrimaryKeyRelatedField: the category, with its path, is read, if it is there.
Resolve ==
    /\ pc = "asked"
    /\ IF Gone(rows, query.category)
       THEN End("400")
       ELSE /\ prefix' = IF query.category = None THEN ROOT_PATH ELSE PathOf(rows, query.category)
            /\ pc' = "resolved"
            /\ UNCHANGED <<tables, query, page, count, answer, seen, quiet>>

\* A page that is not there any more is answered with 404.
Count ==
    LET found == Cardinality(Found)
    IN  /\ pc = "resolved"
        /\ IF page <= Pages(found)
           THEN /\ pc' = "counted"
                /\ count' = found
                /\ UNCHANGED <<tables, query, page, prefix, answer, seen, quiet>>
           ELSE End("404")

\* Paginator.page, and the client that follows its "next" link.
FetchPage ==
    /\ pc = "counted"
    /\ \E s \in Results :
        LET bottom == (page - 1) * Size
            top    == Min({bottom + Size, count})
        IN  seen' = seen \o SubSeq(s, bottom + 1, Min({top, Len(s)}))
    /\ IF page < Pages(count)
       THEN page' = page + 1 /\ pc' = "asked"
       ELSE pc' = "done" /\ UNCHANGED page
    /\ answer' = "200"
    /\ UNCHANGED <<tables, query, prefix, count, quiet>>

\* The client has what it wants, or gives up.
Leave == pc # "idle" /\ End("none")

Next ==
    \/ SaveProduct \/ DeleteProduct \/ MoveCategory \/ DeleteCategory
    \/ Ask \/ Resolve \/ Count \/ FetchPage \/ Leave

Spec == Init /\ [][Next]_vars

-----------------------------------------------------------------------------
(* Properties.                                                              *)

\* Every variable has its type.
TypeOK ==
    /\ rows \in [Ids -> Row \cup {NoRow}]
    /\ products \in [Products -> ProductRows \cup {NoRow}]
    /\ pc \in {"idle", "asked", "resolved", "counted", "done"}
    /\ query \in Queries \cup {None}
    /\ page \in 1 .. Cardinality(Products)
    /\ prefix \in Seq(Ids)
    /\ count \in 0 .. Cardinality(Products)
    /\ answer \in {"none", "200", "400", "404"}
    /\ seen \in Seq(Products)
    /\ quiet \in BOOLEAN

\* What the client means, by parent links and without paths, filter objects or
\* anything read earlier.
Meant ==
    {p \in ProductsExisting :
        LET row == products[p]
        IN  /\ \A word \in query.q : \E text \in {row.title, Sku[p]} : <<word, text>> \in WordIn
            /\ query.sku # None => Normalized[query.sku] = Sku[p]
            /\ query.min_price # None => query.min_price <= row.price
            /\ query.max_price # None => row.price <= query.max_price
            /\ query.category # None => IsBelow(rows, row.category, query.category)}

Searching == pc \in {"resolved", "counted"}
Stale ==
    /\ query.category \in Existing(rows)
    /\ prefix # PathOf(rows, query.category)

\* As long as the category is where it was when the request looked it up, the
\* query finds what the client means, no more and no less (nothing, if it is gone).
FindsWhatIsMeant == Searching /\ ~Stale => Found = Meant

\* A move between two reads of one request cannot show a product that is not
\* below the category: it hides those in the sub-categories, and nothing else.
AMoveHidesTheSubtree ==
    Searching /\ Stale => Found = {p \in Meant : products[p].category = query.category}

\* "Every list has a deterministic order": if nothing changes, no "next" link leads
\* nowhere, and the pages add up to all that is meant, each product once and in
\* the order asked for.
PagesAddUp ==
    /\ answer = "404" => ~quiet
    /\ pc = "done" /\ quiet =>
        /\ ToSet(seen) = Meant /\ Len(seen) = Cardinality(Meant)
        /\ \A i, j \in DOMAIN seen : i < j =>
            IF query.ordering = "price"
            THEN products[seen[i]].price <= products[seen[j]].price
            ELSE products[seen[i]].price >= products[seen[j]].price

-----------------------------------------------------------------------------
(* Why it works: the inductive invariant behind the properties.             *)

\* The category service keeps the stored paths, and a category that has products.
TablesInv ==
    /\ TableAgrees(rows)
    /\ \A p \in ProductsExisting : products[p].category \in Existing(rows)

\* A search has its query, and what it has looked up is a path of its category.
LookupInv ==
    /\ IF pc = "idle" THEN page = 1 /\ seen = <<>> ELSE query \in Queries
    /\ Searching /\ query.category # None =>
        prefix # ROOT_PATH /\ prefix[Len(prefix)] = query.category

\* All that is meant, listed in the order that is asked for.
Listings == {s \in SetToSeqs(Meant) : \A i, j \in DOMAIN s : i < j => Precedes(s[i], s[j])}

\* While nothing changes, what has been looked up is so, there is a page to answer
\* with, and the pages so far are the beginning of a listing.
PagesInv ==
    quiet =>
        /\ answer # "404"
        /\ Searching => ~Stale /\ ~Gone(rows, query.category)
        /\ pc \in {"asked", "resolved", "counted"} =>
            /\ page <= Pages(Cardinality(Meant))
            /\ \/ page = 1 /\ seen = <<>>
               \/ \E s \in Listings : seen = SubSeq(s, 1, (page - 1) * Size)
        /\ pc = "counted" => count = Cardinality(Meant)
        /\ pc = "done" => seen \in Listings

IInv == TypeOK /\ TablesInv /\ LookupInv /\ PagesInv
=============================================================================
