# Verification of the catalog service

TLA+ models of the catalog API (Django 5.2, Django REST framework, MariaDB at
READ COMMITTED, one transaction per service call, autocommit in the views), the
TLC configurations that check them on small instances, and TLAPS proofs of their
properties (the tree's, the products', the repair's, the search's, the seeding
command's and those of the text of a path) for instances of every size.

- [1. The system](#1-the-system): components, state, operations, what is hard
- [2. The modules](#2-the-modules), and how they correspond to the code
- [3. The runs](#3-the-runs): what each checks, its bounds, and what it shows
- [4. The proofs](#4-the-proofs): what holds for every instance, and why
- [5. Findings](#5-findings): where the code and its documentation part
- [6. Not modelled](#6-not-modelled), and what the models leave out
- [7. Plan](#7-plan)

To check: `tlc -config MCCategoryTree.cfg MCCategoryTree`, and the same for the
other configurations of section 3; `tlapm CategoryTree_proofs.tla`, and the same
for the other modules with `_proofs` in their name.

## 1. The system

| Component | State | Operations | Interacts with |
|---|---|---|---|
| Category model (`catalog/models/category.py`) | table of id, parent, name, `ancestor_path`; foreign key PROTECT; `UNIQUE (ancestor_path, name)` in a case-insensitive collation | `save`, `path`, `descendants_of`, `under_path` | written by the category service, read by search |
| Category service (`catalog/services/categories.py`) | none of its own: one transaction per call | `create_category`, `update_category`, `delete_category`, `rebuild_category_paths` | called by the API, by `seed_catalog` and by the repair command; locks the category rows |
| Category API (`serializers.py`, `views.py`) | the objects a request's view has read | list, retrieve, POST, PUT, PATCH, DELETE | reads objects *before* the service locks and reads again |
| Product model and API (`product.py`, `serializers.py`, `views.py`) | product table: id, SKU (unique), fields, category (foreign key PROTECT), image name | list, retrieve, POST, PUT, PATCH, DELETE | no service and no lock; foreign key to the category table; files |
| Image storage and clean-up (`product.py`, `django_cleanup`) | files, which no transaction rolls back | store an upload, discard it on a refusal, remove the old one after the write | driven by `Product.save` and by the signals of django-cleanup |
| Search (`search.py`, `ProductQuerySet`) | none | criteria from the query string, category subtree, filters, order | reads the category table, then the product table |
| Pagination (`pagination.py`) | none | count, page | two queries a page |
| Path repair (`rebuild_category_paths`) | one transaction | recompute every `ancestor_path` from `parent` | takes the lock of the category service |
| Demo data (`seed_catalog`) | one transaction | `create_category` for every category, then products | holds the tree's lock to its end |
| Error mapping (`exceptions.py`, `exception_handler.py`) | none | exception to status and body | every view |
| Authentication, throttling, settings, health, URLs | configuration; throttle counters | - | in front of every view |

Three worker processes serve requests side by side; there is no queue, cache or
background job. Everything that is hard here is hard because requests run
concurrently, because what one of them has read may be stale when it writes, or
because the file storage is not part of the transaction.

What makes each component correct, and what endangers it:

- **Category tree.** The parent links form a forest; `ancestor_path` agrees with
  them in everything that is ever committed; siblings have different names; no
  path outgrows its column; a category with something in it is not deleted; a
  request changes only what its client sent. Endangered by two moves that are
  each legal but not together, by the object that the view read before the lock,
  by the state between saving a category and rewriting its subtree, by the lock
  that locks nothing in an empty table, by unique-key and foreign-key waits, by
  rollbacks at every point, and by path lengths that depend on the digits of ids.
- **Products.** A SKU is unique and never changes; a PATCH writes only its fields;
  concurrent edits are otherwise last-write-wins, by design.
- **Images.** A product's image exists; a file no product refers to does not stay.
  Endangered by refusals after the upload is stored, by requests that read one
  product and write it one after the other, and by a worker that dies in between.
- **Seeding.** One transaction that looks categories up without a lock, creates the
  missing ones through the service and writes products; "safe to run repeatedly".
  Endangered by what it has read before its first lock, by categories that
  somebody deletes in between, and by waits: unlike an API request it holds the
  tree while it goes on to take other locks.
- **Search.** Finds the products of a subtree, and no others: rests on "prefix
  match = descendants" of the category tree; reads in two steps.
- **Repair.** Leaves paths that agree with the parents, from any damage.

The hazards, each at its line, are in `PROJECT.json` with the properties that
cover them.

## 2. The modules

Below each module, the modules that extend it:

    CategoryPaths                        paths as sequences of ids
    |-- PathText                         ... and as text
    |   |-- PathText_proofs              (extends CategoryPaths_proofs too)
    |-- CategoryPaths_proofs
    |-- CategoryRules                    what the category service computes
        |-- CategoryRules_proofs         (extends CategoryPaths_proofs too)
        |-- CategoryTree                 the service under concurrent requests
        |   |-- (INSTANCE CategoryForest)    what the tree promises
        |   |-- MCCategoryTree
        |   |-- CategoryTree_proofs      paths, names, contents, updates, forest
        |   |-- SeedCatalog              seed_catalog next to API requests
        |       |-- MCSeedCatalog
        |       |-- SeedCatalog_proofs   (extends CategoryTree_proofs too)
        |-- CategoryRepair               rebuild_category_paths, damaged tables
        |   |-- MCCategoryRepair
        |   |-- CategoryRepair_proofs
        |-- CatalogSearch                search and its pages
            |-- MCCatalogSearch
            |-- CatalogSearch_proofs

    ProductRequests                      products and the files of their images
    |-- MCProductRequests
    |-- ProductRequests_proofs

The proofs of `CategoryTree`, `CategoryRepair` and `CatalogSearch` extend
`CategoryRules_proofs` as well.

### CategoryPaths, PathText

A materialized path such as `/1/5/` is the sequence `<<1, 5>>`; `StartsWith` is the
`startswith` / `LIKE 'prefix%'` of the code, `Rebase` the `Concat(..., Substr(...))`
of `_rewrite_descendant_paths`, `PathLength` the number of characters, which the
code compares with `PATH_MAX_LENGTH`. That the sequences may stand for the text is
not obvious (`/1/5` *is* a prefix of `/1/50`; only the closing `/` saves it), so
`PathText` spells the text out, digit by digit, and compares lengths, prefix
matches and cuts with the sequences; that they agree is checked and proved.

### CategoryRules

What `create_category` and `update_category` compute from a category table, as
operators on a table: the row wanted (`Wanted`), the `_ensure_...` checks in the
code's order with the exception each raises (`CreateVerdict`, `UpdateVerdict`), the
rewritten subtree (`Rewritten`), the unique key as the collation compares it
(`IndexKey`). The constants and what is assumed of them are declared here. The
three modules below apply the rules to the table as their transactions see it:
half-way through a race, damaged, or as a reader finds it.

### CategoryTree

The category service under concurrent requests. A request goes through

    idle --RequestX--> waiting --LockTree--> locked --CheckX--> approved
        --Insert/SaveRow/DeleteRow--> [saved --RewriteDescendants-->] written --Commit--> idle

and ends early by a refusal of a check, a constraint or, at any point, `Abort`.

| Model | Code |
|---|---|
| `rows`, `lastId` | the committed category table and its AUTO_INCREMENT, which a failed INSERT uses up too |
| `products` | `category_id` of the committed products (`None`: no such product; the column itself is not nullable) |
| `call` | what the client sent, and the arguments the serializer passes to the service |
| `object`, `oldPrefix` | the `category` being saved and the local `old_prefix` |
| `held`, `pending` | row locks of `SELECT ... FOR UPDATE`, and uncommitted writes, which only the transaction itself sees (`View(r)`) |
| `RequestCreate/Update/Delete` | the view looks up what the request names, in autocommit, before the transaction: the named rows exist *then* |
| `LockTree` | `_lock_tree`: waits until nobody else holds or has written a row, locks the rows there are |
| `CheckCreate/Update/Delete` | the re-reads and the `_ensure_...` checks, in the code's order, each with its exception |
| `Insert`, `SaveRow`, `RewriteDescendants`, `DeleteRow` | one statement each, through `Write`, which waits for locks of others (rows, foreign keys, index entries) and is refused by constraints |
| `Commit`, `Abort` | the end of `transaction.atomic()` |
| `FileProduct`, `RemoveProduct` | a product request as far as categories are concerned: one statement, which the foreign key makes wait |

The checks of one request are a single step. That loses nothing: below the top
level everything they read is locked; at the top level they can only miss a new
row, and it can be committed between the check and the write as well.

InnoDB locks the rows of a scan one after the other, the model all at once. A
scan that stops half-way holds some rows and waits for an uncommitted one. That
row was inserted by a transaction that found the table empty, which has no
further statement to send, so no cycle of waits can come of it.

### CategoryForest

The abstract specification: nodes with parent and name, products in them, one
`Put`, `Remove`, `File` or `Take` at a time, every one of which leaves a legal
forest. No paths, locks or requests. `CategoryTree!Forest` instantiates it with
the refinement mapping that forgets the paths; `ImplementsForest` says that every
step of the service is a legal step of the forest or none at all.

### SeedCatalog

The command `seed_catalog` is one of the `Requests` of `CategoryTree`, but one whose
transaction goes round and round:

    idle --Start--> written --LookUp--> waiting --Create--> written ... --File--> ... --SeedCommit--> idle

| Model | Code |
|---|---|
| `TREE`, `PRODUCTS` | the constants of the command, the tree depth first, as `_create_tree` walks it |
| `created`, `filed` | the dict of categories found or made so far; how many products are written |
| `LookUp` | `filter(parent=..., name=...).first()`: what is committed, and what the command wrote, without a lock |
| `Create` | `create_category`, step by step: the actions of `CategoryTree` |
| `File` | `update_or_create` of a product, whose foreign key may refuse the category |
| `SeedCommit`, `SeedAbort` | the end of `@transaction.atomic`: categories and products together, or nothing |
| `OtherRequest`, `OtherServe`, `OtherProduct` | API requests, every action of `CategoryTree`, with the locks of the command in their way |
| `alone` | (for a property) has anybody else committed something since the command began? |

Here too a statement takes its locks in one step, when the last of them is free.
Two API requests never wait for each other in a circle, but the command goes on to
take locks while others wait for it, and InnoDB locks row by row: a scan that holds
one row may wait for a category the command has filed a product under, while the
command's next scan waits for that row; an INSERT may have put its row into the
table, or a product request have locked its product, and then wait for the command.
InnoDB ends each such cycle by rolling one of its members back, which is `Abort` or
`SeedAbort`, and both may come at any time. What the locks of a half-finished
statement keep others from doing, the model allows, so the safety properties
cover every outcome. Which cycles there are is not stated.

### CategoryRepair

`rebuild_category_paths` on a table that something else than the service has
changed, and the service on such a table.

| Model | Code |
|---|---|
| `SetParent`, `SetPath` | what bypasses the service: `QuerySet.update(parent=...)`, which may make cycles, and a manual fix of a path |
| `Create`, `Update`, `Delete` | whole transactions of the service, which wait for the repair |
| `LockAndRead` | `_lock_tree` and the query; `objects` are the Category objects in memory |
| `Visit` | a turn of the `while` loop; `to_visit` is the stack, taken in any order |
| `Finish` | `bulk_update`, or nothing (`--dry-run`), and the end of the transaction |
| `Accepted` | MariaDB checks the unique index and the length of the column row by row, in the order of the primary key, not at the end of the UPDATE |
| `Abort` | the command is killed or loses its connection |

Repairs run one at a time, as commands do; the rows they lock are those they read.
A category created while the repair holds the lock of an *empty* table is none of
its business (that lock is `CategoryTree`'s subject), and the properties of a repair
leave such a table out.

### CatalogSearch

A search, page after page, next to products and categories that change.

| Model | Code |
|---|---|
| `Ask` | the query string and its validation (`Valid`): no search, but a 400, for a bad one |
| `Resolve` | `PrimaryKeyRelatedField` reads the category, with the path the filter then uses |
| `Count`, `FetchPage` | the two queries of `Paginator`: each reads what is committed then |
| `Found` | the filters of `ProductQuerySet`; `Results` the orders in which the database may return it |
| `Leave` | the client stops following the "next" links |
| `DeleteCategory` | `delete_category` at once, also of the category that a search has just looked up |
| `MoveCategory` | `update_category` as a reader sees it, at once; that it may be one step is what `PathsAgree` and `SubtreeIsPrefixMatch` of `CategoryTree` show |

Words and SKUs are opaque: which text contains which word is a constant relation
(`WordIn`), `normalize_sku` a function. `price` stands for the three sort keys.

### ProductRequests

Product requests and the files of their images. A request goes through

    idle --Receive--> [upload --StoreUpload-->] write --XRow--> [cleanup --CleanUp-->] idle

| Model | Code |
|---|---|
| `rows`, `files` | the product table; the storage. Nothing rolls `files` back |
| `instance` | the `Product` object: as the view read it, with the client's values set on it |
| `before` | django-cleanup's copy of the image, taken when the object is loaded |
| `ReceivePost/Update/Delete` | `get_object` and the validation, `UniqueValidator` and `validate_sku` included |
| `StoreUpload` | `FileField.pre_save`: the file is stored before the row is written |
| `InsertRow`, `PutRow`, `PatchRow`, `DeleteRow` | the statement: the whole row (POST, PUT), `update_fields` (PATCH). A PATCH of a deleted row is an error, a PUT inserts it again |
| `FailWrite`, `Refused`, `Discarded` | `Product.save` when the database raises: the upload stored by this save is discarded |
| `CleanUp` | django-cleanup after the write: removes the image *that the view had read* |
| `Crash` | the worker dies at any point |

One `title` stands for the fields without a rule of their own. `Settings` are the
clients and machines an instance may start with (`setting`, which never changes):
`one_editor` (clients do not change one product at the same time),
`put_keeps_image` (a PUT may leave the image out and then saves the name it has
read), `crashes`. One run so compares histories of each kind, and a property says
under which of them it holds. `Status` is `catalog_exception_handler`.

## 3. The runs

| Run | Instance | States | Properties |
|---|---|---|---|
| `tree_moves` | ids 8-10, two names, two requests, `PATH_MAX_LENGTH` 5 | 698,000 | `IInv`, `TypeOK`, `PathsAgree`, `NoCycle`, `PathsFit`, `SubtreeIsPrefixMatch`, `RetryOnlyAtTheTop` |
| `tree_names` | ids 9-10, three names of which two differ in case only, two requests, a product | 388,000 | `KeepInv`, `SiblingNamesUnique`, `ContentsKeepTheirCategory`, `SafetyNetUnused`, `ImplementsForest`, `ChangesOnlyWhatWasSent` |
| `tree_liveness` | ids 9-10, two names, two requests, fairness | 94,000 | `EveryRequestAnswered` |
| `lock_on_empty_table` | as `tree_liveness` | violation | `LockExcludes` |
| `path_text` | ids of one, two and three digits, three paths of up to two ids | 9,300 | `LengthAgrees`, `PrefixAgrees`, `CutAgrees` |
| `category_repair` | ids 8-10, two names, `PATH_MAX_LENGTH` 5, stray path `/9/` | 234,000 | `TypeOK`, `RepairRightsWhatItReaches`, `ReportsWhatWasWrong`, `ServiceSpreadsNoDamage` |
| `repair_of_swapped` | the same, bulk updates only | violation | `RepairSucceeds` |
| `product_search` | three categories, three products, six queries, pages of one and two | 513,000 | `TypeOK`, `FindsWhatIsMeant`, `AMoveHidesTheSubtree`, `PagesAddUp` |
| `product_races` | two products, three uploads, two SKUs, two titles, two requests; either one editor a product, PUTs without image and no crashes, or many editors, PUTs with image and crashes | 1,040,000 | `TypeOK`, `NothingLeftOver`, `ImagesExist`, `OneSkuPerId`, `PatchWritesOnlyWhatWasSent`, `SkuNeverChanges` |
| `product_image_race` | two requests on one product, no crashes | violation | `FilesAreRemoved` |
| `product_patch_race` | the same | violation | `RacesAreConflicts` |
| `seeding` | the command (a category, one below it, a product in that), one API request, ids 1-3, two names, `PATH_MAX_LENGTH` 3 | 785,000 | `SeedInv`, `PathsAgree`, `ContentsKeepTheirCategory`, `SafeToRunRepeatedly` |

What they show, in one sentence each, is in `PROJECT.json`.

**Why the bounds are enough.** Three categories make every shape that the tree's
hazards need: a chain (a move takes a subtree with it and can make it too long),
two siblings (names, moves under each other) and a grandchild (a move into one's
own subtree that is not a move under oneself). A race is between two requests; a
third would wait behind the lock, or be one more of those that found the table
empty, which the proofs cover for any number. Ids 8, 9, 10 have one, one and two
digits, and with 5 characters for a path (`/8/9/`, `/10/`) whether it fits depends
on the ids it names and not on its depth alone, so that the growth of a moved
subtree matters. AUTO_INCREMENT ends at the last id (`Insert` then fails as the
database would); so does the supply of file names. An instance that has used
them up and deleted everything has nothing left to do, which is why the
configurations say `CHECK_DEADLOCK FALSE`; that requests do not wait for each
other for ever is what `EveryRequestAnswered` checks.

Three categories also make everything a repair can meet: a wrong path above a right
one, a cycle with a category hanging from it, and two that have changed places.
One stray path at a time is enough, since the bulk updates and the service on the
damaged table produce all the others. For the search they are the three forests a
move matters in: the category asked for has a child, is one, or is moved away with
one; three products on pages of one are three requests, with two places to change
something in between, and equal prices make the order depend on the `id`.

The command of `seeding` needs a category of its tree under another (its path
comes from the one looked up or just made) and a product in the lower one. Three
ids leave room for one category that somebody else creates, or for
making one again that was deleted; paths that hold one id make a third level too
deep, so that the command's own creation can be refused, when a user has moved
its parent. One request at a time runs beside it, and many in the course of
one command; what requests do to each other is the subject of the two runs of
`CategoryTree`, and the proofs are about any number of them next to the command. The command may be run again at any time,
on whatever the requests have made of the catalog meanwhile, and in the
instance it is, also on one that is complete but edited.

Two products, three files and two requests give: two POSTs of one SKU, an image
replaced while it is being replaced, and an upload after a refused one. The ids of
products are given once, so longer histories only repeat these on other rows.

**VIEW and SYMMETRY.** In `category_repair` and `product_search` the names of categories
are interchangeable: their instances compare them byte by byte. In the others, no
action reads `answer`; states that differ in it alone are one. The action
properties that mention it look at the step in which a request ends, and before
that step `answer` is "none". Requests (and SKUs and titles) are interchangeable
in every definition and property; the liveness run uses neither view nor symmetry.

**Fairness.** `SF_vars(Serve(r))`: a request that again and again could take its
next step takes it. A request runs by itself (weak fairness would do for that);
where it waits for row locks, InnoDB's queues serve it in its turn, so it is not
passed over for ever although the rows are locked anew by others again and
again. Nothing is assumed of clients, and `Abort` is not fair: no answer depends on
a timeout or a failure.

**Mutants.** Each property has a mutated form of a definition, marked *Mutant* in
the modules, that a plausible bug would produce (a missing FOR UPDATE, a check at
the old place, a subtree not rewritten, locks kept after a rollback) and that
violates it.

## 4. The proofs

TLAPS proves, for any ids, names, collation, path length, products, files, trees and
assortments of the command and number of requests, what the passing runs check, the
abstract specification included; all but `EveryRequestAnswered`:

| Theorem | Property | Module |
|---|---|---|
| `TypeCorrect` | `TypeOK` | `CategoryTree_proofs` |
| `PathsAlwaysAgree` | `PathsAgree`: committed paths agree with the parent links | |
| `NeverACycle` | `NoCycle` | |
| `SubtreesByPrefix` | `SubtreeIsPrefixMatch`: the prefix match finds the descendants | |
| `PathsAlwaysFit` | `PathsFit`: no path outgrows its column | |
| `SiblingNamesStayUnique` | `SiblingNamesUnique` | |
| `ContentsStay` | `ContentsKeepTheirCategory` | |
| `SafetyNetNeverCatches` | `SafetyNetUnused` | |
| `RetriesOnlyAtTheTop` | `RetryOnlyAtTheTop` | |
| `OnlyWhatWasSentChanges` | `ChangesOnlyWhatWasSent`: no lost update | |
| `Refinement` | `ImplementsForest` | |
| `TypesAreRight` | `TypeOK` | `ProductRequests_proofs` |
| `AnIdStandsForOneSku`, `SkusStay` | `OneSkuPerId`, `SkuNeverChanges` | |
| `ImagesAreThere`, `NothingIsLeftOver` | `ImagesExist`, `NothingLeftOver` | |
| `PatchesStayNarrow` | `PatchWritesOnlyWhatWasSent` | |
| `TypesAreRight` | `TypeOK` | `CategoryRepair_proofs` |
| `TheRepairIsComplete` | `RepairRightsWhatItReaches` | |
| `TheReportIsRight` | `ReportsWhatWasWrong` | |
| `NoRequestSpreadsDamage` | `ServiceSpreadsNoDamage` | |
| `TypesAreRight` | `TypeOK` | `CatalogSearch_proofs` |
| `SearchesFindWhatIsMeant` | `FindsWhatIsMeant` | |
| `MovesHideTheSubtree` | `AMoveHidesTheSubtree` | |
| `ThePagesAddUp` | `PagesAddUp` | |
| `LengthCorrect`, `PrefixCorrect`, `CutCorrect` | `LengthAgrees`, `PrefixAgrees`, `CutAgrees`: the text of a path is as good as its ids | `PathText_proofs` |
| `SafeToRun` | `SafeToRunRepeatedly` | `SeedCatalog_proofs` |
| `SeedPathsAgree`, `SeedContentsStay`, `SeedSiblingNames` | `PathsAgree`, `ContentsKeepTheirCategory`, `SiblingNamesUnique`, next to the command | |

The facts they share are in two modules: `CategoryPaths_proofs` about paths (prefixes,
re-rooting, lengths), `CategoryRules_proofs` about tables (what a creation, a rename, a
deletion and a move do to stored paths; what a prefix match finds). Each inductive
invariant was checked by TLC before it was proved; `IInv`, `KeepInv` and `SeedInv`
still are, by the runs `tree_moves`, `tree_names` and `seeding`.

**Assumptions.** Ids are a non-empty range of positive numbers; the collation is a
function on the names; the markers (`None`, `Unchanged`, `NoRow`, `Untouched`, `NoImage`,
...) are none of the values they are told from, in the abstract forest neither
(`ForestAssumption`). `SearchAssumption` says of the constants of `CatalogSearch` what
the code's types say: product ids and prices are numbers, there are finitely
many products, a SKU names one of them, a page size is positive, a price bound may
be missing. Of the constants of the command: it is one of the requests; in `TREE`
parents come before their children, as in the nested dict; a SKU is in `PRODUCTS`
once; and `DepthAssumption`: paths as deep as the tree of the command fit their
column whichever ids they name (paths there hold two ids at most, the column
`PATH_MAX_LENGTH` characters). Of the ids of `PathText`: they are positive.

### The tree: paths and cycles

`PathsAgree` alone is not inductive: that `Commit` keeps it depends on what the
transaction has written, which depends on what it checked, on nobody else having
changed the rows it read, hence on the locks, hence, because the lock on an empty
table is no lock, on what a request that found the table empty can possibly do.
`IInv` says all this:

- `LocksInv`: at most one request holds rows. Those are closed under parents, and
  whatever it does not hold was committed since and is top level.
- `NamedInv`: ids are given once, so a category named by a request is held by it
  or gone for good. This is what makes a "blind" request (one that found no rows)
  harmless: everything it names is gone, so it can only add a top-level row.
- `PendingInv`: what is written and not committed are rows that are held, or new
  rows which no request names, each below one that its transaction holds or has
  made itself. A request of the API makes one at most; the command makes many, and
  `IInv` is stated so that it holds of both.
- `CheckedInv`: what the checks found holds until the write, and once everything
  is written the transaction's own view of the table agrees with its parents.

`InitEstablishes`, `StepKeeps` (one lemma an action) and `Inductive` are the three facts
about it. `NeverACycle` then needs no argument about moves: where paths agree, a
category's path is longer than its parent's, so the member of a set with the
shortest path has its parent outside. `SubtreesByPrefix`: the categories whose paths
a path starts with are closed under parents, so what is below is found; and of
those found in a closed set the one with the shortest path can only be the category
asked for, so what is found is below.

### The tree: names, contents, updates, the forest

`KeepInv` is what `IInv` does not say, and is proved on top of it (`KeepInductive`):

- `OneCallInv`: a request of the API has written nothing before its one write. This
  is what tells it from the command, and what `FreeNameInv` and `DraftInv` rest on;
  `KeysInv` and `ContentsInv` do without, and serve the command as well.
- `KeysInv`: the unique index holds in the committed table, in every transaction's
  view, *and between* the uncommitted rows of any two transactions, since either may
  commit first. That a write waits for the index entries of others keeps it.
- `FreeNameInv`: a name found free below the top level stays free until it is
  written, since whoever else can commit only adds top-level rows. Hence
  `RetriesOnlyAtTheTop`.
- `ContentsInv`: nothing is filed under a category whose deletion is approved or
  pending: its row is locked, and the foreign key of a product waits for it.
- `DraftInv`: what a request has written is the change it was asked for, plus paths
  of other rows. Hence no lost update, and hence the refinement: a commit is one
  `Put` or `Remove` of `CategoryForest`, or nothing; every other step but those of
  products leaves the nodes as they are. That the forest stays legal is
  `PathsAgree`, `NoCycle` and `SiblingNamesUnique`.

`SiblingNamesUnique` is about parents and the index about paths; `PathsAgree` is what
makes one of the other.

`PathsFit` needs `FitInv`: for a move that was approved, the path that *each* descendant
will get fits, from the check to the rewriting. The check looks at the longest
descendant and adds the growth of the moved category's own path. That this speaks
for all of them is `PathLengthOfRebase`: re-rooting makes every path under the old
prefix longer by the same number of characters. Whatever is committed
meanwhile is top level and under no prefix.

### Products and their images

The invariant follows each file from the upload to its removal. `CleanUpInv` (a file
about to be removed is no product's image) is the heart of `ImagesExist`;
`LeftOversInv` (a file that is no product's image is about to be removed or to become
one) that of `NothingLeftOver`. Both need to know who knows a file: `OwnersInv` (a
file belongs to one product, also for those who have read it), `UploadsInv` (an
upload is known to its request alone), `DrawnInv` (file names are new), and
`EditorsInv` (where clients take turns, a product is as its request has read it).
`SkuNeverChanges` rests on `OneSkuPerId`, which is inductive with `StagesInv`: an id is
given once, and whoever inserts it again has read it before.

### The repair

The walk is a loop whose history is not in its variables. `WalkInv` says that there
*is* a set of visited categories, and `Visited` what is true of it: each visited
category has the path its links spell; who hangs on the top level or a visited
category is visited or on the stack, and only they. When the stack is empty, the set
is closed under children; were a category that hangs on the top level not in it, the
highest of its ancestors not in it would have its parent in it. What a cycle cuts off is
never pushed, and so left alone. `Rooted`, `Spells` and `Misplaced`, which say what is
right, are stated without the walk and without recursion.

`NoRequestSpreadsDamage` uses no invariant of the walk, but a table on which paths
may contradict parents in any way. What it protects is told by the parent links: a
category is `Sound` if the path it stores leads from the top level down to it, and
each category on that path stores its part of it (`SoundIsRooted`: the repair would
leave it alone, and it is on no cycle). A request edits one category and rewrites
paths (`Edit`); a move rewrites all paths that start with the old one, which on a
damaged table are not only descendants, but none that agreed with its parent
before disagrees after it (`MoveSpreadsNoDamage`). From this step for single links,
`ClosedIsSound` gets to the whole way up: a set of categories that agree with their
parents and have them in the set is sound, since a member with a shortest path
that is not would have its parent outside. `EditSpreadsNoDamage` takes for this set
the sound categories that are left, or those that are not under the edited one.

### Search and pages

`TablesInv` is what the tree's theorems give a reader. While the category of a search
is where it was, a prefix match finds it and what is below it; once it has moved,
the old path of the category is no category's path any more, nothing is under it,
and only the comparison with the id itself finds anything: that is why a stale
search loses the subtree and shows nothing wrong (`MovesHideTheSubtree`).

`PagesInv` says that, while nothing changes, the pages so far are the first
`(page - 1) * Size` products of *the* listing. That there is only one is proved
from `Precedes` being a strict total order, which is what the second sort key, the
id, is for. With ceiling division, the last page ends where the listing ends.

### The command

Most steps next to the command are steps of `CategoryTree`, whose lemmas then say that
`IInv`, `KeysInv` and `ContentsInv` are kept. Not so its own: `Start`, a look-up that
asks for a category, `File` and `SeedCommit`, which writes the products as well. For
these the lemmas are about what the steps have in common with the tree's (`AskKeeps`,
`CommitKeeps`, `KeysCommit`); for the products, `FiledInv` says that a category
that has its product is there, in the command's eyes, and that nobody else locks
it. `SeedInv` adds:

- `StageInv`: which call of the service is under way, and for which entry of `TREE`.
- `FoundInv`: what was found or made is a row that others have, if they write it at
  all, locked: it is none of the rows that *they* have made and not committed. This
  is why the parent of the next call may be named although it was read without a
  lock.
- `FiledInv`: as above. The foreign key's shared lock keeps the category of a product
  that changes; where the product was in the category already, `PROTECT` does, since
  the product itself is locked.
- `AloneInv`: undisturbed, the command has `TREE` up to where it is, each entry below
  its parent and no deeper than in `TREE`; and what it asks for is not there yet.
- `CompleteInv`: undisturbed, in a catalog that holds the whole tree, it has written
  no category, and found each one where *any* copy of the tree has it: there is only
  one, since names are unique below a parent.

`SafeToRun` follows: by `AloneInv` none of the checks and constraints of a creation can
fail (`AloneIsFree`: the parent is there, the path fits by `DepthAssumption`, the name is
free, since where paths agree a row with the same path has the same parent),
nor the foreign key of a product; so the command is ended by its commit or by the
database, and `CompleteInv` says what the commit changes.

### The text of a path

`Text` is put together by two recursions, over the ids of a path and over the digits
of an id. Both are followed by a function that has their values step by step
(`TextsUpToExists`, `FlatExists`), so that one more id appends one more segment
(`TextOfIdsAppend`). An id's text is made of digits only and determines the id
(`IdTextInjective`); with the separator that ends it, it is no beginning of another
id's (`SegmentsDiffer`): this is where the closing `/` is needed. `TextPrefix`
takes the shortest prefix for which text and ids would disagree: without its last
id they agree, and behind that the two texts go on with the segment of one id.

### What is left to TLC

- `EveryRequestAnswered`: liveness under fairness is out of the prover's reach.
- The paths' lengths next to the command (`PathsFit`): not stated for it.

The library's induction theorems cannot be applied by the installed provers, which
do not instantiate operators. Where an induction is needed (lengths of paths, depth
of trees, pages), the proofs take the least counterexample instead, from `WFMin`
(`LeastOf` in `CategoryPaths_proofs`). The reference definitions are
written so that they can be reasoned about: `IsBelow` as membership in every closed
set, `Spells` as a condition on a whole path, `PathLength` as a recursive function.

## 5. Findings

1. `_lock_tree` promises to "make this transaction the only one changing the tree
   until it commits" (`categories.py:161`). On an empty table `SELECT ... FOR UPDATE`
   locks nothing and two requests go ahead (`lock_on_empty_table`). The other
   runs and the proofs say what that costs: two top-level categories created at
   once, and a 409 in place of a 400 when they have one name. Nothing else.
2. "Their files are removed when ... its image is replaced" (`README.md:122-124`).
   django-cleanup removes the image the request had *read*. If two requests
   replace the image of one product, the second removes the oldest file again, and
   the first one's upload stays in the storage for good (`product_image_race`).
3. "Races ... are caught by database constraints and answered with `409`, not `500`"
   (`README.md:127-128`). A PATCH whose product has been deleted since its view read
   it updates no row, which Django 5.2 reports as a plain `DatabaseError`. The
   exception handler knows `IntegrityError` and `ObjectDoesNotExist` only, and the
   answer is a 500 (`product_patch_race`). The same race on a category is a 404.
4. `rebuild_category_paths` is "the repair tool for ... a bulk
   `QuerySet.update(parent=...)`" (`categories.py:129-130`). Its `bulk_update` is one
   UPDATE, which the unique index judges row by row. Two categories of one name
   that have changed places (a "milk" below a "milk", turned round) need paths of
   which the first to be written is still taken by the other: the UPDATE is refused,
   the transaction rolls back, and no run of the command repairs anything
   (`repair_of_swapped`).

Met on the way, and no findings: the README says of products that the last write
wins, and a help text is not about races.

- A PUT without an image saves the name of the image it has read. If a PATCH
  replaced the image meanwhile, the product ends up with a name whose file is
  removed. `ImagesExist` states what makes it safe: editors that take turns, or
  PUTs that send the image. Without either, TLC finds the lost file.
- A PUT that races a DELETE inserts the product again under its old id. It keeps
  the SKU that the id always had (`OneSkuPerId`), also against requests that still
  hold the deleted product.
- `seed_catalog` looks a category up before it locks anything. If somebody renames,
  moves or deletes it before the command commits, the command can end with "Catalog
  ready" and a tree that is not the one it describes. Its help text is not about
  users at work next to it; the tree stays sound (`PathsAgree`), no product
  loses its category, and a run that nobody disturbs puts things right
  (`SafeToRunRepeatedly`, which assumes just that and nothing of the catalog before).
- `seed_catalog` and a request can deadlock. InnoDB then rolls one of them back:
  the command fails as a whole and can be run again, or the request is answered
  with 500, since `OperationalError` is not mapped.
- On a table with damaged paths the service can itself make a cycle, since its cycle
  check compares stored paths; on a sound table it cannot, as `docs/adr/0003` says
  and `NeverACycle` proves. The repair walks down from the top level and does not
  see a cycle (the ADR says so too). It also goes by the parent's *stored* path, so
  a rename or a creation below a damaged category writes one more path that the
  parent links contradict, sometimes in place of a right one. What holds on
  any table is that this stays below damaged categories: what is sound, all the way
  up, is not touched, and what is put below it is sound (`ServiceSpreadsNoDamage`).
  `RepairRightsWhatItReaches` says what the repair then does.
- A search whose category is moved between its queries finds only the products
  filed directly under the category (`AMoveHidesTheSubtree`), although the API's
  help text says that "products of all its sub-categories are included". Asking
  again helps. If the category is deleted between the queries, the answer is an
  empty list; a search that starts later gets the 400 of `docs/adr/0004`.

## 6. Not modelled

- Listing of categories and products, and the `?parent=` filter: reads without a
  second step but the pages, which are those of the search.
- `validate_sku`, `normalize_sku`, image checks, price rules: functions of one value,
  and nothing in them relates two steps, two requests or two states. Clients of
  `ProductRequests` send normalized SKUs; to `CatalogSearch`, `normalize_sku` is a constant.
- Error bodies, and the status codes of category requests. The exception that
  ends a request is the value of `answer`; `Status` in `ProductRequests` maps those of
  product requests.
- Two `seed_catalog` at once, a `seed_catalog` next to the repair, or next to several API
  requests: nobody runs the first two on purpose, and the last is too large an
  instance. Liveness of the command is not stated either: InnoDB may choose
  it as the victim of every deadlock.
- Authentication, throttling, settings, health checks, URLs: configuration of
  libraries.
- MariaDB, django-cleanup and the storage are modelled from how this code uses
  them, and marked external in `PROJECT.json`. Deadlock detection and lock wait
  timeouts are part of `Abort`; which cycles of waits occur is not stated.
- Pages of a listing that changes in between: the repository's README says that
  a row may then be repeated, and `PagesAddUp` is about undisturbed ones.

## 7. Plan

In this order; all of it is done.

1. `CategoryPaths`, `PathText`; `CategoryRules` and `CategoryTree` with
   `CategoryForest`, their runs.
2. `CategoryTree_proofs`, first part: types, paths, cycles, prefix matches.
3. `ProductRequests`: SKU, partial updates, images, races.
4. `CategoryRepair`: the repair and the service on damaged tables.
5. `CatalogSearch`: criteria, subtree, filters, pages next to changes.
6. `SeedCatalog`: one long transaction of many service calls next to API requests.
7. `CategoryTree_proofs`, second part: names, contents, updates, `CategoryForest`, lengths.
8. `ProductRequests_proofs`: SKUs, images, partial updates.
9. `CategoryRepair_proofs`: the walk, and damaged tables.
10. `CatalogSearch_proofs`: what a search finds, and that its pages add up.
11. `PathText_proofs`: the text of a path and its ids.
12. `SeedCatalog_proofs`: `IInv` for a transaction that holds several new rows; paths,
    names and contents next to the command; `SafeToRunRepeatedly`.

What could come next: several requests next to the command for TLC, locks taken row by
row, so that the cycles of waits between it and them can be stated, and the
listing of categories with the `?parent=` filter.
