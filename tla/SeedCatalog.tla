---------------------------- MODULE SeedCatalog ----------------------------
(***************************************************************************)
(* The command seed_catalog next to API requests: one transaction that     *)
(* makes many calls of the category service (CategoryTree), each with a    *)
(* look-up that takes no lock before it, and then writes the products.     *)
(*                                                                         *)
(* A statement takes its locks in one step, when the last of them is free. *)
(* Those it has had before that can only keep others waiting, and make a   *)
(* cycle of waits with the command, whose locks stay until its end.  InnoDB*)
(* ends a cycle by rolling one transaction back, which is an Abort, and an *)
(* Abort may come at any time.                                             *)
(***************************************************************************)
EXTENDS CategoryTree

CONSTANTS
    Seed,           \* the one of Requests that is the command
    TREE,           \* depth first: [name, under], `under` a position or 0
    PRODUCTS        \* [sku, category], `category` a position in TREE

ASSUME SeedAssumption == Seed \in Requests
ASSUME TreeAssumption ==
    /\ TREE \in Seq([name : Names, under : 0 .. Len(TREE)])
    /\ \A n \in DOMAIN TREE : TREE[n].under < n
ASSUME ProductsAssumption ==
    /\ PRODUCTS \in Seq([sku : Products, category : DOMAIN TREE])
    /\ \A m, n \in DOMAIN PRODUCTS : PRODUCTS[m].sku = PRODUCTS[n].sku => m = n

\* How deep each category of TREE is, and that so deep a path fits its column.
FittingDepths ==
    {depth \in [DOMAIN TREE -> 0 .. Len(TREE)] : \A n \in DOMAIN TREE :
        /\ TREE[n].under # 0 => depth[TREE[n].under] < depth[n]
        /\ \A k \in 0 .. depth[n] : \A path \in [1 .. k -> Ids] : PathFits(path)}

ASSUME DepthAssumption == FittingDepths # {}

VARIABLES
    created,    \* the categories found or created so far, as in TREE
    filed,      \* how many of PRODUCTS are written
    alone       \* has nobody else committed anything since the command began?

progress == <<created, filed, alone>>
seedVars == <<vars, progress>>

SeedInit ==
    Init /\ created = <<>> /\ filed = 0 /\ alone = TRUE

Others == Requests \ {Seed}
Walked == Len(created) = Len(TREE)
Filed  == {n \in DOMAIN PRODUCTS : n <= filed}
Target(n) == created[PRODUCTS[n].category]

\* The parent of the nth category of TREE, the ones before it being `cats`.
Under(cats, n) == IF TREE[n].under = 0 THEN None ELSE cats[TREE[n].under]

\* Its products are locked, written or not; a foreign key that was written holds
\* a shared lock on the category.
LockedProducts == {PRODUCTS[n].sku : n \in Filed}
ReferredTo     == {Target(n) : n \in {m \in Filed : products[PRODUCTS[m].sku] # Target(m)}}

-----------------------------------------------------------------------------
(* The command.  Its pc is "written" between two calls of the service.      *)

\* A step of the command; with the end of its transaction all is let go.
SeedStep(seen, written) ==
    IF pc'[Seed] = "idle"
    THEN created' = <<>> /\ filed' = 0 /\ alone' = TRUE
    ELSE created' = seen /\ filed' = written /\ UNCHANGED alone

Start ==
    /\ pc[Seed] = "idle"
    /\ pc' = [pc EXCEPT ![Seed] = "written"]
    /\ answer' = [answer EXCEPT ![Seed] = "none"]
    /\ UNCHANGED <<tables, call, object, oldPrefix, held, pending>>
    /\ SeedStep(<<>>, 0)

\* Mutant: the look-up forgets the parent.
NamedAnywhere(table, parent, name) ==
    {i \in Existing(table) : CollationKey[table[i].name] = CollationKey[name]}

\* filter(parent=..., name=...), which compares names as the collation does.
NamedBelow(table, parent, name) ==
    {i \in Children(table, parent) : CollationKey[table[i].name] = CollationKey[name]}

\* _create_tree: the category is looked up, without a lock, or asked for.
LookUp ==
    LET entry  == TREE[Len(created) + 1]
        parent == Under(created, Len(created) + 1)
        found  == NamedBelow(View(Seed), parent, entry.name)
    IN  /\ pc[Seed] = "written" /\ ~Walked
        /\ IF found # {}
           THEN /\ UNCHANGED vars
                /\ \E i \in found : SeedStep(Append(created, i), 0)
           ELSE /\ pc' = [pc EXCEPT ![Seed] = "waiting"]
                /\ call' = [call EXCEPT ![Seed] =
                    [op |-> "create", id |-> None, sent |-> Fields,
                     name |-> entry.name, parent |-> parent]]
                /\ UNCHANGED <<tables, object, oldPrefix, held, pending, answer>>
                /\ SeedStep(created, 0)

\* Mutant: the id is taken before the INSERT gives one.
CreateIdBefore ==
    \/ LockTree(Seed) /\ SeedStep(created, 0)
    \/ CheckCreate(Seed) /\ SeedStep(created, 0)
    \/ Insert(Seed) /\ SeedStep(Append(created, lastId), 0)

\* create_category; an exception ends the command.
Create ==
    \/ LockTree(Seed) /\ SeedStep(created, 0)
    \/ CheckCreate(Seed) /\ SeedStep(created, 0)
    \/ Insert(Seed) /\ SeedStep(Append(created, lastId'), 0)

\* Mutant: the category of a product is taken to be there.
CategoryMissingNever(n) == FALSE

\* The foreign key refuses a category that has been deleted since its look-up.
CategoryMissing(n) == Gone(View(Seed), Target(n))

\* update_or_create: SELECT ... FOR UPDATE by SKU, then the INSERT or UPDATE, whose
\* foreign key locks the category if it is a new one for the product.
File ==
    LET n == filed + 1
    IN  /\ pc[Seed] = "written" /\ Walked /\ n \in DOMAIN PRODUCTS
        /\ products[PRODUCTS[n].sku] # Target(n) =>
            \A q \in Requests \ {Seed} : Target(n) \notin Exclusive(q)
        /\ IF CategoryMissing(n)
           THEN Refuse(Seed, "IntegrityError")
           ELSE UNCHANGED vars
        /\ SeedStep(created, n)

SeedCommit ==
    /\ pc[Seed] = "written" /\ Walked /\ filed = Len(PRODUCTS)
    /\ rows' = View(Seed)
    /\ products' = [p \in Products |->
        IF \E n \in Filed : PRODUCTS[n].sku = p
        THEN Target(CHOOSE n \in Filed : PRODUCTS[n].sku = p)
        ELSE products[p]]
    /\ EndRequest(Seed, "ok")
    /\ UNCHANGED lastId
    /\ SeedStep(<<>>, 0)

SeedAbort == Abort(Seed) /\ SeedStep(<<>>, 0)

-----------------------------------------------------------------------------
(* The others.                                                              *)

OtherStep ==
    /\ alone' = (pc[Seed] = "idle" \/ (alone /\ UNCHANGED <<rows, products>>))
    /\ UNCHANGED <<created, filed>>

\* SELECT ... FOR UPDATE over the table waits for shared locks, too.
OtherServe(r) ==
    /\ r \in Others
    /\ pc[r] = "waiting" => ReferredTo \cap Existing(rows) = {}
    /\ Serve(r)
    /\ OtherStep

OtherRequest(r) ==
    /\ r \in Others
    /\ RequestCreate(r) \/ RequestUpdate(r) \/ RequestDelete(r) \/ Abort(r)
    /\ OtherStep

OtherProduct(p) ==
    /\ p \notin LockedProducts
    /\ RemoveProduct(p) \/ \E c \in Ids : FileProduct(p, c)
    /\ OtherStep

SeedNext ==
    \/ Start \/ LookUp \/ Create \/ File \/ SeedCommit \/ SeedAbort
    \/ \E r \in Requests : OtherRequest(r) \/ OtherServe(r)
    \/ \E p \in Products : OtherProduct(p)

SeedSpec == SeedInit /\ [][SeedNext]_seedVars

-----------------------------------------------------------------------------
(* Properties, besides those of CategoryTree.                               *)

\* Every variable has its type.
SeedTypeOK ==
    /\ TypeOK
    /\ created \in Seq(Ids) /\ Len(created) <= Len(TREE)
    /\ filed \in 0 .. Len(PRODUCTS)
    /\ alone \in BOOLEAN

\* These are the first categories of TREE, in the table.
Holds(table, cats) ==
    \A n \in DOMAIN cats : cats[n] \in NamedBelow(table, Under(cats, n), TREE[n].name)

\* The tree and the products of the command, found from the top level down.
Complete ==
    \E cats \in [DOMAIN TREE -> Existing(rows)] :
        /\ Holds(rows, cats)
        /\ \A n \in DOMAIN PRODUCTS : products[PRODUCTS[n].sku] = cats[PRODUCTS[n].category]

\* "Safe to run repeatedly": whatever others have made of the catalog before, the
\* command, if nobody commits anything meanwhile, ends with all it has to put in
\* and leaves a catalog that held it as it was; only the database can make it fail.
SafeToRunRepeatedly ==
    [][alone /\ pc[Seed] # "idle" /\ pc'[Seed] = "idle" =>
        \/ answer'[Seed] = "OperationalError"
        \/ /\ answer'[Seed] = "ok" /\ Complete'
           /\ Complete => UNCHANGED <<rows, products>>]_seedVars

-----------------------------------------------------------------------------
(* Why it works: what SeedInv adds to IInv, and to the parts of KeepInv     *)
(* that hold in a transaction of many calls.                                *)

\* The command asks for the next category of TREE, and files no product before.
StageInv ==
    /\ pc[Seed] # "saved"
    /\ pc[Seed] = "idle" => call[Seed] = NoCall /\ created = <<>> /\ filed = 0
    /\ filed # 0 => Walked
    /\ pc[Seed] \in {"waiting", "locked", "approved"} =>
        /\ ~Walked
        /\ call[Seed] = [op |-> "create", id |-> None, sent |-> Fields,
                         name |-> TREE[Len(created) + 1].name,
                         parent |-> Under(created, Len(created) + 1)]

\* What it found may be deleted by others who locked it, but it is no category
\* that they have just inserted; and it deletes none itself.
FoundInv ==
    /\ \A i \in Ids : pending[Seed][i] # NoRow
    /\ \A n \in DOMAIN created :
        /\ created[n] <= lastId
        /\ \A q \in Others :
            pending[q][created[n]] # Untouched => created[n] \in held[q]

\* A category that has its product cannot be deleted: the shared lock of the foreign
\* key keeps it or, where the product was in it before, the product does.
FiledInv ==
    \A n \in Filed :
        /\ ~Gone(View(Seed), Target(n))
        /\ products[PRODUCTS[n].sku] # Target(n) =>
            \A q \in Others : Target(n) \notin Exclusive(q)

Depth == CHOOSE depth \in FittingDepths : TRUE

\* Alone, the command has what it found and created, where it belongs, and the
\* category it asks for is neither there nor too deep.
AloneInv ==
    alone /\ pc[Seed] # "idle" =>
        /\ Holds(View(Seed), created)
        /\ \A n \in DOMAIN created : Len(View(Seed)[created[n]].ancestor_path) <= Depth[n]
        /\ pc[Seed] # "written" =>
            NamedBelow(View(Seed), call[Seed].parent, call[Seed].name) = {}

\* Where the whole tree is in the table, it has found that and created nothing.
CompleteInv ==
    alone /\ pc[Seed] # "idle" =>
        \A cats \in [DOMAIN TREE -> Existing(rows)] : Holds(rows, cats) =>
            /\ pc[Seed] = "written" /\ pending[Seed] = NoWrites
            /\ \A n \in DOMAIN created : created[n] = cats[n]

SeedInv ==
    /\ IInv /\ KeysInv /\ ContentsInv
    /\ SeedTypeOK /\ StageInv /\ FoundInv /\ FiledInv /\ AloneInv /\ CompleteInv
=============================================================================
