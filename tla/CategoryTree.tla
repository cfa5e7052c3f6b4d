---------------------------- MODULE CategoryTree ----------------------------
(***************************************************************************)
(* The category service (src/catalog/services/categories.py) under         *)
(* concurrent API requests, on MariaDB at READ COMMITTED.                  *)
(*                                                                         *)
(* The view looks up the objects a request names (RequestCreate, Update,   *)
(* Delete) before the service opens a transaction; the service locks the   *)
(* category rows (LockTree), reads again and checks (CheckCreate, Update,  *)
(* Delete), writes (Insert, SaveRow, RewriteDescendants, DeleteRow) and    *)
(* commits (Commit).  Writes stay in pending[r], seen by r alone, until    *)
(* then.  The checks of one request are one step: what they read is locked *)
(* or, at the top level, may change before the write, a later step.        *)
(***************************************************************************)
EXTENDS Integers, Sequences, FiniteSets, CategoryRules

CONSTANTS
    Requests,           \* API requests and commands running at a time
    Products

VARIABLES
    rows,       \* the committed category table
    lastId,     \* AUTO_INCREMENT: the last id given, also to a failed INSERT
    products,   \* the committed category_id of every product; None: no product
    pc,         \* where a request is
    call,       \* what the client sent, and the service's arguments
    object,     \* the Category object the service is about to save
    oldPrefix,  \* the local variable old_prefix of update_category
    held,       \* rows the request has locked FOR UPDATE
    pending,    \* rows its transaction has written and not committed
    answer      \* how its last request ended: "ok" or the exception's name

tables == <<rows, lastId, products>>
locals == <<pc, call, object, oldPrefix, held, pending, answer>>
vars   == <<tables, locals>>

Fields == {"name", "parent"}

Calls ==
    [op : {"create"}, id : {None}, sent : {Fields},
     name : Names, parent : Ids \cup {None}]
    \cup [op : {"update"}, id : Ids, sent : SUBSET Fields,
          name : Names \cup {Unchanged}, parent : Ids \cup {None, Unchanged}]
    \cup [op : {"delete"}, id : Ids, sent : {{}},
          name : {Unchanged}, parent : {Unchanged}]

NoCall == [op |-> "none", id |-> None, sent |-> {},
           name |-> Unchanged, parent |-> Unchanged]
InTransaction(r) == pc[r] \in {"locked", "approved", "saved", "written"}

Results == {"none", "ok", "DoesNotExist", "InvalidCategoryMove", "CategoryTreeTooDeep",
            "DuplicateCategoryName", "CategoryInUse", "ProtectedError",
            "IntegrityError", "OperationalError"}

Init ==
    /\ rows = [i \in Ids |-> NoRow]
    /\ lastId = FirstId - 1
    /\ products = [p \in Products |-> None]
    /\ pc = [r \in Requests |-> "idle"]
    /\ call = [r \in Requests |-> NoCall]
    /\ object = [r \in Requests |-> NoRow]
    /\ oldPrefix = [r \in Requests |-> ROOT_PATH]
    /\ held = [r \in Requests |-> {}]
    /\ pending = [r \in Requests |-> NoWrites]
    /\ answer = [r \in Requests |-> "none"]

-----------------------------------------------------------------------------
(* The table as a transaction sees it.                                      *)

View(r) == Written(rows, pending[r])

\* What PROTECT keeps a category for, besides Children: products in it.
FiledUnder(c) == {p \in Products : products[p] = c}

-----------------------------------------------------------------------------
(* A request ends: its transaction is over and its locks are released.     *)

\* Mutant: the locks outlive the transaction.
EndRequestKeepingLocks(r, result) ==
    /\ pc' = [pc EXCEPT ![r] = "idle"]
    /\ call' = [call EXCEPT ![r] = NoCall]
    /\ object' = [object EXCEPT ![r] = NoRow]
    /\ oldPrefix' = [oldPrefix EXCEPT ![r] = ROOT_PATH]
    /\ pending' = [pending EXCEPT ![r] = NoWrites]
    /\ answer' = [answer EXCEPT ![r] = result]
    /\ UNCHANGED held

EndRequest(r, result) ==
    /\ pc' = [pc EXCEPT ![r] = "idle"]
    /\ call' = [call EXCEPT ![r] = NoCall]
    /\ object' = [object EXCEPT ![r] = NoRow]
    /\ oldPrefix' = [oldPrefix EXCEPT ![r] = ROOT_PATH]
    /\ held' = [held EXCEPT ![r] = {}]
    /\ pending' = [pending EXCEPT ![r] = NoWrites]
    /\ answer' = [answer EXCEPT ![r] = result]

Refuse(r, result) == EndRequest(r, result) /\ UNCHANGED tables

\* The view has validated a request: what it names existed when it was read.
Receive(r, request) ==
    /\ pc[r] = "idle"
    /\ pc' = [pc EXCEPT ![r] = "waiting"]
    /\ call' = [call EXCEPT ![r] = request]
    /\ answer' = [answer EXCEPT ![r] = "none"]
    /\ UNCHANGED <<tables, object, oldPrefix, held, pending>>

\* POST.  (Bound: no new creation once the ids are used up.)
RequestCreate(r) ==
    \E name \in Names, parent \in Existing(rows) \cup {None} :
        /\ lastId < LastId
        /\ Receive(r, [op |-> "create", id |-> None, sent |-> Fields,
                       name |-> name, parent |-> parent])

\* Mutant: what was not sent is filled in from the view's copy of the row.
ChangesFilledIn(c, sent, name, parent, instance) ==
    [op |-> "update", id |-> c, sent |-> sent,
     name   |-> IF "name" \in sent THEN name ELSE instance.name,
     parent |-> IF "parent" \in sent THEN parent ELSE instance.parent]

\* CategorySerializer.update: only what was sent is passed on; the rest is not
\* filled in from `instance`, which the view read before the service's lock.
Changes(c, sent, name, parent, instance) ==
    [op |-> "update", id |-> c, sent |-> sent,
     name   |-> IF "name" \in sent THEN name ELSE Unchanged,
     parent |-> IF "parent" \in sent THEN parent ELSE Unchanged]

\* PATCH with any of the fields; PUT, where a parent not given means None, is
\* the request that sends both.
RequestUpdate(r) ==
    \E c \in Existing(rows), sent \in SUBSET Fields,
       name \in Names, parent \in Existing(rows) \cup {None} :
        Receive(r, Changes(c, sent, name, parent, rows[c]))

\* DELETE.  Of the object it is handed, the service uses the id alone.
RequestDelete(r) ==
    \E c \in Existing(rows) : Receive(r, [NoCall EXCEPT !.op = "delete", !.id = c])

-----------------------------------------------------------------------------
(* SELECT ... FOR UPDATE over the whole table.  It waits for every row that *)
(* another transaction has locked or written, and locks the rows there are: *)
(* on an empty table it locks nothing and lets the next one in as well.     *)

Unlocked(r) == \A q \in Requests \ {r} : held[q] = {} /\ pending[q] = NoWrites

\* Mutant: the rows are read without FOR UPDATE.
LockTreeReadOnly(r) ==
    /\ pc[r] = "waiting"
    /\ pc' = [pc EXCEPT ![r] = "locked"]
    /\ UNCHANGED <<tables, call, object, oldPrefix, held, pending, answer>>

LockTree(r) ==
    /\ pc[r] = "waiting"
    /\ Unlocked(r)
    /\ held' = [held EXCEPT ![r] = Existing(rows)]
    /\ pc' = [pc EXCEPT ![r] = "locked"]
    /\ UNCHANGED <<tables, call, object, oldPrefix, pending, answer>>

-----------------------------------------------------------------------------
(* create_category                                                          *)

CheckCreate(r) ==
    LET row == [parent |-> call[r].parent, name |-> call[r].name,
                ancestor_path |-> AncestorPathUnder(View(r), call[r].parent)]
        verdict == CreateVerdict(View(r), call[r], row)
    IN  /\ pc[r] = "locked" /\ call[r].op = "create"
        /\ IF verdict = "ok"
           THEN /\ object' = [object EXCEPT ![r] = row]
                /\ pc' = [pc EXCEPT ![r] = "approved"]
                /\ UNCHANGED <<tables, call, oldPrefix, held, pending, answer>>
           ELSE Refuse(r, verdict)

\* Rows a transaction has locked for itself, and rows it shares a lock on
\* because a row it has written refers to them.
Exclusive(q)  == held[q] \cup {i \in Ids : pending[q][i] # Untouched}
Shared(q)     == {pending[q][i].parent : i \in Stored(pending[q])}

\* A write waits for another transaction's locks on the rows it writes or
\* refers to, and for an uncommitted row whose old or new index key it writes.
MustWait(r, writes) ==
    \E q \in Requests \ {r} :
        \/ \E i \in Ids : writes[i] # Untouched /\ i \in Exclusive(q) \cup Shared(q)
        \/ \E i \in Stored(writes) :
            \/ writes[i].parent \in Exclusive(q)
            \/ \E j \in Ids : pending[q][j] # Untouched /\
                \E row \in {rows[j], pending[q][j]} \ {NoRow} :
                    IndexKey(row) = IndexKey(writes[i])

\* The unique index and the foreign keys, on the table after the write.
ConstraintsHold(table, writes) ==
    /\ \A i \in Stored(writes) :
        /\ \A j \in Existing(table) \ {i} : IndexKey(table[j]) # IndexKey(writes[i])
        /\ ~Gone(table, writes[i].parent)
    /\ \A i \in Ids : writes[i] = NoRow => Children(table, i) = {} /\ FiledUnder(i) = {}

\* One statement of transaction r: it waits, is refused by a constraint,
\* which rolls the transaction back, or adds to what the transaction wrote.
Write(r, writes, next) ==
    /\ ~MustWait(r, writes)
    /\ IF ConstraintsHold(Written(View(r), writes), writes)
       THEN /\ pending' = [pending EXCEPT ![r] = Written(@, writes)]
            /\ pc' = [pc EXCEPT ![r] = next]
            /\ UNCHANGED <<call, object, oldPrefix, held, answer>>
       ELSE EndRequest(r, "IntegrityError")

\* category.save() of a new object.  (Bound: no id is left after LastId.)
Insert(r) ==
    /\ pc[r] = "approved" /\ call[r].op = "create"
    /\ IF lastId < LastId
       THEN /\ Write(r, [NoWrites EXCEPT ![lastId + 1] = object[r]], "written")
            /\ lastId' = lastId + 1
            /\ UNCHANGED <<rows, products>>
       ELSE Refuse(r, "OperationalError")

-----------------------------------------------------------------------------
(* update_category                                                          *)

CheckUpdate(r) ==
    LET c       == call[r].id
        gone    == Gone(View(r), c) \/ Gone(View(r), call[r].parent)
        row     == Wanted(View(r), call[r])
        verdict == IF gone THEN "DoesNotExist" ELSE UpdateVerdict(View(r), call[r], row)
    IN  /\ pc[r] = "locked" /\ call[r].op = "update"
        /\ IF verdict = "ok"
           THEN /\ object' = [object EXCEPT ![r] = row]
                /\ oldPrefix' = [oldPrefix EXCEPT ![r] = PathOf(View(r), c)]
                /\ pc' = [pc EXCEPT ![r] = "approved"]
                /\ UNCHANGED <<tables, call, held, pending, answer>>
           ELSE Refuse(r, verdict)

NewPrefix(r) == FullPath(object[r].ancestor_path, call[r].id)

\* Mutant: the descendants are left where they were.
SaveRowAlone(r) ==
    /\ pc[r] = "approved" /\ call[r].op = "update"
    /\ Write(r, [NoWrites EXCEPT ![call[r].id] = object[r]], "written")
    /\ UNCHANGED tables

\* category.save() of the changed object: the whole row.
SaveRow(r) ==
    /\ pc[r] = "approved" /\ call[r].op = "update"
    /\ Write(r, [NoWrites EXCEPT ![call[r].id] = object[r]],
             IF NewPrefix(r) = oldPrefix[r] THEN "written" ELSE "saved")
    /\ UNCHANGED tables

RewriteDescendants(r) ==
    /\ pc[r] = "saved"
    /\ Write(r, Rewritten(View(r), oldPrefix[r], NewPrefix(r)), "written")
    /\ UNCHANGED tables

-----------------------------------------------------------------------------
(* delete_category                                                          *)

\* Mutant: the check for products is forgotten.
InUseByChildren(table, c) == Children(table, c) # {}

\* What the two friendly checks look for.
InUse(table, c) == Children(table, c) # {} \/ FiledUnder(c) # {}

CheckDelete(r) ==
    /\ pc[r] = "locked" /\ call[r].op = "delete"
    /\ IF InUse(View(r), call[r].id)
       THEN Refuse(r, "CategoryInUse")
       ELSE /\ pc' = [pc EXCEPT ![r] = "approved"]
            /\ UNCHANGED <<tables, call, object, oldPrefix, held, pending, answer>>

\* category.delete(): Django looks for protected rows itself, then sends the
\* DELETE, which is no error when the row is already gone.
DeleteRow(r) ==
    LET c == call[r].id
    IN  /\ pc[r] = "approved" /\ call[r].op = "delete"
        /\ IF Children(View(r), c) # {} \/ FiledUnder(c) # {}
           THEN EndRequest(r, "ProtectedError")
           ELSE Write(r, [NoWrites EXCEPT ![c] = IF View(r)[c] = NoRow THEN Untouched
                                                 ELSE NoRow], "written")
        /\ UNCHANGED tables

-----------------------------------------------------------------------------
(* The end of transaction.atomic(): commit, or roll back on any error the   *)
(* database raises (lock wait timeout, lost connection, killed process).    *)

Commit(r) ==
    /\ pc[r] = "written"
    /\ rows' = View(r)
    /\ EndRequest(r, "ok")
    /\ UNCHANGED <<lastId, products>>

Abort(r) ==
    /\ pc[r] # "idle"
    /\ Refuse(r, "OperationalError")

\* Mutant: the foreign key is checked without a lock.
FileProductUnlocked(p, c) ==
    /\ rows[c] # NoRow /\ products[p] # c
    /\ products' = [products EXCEPT ![p] = c]
    /\ UNCHANGED <<rows, lastId, locals>>

\* A product is created in, or moved to, category c, or deleted, each by one
\* statement that commits.  Its foreign key takes a shared lock on the row of
\* c, so it waits for a transaction that has locked or written it.
FileProduct(p, c) ==
    /\ rows[c] # NoRow /\ products[p] # c
    /\ \A q \in Requests : c \notin Exclusive(q)
    /\ products' = [products EXCEPT ![p] = c]
    /\ UNCHANGED <<rows, lastId, locals>>

RemoveProduct(p) ==
    /\ products[p] # None
    /\ products' = [products EXCEPT ![p] = None]
    /\ UNCHANGED <<rows, lastId, locals>>

Serve(r) ==
    \/ LockTree(r)
    \/ CheckCreate(r) \/ Insert(r)
    \/ CheckUpdate(r) \/ SaveRow(r) \/ RewriteDescendants(r)
    \/ CheckDelete(r) \/ DeleteRow(r)
    \/ Commit(r)

Next ==
    \/ \E r \in Requests :
        \/ RequestCreate(r) \/ RequestUpdate(r) \/ RequestDelete(r)
        \/ Serve(r) \/ Abort(r)
    \/ \E p \in Products : RemoveProduct(p) \/ \E c \in Ids : FileProduct(p, c)

Spec == Init /\ [][Next]_vars

\* A request goes on by itself; where it waits for a lock it is served in the
\* order of InnoDB's lock queues, so it is not passed over for ever.
FairSpec == Spec /\ \A r \in Requests : SF_vars(Serve(r))

-----------------------------------------------------------------------------
(* Properties.                                                              *)

\* Every variable has its type.
TypeOK ==
    /\ rows \in [Ids -> Row \cup {NoRow}]
    /\ lastId \in (FirstId - 1) .. LastId
    /\ products \in [Products -> Ids \cup {None}]
    /\ pc \in [Requests -> {"idle", "waiting", "locked", "approved", "saved", "written"}]
    /\ call \in [Requests -> Calls \cup {NoCall}]
    /\ object \in [Requests -> Row \cup {NoRow}]
    /\ oldPrefix \in [Requests -> Seq(Ids)]
    /\ held \in [Requests -> SUBSET Ids]
    /\ pending \in [Requests -> [Ids -> Row \cup {NoRow, Untouched}]]
    /\ answer \in [Requests -> Results]

\* "ancestor_path always agrees with parent", in what anyone can read at any
\* time, half-way through a move included; and every parent exists.
PathsAgree == TableAgrees(rows)

\* "The tree has no cycles": every set of categories has one whose parent is
\* not in the set.  Two moves that each passed the check must not make one.
NoCycle ==
    \A S \in (SUBSET Existing(rows)) \ {{}} : \E c \in S : rows[c].parent \notin S

\* "Sibling names are unique", siblings by the parent link and names as the
\* collation compares them, although the index sees the stored path only.
SiblingNamesUnique ==
    \A i, j \in Existing(rows) :
        /\ i # j /\ rows[i].parent = rows[j].parent
        => CollationKey[rows[i].name] # CollationKey[rows[j].name]

\* No sequence of creations and moves makes a path longer than its column,
\* however many characters the ids take.
PathsFit == \A i \in Existing(rows) : PathFits(rows[i].ancestor_path)

\* The categories found by the prefix match are those reached by the parent
\* links, for every category at every time: what search and moves rely on.
SubtreeIsPrefixMatch ==
    \A c \in Existing(rows) :
        UnderPath(rows, PathOf(rows, c)) = {i \in Existing(rows) \ {c} : IsBelow(rows, i, c)}

\* A product and a sub-category keep their category: PROTECT as a client
\* relies on it, although it is checked by reads that precede the DELETE.
ContentsKeepTheirCategory ==
    /\ \A p \in Products : products[p] # None => rows[products[p]] # NoRow
    /\ \A i \in Existing(rows) : ~Gone(rows, rows[i].parent)

\* The "safety net" of delete_category never catches anything: nothing slips
\* past the two friendly checks between them and the DELETE.
SafetyNetUnused == [][\A r \in Requests : answer'[r] # "ProtectedError"]_vars

\* Below the top level the friendly check finds every name the unique index
\* would refuse; only at the top level can a request be told to retry (409),
\* because the lock on an empty table excluded nobody.
RetryOnlyAtTheTop ==
    [][\A r \in Requests :
        answer'[r] = "IntegrityError" /\ answer[r] # "IntegrityError"
        => call[r].op # "delete" /\ object[r].parent = None]_vars

\* No lost update: a committed name or parent changes only by a request whose
\* client sent that field, to the value it sent.
ChangesOnlyWhatWasSent ==
    [][\A c \in Existing(rows) : rows'[c] \notin {NoRow, rows[c]} =>
        \E r \in Requests :
            /\ pc[r] = "written" /\ pc'[r] = "idle"
            /\ \/ rows'[c].name = rows[c].name
               \/ call[r].id = c /\ "name" \in call[r].sent /\ rows'[c].name = call[r].name
            /\ \/ rows'[c].parent = rows[c].parent
               \/ call[r].id = c /\ "parent" \in call[r].sent /\ rows'[c].parent = call[r].parent]_vars

\* The categories without their paths are the nodes of CategoryForest.
Forest == INSTANCE CategoryForest WITH
    nodes <- [i \in Ids |-> IF rows[i] = NoRow THEN NoRow
                            ELSE [parent |-> rows[i].parent, name |-> rows[i].name]]

\* The marker is none of them either.
ASSUME ForestAssumption == NoRow \notin Forest!Node

\* The service implements the forest that CategoryForest promises: the stored
\* paths, the locks and the half-done transactions are not to be seen in it.
ImplementsForest == Forest!Spec

\* Nobody waits for ever: no two requests wait for each other, and a request
\* that waits behind others is answered.
EveryRequestAnswered == \A r \in Requests : pc[r] # "idle" ~> pc[r] = "idle"

\* "Make this transaction the only one changing the tree until it commits."
LockExcludes ==
    \A q, r \in Requests : InTransaction(q) /\ InTransaction(r) => q = r

-----------------------------------------------------------------------------
(* Why it works: the inductive invariant behind PathsAgree and NoCycle.     *)
(* A request that found rows to lock excludes every other one that did; one *)
(* that found the table empty ("blind") can do no more than add top-level   *)
(* categories, since what else it names is gone for good.                   *)

\* The categories a request names.
Named(r) == {call[r].id, call[r].parent} \cap Ids

\* At most one request holds rows.  What it holds is closed under parents, and
\* a row it does not hold is a top-level one, committed since.
LocksInv ==
    /\ \A r \in Requests : pc[r] = "idle" => held[r] = {}
    /\ \A q, r \in Requests : q # r => held[q] = {} \/ held[r] = {}
    /\ \A r \in Requests : held[r] \subseteq Existing(rows)
    /\ \A r \in Requests : \A i \in held[r] : rows[i].parent \in held[r] \cup {None}
    /\ \A r \in Requests : held[r] # {} =>
        \A i \in Existing(rows) \ held[r] : rows[i].parent = None

\* Ids are given once, so a category that is gone stays gone.
NamedInv ==
    /\ \A i \in Existing(rows) : i <= lastId
    /\ \A r \in Requests : \A i \in Named(r) : i <= lastId
    /\ \A r \in Requests : InTransaction(r) =>
        \A i \in Named(r) : i \in held[r] \/ rows[i] = NoRow

\* What a transaction has written and not committed: rows it holds, or new rows
\* that nobody else knows of, each below one of its own.
Inserted(r, i) ==
    /\ pc[r] # "idle" /\ rows[i] = NoRow /\ i <= lastId
    /\ pending[r][i] # NoRow
    /\ pending[r][i].parent \in held[r] \cup Stored(pending[r]) \cup {None}
    /\ \A q \in Requests \ {r} : i \notin Named(q) /\ pending[q][i] = Untouched

\* Only creations follow earlier writes in a transaction (the command of
\* SeedCatalog makes many).  While somebody else holds rows they do not follow any,
\* and what was created is top level.
PendingInv ==
    /\ \A r \in Requests :
        pc[r] = "idle" \/ (pc[r] \notin {"saved", "written"} /\ call[r].op # "create")
        => pending[r] = NoWrites
    /\ \A r \in Requests, i \in Ids :
        pending[r][i] # Untouched => i \in held[r] \/ Inserted(r, i)
    /\ \A q, r \in Requests : q # r /\ held[q] # {} =>
        /\ pc[r] \in {"locked", "approved"} => pending[r] = NoWrites
        /\ \A i \in Stored(pending[r]) : pending[r][i].parent = None

\* What the checks have established, and the writes keep until the commit.
Checked(r) ==
    /\ pc[r] = "approved" /\ call[r].op = "create" =>
        /\ ~Gone(View(r), call[r].parent)
        /\ object[r] = [parent |-> call[r].parent, name |-> call[r].name,
                        ancestor_path |-> AncestorPathUnder(View(r), call[r].parent)]
    /\ pc[r] \in {"approved", "saved"} /\ call[r].op = "update" =>
        /\ object[r] # NoRow
        /\ object[r].parent \in held[r] \cup {None}
        /\ object[r].ancestor_path = AncestorPathUnder(rows, object[r].parent)
        /\ call[r].id \in held[r]
        /\ oldPrefix[r] = PathOf(rows, call[r].id)
        /\ NewPrefix(r) = oldPrefix[r] \/ ~StartsWith(object[r].ancestor_path, oldPrefix[r])
    /\ pc[r] = "approved" /\ call[r].op = "delete" =>
        Children(rows, call[r].id) = {}
    /\ pc[r] = "saved" =>
        /\ call[r].op = "update" /\ NewPrefix(r) # oldPrefix[r]
        /\ pending[r] = [NoWrites EXCEPT ![call[r].id] = object[r]]
    /\ pc[r] # "saved" => TableAgrees(View(r))

CheckedInv == \A r \in Requests : Checked(r)

IInv == TypeOK /\ PathsAgree /\ LocksInv /\ NamedInv /\ PendingInv /\ CheckedInv

-----------------------------------------------------------------------------
(* Why names, contents and the fields that were not sent are safe: what     *)
(* KeepInv adds to IInv.                                                    *)

\* A request of the API is one call of the service and one transaction.
OneCallInv == \A r \in Requests : pc[r] \notin {"saved", "written"} => pending[r] = NoWrites

\* What the unique index makes of a table.
KeysDiffer(table) ==
    \A i, j \in Existing(table) : i # j => IndexKey(table[i]) # IndexKey(table[j])

\* The index holds for everyone, whichever of the open transactions commits
\* first: no two of them have written the same key.
KeysInv ==
    /\ KeysDiffer(rows)
    /\ \A r \in Requests : KeysDiffer(View(r))
    /\ \A q, r \in Requests : q # r =>
        \A i \in Stored(pending[q]), j \in Stored(pending[r]) :
            IndexKey(pending[q][i]) # IndexKey(pending[r][j])

\* A name that was free under a category is free until it is written: whoever
\* else can commit adds top-level categories only.
FreeNameInv ==
    \A r \in Requests :
        /\ pc[r] = "approved" /\ call[r].op # "delete" /\ object[r].parent # None
        => NameIsFree(rows, object[r], call[r].id)

\* No product gets into a category whose deletion was approved or is pending.
ContentsInv ==
    /\ \A p \in Products : products[p] # None => rows[products[p]] # NoRow
    /\ \A r \in Requests :
        /\ pc[r] = "approved" /\ call[r].op = "delete" => FiledUnder(call[r].id) = {}
        /\ \A i \in Ids : pending[r][i] = NoRow => FiledUnder(i) = {}
        /\ answer[r] # "ProtectedError"

SameNode(row, other) ==
    row \notin {NoRow, Untouched} /\ row.parent = other.parent /\ row.name = other.name

\* The object an update saves: what was sent, and the row as it still is.
ObjectAsSent(r) ==
    LET row == rows[call[r].id]
    IN  /\ row # NoRow
        /\ object[r].name = IF call[r].name = Unchanged THEN row.name ELSE call[r].name
        /\ object[r].parent = IF call[r].parent = Unchanged THEN row.parent
                              ELSE call[r].parent

\* What a request commits is the change it asked for and nothing else, but for
\* the paths of other categories.
Draft(r) ==
    /\ call[r].op = "create" =>
        \E i \in Ids : /\ rows[i] = NoRow /\ object[r] # NoRow
                       /\ pending[r] = [NoWrites EXCEPT ![i] = object[r]]
    /\ call[r].op = "update" =>
        /\ SameNode(pending[r][call[r].id], object[r])
        /\ \A i \in Ids \ {call[r].id} : pending[r][i] # Untouched =>
            rows[i] # NoRow /\ SameNode(pending[r][i], rows[i])
    /\ call[r].op = "delete" =>
        /\ pending[r][call[r].id] \in {NoRow, Untouched}
        /\ \A i \in Ids \ {call[r].id} : pending[r][i] = Untouched

DraftInv ==
    \A r \in Requests :
        /\ pc[r] # "idle" => call[r] \in Calls
        /\ call[r].op = "update" =>
            /\ call[r].name = Unchanged \/ "name" \in call[r].sent
            /\ call[r].parent = Unchanged \/ "parent" \in call[r].sent
            /\ pc[r] \in {"approved", "saved", "written"} => ObjectAsSent(r)
        /\ pc[r] = "written" => Draft(r)

KeepInv == OneCallInv /\ KeysInv /\ FreeNameInv /\ ContentsInv /\ DraftInv

-----------------------------------------------------------------------------
(* Why paths fit: what FitInv adds to IInv.  An approved move has yet to    *)
(* write a path for every descendant, and each of those fits as well.       *)

WritesFit(r) ==
    /\ \A i \in Stored(pending[r]) : PathFits(pending[r][i].ancestor_path)
    /\ pc[r] = "approved" /\ call[r].op # "delete" => PathFits(object[r].ancestor_path)
    /\ pc[r] \in {"approved", "saved"} /\ call[r].op = "update" /\ NewPrefix(r) # oldPrefix[r] =>
        \A i \in UnderPath(rows, oldPrefix[r]) :
            PathFits(Rebase(rows[i].ancestor_path, oldPrefix[r], NewPrefix(r)))

FitInv == PathsFit /\ \A r \in Requests : WritesFit(r)
=============================================================================
