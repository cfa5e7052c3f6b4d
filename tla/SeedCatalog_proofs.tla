------------------------- MODULE SeedCatalog_proofs -------------------------
(***************************************************************************)
(* For every tree and assortment of the command, and any number of other   *)
(* requests and products: next to the command, which makes many calls of   *)
(* the service in one transaction, paths still agree and contents keep     *)
(* their category, and the command is safe to run repeatedly.              *)
(*                                                                         *)
(* Most steps are steps of CategoryTree, and CategoryTree_proofs shows     *)
(* that they keep IInv, KeysInv and ContentsInv; here, that the command's  *)
(* own steps do, and that every step keeps what SeedInv adds to them.      *)
(***************************************************************************)
EXTENDS SeedCatalog, CategoryTree_proofs

-----------------------------------------------------------------------------
(* The tree and the assortment                                              *)

\* TREE is a list, parents first.
LEMMA TreeFacts ==
  /\ Len(TREE) \in Nat /\ DOMAIN TREE = 1 .. Len(TREE)
  /\ \A n \in DOMAIN TREE :
        /\ n \in Nat /\ TREE[n].name \in Names
        /\ TREE[n].under \in Nat /\ TREE[n].under < n
        /\ TREE[n].under # 0 => TREE[n].under \in DOMAIN TREE
<1>1. Len(TREE) \in Nat /\ DOMAIN TREE = 1 .. Len(TREE)
  BY TreeAssumption
<1>2. ASSUME NEW n \in DOMAIN TREE
      PROVE  TREE[n].name \in Names /\ TREE[n].under \in 0 .. Len(TREE) /\ TREE[n].under < n
  <2>1. TREE[n] \in [name : Names, under : 0 .. Len(TREE)]
    BY <1>1, TreeAssumption, ElementOfSeq
  <2> QED
    BY <2>1, TreeAssumption
<1> QED
  BY <1>1, <1>2

\* PRODUCTS is a list, and every SKU is in it once.
LEMMA ProductFacts ==
  /\ Len(PRODUCTS) \in Nat /\ DOMAIN PRODUCTS = 1 .. Len(PRODUCTS)
  /\ \A n \in DOMAIN PRODUCTS :
        n \in Nat /\ PRODUCTS[n].sku \in Products /\ PRODUCTS[n].category \in DOMAIN TREE
<1>1. Len(PRODUCTS) \in Nat /\ DOMAIN PRODUCTS = 1 .. Len(PRODUCTS)
  BY ProductsAssumption
<1>2. ASSUME NEW n \in DOMAIN PRODUCTS
      PROVE  PRODUCTS[n].sku \in Products /\ PRODUCTS[n].category \in DOMAIN TREE
  <2>1. PRODUCTS[n] \in [sku : Products, category : DOMAIN TREE]
    BY <1>1, ProductsAssumption, ElementOfSeq
  <2> QED
    BY <2>1
<1> QED
  BY <1>1, <1>2

\* The paths of TREE fit their column.
LEMMA DepthFacts ==
  ASSUME NEW n \in DOMAIN TREE
  PROVE  /\ Depth[n] \in Nat
         /\ TREE[n].under # 0 => Depth[TREE[n].under] \in Nat /\ Depth[TREE[n].under] < Depth[n]
         /\ \A path \in Seq(Ids) : Len(path) <= Depth[n] => PathFits(path)
<1>1. Depth \in FittingDepths
  BY DepthAssumption DEF Depth
<1>2. /\ Depth \in [DOMAIN TREE -> 0 .. Len(TREE)]
      /\ TREE[n].under # 0 => Depth[TREE[n].under] < Depth[n]
      /\ \A k \in 0 .. Depth[n] : \A path \in [1 .. k -> Ids] : PathFits(path)
  BY <1>1 DEF FittingDepths
<1>3. Depth[n] \in Nat /\ (TREE[n].under # 0 => Depth[TREE[n].under] \in Nat)
  BY <1>2, TreeFacts
<1>4. ASSUME NEW path \in Seq(Ids), Len(path) <= Depth[n]
      PROVE  PathFits(path)
  <2>1. Len(path) \in 0 .. Depth[n] /\ path \in [1 .. Len(path) -> Ids]
    BY <1>3, <1>4, LenProperties
  <2> QED
    BY <1>2, <2>1
<1> QED
  BY <1>2, <1>3, <1>4

-----------------------------------------------------------------------------
(* What the command has found                                               *)

\* What is found are ids, in the order of TREE.
LEMMA CreatedFacts ==
  ASSUME SeedTypeOK
  PROVE  /\ Len(created) \in Nat /\ DOMAIN created = 1 .. Len(created)
         /\ \A n \in DOMAIN created :
                n \in DOMAIN TREE /\ created[n] \in Ids /\ Under(created, n) \in Ids \cup {None}
         /\ ~Walked => /\ Len(created) + 1 \in DOMAIN TREE
                       /\ Under(created, Len(created) + 1) \in Ids \cup {None}
                       /\ \A i \in Ids : /\ Append(created, i) \in Seq(Ids)
                                         /\ Len(Append(created, i)) <= Len(TREE)
<1>1. /\ created \in Seq(Ids) /\ Len(created) \in Nat /\ DOMAIN created = 1 .. Len(created)
      /\ Len(created) <= Len(TREE) /\ \A n \in DOMAIN created : created[n] \in Ids
  BY DEF SeedTypeOK
<1>2. ASSUME NEW n \in DOMAIN TREE, n <= Len(created) + 1
      PROVE  Under(created, n) \in Ids \cup {None}
  <2>1. TREE[n].under # 0 => TREE[n].under \in DOMAIN created
    BY <1>1, <1>2, TreeFacts
  <2> QED
    BY <1>1, <2>1 DEF Under
<1>3. \A n \in DOMAIN created : n \in DOMAIN TREE /\ n <= Len(created) + 1
  BY <1>1, TreeFacts
<1>4. ASSUME ~Walked PROVE Len(created) + 1 \in DOMAIN TREE /\ Len(created) + 1 <= Len(TREE)
  <2>1. PICK m : m = Len(created)
    OBVIOUS
  <2>2. PICK k : k = Len(TREE)
    OBVIOUS
  <2> QED
    BY <1>1, <1>4, <2>1, <2>2, TreeFacts DEF Walked
<1>5. \A i \in Ids : Append(created, i) \in Seq(Ids)
                   /\ Len(Append(created, i)) = Len(created) + 1
  BY <1>1
<1> QED
  BY <1>1, <1>2, <1>3, <1>4, <1>5

\* The next one is appended.
LEMMA AppendFacts ==
  ASSUME SeedTypeOK, NEW i \in Ids, created' = Append(created, i)
  PROVE  /\ Len(created)' = Len(created) + 1
         /\ DOMAIN created' = DOMAIN created \cup {Len(created) + 1}
         /\ created'[Len(created) + 1] = i /\ Len(created) + 1 \notin DOMAIN created
         /\ \A n \in DOMAIN created : created'[n] = created[n]
BY DEF SeedTypeOK

\* The parents of what was found do not change with the next one.
LEMMA UnderAppend ==
  ASSUME SeedTypeOK, NEW i \in Ids, created' = Append(created, i),
         NEW n \in DOMAIN TREE, n <= Len(created) + 1
  PROVE  Under(created', n) = Under(created, n)
<1>1. TREE[n].under # 0 => TREE[n].under \in DOMAIN created
  BY CreatedFacts, TreeFacts
<1> QED
  BY <1>1, AppendFacts DEF Under

-----------------------------------------------------------------------------
(* What one step of a request can change                                    *)

\* The steps in which the API's requests, and mostly the command, take part.
StepOf(r) ==
    \/ RequestCreate(r) \/ RequestUpdate(r) \/ RequestDelete(r)
    \/ Serve(r) \/ Abort(r)

\* A step of one request changes nothing of another, and no product.
LEMMA StepFrame ==
  ASSUME TypeOK, NEW r \in Requests, StepOf(r)
  PROVE  /\ products' = products /\ lastId' \in {lastId, lastId + 1}
         /\ rows' = rows \/ (Commit(r) /\ rows' = View(r))
         /\ \A q \in Requests \ {r} : SameRequest(q) /\ answer'[q] = answer[q]
<1> DEFINE Frame == \A q \in Requests \ {r} : SameRequest(q) /\ answer'[q] = answer[q]
<1>1. ASSUME NEW x, EndRequest(r, x) PROVE Frame
  BY <1>1 DEF EndRequest, SameRequest, TypeOK
<1>2. ASSUME NEW w, NEW next, Write(r, w, next) PROVE Frame
  BY <1>1, <1>2 DEF Write, SameRequest, TypeOK
<1>3. ASSUME NEW request, Receive(r, request) PROVE Frame /\ UNCHANGED tables
  BY <1>3 DEF Receive, SameRequest, TypeOK
<1>4. CASE RequestCreate(r) \/ RequestUpdate(r) \/ RequestDelete(r)
  BY <1>3, <1>4 DEF RequestCreate, RequestUpdate, RequestDelete, tables
<1>5. CASE LockTree(r)
  BY <1>5 DEF LockTree, SameRequest, TypeOK, tables
<1>6. CASE CheckCreate(r)
  BY <1>1, <1>6 DEF CheckCreate, Refuse, SameRequest, TypeOK, tables
<1>7. CASE CheckUpdate(r)
  BY <1>1, <1>7 DEF CheckUpdate, Refuse, SameRequest, TypeOK, tables
<1>8. CASE CheckDelete(r)
  BY <1>1, <1>8 DEF CheckDelete, Refuse, SameRequest, TypeOK, tables
<1>9. CASE Insert(r)
  BY <1>1, <1>2, <1>9 DEF Insert, Refuse, tables
<1>10. CASE SaveRow(r)
  BY <1>2, <1>10 DEF SaveRow, tables
<1>11. CASE RewriteDescendants(r)
  BY <1>2, <1>11 DEF RewriteDescendants, tables
<1>12. CASE DeleteRow(r)
  BY <1>1, <1>2, <1>12 DEF DeleteRow, tables
<1>13. CASE Commit(r)
  BY <1>1, <1>13 DEF Commit
<1>14. CASE Abort(r)
  BY <1>1, <1>14 DEF Abort, Refuse, tables
<1> QED
  BY <1>4, <1>5, <1>6, <1>7, <1>8, <1>9, <1>10, <1>11, <1>12, <1>13, <1>14
  DEF StepOf, Serve

\* A statement writes rows its transaction has locked, or one new row.
LEMMA WriteLocks ==
  ASSUME IInv, IInv', NEW r \in Requests, NEW w \in Writes, NEW next, Write(r, w, next),
         rows' = rows,
         \A i \in Ids : w[i] # Untouched => rows[i] # NoRow \/ i = lastId + 1
  PROVE  \/ held'[r] = {} /\ pending'[r] = NoWrites
         \/ /\ held'[r] = held[r]
            /\ \A i \in Ids : pending'[r][i] # Untouched =>
                  pending[r][i] # Untouched \/ i \in held[r] \/ i = lastId + 1
<1> USE DEF IInv
<1>1. CASE EndRequest(r, "IntegrityError")
  BY <1>1 DEF EndRequest, TypeOK
<1>2. CASE /\ pending' = [pending EXCEPT ![r] = Written(@, w)]
           /\ held' = held
  <2>1. \A i \in Ids : pending'[r][i] = IF w[i] = Untouched THEN pending[r][i] ELSE w[i]
    BY <1>2 DEF TypeOK, Written
  <2>2. \A i \in Ids : pending'[r][i] # Untouched => i \in held'[r] \/ rows[i] = NoRow
    BY DEF PendingInv, Inserted
  <2> QED
    BY <1>2, <2>1, <2>2
<1> QED
  BY <1>1, <1>2 DEF Write

\* What a request locks exclusively grows by all the rows there are when it locks the
\* tree, and else only by a row that it inserts.
LEMMA LocksGrow ==
  ASSUME IInv, IInv', NEW r \in Requests, StepOf(r)
  PROVE  \/ held'[r] = {} /\ pending'[r] = NoWrites
         \/ LockTree(r) /\ held'[r] = Existing(rows) /\ pending' = pending
         \/ /\ held'[r] = held[r]
            /\ \A i \in Ids : pending'[r][i] # Untouched =>
                  pending[r][i] # Untouched \/ i \in held[r] \/ i = lastId + 1
<1> DEFINE Ended == held'[r] = {} /\ pending'[r] = NoWrites
           Grown == /\ held'[r] = held[r]
                    /\ \A i \in Ids : pending'[r][i] # Untouched =>
                          pending[r][i] # Untouched \/ i \in held[r] \/ i = lastId + 1
<1> USE DEF IInv
<1>1. ASSUME NEW x, EndRequest(r, x) PROVE Ended
  BY <1>1 DEF EndRequest, TypeOK
<1>2. CASE held' = held /\ pending' = pending
  BY <1>2
<1>3. CASE RequestCreate(r) \/ RequestUpdate(r) \/ RequestDelete(r)
  BY <1>2, <1>3 DEF RequestCreate, RequestUpdate, RequestDelete, Receive
<1>4. CASE LockTree(r)
  BY <1>4 DEF LockTree, TypeOK
<1>5. CASE CheckCreate(r) \/ CheckUpdate(r) \/ CheckDelete(r)
  BY <1>1, <1>2, <1>5 DEF CheckCreate, CheckUpdate, CheckDelete, Refuse
<1>6. CASE Insert(r)
  <2> DEFINE w == [NoWrites EXCEPT ![lastId + 1] = object[r]]
  <2>1. CASE EndRequest(r, "OperationalError")
    BY <1>1, <2>1
  <2>2. CASE Write(r, w, "written") /\ lastId < LastId
    <3>1. /\ lastId + 1 \in Ids /\ object[r] \in Row /\ w \in Writes /\ rows' = rows
      BY <1>6, <2>2, InsertFacts DEF Insert, Refuse, tables
    <3>2. \A i \in Ids : w[i] # Untouched => i = lastId + 1
      BY <3>1, OneWrite
    <3> HIDE DEF w
    <3> QED
      BY <2>2, <3>1, <3>2, WriteLocks
  <2> QED
    BY <1>6, <2>1, <2>2 DEF Insert, Refuse
<1>7. CASE SaveRow(r)
  <2> DEFINE w == [NoWrites EXCEPT ![call[r].id] = object[r]]
  <2>1. /\ call[r].id \in Existing(rows) /\ call[r].id \in Ids /\ object[r] \in Row
        /\ w \in Writes /\ rows' = rows /\ \E next : Write(r, w, next)
    BY <1>7, SaveFacts DEF SaveRow, tables
  <2>2. \A i \in Ids : w[i] # Untouched => rows[i] # NoRow
    BY <2>1, OneWrite DEF Existing
  <2> HIDE DEF w
  <2> QED
    BY <2>1, <2>2, WriteLocks
<1>8. CASE RewriteDescendants(r)
  <2> DEFINE w == Rewritten(View(r), oldPrefix[r], NewPrefix(r))
  <2>1. /\ pc[r] = "saved" /\ Write(r, w, "written") /\ rows' = rows
    BY <1>8 DEF RewriteDescendants, tables
  <2>2. /\ w \in Writes /\ View(r) = [rows EXCEPT ![call[r].id] = object[r]]
        /\ \A i \in Ids : w[i] # Untouched => View(r)[i] \in Row
        /\ call[r].id \in Existing(rows)
    BY <2>1, RewriteFacts, SaveFacts
  <2> HIDE DEF w
  <2>3. \A i \in Ids : w[i] # Untouched => rows[i] # NoRow
    BY <2>2, IdsFacts, Types DEF Existing, Tables
  <2> QED
    BY <2>1, <2>2, <2>3, WriteLocks
<1>9. CASE DeleteRow(r)
  <2> DEFINE c == call[r].id
             w == [NoWrites EXCEPT ![c] = IF View(r)[c] = NoRow THEN Untouched ELSE NoRow]
  <2>1. CASE EndRequest(r, "ProtectedError")
    BY <1>1, <2>1
  <2>2. CASE Write(r, w, "written")
    <3>1. rows' = rows /\ c \in Ids /\ View(r) = rows /\ w \in Writes
      BY <1>9, DeleteFacts DEF DeleteRow, tables
    <3>2. \A i \in Ids : w[i] # Untouched => rows[i] # NoRow
      BY <3>1 DEF NoWrites
    <3> HIDE DEF w
    <3> QED
      BY <2>2, <3>1, <3>2, WriteLocks
  <2> QED
    BY <1>9, <2>1, <2>2 DEF DeleteRow
<1>10. CASE Commit(r) \/ Abort(r)
  BY <1>1, <1>10 DEF Commit, Abort, Refuse
<1> QED
  BY <1>3, <1>4, <1>5, <1>6, <1>7, <1>8, <1>9, <1>10 DEF StepOf, Serve

-----------------------------------------------------------------------------
(* The steps, by what they change                                           *)

\* A step of another request; if it locks the tree, no foreign key of the command
\* has locked a row of it.
OthersServed(r) ==
    /\ StepOf(r) /\ OtherStep
    /\ LockTree(r) => ReferredTo \cap Existing(rows) = {}

\* A product that the command has not written is filed or removed.
ProductServed(p) ==
    /\ p \notin LockedProducts /\ OtherStep
    /\ RemoveProduct(p) \/ \E c \in Ids : FileProduct(p, c)

\* The transaction of the command is over.
SeedEnds ==
    /\ pc'[Seed] = "idle" /\ call'[Seed] = NoCall /\ pending'[Seed] = NoWrites
    /\ created' = <<>> /\ filed' = 0 /\ alone' = TRUE

\* The steps, and what they are to CategoryTree.
LEMMA SeedSteps ==
  ASSUME SeedTypeOK, [SeedNext]_seedVars
  PROVE  \/ Start \/ LookUp \/ Create \/ File \/ SeedCommit \/ SeedAbort
         \/ \E r \in Others : OthersServed(r)
         \/ \E p \in Products : ProductServed(p)
         \/ UNCHANGED seedVars
<1>1. \A r \in Requests : Abort(r) => ~LockTree(r)
  BY DEF Abort, LockTree, Refuse, EndRequest, tables, SeedTypeOK, TypeOK
<1>2. ASSUME NEW r \in Requests, OtherServe(r) \/ OtherRequest(r)
      PROVE  r \in Others /\ OthersServed(r)
  <2>1. CASE OtherServe(r)
    BY <2>1 DEF OtherServe, OthersServed, StepOf, LockTree
  <2>2. CASE OtherRequest(r)
    <3>1. ~LockTree(r)
      BY <2>2, <1>1 DEF OtherRequest, LockTree, RequestCreate, RequestUpdate, RequestDelete,
         Receive
    <3> QED
      BY <2>2, <3>1 DEF OtherRequest, OthersServed, StepOf
  <2> QED
    BY <1>2, <2>1, <2>2
<1>3. ASSUME NEW p \in Products, OtherProduct(p) PROVE ProductServed(p)
  BY <1>3 DEF OtherProduct, ProductServed
<1> QED
  BY <1>2, <1>3 DEF SeedNext

\* Where the transaction ends, the progress is forgotten.
LEMMA EndsFacts ==
  ASSUME TypeOK, NEW x, EndRequest(Seed, x), NEW cats, NEW n, SeedStep(cats, n)
  PROVE  SeedEnds
BY SeedAssumption DEF TypeOK, EndRequest, SeedStep, SeedEnds

\* A step of CategoryTree keeps what the theorems on it rest on.
LEMMA TreeStep ==
  ASSUME IInv, KeysInv, ContentsInv, [Next]_vars
  PROVE  IInv' /\ KeysInv' /\ ContentsInv'
BY StepKeeps, KeysKept, ContentsKept

\* A step that leaves the tables and the writes alone.
LEMMA QuietStep ==
  ASSUME IInv, KeysInv, ContentsInv, UNCHANGED <<rows, products, pending>>,
         NEW r \in Requests, pc'[r] \in {"waiting", "written"}, answer'[r] \in {"none", answer[r]},
         \A q \in Requests \ {r} : SameRequest(q) /\ answer'[q] = answer[q]
  PROVE  KeysInv' /\ ContentsInv'
<1>1. KeysInv'
  BY DEF KeysInv, View
<1>2. \A q \in Requests : answer'[q] # "ProtectedError"
  BY DEF ContentsInv
<1>3. \A q \in Requests : pc'[q] = "approved" => q # r /\ SameRequest(q)
  OBVIOUS
<1> QED
  BY <1>1, <1>2, <1>3, ContentsQuiet DEF SameRequest

\* The command begins its transaction.
LEMMA StartFacts ==
  ASSUME SeedInv, Start
  PROVE  /\ UNCHANGED <<rows, products, pending, call, held, lastId>>
         /\ pc'[Seed] = "written" /\ answer'[Seed] = "none" /\ created' = <<>> /\ filed' = 0
         /\ UNCHANGED alone /\ pc[Seed] = "idle" /\ call[Seed] = NoCall
         /\ \A q \in Requests \ {Seed} : SameRequest(q) /\ answer'[q] = answer[q]
         /\ IInv' /\ KeysInv' /\ ContentsInv'
<1> USE DEF SeedInv, IInv
<1>1. /\ UNCHANGED <<rows, products, pending, call, held, lastId>>
      /\ pc'[Seed] = "written" /\ answer'[Seed] = "none" /\ created' = <<>> /\ filed' = 0
      /\ UNCHANGED alone /\ pc[Seed] = "idle" /\ call[Seed] = NoCall
      /\ \A q \in Requests \ {Seed} : SameRequest(q) /\ answer'[q] = answer[q]
  BY SeedAssumption DEF Start, tables, SeedStep, TypeOK, SameRequest, StageInv
<1>2. TypeOK'
  BY DEF Start, tables, TypeOK, Results
<1>3. Named(Seed)' = {}
  BY <1>1, IdsFacts DEF Named, NoCall
<1>4. IInv'
  BY <1>1, <1>2, <1>3, AskKeeps, SeedAssumption
<1>5. KeysInv' /\ ContentsInv'
  BY <1>1, QuietStep, SeedAssumption
<1> QED
  BY <1>1, <1>4, <1>5

\* The look-up finds the next category, or one is asked for.
FoundOne ==
    /\ UNCHANGED vars /\ pc[Seed] = "written" /\ ~Walked
    /\ \E i \in NamedBelow(View(Seed), Under(created, Len(created) + 1),
                           TREE[Len(created) + 1].name) :
        i \in Ids /\ created' = Append(created, i)
    /\ filed' = 0 /\ UNCHANGED alone

AskedForOne ==
    /\ pc[Seed] = "written" /\ ~Walked /\ pc'[Seed] = "waiting"
    /\ NamedBelow(View(Seed), Under(created, Len(created) + 1),
                  TREE[Len(created) + 1].name) = {}
    /\ call'[Seed] = [op |-> "create", id |-> None, sent |-> Fields,
                      name |-> TREE[Len(created) + 1].name,
                      parent |-> Under(created, Len(created) + 1)]
    /\ UNCHANGED <<rows, products, lastId, held, pending>>
    /\ \A q \in Requests \ {Seed} : SameRequest(q) /\ answer'[q] = answer[q]
    /\ created' = created /\ filed' = 0 /\ UNCHANGED alone

\* The two outcomes of a look-up.
LEMMA LookUpFacts ==
  ASSUME SeedInv, LookUp
  PROVE  (FoundOne \/ AskedForOne) /\ IInv' /\ KeysInv' /\ ContentsInv'
<1> DEFINE entry  == TREE[Len(created) + 1]
           parent == Under(created, Len(created) + 1)
           found  == NamedBelow(View(Seed), parent, entry.name)
           request == [op |-> "create", id |-> None, sent |-> Fields,
                       name |-> entry.name, parent |-> parent]
<1> USE DEF SeedInv, IInv
<1>1. pc[Seed] = "written" /\ ~Walked /\ Seed \in Requests
  BY SeedAssumption DEF LookUp
<1>2. \A i \in found : i \in Ids
  BY DEF NamedBelow, Children, Existing
<1>3. CASE found # {}
  <2>1. UNCHANGED vars /\ \E i \in found : SeedStep(Append(created, i), 0)
    BY <1>3 DEF LookUp
  <2>2. pc' = pc
    BY <2>1 DEF vars, locals
  <2>3. FoundOne
    BY <1>1, <1>2, <2>1, <2>2 DEF FoundOne, SeedStep
  <2> QED
    BY <2>1, <2>3, TreeStep
<1>4. CASE found = {}
  <2>1. /\ pc' = [pc EXCEPT ![Seed] = "waiting"] /\ call' = [call EXCEPT ![Seed] = request]
        /\ UNCHANGED <<tables, object, oldPrefix, held, pending, answer>>
        /\ SeedStep(created, 0)
    BY <1>4 DEF LookUp
  <2>2. request \in Calls
    BY <1>1, CreatedFacts, TreeFacts DEF Calls
  <2> HIDE DEF request, found
  <2>3. /\ pc'[Seed] = "waiting" /\ call'[Seed] = request
        /\ \A q \in Requests \ {Seed} : SameRequest(q) /\ answer'[q] = answer[q]
    BY <1>1, <2>1 DEF TypeOK, SameRequest
  <2>4. AskedForOne
    BY <1>1, <1>4, <2>1, <2>3 DEF AskedForOne, SeedStep, tables, request, found
  <2>5. TypeOK'
    BY <1>1, <2>1, <2>2 DEF TypeOK, tables
  <2>6. ASSUME NEW i \in Named(Seed)'
        PROVE  /\ i <= lastId
               /\ \A q \in Requests \ {Seed} : pending[q][i] = Untouched \/ rows[i] # NoRow
    <3>1. i \in Ids /\ i = parent
      BY <2>3, <2>6, IdsFacts DEF Named, request
    <3>2. PICK n \in DOMAIN created : i = created[n]
      BY <1>1, <3>1, CreatedFacts, TreeFacts, IdsFacts DEF Under
    <3>3. i <= lastId /\ \A q \in Others : pending[q][i] # Untouched => i \in held[q]
      BY <3>2 DEF FoundInv
    <3>4. \A q \in Requests : held[q] \subseteq Existing(rows)
      BY DEF LocksInv
    <3> QED
      BY <3>3, <3>4 DEF Others, Existing
  <2>7. IInv'
    BY <1>1, <2>1, <2>3, <2>5, <2>6, AskKeeps DEF tables, request
  <2>8. KeysInv' /\ ContentsInv'
    BY <1>1, <2>1, <2>3, QuietStep DEF tables
  <2> QED
    BY <2>4, <2>7, <2>8
<1> QED
  BY <1>3, <1>4

\* The id that AUTO_INCREMENT gives next has never been used.
LEMMA NextId ==
  ASSUME IInv, lastId < LastId
  PROVE  /\ lastId + 1 \in Ids /\ ~(lastId + 1 <= lastId) /\ rows[lastId + 1] = NoRow
         /\ \A q \in Requests : pending[q][lastId + 1] = Untouched
<1> USE DEF IInv
<1>1. lastId + 1 \in Ids /\ ~(lastId + 1 <= lastId)
  BY IdsAssumption DEF TypeOK, Ids
<1> DEFINE c == lastId + 1
<1> HIDE DEF c
<1>2. rows[c] = NoRow
  BY <1>1 DEF NamedInv, Existing, c
<1>3. \A q \in Requests : pending[q][c] = Untouched
  BY <1>1, <1>2 DEF PendingInv, Inserted, LocksInv, Existing, c
<1> QED
  BY <1>1, <1>2, <1>3 DEF c

\* A call of the service by the command: the rows are locked, the creation is
\* approved, the row is inserted, or the command is over.
GoesOn(next) ==
    /\ pc'[Seed] = next /\ UNCHANGED <<rows, products, pending, call, lastId>>
    /\ created' = created /\ filed' = 0

InsertsOne ==
    /\ pc[Seed] = "approved" /\ lastId < LastId /\ pc'[Seed] = "written"
    /\ rows' = rows /\ products' = products /\ lastId' = lastId + 1
    /\ View(Seed)[lastId + 1] = NoRow
    /\ View(Seed)' = [View(Seed) EXCEPT ![lastId + 1] = object[Seed]]
    /\ \A i \in Ids : pending'[Seed][i] = IF i = lastId + 1 THEN object[Seed]
                                          ELSE pending[Seed][i]
    /\ created' = Append(created, lastId + 1) /\ filed' = 0

\* The verdict of CheckCreate.
SeedVerdict ==
    CreateVerdict(View(Seed), call[Seed],
                  [parent |-> call[Seed].parent, name |-> call[Seed].name,
                   ancestor_path |-> AncestorPathUnder(View(Seed), call[Seed].parent)])

\* The write of Insert.
SeedWrite == [NoWrites EXCEPT ![lastId + 1] = object[Seed]]

\* How the command's transaction ends before its commit.
SeedFails ==
    /\ SeedEnds /\ rows' = rows /\ products' = products
    /\ \/ answer'[Seed] = "OperationalError"
       \/ pc[Seed] = "locked" /\ SeedVerdict # "ok"
       \/ /\ pc[Seed] = "approved" /\ lastId < LastId
          /\ ~ConstraintsHold(Written(View(Seed), SeedWrite), SeedWrite)
       \/ pc[Seed] = "written" /\ Walked /\ filed + 1 \in DOMAIN PRODUCTS /\ CategoryMissing(filed + 1)

\* Locking the rows is as it is for any request.
LEMMA SeedLocks ==
  ASSUME SeedInv, LockTree(Seed), SeedStep(created, 0)
  PROVE  pc[Seed] = "waiting" /\ GoesOn("locked") /\ UNCHANGED alone
BY SeedAssumption DEF SeedInv, SeedTypeOK, TypeOK, LockTree, SeedStep, tables, GoesOn

\* The check of the creation.
LEMMA SeedChecks ==
  ASSUME SeedInv, CheckCreate(Seed), SeedStep(created, 0)
  PROVE  \/ SeedFails
         \/ pc[Seed] = "locked" /\ GoesOn("approved") /\ UNCHANGED alone
<1> DEFINE row == [parent |-> call[Seed].parent, name |-> call[Seed].name,
                   ancestor_path |-> AncestorPathUnder(View(Seed), call[Seed].parent)]
<1> USE DEF SeedInv, SeedTypeOK
<1>1. pc[Seed] = "locked" /\ SeedVerdict = CreateVerdict(View(Seed), call[Seed], row)
  BY DEF CheckCreate, SeedVerdict
<1>2. CASE SeedVerdict # "ok"
  <2>1. EndRequest(Seed, SeedVerdict) /\ UNCHANGED tables
    BY <1>1, <1>2 DEF CheckCreate, Refuse
  <2>2. SeedEnds
    BY <2>1, EndsFacts
  <2> QED
    BY <1>1, <1>2, <2>1, <2>2 DEF SeedFails, tables
<1>3. CASE SeedVerdict = "ok"
  <2>1. pc' = [pc EXCEPT ![Seed] = "approved"] /\ UNCHANGED <<tables, call, pending>>
    BY <1>1, <1>3 DEF CheckCreate
  <2> QED
    BY <1>1, <2>1, SeedAssumption DEF TypeOK, SeedStep, tables, GoesOn
<1> QED
  BY <1>2, <1>3

\* The INSERT.
LEMMA SeedInserts ==
  ASSUME SeedInv, Insert(Seed), SeedStep(Append(created, lastId'), 0)
  PROVE  SeedFails \/ (InsertsOne /\ UNCHANGED alone)
<1> USE DEF SeedInv, SeedTypeOK
<1>1. pc[Seed] = "approved" /\ call[Seed].op = "create" /\ Seed \in Requests
  BY SeedAssumption DEF Insert
<1>2. CASE ~(lastId < LastId)
  <2>1. EndRequest(Seed, "OperationalError") /\ UNCHANGED tables
    BY <1>2 DEF Insert, Refuse
  <2>2. SeedEnds /\ answer'[Seed] = "OperationalError"
    BY <1>1, <2>1, EndsFacts DEF EndRequest, TypeOK, IInv
  <2> QED
    BY <2>1, <2>2 DEF SeedFails, tables
<1>3. CASE lastId < LastId
  <2>1. /\ Write(Seed, SeedWrite, "written") /\ lastId' = lastId + 1
        /\ rows' = rows /\ products' = products
    BY <1>3 DEF Insert, SeedWrite
  <2>2. CASE ConstraintsHold(Written(View(Seed), SeedWrite), SeedWrite)
    <3>1. /\ pending' = [pending EXCEPT ![Seed] = Written(@, SeedWrite)]
          /\ pc' = [pc EXCEPT ![Seed] = "written"]
      BY <2>1, <2>2 DEF Write
    <3>2. /\ pending'[Seed] = Written(pending[Seed], SeedWrite)
          /\ pc'[Seed] = "written"
      BY <1>1, <3>1 DEF TypeOK
    <3>3. /\ lastId + 1 \in Ids /\ rows[lastId + 1] = NoRow
          /\ pending[Seed][lastId + 1] = Untouched /\ object[Seed] \in Row
      <4>1. object[Seed] \in Row
        BY <1>1, <1>3, InsertFacts
      <4> QED
        BY <1>1, <1>3, <4>1, NextId
    <3>4. /\ SeedWrite \in Writes /\ SeedWrite[lastId + 1] = object[Seed]
          /\ \A i \in Ids \ {lastId + 1} : SeedWrite[i] = Untouched
          /\ \A T \in Tables : Written(T, SeedWrite) = [T EXCEPT ![lastId + 1] = object[Seed]]
      <4>1. SeedWrite \in Writes /\ SeedWrite[lastId + 1] = object[Seed]
        BY <3>3, IdsFacts DEF SeedWrite, NoWrites, Writes
      <4>2. \A i \in Ids \ {lastId + 1} : SeedWrite[i] = Untouched
        BY <3>3, OneWrite DEF SeedWrite
      <4>3. ASSUME NEW T \in Tables
            PROVE  Written(T, SeedWrite) = [T EXCEPT ![lastId + 1] = object[Seed]]
        BY <3>3, WriteOne DEF SeedWrite
      <4> QED
        BY <4>1, <4>2, <4>3
    <3>5. /\ rows \in Tables /\ pending[Seed] \in Writes /\ View(Seed) \in Tables
      BY <1>1, Types
    <3>6. View(Seed)' = Written(View(Seed), SeedWrite)
      BY <2>1, <3>2, <3>4, <3>5, WrittenTwice DEF View
    <3>7. View(Seed)[lastId + 1] = NoRow
      BY <3>3 DEF View, Written
    <3>8. \A i \in Ids : pending'[Seed][i] = IF i = lastId + 1 THEN object[Seed]
                                            ELSE pending[Seed][i]
      BY <3>2, <3>3, <3>4, IdsFacts DEF Written
    <3>9. /\ created' = Append(created, lastId + 1) /\ filed' = 0
          /\ UNCHANGED alone
      BY <2>1, <3>2 DEF SeedStep
    <3>10. View(Seed)' = [View(Seed) EXCEPT ![lastId + 1] = object[Seed]]
      BY <3>4, <3>5, <3>6
    <3> QED
      BY <1>1, <1>3, <2>1, <3>2, <3>7, <3>8, <3>9, <3>10 DEF InsertsOne
  <2>3. CASE ~ConstraintsHold(Written(View(Seed), SeedWrite), SeedWrite)
    <3>1. EndRequest(Seed, "IntegrityError")
      BY <2>1, <2>3 DEF Write
    <3>2. SeedEnds
      BY <3>1, EndsFacts
    <3> QED
      BY <1>1, <1>3, <2>1, <2>3, <3>2 DEF SeedFails
  <2> QED
    BY <2>2, <2>3
<1> QED
  BY <1>2, <1>3

\* Lost connections and deadlocks.
LEMMA SeedAborts ==
  ASSUME SeedInv, SeedAbort
  PROVE  SeedFails
<1>1. EndRequest(Seed, "OperationalError") /\ UNCHANGED tables
  BY DEF SeedAbort, Abort, Refuse
<1>2. SeedEnds
  BY <1>1, EndsFacts DEF SeedAbort, SeedInv, SeedTypeOK
<1>3. answer'[Seed] = "OperationalError"
  BY <1>1, SeedAssumption DEF EndRequest, SeedInv, SeedTypeOK, TypeOK
<1> QED
  BY <1>1, <1>2, <1>3 DEF SeedFails, tables

\* A category of the assortment.
LEMMA TargetFacts ==
  ASSUME SeedTypeOK, Walked, NEW n \in DOMAIN PRODUCTS
  PROVE  /\ PRODUCTS[n].category \in DOMAIN created /\ Target(n) \in Ids
         /\ PRODUCTS[n].sku \in Products
<1>1. PRODUCTS[n].category \in DOMAIN created
  BY CreatedFacts, TreeFacts, ProductFacts DEF Walked
<1> QED
  BY <1>1, CreatedFacts, ProductFacts DEF Target

\* A product is written, in a category that is there and that the foreign key locks.
FilesOne ==
    /\ UNCHANGED vars /\ pc[Seed] = "written" /\ Walked /\ created' = created
    /\ filed' = filed + 1 /\ filed + 1 \in DOMAIN PRODUCTS
    /\ ~CategoryMissing(filed + 1)
    /\ products[PRODUCTS[filed + 1].sku] # Target(filed + 1) =>
        \A q \in Requests \ {Seed} : Target(filed + 1) \notin Exclusive(q)
    /\ UNCHANGED alone

\* A product is written, or the foreign key ends the command.
LEMMA FileFacts ==
  ASSUME SeedInv, File
  PROVE  (FilesOne \/ SeedFails) /\ IInv' /\ KeysInv' /\ ContentsInv'
<1> USE DEF SeedInv, SeedTypeOK
<1>1. /\ pc[Seed] = "written" /\ Walked /\ filed + 1 \in DOMAIN PRODUCTS /\ Seed \in Requests
      /\ products[PRODUCTS[filed + 1].sku] # Target(filed + 1) =>
            \A q \in Requests \ {Seed} : Target(filed + 1) \notin Exclusive(q)
      /\ SeedStep(created, filed + 1)
  BY SeedAssumption DEF File
<1>2. CASE CategoryMissing(filed + 1)
  <2>1. EndRequest(Seed, "IntegrityError") /\ UNCHANGED tables
    BY <1>2 DEF File, Refuse
  <2>2. SeedEnds
    BY <1>1, <2>1, EndsFacts
  <2>3. IInv'
    BY <1>1, <2>1, EndKeeps, IdsAssumption DEF tables, Results, IInv, TypeOK
  <2>4. KeysInv'
    BY <1>1, <2>1, KeysDrop DEF Dropped, EndRequest, tables
  <2>5. ContentsInv'
    BY <1>1, <2>1, ContentsEnd DEF tables
  <2> QED
    BY <1>1, <1>2, <2>1, <2>2, <2>3, <2>4, <2>5 DEF SeedFails, tables
<1>3. CASE ~CategoryMissing(filed + 1)
  <2>1. UNCHANGED vars
    BY <1>3 DEF File
  <2>2. pc' = pc
    BY <2>1 DEF vars, locals
  <2>3. FilesOne
    BY <1>1, <1>3, <2>1, <2>2 DEF FilesOne, SeedStep
  <2> QED
    BY <2>1, <2>3, TreeStep
<1> QED
  BY <1>2, <1>3

\* The end of the transaction: every product is in its category.
CommitsAll ==
    /\ Commits(Seed) /\ SeedEnds /\ Walked /\ Filed = DOMAIN PRODUCTS
    /\ products' \in [Products -> Ids \cup {None}]
    /\ \A n \in DOMAIN PRODUCTS : products'[PRODUCTS[n].sku] = Target(n)
    /\ \A p \in Products :
        (\A n \in DOMAIN PRODUCTS : PRODUCTS[n].sku # p) => products'[p] = products[p]

\* The commit of the command.
LEMMA SeedCommitFacts ==
  ASSUME SeedInv, SeedCommit
  PROVE  CommitsAll
<1> USE DEF SeedInv, SeedTypeOK
<1>1. /\ pc[Seed] = "written" /\ Walked /\ filed = Len(PRODUCTS) /\ rows' = View(Seed)
      /\ EndRequest(Seed, "ok") /\ lastId' = lastId /\ SeedStep(<<>>, 0)
  BY DEF SeedCommit
<1>2. Commits(Seed) /\ SeedEnds
  BY <1>1, EndsFacts DEF Commits
<1>3. Filed = DOMAIN PRODUCTS
  BY <1>1, ProductFacts DEF Filed
<1>4. products' = [p \in Products |->
          IF \E n \in DOMAIN PRODUCTS : PRODUCTS[n].sku = p
          THEN Target(CHOOSE n \in DOMAIN PRODUCTS : PRODUCTS[n].sku = p)
          ELSE products[p]]
  BY <1>3 DEF SeedCommit
<1>5. ASSUME NEW n \in DOMAIN PRODUCTS
      PROVE  products'[PRODUCTS[n].sku] = Target(n)
  <2>1. PICK m : m = CHOOSE k \in DOMAIN PRODUCTS : PRODUCTS[k].sku = PRODUCTS[n].sku
    OBVIOUS
  <2>2. m \in DOMAIN PRODUCTS /\ PRODUCTS[m].sku = PRODUCTS[n].sku
    BY <2>1
  <2>3. m = n
    BY <2>2, ProductsAssumption
  <2>4. PRODUCTS[n].sku \in Products
    BY ProductFacts
  <2> QED
    BY <1>4, <2>1, <2>3, <2>4
<1>6. ASSUME NEW p \in Products, \A n \in DOMAIN PRODUCTS : PRODUCTS[n].sku # p
      PROVE  products'[p] = products[p]
  BY <1>4, <1>6
<1>7. products' \in [Products -> Ids \cup {None}]
  <2>1. ASSUME NEW p \in Products PROVE products'[p] \in Ids \cup {None}
    <3>1. CASE \E n \in DOMAIN PRODUCTS : PRODUCTS[n].sku = p
      BY <1>1, <1>5, <3>1, TargetFacts
    <3>2. CASE \A n \in DOMAIN PRODUCTS : PRODUCTS[n].sku # p
      BY <1>6, <3>2 DEF TypeOK
    <3> QED
      BY <3>1, <3>2
  <2> QED
    BY <1>4, <2>1
<1> QED
  BY <1>1, <1>2, <1>3, <1>5, <1>6, <1>7 DEF CommitsAll

\* The commit leaves no product without its category: those of the assortment were
\* locked, and the others were not touched.
LEMMA CommitsContents ==
  ASSUME SeedInv, CommitsAll
  PROVE  ContentsInv'
<1> USE DEF SeedInv, SeedTypeOK, IInv
<1>1. /\ Seed \in Requests /\ Walked /\ rows' = View(Seed)
      /\ pc'[Seed] = "idle" /\ pending'[Seed] = NoWrites /\ answer'[Seed] = "ok"
      /\ \A q \in Requests \ {Seed} : SameRequest(q) /\ answer'[q] = answer[q]
  BY SeedAssumption DEF CommitsAll, Commits, EndRequest, SameRequest, TypeOK
<1>2. \A i \in Ids : NoWrites[i] # NoRow
  BY IdsFacts DEF NoWrites
<1>3. ASSUME NEW p \in Products
      PROVE  \/ products'[p] = products[p]
             \/ \E n \in Filed : /\ products'[p] = Target(n) /\ Target(n) \in Ids
                                 /\ products[PRODUCTS[n].sku] # Target(n)
  <2>1. CASE \E n \in DOMAIN PRODUCTS : PRODUCTS[n].sku = p
    BY <1>1, <2>1, TargetFacts DEF CommitsAll
  <2>2. CASE \A n \in DOMAIN PRODUCTS : PRODUCTS[n].sku # p
    BY <2>2 DEF CommitsAll
  <2> QED
    BY <2>1, <2>2
<1>4. ASSUME NEW p \in Products, products'[p] # None PROVE rows'[products'[p]] # NoRow
  <2>1. CASE products'[p] = products[p]
    <3>1. products[p] \in Ids /\ rows[products[p]] # NoRow /\ pending[Seed][products[p]] # NoRow
      BY <1>4, <2>1 DEF TypeOK, ContentsInv, FoundInv
    <3> QED
      BY <1>1, <2>1, <3>1 DEF View, Written
  <2>2. ASSUME NEW n \in Filed, products'[p] = Target(n), Target(n) \in Ids
        PROVE  rows'[products'[p]] # NoRow
    BY <1>1, <2>2 DEF FiledInv, Gone
  <2> QED
    BY <1>3, <2>1, <2>2
<1>5. ASSUME NEW q \in Requests \ {Seed}, NEW i \in Ids, FiledUnder(i) = {},
             NEW p \in Products, products'[p] = i
      PROVE  i \notin Exclusive(q) /\ \E n \in Filed : i = Target(n)
  BY <1>3, <1>5 DEF FiledUnder, FiledInv, Others
<1>6. ASSUME NEW q \in Requests \ {Seed}, NEW i \in Ids, pending[q][i] = NoRow
      PROVE  FiledUnder(i)' = {}
  <2>1. FiledUnder(i) = {} /\ i \in Exclusive(q)
    BY <1>6, IdsFacts DEF ContentsInv, Exclusive
  <2> QED
    BY <1>5, <2>1 DEF FiledUnder
<1>7. ASSUME NEW q \in Requests \ {Seed}, pc[q] = "approved", call[q].op = "delete"
      PROVE  FiledUnder(call[q].id)' = {}
  <2>1. PICK c : c = call[q].id
    OBVIOUS
  <2>2. c \in Ids /\ FiledUnder(c) = {} /\ c \in Named(q) /\ InTransaction(q)
    BY <1>7, <2>1, CallFacts DEF ContentsInv, Named, InTransaction
  <2>3. SUFFICES ASSUME NEW p \in Products, products'[p] = c
                 PROVE  FALSE
    BY <1>1, <2>1 DEF FiledUnder, SameRequest
  <2>4. c \notin Exclusive(q) /\ \E n \in Filed : c = Target(n)
    BY <1>5, <2>2, <2>3
  <2>5. rows[c] = NoRow
    BY <2>2, <2>4 DEF NamedInv, Exclusive
  <2>6. View(Seed)[c] # NoRow
    BY <2>2, <2>4 DEF FiledInv, Gone
  <2>7. pending[Seed][c] # Untouched
    BY <2>2, <2>5, <2>6 DEF View, Written
  <2>8. c \in held[Seed] \/ Inserted(Seed, c)
    BY <1>1, <2>2, <2>7 DEF PendingInv
  <2> QED
    BY <1>1, <2>2, <2>5, <2>8 DEF LocksInv, Existing, Inserted
<1>8. ASSUME NEW q \in Requests
      PROVE  /\ pc'[q] = "approved" /\ call'[q].op = "delete" => FiledUnder(call[q].id)' = {}
             /\ \A i \in Ids : pending'[q][i] = NoRow => FiledUnder(i)' = {}
             /\ answer'[q] # "ProtectedError"
  <2>1. CASE q = Seed
    BY <1>1, <1>2, <2>1
  <2>2. CASE q # Seed
    <3>1. /\ pc'[q] = pc[q] /\ call'[q] = call[q] /\ pending'[q] = pending[q]
          /\ answer'[q] = answer[q]
      BY <1>1, <2>2 DEF SameRequest
    <3>2. answer[q] # "ProtectedError"
      BY DEF ContentsInv
    <3> QED
      BY <1>6, <1>7, <2>2, <3>1, <3>2
  <2> QED
    BY <2>1, <2>2
<1> QED
  BY <1>4, <1>8 DEF ContentsInv

\* The commit keeps what the theorems rest on.
LEMMA SeedCommitKeeps ==
  ASSUME SeedInv, SeedCommit
  PROVE  IInv' /\ KeysInv' /\ ContentsInv'
<1>1. CommitsAll /\ Seed \in Requests
  BY SeedCommitFacts, SeedAssumption
<1>2. IInv'
  BY <1>1, CommitKeeps DEF SeedInv, CommitsAll
<1>3. KeysInv'
  BY <1>1, KeysCommit DEF SeedInv, CommitsAll
<1> QED
  BY <1>1, <1>2, <1>3, CommitsContents

\* A call of the service by the command is a step of CategoryTree.
LEMMA SeedCreateFacts ==
  ASSUME SeedInv, Create
  PROVE  /\ IInv' /\ KeysInv' /\ ContentsInv'
         /\ \/ SeedFails
            \/ /\ UNCHANGED alone
               /\ \/ pc[Seed] = "waiting" /\ GoesOn("locked")
                  \/ pc[Seed] = "locked" /\ GoesOn("approved")
                  \/ InsertsOne
<1>1. LockTree(Seed) \/ CheckCreate(Seed) \/ Insert(Seed)
  BY DEF Create
<1>2. Next
  BY <1>1, SeedAssumption DEF Next, Serve
<1>3. IInv' /\ KeysInv' /\ ContentsInv'
  BY <1>2, TreeStep DEF SeedInv
<1> QED
  BY <1>3, SeedLocks, SeedChecks, SeedInserts DEF Create

-----------------------------------------------------------------------------
(* Every step keeps SeedInv                                                 *)

\* A name is below a category once.
LEMMA OneNamedBelow ==
  ASSUME NEW T \in Tables, TableAgrees(T), KeysDiffer(T), NEW parent, NEW name,
         NEW i \in NamedBelow(T, parent, name), NEW j \in NamedBelow(T, parent, name)
  PROVE  i = j
BY DEF NamedBelow, Children, KeysDiffer, TableAgrees, IndexKey

\* The path below a category is one longer than its own.
LEMMA DepthBelow ==
  ASSUME NEW T \in Tables, TableAgrees(T), NEW cats, NEW n \in DOMAIN TREE,
         TREE[n].under # 0 =>
            /\ cats[TREE[n].under] \in Existing(T)
            /\ Len(T[cats[TREE[n].under]].ancestor_path) <= Depth[TREE[n].under]
  PROVE  /\ Under(cats, n) \in Existing(T) \cup {None}
         /\ AncestorPathUnder(T, Under(cats, n)) \in Seq(Ids)
         /\ Len(AncestorPathUnder(T, Under(cats, n))) <= Depth[n]
<1>1. Under(cats, n) \in Existing(T) \cup {None}
  BY DEF Under
<1>2. AncestorPathUnder(T, Under(cats, n)) \in Seq(Ids)
  BY <1>1, AncestorPathType
<1>3. CASE TREE[n].under = 0
  BY <1>1, <1>2, <1>3, DepthFacts DEF Under, AncestorPathUnder, ROOT_PATH
<1>4. CASE TREE[n].under # 0
  <2>1. PICK m : m = TREE[n].under
    OBVIOUS
  <2>2. PICK c : c = cats[m]
    OBVIOUS
  <2>3. PICK path : path = T[c].ancestor_path
    OBVIOUS
  <2>4. /\ c \in Existing(T) /\ c \in Ids /\ c # None /\ path \in Seq(Ids)
        /\ Under(cats, n) = c /\ Len(path) <= Depth[m]
    BY <1>4, <2>1, <2>2, <2>3, ExistingFacts, RowFields, IdsFacts DEF Under
  <2>5. AncestorPathUnder(T, c) = FullPath(path, c)
    BY <2>3, <2>4 DEF AncestorPathUnder
  <2>6. Len(FullPath(path, c)) = Len(path) + 1 /\ Len(path) \in Nat
    BY <2>4, FullPathIsLonger, LenProperties
  <2>7. Depth[m] \in Nat /\ Depth[n] \in Nat /\ Depth[m] < Depth[n]
    BY <1>4, <2>1, DepthFacts
  <2>8. Len(path) + 1 <= Depth[n]
    BY <2>4, <2>6, <2>7
  <2> QED
    BY <1>1, <1>2, <2>4, <2>5, <2>6, <2>8
<1> QED
  BY <1>3, <1>4

\* The parent of the next category, while the command is alone.
LEMMA NextPlace ==
  ASSUME SeedInv, alone, pc[Seed] # "idle", ~Walked
  PROVE  LET n == Len(created) + 1
             path == AncestorPathUnder(View(Seed), Under(created, n))
         IN  /\ Under(created, n) \in Existing(View(Seed)) \cup {None}
             /\ path \in Seq(Ids) /\ Len(path) <= Depth[n]
<1> USE DEF SeedInv, SeedTypeOK, IInv
<1>1. View(Seed) \in Tables /\ TableAgrees(View(Seed))
  BY Types, SeedAssumption DEF CheckedInv, Checked, StageInv
<1>2. PICK n : n = Len(created) + 1
  OBVIOUS
<1>3. n \in DOMAIN TREE /\ (TREE[n].under # 0 => TREE[n].under \in DOMAIN created)
  BY <1>2, CreatedFacts, TreeFacts
<1>4. ASSUME TREE[n].under # 0
      PROVE  /\ created[TREE[n].under] \in Existing(View(Seed))
             /\ Len(View(Seed)[created[TREE[n].under]].ancestor_path) <= Depth[TREE[n].under]
  BY <1>3, <1>4 DEF AloneInv, Holds, NamedBelow, Children
<1> QED
  BY <1>1, <1>2, <1>3, <1>4, DepthBelow

\* Where its transaction is over, nothing is left to be said about the command.
LEMMA EndKept ==
  ASSUME SeedEnds, IInv', KeysInv', ContentsInv'
  PROVE  SeedInv'
<1>1. DOMAIN created' = {} /\ Len(created') = 0 /\ created' \in Seq(Ids)
  BY DEF SeedEnds
<1>2. Filed' = {}
  BY ProductFacts DEF SeedEnds, Filed
<1>3. SeedTypeOK'
  BY <1>1, TreeFacts, ProductFacts DEF SeedEnds, SeedTypeOK, IInv
<1>4. StageInv'
  BY DEF SeedEnds, StageInv
<1>5. FoundInv'
  BY <1>1, IdsFacts DEF SeedEnds, FoundInv, NoWrites
<1>6. FiledInv'
  BY <1>2 DEF FiledInv
<1>7. AloneInv' /\ CompleteInv'
  BY DEF SeedEnds, AloneInv, CompleteInv
<1> QED
  BY <1>3, <1>4, <1>5, <1>6, <1>7 DEF SeedInv

\* A transaction that has just begun has found nothing.
LEMMA StartKept ==
  ASSUME SeedInv, Start
  PROVE  SeedInv'
<1>1. /\ IInv' /\ KeysInv' /\ ContentsInv' /\ rows' = rows /\ pending' = pending
      /\ pc'[Seed] = "written" /\ created' = <<>> /\ filed' = 0
      /\ alone' = alone /\ pc[Seed] = "idle"
  BY StartFacts
<1>2. DOMAIN created' = {} /\ Len(created') = 0 /\ created' \in Seq(Ids)
  BY <1>1
<1>3. Filed' = {}
  BY <1>1, ProductFacts DEF Filed
<1>4. pending[Seed] = NoWrites
  BY <1>1, SeedAssumption DEF SeedInv, IInv, PendingInv
<1>5. SeedTypeOK'
  BY <1>1, <1>2, TreeFacts, ProductFacts DEF SeedInv, SeedTypeOK, IInv
<1>6. StageInv'
  BY <1>1 DEF StageInv
<1>7. FoundInv'
  BY <1>1, <1>2, <1>4, IdsFacts DEF FoundInv, NoWrites
<1>8. FiledInv'
  BY <1>3 DEF FiledInv
<1>9. AloneInv'
  BY <1>1, <1>2 DEF AloneInv, Holds
<1>10. CompleteInv'
  BY <1>1, <1>2, <1>4 DEF CompleteInv
<1> QED
  BY <1>1, <1>5, <1>6, <1>7, <1>8, <1>9, <1>10 DEF SeedInv

\* What is in the command's view of the table and is found below a category is no row
\* that another request inserts.
LEMMA SeenByCommand ==
  ASSUME SeedInv, NEW i \in Existing(View(Seed))
  PROVE  /\ i <= lastId
         /\ \A q \in Others : pending[q][i] # Untouched => i \in held[q]
<1> USE DEF SeedInv, SeedTypeOK, IInv
<1>1. i \in Ids /\ View(Seed)[i] # NoRow /\ Seed \in Requests
  BY SeedAssumption DEF Existing
<1>2. rows[i] # NoRow \/ pending[Seed][i] # Untouched
  BY <1>1 DEF View, Written
<1>3. CASE rows[i] # NoRow
  BY <1>1, <1>3 DEF NamedInv, PendingInv, Inserted, Existing, Others
<1>4. CASE rows[i] = NoRow
  <2>1. pending[Seed][i] # Untouched /\ i \notin held[Seed]
    BY <1>1, <1>2, <1>4 DEF LocksInv, Existing
  <2>2. Inserted(Seed, i)
    BY <1>1, <2>1 DEF PendingInv
  <2> QED
    BY <2>2 DEF Inserted, Others
<1> QED
  BY <1>3, <1>4

\* What is found is as good as what was created.
LEMMA FoundKept ==
  ASSUME SeedInv, LookUp, FoundOne
  PROVE  SeedInv'
<1> USE DEF SeedInv, SeedTypeOK
<1>1. IInv' /\ KeysInv' /\ ContentsInv'
  BY LookUpFacts
<1>2. /\ UNCHANGED vars /\ pc[Seed] = "written" /\ ~Walked
      /\ filed' = 0 /\ UNCHANGED alone
  BY DEF FoundOne
<1>3. PICK n : n = Len(created) + 1
  OBVIOUS
<1>4. PICK i \in Ids : /\ i \in NamedBelow(View(Seed), Under(created, n), TREE[n].name)
                       /\ created' = Append(created, i)
  BY <1>3 DEF FoundOne
<1>5. /\ n \in DOMAIN TREE /\ DOMAIN created' = DOMAIN created \cup {n}
      /\ created'[n] = i /\ n \notin DOMAIN created
      /\ \A m \in DOMAIN created : created'[m] = created[m] /\ m \in DOMAIN TREE
      /\ \A m \in DOMAIN created' : Under(created', m) = Under(created, m)
  <2>1. \A m \in DOMAIN created : m \in DOMAIN TREE /\ m <= Len(created) + 1
    BY CreatedFacts
  <2>2. n \in DOMAIN TREE /\ n <= Len(created) + 1
    BY <1>2, <1>3, CreatedFacts
  <2> QED
    BY <1>3, <1>4, <2>1, <2>2, AppendFacts, UnderAppend
<1>6. i \in Existing(View(Seed)) /\ View(Seed)[i].parent = Under(created, n)
  BY <1>4 DEF NamedBelow, Children
<1>7. /\ rows' = rows /\ products' = products /\ lastId' = lastId /\ pc' = pc
      /\ held' = held /\ pending' = pending /\ call' = call /\ View(Seed)' = View(Seed)
  BY <1>2 DEF vars, tables, locals, View
<1>8. SeedTypeOK'
  BY <1>1, <1>2, <1>4, CreatedFacts, ProductFacts DEF IInv
<1>9. StageInv'
  BY <1>2, <1>7 DEF StageInv
<1>10. FoundInv'
  BY <1>5, <1>6, <1>7, SeenByCommand DEF FoundInv
<1>11. FiledInv'
  BY <1>2, ProductFacts DEF FiledInv, Filed
<1>12. AloneInv'
  <2> SUFFICES ASSUME alone
               PROVE  /\ Holds(View(Seed), created')
                      /\ \A m \in DOMAIN created' :
                            Len(View(Seed)[created'[m]].ancestor_path) <= Depth[m]
    BY <1>2, <1>7 DEF AloneInv
  <2>1. View(Seed)[i].ancestor_path = AncestorPathUnder(View(Seed), Under(created, n))
    <3>1. TableAgrees(View(Seed))
      BY <1>2, SeedAssumption DEF IInv, CheckedInv, Checked
    <3> QED
      BY <1>6, <3>1 DEF TableAgrees
  <2>2. Len(View(Seed)[i].ancestor_path) <= Depth[n]
    BY <1>2, <1>3, <2>1, NextPlace
  <2> QED
    BY <1>2, <1>4, <1>5, <2>2 DEF AloneInv, Holds
<1>13. CompleteInv'
  <2> SUFFICES ASSUME alone, NEW cats \in [DOMAIN TREE -> Existing(rows)], Holds(rows, cats)
               PROVE  /\ pending[Seed] = NoWrites
                      /\ \A m \in DOMAIN created' : created'[m] = cats[m]
    BY <1>2, <1>7 DEF CompleteInv
  <2>1. pending[Seed] = NoWrites /\ \A m \in DOMAIN created : created[m] = cats[m]
    BY <1>2 DEF CompleteInv
  <2>2. rows \in Tables /\ View(Seed) = rows /\ TableAgrees(rows) /\ KeysDiffer(rows)
    BY <2>1, Types, NoWritesFacts DEF View, IInv, PathsAgree, KeysInv
  <2>3. Under(created, n) = Under(cats, n)
    BY <1>2, <1>3, <2>1, CreatedFacts, TreeFacts DEF Under
  <2>4. cats[n] \in NamedBelow(rows, Under(cats, n), TREE[n].name)
    BY <1>5 DEF Holds
  <2>5. i = cats[n]
    BY <1>4, <2>2, <2>3, <2>4, OneNamedBelow
  <2> QED
    BY <1>5, <2>1, <2>5
<1> QED
  BY <1>1, <1>8, <1>9, <1>10, <1>11, <1>12, <1>13

\* The next category is asked for where it is not.
LEMMA AskedKept ==
  ASSUME SeedInv, LookUp, AskedForOne
  PROVE  SeedInv'
<1> USE DEF SeedInv, SeedTypeOK
<1>1. IInv' /\ KeysInv' /\ ContentsInv'
  BY LookUpFacts
<1>2. /\ pc[Seed] = "written" /\ ~Walked /\ pc'[Seed] = "waiting"
      /\ UNCHANGED <<rows, products, lastId, held, pending>>
      /\ created' = created /\ filed' = 0 /\ UNCHANGED alone
      /\ View(Seed)' = View(Seed)
  BY DEF AskedForOne, View
<1>3. PICK n : n = Len(created) + 1
  OBVIOUS
<1>4. /\ NamedBelow(View(Seed), Under(created, n), TREE[n].name) = {}
      /\ call'[Seed] = [op |-> "create", id |-> None, sent |-> Fields,
                        name |-> TREE[n].name, parent |-> Under(created, n)]
  BY <1>3 DEF AskedForOne
<1>5. SeedTypeOK'
  BY <1>1, <1>2, ProductFacts DEF IInv
<1>6. StageInv'
  BY <1>2, <1>3, <1>4 DEF StageInv, Walked
<1>7. FoundInv'
  BY <1>2 DEF FoundInv
<1>8. FiledInv'
  BY <1>2, ProductFacts DEF FiledInv, Filed
<1>9. AloneInv'
  BY <1>2, <1>4 DEF AloneInv
<1>10. CompleteInv'
  <2> SUFFICES ASSUME alone, NEW cats \in [DOMAIN TREE -> Existing(rows)], Holds(rows, cats)
               PROVE  FALSE
    BY <1>2 DEF CompleteInv
  <2>1. pending[Seed] = NoWrites /\ \A m \in DOMAIN created : created[m] = cats[m]
    BY <1>2 DEF CompleteInv
  <2>2. View(Seed) = rows
    BY <2>1, Types, NoWritesFacts DEF View
  <2>3. n \in DOMAIN TREE /\ Under(created, n) = Under(cats, n)
    BY <1>2, <1>3, <2>1, CreatedFacts, TreeFacts DEF Under
  <2>4. cats[n] \in NamedBelow(rows, Under(cats, n), TREE[n].name)
    BY <2>3 DEF Holds
  <2> QED
    BY <1>4, <2>2, <2>3, <2>4
<1> QED
  BY <1>1, <1>5, <1>6, <1>7, <1>8, <1>9, <1>10

\* The rows are locked, or the creation is approved: nobody can see a difference yet.
LEMMA GoesOnKept ==
  ASSUME SeedInv, Create, NEW next \in {"locked", "approved"}, GoesOn(next),
         pc[Seed] \in {"waiting", "locked"}, UNCHANGED alone
  PROVE  SeedInv'
<1> USE DEF SeedInv, SeedTypeOK
<1>1. IInv' /\ KeysInv' /\ ContentsInv'
  BY SeedCreateFacts
<1>2. /\ pc'[Seed] = next /\ UNCHANGED <<rows, products, pending, call, lastId>>
      /\ created' = created /\ filed' = 0 /\ View(Seed)' = View(Seed)
  BY DEF GoesOn, View
<1>3. \A q \in Others : held'[q] = held[q]
  BY StepFrame, SeedAssumption DEF Create, StepOf, Serve, Others, SameRequest
<1>4. SeedTypeOK'
  BY <1>1, <1>2, ProductFacts DEF IInv
<1>5. StageInv'
  BY <1>2 DEF StageInv, Walked
<1>6. FoundInv'
  BY <1>2, <1>3 DEF FoundInv
<1>7. FiledInv'
  BY <1>2, ProductFacts DEF FiledInv, Filed
<1>8. AloneInv'
  BY <1>2 DEF AloneInv
<1>9. CompleteInv'
  BY <1>2 DEF CompleteInv
<1> QED
  BY <1>1, <1>4, <1>5, <1>6, <1>7, <1>8, <1>9

\* The new category is where it belongs; the tree was not complete without it.
LEMMA InsertsKept ==
  ASSUME SeedInv, Create, InsertsOne, UNCHANGED alone
  PROVE  SeedInv'
<1> USE DEF SeedInv, SeedTypeOK
<1>1. IInv' /\ KeysInv' /\ ContentsInv'
  BY SeedCreateFacts
<1>2. /\ pc[Seed] = "approved" /\ lastId < LastId /\ pc'[Seed] = "written" /\ ~Walked
      /\ rows' = rows /\ products' = products /\ lastId' = lastId + 1 /\ filed' = 0
      /\ Seed \in Requests
  BY SeedAssumption DEF InsertsOne, StageInv
<1>3. PICK c : c = lastId + 1
  OBVIOUS
<1>4. PICK n : n = Len(created) + 1
  OBVIOUS
<1>5. /\ c \in Ids /\ ~(c <= lastId) /\ c <= lastId'
      /\ \A q \in Requests : pending[q][c] = Untouched
  BY <1>1, <1>2, <1>3, NextId DEF IInv, TypeOK, Ids
<1>6. /\ View(Seed)[c] = NoRow /\ View(Seed)' = [View(Seed) EXCEPT ![c] = object[Seed]]
      /\ \A i \in Ids : pending'[Seed][i] = IF i = c THEN object[Seed] ELSE pending[Seed][i]
      /\ created' = Append(created, c)
  BY <1>3 DEF InsertsOne
<1>7. /\ n \in DOMAIN TREE /\ DOMAIN created' = DOMAIN created \cup {n}
      /\ created'[n] = c /\ n \notin DOMAIN created
      /\ \A m \in DOMAIN created : created'[m] = created[m] /\ created[m] \in Ids
      /\ \A m \in DOMAIN created' : Under(created', m) = Under(created, m)
  <2>1. \A m \in DOMAIN created :
            created[m] \in Ids /\ m \in DOMAIN TREE /\ m <= Len(created) + 1
    BY CreatedFacts
  <2>2. n \in DOMAIN TREE /\ n <= Len(created) + 1
    BY <1>2, <1>4, CreatedFacts
  <2> QED
    BY <1>4, <1>5, <1>6, <2>1, <2>2, AppendFacts, UnderAppend
<1>8. /\ call[Seed].op = "create" /\ call[Seed].name = TREE[n].name
      /\ call[Seed].parent = Under(created, n)
  BY <1>2, <1>4 DEF StageInv
<1>9. /\ object[Seed] \in Row /\ object[Seed].parent = Under(created, n)
      /\ object[Seed].name = TREE[n].name
      /\ object[Seed].ancestor_path = AncestorPathUnder(View(Seed), Under(created, n))
  <2>1. object[Seed] \in Row
    BY <1>2, <1>8, InsertFacts
  <2>2. Checked(Seed)
    BY <1>2 DEF IInv, CheckedInv
  <2>3. object[Seed] = [parent |-> call[Seed].parent, name |-> call[Seed].name,
                        ancestor_path |-> AncestorPathUnder(View(Seed), call[Seed].parent)]
    BY <1>2, <1>8, <2>2 DEF Checked
  <2> QED
    BY <1>8, <2>1, <2>3
<1>10. SeedTypeOK'
  BY <1>1, <1>2, <1>5, <1>6, CreatedFacts, ProductFacts DEF IInv
<1>11. StageInv'
  BY <1>2 DEF StageInv
<1>12. FoundInv'
  <2>1. \A q \in Others : held'[q] = held[q] /\ pending'[q] = pending[q]
    BY StepFrame, SeedAssumption DEF Create, StepOf, Serve, Others, SameRequest
  <2>2. \A i \in Ids : pending'[Seed][i] # NoRow
    BY <1>6, <1>9, IdsFacts DEF FoundInv
  <2>3. ASSUME NEW m \in DOMAIN created
        PROVE  created[m] <= lastId' /\ \A q \in Others :
                  pending[q][created[m]] # Untouched => created[m] \in held[q]
    <3>1. created[m] <= lastId /\ created[m] \in Ids
      BY <1>7, <2>3 DEF FoundInv
    <3>2. created[m] <= lastId + 1
      BY <3>1 DEF IInv, TypeOK, Ids
    <3> QED
      BY <1>2, <3>2, <2>3 DEF FoundInv
  <2> QED
    BY <1>5, <1>7, <2>1, <2>2, <2>3 DEF FoundInv, Others
<1>13. FiledInv'
  BY <1>2, ProductFacts DEF FiledInv, Filed
<1>14. AloneInv'
  <2> SUFFICES ASSUME alone
               PROVE  /\ Holds(View(Seed)', created')
                      /\ \A m \in DOMAIN created' :
                            Len(View(Seed)'[created'[m]].ancestor_path) <= Depth[m]
    BY <1>2 DEF AloneInv
  <2>1. View(Seed) \in Tables
    BY <1>2, Types DEF IInv
  <2>2. /\ View(Seed)'[c] = object[Seed] /\ c \in Existing(View(Seed)')
        /\ \A i \in Existing(View(Seed)) :
            i \in Existing(View(Seed)') /\ View(Seed)'[i] = View(Seed)[i]
    BY <1>5, <1>6, <1>9, <2>1, IdsFacts DEF Existing, Tables
  <2>3. c \in NamedBelow(View(Seed)', Under(created', n), TREE[n].name)
    BY <1>7, <1>9, <2>2 DEF NamedBelow, Children
  <2>4. Len(View(Seed)'[c].ancestor_path) <= Depth[n]
    BY <1>2, <1>4, <1>9, <2>2, NextPlace
  <2>5. ASSUME NEW m \in DOMAIN created
        PROVE  /\ created'[m] \in NamedBelow(View(Seed)', Under(created', m), TREE[m].name)
               /\ Len(View(Seed)'[created'[m]].ancestor_path) <= Depth[m]
    <3>1. /\ created[m] \in NamedBelow(View(Seed), Under(created, m), TREE[m].name)
          /\ Len(View(Seed)[created[m]].ancestor_path) <= Depth[m]
      BY <1>2, <2>5 DEF AloneInv, Holds
    <3> QED
      BY <1>7, <2>2, <3>1 DEF NamedBelow, Children
  <2> QED
    BY <1>7, <2>3, <2>4, <2>5 DEF Holds
<1>15. CompleteInv'
  BY <1>2 DEF CompleteInv
<1> QED
  BY <1>1, <1>10, <1>11, <1>12, <1>13, <1>14, <1>15

\* One more product is in its category.
LEMMA FilesKept ==
  ASSUME SeedInv, File, FilesOne
  PROVE  SeedInv'
<1> USE DEF SeedInv, SeedTypeOK
<1>1. IInv' /\ KeysInv' /\ ContentsInv'
  BY FileFacts
<1>2. /\ rows' = rows /\ products' = products /\ lastId' = lastId /\ pc' = pc
      /\ held' = held /\ pending' = pending /\ call' = call /\ View(Seed)' = View(Seed)
      /\ created' = created /\ filed' = filed + 1 /\ UNCHANGED alone
      /\ pc[Seed] = "written" /\ Walked
  BY DEF FilesOne, vars, tables, locals, View
<1>3. filed + 1 \in DOMAIN PRODUCTS
  BY DEF FilesOne
<1>4. SeedTypeOK'
  BY <1>1, <1>2, <1>3, ProductFacts DEF IInv
<1>5. StageInv'
  BY <1>2 DEF StageInv, Walked
<1>6. FoundInv'
  BY <1>2 DEF FoundInv
<1>7. FiledInv'
  <2>1. Filed' = Filed \cup {filed + 1}
    BY <1>2, <1>3, ProductFacts DEF Filed
  <2>2. /\ ~Gone(View(Seed), Target(filed + 1))
        /\ products[PRODUCTS[filed + 1].sku] # Target(filed + 1) =>
            \A q \in Others : Target(filed + 1) \notin Exclusive(q)
    BY DEF FilesOne, CategoryMissing, Others
  <2>3. \A n : Target(n)' = Target(n)
    BY <1>2 DEF Target
  <2>4. \A q : Exclusive(q)' = Exclusive(q)
    BY <1>2 DEF Exclusive
  <2> QED
    BY <1>2, <2>1, <2>2, <2>3, <2>4 DEF FiledInv
<1>8. AloneInv'
  BY <1>2 DEF AloneInv
<1>9. CompleteInv'
  BY <1>2 DEF CompleteInv
<1> QED
  BY <1>1, <1>4, <1>5, <1>6, <1>7, <1>8, <1>9

\* A commit, or any other step, of a request takes nothing away that the command has
\* seen and that has its product.
LEMMA TargetStays ==
  ASSUME SeedInv, NEW r \in Others, OthersServed(r), NEW n \in Filed, pc[Seed] # "idle"
  PROVE  ~Gone(View(Seed)', Target(n))
<1> USE DEF SeedInv, SeedTypeOK, IInv
<1>1. /\ r \in Requests /\ Seed \in Requests /\ r # Seed /\ n \in DOMAIN PRODUCTS /\ Walked
  BY SeedAssumption, ProductFacts DEF Others, StageInv, Filed
<1>2. PICK t : t = Target(n)
  OBVIOUS
<1>3. /\ t \in Ids /\ PRODUCTS[n].sku \in Products
      /\ View(Seed)[t] # NoRow
      /\ products[PRODUCTS[n].sku] # t => t \notin Exclusive(r)
  BY <1>1, <1>2, TargetFacts DEF FiledInv, Gone
<1>4. pending[r][t] # NoRow
  BY <1>1, <1>3, IdsFacts DEF ContentsInv, FiledUnder, Exclusive
<1>5. pending'[Seed] = pending[Seed] /\ (rows' = rows \/ rows' = View(r))
  BY <1>1, StepFrame DEF OthersServed, SameRequest
<1>6. View(Seed)'[t] # NoRow
  BY <1>3, <1>4, <1>5, IdsFacts DEF View, Written
<1> QED
  BY <1>2, <1>6 DEF Gone

\* While the foreign key of a product holds a category, no other request locks it.
LEMMA TargetUnlocked ==
  ASSUME SeedInv, IInv', NEW r \in Others, OthersServed(r), NEW n \in Filed,
         pc[Seed] # "idle", products[PRODUCTS[n].sku] # Target(n)
  PROVE  Target(n) \notin Exclusive(r)'
<1> USE DEF SeedInv, SeedTypeOK
<1>1. /\ r \in Requests /\ n \in DOMAIN PRODUCTS /\ Walked
      /\ PRODUCTS[n].category \in DOMAIN created
  BY ProductFacts, TargetFacts DEF Others, StageInv, Filed
<1>2. PICK t : t = Target(n)
  OBVIOUS
<1>3. /\ t \in Ids /\ t \notin Exclusive(r) /\ t \in ReferredTo /\ t <= lastId
  BY <1>1, <1>2, TargetFacts DEF FiledInv, ReferredTo, FoundInv, Target
<1>4. t # lastId + 1 /\ t \notin held[r] /\ pending[r][t] = Untouched
  BY <1>3 DEF Exclusive, IInv, TypeOK, Ids
<1>5. LockTree(r) => t \notin Existing(rows)
  BY <1>3 DEF OthersServed
<1>6. t \notin held'[r] /\ pending'[r][t] = Untouched
  <2>1. CASE held'[r] = {} /\ pending'[r] = NoWrites
    BY <1>3, <2>1 DEF NoWrites
  <2>2. CASE LockTree(r) /\ held'[r] = Existing(rows) /\ pending' = pending
    BY <1>4, <1>5, <2>2
  <2>3. CASE /\ held'[r] = held[r]
             /\ \A i \in Ids : pending'[r][i] # Untouched =>
                  pending[r][i] # Untouched \/ i \in held[r] \/ i = lastId + 1
    BY <1>3, <1>4, <2>3
  <2> QED
    BY <1>1, <2>1, <2>2, <2>3, LocksGrow DEF OthersServed
<1> QED
  BY <1>2, <1>6 DEF Exclusive

\* Other requests take nothing away from the command.
LEMMA OthersKept ==
  ASSUME SeedInv, NEW r \in Others, OthersServed(r)
  PROVE  SeedInv'
<1> USE DEF SeedInv, SeedTypeOK
<1>1. r \in Requests /\ Seed \in Requests /\ r # Seed
  BY SeedAssumption DEF Others
<1>2. IInv' /\ KeysInv' /\ ContentsInv'
  BY <1>1, TreeStep DEF OthersServed, StepOf, Next
<1>3. /\ products' = products /\ lastId' \in {lastId, lastId + 1}
      /\ \A q \in Requests \ {r} : SameRequest(q)
  BY <1>1, StepFrame DEF OthersServed
<1>4. /\ pc'[Seed] = pc[Seed] /\ call'[Seed] = call[Seed] /\ pending'[Seed] = pending[Seed]
      /\ \A q \in Requests \ {r} : held'[q] = held[q] /\ pending'[q] = pending[q]
  BY <1>1, <1>3 DEF SameRequest
<1>5. /\ created' = created /\ filed' = filed
      /\ alone' = (pc[Seed] = "idle" \/ (alone /\ UNCHANGED <<rows, products>>))
  BY DEF OthersServed, OtherStep
<1>6. SeedTypeOK'
  BY <1>2, <1>5 DEF IInv
<1>7. StageInv'
  BY <1>4, <1>5 DEF StageInv, Walked
<1>8. FoundInv'
  <2>1. ASSUME NEW n \in DOMAIN created
        PROVE  /\ created[n] <= lastId'
               /\ pending'[r][created[n]] # Untouched => created[n] \in held'[r]
    <3>1. PICK c : c = created[n]
      OBVIOUS
    <3>2. c \in Ids /\ c <= lastId /\ (pending[r][c] # Untouched => c \in held[r])
      BY <3>1, CreatedFacts DEF FoundInv
    <3>3. c <= lastId' /\ c # lastId + 1
      BY <1>3, <3>2 DEF IInv, TypeOK, Ids
    <3>4. held[r] \subseteq Existing(rows)
      BY <1>1 DEF IInv, LocksInv
    <3>5. pending'[r][c] # Untouched => c \in held'[r]
      <4>1. CASE held'[r] = {} /\ pending'[r] = NoWrites
        BY <3>2, <4>1 DEF NoWrites
      <4>2. CASE LockTree(r) /\ held'[r] = Existing(rows) /\ pending' = pending
        BY <3>2, <3>4, <4>2
      <4>3. CASE /\ held'[r] = held[r]
                 /\ \A i \in Ids : pending'[r][i] # Untouched =>
                      pending[r][i] # Untouched \/ i \in held[r] \/ i = lastId + 1
        BY <3>2, <3>3, <4>3
      <4> QED
        BY <1>1, <1>2, <4>1, <4>2, <4>3, LocksGrow DEF OthersServed
    <3> QED
      BY <3>1, <3>3, <3>5
  <2> QED
    BY <1>4, <1>5, <2>1 DEF FoundInv, Others
<1>9. FiledInv'
  <2>1. Filed' = Filed /\ \A n : Target(n)' = Target(n)
    BY <1>5 DEF Filed, Target
  <2>2. Filed # {} => pc[Seed] # "idle"
    BY ProductFacts DEF Filed, StageInv
  <2>3. \A q \in Others \ {r} : Exclusive(q)' = Exclusive(q)
    BY <1>4 DEF Exclusive, Others
  <2>4. ASSUME NEW n \in Filed
        PROVE  /\ ~Gone(View(Seed)', Target(n))
               /\ products[PRODUCTS[n].sku] # Target(n) =>
                    \A q \in Others : Target(n) \notin Exclusive(q)'
    BY <1>2, <2>2, <2>3, TargetStays, TargetUnlocked DEF FiledInv
  <2> QED
    BY <1>3, <2>1, <2>4 DEF FiledInv
<1>10. alone' /\ pc'[Seed] # "idle" => alone /\ rows' = rows /\ View(Seed)' = View(Seed)
  BY <1>4, <1>5 DEF View
<1>11. AloneInv'
  BY <1>4, <1>5, <1>10 DEF AloneInv
<1>12. CompleteInv'
  BY <1>4, <1>5, <1>10 DEF CompleteInv
<1> QED
  BY <1>2, <1>6, <1>7, <1>8, <1>9, <1>11, <1>12

\* Neither do those who file and remove products.
LEMMA ProductKept ==
  ASSUME SeedInv, NEW p \in Products, ProductServed(p)
  PROVE  SeedInv'
<1> USE DEF SeedInv, SeedTypeOK
<1>1. IInv' /\ KeysInv' /\ ContentsInv'
  BY TreeStep DEF ProductServed, Next
<1>2. /\ rows' = rows /\ lastId' = lastId /\ pc' = pc /\ call' = call /\ held' = held
      /\ pending' = pending /\ View(Seed)' = View(Seed)
      /\ \A x \in Products \ {p} : products'[x] = products[x]
  BY DEF ProductServed, RemoveProduct, FileProduct, locals, View, TypeOK
<1>3. /\ created' = created /\ filed' = filed
      /\ alone' = (pc[Seed] = "idle" \/ (alone /\ UNCHANGED <<rows, products>>))
  BY DEF ProductServed, OtherStep
<1>4. SeedTypeOK'
  BY <1>1, <1>3 DEF IInv
<1>5. StageInv'
  BY <1>2, <1>3 DEF StageInv, Walked
<1>6. FoundInv'
  BY <1>2, <1>3 DEF FoundInv
<1>7. FiledInv'
  <2>1. Filed' = Filed /\ (\A n : Target(n)' = Target(n))
        /\ \A q : Exclusive(q)' = Exclusive(q)
    BY <1>2, <1>3 DEF Filed, Target, Exclusive
  <2>2. \A n \in Filed : products'[PRODUCTS[n].sku] = products[PRODUCTS[n].sku]
    BY <1>2, ProductFacts DEF ProductServed, LockedProducts, Filed
  <2> QED
    BY <1>2, <2>1, <2>2 DEF FiledInv
<1>8. AloneInv'
  BY <1>2, <1>3 DEF AloneInv
<1>9. CompleteInv'
  BY <1>2, <1>3 DEF CompleteInv
<1> QED
  BY <1>1, <1>4, <1>5, <1>6, <1>7, <1>8, <1>9

\* The invariant reads nothing but the variables.
LEMMA SeedStutters ==
  ASSUME SeedInv, UNCHANGED seedVars
  PROVE  SeedInv'
<1> USE DEF SeedInv, SeedTypeOK
<1>1. IInv' /\ KeysInv' /\ ContentsInv'
  BY TreeStep DEF seedVars
<1>2. UNCHANGED <<rows, products, lastId, pc, call, held, pending, created, filed, alone>>
  BY DEF seedVars, progress, vars, tables, locals
<1>3. SeedTypeOK'
  BY <1>1, <1>2 DEF IInv
<1>4. StageInv' /\ FoundInv'
  BY <1>2 DEF StageInv, Walked, FoundInv
<1>5. FiledInv'
  BY <1>2 DEF FiledInv, Filed, Target, View, Exclusive
<1>6. AloneInv' /\ CompleteInv'
  BY <1>2 DEF AloneInv, CompleteInv, View
<1> QED
  BY <1>1, <1>3, <1>4, <1>5, <1>6

\* Whatever anyone does, the command keeps its footing.
LEMMA SeedKeeps == SeedInv /\ [SeedNext]_seedVars => SeedInv'
<1> SUFFICES ASSUME SeedInv, [SeedNext]_seedVars PROVE SeedInv'
  OBVIOUS
<1>1. CASE Start
  BY <1>1, StartKept
<1>2. CASE LookUp
  BY <1>2, LookUpFacts, FoundKept, AskedKept
<1>3. CASE Create
  <2>1. IInv' /\ KeysInv' /\ ContentsInv'
    BY <1>3, SeedCreateFacts
  <2>2. SeedFails => SeedInv'
    BY <2>1, EndKept DEF SeedFails
  <2>3. InsertsOne /\ UNCHANGED alone => SeedInv'
    BY <1>3, InsertsKept
  <2>4. ASSUME NEW next \in {"locked", "approved"}, GoesOn(next),
               pc[Seed] \in {"waiting", "locked"}, UNCHANGED alone
        PROVE  SeedInv'
    BY <1>3, <2>4, GoesOnKept
  <2> QED
    BY <1>3, <2>2, <2>3, <2>4, SeedCreateFacts
<1>4. CASE File
  BY <1>4, FileFacts, FilesKept, EndKept DEF SeedFails
<1>5. CASE SeedCommit
  BY <1>5, SeedCommitFacts, SeedCommitKeeps, EndKept DEF CommitsAll
<1>6. CASE SeedAbort
  <2>1. Next
    BY <1>6, SeedAssumption DEF SeedAbort, Next
  <2>2. IInv' /\ KeysInv' /\ ContentsInv'
    BY <2>1, TreeStep DEF SeedInv
  <2> QED
    BY <1>6, <2>2, SeedAborts, EndKept DEF SeedFails
<1>7. ASSUME NEW r \in Others, OthersServed(r) PROVE SeedInv'
  BY <1>7, OthersKept
<1>8. ASSUME NEW p \in Products, ProductServed(p) PROVE SeedInv'
  BY <1>8, ProductKept
<1>9. CASE UNCHANGED seedVars
  BY <1>9, SeedStutters
<1> QED
  BY <1>1, <1>2, <1>3, <1>4, <1>5, <1>6, <1>7, <1>8, <1>9, SeedSteps DEF SeedInv

\* Nobody has begun yet.
LEMMA SeedInitFacts == SeedInit => SeedInv
<1> SUFFICES ASSUME SeedInit PROVE SeedInv
  OBVIOUS
<1>1. Init /\ created = <<>> /\ filed = 0 /\ alone = TRUE
  BY DEF SeedInit
<1>2. IInv /\ KeysInv /\ ContentsInv
  BY <1>1, InitEstablishes, KeepInit DEF KeepInv
<1>3. pc[Seed] = "idle" /\ call[Seed] = NoCall /\ pending[Seed] = NoWrites
  BY <1>1, SeedAssumption DEF Init
<1>4. DOMAIN created = {} /\ Len(created) = 0 /\ created \in Seq(Ids)
  BY <1>1
<1>5. Filed = {}
  BY <1>1, ProductFacts DEF Filed
<1>6. SeedTypeOK
  BY <1>1, <1>2, <1>4, TreeFacts, ProductFacts DEF SeedTypeOK, IInv
<1>7. StageInv
  BY <1>1, <1>3 DEF StageInv
<1>8. FoundInv
  BY <1>3, <1>4, IdsFacts DEF FoundInv, NoWrites
<1>9. FiledInv
  BY <1>5 DEF FiledInv
<1>10. AloneInv /\ CompleteInv
  BY <1>3 DEF AloneInv, CompleteInv
<1> QED
  BY <1>2, <1>6, <1>7, <1>8, <1>9, <1>10 DEF SeedInv

\* The command goes through the tree and the assortment as seed_catalog.py has it,
\* on top of what CategoryTree promises of every transaction.
THEOREM SeedInductive == SeedSpec => []SeedInv
<1> QED
  BY SeedInitFacts, SeedKeeps, PTL DEF SeedSpec

\* Every variable of the command and of the service has its type.
THEOREM SeedTypeCorrect == SeedSpec => []SeedTypeOK
<1>1. SeedInv => SeedTypeOK
  BY DEF SeedInv
<1> QED
  BY <1>1, SeedInductive, PTL

\* Next to the command, too, anyone can read paths that agree with the parents, at
\* any time: also where _create_tree has made half of a tree.
THEOREM SeedPathsAgree == SeedSpec => []PathsAgree
<1>1. SeedInv => PathsAgree
  BY DEF SeedInv, IInv
<1> QED
  BY <1>1, SeedInductive, PTL

\* Next to the command, too, no category is deleted that has products or
\* sub-categories: nor one that _create_products has found and not yet committed.
THEOREM SeedContentsStay == SeedSpec => []ContentsKeepTheirCategory
<1>1. SeedInv => ContentsKeepTheirCategory
  BY DEF SeedInv, IInv, ContentsInv, ContentsKeepTheirCategory, PathsAgree, TableAgrees
<1> QED
  BY <1>1, SeedInductive, PTL

\* Next to the command, too, no two categories under one parent have names that the
\* collation holds equal, although _create_tree looks for them without a lock.
THEOREM SeedSiblingNames == SeedSpec => []SiblingNamesUnique
<1>1. SeedInv => SiblingNamesUnique
  BY NamesFromKeys DEF SeedInv
<1> QED
  BY <1>1, SeedInductive, PTL

-----------------------------------------------------------------------------
(* "Safe to run repeatedly"                                                 *)

\* Alone, the command creates nothing that a check or a constraint refuses.
LEMMA AloneIsFree ==
  ASSUME SeedInv, alone, pc[Seed] \in {"locked", "approved"}
  PROVE  LET parent == call[Seed].parent
             path == AncestorPathUnder(View(Seed), parent)
         IN  /\ parent \in Existing(View(Seed)) \cup {None} /\ PathFits(path)
             /\ \A i \in Existing(View(Seed)) :
                    IndexKey(View(Seed)[i]) # <<path, CollationKey[call[Seed].name]>>
<1> USE DEF SeedInv, SeedTypeOK
<1>1. PICK n : n = Len(created) + 1
  OBVIOUS
<1>2. PICK p : p = Under(created, n)
  OBVIOUS
<1>3. PICK path : path = AncestorPathUnder(View(Seed), p)
  OBVIOUS
<1>4. ~Walked /\ call[Seed].parent = p /\ n \in DOMAIN TREE
  BY <1>1, <1>2, CreatedFacts DEF StageInv
<1>5. p \in Existing(View(Seed)) \cup {None} /\ path \in Seq(Ids) /\ Len(path) <= Depth[n]
  BY <1>1, <1>2, <1>3, <1>4, NextPlace
<1>6. PathFits(path)
  BY <1>4, <1>5, DepthFacts
<1>7. View(Seed) \in Tables /\ TableAgrees(View(Seed))
  BY Types, SeedAssumption DEF IInv, CheckedInv, Checked
<1>8. ASSUME NEW i \in Existing(View(Seed)),
             IndexKey(View(Seed)[i]) = <<path, CollationKey[call[Seed].name]>>
      PROVE  FALSE
  <2>1. /\ AncestorPathUnder(View(Seed), View(Seed)[i].parent) = path
        /\ CollationKey[View(Seed)[i].name] = CollationKey[call[Seed].name]
        /\ View(Seed)[i].parent \in Existing(View(Seed)) \cup {None}
    BY <1>7, <1>8, AgreesAt DEF IndexKey
  <2>2. View(Seed)[i].parent = p
    BY <1>3, <1>5, <1>7, <2>1, SameParent
  <2>3. i \in NamedBelow(View(Seed), call[Seed].parent, call[Seed].name)
    BY <1>4, <2>1, <2>2 DEF NamedBelow, Children
  <2> QED
    BY <2>3 DEF AloneInv
<1> QED
  BY <1>3, <1>4, <1>5, <1>6, <1>8

\* Only the database makes a command fail that is alone.
LEMMA AloneFails ==
  ASSUME SeedInv, alone, SeedFails
  PROVE  answer'[Seed] = "OperationalError"
<1> USE DEF SeedInv, SeedTypeOK
<1>1. ASSUME pc[Seed] = "locked" PROVE SeedVerdict = "ok"
  <2>1. PICK row : row = [parent |-> call[Seed].parent, name |-> call[Seed].name,
                          ancestor_path |-> AncestorPathUnder(View(Seed), call[Seed].parent)]
    OBVIOUS
  <2>2. /\ row.parent = call[Seed].parent /\ row.name = call[Seed].name
        /\ row.ancestor_path = AncestorPathUnder(View(Seed), call[Seed].parent)
    BY <2>1
  <2>3. PathFits(row.ancestor_path) /\ NameIsFree(View(Seed), row, None)
    BY <1>1, <2>2, AloneIsFree DEF NameIsFree, IndexKey
  <2>4. ~Gone(View(Seed), call[Seed].parent)
    BY <1>1, AloneIsFree, IdsFacts DEF Gone, Existing
  <2>5. SeedVerdict = CreateVerdict(View(Seed), call[Seed], row)
    BY <2>1 DEF SeedVerdict
  <2> QED
    BY <2>3, <2>4, <2>5 DEF CreateVerdict
<1>2. ASSUME pc[Seed] = "approved", lastId < LastId
      PROVE  ConstraintsHold(Written(View(Seed), SeedWrite), SeedWrite)
  <2>1. PICK c : c = lastId + 1
    OBVIOUS
  <2>2. call[Seed].op = "create" /\ Seed \in Requests /\ View(Seed) \in Tables
    BY <1>2, Types, SeedAssumption DEF StageInv
  <2>3. c \in Ids /\ object[Seed] \in Row
    BY <1>2, <2>1, <2>2, InsertFacts
  <2>4. /\ SeedWrite[c] = object[Seed] /\ \A i \in Ids \ {c} : SeedWrite[i] = Untouched
        /\ Written(View(Seed), SeedWrite) = [View(Seed) EXCEPT ![c] = object[Seed]]
    BY <2>1, <2>2, <2>3, OneWrite, WriteOne DEF SeedWrite
  <2>5. Stored(SeedWrite) = {c} /\ \A i \in Ids : SeedWrite[i] # NoRow
    BY <2>3, <2>4, IdsFacts DEF Stored
  <2>6. Checked(Seed)
    BY <2>2 DEF IInv, CheckedInv
  <2>7. /\ object[Seed].parent = call[Seed].parent
        /\ IndexKey(object[Seed]) = <<AncestorPathUnder(View(Seed), call[Seed].parent),
                                      CollationKey[call[Seed].name]>>
    BY <1>2, <2>2, <2>6 DEF Checked, IndexKey
  <2>8. PICK T : T = Written(View(Seed), SeedWrite)
    OBVIOUS
  <2>9. \A j \in Existing(T) \ {c} : j \in Existing(View(Seed)) /\ T[j] = View(Seed)[j]
    BY <2>2, <2>3, <2>4, <2>8 DEF Existing, Tables
  <2>10. \A j \in Existing(T) \ {c} : IndexKey(T[j]) # IndexKey(object[Seed])
    BY <1>2, <2>7, <2>9, AloneIsFree
  <2>11. ~Gone(T, object[Seed].parent)
    <3>1. object[Seed].parent \in Existing(View(Seed)) \cup {None}
      BY <1>2, <2>7, AloneIsFree
    <3> QED
      BY <2>2, <2>3, <2>4, <2>8, <3>1, IdsFacts DEF Gone, Existing, Tables
  <2> QED
    BY <2>4, <2>5, <2>8, <2>10, <2>11 DEF ConstraintsHold
<1>3. ASSUME pc[Seed] = "written", Walked, filed + 1 \in DOMAIN PRODUCTS
      PROVE  ~CategoryMissing(filed + 1)
  <2>1. /\ PRODUCTS[filed + 1].category \in DOMAIN created
        /\ Target(filed + 1) = created[PRODUCTS[filed + 1].category]
    BY <1>3, TargetFacts DEF Target
  <2>2. Target(filed + 1) \in Existing(View(Seed))
    BY <1>3, <2>1 DEF AloneInv, Holds, NamedBelow, Children
  <2> QED
    BY <2>2 DEF CategoryMissing, Gone, Existing
<1> QED
  BY <1>1, <1>2, <1>3 DEF SeedFails

\* Alone, the command ends with all it has to put in, and leaves alone what was there.
LEMMA AloneCommits ==
  ASSUME SeedInv, SeedInv', alone, CommitsAll
  PROVE  answer'[Seed] = "ok" /\ Complete' /\ (Complete => UNCHANGED <<rows, products>>)
<1> USE DEF SeedInv, SeedTypeOK
<1>1. /\ pc[Seed] = "written" /\ Walked /\ rows' = View(Seed) /\ answer'[Seed] = "ok"
      /\ \A n \in DOMAIN PRODUCTS : products'[PRODUCTS[n].sku] = Target(n)
  BY SeedAssumption DEF CommitsAll, Commits, EndRequest, TypeOK
<1>2. Holds(rows', created)
  BY <1>1 DEF AloneInv
<1>3. created \in [DOMAIN TREE -> Existing(rows')]
  <2>1. \A n \in DOMAIN created : created[n] \in Existing(rows')
    BY <1>2 DEF Holds, NamedBelow, Children
  <2>2. DOMAIN created = DOMAIN TREE
    BY <1>1, CreatedFacts, TreeFacts DEF Walked
  <2> QED
    BY <2>1, <2>2
<1>4. \A n \in DOMAIN PRODUCTS : products'[PRODUCTS[n].sku] = created[PRODUCTS[n].category]
  BY <1>1 DEF Target
<1>5. Complete'
  BY <1>2, <1>3, <1>4 DEF Complete
<1>6. ASSUME NEW cats \in [DOMAIN TREE -> Existing(rows)], Holds(rows, cats),
             \A n \in DOMAIN PRODUCTS :
                products[PRODUCTS[n].sku] = cats[PRODUCTS[n].category]
      PROVE  UNCHANGED <<rows, products>>
  <2>1. pending[Seed] = NoWrites /\ \A n \in DOMAIN created : created[n] = cats[n]
    BY <1>1, <1>6 DEF CompleteInv
  <2>2. rows' = rows
    BY <1>1, <2>1, Types, NoWritesFacts DEF View
  <2>3. ASSUME NEW p \in Products PROVE products'[p] = products[p]
    BY <1>1, <1>4, <1>6, <2>1, TargetFacts DEF CommitsAll
  <2> QED
    BY <2>2, <2>3 DEF CommitsAll, IInv, TypeOK
<1> QED
  BY <1>1, <1>5, <1>6 DEF Complete

\* A step that ends the command while it is alone.
LEMMA SafeStep ==
  ASSUME SeedInv, SeedInv', [SeedNext]_seedVars,
         alone, pc[Seed] # "idle", pc'[Seed] = "idle"
  PROVE  \/ answer'[Seed] = "OperationalError"
         \/ /\ answer'[Seed] = "ok" /\ Complete'
            /\ Complete => UNCHANGED <<rows, products>>
<1>1. CASE SeedFails
  BY <1>1, AloneFails
<1>2. CASE CommitsAll
  BY <1>2, AloneCommits
<1>3. ~Start
  BY DEF Start
<1>4. ~LookUp
  BY LookUpFacts DEF FoundOne, AskedForOne, vars, locals
<1>5. Create => SeedFails
  BY SeedCreateFacts DEF GoesOn, InsertsOne
<1>6. File => SeedFails
  BY FileFacts DEF FilesOne, vars, locals
<1>7. \A r \in Others : ~OthersServed(r)
  BY StepFrame, SeedAssumption DEF OthersServed, Others, SameRequest, SeedInv, SeedTypeOK
<1>8. \A p \in Products : ~ProductServed(p)
  BY DEF ProductServed, RemoveProduct, FileProduct, locals
<1>9. ~UNCHANGED seedVars
  BY DEF seedVars, vars, locals
<1> QED
  BY <1>1, <1>2, <1>3, <1>4, <1>5, <1>6, <1>7, <1>8, <1>9,
     SeedSteps, SeedCommitFacts, SeedAborts DEF SeedInv

\* "Safe to run repeatedly": if nobody commits anything meanwhile, only the database
\* can make the command fail, it ends with its tree and its assortment in the catalog,
\* and it changes nothing in a catalog that had them.
THEOREM SafeToRun == SeedSpec => SafeToRunRepeatedly
<1>1. SeedInv /\ SeedInv' /\ [SeedNext]_seedVars =>
        (alone /\ pc[Seed] # "idle" /\ pc'[Seed] = "idle" =>
            \/ answer'[Seed] = "OperationalError"
            \/ /\ answer'[Seed] = "ok" /\ Complete'
               /\ Complete => UNCHANGED <<rows, products>>)
  BY SafeStep
<1> QED
  BY <1>1, SeedInductive, PTL DEF SeedSpec, SafeToRunRepeatedly
=============================================================================
