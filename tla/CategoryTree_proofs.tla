------------------------ MODULE CategoryTree_proofs ------------------------
(***************************************************************************)
(* For every number of ids, names, requests and products: the variables of *)
(* CategoryTree keep their types, the stored paths agree with the parent   *)
(* links in every committed state, and there is no cycle; sibling names    *)
(* stay unique, contents keep their category, paths fit, an update changes *)
(* what was sent and nothing else, and the service implements the forest   *)
(* of CategoryForest.                                                      *)
(*                                                                         *)
(* What a single change does to a table whose paths agree is proved in     *)
(* CategoryRules_proofs.  Here, first that every step keeps the inductive  *)
(* invariant IInv, one lemma per kind of step; then what each statement    *)
(* writes, and one section per part of KeepInv, each showing that a step   *)
(* that starts in IInv keeps it; last the theorems on steps.               *)
(***************************************************************************)
EXTENDS CategoryTree, CategoryRules_proofs

-----------------------------------------------------------------------------
(* The steps keep the inductive invariant                                   *)

\* The empty table of the beginning satisfies the inductive invariant.
THEOREM InitEstablishes == Init => IInv
<1> SUFFICES ASSUME Init PROVE IInv
  OBVIOUS
<1> USE DEF Init
<1>1. TypeOK
  <2>1. rows \in [Ids -> Row \cup {NoRow}] OBVIOUS
  <2>2. lastId \in (FirstId - 1) .. LastId BY IdsAssumption
  <2>3. products \in [Products -> Ids \cup {None}] OBVIOUS
  <2>4. pc \in [Requests -> {"idle", "waiting", "locked", "approved", "saved", "written"}]
    OBVIOUS
  <2>5. call \in [Requests -> Calls \cup {NoCall}] OBVIOUS
  <2>6. object \in [Requests -> Row \cup {NoRow}] OBVIOUS
  <2>7. oldPrefix \in [Requests -> Seq(Ids)] BY EmptySeq DEF ROOT_PATH
  <2>8. held \in [Requests -> SUBSET Ids] OBVIOUS
  <2>9. pending \in [Requests -> [Ids -> Row \cup {NoRow, Untouched}]] BY DEF NoWrites
  <2>10. answer \in [Requests -> Results] BY DEF Results
  <2> QED
    BY <2>1, <2>2, <2>3, <2>4, <2>5, <2>6, <2>7, <2>8, <2>9, <2>10 DEF TypeOK
<1>2. Existing(rows) = {}
  BY DEF Existing
<1>3. PathsAgree
  BY <1>2 DEF PathsAgree, TableAgrees
<1>4. LocksInv
  BY <1>2 DEF LocksInv
<1>5. NamedInv
  BY <1>2, IdsFacts DEF NamedInv, Named, NoCall, InTransaction
<1>6. PendingInv
  BY DEF PendingInv, NoWrites
<1>7. CheckedInv
  <2>1. \A r \in Requests : View(r) = rows
    BY DEF View, Written, NoWrites
  <2> QED
    BY <1>3, <2>1 DEF CheckedInv, Checked, PathsAgree
<1> QED
  BY <1>1, <1>3, <1>4, <1>5, <1>6, <1>7 DEF IInv

\* What a step leaves alone of a request.
SameRequest(q) ==
    /\ pc'[q] = pc[q] /\ call'[q] = call[q] /\ object'[q] = object[q]
    /\ oldPrefix'[q] = oldPrefix[q] /\ held'[q] = held[q] /\ pending'[q] = pending[q]

\* A step that leaves the table and a request alone leaves what the request checked true.
LEMMA CheckedFrame ==
  ASSUME NEW q \in Requests, rows' = rows, SameRequest(q), Checked(q)
  PROVE  Checked(q)'
BY DEF SameRequest, Checked, View, NewPrefix

\* The ways a request ends without a commit.
LEMMA EndKeeps ==
  ASSUME IInv, NEW r \in Requests, NEW x \in Results, EndRequest(r, x),
         rows' = rows, products' = products, lastId' \in lastId .. LastId
  PROVE  IInv'
<1> USE DEF IInv
<1>1. TypeOK'
  <2>1. NoWrites \in Writes
    BY DEF NoWrites, Writes
  <2>2. lastId' \in (FirstId - 1) .. LastId
    BY IdsAssumption DEF TypeOK
  <2> QED
    BY <2>1, <2>2, EmptySeq DEF TypeOK, EndRequest, ROOT_PATH, Writes
<1>2. PathsAgree'
  BY DEF PathsAgree
<1>3. /\ pc'[r] = "idle" /\ held'[r] = {} /\ pending'[r] = NoWrites /\ call'[r] = NoCall
      /\ \A q \in Requests \ {r} : SameRequest(q)
  BY DEF EndRequest, SameRequest, TypeOK
<1>4. Named(r)' = {}
  BY <1>3, IdsFacts DEF Named, NoCall
<1>5. \A q \in Requests \ {r} : Named(q)' = Named(q) /\ InTransaction(q)' = InTransaction(q)
  BY <1>3 DEF Named, SameRequest, InTransaction
<1>6. LocksInv'
  BY <1>3 DEF LocksInv, SameRequest
<1>7. NamedInv'
  <2>1. \A i \in Existing(rows) : i <= lastId'
    BY DEF NamedInv, TypeOK, Existing, Ids
  <2>2. ASSUME NEW q \in Requests, NEW i \in Named(q)' PROVE i <= lastId'
    <3>1. q # r /\ i \in Named(q)
      BY <1>4, <1>5
    <3>2. i <= lastId /\ i \in Ids
      BY <3>1 DEF NamedInv, Named
    <3> QED
      BY <3>2, IdsAssumption DEF TypeOK, Ids
  <2>3. ~InTransaction(r)'
    BY <1>3 DEF InTransaction
  <2> QED
    BY <1>3, <1>5, <2>1, <2>2, <2>3 DEF NamedInv, SameRequest
<1>8. PendingInv'
  <2>1. (\A i \in Ids : NoWrites[i] = Untouched) /\ Stored(NoWrites) = {}
    BY DEF NoWrites, Stored
  <2>2. ASSUME NEW q \in Requests \ {r}, NEW i \in Ids, Inserted(q, i)
        PROVE  Inserted(q, i)'
    <3>1. i <= lastId'
      BY <2>2, IdsAssumption DEF Inserted, TypeOK, Ids
    <3> QED
      BY <1>3, <1>4, <1>5, <2>1, <2>2, <3>1 DEF Inserted, SameRequest
  <2>3. ASSUME NEW q \in Requests, NEW p \in Requests, q # p, held'[q] # {}
        PROVE  /\ pc'[p] \in {"locked", "approved"} => pending'[p] = NoWrites
               /\ \A i \in Stored(pending'[p]) : pending'[p][i].parent = None
    <3>1. q # r /\ held'[q] = held[q]
      BY <1>3, <2>3 DEF SameRequest
    <3>2. CASE p = r
      BY <1>3, <2>1, <3>2
    <3>3. CASE p # r
      BY <1>3, <2>3, <3>1, <3>3 DEF SameRequest, PendingInv
    <3> QED
      BY <3>2, <3>3
  <2> QED
    BY <1>3, <2>1, <2>2, <2>3 DEF PendingInv, SameRequest
<1>9. CheckedInv'
  <2>1. View(r)' = rows'
    BY <1>1, <1>3 DEF View, Written, NoWrites, TypeOK
  <2>2. Checked(r)'
    BY <1>2, <1>3, <2>1 DEF Checked, PathsAgree
  <2> QED
    BY <1>3, <2>2, CheckedFrame DEF CheckedInv
<1> QED
  BY <1>1, <1>2, <1>6, <1>7, <1>8, <1>9

-----------------------------------------------------------------------------
(* What the clauses of the invariant say of one request                     *)

\* The committed table, and what each transaction sees, are tables.
LEMMA Types ==
  ASSUME TypeOK
  PROVE  /\ rows \in Tables
         /\ \A r \in Requests : pending[r] \in Writes /\ View(r) \in Tables
BY WrittenType DEF TypeOK, Tables, Writes, View

\* What a request may carry, by its operation.
LEMMA CallFacts ==
  ASSUME TypeOK, NEW r \in Requests
  PROVE  /\ call[r].op = "create" =>
              call[r].name \in Names /\ call[r].parent \in Ids \cup {None}
         /\ call[r].op = "update" =>
              /\ call[r].id \in Ids
              /\ call[r].name \in Names \cup {Unchanged}
              /\ call[r].parent \in Ids \cup {None, Unchanged}
         /\ call[r].op = "delete" => call[r].id \in Ids
<1>1. call[r] \in Calls \cup {NoCall}
  BY DEF TypeOK
<1> QED
  BY <1>1 DEF Calls, NoCall

\* A request that has written nothing sees the committed table.
LEMMA ViewOfRows ==
  ASSUME TypeOK, PendingInv, NEW r \in Requests,
         pc[r] = "idle" \/ (pc[r] \notin {"saved", "written"} /\ call[r].op # "create")
  PROVE  View(r) = rows /\ pending[r] = NoWrites
<1>1. pending[r] = NoWrites
  BY DEF PendingInv
<1> QED
  BY <1>1, Types DEF View, Written, NoWrites, Tables

\* Two statements one after the other.
LEMMA WrittenTwice ==
  ASSUME NEW T \in Tables, NEW v \in Writes, NEW w \in Writes
  PROVE  Written(T, Written(v, w)) = Written(Written(T, v), w)
BY DEF Written

\* A set of writes to one row changes that row of a table.
LEMMA WriteOne ==
  ASSUME NEW T \in Tables, NEW c \in Ids, NEW x \in Row \cup {NoRow}
  PROVE  LET w == [NoWrites EXCEPT ![c] = x]
         IN  /\ w \in Writes
             /\ w[c] = x /\ \A i \in Ids \ {c} : w[i] = Untouched
             /\ Written(NoWrites, w) = w
             /\ Written(T, w) = [T EXCEPT ![c] = x]
BY IdsFacts DEF NoWrites, Writes, Written, Tables

\* A category that exists and that a request in a transaction names is locked.
LEMMA NamedIsHeld ==
  ASSUME NamedInv, NEW r \in Requests, InTransaction(r),
         NEW i \in Existing(rows), i \in {call[r].id, call[r].parent}
  PROVE  i \in held[r]
BY DEF NamedInv, Named, Existing

\* Different parents give different paths.
LEMMA SameParent ==
  ASSUME NEW T \in Tables,
         NEW p \in Existing(T) \cup {None}, NEW q \in Existing(T) \cup {None},
         AncestorPathUnder(T, p) = AncestorPathUnder(T, q)
  PROVE  p = q
<1>1. \A i \in Existing(T) : i \in Ids /\ T[i].ancestor_path \in Seq(Ids)
  BY ExistingFacts, RowFields
<1>2. CASE p = None \/ q = None
  BY <1>1, <1>2, FullPathIsLonger DEF AncestorPathUnder
<1>3. CASE p # None /\ q # None
  BY <1>1, <1>3, FullPathInjective DEF AncestorPathUnder
<1> QED
  BY <1>2, <1>3

-----------------------------------------------------------------------------
(* One lemma per kind of step                                               *)

\* A step inside the transaction of r: it changes what r knows and has written.
LEMMA LocalStep ==
  ASSUME IInv, TypeOK', NEW r \in Requests, NEW w \in Writes,
         rows' = rows, lastId' \in lastId .. LastId,
         \A q \in Requests \ {r} : SameRequest(q),
         call'[r] = call[r], held'[r] = held[r], pending'[r] = Written(pending[r], w),
         InTransaction(r), InTransaction(r)',
         pc'[r] \notin {"saved", "written"} /\ call[r].op # "create" => pending'[r] = NoWrites,
         \A i \in Ids : w[i] # Untouched =>
            \/ i \in held[r]
            \/ /\ lastId < i /\ i <= lastId' /\ w[i] # NoRow
               /\ w[i].parent \in held[r] \cup Stored(pending[r]) \cup {None},
         \A i \in Ids : w[i] = NoRow => pending[r][i] = Untouched,
         (\E q \in Requests \ {r} : held[q] # {}) =>
            /\ pc'[r] \in {"locked", "approved"} => pending'[r] = NoWrites
            /\ \A i \in Stored(pending'[r]) : pending'[r][i].parent = None,
         Checked(r)'
  PROVE  IInv'
<1> USE DEF IInv
<1>1. PathsAgree'
  BY DEF PathsAgree
<1>2. \A q \in Requests : /\ held'[q] = held[q] /\ Named(q)' = Named(q)
                          /\ InTransaction(q)' = InTransaction(q)
  BY DEF SameRequest, Named, InTransaction
<1>3. LocksInv'
  BY <1>2 DEF LocksInv, SameRequest, InTransaction
<1>4. \A i \in Ids : i <= lastId => i <= lastId'
  BY IdsAssumption DEF TypeOK, Ids
<1>5. /\ \A i \in Existing(rows) : i \in Ids /\ i <= lastId
      /\ \A q \in Requests : \A i \in Named(q) : i \in Ids /\ i <= lastId
  BY DEF NamedInv, Existing, Named
<1>6. NamedInv'
  BY <1>2, <1>4, <1>5 DEF NamedInv
<1>7. ASSUME NEW q \in Requests, NEW i \in Ids, pending[q][i] # Untouched
      PROVE  i <= lastId
  BY <1>5, <1>7 DEF PendingInv, Inserted, LocksInv
<1>8. \A i \in Ids : lastId < i => ~(i <= lastId)
  BY IdsAssumption DEF TypeOK, Ids
<1>9. \A i \in Ids : pending'[r][i] = IF w[i] = Untouched THEN pending[r][i] ELSE w[i]
  BY DEF Written
<1>10. Stored(pending[r]) \subseteq Stored(pending'[r])
  BY <1>9 DEF Stored
<1>11. ASSUME NEW i \in Ids, pending'[r][i] # Untouched, i \notin held[r]
       PROVE  Inserted(r, i)'
  <2>1. CASE w[i] = Untouched
    <3>1. pending'[r][i] = pending[r][i] /\ Inserted(r, i)
      BY <1>9, <1>11, <2>1 DEF PendingInv
    <3> QED
      BY <1>2, <1>4, <1>10, <3>1 DEF Inserted, SameRequest, InTransaction
  <2>2. CASE w[i] # Untouched
    <3>1. /\ lastId < i /\ i <= lastId' /\ pending'[r][i] = w[i] /\ w[i] # NoRow
          /\ w[i].parent \in held[r] \cup Stored(pending[r]) \cup {None}
      BY <1>9, <1>11, <2>2
    <3>2. rows[i] = NoRow
      BY <1>5, <1>8, <3>1 DEF Existing
    <3>3. \A q \in Requests : i \notin Named(q) /\ pending[q][i] = Untouched
      BY <1>5, <1>7, <1>8, <3>1
    <3> QED
      BY <1>2, <1>10, <3>1, <3>2, <3>3 DEF Inserted, SameRequest, InTransaction
  <2> QED
    BY <2>1, <2>2
<1>12. ASSUME NEW q \in Requests, NEW i \in Ids, q # r, Inserted(q, i)
       PROVE  Inserted(q, i)'
  <2>1. i <= lastId /\ rows[i] = NoRow /\ pending[r][i] = Untouched
    BY <1>12 DEF Inserted
  <2>2. i \notin held[r]
    BY <2>1 DEF LocksInv, Existing
  <2>3. pending'[r][i] = Untouched
    BY <1>8, <1>9, <2>1, <2>2
  <2> QED
    BY <1>2, <1>4, <1>12, <2>1, <2>3 DEF Inserted, SameRequest
<1>13. ASSUME NEW p \in Requests, NEW q \in Requests, p # q, held'[p] # {}
       PROVE  /\ pc'[q] \in {"locked", "approved"} => pending'[q] = NoWrites
              /\ \A i \in Stored(pending'[q]) : pending'[q][i].parent = None
  <2>1. CASE q = r
    BY <1>2, <1>13, <2>1
  <2>2. CASE q # r
    BY <1>2, <1>13, <2>2 DEF PendingInv, SameRequest
  <2> QED
    BY <2>1, <2>2
<1>14. PendingInv'
  <2>1. ASSUME NEW q \in Requests,
               pc'[q] = "idle" \/ (pc'[q] \notin {"saved", "written"} /\ call'[q].op # "create")
        PROVE  pending'[q] = NoWrites
    BY <2>1 DEF PendingInv, SameRequest, InTransaction
  <2>2. ASSUME NEW q \in Requests, NEW i \in Ids, pending'[q][i] # Untouched
        PROVE  i \in held'[q] \/ Inserted(q, i)'
    BY <1>2, <1>11, <1>12, <2>2 DEF PendingInv, SameRequest
  <2> QED
    BY <1>13, <2>1, <2>2 DEF PendingInv
<1>15. CheckedInv'
  BY CheckedFrame DEF CheckedInv
<1> QED
  BY <1>1, <1>3, <1>6, <1>14, <1>15

\* Asking something of the service, for the first time or after earlier calls.
LEMMA AskKeeps ==
  ASSUME IInv, TypeOK', NEW r \in Requests, pc[r] \in {"idle", "written"},
         pc'[r] \in {"waiting", "written"},
         rows' = rows, lastId' = lastId, held' = held, pending' = pending,
         \A q \in Requests \ {r} : SameRequest(q),
         pc'[r] = "waiting" => call'[r].op = "create" \/ pending[r] = NoWrites,
         \A i \in Named(r)' :
            /\ i <= lastId /\ pc'[r] = "waiting"
            /\ \A q \in Requests \ {r} : pending[q][i] = Untouched \/ rows[i] # NoRow
  PROVE  IInv'
<1> USE DEF IInv
<1>1. PathsAgree'
  BY DEF PathsAgree
<1>2. LocksInv'
  BY DEF LocksInv, SameRequest
<1>3. \A q \in Requests \ {r} : /\ Named(q)' = Named(q)
                                /\ InTransaction(q)' = InTransaction(q)
  BY DEF Named, InTransaction, SameRequest
<1>4. InTransaction(r)' => Named(r)' = {}
  BY DEF InTransaction
<1>5. NamedInv'
  BY <1>3, <1>4 DEF NamedInv
<1>6. ASSUME NEW q \in Requests, NEW i \in Ids, Inserted(q, i), pending[q][i] # Untouched
      PROVE  Inserted(q, i)'
  BY <1>3, <1>6 DEF Inserted, SameRequest
<1>7. PendingInv'
  BY <1>6 DEF PendingInv, SameRequest
<1>8. CheckedInv'
  <2>1. View(r)' = View(r)
    BY DEF View
  <2>2. Checked(r)'
    BY <2>1 DEF CheckedInv, Checked
  <2> QED
    BY <2>2, CheckedFrame DEF CheckedInv
<1> QED
  BY <1>1, <1>2, <1>5, <1>7, <1>8

\* A request that arrives holds no lock and wrote nothing.
LEMMA ReceiveKeeps ==
  ASSUME IInv, NEW r \in Requests, NEW request \in Calls, Receive(r, request),
         {request.id, request.parent} \cap Ids \subseteq Existing(rows)
  PROVE  IInv'
<1> USE DEF IInv
<1>1. TypeOK'
  BY DEF TypeOK, Receive, tables, Results
<1>2. /\ pc[r] = "idle" /\ pc'[r] = "waiting" /\ call'[r] = request
      /\ rows' = rows /\ lastId' = lastId /\ held' = held /\ pending' = pending
      /\ \A q \in Requests \ {r} : SameRequest(q)
  BY DEF Receive, tables, TypeOK, SameRequest
<1>3. pending[r] = NoWrites
  BY <1>2 DEF PendingInv
<1>4. ASSUME NEW i \in Named(r)'
      PROVE  i <= lastId /\ rows[i] # NoRow
  BY <1>2 DEF Named, NamedInv, Existing
<1> QED
  BY <1>1, <1>2, <1>3, <1>4, AskKeeps

\* Locking the rows writes nothing.
LEMMA LockTreeKeeps ==
  ASSUME IInv, NEW r \in Requests, LockTree(r)
  PROVE  IInv'
<1> USE DEF IInv
<1>1. TypeOK'
  BY DEF TypeOK, LockTree, tables, Existing
<1>2. /\ pc[r] = "waiting" /\ pc'[r] = "locked" /\ held'[r] = Existing(rows)
      /\ rows' = rows /\ lastId' = lastId /\ call' = call /\ pending' = pending
      /\ \A q \in Requests \ {r} : SameRequest(q) /\ held[q] = {} /\ pending[q] = NoWrites
  BY DEF LockTree, Unlocked, tables, TypeOK, SameRequest
<1>3. PathsAgree'
  BY <1>2 DEF PathsAgree
<1>4. \A i \in Existing(rows) : rows[i].parent \in Existing(rows) \cup {None}
  BY Types, AgreesAt DEF PathsAgree
<1>5. LocksInv'
  BY <1>2, <1>4 DEF LocksInv, SameRequest
<1>6. \A q \in Requests : Named(q)' = Named(q)
  BY <1>2 DEF Named
<1>7. \A q \in Requests \ {r} : InTransaction(q)' = InTransaction(q)
  BY <1>2 DEF InTransaction, SameRequest
<1>8. NamedInv'
  BY <1>2, <1>6, <1>7 DEF NamedInv, SameRequest, Existing, Named
<1>9. /\ \A q \in Requests \ {r}, i \in Ids : pending[q][i] = Untouched
      /\ \A q \in Requests \ {r} : Stored(pending[q]) = {}
  BY <1>2 DEF Stored, NoWrites
<1>10. PendingInv'
  <2>1. ASSUME NEW i \in Ids, pending[r][i] # Untouched
        PROVE  i \in held'[r] \/ Inserted(r, i)'
    <3>1. CASE i \in held[r]
      BY <1>2, <3>1 DEF LocksInv
    <3>2. CASE Inserted(r, i)
      BY <1>2, <1>6, <3>2 DEF Inserted, LocksInv
    <3> QED
      BY <2>1, <3>1, <3>2 DEF PendingInv
  <2>2. ASSUME NEW q \in Requests,
               pc'[q] = "idle" \/ (pc'[q] \notin {"saved", "written"} /\ call[q].op # "create")
        PROVE  pending[q] = NoWrites
    BY <1>2, <2>2 DEF PendingInv
  <2>3. ASSUME NEW q \in Requests, NEW p \in Requests, q # p, held'[q] # {}
        PROVE  p # r
    BY <1>2, <2>3 DEF SameRequest
  <2> QED
    BY <1>2, <1>9, <2>1, <2>2, <2>3 DEF PendingInv
<1>11. CheckedInv'
  <2>1. View(r)' = View(r)
    BY <1>2 DEF View
  <2>2. Checked(r)'
    BY <1>2, <2>1 DEF CheckedInv, Checked
  <2> QED
    BY <1>2, <2>2, CheckedFrame DEF CheckedInv
<1> QED
  BY <1>1, <1>3, <1>5, <1>8, <1>10, <1>11

\* A check that a request passes: it goes on with the object it has drafted.
LEMMA ApprovalKeeps ==
  ASSUME IInv, NEW r \in Requests, pc[r] = "locked", TypeOK',
         pc' = [pc EXCEPT ![r] = "approved"], UNCHANGED <<tables, call, held, pending>>,
         \A q \in Requests \ {r} : SameRequest(q), Checked(r)'
  PROVE  IInv'
<1> USE DEF IInv
<1>1. pc'[r] = "approved" /\ pending[r] \in Writes
  BY Types DEF TypeOK
<1>2. NoWrites \in Writes /\ (\A i \in Ids : NoWrites[i] = Untouched) /\ Untouched # NoRow
  BY IdsFacts DEF NoWrites, Writes
<1>3. pending'[r] = Written(pending[r], NoWrites)
  BY <1>1 DEF Written, Writes, NoWrites
<1>4. rows' = rows /\ lastId' \in lastId .. LastId
  BY IdsAssumption DEF tables, TypeOK
<1>5. InTransaction(r) /\ InTransaction(r)'
  BY <1>1 DEF InTransaction
<1>6. call[r].op # "create" => pending'[r] = NoWrites
  BY DEF PendingInv
<1>7. (\E q \in Requests \ {r} : held[q] # {}) =>
        /\ pending'[r] = NoWrites
        /\ \A i \in Stored(pending'[r]) : pending'[r][i].parent = None
  BY DEF PendingInv
<1> QED
  BY <1>1, <1>2, <1>3, <1>4, <1>5, <1>6, <1>7, LocalStep

\* `create_category` drafts its row from the table as its transaction sees it.
LEMMA CheckCreateKeeps ==
  ASSUME IInv, NEW r \in Requests, CheckCreate(r)
  PROVE  IInv'
<1> DEFINE p == call[r].parent
           row == [parent |-> p, name |-> call[r].name,
                   ancestor_path |-> AncestorPathUnder(View(r), p)]
           verdict == CreateVerdict(View(r), call[r], row)
<1> USE DEF IInv
<1>1. pc[r] = "locked" /\ call[r].op = "create" /\ TableAgrees(View(r))
  BY DEF CheckCreate, CheckedInv, Checked
<1>2. p \in Ids \cup {None} /\ call[r].name \in Names /\ View(r) \in Tables
  BY <1>1, CallFacts, Types
<1>3. CASE verdict # "ok"
  <2>1. verdict \in Results
    BY DEF CreateVerdict, Results
  <2>2. EndRequest(r, verdict) /\ UNCHANGED tables
    BY <1>3 DEF CheckCreate, Refuse
  <2> HIDE DEF verdict
  <2> QED
    BY <2>1, <2>2, EndKeeps, IdsAssumption DEF tables, TypeOK
<1>4. CASE verdict = "ok"
  <2>1. /\ object' = [object EXCEPT ![r] = row] /\ pc' = [pc EXCEPT ![r] = "approved"]
        /\ UNCHANGED <<tables, call, oldPrefix, held, pending, answer>>
    BY <1>4 DEF CheckCreate
  <2>2. ~Gone(View(r), p) /\ p \in Existing(View(r)) \cup {None}
    BY <1>2, <1>4 DEF CreateVerdict, Gone, Existing
  <2>3. row \in Row
    BY <1>2, <2>2, AncestorPathType DEF Row
  <2> HIDE DEF verdict
  <2>4. /\ pc'[r] = "approved" /\ object'[r] = row /\ call'[r] = call[r]
        /\ rows' = rows /\ pending'[r] = pending[r]
        /\ \A q \in Requests \ {r} : SameRequest(q)
    BY <2>1 DEF tables, SameRequest, TypeOK
  <2>5. View(r)' = View(r)
    BY <2>4 DEF View
  <2>6. Checked(r)'
    BY <1>1, <2>2, <2>4, <2>5 DEF Checked
  <2>7. TypeOK'
    BY <2>1, <2>3 DEF TypeOK, tables
  <2> QED
    BY <1>1, <2>1, <2>4, <2>6, <2>7, ApprovalKeeps
<1> QED
  BY <1>3, <1>4

\* `update_category` approves a move only out of the subtree, under the lock.
LEMMA CheckUpdateKeeps ==
  ASSUME IInv, NEW r \in Requests, CheckUpdate(r)
  PROVE  IInv'
<1> DEFINE c == call[r].id
           gone == Gone(View(r), c) \/ Gone(View(r), call[r].parent)
           row == Wanted(View(r), call[r])
           verdict == IF gone THEN "DoesNotExist" ELSE UpdateVerdict(View(r), call[r], row)
<1> USE DEF IInv
<1>1. pc[r] = "locked" /\ call[r].op = "update" /\ View(r) = rows /\ pending[r] = NoWrites
  BY ViewOfRows DEF CheckUpdate
<1>2. /\ c \in Ids /\ rows \in Tables
      /\ call[r].name \in Names \cup {Unchanged}
      /\ call[r].parent \in Ids \cup {None, Unchanged}
  BY <1>1, CallFacts, Types
<1>3. CASE verdict # "ok"
  <2>1. verdict \in Results
    BY DEF UpdateVerdict, Results
  <2>2. EndRequest(r, verdict) /\ UNCHANGED tables
    BY <1>3 DEF CheckUpdate, Refuse
  <2> HIDE DEF verdict
  <2> QED
    BY <2>1, <2>2, EndKeeps, IdsAssumption DEF tables, TypeOK
<1>4. CASE verdict = "ok"
  <2>1. /\ object' = [object EXCEPT ![r] = row] /\ pc' = [pc EXCEPT ![r] = "approved"]
        /\ oldPrefix' = [oldPrefix EXCEPT ![r] = PathOf(rows, c)]
        /\ UNCHANGED <<tables, call, held, pending, answer>>
    BY <1>1, <1>4 DEF CheckUpdate
  <2>2. ~gone /\ UpdateVerdict(rows, call[r], row) = "ok"
    BY <1>1, <1>4
  <2>3. c \in Existing(rows) /\ c \in held[r]
    BY <1>1, <1>2, <2>2, NamedIsHeld DEF Gone, Existing, InTransaction
  <2>4. row.parent \in held[r] \cup {None}
    <3>1. CASE call[r].parent = Unchanged
      BY <1>1, <2>3, <3>1 DEF Wanted, LocksInv
    <3>2. CASE call[r].parent # Unchanged
      <4>1. row.parent = call[r].parent
        BY <3>2 DEF Wanted
      <4>2. call[r].parent \in Existing(rows) \cup {None}
        BY <1>1, <1>2, <2>2, <3>2 DEF Gone, Existing
      <4> QED
        BY <1>1, <4>1, <4>2, NamedIsHeld DEF InTransaction
    <3> QED
      BY <3>1, <3>2
  <2>5. row.ancestor_path = AncestorPathUnder(rows, row.parent)
    BY <1>1 DEF Wanted
  <2>6. row.parent \in Existing(rows) \cup {None}
    BY <2>4 DEF LocksInv
  <2>7. row.ancestor_path \in Seq(Ids)
    BY <1>2, <2>5, <2>6, AncestorPathType
  <2>8. row \in Row
    <3>1. rows[c] \in Row
      BY <1>2, <2>3, ExistingFacts
    <3>2. row.name \in Names
      BY <1>1, <1>2, <3>1, RowFields DEF Wanted
    <3>3. row = [parent |-> row.parent, name |-> row.name, ancestor_path |-> row.ancestor_path]
      BY DEF Wanted
    <3>4. row.parent \in Ids \cup {None}
      BY <2>6 DEF Existing
    <3> HIDE DEF row
    <3> QED
      BY <2>7, <3>2, <3>3, <3>4 DEF Row
  <2> HIDE DEF row, verdict, gone
  <2>9. \/ FullPath(row.ancestor_path, c) = PathOf(rows, c)
        \/ ~StartsWith(row.ancestor_path, PathOf(rows, c))
    <3>1. CASE row.ancestor_path = rows[c].ancestor_path
      BY <3>1 DEF PathOf
    <3>2. CASE row.ancestor_path # rows[c].ancestor_path /\ row.parent # None
      BY <2>2, <3>2 DEF UpdateVerdict, MovedIntoOwnSubtree
    <3>3. CASE row.parent = None
      BY <1>2, <2>3, <2>5, <3>3, ExistingFacts, RowFields, FullPathIsLonger
         DEF AncestorPathUnder, PathOf
    <3> QED
      BY <3>1, <3>2, <3>3
  <2>10. /\ pc'[r] = "approved" /\ object'[r] = row /\ oldPrefix'[r] = PathOf(rows, c)
         /\ call' = call /\ held' = held
         /\ rows' = rows /\ lastId' = lastId /\ pending' = pending
         /\ \A q \in Requests \ {r} : SameRequest(q)
    BY <2>1 DEF tables, SameRequest, TypeOK
  <2>11. View(r)' = rows' /\ TableAgrees(rows')
    BY <1>1, <2>10 DEF View, PathsAgree
  <2>12. Checked(r)'
    BY <1>1, <2>3, <2>4, <2>5, <2>8, <2>9, <2>10, <2>11, IdsFacts DEF Checked, NewPrefix
  <2>13. PathOf(rows, c) \in Seq(Ids)
    BY <1>2, <2>3, ExistingFacts, RowFields, FullPathIsLonger DEF PathOf
  <2>14. TypeOK'
    BY <2>1, <2>8, <2>13 DEF TypeOK, tables
  <2> QED
    BY <1>1, <2>1, <2>10, <2>12, <2>14, ApprovalKeeps
<1> QED
  BY <1>3, <1>4

\* `delete_category` approves only a category without children, under the lock.
LEMMA CheckDeleteKeeps ==
  ASSUME IInv, NEW r \in Requests, CheckDelete(r)
  PROVE  IInv'
<1> USE DEF IInv
<1>1. pc[r] = "locked" /\ call[r].op = "delete" /\ View(r) = rows /\ pending[r] = NoWrites
  BY ViewOfRows DEF CheckDelete
<1>2. CASE InUse(View(r), call[r].id)
  <2>1. EndRequest(r, "CategoryInUse") /\ UNCHANGED tables
    BY <1>2 DEF CheckDelete, Refuse
  <2> QED
    BY <2>1, EndKeeps, IdsAssumption DEF tables, TypeOK, Results
<1>3. CASE ~InUse(View(r), call[r].id)
  <2>1. /\ pc' = [pc EXCEPT ![r] = "approved"]
        /\ UNCHANGED <<tables, call, object, oldPrefix, held, pending, answer>>
    BY <1>3 DEF CheckDelete
  <2>2. /\ pc'[r] = "approved" /\ call' = call /\ held' = held
        /\ rows' = rows /\ lastId' = lastId /\ pending' = pending
        /\ \A q \in Requests \ {r} : SameRequest(q)
    BY <2>1 DEF tables, SameRequest, TypeOK
  <2>3. View(r)' = rows' /\ TableAgrees(rows')
    BY <1>1, <2>2 DEF View, PathsAgree
  <2>4. Checked(r)'
    BY <1>1, <1>3, <2>2, <2>3 DEF Checked, InUse
  <2>5. TypeOK'
    BY <2>1 DEF TypeOK, tables
  <2> QED
    BY <1>1, <2>1, <2>2, <2>4, <2>5, ApprovalKeeps
<1> QED
  BY <1>2, <1>3

\* A statement of r that the database accepts.
LEMMA WriteKeeps ==
  ASSUME IInv, NEW r \in Requests, NEW w \in Writes, NEW next \in {"saved", "written"},
         InTransaction(r),
         rows' = rows, products' = products, lastId' \in lastId .. LastId,
         pending' = [pending EXCEPT ![r] = Written(@, w)],
         pc' = [pc EXCEPT ![r] = next],
         UNCHANGED <<call, object, oldPrefix, held, answer>>,
         \A i \in Ids : w[i] # Untouched =>
            \/ i \in held[r]
            \/ /\ lastId < i /\ i <= lastId' /\ w[i] # NoRow
               /\ w[i].parent \in held[r] \cup Stored(pending[r]) \cup {None},
         \A i \in Ids : w[i] = NoRow => pending[r][i] = Untouched,
         (\E q \in Requests \ {r} : held[q] # {}) =>
            pending[r] = NoWrites /\ \A i \in Stored(w) : w[i].parent = None,
         Checked(r)'
  PROVE  IInv'
<1> USE DEF IInv
<1>1. pending[r] \in Writes
  BY Types
<1>2. /\ pc'[r] = next /\ pending'[r] = Written(pending[r], w)
      /\ \A q \in Requests \ {r} : SameRequest(q)
  BY DEF SameRequest, TypeOK
<1>3. pending'[r] \in Writes
  BY <1>1, <1>2 DEF Writes, Written
<1>4. TypeOK'
  <2>1. pending' \in [Requests -> Writes]
    BY <1>1, <1>2, <1>3 DEF TypeOK, Writes
  <2>2. lastId' \in (FirstId - 1) .. LastId
    BY IdsAssumption DEF TypeOK
  <2> QED
    BY <2>1, <2>2 DEF TypeOK, Writes
<1>5. InTransaction(r)'
  BY <1>2 DEF InTransaction
<1>6. (\E q \in Requests \ {r} : held[q] # {}) =>
        /\ pc'[r] \in {"locked", "approved"} => pending'[r] = NoWrites
        /\ \A i \in Stored(pending'[r]) : pending'[r][i].parent = None
  <2>1. Written(NoWrites, w) = w
    BY DEF Written, NoWrites, Writes
  <2> QED
    BY <1>2, <2>1
<1> QED
  BY <1>2, <1>4, <1>5, <1>6, LocalStep

\* A statement that a constraint refuses, or that is accepted.
LEMMA WriteEnds ==
  ASSUME IInv, NEW r \in Requests, NEW w, NEW next, Write(r, w, next),
         rows' = rows, products' = products, lastId' \in lastId .. LastId
  PROVE  \/ IInv'
         \/ /\ pending' = [pending EXCEPT ![r] = Written(@, w)]
            /\ pc' = [pc EXCEPT ![r] = next]
            /\ UNCHANGED <<call, object, oldPrefix, held, answer>>
<1>1. "IntegrityError" \in Results
  BY DEF Results
<1> QED
  BY <1>1, EndKeeps DEF Write

\* The insert writes the drafted row under a new id.
LEMMA InsertKeeps ==
  ASSUME IInv, NEW r \in Requests, Insert(r)
  PROVE  IInv'
<1> DEFINE c == lastId + 1
           w == [NoWrites EXCEPT ![c] = object[r]]
<1> USE DEF IInv
<1>1. /\ pc[r] = "approved" /\ call[r].op = "create" /\ TableAgrees(View(r))
      /\ View(r) \in Tables /\ pending[r] \in Writes
  BY Types DEF Insert, CheckedInv, Checked
<1>2. PICK p : p = call[r].parent
  OBVIOUS
<1>3. /\ object[r] # NoRow /\ object[r] \in Row
      /\ object[r].parent = p /\ p \in Ids \cup {None} /\ p \in Existing(View(r)) \cup {None}
      /\ object[r].ancestor_path = AncestorPathUnder(View(r), p)
  <2>1. /\ object[r] = [parent |-> call[r].parent, name |-> call[r].name,
                        ancestor_path |-> AncestorPathUnder(View(r), call[r].parent)]
        /\ ~Gone(View(r), call[r].parent)
    BY <1>1 DEF CheckedInv, Checked
  <2>2. p \in Ids \cup {None} /\ call[r].name \in Names /\ p \in Existing(View(r)) \cup {None}
    BY <1>1, <1>2, <2>1, CallFacts DEF Gone, Existing
  <2>3. object[r] \in Row
    BY <1>1, <1>2, <2>1, <2>2, AncestorPathType DEF Row
  <2> QED
    BY <1>2, <2>1, <2>2, <2>3, IdsFacts
<1>4. p \in held[r] \cup Stored(pending[r]) \cup {None}
  <2>1. SUFFICES ASSUME p \in Ids, p \in Existing(View(r)), pending[r][p] = Untouched
                 PROVE  p \in held[r]
    BY <1>3 DEF Existing, View, Written, Stored
  <2>2. p \in Existing(rows)
    BY <2>1 DEF Existing, View, Written
  <2> QED
    BY <1>1, <1>2, <2>2, NamedIsHeld DEF InTransaction
<1>5. CASE ~(lastId < LastId)
  <2>1. EndRequest(r, "OperationalError") /\ UNCHANGED tables
    BY <1>5 DEF Insert, Refuse
  <2> QED
    BY <2>1, EndKeeps, IdsAssumption DEF tables, TypeOK, Results
<1>6. CASE lastId < LastId
  <2>1. Write(r, w, "written") /\ lastId' = c /\ UNCHANGED <<rows, products>>
    BY <1>6 DEF Insert
  <2>2. /\ c \in Ids /\ lastId' \in lastId .. LastId /\ lastId < c /\ c <= lastId'
        /\ ~(c <= lastId)
    BY <1>6, <2>1, IdsAssumption DEF TypeOK, Ids
  <2> HIDE DEF c
  <2>3. pending[r][c] = Untouched /\ rows[c] = NoRow /\ View(r)[c] = NoRow
    <3>1. rows[c] = NoRow
      BY <2>2 DEF NamedInv, Existing
    <3>2. pending[r][c] = Untouched
      BY <2>2, <3>1 DEF PendingInv, Inserted, LocksInv, Existing
    <3> QED
      BY <2>2, <3>1, <3>2 DEF View, Written
  <2>4. /\ w \in Writes /\ w[c] = object[r] /\ \A i \in Ids \ {c} : w[i] = Untouched
        /\ Written(View(r), w) = [View(r) EXCEPT ![c] = object[r]]
    BY <1>1, <1>3, <2>2, WriteOne
  <2> HIDE DEF w
  <2>5. TableAgrees(Written(View(r), w))
    BY <1>1, <1>3, <2>2, <2>3, <2>4, InsertAgrees, ZenonT(60)
  <2>6. CASE /\ pending' = [pending EXCEPT ![r] = Written(@, w)]
             /\ pc' = [pc EXCEPT ![r] = "written"]
             /\ UNCHANGED <<call, object, oldPrefix, held, answer>>
    <3>1. pending'[r] = Written(pending[r], w) /\ pc'[r] = "written"
      BY <2>6 DEF TypeOK
    <3>2. View(r)' = Written(View(r), w)
      <4>1. View(r)' = Written(rows, Written(pending[r], w))
        BY <2>1, <3>1 DEF View
      <4> QED
        BY <1>1, <2>4, <4>1, Types, WrittenTwice DEF View
    <3>3. Checked(r)'
      BY <2>5, <3>1, <3>2 DEF Checked
    <3>4. /\ \A i \in Ids : w[i] # Untouched =>
               /\ lastId < i /\ i <= lastId'
               /\ w[i] # NoRow /\ w[i].parent \in held[r] \cup Stored(pending[r]) \cup {None}
          /\ \A i \in Ids : w[i] # NoRow
      BY <1>3, <1>4, <2>2, <2>4, IdsFacts
    <3>5. InTransaction(r)
      BY <1>1 DEF InTransaction
    <3>6. ASSUME NEW q \in Requests \ {r}, held[q] # {}
          PROVE  pending[r] = NoWrites /\ \A i \in Stored(w) : w[i].parent = None
      <4>1. pending[r] = NoWrites /\ held[r] = {}
        BY <1>1, <3>6 DEF PendingInv, LocksInv
      <4>2. Stored(pending[r]) = {}
        BY <4>1 DEF Stored, NoWrites
      <4> QED
        BY <3>4, <4>1, <4>2 DEF Stored
    <3> QED
      BY <2>1, <2>2, <2>4, <2>6, <3>3, <3>4, <3>5, <3>6, WriteKeeps
  <2> QED
    BY <2>1, <2>2, <2>6, WriteEnds
<1> QED
  BY <1>5, <1>6

\* The row is saved, and its descendants still carry the old path.
LEMMA SaveRowKeeps ==
  ASSUME IInv, NEW r \in Requests, SaveRow(r)
  PROVE  IInv'
<1> DEFINE c == call[r].id
           w == [NoWrites EXCEPT ![c] = object[r]]
           next == IF NewPrefix(r) = oldPrefix[r] THEN "written" ELSE "saved"
<1> USE DEF IInv
<1>1. pc[r] = "approved" /\ call[r].op = "update" /\ View(r) = rows /\ pending[r] = NoWrites
  BY ViewOfRows DEF SaveRow
<1>2. /\ object[r] \in Row /\ object[r].parent \in held[r] \cup {None}
      /\ object[r].ancestor_path = AncestorPathUnder(rows, object[r].parent)
      /\ c \in held[r] /\ oldPrefix[r] = PathOf(rows, c)
      /\ NewPrefix(r) = oldPrefix[r] \/ ~StartsWith(object[r].ancestor_path, oldPrefix[r])
  BY <1>1 DEF Checked, CheckedInv, TypeOK
<1>3. /\ c \in Ids /\ c \in Existing(rows) /\ rows \in Tables
      /\ object[r].parent \in Existing(rows) \cup {None}
  BY <1>2, Types DEF LocksInv, Existing
<1>4. Write(r, w, next) /\ rows' = rows /\ products' = products /\ lastId' = lastId
  BY DEF SaveRow, tables
<1>5. lastId' \in lastId .. LastId
  BY <1>4, IdsAssumption DEF TypeOK
<1>6. /\ w \in Writes /\ w[c] = object[r] /\ \A i \in Ids \ {c} : w[i] = Untouched
      /\ Written(NoWrites, w) = w /\ Written(rows, w) = [rows EXCEPT ![c] = object[r]]
  BY <1>2, <1>3, WriteOne
<1>7. next \in {"saved", "written"}
  OBVIOUS
<1>8. NewPrefix(r) = oldPrefix[r] => TableAgrees(Written(rows, w))
  <2>1. SUFFICES ASSUME NewPrefix(r) = oldPrefix[r] PROVE TableAgrees(Written(rows, w))
    OBVIOUS
  <2>2. rows[c].ancestor_path \in Seq(Ids) /\ object[r].ancestor_path \in Seq(Ids)
    BY <1>2, <1>3, ExistingFacts, RowFields
  <2>3. object[r].ancestor_path = rows[c].ancestor_path
    BY <1>2, <1>3, <2>1, <2>2, FullPathInjective DEF NewPrefix, PathOf
  <2>4. object[r].parent = rows[c].parent
    <3>1. /\ rows[c].parent \in Existing(rows) \cup {None}
          /\ rows[c].ancestor_path = AncestorPathUnder(rows, rows[c].parent)
      BY <1>3, AgreesAt DEF PathsAgree
    <3>2. AncestorPathUnder(rows, object[r].parent) = AncestorPathUnder(rows, rows[c].parent)
      BY <1>2, <2>3, <3>1
    <3> QED
      BY <1>3, <3>1, <3>2, SameParent
  <2> QED
    BY <1>2, <1>3, <1>6, <2>3, <2>4, RenameAgrees DEF PathsAgree
<1>9. CASE /\ pending' = [pending EXCEPT ![r] = Written(@, w)]
           /\ pc' = [pc EXCEPT ![r] = next]
           /\ UNCHANGED <<call, object, oldPrefix, held, answer>>
  <2>1. /\ pending'[r] = w /\ pc'[r] = next /\ call'[r] = call[r] /\ object'[r] = object[r]
        /\ oldPrefix'[r] = oldPrefix[r] /\ held'[r] = held[r] /\ NewPrefix(r)' = NewPrefix(r)
    BY <1>1, <1>6, <1>9 DEF TypeOK, NewPrefix
  <2>2. View(r)' = Written(rows, w)
    BY <1>4, <2>1 DEF View
  <2>3. Checked(r)'
    <3>1. CASE NewPrefix(r) = oldPrefix[r]
      BY <1>8, <2>1, <2>2, <3>1 DEF Checked
    <3>2. CASE NewPrefix(r) # oldPrefix[r]
      BY <1>1, <1>2, <1>4, <2>1, <3>2, IdsFacts DEF Checked
    <3> QED
      BY <3>1, <3>2
  <2>4. \A i \in Ids : w[i] # Untouched => i \in held[r]
    BY <1>2, <1>6
  <2>5. InTransaction(r) /\ \A i \in Ids : pending[r][i] = Untouched
    BY <1>1 DEF InTransaction, NoWrites
  <2>6. ~\E q \in Requests \ {r} : held[q] # {}
    BY <1>2 DEF LocksInv
  <2> HIDE DEF w, next
  <2> QED
    BY <1>4, <1>5, <1>6, <1>7, <1>9, <2>3, <2>4, <2>5, <2>6, WriteKeeps
<1> HIDE DEF w, next
<1> QED
  BY <1>4, <1>5, <1>9, WriteEnds

\* Once the descendants are rewritten, what the transaction sees agrees again.
LEMMA RewriteDescendantsKeeps ==
  ASSUME IInv, NEW r \in Requests, RewriteDescendants(r)
  PROVE  IInv'
<1> DEFINE c == call[r].id
           saved == [rows EXCEPT ![c] = object[r]]
           v == [NoWrites EXCEPT ![c] = object[r]]
           w == Rewritten(saved, oldPrefix[r], NewPrefix(r))
<1> USE DEF IInv
<1>1. pc[r] = "saved" /\ call[r].op = "update" /\ pending[r] = v
  BY DEF RewriteDescendants, CheckedInv, Checked
<1>2. /\ object[r] \in Row /\ object[r].parent \in held[r] \cup {None}
      /\ object[r].ancestor_path = AncestorPathUnder(rows, object[r].parent)
      /\ c \in held[r] /\ oldPrefix[r] = PathOf(rows, c)
      /\ ~StartsWith(object[r].ancestor_path, oldPrefix[r])
  BY <1>1 DEF Checked, CheckedInv, TypeOK
<1>3. /\ c \in Ids /\ c \in Existing(rows) /\ rows \in Tables
      /\ object[r].parent \in Existing(rows) \cup {None}
  BY <1>2, Types DEF LocksInv, Existing
<1>4. /\ v \in Writes /\ v[c] = object[r] /\ \A i \in Ids \ {c} : v[i] = Untouched
      /\ Written(rows, v) = saved
  BY <1>2, <1>3, WriteOne
<1>5. View(r) = saved
  BY <1>1, <1>4 DEF View
<1>6. saved \in Tables /\ Existing(saved) = Existing(rows)
  BY <1>2, <1>3, IdsFacts DEF Tables, Existing
<1>7. oldPrefix[r] \in Seq(Ids) /\ NewPrefix(r) \in Seq(Ids)
  <2>1. object[r].ancestor_path \in Seq(Ids) /\ rows[c].ancestor_path \in Seq(Ids)
    BY <1>2, <1>3, ExistingFacts, RowFields
  <2> QED
    BY <1>2, <1>3, <2>1, FullPathIsLonger DEF NewPrefix, PathOf
<1>8. w \in Writes
  <2>1. ASSUME NEW i \in Existing(saved)
        PROVE  [saved[i] EXCEPT !.ancestor_path = Rebase(@, oldPrefix[r], NewPrefix(r))] \in Row
    <3>1. saved[i] \in Row /\ saved[i].ancestor_path \in Seq(Ids)
      BY <1>6, ExistingFacts, RowFields
    <3>2. Rebase(saved[i].ancestor_path, oldPrefix[r], NewPrefix(r)) \in Seq(Ids)
      BY <1>7, <3>1, RebaseType
    <3> QED
      BY <3>1, <3>2 DEF Row
  <2> HIDE DEF saved
  <2> QED
    BY <2>1 DEF Writes, Rewritten, UnderPath
<1>9. \A i \in Ids : w[i] # Untouched => i \in held[r]
  <2>1. SUFFICES ASSUME NEW i \in Ids, i \in UnderPath(saved, oldPrefix[r]), i # c
                 PROVE  i \in held[r]
    BY <1>2 DEF Rewritten
  <2>2. i \in Existing(rows) /\ saved[i] = rows[i]
    BY <1>3, <1>6, <2>1 DEF UnderPath, Tables
  <2>3. StartsWith(rows[i].ancestor_path, oldPrefix[r])
    BY <2>1, <2>2 DEF UnderPath
  <2>4. rows[i].parent # None
    <3>1. rows[c].ancestor_path \in Seq(Ids)
      BY <1>3, ExistingFacts, RowFields
    <3>2. ~StartsWith(ROOT_PATH, oldPrefix[r])
      BY <1>2, <1>3, <3>1, FullPathIsLonger DEF PathOf
    <3> QED
      BY <1>3, <2>2, <2>3, <3>2, AgreesAt DEF PathsAgree, AncestorPathUnder
  <2> QED
    BY <1>2, <2>2, <2>4 DEF LocksInv
<1>10. TableAgrees(Written(saved, w))
  BY <1>2, <1>3, MoveAgrees DEF PathsAgree, NewPrefix
<1>11. /\ Write(r, w, "written")
       /\ rows' = rows /\ products' = products /\ lastId' = lastId
  BY <1>5 DEF RewriteDescendants, tables
<1>12. lastId' \in lastId .. LastId
  BY <1>11, IdsAssumption DEF TypeOK
<1>13. Written(rows, Written(v, w)) = Written(saved, w)
  BY <1>3, <1>4, <1>8, WrittenTwice
<1>14. \A i \in Ids : w[i] # NoRow
  <2>1. ASSUME NEW i \in Existing(saved)
        PROVE  [saved[i] EXCEPT !.ancestor_path = Rebase(@, oldPrefix[r], NewPrefix(r))] # NoRow
    <3>1. saved[i] \in Row /\ saved[i].ancestor_path \in Seq(Ids)
      BY <1>6, ExistingFacts, RowFields
    <3>2. Rebase(saved[i].ancestor_path, oldPrefix[r], NewPrefix(r)) \in Seq(Ids)
      BY <1>7, <3>1, RebaseType
    <3>3. [saved[i] EXCEPT !.ancestor_path = Rebase(@, oldPrefix[r], NewPrefix(r))] \in Row
      BY <3>1, <3>2 DEF Row
    <3> QED
      BY <3>3, IdsFacts
  <2> HIDE DEF saved
  <2> QED
    BY <2>1, IdsFacts DEF Rewritten, UnderPath
<1> HIDE DEF saved, v, w
<1>15. CASE /\ pending' = [pending EXCEPT ![r] = Written(@, w)]
            /\ pc' = [pc EXCEPT ![r] = "written"]
            /\ UNCHANGED <<call, object, oldPrefix, held, answer>>
  <2>1. pending'[r] = Written(v, w) /\ pc'[r] = "written"
    BY <1>1, <1>15 DEF TypeOK
  <2>2. View(r)' = Written(saved, w)
    BY <1>11, <1>13, <2>1 DEF View
  <2>3. Checked(r)'
    BY <1>10, <2>1, <2>2 DEF Checked
  <2>4. InTransaction(r) /\ ~\E q \in Requests \ {r} : held[q] # {}
    BY <1>1, <1>2 DEF InTransaction, LocksInv
  <2> QED
    BY <1>8, <1>9, <1>11, <1>12, <1>15, <1>14, <2>3, <2>4, WriteKeeps
<1> QED
  BY <1>11, <1>12, <1>15, WriteEnds

\* What the transaction sees after the delete agrees, for nothing was under the row.
LEMMA DeleteRowKeeps ==
  ASSUME IInv, NEW r \in Requests, DeleteRow(r)
  PROVE  IInv'
<1> DEFINE c == call[r].id
           x == IF rows[c] = NoRow THEN Untouched ELSE NoRow
           w == [NoWrites EXCEPT ![c] = x]
<1> USE DEF IInv
<1>1. pc[r] = "approved" /\ call[r].op = "delete" /\ View(r) = rows /\ pending[r] = NoWrites
  BY ViewOfRows DEF DeleteRow
<1>2. c \in Ids /\ rows \in Tables /\ Children(rows, c) = {}
  BY <1>1, CallFacts, Types DEF CheckedInv, Checked
<1>3. rows' = rows /\ products' = products /\ lastId' = lastId
  BY DEF DeleteRow, tables
<1>4. lastId' \in lastId .. LastId
  BY <1>3, IdsAssumption DEF TypeOK
<1>5. EndRequest(r, "ProtectedError") \/ Write(r, w, "written")
  BY <1>1 DEF DeleteRow
<1>6. w \in Writes /\ w[c] = x /\ \A i \in Ids \ {c} : w[i] = Untouched
  BY <1>2 DEF NoWrites, Writes
<1>7. Written(NoWrites, w) = w
  BY <1>6 DEF Written, NoWrites, Writes
<1>8. TableAgrees(Written(rows, w))
  <2>1. CASE rows[c] = NoRow
    <3>1. Written(rows, w) = rows
      BY <1>2, <1>6, <2>1 DEF Written, Tables
    <3> QED
      BY <3>1 DEF PathsAgree
  <2>2. CASE rows[c] # NoRow
    <3>1. w = [NoWrites EXCEPT ![c] = NoRow]
      BY <2>2
    <3>2. Written(rows, [NoWrites EXCEPT ![c] = NoRow]) = [rows EXCEPT ![c] = NoRow]
      BY <1>2, WriteOne
    <3>3. TableAgrees([rows EXCEPT ![c] = NoRow])
      BY <1>2, RemoveAgrees DEF PathsAgree
    <3> QED
      BY <3>1, <3>2, <3>3
  <2> QED
    BY <2>1, <2>2
<1>9. \A i \in Ids : w[i] # Untouched => i \in held[r]
  <2>1. InTransaction(r)
    BY <1>1 DEF InTransaction
  <2>2. rows[c] # NoRow => c \in held[r]
    BY <1>2, <2>1, NamedIsHeld DEF Existing
  <2> QED
    BY <1>6, <2>2
<1>10. x \in {NoRow, Untouched}
  OBVIOUS
<1> HIDE DEF x, w
<1>11. CASE EndRequest(r, "ProtectedError")
  BY <1>3, <1>4, <1>11, EndKeeps DEF Results
<1>12. CASE Write(r, w, "written")
  <2>1. CASE /\ pending' = [pending EXCEPT ![r] = Written(@, w)]
             /\ pc' = [pc EXCEPT ![r] = "written"]
             /\ UNCHANGED <<call, object, oldPrefix, held, answer>>
    <3>1. pending'[r] = w /\ pc'[r] = "written"
      BY <1>1, <1>7, <2>1 DEF TypeOK
    <3>2. View(r)' = Written(rows, w)
      BY <1>3, <3>1 DEF View
    <3>3. Checked(r)'
      BY <1>8, <3>1, <3>2 DEF Checked
    <3>4. InTransaction(r) /\ \A i \in Ids : pending[r][i] = Untouched
      BY <1>1 DEF InTransaction, NoWrites
    <3>5. pending[r] = NoWrites /\ Stored(w) = {}
      BY <1>1, <1>6, <1>10 DEF Stored
    <3> QED
      BY <1>3, <1>4, <1>6, <1>9, <2>1, <3>3, <3>4, <3>5, WriteKeeps
  <2> QED
    BY <1>3, <1>4, <1>12, <2>1, WriteEnds
<1> QED
  BY <1>5, <1>11, <1>12

\* A transaction commits, and with it whatever it made of the products.
Commits(r) ==
    pc[r] = "written" /\ rows' = View(r) /\ EndRequest(r, "ok") /\ lastId' = lastId

\* A transaction that found the table empty commits new categories only, and while
\* somebody else holds rows, only at the top level.
LEMMA BlindCommit ==
  ASSUME IInv, NEW r \in Requests, held[r] = {}, NEW i \in Ids, pending[r][i] # Untouched
  PROVE  /\ rows[i] = NoRow /\ Inserted(r, i) /\ i \in Stored(pending[r])
         /\ pending[r][i].parent \in Stored(pending[r]) \cup {None}
         /\ (\E q \in Requests \ {r} : held[q] # {}) => pending[r][i].parent = None
<1> USE DEF IInv
<1>1. Inserted(r, i)
  BY DEF PendingInv
<1>2. i \in Stored(pending[r])
  BY <1>1 DEF Inserted, Stored
<1> QED
  BY <1>1, <1>2 DEF Inserted, PendingInv

\* What one of two transactions commits and what the other sees go together: one of
\* them has only new categories to add, of which the other knows nothing.
LEMMA CommitAgrees ==
  ASSUME IInv, NEW r \in Requests, NEW q \in Requests, q # r,
         pc[r] = "written", pc[q] # "saved", held[r] = {} \/ held[q] = {},
         rows' = View(r), pending'[q] = pending[q]
  PROVE  TableAgrees(View(q)')
<1> USE DEF IInv
<1>1. /\ rows \in Tables /\ pending[q] \in Writes /\ pending[r] \in Writes
      /\ View(q) \in Tables /\ View(r) \in Tables
      /\ TableAgrees(View(q)) /\ TableAgrees(View(r))
  BY Types DEF CheckedInv, Checked
<1>2. CASE held[r] = {}
  <2>1. \A i \in Ids : pending[r][i] # Untouched =>
          /\ rows[i] = NoRow /\ pending[q][i] = Untouched /\ pending[r][i] # NoRow
          /\ pending[r][i].parent \in Stored(pending[r]) \cup {None}
    BY <1>2, BlindCommit DEF Inserted
  <2>2. View(q)' = Written(View(q), pending[r])
    BY <2>1 DEF View, Written
  <2>3. \A i \in Ids : pending[q][i] = Untouched => View(q)[i] = rows[i]
    BY DEF View, Written
  <2>4. TableAgrees(Written(rows, pending[r]))
    BY <1>1 DEF View
  <2> QED
    BY <1>1, <2>1, <2>2, <2>3, <2>4, AdditionsAgree
<1>3. CASE held[q] = {}
  <2>1. \A i \in Ids : pending[q][i] # Untouched =>
          /\ rows[i] = NoRow /\ pending[r][i] = Untouched /\ pending[q][i] # NoRow
          /\ pending[q][i].parent \in Stored(pending[q]) \cup {None}
    BY <1>3, BlindCommit DEF Inserted
  <2>2. View(q)' = Written(View(r), pending[q])
    BY DEF View
  <2>3. \A i \in Ids : pending[r][i] = Untouched => View(r)[i] = rows[i]
    BY DEF View, Written
  <2>4. TableAgrees(Written(rows, pending[q]))
    BY <1>1 DEF View
  <2> QED
    BY <1>1, <2>1, <2>2, <2>3, <2>4, AdditionsAgree
<1> QED
  BY <1>2, <1>3

\* A commit leaves what another request has checked true: if that one holds rows, the
\* commit adds top-level categories; if it found the table empty, it names nothing
\* but what it created itself or what is gone.
LEMMA CommitKeepsChecked ==
  ASSUME IInv, NEW r \in Requests, NEW q \in Requests, q # r,
         pc[r] = "written", held[r] = {} \/ held[q] = {}, rows' = View(r), SameRequest(q),
         \A i \in Named(q) : rows[i] = NoRow => rows'[i] = NoRow
  PROVE  Checked(q)'
<1> USE DEF IInv
<1>1. /\ rows \in Tables /\ rows' \in Tables /\ TableAgrees(rows') /\ pending[q] \in Writes
      /\ View(q) \in Tables
  BY Types DEF CheckedInv, Checked
<1>2. Checked(q) /\ pending'[q] = pending[q] /\ held[q] \subseteq Existing(rows) /\ None \notin Ids
  BY IdsFacts DEF CheckedInv, SameRequest, LocksInv
<1>3. ASSUME held[r] = {}, held[q] # {}, NEW i \in Ids, rows'[i] # rows[i]
      PROVE  rows[i] = NoRow /\ rows'[i] # NoRow /\ rows'[i].parent = None
  BY <1>3, BlindCommit DEF View, Written, Stored
<1>4. \A i \in held[q] : i \in Ids /\ rows[i] # NoRow /\ rows'[i] = rows[i]
  BY <1>2, <1>3 DEF Existing
<1>5. pc[q] # "saved" => TableAgrees(View(q)')
  BY <1>2, CommitAgrees
<1>6. ASSUME pc[q] = "approved", call[q].op = "create"
      PROVE  /\ ~Gone(View(q)', call[q].parent)
             /\ AncestorPathUnder(View(q)', call[q].parent)
                  = AncestorPathUnder(View(q), call[q].parent)
  <2>1. PICK p : p = call[q].parent
    OBVIOUS
  <2>2. p \in Ids \cup {None} /\ ~Gone(View(q), p)
    BY <1>2, <1>6, <2>1, CallFacts DEF Checked
  <2>3. CASE p = None
    BY <1>2, <2>1, <2>3 DEF Gone, AncestorPathUnder
  <2>4. CASE p \in Ids /\ pending[q][p] # Untouched
    <3>1. View(q)'[p] = View(q)[p]
      BY <1>2, <2>4 DEF View, Written
    <3> QED
      BY <2>1, <2>2, <3>1 DEF Gone, AncestorPathUnder
  <2>5. CASE p \in Ids /\ pending[q][p] = Untouched
    <3>1. rows[p] # NoRow
      BY <2>2, <2>5 DEF Gone, View, Written
    <3>2. p \in held[q]
      BY <1>6, <2>1, <2>5, <3>1, NamedIsHeld DEF InTransaction, Existing
    <3>3. View(q)'[p] = View(q)[p]
      BY <1>2, <1>4, <2>5, <3>2 DEF View, Written
    <3> QED
      BY <2>1, <2>2, <3>3 DEF Gone, AncestorPathUnder
  <2> QED
    BY <2>2, <2>3, <2>4, <2>5
<1>7. ASSUME pc[q] \in {"approved", "saved"}, call[q].op = "update"
      PROVE  /\ AncestorPathUnder(rows', object[q].parent) = AncestorPathUnder(rows, object[q].parent)
             /\ PathOf(rows', call[q].id) = PathOf(rows, call[q].id)
  <2>1. object[q].parent \in held[q] \cup {None} /\ call[q].id \in held[q]
    BY <1>2, <1>7 DEF Checked
  <2> QED
    BY <1>4, <2>1 DEF AncestorPathUnder, PathOf
<1>8. ASSUME pc[q] = "approved", call[q].op = "delete"
      PROVE  Children(rows', call[q].id) = {}
  <2>1. SUFFICES ASSUME NEW i \in Children(rows', call[q].id)
                 PROVE  FALSE
    OBVIOUS
  <2>2. /\ call[q].id \in Ids /\ InTransaction(q) /\ call[q].id \in Named(q)
        /\ Children(rows, call[q].id) = {}
    BY <1>2, <1>8, CallFacts DEF InTransaction, Named, Checked
  <2>3. i \in Existing(rows') /\ rows'[i].parent = call[q].id
    BY <2>1 DEF Children
  <2>4. CASE held[q] = {}
    <3>1. rows'[call[q].id] = NoRow
      BY <2>2, <2>4 DEF NamedInv
    <3> QED
      BY <1>1, <1>2, <2>2, <2>3, <3>1, AgreesAt DEF Existing
  <2>5. CASE held[q] # {}
    <3>1. i \in Ids /\ rows'[i] = rows[i]
      BY <1>2, <1>3, <2>2, <2>3, <2>5 DEF Existing
    <3> QED
      BY <2>2, <2>3, <3>1 DEF Children, Existing
  <2> QED
    BY <2>4, <2>5
<1> QED
  BY <1>2, <1>5, <1>6, <1>7, <1>8 DEF Checked, SameRequest, NewPrefix

\* The table after a commit is what the transaction saw, and stays right for the others.
LEMMA CommitKeeps ==
  ASSUME IInv, NEW r \in Requests, Commits(r),
         products' \in [Products -> Ids \cup {None}]
  PROVE  IInv'
<1> USE DEF IInv
<1>1. /\ pc[r] = "written" /\ rows' = View(r)
      /\ lastId' = lastId
      /\ pc'[r] = "idle" /\ held'[r] = {} /\ pending'[r] = NoWrites /\ call'[r] = NoCall
      /\ \A q \in Requests \ {r} : SameRequest(q)
  BY DEF Commits, EndRequest, SameRequest, TypeOK
<1>2. TypeOK'
  <2>1. NoWrites \in Writes /\ View(r) \in Tables
    BY Types DEF NoWrites, Writes
  <2> QED
    BY <2>1, EmptySeq DEF TypeOK, Commits, EndRequest, ROOT_PATH, Writes, Tables, Results
<1>3. PathsAgree'
  BY <1>1 DEF PathsAgree, CheckedInv, Checked
<1>4. \A i \in Ids : rows'[i] # rows[i] => /\ pending[r][i] # Untouched
                                           /\ i \in held[r] \/ Inserted(r, i)
  BY <1>1 DEF View, Written, PendingInv
<1>5. \A i \in held[r] : i \in Ids /\ rows[i] # NoRow
  BY DEF LocksInv, Existing
<1>6. Named(r)' = {} /\ ~InTransaction(r)'
  BY <1>1, IdsFacts DEF Named, NoCall, InTransaction
<1>7. \A q \in Requests \ {r} : Named(q)' = Named(q) /\ InTransaction(q)' = InTransaction(q)
  BY <1>1 DEF Named, SameRequest, InTransaction
<1>8. \A q \in Requests \ {r} : held[q] # {} => held[r] = {}
  BY DEF LocksInv
<1>9. ASSUME NEW q \in Requests \ {r}, held[q] # {}, NEW i \in Ids, rows'[i] # rows[i]
      PROVE  rows[i] = NoRow /\ rows'[i] # NoRow /\ rows'[i].parent = None
  BY <1>1, <1>8, <1>9, BlindCommit DEF View, Written, Stored
<1>10. LocksInv'
  <2>1. ASSUME NEW q \in Requests \ {r}
        PROVE  /\ held[q] \subseteq Existing(rows')
               /\ \A i \in held[q] : rows'[i].parent \in held[q] \cup {None}
               /\ held[q] # {} =>
                    \A i \in Existing(rows') \ held[q] : rows'[i].parent = None
    <3>1. CASE held[q] = {}
      BY <3>1
    <3>2. CASE held[q] # {}
      <4>1. \A i \in Ids : rows'[i] # rows[i] =>
              rows[i] = NoRow /\ rows'[i] # NoRow /\ rows'[i].parent = None
        BY <1>9, <3>2
      <4>2. /\ held[q] \subseteq Existing(rows)
            /\ \A i \in held[q] : rows[i].parent \in held[q] \cup {None}
            /\ \A i \in Existing(rows) \ held[q] : rows[i].parent = None
        BY <3>2 DEF LocksInv
      <4> QED
        BY <4>1, <4>2 DEF Existing
    <3> QED
      BY <3>1, <3>2
  <2>2. \A q \in Requests \ {r} : pc'[q] = pc[q] /\ held'[q] = held[q]
    BY <1>1 DEF SameRequest
  <2>3. \A q \in Requests : pc'[q] = "idle" => held'[q] = {}
    BY <1>1, <2>2 DEF LocksInv
  <2>4. \A p, q \in Requests : p # q => held'[p] = {} \/ held'[q] = {}
    BY <1>1, <2>2 DEF LocksInv
  <2> QED
    BY <1>1, <2>1, <2>2, <2>3, <2>4 DEF LocksInv
<1>11. \A q \in Requests \ {r} : \A i \in Named(q) : rows[i] = NoRow => rows'[i] = NoRow
  BY <1>4, <1>5 DEF Inserted, Named
<1>12. NamedInv'
  <2>1. ASSUME NEW i \in Existing(rows') PROVE i <= lastId
    <3>1. CASE i \in Existing(rows)
      BY <3>1 DEF NamedInv
    <3>2. CASE i \notin Existing(rows)
      BY <1>4, <1>5, <2>1, <3>2 DEF Existing, Inserted
    <3> QED
      BY <3>1, <3>2
  <2>2. \A q \in Requests : \A i \in Named(q)' : i <= lastId
    BY <1>6, <1>7 DEF NamedInv
  <2>3. \A q \in Requests : InTransaction(q)' =>
          \A i \in Named(q)' : i \in held'[q] \/ rows'[i] = NoRow
    BY <1>1, <1>6, <1>7, <1>11 DEF NamedInv, SameRequest
  <2> QED
    BY <1>1, <2>1, <2>2, <2>3 DEF NamedInv
<1>13. ASSUME NEW q \in Requests \ {r}, NEW i \in Ids, Inserted(q, i)
       PROVE  Inserted(q, i)'
  <2>1. rows[i] = NoRow /\ pending[r][i] = Untouched
    BY <1>13 DEF Inserted
  <2>2. rows'[i] = NoRow
    BY <1>4, <2>1
  <2>3. NoWrites[i] = Untouched
    BY DEF NoWrites
  <2> QED
    BY <1>1, <1>6, <1>7, <1>13, <2>2, <2>3 DEF Inserted, SameRequest
<1>14. PendingInv'
  <2>1. (\A i \in Ids : NoWrites[i] = Untouched) /\ Stored(NoWrites) = {}
    BY DEF NoWrites, Stored
  <2>2. ASSUME NEW q \in Requests, NEW p \in Requests, q # p, held'[q] # {}
        PROVE  /\ pc'[p] \in {"locked", "approved"} => pending'[p] = NoWrites
               /\ \A i \in Stored(pending'[p]) : pending'[p][i].parent = None
    <3>1. q # r /\ held'[q] = held[q]
      BY <1>1, <2>2 DEF SameRequest
    <3>2. CASE p = r
      BY <1>1, <2>1, <3>2
    <3>3. CASE p # r
      BY <1>1, <2>2, <3>1, <3>3 DEF SameRequest, PendingInv
    <3> QED
      BY <3>2, <3>3
  <2> QED
    BY <1>1, <1>13, <2>1, <2>2 DEF PendingInv, SameRequest
<1>15. CheckedInv'
  <2>1. View(r)' = rows'
    BY <1>1, <1>2 DEF View, Written, NoWrites, TypeOK
  <2>2. Checked(r)'
    BY <1>1, <1>3, <2>1 DEF Checked, PathsAgree
  <2>3. ASSUME NEW q \in Requests \ {r} PROVE Checked(q)'
    BY <1>1, <1>8, <1>11, CommitKeepsChecked
  <2> QED
    BY <2>2, <2>3 DEF CheckedInv
<1> QED
  BY <1>2, <1>3, <1>10, <1>12, <1>14, <1>15

\* A step on products alone.
LEMMA ProductStepKeeps ==
  ASSUME IInv, rows' = rows, lastId' = lastId, UNCHANGED locals,
         products' \in [Products -> Ids \cup {None}]
  PROVE  IInv'
<1> USE DEF IInv, locals
<1>1. TypeOK'
  BY DEF TypeOK
<1>2. PathsAgree' /\ LocksInv' /\ NamedInv' /\ PendingInv'
  BY DEF PathsAgree, LocksInv, NamedInv, PendingInv, Named, InTransaction, Inserted
<1>3. CheckedInv'
  BY CheckedFrame DEF CheckedInv, SameRequest
<1> QED
  BY <1>1, <1>2, <1>3

\* The invariant reads nothing but the variables.
LEMMA StutterKeeps ==
  ASSUME IInv, UNCHANGED vars
  PROVE  IInv'
BY ProductStepKeeps DEF vars, tables, IInv, TypeOK

\* The requests the API can receive name categories there are.
LEMMA RequestKeeps ==
  ASSUME IInv, NEW r \in Requests,
         RequestCreate(r) \/ RequestUpdate(r) \/ RequestDelete(r)
  PROVE  IInv'
<1>1. \A i \in Existing(rows) : i \in Ids
  BY DEF Existing
<1>2. CASE RequestCreate(r)
  <2>1. PICK name \in Names, parent \in Existing(rows) \cup {None} :
          Receive(r, [op |-> "create", id |-> None, sent |-> Fields,
                      name |-> name, parent |-> parent])
    BY <1>2 DEF RequestCreate
  <2> DEFINE request == [op |-> "create", id |-> None, sent |-> Fields,
                         name |-> name, parent |-> parent]
  <2>2. request \in Calls
    BY <1>1 DEF Calls
  <2>3. {request.id, request.parent} \cap Ids \subseteq Existing(rows)
    BY IdsFacts
  <2> HIDE DEF request
  <2> QED
    BY <2>1, <2>2, <2>3, ReceiveKeeps DEF request
<1>3. CASE RequestUpdate(r)
  <2>1. PICK c \in Existing(rows), sent \in SUBSET Fields,
             name \in Names, parent \in Existing(rows) \cup {None} :
          Receive(r, Changes(c, sent, name, parent, rows[c]))
    BY <1>3 DEF RequestUpdate
  <2> DEFINE request == Changes(c, sent, name, parent, rows[c])
  <2>2. request \in Calls
    BY <1>1 DEF Calls, Changes
  <2>3. {request.id, request.parent} \cap Ids \subseteq Existing(rows)
    BY IdsFacts DEF Changes
  <2> HIDE DEF request
  <2> QED
    BY <2>1, <2>2, <2>3, ReceiveKeeps DEF request
<1>4. CASE RequestDelete(r)
  <2>1. PICK c \in Existing(rows) : Receive(r, [NoCall EXCEPT !.op = "delete", !.id = c])
    BY <1>4 DEF RequestDelete
  <2> DEFINE request == [NoCall EXCEPT !.op = "delete", !.id = c]
  <2>2. request \in Calls
    BY <1>1 DEF Calls, NoCall
  <2>3. {request.id, request.parent} \cap Ids \subseteq Existing(rows)
    BY IdsFacts DEF NoCall
  <2> HIDE DEF request
  <2> QED
    BY <2>1, <2>2, <2>3, ReceiveKeeps DEF request
<1> QED
  BY <1>2, <1>3, <1>4

\* A rollback leaves the committed table as it was.
LEMMA AbortKeeps ==
  ASSUME IInv, NEW r \in Requests, Abort(r)
  PROVE  IInv'
BY EndKeeps, IdsAssumption DEF Abort, Refuse, tables, Results, IInv, TypeOK

\* Filing and removing products touches no category.
LEMMA ProductsKeep ==
  ASSUME IInv, NEW p \in Products,
         RemoveProduct(p) \/ \E c \in Ids : FileProduct(p, c)
  PROVE  IInv'
<1>1. products' \in [Products -> Ids \cup {None}]
  BY DEF RemoveProduct, FileProduct, IInv, TypeOK
<1> QED
  BY <1>1, ProductStepKeeps DEF RemoveProduct, FileProduct

\* Every step of the specification keeps the inductive invariant.
THEOREM StepKeeps == IInv /\ [Next]_vars => IInv'
<1> SUFFICES ASSUME IInv, [Next]_vars PROVE IInv'
  OBVIOUS
<1>1. ASSUME NEW r \in Requests, RequestCreate(r) \/ RequestUpdate(r) \/ RequestDelete(r)
      PROVE  IInv'
  BY <1>1, RequestKeeps
<1>2. ASSUME NEW r \in Requests, Serve(r)
      PROVE  IInv'
  <2>1. CASE LockTree(r)
    BY <2>1, LockTreeKeeps
  <2>2. CASE CheckCreate(r)
    BY <2>2, CheckCreateKeeps
  <2>3. CASE Insert(r)
    BY <2>3, InsertKeeps
  <2>4. CASE CheckUpdate(r)
    BY <2>4, CheckUpdateKeeps
  <2>5. CASE SaveRow(r)
    BY <2>5, SaveRowKeeps
  <2>6. CASE RewriteDescendants(r)
    BY <2>6, RewriteDescendantsKeeps
  <2>7. CASE CheckDelete(r)
    BY <2>7, CheckDeleteKeeps
  <2>8. CASE DeleteRow(r)
    BY <2>8, DeleteRowKeeps
  <2>9. CASE Commit(r)
    BY <2>9, CommitKeeps DEF Commit, Commits, IInv, TypeOK
  <2> QED
    BY <1>2, <2>1, <2>2, <2>3, <2>4, <2>5, <2>6, <2>7, <2>8, <2>9 DEF Serve
<1>3. ASSUME NEW r \in Requests, Abort(r)
      PROVE  IInv'
  BY <1>3, AbortKeeps
<1>4. ASSUME NEW p \in Products, RemoveProduct(p) \/ \E c \in Ids : FileProduct(p, c)
      PROVE  IInv'
  BY <1>4, ProductsKeep
<1>5. CASE UNCHANGED vars
  BY <1>5, StutterKeeps
<1> QED
  BY <1>1, <1>2, <1>3, <1>4, <1>5 DEF Next

-----------------------------------------------------------------------------
(* The theorems                                                             *)

\* The inductive invariant holds in every reachable state: locks, what is not
\* yet committed and what has been checked fit each other.
THEOREM Inductive == Spec => []IInv
<1>1. Init => IInv
  BY InitEstablishes
<1>2. IInv /\ [Next]_vars => IInv'
  BY StepKeeps
<1> QED
  BY <1>1, <1>2, PTL DEF Spec

\* The variables keep their types: no request ever holds an object, a path or a
\* lock that is not one.
THEOREM TypeCorrect == Spec => []TypeOK
<1>1. IInv => TypeOK
  BY DEF IInv
<1> QED
  BY <1>1, Inductive, PTL

\* What update_category, create_category and delete_category commit always has
\* the stored paths of the whole table agree with the parent links, however
\* many requests run, and whatever is rolled back in between.
THEOREM PathsAlwaysAgree == Spec => []PathsAgree
<1>1. IInv => PathsAgree
  BY DEF IInv
<1> QED
  BY <1>1, Inductive, PTL

\* A set of categories without a top would have no shortest path.
LEMMA NoCycleFromPaths == TypeOK /\ PathsAgree => NoCycle
<1> SUFFICES ASSUME TypeOK, PathsAgree, NEW S \in (SUBSET Existing(rows)) \ {{}}
             PROVE  \E c \in S : rows[c].parent \notin S
  BY DEF NoCycle
<1>1. rows \in Tables
  BY Types
<1>2. PICK c \in S : \A j \in S : Len(rows[c].ancestor_path) <= Len(rows[j].ancestor_path)
  BY <1>1, ShortestPath
<1>3. ASSUME rows[c].parent \in S PROVE FALSE
  <2>1. PICK p : p = rows[c].parent
    OBVIOUS
  <2>2. p \in Ids /\ p # None /\ rows[p].ancestor_path \in Seq(Ids)
    BY <1>1, <1>3, <2>1, ExistingFacts, RowFields, IdsFacts
  <2>3. rows[c].ancestor_path = FullPath(rows[p].ancestor_path, p)
    BY <1>1, <2>1, <2>2, AgreesAt DEF PathsAgree, AncestorPathUnder
  <2>4. PICK above : above = rows[p].ancestor_path
    OBVIOUS
  <2>5. Len(FullPath(above, p)) = Len(above) + 1 /\ Len(above) \in Nat
    BY <2>2, <2>4, FullPathIsLonger, LenProperties
  <2> QED
    BY <1>2, <1>3, <2>1, <2>3, <2>4, <2>5
<1> QED
  BY <1>3

\* No two moves that run at the same time, and no other sequence of requests,
\* make a category its own ancestor.
THEOREM NeverACycle == Spec => []NoCycle
<1>1. IInv => NoCycle
  BY NoCycleFromPaths DEF IInv
<1> QED
  BY <1>1, Inductive, PTL

\* What subtree_of, the cycle check and the rewriting UPDATE find by a LIKE on the
\* stored paths is the subtree by the parent links, at every moment.
THEOREM SubtreesByPrefix == Spec => []SubtreeIsPrefixMatch
<1>1. IInv => SubtreeIsPrefixMatch
  <2> SUFFICES ASSUME IInv, NEW c \in Existing(rows)
               PROVE  UnderPath(rows, PathOf(rows, c))
                        = {i \in Existing(rows) \ {c} : IsBelow(rows, i, c)}
    BY DEF SubtreeIsPrefixMatch
  <2>1. rows \in Tables /\ TableAgrees(rows)
    BY Types DEF IInv, PathsAgree
  <2>2. ~StartsWith(rows[c].ancestor_path, PathOf(rows, c))
    BY <2>1, ExistingFacts, RowFields, FullPathIsLonger DEF PathOf
  <2>3. \A i \in Existing(rows) :
          IsBelow(rows, i, c) <=> i = c \/ StartsWith(rows[i].ancestor_path, PathOf(rows, c))
    BY <2>1, PrefixMatchIsBelow
  <2> QED
    BY <2>2, <2>3 DEF UnderPath
<1> QED
  BY <1>1, Inductive, PTL

-----------------------------------------------------------------------------
(* What the statements write                                                *)

\* The steps as the table and the uncommitted writes see them.
Quiet == rows' = rows /\ pending' = pending

Dropped(r) == rows' = rows /\ pending' = [pending EXCEPT ![r] = NoWrites]

Accepted(r, w) ==
    /\ ~MustWait(r, w) /\ ConstraintsHold(Written(View(r), w), w)
    /\ rows' = rows /\ pending' = [pending EXCEPT ![r] = Written(@, w)]

\* A transaction that wrote nothing stores no row and changes no table.
LEMMA NoWritesFacts ==
  /\ NoWrites \in Writes /\ Stored(NoWrites) = {}
  /\ \A T \in Tables : Written(T, NoWrites) = T
BY DEF NoWrites, Writes, Stored, Written, Tables

\* A set of writes to one row leaves every other row alone.
LEMMA OneWrite ==
  ASSUME NEW c \in Ids, NEW x \in Row \cup {NoRow}
  PROVE  LET w == [NoWrites EXCEPT ![c] = x]
         IN  /\ w[c] = x /\ \A i \in Ids \ {c} : w[i] = Untouched
             /\ w[c] # Untouched /\ Written(NoWrites, w) = w
BY IdsFacts DEF NoWrites, Written

\* The row an INSERT writes has the next id, which nothing has had.
LEMMA InsertFacts ==
  ASSUME IInv, NEW r \in Requests, pc[r] = "approved", call[r].op = "create",
         lastId < LastId
  PROVE  /\ lastId + 1 \in Ids /\ rows[lastId + 1] = NoRow
         /\ object[r] \in Row
         /\ [NoWrites EXCEPT ![lastId + 1] = object[r]] \in Writes
<1> USE DEF IInv
<1>1. object[r] \in Row
  <2>1. object[r] \in Row \cup {NoRow} /\ call[r].parent \in Ids \cup {None}
    BY CallFacts DEF TypeOK
  <2>2. /\ View(r) \in Tables /\ ~Gone(View(r), call[r].parent) /\ call[r].name \in Names
        /\ object[r] = [parent |-> call[r].parent, name |-> call[r].name,
                        ancestor_path |-> AncestorPathUnder(View(r), call[r].parent)]
    BY Types, CallFacts DEF CheckedInv, Checked
  <2>3. call[r].parent \in Existing(View(r)) \cup {None}
    BY <2>1, <2>2 DEF Gone, Existing
  <2>4. AncestorPathUnder(View(r), call[r].parent) \in Seq(Ids)
    BY <2>2, <2>3, AncestorPathType
  <2> QED
    BY <2>1, <2>2, <2>4 DEF Row
<1>2. lastId + 1 \in Ids /\ ~(lastId + 1 <= lastId)
  BY IdsAssumption DEF TypeOK, Ids
<1>3. rows[lastId + 1] = NoRow
  BY <1>2 DEF NamedInv, Existing
<1> QED
  BY <1>1, <1>2, <1>3, WriteOne, Types

\* The row an update saves is one the request has locked.
LEMMA SaveFacts ==
  ASSUME IInv, NEW r \in Requests, pc[r] \in {"approved", "saved"}, call[r].op = "update"
  PROVE  /\ call[r].id \in held[r] /\ call[r].id \in Ids
         /\ call[r].id \in Existing(rows) /\ rows[call[r].id] \in Row
         /\ object[r] \in Row /\ object[r].parent \in held[r] \cup {None}
         /\ object[r].ancestor_path = AncestorPathUnder(rows, object[r].parent)
         /\ [NoWrites EXCEPT ![call[r].id] = object[r]] \in Writes
<1> USE DEF IInv
<1>1. /\ object[r] \in Row /\ object[r].parent \in held[r] \cup {None}
      /\ object[r].ancestor_path = AncestorPathUnder(rows, object[r].parent)
      /\ call[r].id \in held[r]
  BY DEF Checked, CheckedInv, TypeOK
<1>2. call[r].id \in Existing(rows) /\ call[r].id \in Ids
  BY <1>1 DEF LocksInv, Existing
<1> QED
  BY <1>1, <1>2, WriteOne, Types, ExistingFacts

\* Between two statements a request of the API sees the committed table.
LEMMA OneCallView ==
  ASSUME TypeOK, OneCallInv, NEW r \in Requests, pc[r] \notin {"saved", "written"}
  PROVE  View(r) = rows /\ pending[r] = NoWrites
BY NoWritesFacts, Types DEF OneCallInv, View

\* In a request of the API, a new category goes below one the request has locked.
LEMMA CreateFacts ==
  ASSUME IInv, OneCallInv, NEW r \in Requests, pc[r] = "approved", call[r].op = "create"
  PROVE  /\ View(r) = rows /\ pending[r] = NoWrites
         /\ object[r] \in Row /\ object[r].parent \in held[r] \cup {None}
         /\ object[r].ancestor_path = AncestorPathUnder(rows, object[r].parent)
<1> USE DEF IInv
<1>1. pending[r] = NoWrites /\ View(r) = rows /\ rows \in Tables
  BY NoWritesFacts, Types DEF OneCallInv, View
<1>2. /\ ~Gone(rows, call[r].parent) /\ call[r].parent \in Ids \cup {None}
      /\ call[r].name \in Names
      /\ object[r] = [parent |-> call[r].parent, name |-> call[r].name,
                      ancestor_path |-> AncestorPathUnder(rows, call[r].parent)]
  BY <1>1, CallFacts DEF CheckedInv, Checked
<1>3. call[r].parent \in Existing(rows) \cup {None}
  BY <1>2 DEF Gone, Existing
<1>4. call[r].parent \in held[r] \cup {None}
  BY <1>3, NamedIsHeld DEF InTransaction
<1>5. object[r] \in Row
  BY <1>1, <1>2, <1>3, AncestorPathType DEF Row
<1> QED
  BY <1>1, <1>2, <1>4, <1>5

\* What the UPDATE of the descendants writes: every row it touches is there and
\* keeps its parent and its name, and the table after it agrees.
LEMMA RewriteFacts ==
  ASSUME IInv, NEW r \in Requests, pc[r] = "saved"
  PROVE  LET w == Rewritten(View(r), oldPrefix[r], NewPrefix(r))
         IN  /\ call[r].op = "update"
             /\ w \in Writes /\ View(r) = [rows EXCEPT ![call[r].id] = object[r]]
             /\ \A i \in Ids : w[i] # Untouched =>
                    View(r)[i] \in Row /\ SameNode(w[i], View(r)[i])
             /\ TableAgrees(Written(View(r), w))
<1> DEFINE c == call[r].id
           saved == [rows EXCEPT ![c] = object[r]]
           w == Rewritten(saved, oldPrefix[r], NewPrefix(r))
<1> USE DEF IInv
<1>1. call[r].op = "update" /\ pending[r] = [NoWrites EXCEPT ![c] = object[r]]
  BY DEF CheckedInv, Checked
<1>2. /\ oldPrefix[r] = PathOf(rows, c)
      /\ ~StartsWith(object[r].ancestor_path, oldPrefix[r])
  BY <1>1 DEF Checked, CheckedInv
<1>3. /\ c \in Existing(rows) /\ c \in Ids /\ rows \in Tables /\ object[r] \in Row
      /\ object[r].ancestor_path = AncestorPathUnder(rows, object[r].parent)
      /\ object[r].parent \in Existing(rows) \cup {None}
  BY <1>1, SaveFacts, Types DEF LocksInv
<1>4. View(r) = saved
  BY <1>1, <1>3, WriteOne DEF View
<1>5. saved \in Tables
  BY <1>3 DEF Tables
<1>6. oldPrefix[r] \in Seq(Ids) /\ NewPrefix(r) \in Seq(Ids)
  <2>1. object[r].ancestor_path \in Seq(Ids) /\ rows[c].ancestor_path \in Seq(Ids)
    BY <1>3, ExistingFacts, RowFields
  <2> QED
    BY <1>2, <1>3, <2>1, FullPathIsLonger DEF NewPrefix, PathOf
<1>7. TableAgrees(Written(saved, w))
  BY <1>2, <1>3, MoveAgrees DEF PathsAgree, NewPrefix
<1> HIDE DEF saved
<1>8. ASSUME NEW i \in Existing(saved)
      PROVE  LET row == [saved[i] EXCEPT !.ancestor_path = Rebase(@, oldPrefix[r], NewPrefix(r))]
             IN  saved[i] \in Row /\ row \in Row /\ SameNode(row, saved[i])
  <2>1. saved[i] \in Row /\ saved[i].ancestor_path \in Seq(Ids)
    BY <1>5, <1>8, ExistingFacts, RowFields
  <2>2. Rebase(saved[i].ancestor_path, oldPrefix[r], NewPrefix(r)) \in Seq(Ids)
    BY <1>6, <2>1, RebaseType
  <2>3. [saved[i] EXCEPT !.ancestor_path = Rebase(saved[i].ancestor_path,
                                                  oldPrefix[r], NewPrefix(r))] \in Row
    BY <2>1, <2>2 DEF Row
  <2> QED
    BY <2>1, <2>3, IdsFacts DEF SameNode, Row
<1>9. w \in Writes
  BY <1>8 DEF Writes, Rewritten, UnderPath
<1>10. \A i \in Ids : w[i] # Untouched => saved[i] \in Row /\ SameNode(w[i], saved[i])
  BY <1>8 DEF Rewritten, UnderPath
<1> HIDE DEF w
<1> QED
  BY <1>1, <1>4, <1>7, <1>9, <1>10 DEF w, saved

\* What an approved delete writes: under the lock it still sees the committed table.
LEMMA DeleteFacts ==
  ASSUME IInv, NEW r \in Requests, pc[r] = "approved", call[r].op = "delete"
  PROVE  LET c == call[r].id
             w == [NoWrites EXCEPT ![c] = IF View(r)[c] = NoRow THEN Untouched ELSE NoRow]
         IN  /\ c \in Ids /\ View(r) = rows /\ pending[r] = NoWrites
             /\ Children(rows, c) = {}
             /\ w \in Writes /\ Written(NoWrites, w) = w /\ Stored(w) = {}
<1> USE DEF IInv
<1>1. View(r) = rows /\ pending[r] = NoWrites /\ call[r].id \in Ids /\ Children(rows, call[r].id) = {}
  BY ViewOfRows, CallFacts DEF CheckedInv, Checked
<1> QED
  BY <1>1 DEF NoWrites, Writes, Written, Stored

\* A statement is accepted, or its transaction is over.
LEMMA WriteOutcomes ==
  ASSUME NEW r \in Requests, NEW w, NEW next, Write(r, w, next), rows' = rows
  PROVE  Accepted(r, w) \/ Dropped(r)
BY DEF Write, EndRequest, Accepted, Dropped

\* What any step does to the rows: nothing, one transaction dropped, written to, or committed.
LEMMA StepWrites ==
  ASSUME IInv, [Next]_vars
  PROVE  \/ Quiet
         \/ \E r \in Requests :
                Dropped(r) \/ Commit(r) \/ \E w \in Writes : Accepted(r, w)
<1> DEFINE Goal == \/ Quiet
                   \/ \E r \in Requests :
                          Dropped(r) \/ Commit(r) \/ \E w \in Writes : Accepted(r, w)
<1> SUFFICES Goal
  OBVIOUS
<1>1. ASSUME NEW r \in Requests, RequestCreate(r) \/ RequestUpdate(r) \/ RequestDelete(r)
      PROVE  Goal
  BY <1>1 DEF RequestCreate, RequestUpdate, RequestDelete, Receive, Quiet, tables
<1>2. ASSUME NEW r \in Requests, NEW x, Refuse(r, x) PROVE Goal
  BY <1>2 DEF Refuse, EndRequest, Dropped, tables
<1>3. ASSUME NEW r \in Requests, LockTree(r) \/ CheckCreate(r) \/ CheckUpdate(r) \/ CheckDelete(r)
      PROVE  Goal
  BY <1>2, <1>3 DEF LockTree, CheckCreate, CheckUpdate, CheckDelete, Quiet, tables
<1>4. ASSUME NEW r \in Requests, Insert(r) PROVE Goal
  BY <1>2, <1>4, InsertFacts, WriteOutcomes DEF Insert
<1>5. ASSUME NEW r \in Requests, SaveRow(r) PROVE Goal
  BY <1>5, SaveFacts, WriteOutcomes DEF SaveRow, tables
<1>6. ASSUME NEW r \in Requests, RewriteDescendants(r) PROVE Goal
  BY <1>6, RewriteFacts, WriteOutcomes DEF RewriteDescendants, tables
<1>7. ASSUME NEW r \in Requests, DeleteRow(r) PROVE Goal
  <2>1. CASE EndRequest(r, "ProtectedError")
    BY <1>7, <2>1 DEF DeleteRow, EndRequest, Dropped, tables
  <2> QED
    BY <1>7, <2>1, DeleteFacts, WriteOutcomes DEF DeleteRow, tables
<1>8. ASSUME NEW r \in Requests, Commit(r) PROVE Goal
  BY <1>8
<1>9. ASSUME NEW r \in Requests, Abort(r) PROVE Goal
  BY <1>2, <1>9 DEF Abort
<1>10. ASSUME NEW p \in Products, RemoveProduct(p) \/ \E c \in Ids : FileProduct(p, c)
       PROVE  Goal
  BY <1>10 DEF RemoveProduct, FileProduct, Quiet, locals
<1>11. CASE UNCHANGED vars
  BY <1>11 DEF vars, tables, locals, Quiet
<1> HIDE DEF Goal
<1> QED
  BY <1>1, <1>3, <1>4, <1>5, <1>6, <1>7, <1>8, <1>9, <1>10, <1>11 DEF Next, Serve

-----------------------------------------------------------------------------
(* The unique index                                                         *)

\* Transaction q commits with what the committing table holds: a row of either
\* differs from a row of the other, because q saw the old table and because
\* neither could write a key of the other.
LEMMA KeysMerge ==
  ASSUME NEW T \in Tables, NEW v \in Writes, NEW w \in Writes,
         KeysDiffer(Written(T, v)), KeysDiffer(Written(T, w)),
         \A i \in Stored(v), j \in Stored(w) : IndexKey(v[i]) # IndexKey(w[j])
  PROVE  KeysDiffer(Written(Written(T, v), w))
<1> DEFINE V == Written(T, v)
           W == Written(T, w)
           U == Written(V, w)
<1>1. \A i \in Ids : /\ V[i] = IF v[i] = Untouched THEN T[i] ELSE v[i]
                     /\ W[i] = IF w[i] = Untouched THEN T[i] ELSE w[i]
                     /\ U[i] = IF w[i] = Untouched THEN V[i] ELSE w[i]
  BY DEF Written
<1> HIDE DEF V, W, U
<1>2. ASSUME NEW i \in Existing(U), NEW j \in Existing(U), w[i] # Untouched, w[j] = Untouched
      PROVE  IndexKey(U[i]) # IndexKey(U[j])
  <2>1. i \in Ids /\ j \in Ids /\ i # j /\ U[i] = w[i] /\ U[j] = V[j]
    BY <1>1, <1>2 DEF Existing
  <2>2. i \in Stored(w) /\ i \in Existing(W) /\ W[i] = w[i]
    BY <1>1, <1>2, <2>1 DEF Stored, Existing
  <2>3. CASE v[j] = Untouched
    <3>1. j \in Existing(W) /\ W[j] = U[j]
      BY <1>1, <1>2, <2>1, <2>3 DEF Existing
    <3> QED
      BY <2>1, <2>2, <3>1 DEF KeysDiffer, W
  <2>4. CASE v[j] # Untouched
    <3>1. j \in Stored(v) /\ U[j] = v[j]
      BY <1>1, <1>2, <2>1, <2>4 DEF Stored, Existing
    <3> QED
      BY <2>1, <2>2, <3>1
  <2> QED
    BY <2>3, <2>4
<1>3. ASSUME NEW i \in Existing(U), NEW j \in Existing(U), i # j
      PROVE  IndexKey(U[i]) # IndexKey(U[j])
  <2>1. i \in Ids /\ j \in Ids
    BY DEF Existing
  <2>2. CASE w[i] # Untouched /\ w[j] # Untouched
    <3>1. i \in Existing(W) /\ j \in Existing(W) /\ U[i] = W[i] /\ U[j] = W[j]
      BY <1>1, <1>3, <2>1, <2>2 DEF Existing
    <3> QED
      BY <1>3, <3>1 DEF KeysDiffer, W
  <2>3. CASE w[i] = Untouched /\ w[j] = Untouched
    <3>1. i \in Existing(V) /\ j \in Existing(V) /\ U[i] = V[i] /\ U[j] = V[j]
      BY <1>1, <1>3, <2>1, <2>3 DEF Existing
    <3> QED
      BY <1>3, <3>1 DEF KeysDiffer, V
  <2> QED
    BY <1>2, <2>2, <2>3
<1>4. KeysDiffer(U)
  BY <1>3 DEF KeysDiffer
<1> QED
  BY <1>4 DEF U, V

\* A statement the unique index accepts.
LEMMA KeysOfStatement ==
  ASSUME NEW T \in Tables, NEW w \in Writes, KeysDiffer(T),
         \A i \in Stored(w) : \A j \in Existing(Written(T, w)) \ {i} :
            IndexKey(Written(T, w)[j]) # IndexKey(w[i])
  PROVE  KeysDiffer(Written(T, w))
<1> DEFINE U == Written(T, w)
<1>1. \A i \in Ids : U[i] = IF w[i] = Untouched THEN T[i] ELSE w[i]
  BY DEF Written
<1> HIDE DEF U
<1>2. ASSUME NEW i \in Existing(U), NEW j \in Existing(U), i # j
      PROVE  IndexKey(U[i]) # IndexKey(U[j])
  <2>1. i \in Ids /\ j \in Ids
    BY DEF Existing
  <2>2. ASSUME NEW k \in Existing(U), w[k] # Untouched
        PROVE  k \in Stored(w) /\ U[k] = w[k]
    BY <1>1, <2>2 DEF Existing, Stored
  <2>3. CASE w[i] # Untouched \/ w[j] # Untouched
    BY <1>2, <2>2, <2>3 DEF U
  <2>4. CASE w[i] = Untouched /\ w[j] = Untouched
    <3>1. i \in Existing(T) /\ j \in Existing(T) /\ U[i] = T[i] /\ U[j] = T[j]
      BY <1>1, <1>2, <2>1, <2>4 DEF Existing
    <3> QED
      BY <1>2, <3>1 DEF KeysDiffer
  <2> QED
    BY <2>3, <2>4
<1>3. KeysDiffer(U)
  BY <1>2 DEF KeysDiffer
<1> QED
  BY <1>3 DEF U

\* A transaction that is rolled back holds no keys.
LEMMA KeysDrop ==
  ASSUME IInv, KeysInv, NEW r \in Requests, Dropped(r)
  PROVE  KeysInv'
<1> USE DEF IInv
<1>1. /\ rows' = rows /\ pending'[r] = NoWrites
      /\ \A q \in Requests \ {r} : pending'[q] = pending[q]
  BY DEF Dropped, TypeOK
<1>2. View(r)' = rows /\ \A q \in Requests \ {r} : View(q)' = View(q)
  BY <1>1, NoWritesFacts, Types DEF View
<1> QED
  BY <1>1, <1>2, NoWritesFacts DEF KeysInv

\* A write the unique constraints accept clashes with no other transaction.
LEMMA KeysAccept ==
  ASSUME IInv, KeysInv, NEW r \in Requests, NEW w \in Writes, Accepted(r, w)
  PROVE  KeysInv'
<1> USE DEF IInv
<1>1. /\ rows' = rows /\ pending'[r] = Written(pending[r], w)
      /\ \A q \in Requests \ {r} : pending'[q] = pending[q]
  BY DEF Accepted, TypeOK
<1>2. /\ rows \in Tables /\ View(r) \in Tables
      /\ \A q \in Requests : pending[q] \in Writes
  BY Types
<1>3. View(r)' = Written(View(r), w) /\ \A q \in Requests \ {r} : View(q)' = View(q)
  BY <1>1, <1>2, WrittenTwice DEF View
<1>4. KeysDiffer(View(r)')
  BY <1>2, <1>3, KeysOfStatement DEF KeysInv, Accepted, ConstraintsHold
<1>5. ASSUME NEW q \in Requests \ {r}, NEW i \in Stored(pending'[r]), NEW j \in Stored(pending[q])
      PROVE  IndexKey(pending'[r][i]) # IndexKey(pending[q][j])
  <2>1. i \in Ids /\ j \in Ids /\ pending[q][j] \notin {NoRow, Untouched}
    BY DEF Stored
  <2>2. CASE w[i] = Untouched
    <3>1. i \in Stored(pending[r]) /\ pending'[r][i] = pending[r][i]
      BY <1>1, <2>1, <2>2 DEF Stored, Written
    <3> QED
      BY <3>1 DEF KeysInv
  <2>3. CASE w[i] # Untouched
    <3>1. i \in Stored(w) /\ pending'[r][i] = w[i]
      BY <1>1, <2>1, <2>3 DEF Stored, Written
    <3> QED
      BY <2>1, <3>1 DEF Accepted, MustWait
  <2> QED
    BY <2>2, <2>3
<1> QED
  BY <1>1, <1>3, <1>4, <1>5 DEF KeysInv

\* Committing moves the keys from the transaction to the table.
LEMMA KeysCommit ==
  ASSUME IInv, KeysInv, NEW r \in Requests, Commits(r)
  PROVE  KeysInv'
<1> USE DEF IInv
<1>1. /\ rows' = View(r) /\ pending'[r] = NoWrites
      /\ \A q \in Requests \ {r} : pending'[q] = pending[q]
  BY DEF Commits, EndRequest, TypeOK
<1>2. /\ rows \in Tables /\ View(r) \in Tables
      /\ \A q \in Requests : pending[q] \in Writes
  BY Types
<1>3. View(r)' = rows'
  BY <1>1, <1>2, NoWritesFacts DEF View
<1>4. ASSUME NEW q \in Requests \ {r} PROVE KeysDiffer(View(q)')
  <2>1. View(q)' = Written(Written(rows, pending[r]), pending[q])
    BY <1>1 DEF View
  <2> QED
    BY <1>2, <2>1, KeysMerge DEF KeysInv, View
<1> QED
  BY <1>1, <1>3, <1>4, NoWritesFacts DEF KeysInv

\* No step lets two rows with one key into what anyone sees.
LEMMA KeysKept ==
  ASSUME IInv, KeysInv, [Next]_vars
  PROVE  KeysInv'
<1>1. CASE Quiet
  BY <1>1 DEF Quiet, KeysInv, View
<1> QED
  BY <1>1, StepWrites, KeysDrop, KeysAccept, KeysCommit DEF Commit, Commits

-----------------------------------------------------------------------------
(* Products and the category they are in                                    *)

\* A request ends, for another reason than the net that catches nothing.
LEMMA ContentsEnd ==
  ASSUME IInv, ContentsInv, NEW r \in Requests, NEW x, EndRequest(r, x),
         x # "ProtectedError", rows' = rows, products' = products
  PROVE  ContentsInv'
<1> USE DEF IInv
<1>1. /\ pc'[r] = "idle" /\ pending'[r] = NoWrites /\ answer'[r] = x
      /\ \A q \in Requests \ {r} : /\ SameRequest(q) /\ answer'[q] = answer[q]
  BY DEF EndRequest, SameRequest, TypeOK
<1>2. \A i \in Ids : NoWrites[i] # NoRow
  BY IdsFacts DEF NoWrites
<1> QED
  BY <1>1, <1>2 DEF ContentsInv, FiledUnder, SameRequest

\* A statement: the foreign key of the products is checked with it.
LEMMA ContentsWrite ==
  ASSUME IInv, ContentsInv, NEW r \in Requests, NEW w \in Writes,
         NEW next \in {"saved", "written"}, Write(r, w, next),
         rows' = rows, products' = products
  PROVE  ContentsInv'
<1> USE DEF IInv
<1>1. CASE EndRequest(r, "IntegrityError")
  BY <1>1, ContentsEnd
<1>2. CASE /\ ConstraintsHold(Written(View(r), w), w)
           /\ pending' = [pending EXCEPT ![r] = Written(@, w)]
           /\ pc' = [pc EXCEPT ![r] = next]
           /\ UNCHANGED <<call, object, oldPrefix, held, answer>>
  <2>1. /\ pc'[r] = next /\ pending'[r] = Written(pending[r], w) /\ answer' = answer
        /\ \A q \in Requests \ {r} : SameRequest(q)
    BY <1>2 DEF SameRequest, TypeOK
  <2>2. \A i \in Ids : w[i] = NoRow => FiledUnder(i) = {}
    BY <1>2 DEF ConstraintsHold
  <2>3. \A i \in Ids : pending'[r][i] = NoRow => FiledUnder(i) = {}
    BY <2>1, <2>2 DEF Written, ContentsInv
  <2> QED
    BY <2>1, <2>3 DEF ContentsInv, FiledUnder, SameRequest
<1> QED
  BY <1>1, <1>2 DEF Write

\* A step inside a request that writes nothing and approves no deletion.
LEMMA ContentsQuiet ==
  ASSUME ContentsInv, rows' = rows, products' = products, pending' = pending,
         \A q \in Requests : answer'[q] # "ProtectedError",
         \A q \in Requests : pc'[q] = "approved" /\ call'[q].op = "delete" =>
            pc[q] = "approved" /\ call'[q] = call[q]
  PROVE  ContentsInv'
BY DEF ContentsInv, FiledUnder

\* A delete is approved only after its locks are taken and no product was found.
LEMMA ContentsCheckDelete ==
  ASSUME IInv, ContentsInv, NEW r \in Requests, CheckDelete(r)
  PROVE  ContentsInv'
<1> USE DEF IInv
<1>1. CASE InUse(View(r), call[r].id)
  BY <1>1, ContentsEnd DEF CheckDelete, Refuse, tables
<1>2. CASE ~InUse(View(r), call[r].id)
  <2>1. FiledUnder(call[r].id) = {}
    BY <1>2 DEF InUse
  <2>2. /\ UNCHANGED <<rows, products, call, pending, answer>>
        /\ \A q \in Requests \ {r} : pc'[q] = pc[q]
    BY <1>2 DEF CheckDelete, tables, TypeOK
  <2> QED
    BY <2>1, <2>2 DEF ContentsInv, FiledUnder
<1> QED
  BY <1>1, <1>2

\* A shared lock on the category's row keeps a product out of a category that
\* a request has locked, and no product is filed under one that is gone.
LEMMA ContentsFile ==
  ASSUME IInv, ContentsInv, NEW p \in Products, NEW c \in Ids, FileProduct(p, c)
  PROVE  ContentsInv'
<1> USE DEF IInv
<1>1. /\ rows[c] # NoRow /\ rows' = rows /\ UNCHANGED locals
      /\ products'[p] = c /\ \A o \in Products \ {p} : products'[o] = products[o]
  BY DEF FileProduct, TypeOK
<1>2. \A q \in Requests : c \notin held[q] /\ pending[q][c] = Untouched
  BY DEF FileProduct, Exclusive
<1>3. \A i : i # c /\ FiledUnder(i) = {} => FiledUnder(i)' = {}
  BY <1>1 DEF FiledUnder
<1>4. ASSUME NEW q \in Requests, pc[q] = "approved", call[q].op = "delete"
      PROVE  call[q].id # c
  <2>1. call[q].id \in Named(q) /\ InTransaction(q)
    BY <1>4, CallFacts DEF Named, InTransaction
  <2> QED
    BY <1>1, <1>2, <2>1 DEF NamedInv
<1>5. \A q \in Requests, i \in Ids : pending[q][i] = NoRow => i # c
  BY <1>2, IdsFacts
<1> QED
  BY <1>1, <1>3, <1>4, <1>5 DEF ContentsInv, locals

\* A commit removes only a category that the delete found empty.
LEMMA ContentsCommit ==
  ASSUME IInv, ContentsInv, NEW r \in Requests, Commit(r)
  PROVE  ContentsInv'
<1> USE DEF IInv
<1>1. /\ rows' = View(r) /\ products' = products
      /\ pc'[r] = "idle" /\ pending'[r] = NoWrites /\ answer'[r] = "ok"
      /\ \A q \in Requests \ {r} : SameRequest(q) /\ answer'[q] = answer[q]
  BY DEF Commit, EndRequest, SameRequest, TypeOK
<1>2. \A i \in Ids : NoWrites[i] # NoRow
  BY IdsFacts DEF NoWrites
<1>3. ASSUME NEW p \in Products, products[p] # None PROVE rows'[products[p]] # NoRow
  <2>1. products[p] \in Ids /\ rows[products[p]] # NoRow /\ p \in FiledUnder(products[p])
    BY <1>3 DEF TypeOK, ContentsInv, FiledUnder
  <2>2. pending[r][products[p]] # NoRow
    BY <2>1 DEF ContentsInv
  <2> QED
    BY <1>1, <2>1, <2>2 DEF View, Written
<1> QED
  BY <1>1, <1>2, <1>3 DEF ContentsInv, FiledUnder, SameRequest

\* A request that arrives files no product.
LEMMA ContentsRequest ==
  ASSUME IInv, ContentsInv, NEW r \in Requests,
         RequestCreate(r) \/ RequestUpdate(r) \/ RequestDelete(r)
  PROVE  ContentsInv'
<1>1. \E request : Receive(r, request)
  BY DEF RequestCreate, RequestUpdate, RequestDelete
<1>2. PICK request : Receive(r, request)
  BY <1>1
<1>3. /\ UNCHANGED <<rows, products, pending>>
      /\ pc'[r] = "waiting" /\ answer'[r] = "none"
      /\ \A q \in Requests \ {r} :
            pc'[q] = pc[q] /\ call'[q] = call[q] /\ answer'[q] = answer[q]
  BY <1>2 DEF Receive, tables, IInv, TypeOK
<1> QED
  BY <1>3, ContentsQuiet DEF ContentsInv

\* Serving a request moves no product.
LEMMA ContentsServe ==
  ASSUME IInv, ContentsInv, NEW r \in Requests, Serve(r)
  PROVE  ContentsInv'
<1> USE DEF IInv
<1>1. CASE LockTree(r)
  BY <1>1, ContentsQuiet DEF LockTree, tables, TypeOK, ContentsInv
<1>2. CASE CheckCreate(r)
  <2> DEFINE row == [parent |-> call[r].parent, name |-> call[r].name,
                     ancestor_path |-> AncestorPathUnder(View(r), call[r].parent)]
             verdict == CreateVerdict(View(r), call[r], row)
  <2>1. verdict # "ProtectedError"
    BY DEF CreateVerdict
  <2>2. CASE verdict # "ok"
    BY <1>2, <2>1, <2>2, ContentsEnd DEF CheckCreate, Refuse, tables
  <2>3. CASE verdict = "ok"
    <3>1. /\ UNCHANGED <<rows, products, pending, answer, call>> /\ call[r].op = "create"
          /\ \A q \in Requests \ {r} : pc'[q] = pc[q]
      BY <1>2, <2>3 DEF CheckCreate, tables, TypeOK
    <3> QED
      BY <3>1, ContentsQuiet DEF ContentsInv
  <2> QED
    BY <2>2, <2>3
<1>3. CASE Insert(r)
  <2>1. CASE Refuse(r, "OperationalError")
    BY <2>1, ContentsEnd DEF Refuse, tables
  <2> QED
    BY <1>3, <2>1, InsertFacts, ContentsWrite DEF Insert
<1>4. CASE CheckUpdate(r)
  <2> DEFINE c    == call[r].id
             gone == Gone(View(r), c) \/ Gone(View(r), call[r].parent)
             row  == Wanted(View(r), call[r])
             verdict == IF gone THEN "DoesNotExist" ELSE UpdateVerdict(View(r), call[r], row)
  <2>1. verdict # "ProtectedError"
    BY DEF UpdateVerdict
  <2>2. CASE verdict # "ok"
    BY <1>4, <2>1, <2>2, ContentsEnd DEF CheckUpdate, Refuse, tables
  <2>3. CASE verdict = "ok"
    <3>1. /\ UNCHANGED <<rows, products, pending, answer, call>> /\ call[r].op = "update"
          /\ \A q \in Requests \ {r} : pc'[q] = pc[q]
      BY <1>4, <2>3 DEF CheckUpdate, tables, TypeOK
    <3> QED
      BY <3>1, ContentsQuiet DEF ContentsInv
  <2> QED
    BY <2>2, <2>3
<1>5. CASE SaveRow(r)
  BY <1>5, SaveFacts, ContentsWrite DEF SaveRow, tables
<1>6. CASE RewriteDescendants(r)
  BY <1>6, RewriteFacts, ContentsWrite DEF RewriteDescendants, tables
<1>7. CASE CheckDelete(r)
  BY <1>7, ContentsCheckDelete
<1>8. CASE DeleteRow(r)
  <2>1. Children(View(r), call[r].id) = {} /\ FiledUnder(call[r].id) = {}
    BY <1>8, DeleteFacts DEF DeleteRow, ContentsInv
  <2> QED
    BY <1>8, <2>1, DeleteFacts, ContentsWrite DEF DeleteRow, tables
<1>9. CASE Commit(r)
  BY <1>9, ContentsCommit
<1> QED
  BY <1>1, <1>2, <1>3, <1>4, <1>5, <1>6, <1>7, <1>8, <1>9 DEF Serve

\* Every step keeps the products of a category that is being deleted away from it.
LEMMA ContentsKept ==
  ASSUME IInv, ContentsInv, [Next]_vars
  PROVE  ContentsInv'
<1>1. ASSUME NEW r \in Requests, Abort(r) PROVE ContentsInv'
  BY <1>1, ContentsEnd DEF Abort, Refuse, tables
<1>2. ASSUME NEW p \in Products, RemoveProduct(p) PROVE ContentsInv'
  <2>1. \A i \in Ids \cup {None} : i # None /\ FiledUnder(i) = {} => FiledUnder(i)' = {}
    BY <1>2 DEF RemoveProduct, FiledUnder, IInv, TypeOK
  <2>2. \A q \in Requests : pc[q] = "approved" /\ call[q].op = "delete" => call[q].id \in Ids
    BY CallFacts DEF IInv
  <2> QED
    BY <1>2, <2>1, <2>2, IdsFacts DEF RemoveProduct, ContentsInv, IInv, TypeOK, locals
<1>3. CASE UNCHANGED vars
  BY <1>3 DEF vars, tables, locals, ContentsInv, FiledUnder
<1> QED
  BY <1>1, <1>2, <1>3, ContentsRequest, ContentsServe, ContentsFile DEF Next

-----------------------------------------------------------------------------
(* One call of the service is one transaction                               *)

\* Writes begin with the statement after which pc says so, and a commit ends them.
LEMMA OneCallKept ==
  ASSUME IInv, OneCallInv, [Next]_vars
  PROVE  OneCallInv'
<1> USE DEF IInv
<1>1. ASSUME NEW r \in Requests, NEW x, EndRequest(r, x) PROVE OneCallInv'
  BY <1>1 DEF EndRequest, OneCallInv, TypeOK
<1>2. ASSUME NEW r \in Requests, NEW request, Receive(r, request) PROVE OneCallInv'
  BY <1>2 DEF Receive, OneCallInv, TypeOK
<1>3. ASSUME NEW r \in Requests, NEW w, NEW next \in {"saved", "written"},
             Write(r, w, next)
      PROVE  OneCallInv'
  BY <1>1, <1>3 DEF Write, OneCallInv, TypeOK
<1>4. ASSUME NEW r \in Requests, Serve(r) \/ Abort(r)
      PROVE  OneCallInv'
  <2>1. CASE LockTree(r)
    BY <2>1 DEF LockTree, OneCallInv, TypeOK
  <2>2. CASE CheckCreate(r)
    BY <1>1, <2>2 DEF CheckCreate, Refuse, OneCallInv, TypeOK
  <2>3. CASE CheckUpdate(r)
    BY <1>1, <2>3 DEF CheckUpdate, Refuse, OneCallInv, TypeOK
  <2>4. CASE CheckDelete(r)
    BY <1>1, <2>4 DEF CheckDelete, Refuse, OneCallInv, TypeOK
  <2>5. CASE Insert(r) \/ SaveRow(r) \/ RewriteDescendants(r) \/ DeleteRow(r)
    BY <1>1, <1>3, <2>5 DEF Insert, SaveRow, RewriteDescendants, DeleteRow, Refuse
  <2>6. CASE Commit(r) \/ Abort(r)
    BY <1>1, <2>6 DEF Commit, Abort, Refuse
  <2> QED
    BY <1>4, <2>1, <2>2, <2>3, <2>4, <2>5, <2>6 DEF Serve
<1>5. CASE pc' = pc /\ pending' = pending
  BY <1>5 DEF OneCallInv
<1>6. ASSUME NEW p \in Products, RemoveProduct(p) \/ \E c \in Ids : FileProduct(p, c)
      PROVE  OneCallInv'
  BY <1>5, <1>6 DEF RemoveProduct, FileProduct, locals
<1> QED
  BY <1>2, <1>4, <1>5, <1>6
  DEF Next, RequestCreate, RequestUpdate, RequestDelete, vars, locals

-----------------------------------------------------------------------------
(* What a commit leaves alone                                               *)

\* A commit changes no row that another request has locked or written.
LEMMA CommitLeaves ==
  ASSUME IInv, NEW q \in Requests, NEW r \in Requests, q # r,
         pc[q] = "written", rows' = View(q), NEW i \in Ids,
         i \in held[r] \/ pending[r][i] # Untouched
  PROVE  rows'[i] = rows[i]
<1> USE DEF IInv
<1>1. CASE i \in held[r]
  <2>1. held[q] = {} /\ rows[i] # NoRow
    BY <1>1 DEF LocksInv, Existing
  <2>2. pending[q][i] = Untouched
    BY <2>1, BlindCommit
  <2> QED
    BY <2>2 DEF View, Written
<1>2. CASE Inserted(r, i)
  BY <1>2 DEF Inserted, View, Written
<1> QED
  BY <1>1, <1>2 DEF PendingInv

\* Where the committing request had locked nothing, or another holds rows, a
\* changed row is a new top-level category.
LEMMA CommitAddsRoots ==
  ASSUME IInv, NEW q \in Requests, NEW r \in Requests, q # r, held[r] # {},
         pc[q] = "written", rows' = View(q), NEW i \in Ids, rows'[i] # rows[i]
  PROVE  rows[i] = NoRow /\ rows'[i].ancestor_path = ROOT_PATH
<1>1. held[q] = {}
  BY DEF IInv, LocksInv
<1>2. pending[q][i] # Untouched /\ rows'[i] = pending[q][i]
  BY DEF View, Written
<1>3. rows[i] = NoRow /\ i \in Stored(pending[q]) /\ rows'[i].parent = None
  BY <1>1, <1>2, BlindCommit
<1>4. TableAgrees(rows') /\ i \in Existing(rows')
  BY <1>2, <1>3 DEF IInv, CheckedInv, Checked, Stored, Existing
<1> QED
  BY <1>3, <1>4 DEF TableAgrees, AncestorPathUnder

-----------------------------------------------------------------------------
(* Names that were found free                                               *)

\* A step that approves nothing new and changes no row keeps approved names free.
LEMMA FreeNameQuiet ==
  ASSUME FreeNameInv, rows' = rows,
         \A q \in Requests : pc'[q] = "approved" /\ call'[q].op # "delete" =>
            pc[q] = "approved" /\ call'[q] = call[q] /\ object'[q] = object[q]
  PROVE  FreeNameInv'
BY DEF FreeNameInv, NameIsFree

\* So does the end of a request.
LEMMA FreeNameEnd ==
  ASSUME IInv, FreeNameInv, NEW r \in Requests, NEW x, EndRequest(r, x), rows' = rows
  PROVE  FreeNameInv'
<1>1. pc'[r] = "idle" /\ \A q \in Requests \ {r} : SameRequest(q)
  BY DEF EndRequest, SameRequest, IInv, TypeOK
<1> QED
  BY <1>1, FreeNameQuiet DEF SameRequest

\* So does a write inside a transaction, which is not yet in the table.
LEMMA FreeNameWrite ==
  ASSUME IInv, FreeNameInv, NEW r \in Requests, NEW w,
         NEW next \in {"saved", "written"}, Write(r, w, next), rows' = rows
  PROVE  FreeNameInv'
<1>1. CASE EndRequest(r, "IntegrityError")
  BY <1>1, FreeNameEnd
<1>2. CASE /\ pc' = [pc EXCEPT ![r] = next]
           /\ UNCHANGED <<call, object, oldPrefix, held, answer>>
  <2>1. pc'[r] = next /\ \A q \in Requests \ {r} : pc'[q] = pc[q]
    BY <1>2 DEF IInv, TypeOK
  <2> QED
    BY <1>2, <2>1, FreeNameQuiet
<1> QED
  BY <1>1, <1>2 DEF Write

\* `create_category` approves a name only if no sibling in the table has it.
LEMMA FreeNameCheckCreate ==
  ASSUME IInv, OneCallInv, FreeNameInv, NEW r \in Requests, CheckCreate(r)
  PROVE  FreeNameInv'
<1> DEFINE row == [parent |-> call[r].parent, name |-> call[r].name,
                   ancestor_path |-> AncestorPathUnder(View(r), call[r].parent)]
           verdict == CreateVerdict(View(r), call[r], row)
<1> USE DEF IInv
<1>1. CASE verdict # "ok"
  BY <1>1, FreeNameEnd DEF CheckCreate, Refuse, tables
<1>2. CASE verdict = "ok"
  <2>1. /\ pc[r] = "locked" /\ call[r].op = "create" /\ View(r) = rows
        /\ rows' = rows /\ call' = call /\ pc'[r] = "approved" /\ object'[r] = row
        /\ \A q \in Requests \ {r} : SameRequest(q)
    BY <1>2, OneCallView DEF CheckCreate, tables, SameRequest, TypeOK
  <2>2. call[r].id = None
    <3>1. call[r] \in Calls
      BY <2>1 DEF TypeOK, NoCall
    <3> QED
      BY <2>1, <3>1 DEF Calls
  <2>3. NameIsFree(rows, row, None)
    BY <1>2, <2>1 DEF CreateVerdict
  <2> HIDE DEF row, verdict
  <2> QED
    BY <2>1, <2>2, <2>3 DEF FreeNameInv, SameRequest, NameIsFree
<1> QED
  BY <1>1, <1>2

\* `update_category` approves a name only if no other sibling has it.
LEMMA FreeNameCheckUpdate ==
  ASSUME IInv, FreeNameInv, NEW r \in Requests, CheckUpdate(r)
  PROVE  FreeNameInv'
<1> DEFINE c    == call[r].id
           gone == Gone(View(r), c) \/ Gone(View(r), call[r].parent)
           row  == Wanted(View(r), call[r])
           verdict == IF gone THEN "DoesNotExist" ELSE UpdateVerdict(View(r), call[r], row)
<1> USE DEF IInv
<1>1. CASE verdict # "ok"
  BY <1>1, FreeNameEnd DEF CheckUpdate, Refuse, tables
<1>2. CASE verdict = "ok"
  <2>1. /\ pc[r] = "locked" /\ View(r) = rows
        /\ rows' = rows /\ call' = call /\ pc'[r] = "approved" /\ object'[r] = row
        /\ \A q \in Requests \ {r} : SameRequest(q)
    BY <1>2, ViewOfRows DEF CheckUpdate, tables, SameRequest, TypeOK
  <2>2. UpdateVerdict(rows, call[r], row) = "ok"
    BY <1>2, <2>1
  <2> HIDE DEF row, verdict, gone
  <2>3. NameIsFree(rows, row, c)
    BY <2>2 DEF UpdateVerdict
  <2> QED
    BY <2>1, <2>3 DEF FreeNameInv, SameRequest, NameIsFree
<1> QED
  BY <1>1, <1>2

\* What another transaction can commit meanwhile adds top-level categories only.
LEMMA FreeNameCommit ==
  ASSUME IInv, OneCallInv, DraftInv, FreeNameInv, NEW r \in Requests, Commit(r)
  PROVE  FreeNameInv'
<1> USE DEF IInv
<1>1. /\ pc[r] = "written" /\ rows' = View(r) /\ pc'[r] = "idle"
      /\ \A q \in Requests \ {r} : SameRequest(q)
  BY DEF Commit, EndRequest, SameRequest, TypeOK
<1>2. ASSUME NEW q \in Requests \ {r}, pc[q] = "approved", call[q].op # "delete",
             object[q].parent # None
      PROVE  NameIsFree(rows', object[q], call[q].id)
  <2> DEFINE p == object[q].parent
  <2>1. /\ p \in held[q] /\ object[q].ancestor_path = AncestorPathUnder(rows, p)
    <3>1. call[q].op \in {"create", "update"}
      BY <1>2 DEF DraftInv, Calls
    <3> QED
      BY <1>2, <3>1, CreateFacts, SaveFacts
  <2>2. p \in Existing(rows) /\ p \in Ids /\ rows[p] \in Row
    BY <2>1, Types, ExistingFacts DEF LocksInv, Existing
  <2>3. object[q].ancestor_path # ROOT_PATH
    BY <1>2, <2>1, <2>2, RowFields, FullPathIsLonger DEF AncestorPathUnder, StartsWith, ROOT_PATH
  <2>4. ASSUME NEW i \in Existing(rows') \ {call[q].id}
        PROVE  IndexKey(rows'[i]) # IndexKey(object[q])
    <3>1. i \in Ids
      BY DEF Existing
    <3>2. CASE rows'[i] = rows[i]
      BY <1>2, <3>1, <3>2 DEF FreeNameInv, NameIsFree, Existing
    <3>3. CASE rows'[i] # rows[i]
      BY <1>1, <2>1, <2>3, <3>1, <3>3, CommitAddsRoots DEF IndexKey
    <3> QED
      BY <3>2, <3>3
  <2> QED
    BY <2>4 DEF NameIsFree
<1> QED
  BY <1>1, <1>2 DEF FreeNameInv, SameRequest

\* Every step keeps the names of approved requests under a parent free.
LEMMA FreeNameKept ==
  ASSUME IInv, OneCallInv, DraftInv, FreeNameInv, [Next]_vars
  PROVE  FreeNameInv'
<1> USE DEF IInv
<1>1. ASSUME NEW r \in Requests, RequestCreate(r) \/ RequestUpdate(r) \/ RequestDelete(r)
      PROVE  FreeNameInv'
  <2>1. PICK request : Receive(r, request)
    BY <1>1 DEF RequestCreate, RequestUpdate, RequestDelete
  <2> QED
    BY <2>1, FreeNameQuiet DEF Receive, tables, TypeOK
<1>2. ASSUME NEW r \in Requests, LockTree(r) PROVE FreeNameInv'
  BY <1>2, FreeNameQuiet DEF LockTree, tables, TypeOK
<1>3. ASSUME NEW r \in Requests, Insert(r) PROVE FreeNameInv'
  BY <1>3, FreeNameEnd, FreeNameWrite DEF Insert, Refuse, tables
<1>4. ASSUME NEW r \in Requests, SaveRow(r) PROVE FreeNameInv'
  BY <1>4, FreeNameWrite DEF SaveRow, tables
<1>5. ASSUME NEW r \in Requests, RewriteDescendants(r) PROVE FreeNameInv'
  BY <1>5, FreeNameWrite DEF RewriteDescendants, tables
<1>6. ASSUME NEW r \in Requests, CheckDelete(r) PROVE FreeNameInv'
  <2>1. CASE Refuse(r, "CategoryInUse")
    BY <2>1, FreeNameEnd DEF Refuse, tables
  <2> QED
    BY <1>6, <2>1, FreeNameQuiet DEF CheckDelete, tables, TypeOK
<1>7. ASSUME NEW r \in Requests, DeleteRow(r) PROVE FreeNameInv'
  BY <1>7, FreeNameEnd, FreeNameWrite DEF DeleteRow, tables
<1>8. ASSUME NEW r \in Requests, Abort(r) PROVE FreeNameInv'
  BY <1>8, FreeNameEnd DEF Abort, Refuse, tables
<1>9. ASSUME NEW p \in Products, RemoveProduct(p) \/ \E c \in Ids : FileProduct(p, c)
      PROVE  FreeNameInv'
  BY <1>9, FreeNameQuiet DEF RemoveProduct, FileProduct, locals
<1>10. CASE UNCHANGED vars
  BY <1>10, FreeNameQuiet DEF vars, tables, locals
<1> QED
  BY <1>1, <1>2, <1>3, <1>4, <1>5, <1>6, <1>7, <1>8, <1>9, <1>10,
     FreeNameCheckCreate, FreeNameCheckUpdate, FreeNameCommit DEF Next, Serve

-----------------------------------------------------------------------------
(* What a request commits is what it was asked for                          *)

\* What DraftInv says of one request.
Drafted(r) ==
    /\ pc[r] # "idle" => call[r] \in Calls
    /\ call[r].op = "update" =>
        /\ call[r].name = Unchanged \/ "name" \in call[r].sent
        /\ call[r].parent = Unchanged \/ "parent" \in call[r].sent
        /\ pc[r] \in {"approved", "saved", "written"} => ObjectAsSent(r)
    /\ pc[r] = "written" => Draft(r)

\* DraftInv, request by request.
LEMMA DraftedOf == DraftInv <=> \A r \in Requests : Drafted(r)
BY DEF DraftInv, Drafted

\* A step that leaves the table and a request alone leaves what it drafted alone.
LEMMA DraftedFrame ==
  ASSUME NEW q \in Requests, rows' = rows, SameRequest(q), Drafted(q)
  PROVE  Drafted(q)'
BY DEF SameRequest, Drafted, ObjectAsSent, Draft

\* A request that ended has drafted nothing.
LEMMA DraftedEnd ==
  ASSUME IInv, DraftInv, NEW r \in Requests, NEW x, EndRequest(r, x), rows' = rows
  PROVE  DraftInv'
<1>1. /\ pc'[r] = "idle" /\ call'[r] = NoCall
      /\ \A q \in Requests \ {r} : SameRequest(q)
  BY DEF EndRequest, SameRequest, IInv, TypeOK
<1>2. Drafted(r)'
  BY <1>1 DEF Drafted, NoCall
<1>3. \A q \in Requests \ {r} : Drafted(q)'
  BY <1>1, DraftedFrame, DraftedOf
<1> QED
  BY <1>2, <1>3 DEF DraftInv, Drafted

\* A request that has just arrived has drafted nothing.
LEMMA DraftedRequest ==
  ASSUME IInv, DraftInv, NEW r \in Requests,
         RequestCreate(r) \/ RequestUpdate(r) \/ RequestDelete(r)
  PROVE  DraftInv'
<1> DEFINE AsSent(request) ==
      request.op = "update" =>
        /\ request.name = Unchanged \/ "name" \in request.sent
        /\ request.parent = Unchanged \/ "parent" \in request.sent
<1>1. \E request \in Calls : Receive(r, request) /\ AsSent(request)
  <2>1. \A i \in Existing(rows) : i \in Ids
    BY DEF Existing
  <2>2. CASE RequestCreate(r)
    BY <2>1, <2>2 DEF RequestCreate, Calls
  <2>3. CASE RequestUpdate(r)
    <3>1. PICK c \in Existing(rows), sent \in SUBSET Fields,
               name \in Names, parent \in Existing(rows) \cup {None} :
            Receive(r, Changes(c, sent, name, parent, rows[c]))
      BY <2>3 DEF RequestUpdate
    <3> DEFINE request == Changes(c, sent, name, parent, rows[c])
    <3>2. request \in Calls /\ AsSent(request)
      BY <2>1 DEF Calls, Changes
    <3> HIDE DEF request
    <3> QED
      BY <3>1, <3>2 DEF request
  <2>4. CASE RequestDelete(r)
    <3>1. PICK c \in Existing(rows) : Receive(r, [NoCall EXCEPT !.op = "delete", !.id = c])
      BY <2>4 DEF RequestDelete
    <3> DEFINE request == [NoCall EXCEPT !.op = "delete", !.id = c]
    <3>2. request \in Calls /\ AsSent(request)
      BY <2>1 DEF Calls, NoCall
    <3> HIDE DEF request
    <3> QED
      BY <3>1, <3>2 DEF request
  <2> QED
    BY <2>2, <2>3, <2>4
<1>2. PICK request \in Calls : Receive(r, request) /\ AsSent(request)
  BY <1>1
<1>3. /\ rows' = rows /\ pc'[r] = "waiting" /\ call'[r] = request
      /\ \A q \in Requests \ {r} : SameRequest(q)
  BY <1>2 DEF Receive, tables, SameRequest, IInv, TypeOK
<1>4. Drafted(r)'
  BY <1>2, <1>3 DEF Drafted
<1>5. \A q \in Requests \ {r} : Drafted(q)'
  BY <1>3, DraftedFrame, DraftedOf
<1> QED
  BY <1>4, <1>5 DEF DraftInv, Drafted

\* A step inside a request that leaves what it was asked for.
LEMMA DraftedStep ==
  ASSUME IInv, DraftInv, NEW r \in Requests, rows' = rows, call'[r] = call[r],
         pc[r] # "idle", \A q \in Requests \ {r} : SameRequest(q),
         /\ call[r].op = "update" /\ pc'[r] \in {"approved", "saved", "written"}
            => ObjectAsSent(r)',
         pc'[r] = "written" => Draft(r)'
  PROVE  DraftInv'
<1>1. Drafted(r)'
  BY DraftedOf DEF Drafted
<1>2. \A q \in Requests \ {r} : Drafted(q)'
  BY DraftedFrame, DraftedOf
<1> QED
  BY <1>1, <1>2 DEF DraftInv, Drafted

\* The object `update_category` is about to save is the locked row with the new fields.
LEMMA DraftedCheckUpdate ==
  ASSUME IInv, DraftInv, NEW r \in Requests, CheckUpdate(r)
  PROVE  DraftInv'
<1> DEFINE c    == call[r].id
           gone == Gone(View(r), c) \/ Gone(View(r), call[r].parent)
           row  == Wanted(View(r), call[r])
           verdict == IF gone THEN "DoesNotExist" ELSE UpdateVerdict(View(r), call[r], row)
<1> USE DEF IInv
<1>1. CASE verdict # "ok"
  BY <1>1, DraftedEnd DEF CheckUpdate, Refuse, tables
<1>2. CASE verdict = "ok"
  <2>1. /\ pc[r] = "locked" /\ call[r].op = "update" /\ View(r) = rows
        /\ rows' = rows /\ call' = call /\ pc'[r] = "approved" /\ object'[r] = row
        /\ \A q \in Requests \ {r} : SameRequest(q)
    BY <1>2, ViewOfRows DEF CheckUpdate, tables, SameRequest, TypeOK
  <2>2. c \in Ids /\ ~gone
    BY <1>2, <2>1, CallFacts
  <2>3. ObjectAsSent(r)'
    BY <2>1, <2>2 DEF ObjectAsSent, Wanted, Gone
  <2> HIDE DEF row, verdict, gone
  <2> QED
    BY <2>1, <2>3, DraftedStep
<1> QED
  BY <1>1, <1>2

\* A statement that is accepted.
LEMMA DraftedWrite ==
  ASSUME IInv, DraftInv, NEW r \in Requests, NEW w \in Writes,
         NEW next \in {"saved", "written"}, Write(r, w, next), rows' = rows,
         pc[r] \in {"approved", "saved"},
         call[r].op = "update" => ObjectAsSent(r),
         next = "written" /\ pending'[r] = Written(pending[r], w)
            /\ call'[r] = call[r] /\ object'[r] = object[r] => Draft(r)'
  PROVE  DraftInv'
<1>1. CASE EndRequest(r, "IntegrityError")
  BY <1>1, DraftedEnd
<1>2. CASE /\ pending' = [pending EXCEPT ![r] = Written(@, w)]
           /\ pc' = [pc EXCEPT ![r] = next]
           /\ UNCHANGED <<call, object, oldPrefix, held, answer>>
  <2>1. /\ pc'[r] = next /\ pending'[r] = Written(pending[r], w)
        /\ call'[r] = call[r] /\ object'[r] = object[r]
        /\ \A q \in Requests \ {r} : SameRequest(q)
    BY <1>2 DEF SameRequest, IInv, TypeOK
  <2>2. call[r].op = "update" => ObjectAsSent(r)'
    BY <2>1 DEF ObjectAsSent
  <2> QED
    BY <2>1, <2>2, DraftedStep
<1> QED
  BY <1>1, <1>2 DEF Write

\* `save()` of a new category writes exactly the drafted row.
LEMMA DraftedInsert ==
  ASSUME IInv, OneCallInv, DraftInv, NEW r \in Requests, Insert(r)
  PROVE  DraftInv'
<1> DEFINE c == lastId + 1
           w == [NoWrites EXCEPT ![c] = object[r]]
<1> USE DEF IInv
<1>1. CASE Refuse(r, "OperationalError")
  BY <1>1, DraftedEnd DEF Refuse, tables
<1>2. CASE lastId < LastId
  <2>1. /\ pc[r] = "approved" /\ call[r].op = "create" /\ Write(r, w, "written")
        /\ rows' = rows /\ pending[r] = NoWrites
    BY <1>2, OneCallView DEF Insert
  <2>2. c \in Ids /\ rows[c] = NoRow /\ object[r] \in Row /\ w \in Writes
    BY <1>2, <2>1, InsertFacts
  <2>3. Written(NoWrites, w) = w
    BY <2>2, OneWrite
  <2>4. pending'[r] = w /\ call'[r] = call[r] /\ object'[r] = object[r] => Draft(r)'
    BY <2>1, <2>2, IdsFacts DEF Draft
  <2> HIDE DEF c, w
  <2> QED
    BY <2>1, <2>2, <2>3, <2>4, DraftedWrite
<1> QED
  BY <1>1, <1>2 DEF Insert

\* `save()` of an old category writes exactly the drafted row.
LEMMA DraftedSave ==
  ASSUME IInv, DraftInv, NEW r \in Requests, SaveRow(r)
  PROVE  DraftInv'
<1> DEFINE c == call[r].id
           w == [NoWrites EXCEPT ![c] = object[r]]
           next == IF NewPrefix(r) = oldPrefix[r] THEN "written" ELSE "saved"
<1> USE DEF IInv
<1>1. /\ pc[r] = "approved" /\ call[r].op = "update" /\ Write(r, w, next)
      /\ rows' = rows /\ pending[r] = NoWrites /\ next \in {"saved", "written"}
  BY ViewOfRows DEF SaveRow, tables
<1>2. c \in Ids /\ object[r] \in Row /\ w \in Writes
  BY <1>1, SaveFacts
<1>3. /\ w[c] = object[r] /\ \A i \in Ids \ {c} : w[i] = Untouched
      /\ Written(NoWrites, w) = w
  BY <1>2, OneWrite
<1>4. ObjectAsSent(r)
  BY <1>1 DEF DraftInv
<1>5. pending'[r] = w /\ call'[r] = call[r] /\ object'[r] = object[r] => Draft(r)'
  BY <1>1, <1>2, <1>3, IdsFacts DEF Draft, SameNode
<1> HIDE DEF w, next
<1> QED
  BY <1>1, <1>2, <1>3, <1>4, <1>5, DraftedWrite

\* The bulk UPDATE of the descendants touches no field but ancestor_path.
LEMMA DraftedRewrite ==
  ASSUME IInv, DraftInv, NEW r \in Requests, RewriteDescendants(r)
  PROVE  DraftInv'
<1> DEFINE c == call[r].id
           v == [NoWrites EXCEPT ![c] = object[r]]
           w == Rewritten(View(r), oldPrefix[r], NewPrefix(r))
<1> USE DEF IInv
<1>1. /\ pc[r] = "saved" /\ Write(r, w, "written") /\ rows' = rows
      /\ pending[r] = v
  BY DEF RewriteDescendants, tables, CheckedInv, Checked
<1>2. /\ call[r].op = "update" /\ w \in Writes /\ View(r) = [rows EXCEPT ![c] = object[r]]
      /\ \A i \in Ids : w[i] # Untouched => View(r)[i] \in Row /\ SameNode(w[i], View(r)[i])
  BY <1>1, RewriteFacts
<1>3. c \in Ids /\ object[r] \in Row /\ rows \in Tables
  BY <1>1, <1>2, SaveFacts, Types
<1>4. v[c] = object[r] /\ \A i \in Ids \ {c} : v[i] = Untouched
  BY <1>3, OneWrite, ZenonT(60)
<1>5. View(r)[c] = object[r] /\ \A i \in Ids \ {c} : View(r)[i] = rows[i]
  BY <1>2, <1>3 DEF Tables
<1>6. ObjectAsSent(r)
  BY <1>1, <1>2 DEF DraftInv
<1> HIDE DEF v, w
<1>7. ASSUME pending'[r] = Written(v, w), call'[r] = call[r], object'[r] = object[r]
      PROVE  Draft(r)'
  <2>1. SameNode(pending'[r][c], object[r])
    BY <1>2, <1>3, <1>4, <1>5, <1>7, IdsFacts DEF Written, SameNode
  <2>2. ASSUME NEW i \in Ids \ {c}, pending'[r][i] # Untouched
        PROVE  rows[i] # NoRow /\ SameNode(pending'[r][i], rows[i])
    BY <1>2, <1>4, <1>5, <1>7, <2>2, IdsFacts DEF Written
  <2> QED
    BY <1>1, <1>2, <1>7, <2>1, <2>2 DEF Draft, SameNode
<1> QED
  BY <1>1, <1>2, <1>6, <1>7, DraftedWrite

\* A delete writes the removal of one row.
LEMMA DraftedDelete ==
  ASSUME IInv, DraftInv, NEW r \in Requests, DeleteRow(r)
  PROVE  DraftInv'
<1> DEFINE c == call[r].id
           w == [NoWrites EXCEPT ![c] = IF View(r)[c] = NoRow THEN Untouched ELSE NoRow]
<1> USE DEF IInv
<1>1. pc[r] = "approved" /\ call[r].op = "delete" /\ rows' = rows
  BY DEF DeleteRow, tables
<1>2. c \in Ids /\ pending[r] = NoWrites /\ w \in Writes /\ Written(NoWrites, w) = w
  BY <1>1, DeleteFacts
<1>3. w[c] \in {NoRow, Untouched} /\ \A i \in Ids \ {c} : w[i] = Untouched
  BY <1>2 DEF NoWrites
<1>4. EndRequest(r, "ProtectedError") \/ Write(r, w, "written")
  BY DEF DeleteRow
<1>5. pending'[r] = w /\ call'[r] = call[r] => Draft(r)'
  BY <1>1, <1>3 DEF Draft
<1> HIDE DEF w
<1> QED
  BY <1>1, <1>2, <1>4, <1>5, DraftedEnd, DraftedWrite

\* A commit changes no row that another request is about to save.
LEMMA DraftedCommit ==
  ASSUME IInv, DraftInv, NEW r \in Requests, Commit(r)
  PROVE  DraftInv'
<1> USE DEF IInv
<1>1. /\ pc[r] = "written" /\ rows' = View(r) /\ pc'[r] = "idle" /\ call'[r] = NoCall
      /\ \A q \in Requests \ {r} : SameRequest(q)
  BY DEF Commit, EndRequest, SameRequest, TypeOK
<1>2. Drafted(r)'
  BY <1>1 DEF Drafted, NoCall
<1>3. ASSUME NEW q \in Requests \ {r} PROVE Drafted(q)'
  <2>1. Drafted(q)
    BY DraftedOf
  <2>2. \A i \in Ids : i \in held[q] \/ pending[q][i] # Untouched => rows'[i] = rows[i]
    BY <1>1, CommitLeaves
  <2>3. ASSUME call[q].op = "update", pc[q] \in {"approved", "saved", "written"}
        PROVE  ObjectAsSent(q)'
    <3>1. call[q].id \in Ids
      BY <2>3, CallFacts
    <3>2. rows'[call[q].id] = rows[call[q].id]
      <4>1. CASE pc[q] = "written"
        <5>1. pending[q][call[q].id] # Untouched
          BY <2>1, <2>3, <4>1 DEF Drafted, Draft, SameNode
        <5> QED
          BY <2>2, <3>1, <5>1
      <4>2. CASE pc[q] # "written"
        BY <2>2, <2>3, <3>1, <4>2, SaveFacts
      <4> QED
        BY <4>1, <4>2
    <3> QED
      BY <1>1, <2>1, <2>3, <3>2 DEF Drafted, ObjectAsSent, SameRequest
  <2>4. ASSUME pc[q] = "written" PROVE Draft(q)'
    <3>1. ASSUME call[q].op = "create" 
          PROVE  \E i \in Ids : /\ rows'[i] = NoRow /\ object[q] # NoRow
                                /\ pending[q] = [NoWrites EXCEPT ![i] = object[q]]
      <4>1. PICK i \in Ids : /\ rows[i] = NoRow /\ object[q] # NoRow
                             /\ pending[q] = [NoWrites EXCEPT ![i] = object[q]]
        BY <2>1, <2>4, <3>1 DEF Drafted, Draft
      <4>2. object[q] \in Row
        BY <4>1 DEF TypeOK
      <4>3. pending[q][i] # Untouched
        BY <4>1, <4>2, OneWrite
      <4> QED
        BY <2>2, <4>1, <4>3
    <3>2. \A i \in Ids : pending[q][i] # Untouched => rows'[i] = rows[i]
      BY <2>2
    <3> QED
      BY <1>1, <2>1, <2>4, <3>1, <3>2, SMTT(30) DEF Drafted, Draft, SameRequest
  <2> QED
    BY <1>1, <2>1, <2>3, <2>4 DEF Drafted, SameRequest
<1> QED
  BY <1>2, <1>3 DEF DraftInv, Drafted

\* No step makes a request commit more, or less, than it was asked for.
LEMMA DraftedKept ==
  ASSUME IInv, OneCallInv, DraftInv, [Next]_vars
  PROVE  DraftInv'
<1> USE DEF IInv
<1>1. ASSUME NEW r \in Requests, LockTree(r) PROVE DraftInv'
  <2>1. /\ rows' = rows /\ call' = call /\ pc[r] = "waiting" /\ pc'[r] = "locked"
        /\ \A q \in Requests \ {r} : SameRequest(q)
    BY <1>1 DEF LockTree, tables, SameRequest, TypeOK
  <2> QED
    BY <2>1, DraftedStep
<1>2. ASSUME NEW r \in Requests, CheckCreate(r) PROVE DraftInv'
  <2>1. CASE \E x : Refuse(r, x)
    BY <2>1, DraftedEnd DEF Refuse, tables
  <2>2. CASE \A x : ~Refuse(r, x)
    <3>1. /\ rows' = rows /\ call' = call /\ pc[r] = "locked" /\ pc'[r] = "approved"
          /\ call[r].op = "create"
          /\ \A q \in Requests \ {r} : SameRequest(q)
      BY <1>2, <2>2 DEF CheckCreate, tables, SameRequest, TypeOK
    <3> QED
      BY <3>1, DraftedStep
  <2> QED
    BY <2>1, <2>2
<1>3. ASSUME NEW r \in Requests, CheckDelete(r) PROVE DraftInv'
  <2>1. CASE Refuse(r, "CategoryInUse")
    BY <2>1, DraftedEnd DEF Refuse, tables
  <2>2. CASE ~Refuse(r, "CategoryInUse")
    <3>1. /\ rows' = rows /\ call' = call /\ pc[r] = "locked" /\ pc'[r] = "approved"
          /\ call[r].op = "delete"
          /\ \A q \in Requests \ {r} : SameRequest(q)
      BY <1>3, <2>2 DEF CheckDelete, tables, SameRequest, TypeOK
    <3> QED
      BY <3>1, DraftedStep
  <2> QED
    BY <2>1, <2>2
<1>4. ASSUME NEW r \in Requests, Abort(r) PROVE DraftInv'
  BY <1>4, DraftedEnd DEF Abort, Refuse, tables
<1>5. ASSUME NEW p \in Products, RemoveProduct(p) \/ \E c \in Ids : FileProduct(p, c)
      PROVE  DraftInv'
  <2>1. rows' = rows /\ \A q \in Requests : SameRequest(q)
    BY <1>5 DEF RemoveProduct, FileProduct, locals, SameRequest
  <2> QED
    BY <2>1, DraftedFrame, DraftedOf DEF DraftInv, Drafted
<1>6. CASE UNCHANGED vars
  <2>1. rows' = rows /\ \A q \in Requests : SameRequest(q)
    BY <1>6 DEF vars, tables, locals, SameRequest
  <2> QED
    BY <2>1, DraftedFrame, DraftedOf DEF DraftInv, Drafted
<1> QED
  BY <1>1, <1>2, <1>3, <1>4, <1>5, <1>6, DraftedRequest, DraftedCheckUpdate, DraftedInsert,
     DraftedSave, DraftedRewrite, DraftedDelete, DraftedCommit DEF Next, Serve

-----------------------------------------------------------------------------
(* Paths that fit their column                                              *)

\* A step that leaves the table and a request alone leaves the length of its writes alone.
LEMMA FitFrame ==
  ASSUME NEW q \in Requests, rows' = rows, SameRequest(q), WritesFit(q)
  PROVE  WritesFit(q)'
BY DEF SameRequest, WritesFit, NewPrefix

\* A step of one request has to answer only for the writes of that request.
LEMMA FitStep ==
  ASSUME FitInv, NEW r \in Requests, rows' = rows,
         \A q \in Requests \ {r} : SameRequest(q), WritesFit(r)'
  PROVE  FitInv'
<1>1. \A q \in Requests \ {r} : WritesFit(q)'
  BY FitFrame DEF FitInv
<1> QED
  BY <1>1 DEF FitInv, PathsFit

\* A request that ended has no writes left.
LEMMA FitEnd ==
  ASSUME IInv, FitInv, NEW r \in Requests, NEW x, EndRequest(r, x), rows' = rows
  PROVE  FitInv'
<1>1. /\ pc'[r] = "idle" /\ pending'[r] = NoWrites
      /\ \A q \in Requests \ {r} : SameRequest(q)
  BY DEF EndRequest, SameRequest, IInv, TypeOK
<1>2. WritesFit(r)'
  BY <1>1, NoWritesFacts DEF WritesFit, Stored
<1> QED
  BY <1>1, <1>2, FitStep

\* Before the checks, after them for a deletion, and in a product's statement.
LEMMA FitQuiet ==
  ASSUME FitInv, NEW r \in Requests, rows' = rows, pending'[r] = pending[r],
         \A q \in Requests \ {r} : SameRequest(q),
         pc'[r] \in {"approved", "saved"} => call'[r].op = "delete"
  PROVE  FitInv'
<1>1. WritesFit(r)'
  BY DEF FitInv, WritesFit, Stored
<1> QED
  BY <1>1, FitStep

\* `create_category` approves a path only if the column holds it.
LEMMA FitCheckCreate ==
  ASSUME IInv, FitInv, NEW r \in Requests, CheckCreate(r)
  PROVE  FitInv'
<1> DEFINE row == [parent |-> call[r].parent, name |-> call[r].name,
                   ancestor_path |-> AncestorPathUnder(View(r), call[r].parent)]
           verdict == CreateVerdict(View(r), call[r], row)
<1>1. CASE verdict # "ok"
  BY <1>1, FitEnd DEF CheckCreate, Refuse, tables
<1>2. CASE verdict = "ok"
  <2>1. /\ call'[r].op = "create" /\ rows' = rows /\ pending'[r] = pending[r]
        /\ pc'[r] = "approved" /\ object'[r] = row
        /\ \A q \in Requests \ {r} : SameRequest(q)
    BY <1>2 DEF CheckCreate, tables, SameRequest, IInv, TypeOK
  <2>2. PathFits(row.ancestor_path)
    <3> HIDE DEF row
    <3> QED
      BY <1>2 DEF CreateVerdict
  <2>3. WritesFit(r)'
    BY <2>1, <2>2 DEF WritesFit, FitInv, Stored
  <2> QED
    BY <2>1, <2>3, FitStep
<1> QED
  BY <1>1, <1>2

\* `update_category` approves a move only if every path it will rewrite fits.
LEMMA FitCheckUpdate ==
  ASSUME IInv, FitInv, NEW r \in Requests, CheckUpdate(r)
  PROVE  FitInv'
<1> DEFINE c    == call[r].id
           gone == Gone(View(r), c) \/ Gone(View(r), call[r].parent)
           row  == Wanted(View(r), call[r])
           verdict == IF gone THEN "DoesNotExist" ELSE UpdateVerdict(View(r), call[r], row)
<1> USE DEF IInv
<1>1. CASE verdict # "ok"
  BY <1>1, FitEnd DEF CheckUpdate, Refuse, tables
<1>2. CASE verdict = "ok"
  <2>1. pc[r] = "locked" /\ call[r].op = "update" /\ View(r) = rows
    BY ViewOfRows DEF CheckUpdate
  <2>2. /\ rows' = rows /\ call' = call /\ pending' = pending
        /\ pc'[r] = "approved" /\ object'[r] = row /\ oldPrefix'[r] = PathOf(rows, c)
        /\ \A q \in Requests \ {r} : SameRequest(q)
    BY <1>2, <2>1 DEF CheckUpdate, tables, SameRequest, TypeOK
  <2>3. c \in Existing(rows) /\ c \in Ids /\ UpdateVerdict(rows, call[r], row) = "ok"
    BY <1>2, <2>1, CallFacts DEF Gone, Existing
  <2>4. object'[r] \in Row
    <3>1. IInv'
      BY CheckUpdateKeeps
    <3>2. object'[r] \in Row \cup {NoRow} /\ object'[r] # NoRow
      BY <2>1, <2>2, <3>1 DEF Checked, CheckedInv, TypeOK
    <3> QED
      BY <3>2
  <2> HIDE DEF row, verdict, gone
  <2>5. CASE FullPath(row.ancestor_path, c) # PathOf(rows, c)
    <3>1. /\ PathFits(row.ancestor_path)
          /\ \A i \in UnderPath(rows, PathOf(rows, c)) :
                PathFits(Rebase(rows[i].ancestor_path, PathOf(rows, c),
                                FullPath(row.ancestor_path, c)))
      BY <2>2, <2>3, <2>4, <2>5, Types, MoveFits
    <3>2. WritesFit(r)'
      BY <2>2, <3>1 DEF WritesFit, FitInv, Stored, NewPrefix
    <3> QED
      BY <2>2, <3>2, FitStep
  <2>6. CASE FullPath(row.ancestor_path, c) = PathOf(rows, c)
    <3>1. row.ancestor_path \in Seq(Ids) /\ rows[c].ancestor_path \in Seq(Ids)
      BY <2>2, <2>3, <2>4, Types, ExistingFacts, RowFields
    <3>2. row.ancestor_path = rows[c].ancestor_path
      BY <2>3, <2>6, <3>1, FullPathInjective DEF PathOf
    <3>3. PathFits(row.ancestor_path)
      BY <2>3, <3>2 DEF FitInv, PathsFit
    <3>4. WritesFit(r)'
      BY <2>2, <2>6, <3>3 DEF WritesFit, FitInv, Stored, NewPrefix
    <3> QED
      BY <2>2, <3>4, FitStep
  <2> QED
    BY <2>5, <2>6
<1> QED
  BY <1>1, <1>2

\* A statement that writes paths that fit.
LEMMA FitWrite ==
  ASSUME IInv, FitInv, NEW r \in Requests, NEW w \in Writes,
         NEW next \in {"saved", "written"}, Write(r, w, next), rows' = rows,
         \A i \in Stored(w) : PathFits(w[i].ancestor_path),
         next = "saved" => /\ pc[r] = "approved" /\ call[r].op = "update"
                           /\ NewPrefix(r) # oldPrefix[r]
  PROVE  FitInv'
<1>1. CASE EndRequest(r, "IntegrityError")
  BY <1>1, FitEnd
<1>2. CASE /\ pending' = [pending EXCEPT ![r] = Written(@, w)]
           /\ pc' = [pc EXCEPT ![r] = next]
           /\ UNCHANGED <<call, object, oldPrefix, held, answer>>
  <2>1. /\ pc'[r] = next /\ pending'[r] = Written(pending[r], w)
        /\ call'[r] = call[r] /\ object'[r] = object[r] /\ oldPrefix'[r] = oldPrefix[r]
        /\ \A q \in Requests \ {r} : SameRequest(q)
    BY <1>2 DEF SameRequest, IInv, TypeOK
  <2>2. \A i \in Stored(pending'[r]) : PathFits(pending'[r][i].ancestor_path)
    BY <2>1 DEF FitInv, WritesFit, Stored, Written
  <2>3. NewPrefix(r)' = NewPrefix(r)
    BY <2>1 DEF NewPrefix
  <2>4. WritesFit(r)'
    BY <2>1, <2>2, <2>3 DEF FitInv, WritesFit, Stored
  <2> QED
    BY <2>1, <2>4, FitStep
<1> QED
  BY <1>1, <1>2 DEF Write

\* The inserted row carries the path that was checked.
LEMMA FitInsert ==
  ASSUME IInv, FitInv, NEW r \in Requests, Insert(r)
  PROVE  FitInv'
<1> DEFINE w == [NoWrites EXCEPT ![lastId + 1] = object[r]]
<1>1. CASE Refuse(r, "OperationalError")
  BY <1>1, FitEnd DEF Refuse, tables
<1>2. CASE lastId < LastId
  <2>1. /\ pc[r] = "approved" /\ call[r].op = "create" /\ Write(r, w, "written")
        /\ rows' = rows
    BY <1>2 DEF Insert
  <2>2. lastId + 1 \in Ids /\ object[r] \in Row /\ w \in Writes
    BY <1>2, <2>1, InsertFacts
  <2>3. w[lastId + 1] = object[r] /\ \A i \in Ids \ {lastId + 1} : w[i] = Untouched
    BY <2>2, OneWrite
  <2>4. PathFits(object[r].ancestor_path)
    BY <2>1 DEF FitInv, WritesFit
  <2> HIDE DEF w
  <2>5. \A i \in Stored(w) : PathFits(w[i].ancestor_path)
    BY <2>3, <2>4 DEF Stored
  <2> QED
    BY <2>1, <2>2, <2>5, FitWrite
<1> QED
  BY <1>1, <1>2 DEF Insert

\* The saved row carries the path that was checked, and its descendants still await theirs.
LEMMA FitSave ==
  ASSUME IInv, FitInv, NEW r \in Requests, SaveRow(r)
  PROVE  FitInv'
<1> DEFINE c == call[r].id
           w == [NoWrites EXCEPT ![c] = object[r]]
           next == IF NewPrefix(r) = oldPrefix[r] THEN "written" ELSE "saved"
<1>1. /\ pc[r] = "approved" /\ call[r].op = "update" /\ Write(r, w, next)
      /\ rows' = rows /\ next \in {"saved", "written"}
      /\ next = "saved" => NewPrefix(r) # oldPrefix[r]
  BY DEF SaveRow, tables
<1>2. c \in Ids /\ object[r] \in Row /\ w \in Writes
  BY <1>1, SaveFacts
<1>3. w[c] = object[r] /\ \A i \in Ids \ {c} : w[i] = Untouched
  BY <1>2, OneWrite
<1>4. PathFits(object[r].ancestor_path)
  BY <1>1 DEF FitInv, WritesFit
<1> HIDE DEF w, next
<1>5. \A i \in Stored(w) : PathFits(w[i].ancestor_path)
  BY <1>3, <1>4 DEF Stored
<1> QED
  BY <1>1, <1>2, <1>5, FitWrite

\* The rewriting stores the paths that the check of the longest one was about.
LEMMA FitRewrite ==
  ASSUME IInv, FitInv, NEW r \in Requests, RewriteDescendants(r)
  PROVE  FitInv'
<1> DEFINE c == call[r].id
           w == Rewritten(View(r), oldPrefix[r], NewPrefix(r))
<1> USE DEF IInv
<1>1. pc[r] = "saved" /\ Write(r, w, "written") /\ rows' = rows
  BY DEF RewriteDescendants, tables
<1>2. /\ call[r].op = "update" /\ w \in Writes /\ View(r) = [rows EXCEPT ![c] = object[r]]
  BY <1>1, RewriteFacts
<1>3. /\ NewPrefix(r) # oldPrefix[r] /\ ~StartsWith(object[r].ancestor_path, oldPrefix[r])
  BY <1>1, <1>2 DEF CheckedInv, Checked
<1>4. ASSUME NEW i \in Stored(w)
      PROVE  PathFits(w[i].ancestor_path)
  <2>1. i \in UnderPath(View(r), oldPrefix[r])
    BY DEF Stored, Rewritten
  <2>2. /\ i \in Existing(View(r)) /\ i \in Ids
        /\ StartsWith(View(r)[i].ancestor_path, oldPrefix[r])
    BY <2>1 DEF UnderPath, Existing
  <2>3. c \in Ids /\ rows \in Tables
    BY <1>1, <1>2, SaveFacts, Types
  <2>4. i # c
    BY <1>2, <1>3, <2>2, <2>3 DEF Tables
  <2>5. View(r)[i] = rows[i]
    BY <1>2, <2>2, <2>3, <2>4 DEF Tables
  <2>6. i \in UnderPath(rows, oldPrefix[r])
    BY <2>2, <2>5 DEF UnderPath, Existing
  <2>7. w[i].ancestor_path = Rebase(rows[i].ancestor_path, oldPrefix[r], NewPrefix(r))
    <3>1. rows[i] \in Row
      BY <2>3, <2>6, ExistingFacts DEF UnderPath
    <3>2. w[i] = [rows[i] EXCEPT !.ancestor_path = Rebase(rows[i].ancestor_path,
                                                          oldPrefix[r], NewPrefix(r))]
      BY <2>1, <2>2, <2>5 DEF Rewritten
    <3> QED
      BY <3>1, <3>2 DEF Row
  <2>8. PathFits(Rebase(rows[i].ancestor_path, oldPrefix[r], NewPrefix(r)))
    BY <1>1, <1>2, <1>3, <2>6 DEF FitInv, WritesFit
  <2> QED
    BY <2>7, <2>8
<1> HIDE DEF w
<1> QED
  BY <1>1, <1>2, <1>4, FitWrite

\* A removal writes no path.
LEMMA FitDelete ==
  ASSUME IInv, FitInv, NEW r \in Requests, DeleteRow(r)
  PROVE  FitInv'
<1> DEFINE c == call[r].id
           w == [NoWrites EXCEPT ![c] = IF View(r)[c] = NoRow THEN Untouched ELSE NoRow]
<1>1. pc[r] = "approved" /\ call[r].op = "delete" /\ rows' = rows
  BY DEF DeleteRow, tables
<1>2. w \in Writes /\ Stored(w) = {}
  BY <1>1, DeleteFacts
<1>3. EndRequest(r, "ProtectedError") \/ Write(r, w, "written")
  BY DEF DeleteRow
<1> HIDE DEF w
<1> QED
  BY <1>1, <1>2, <1>3, FitEnd, FitWrite

\* A commit makes no path that was not written, and puts none under the prefix
\* that another request is about to rewrite.
LEMMA FitCommit ==
  ASSUME IInv, FitInv, NEW r \in Requests, Commits(r)
  PROVE  FitInv'
<1> USE DEF IInv
<1>1. /\ pc[r] = "written" /\ rows' = View(r) /\ pc'[r] = "idle" /\ pending'[r] = NoWrites
      /\ \A q \in Requests \ {r} : SameRequest(q)
  BY DEF Commits, EndRequest, SameRequest, TypeOK
<1>2. PathsFit'
  <2>1. ASSUME NEW i \in Existing(rows')
        PROVE  PathFits(rows'[i].ancestor_path)
    <3>1. i \in Ids /\ rows'[i] # NoRow
      BY DEF Existing
    <3>2. CASE pending[r][i] = Untouched
      BY <1>1, <3>1, <3>2 DEF View, Written, FitInv, PathsFit, Existing
    <3>3. CASE pending[r][i] # Untouched
      <4>1. rows'[i] = pending[r][i] /\ i \in Stored(pending[r])
        BY <1>1, <3>1, <3>3 DEF View, Written, Stored
      <4> QED
        BY <4>1 DEF FitInv, WritesFit
    <3> QED
      BY <3>2, <3>3
  <2> QED
    BY <2>1 DEF PathsFit
<1>3. WritesFit(r)'
  BY <1>1, NoWritesFacts DEF WritesFit, Stored
<1>4. ASSUME NEW q \in Requests \ {r} PROVE WritesFit(q)'
  <2>1. WritesFit(q)
    BY DEF FitInv
  <2>2. ASSUME pc[q] \in {"approved", "saved"}, call[q].op = "update",
               NEW i \in UnderPath(rows', oldPrefix[q])
        PROVE  i \in UnderPath(rows, oldPrefix[q]) /\ rows'[i] = rows[i]
    <3>1. /\ i \in Ids /\ rows'[i] # NoRow /\ StartsWith(rows'[i].ancestor_path, oldPrefix[q])
      BY DEF UnderPath, Existing
    <3>2. /\ held[q] # {} /\ call[q].id \in Ids /\ rows[call[q].id] \in Row
          /\ oldPrefix[q] = PathOf(rows, call[q].id)
      BY <2>2, SaveFacts DEF CheckedInv, Checked
    <3>3. ~StartsWith(ROOT_PATH, oldPrefix[q])
      BY <3>2, RowFields, FullPathIsLonger DEF PathOf
    <3>4. rows'[i] = rows[i]
      BY <1>1, <3>1, <3>2, <3>3, CommitAddsRoots
    <3> QED
      BY <3>1, <3>4 DEF UnderPath, Existing
  <2>3. NewPrefix(q)' = NewPrefix(q) /\ SameRequest(q)
    BY <1>1 DEF NewPrefix, SameRequest
  <2> QED
    BY <2>1, <2>2, <2>3 DEF WritesFit, SameRequest, Stored
<1> QED
  BY <1>2, <1>3, <1>4 DEF FitInv

\* Every step keeps the written paths inside the column.
LEMMA FitKept ==
  ASSUME IInv, FitInv, [Next]_vars
  PROVE  FitInv'
<1> USE DEF IInv
<1>1. ASSUME NEW r \in Requests, RequestCreate(r) \/ RequestUpdate(r) \/ RequestDelete(r)
      PROVE  FitInv'
  <2>1. PICK request : Receive(r, request)
    BY <1>1 DEF RequestCreate, RequestUpdate, RequestDelete
  <2>2. /\ rows' = rows /\ pending'[r] = pending[r] /\ pc'[r] = "waiting"
        /\ \A q \in Requests \ {r} : SameRequest(q)
    BY <2>1 DEF Receive, tables, SameRequest, TypeOK
  <2> QED
    BY <2>2, FitQuiet
<1>2. ASSUME NEW r \in Requests, LockTree(r) PROVE FitInv'
  <2>1. /\ rows' = rows /\ pending'[r] = pending[r] /\ pc'[r] = "locked"
        /\ \A q \in Requests \ {r} : SameRequest(q)
    BY <1>2 DEF LockTree, tables, SameRequest, TypeOK
  <2> QED
    BY <2>1, FitQuiet
<1>3. ASSUME NEW r \in Requests, CheckDelete(r) PROVE FitInv'
  <2>1. CASE Refuse(r, "CategoryInUse")
    BY <2>1, FitEnd DEF Refuse, tables
  <2>2. CASE ~Refuse(r, "CategoryInUse")
    <3>1. /\ rows' = rows /\ pending'[r] = pending[r] /\ call'[r].op = "delete"
          /\ \A q \in Requests \ {r} : SameRequest(q)
      BY <1>3, <2>2 DEF CheckDelete, tables, SameRequest, TypeOK
    <3> QED
      BY <3>1, FitQuiet
  <2> QED
    BY <2>1, <2>2
<1>4. ASSUME NEW r \in Requests, Abort(r) PROVE FitInv'
  BY <1>4, FitEnd DEF Abort, Refuse, tables
<1>5. ASSUME NEW p \in Products, RemoveProduct(p) \/ \E c \in Ids : FileProduct(p, c)
      PROVE  FitInv'
  <2>1. rows' = rows /\ \A q \in Requests : SameRequest(q)
    BY <1>5 DEF RemoveProduct, FileProduct, locals, SameRequest
  <2> QED
    BY <2>1, FitFrame DEF FitInv, PathsFit
<1>6. CASE UNCHANGED vars
  <2>1. rows' = rows /\ \A q \in Requests : SameRequest(q)
    BY <1>6 DEF vars, tables, locals, SameRequest
  <2> QED
    BY <2>1, FitFrame DEF FitInv, PathsFit
<1>7. ASSUME NEW r \in Requests, Commit(r) PROVE FitInv'
  BY <1>7, FitCommit DEF Commit, Commits
<1> QED
  BY <1>1, <1>2, <1>3, <1>4, <1>5, <1>6, <1>7, FitCheckCreate, FitCheckUpdate, FitInsert,
     FitSave, FitRewrite, FitDelete DEF Next, Serve

-----------------------------------------------------------------------------
(* The theorems on invariants                                               *)

\* The empty table of the beginning satisfies what KeepInv asks of it.
THEOREM KeepInit == Init => KeepInv
<1> SUFFICES ASSUME Init PROVE KeepInv
  OBVIOUS
<1>1. Existing(rows) = {} /\ rows \in Tables
  BY DEF Init, Existing, Tables
<1>2. \A r \in Requests : View(r) = rows /\ Stored(pending[r]) = {}
  BY <1>1, NoWritesFacts DEF Init, View
<1>3. OneCallInv /\ KeysInv
  BY <1>1, <1>2 DEF Init, OneCallInv, KeysInv, KeysDiffer
<1>4. FreeNameInv
  BY DEF Init, FreeNameInv
<1>5. ContentsInv
  BY IdsFacts DEF Init, ContentsInv, NoWrites
<1>6. DraftInv
  BY DEF Init, DraftInv, NoCall
<1> QED
  BY <1>3, <1>4, <1>5, <1>6 DEF KeepInv

\* The second half of the inductive invariant, which rests on the first.
THEOREM KeepInductive == Spec => []KeepInv
<1>1. IInv /\ KeepInv /\ [Next]_vars => KeepInv'
  BY OneCallKept, KeysKept, FreeNameKept, ContentsKept, DraftedKept DEF KeepInv
<1> QED
  BY <1>1, KeepInit, Inductive, PTL DEF Spec

\* Siblings have one path, so that the unique index tells their names apart.
LEMMA NamesFromKeys == IInv /\ KeysInv => SiblingNamesUnique
<1> SUFFICES ASSUME IInv, KeysInv, NEW i \in Existing(rows), NEW j \in Existing(rows),
                    i # j, rows[i].parent = rows[j].parent
             PROVE  CollationKey[rows[i].name] # CollationKey[rows[j].name]
  BY DEF SiblingNamesUnique
<1>1. rows[i].ancestor_path = rows[j].ancestor_path
  BY Types, AgreesAt DEF IInv, PathsAgree
<1>2. IndexKey(rows[i]) # IndexKey(rows[j])
  BY DEF KeysInv, KeysDiffer
<1> QED
  BY <1>1, <1>2 DEF IndexKey

\* Two categories under one parent never have names the collation holds equal,
\* although the unique index compares the stored path and not the parent, and
\* rolled-back and concurrent writes are in the index too.
THEOREM SiblingNamesStayUnique == Spec => []SiblingNamesUnique
<1>1. KeepInv => KeysInv
  BY DEF KeepInv
<1> QED
  BY <1>1, NamesFromKeys, Inductive, KeepInductive, PTL

\* A category with products or sub-categories in it is never deleted, although
\* both are looked for before the DELETE and products are filed meanwhile.
THEOREM ContentsStay == Spec => []ContentsKeepTheirCategory
<1>1. IInv /\ KeepInv => ContentsKeepTheirCategory
  BY DEF IInv, KeepInv, ContentsInv, ContentsKeepTheirCategory, PathsAgree, TableAgrees
<1> QED
  BY <1>1, Inductive, KeepInductive, PTL

\* No path outgrows its column, whatever the digits of the ids: of a move, only
\* the longest path is looked at before, and all of them are written after.
THEOREM PathsAlwaysFit == Spec => []PathsFit
<1>1. Init => FitInv
  <2> SUFFICES ASSUME Init PROVE FitInv
    OBVIOUS
  <2>1. Existing(rows) = {}
    BY DEF Init, Existing
  <2>2. \A r \in Requests : pc[r] = "idle" /\ Stored(pending[r]) = {}
    BY NoWritesFacts DEF Init
  <2> QED
    BY <2>1, <2>2 DEF FitInv, PathsFit, WritesFit
<1>2. IInv /\ FitInv /\ [Next]_vars => FitInv'
  BY FitKept
<1>3. FitInv => PathsFit
  BY DEF FitInv
<1> QED
  BY <1>1, <1>2, <1>3, Inductive, PTL DEF Spec

-----------------------------------------------------------------------------
(* The theorems on steps                                                    *)

\* The `except ProtectedError` of delete_category is never entered: the two
\* checks before the DELETE have seen everything PROTECT could object to.
THEOREM SafetyNetNeverCatches == Spec => SafetyNetUnused
<1>1. KeepInv' => \A r \in Requests : answer'[r] # "ProtectedError"
  BY DEF KeepInv, ContentsInv
<1> QED
  BY <1>1, KeepInductive, PTL DEF SafetyNetUnused

\* What a step can do to the table and the products.
LEMMA StepTables ==
  ASSUME [Next]_vars
  PROVE  \/ UNCHANGED <<rows, products>>
         \/ \E r \in Requests : Commit(r)
         \/ \E p \in Products : RemoveProduct(p) \/ \E c \in Ids : FileProduct(p, c)
<1> DEFINE Goal == \/ UNCHANGED <<rows, products>>
                   \/ \E r \in Requests : Commit(r)
                   \/ \E p \in Products : RemoveProduct(p) \/ \E c \in Ids : FileProduct(p, c)
<1> SUFFICES Goal
  OBVIOUS
<1>1. ASSUME NEW r \in Requests, RequestCreate(r) \/ RequestUpdate(r) \/ RequestDelete(r)
      PROVE  Goal
  BY <1>1 DEF RequestCreate, RequestUpdate, RequestDelete, Receive, tables
<1>2. ASSUME NEW r \in Requests, Serve(r) PROVE Goal
  <2>1. CASE LockTree(r) \/ CheckCreate(r) \/ CheckUpdate(r) \/ CheckDelete(r)
    BY <2>1 DEF LockTree, CheckCreate, CheckUpdate, CheckDelete, Refuse, tables
  <2>2. CASE Insert(r) \/ SaveRow(r) \/ RewriteDescendants(r) \/ DeleteRow(r)
    BY <2>2 DEF Insert, SaveRow, RewriteDescendants, DeleteRow, Refuse, tables
  <2> QED
    BY <1>2, <2>1, <2>2 DEF Serve
<1>3. ASSUME NEW r \in Requests, Abort(r) PROVE Goal
  BY <1>3 DEF Abort, Refuse, tables
<1>4. CASE UNCHANGED vars
  BY <1>4 DEF vars, tables
<1> HIDE DEF Goal
<1>5. (\E r \in Requests : Commit(r)) => Goal
  BY DEF Goal
<1>6. (\E p \in Products : RemoveProduct(p) \/ \E c \in Ids : FileProduct(p, c)) => Goal
  BY DEF Goal
<1> QED
  BY <1>1, <1>2, <1>3, <1>4, <1>5, <1>6 DEF Next

\* A commit of an update writes the fields that were sent, and of other
\* categories no more than the path.
LEMMA CommitWritesWhatWasSent ==
  ASSUME IInv, KeepInv, NEW r \in Requests, Commit(r),
         NEW c \in Existing(rows), rows'[c] \notin {NoRow, rows[c]}
  PROVE  /\ pc[r] = "written" /\ pc'[r] = "idle"
         /\ \/ rows'[c].name = rows[c].name
            \/ call[r].id = c /\ "name" \in call[r].sent /\ rows'[c].name = call[r].name
         /\ \/ rows'[c].parent = rows[c].parent
            \/ call[r].id = c /\ "parent" \in call[r].sent /\ rows'[c].parent = call[r].parent
<1> USE DEF IInv
<1>1. pc[r] = "written" /\ pc'[r] = "idle" /\ rows' = View(r) /\ c \in Ids /\ rows[c] # NoRow
  BY DEF Commit, EndRequest, TypeOK, Existing
<1>2. rows'[c] = pending[r][c] /\ pending[r][c] \notin {NoRow, Untouched}
  BY <1>1 DEF View, Written
<1>3. /\ call[r] \in Calls /\ Draft(r)
      /\ call[r].op = "update" =>
           /\ call[r].name = Unchanged \/ "name" \in call[r].sent
           /\ call[r].parent = Unchanged \/ "parent" \in call[r].sent
           /\ ObjectAsSent(r)
  BY <1>1 DEF KeepInv, DraftInv
<1>4. call[r].op \in {"create", "update", "delete"}
  BY <1>3 DEF Calls
<1>5. call[r].op # "create"
  <2> SUFFICES ASSUME call[r].op = "create" PROVE FALSE
    OBVIOUS
  <2>1. PICK i \in Ids : /\ rows[i] = NoRow
                         /\ pending[r] = [NoWrites EXCEPT ![i] = object[r]]
    BY <1>3 DEF Draft
  <2>2. pending[r][c] = Untouched
    BY <1>1, <2>1 DEF NoWrites
  <2> QED
    BY <1>2, <2>2
<1>6. call[r].op # "delete"
  BY <1>1, <1>2, <1>3 DEF Draft
<1>7. call[r].op = "update"
  BY <1>4, <1>5, <1>6
<1>8. CASE c # call[r].id
  BY <1>1, <1>2, <1>3, <1>7, <1>8 DEF Draft, SameNode
<1>9. CASE c = call[r].id
  BY <1>1, <1>2, <1>3, <1>7, <1>9 DEF Draft, SameNode, ObjectAsSent
<1> QED
  BY <1>1, <1>8, <1>9

\* No lost update: what a client did not send is as the last commit left it,
\* whatever the view had read before the lock.
THEOREM OnlyWhatWasSentChanges == Spec => ChangesOnlyWhatWasSent
<1> DEFINE Justified(c) ==
        \E r \in Requests :
            /\ pc[r] = "written" /\ pc'[r] = "idle"
            /\ \/ rows'[c].name = rows[c].name
               \/ call[r].id = c /\ "name" \in call[r].sent /\ rows'[c].name = call[r].name
            /\ \/ rows'[c].parent = rows[c].parent
               \/ call[r].id = c /\ "parent" \in call[r].sent /\ rows'[c].parent = call[r].parent
<1>1. IInv /\ KeepInv /\ [Next]_vars =>
        \A c \in Existing(rows) : rows'[c] \notin {NoRow, rows[c]} => Justified(c)
  <2> SUFFICES ASSUME IInv, KeepInv, [Next]_vars,
                      NEW c \in Existing(rows), rows'[c] \notin {NoRow, rows[c]}
               PROVE  Justified(c)
    OBVIOUS
  <2>1. PICK r \in Requests : Commit(r)
    BY StepTables DEF RemoveProduct, FileProduct
  <2> QED
    BY <2>1, CommitWritesWhatWasSent
<1> QED
  BY <1>1, Inductive, KeepInductive, PTL DEF Spec, ChangesOnlyWhatWasSent

\* What the constraints make of a row written below the top level.
LEMMA OneRowHolds ==
  ASSUME IInv, KeepInv, NEW r \in Requests, NEW c \in Ids,
         pc[r] = "approved", call[r].op # "delete", object[r].parent # None,
         call[r].id \in {c, None}
  PROVE  LET w == [NoWrites EXCEPT ![c] = object[r]]
         IN  ConstraintsHold(Written(View(r), w), w)
<1> DEFINE w == [NoWrites EXCEPT ![c] = object[r]]
           U == [rows EXCEPT ![c] = object[r]]
<1> USE DEF IInv
<1>1. /\ View(r) = rows /\ rows \in Tables /\ object[r] \in Row
      /\ object[r].parent \in held[r]
  <2>1. call[r].op \in {"create", "update"}
    BY DEF KeepInv, DraftInv, Calls
  <2> QED
    BY <2>1, CreateFacts, SaveFacts, OneCallView, Types DEF KeepInv
<1>2. NameIsFree(rows, object[r], call[r].id)
  BY DEF KeepInv, FreeNameInv
<1>3. Written(rows, w) = U /\ Stored(w) = {c} /\ \A i \in Ids : w[i] # NoRow
  BY <1>1, WriteOne, IdsFacts DEF Stored, NoWrites
<1>4. w[c] = object[r] /\ U[c] = object[r] /\ \A i \in Ids \ {c} : U[i] = rows[i]
  BY <1>1 DEF NoWrites, Tables
<1>5. object[r].parent \in Existing(rows) /\ object[r].parent \in Ids
  BY <1>1 DEF LocksInv, Existing
<1> HIDE DEF w, U
<1>6. ~Gone(U, object[r].parent)
  BY <1>1, <1>4, <1>5, IdsFacts DEF Gone, Existing
<1>7. ASSUME NEW j \in Existing(U) \ {c} PROVE IndexKey(U[j]) # IndexKey(object[r])
  <2>1. j \in Existing(rows) \ {call[r].id} /\ U[j] = rows[j]
    BY <1>4, IdsFacts DEF Existing
  <2> QED
    BY <1>2, <2>1 DEF NameIsFree
<1>8. ConstraintsHold(Written(View(r), w), w)
  BY <1>1, <1>3, <1>4, <1>6, <1>7 DEF ConstraintsHold
<1> QED
  BY <1>8 DEF w

\* The UPDATE of the descendants is never refused: two rows that had one key
\* after it have one parent, so they had one key before it.
LEMMA RewriteHolds ==
  ASSUME IInv, KeepInv, NEW r \in Requests, pc[r] = "saved"
  PROVE  LET w == Rewritten(View(r), oldPrefix[r], NewPrefix(r))
         IN  ConstraintsHold(Written(View(r), w), w)
<1> DEFINE c == call[r].id
           V == View(r)
           w == Rewritten(V, oldPrefix[r], NewPrefix(r))
           W == Written(V, w)
<1> USE DEF IInv
<1>1. /\ call[r].op = "update" /\ w \in Writes /\ V = [rows EXCEPT ![c] = object[r]]
      /\ \A i \in Ids : w[i] # Untouched => V[i] \in Row /\ SameNode(w[i], V[i])
      /\ TableAgrees(W)
  BY RewriteFacts
<1>2. /\ c \in Existing(rows) /\ c \in Ids /\ rows \in Tables /\ object[r] \in Row
      /\ object[r].ancestor_path = AncestorPathUnder(rows, object[r].parent)
      /\ object[r].parent \in held[r] \cup {None}
  BY <1>1, SaveFacts, Types
<1>3. V \in Tables /\ W \in Tables /\ KeysDiffer(V)
  BY <1>1, Types, WrittenType DEF KeepInv, KeysInv
<1>4. V[c] = object[r] /\ \A i \in Ids \ {c} : V[i] = rows[i]
  BY <1>1, <1>2 DEF Tables
<1> HIDE DEF V, w, W
<1>5. ASSUME NEW i \in Existing(V)
      PROVE  V[i].ancestor_path = AncestorPathUnder(rows, V[i].parent)
  <2>1. CASE i = c
    BY <1>2, <1>4, <2>1
  <2>2. CASE i # c
    <3>1. i \in Existing(rows) /\ V[i] = rows[i]
      BY <1>4, <2>2 DEF Existing
    <3> QED
      BY <1>2, <3>1, AgreesAt DEF PathsAgree
  <2> QED
    BY <2>1, <2>2
<1>6. ASSUME NEW i \in Existing(W)
      PROVE  /\ i \in Ids /\ i \in Existing(V)
             /\ W[i].parent = V[i].parent /\ W[i].name = V[i].name
  <2>1. i \in Ids /\ W[i] # NoRow /\ W[i] = IF w[i] = Untouched THEN V[i] ELSE w[i]
    BY DEF Existing, W, Written
  <2> QED
    BY <1>1, <2>1, IdsFacts DEF SameNode, Existing
<1>7. ASSUME NEW i \in Existing(W), NEW j \in Existing(W), i # j,
             IndexKey(W[i]) = IndexKey(W[j])
      PROVE  FALSE
  <2>1. W[i].ancestor_path = W[j].ancestor_path
    BY <1>7 DEF IndexKey
  <2>2. W[i].parent = W[j].parent
    <3>1. /\ W[i].parent \in Existing(W) \cup {None}
          /\ W[i].ancestor_path = AncestorPathUnder(W, W[i].parent)
      BY <1>1, <1>3, AgreesAt
    <3>2. /\ W[j].parent \in Existing(W) \cup {None}
          /\ W[j].ancestor_path = AncestorPathUnder(W, W[j].parent)
      BY <1>1, <1>3, AgreesAt
    <3> QED
      BY <1>3, <2>1, <3>1, <3>2, SameParent
  <2>3. V[i].ancestor_path = V[j].ancestor_path
    BY <1>5, <1>6, <2>2
  <2>4. IndexKey(V[i]) # IndexKey(V[j])
    BY <1>3, <1>6, <1>7 DEF KeysDiffer
  <2> QED
    BY <1>6, <1>7, <2>3, <2>4 DEF IndexKey
<1>8. ASSUME NEW i \in Stored(w)
      PROVE  i \in Existing(W) /\ W[i] = w[i]
  BY DEF Stored, Existing, W, Written
<1>9. \A i \in Ids : w[i] # NoRow
  BY <1>1, IdsFacts DEF SameNode
<1>10. \A i \in Stored(w) : ~Gone(W, w[i].parent)
  BY <1>1, <1>8 DEF TableAgrees
<1>11. ConstraintsHold(W, w)
  BY <1>7, <1>8, <1>9, <1>10 DEF ConstraintsHold
<1> QED
  BY <1>11 DEF W, w, V

\* A DELETE that was approved is not refused either.
LEMMA DeleteHolds ==
  ASSUME IInv, KeepInv, NEW r \in Requests, pc[r] = "approved", call[r].op = "delete"
  PROVE  LET c == call[r].id
             w == [NoWrites EXCEPT ![c] = IF View(r)[c] = NoRow THEN Untouched ELSE NoRow]
         IN  ConstraintsHold(Written(View(r), w), w)
<1> DEFINE c == call[r].id
           w == [NoWrites EXCEPT ![c] = IF View(r)[c] = NoRow THEN Untouched ELSE NoRow]
           U == Written(rows, w)
<1>1. c \in Ids /\ View(r) = rows /\ Children(rows, c) = {} /\ Stored(w) = {}
  BY DeleteFacts
<1>2. FiledUnder(c) = {}
  BY DEF KeepInv, ContentsInv
<1>3. \A i \in Ids : w[i] = NoRow => i = c
  BY <1>1, IdsFacts DEF NoWrites
<1>4. \A i \in Ids : i \in Existing(U) => i \in Existing(rows) /\ U[i] = rows[i]
  BY <1>1, IdsFacts DEF Existing, Written, NoWrites
<1> HIDE DEF w, U
<1>5. Children(U, c) = {}
  BY <1>1, <1>4 DEF Children, Existing
<1>6. ConstraintsHold(U, w)
  BY <1>1, <1>2, <1>3, <1>5 DEF ConstraintsHold
<1> QED
  BY <1>1, <1>6 DEF U, w

\* A request that ends with this answer.
LEMMA RefusedWrite ==
  ASSUME NEW r \in Requests, NEW q \in Requests, NEW w, NEW next, Write(r, w, next), TypeOK,
         answer'[q] = "IntegrityError", answer[q] # "IntegrityError"
  PROVE  q = r /\ ~ConstraintsHold(Written(View(r), w), w)
BY DEF Write, EndRequest, TypeOK

\* A request that ends otherwise gives nobody the answer IntegrityError.
LEMMA OtherEnd ==
  ASSUME NEW r \in Requests, NEW q \in Requests, NEW x, EndRequest(r, x), TypeOK,
         x # "IntegrityError", answer[q] # "IntegrityError"
  PROVE  answer'[q] # "IntegrityError"
BY DEF EndRequest, TypeOK

\* Only a write under the root can answer IntegrityError: elsewhere the free name stays free.
LEMMA RetryStep ==
  ASSUME IInv, KeepInv, [Next]_vars, NEW q \in Requests,
         answer'[q] = "IntegrityError", answer[q] # "IntegrityError"
  PROVE  call[q].op # "delete" /\ object[q].parent = None
<1> USE DEF IInv
<1>1. ASSUME NEW r \in Requests, RequestCreate(r) \/ RequestUpdate(r) \/ RequestDelete(r)
      PROVE  FALSE
  <2>1. PICK request : Receive(r, request)
    BY <1>1 DEF RequestCreate, RequestUpdate, RequestDelete
  <2> QED
    BY <2>1 DEF Receive, TypeOK
<1>2. ASSUME NEW r \in Requests, LockTree(r) PROVE FALSE
  BY <1>2 DEF LockTree
<1>3. ASSUME NEW r \in Requests, CheckCreate(r) PROVE FALSE
  <2> DEFINE row == [parent |-> call[r].parent, name |-> call[r].name,
                     ancestor_path |-> AncestorPathUnder(View(r), call[r].parent)]
             verdict == CreateVerdict(View(r), call[r], row)
  <2>1. verdict # "IntegrityError"
    BY DEF CreateVerdict
  <2>2. verdict # "ok"
    BY <1>3 DEF CheckCreate
  <2> QED
    BY <1>3, <2>1, <2>2, OtherEnd DEF CheckCreate, Refuse
<1>4. ASSUME NEW r \in Requests, Insert(r) PROVE q = r /\ call[r].op # "delete" /\ object[r].parent = None
  <2> DEFINE w == [NoWrites EXCEPT ![lastId + 1] = object[r]]
  <2>1. CASE Refuse(r, "OperationalError")
    BY <2>1, OtherEnd DEF Refuse
  <2>2. CASE lastId < LastId
    <3>1. pc[r] = "approved" /\ call[r].op = "create" /\ Write(r, w, "written")
      BY <1>4, <2>2 DEF Insert
    <3>2. lastId + 1 \in Ids
      BY <2>2, <3>1, InsertFacts
    <3>3. call[r].id = None
      <4>1. call[r] \in Calls
        BY <3>1 DEF TypeOK, NoCall
      <4> QED
        BY <3>1, <4>1 DEF Calls
    <3>4. q = r /\ ~ConstraintsHold(Written(View(r), w), w)
      BY <3>1, RefusedWrite
    <3> QED
      BY <3>1, <3>2, <3>3, <3>4, OneRowHolds
  <2> QED
    BY <1>4, <2>1, <2>2 DEF Insert
<1>5. ASSUME NEW r \in Requests, CheckUpdate(r) PROVE FALSE
  <2> DEFINE c    == call[r].id
             gone == Gone(View(r), c) \/ Gone(View(r), call[r].parent)
             row  == Wanted(View(r), call[r])
             verdict == IF gone THEN "DoesNotExist" ELSE UpdateVerdict(View(r), call[r], row)
  <2>1. verdict # "IntegrityError"
    BY DEF UpdateVerdict
  <2>2. verdict # "ok"
    BY <1>5 DEF CheckUpdate
  <2> QED
    BY <1>5, <2>1, <2>2, OtherEnd DEF CheckUpdate, Refuse
<1>6. ASSUME NEW r \in Requests, SaveRow(r) PROVE q = r /\ call[r].op # "delete" /\ object[r].parent = None
  <2>1. pc[r] = "approved" /\ call[r].op = "update"
    BY <1>6 DEF SaveRow
  <2> DEFINE w == [NoWrites EXCEPT ![call[r].id] = object[r]]
  <2>2. q = r /\ ~ConstraintsHold(Written(View(r), w), w)
    BY <1>6, RefusedWrite DEF SaveRow
  <2> QED
    BY <2>1, <2>2, SaveFacts, OneRowHolds
<1>7. ASSUME NEW r \in Requests, RewriteDescendants(r) PROVE FALSE
  BY <1>7, RefusedWrite, RewriteHolds DEF RewriteDescendants
<1>8. ASSUME NEW r \in Requests, CheckDelete(r) PROVE FALSE
  BY <1>8, OtherEnd DEF CheckDelete, Refuse
<1>9. ASSUME NEW r \in Requests, DeleteRow(r) PROVE FALSE
  BY <1>9, OtherEnd, RefusedWrite, DeleteHolds DEF DeleteRow
<1>10. ASSUME NEW r \in Requests, Commit(r) \/ Abort(r) PROVE FALSE
  BY <1>10, OtherEnd DEF Commit, Abort, Refuse
<1>11. ASSUME NEW p \in Products, RemoveProduct(p) \/ \E c \in Ids : FileProduct(p, c)
       PROVE  FALSE
  BY <1>11 DEF RemoveProduct, FileProduct, locals
<1>12. CASE UNCHANGED vars
  BY <1>12 DEF vars, locals
<1> QED
  BY <1>1, <1>2, <1>3, <1>4, <1>5, <1>6, <1>7, <1>8, <1>9, <1>10, <1>11, <1>12 DEF Next, Serve

\* The database refuses a write, and the client is told to retry, at the top
\* level only, where the lock on an empty table has excluded nobody: everywhere
\* else the friendly checks have found whatever a constraint would refuse.
THEOREM RetriesOnlyAtTheTop == Spec => RetryOnlyAtTheTop
<1>1. IInv /\ KeepInv /\ [Next]_vars =>
        \A r \in Requests :
            answer'[r] = "IntegrityError" /\ answer[r] # "IntegrityError"
            => call[r].op # "delete" /\ object[r].parent = None
  BY RetryStep
<1> QED
  BY <1>1, Inductive, KeepInductive, PTL DEF Spec, RetryOnlyAtTheTop

-----------------------------------------------------------------------------
(* The service implements the forest                                        *)

\* The categories as CategoryForest shows them.
Nodes(T) == [i \in Ids |-> IF T[i] = NoRow THEN NoRow
                           ELSE [parent |-> T[i].parent, name |-> T[i].name]]

\* The forest of a table has its categories, with their parents and names.
LEMMA NodeFacts ==
  ASSUME NEW T \in Tables
  PROVE  /\ \A i \in Ids : Nodes(T)[i] # NoRow <=> T[i] # NoRow
         /\ Forest!Present(Nodes(T)) = Existing(T)
         /\ \A i \in Existing(T) : /\ Nodes(T)[i] \in Forest!Node
                                   /\ Nodes(T)[i].parent = T[i].parent
                                   /\ Nodes(T)[i].name = T[i].name
<1>1. \A i \in Ids : Nodes(T)[i] = IF T[i] = NoRow THEN NoRow
                                   ELSE [parent |-> T[i].parent, name |-> T[i].name]
  BY DEF Nodes
<1>2. ASSUME NEW i \in Existing(T)
      PROVE  [parent |-> T[i].parent, name |-> T[i].name] \in Forest!Node
  BY ExistingFacts, RowFields DEF Forest!Node
<1>3. \A i \in Existing(T) : i \in Ids /\ T[i] # NoRow
  BY DEF Existing
<1>4. ASSUME NEW i \in Existing(T)
      PROVE  /\ Nodes(T)[i] \in Forest!Node
             /\ Nodes(T)[i].parent = T[i].parent
             /\ Nodes(T)[i].name = T[i].name
  <2>1. Nodes(T)[i] = [parent |-> T[i].parent, name |-> T[i].name]
    BY <1>1, <1>3
  <2> QED
    BY <1>2, <2>1
<1>5. \A i \in Ids : Nodes(T)[i] # NoRow <=> T[i] # NoRow
  BY <1>1, <1>4, ForestAssumption DEF Existing
<1> HIDE DEF Nodes
<1>6. Forest!Present(Nodes(T)) = Existing(T)
  BY <1>5 DEF Existing, Forest!Present
<1> QED
  BY <1>4, <1>5, <1>6

\* A table that obeys the rules of the tree is a legal forest.
LEMMA LegalNodes ==
  ASSUME NEW T \in Tables, TableAgrees(T), KeysDiffer(T),
         \A S \in (SUBSET Existing(T)) \ {{}} : \E c \in S : T[c].parent \notin S
  PROVE  Forest!Legal(Nodes(T))
<1> DEFINE f == Nodes(T)
<1>1. /\ Forest!Present(f) = Existing(T)
      /\ \A i \in Existing(T) : f[i].parent = T[i].parent /\ f[i].name = T[i].name
  BY NodeFacts
<1> HIDE DEF f
<1>2. Forest!ParentsPresent(f)
  BY <1>1, AgreesAt DEF Forest!ParentsPresent
<1>3. Forest!Acyclic(f)
  <2> SUFFICES ASSUME NEW S \in (SUBSET Existing(T)) \ {{}}
               PROVE  \E c \in S : f[c].parent \notin S
    BY <1>1 DEF Forest!Acyclic
  <2>1. PICK c \in S : T[c].parent \notin S
    OBVIOUS
  <2> QED
    BY <1>1, <2>1
<1>4. Forest!SiblingsDiffer(f)
  <2> SUFFICES ASSUME NEW i \in Existing(T), NEW j \in Existing(T), i # j,
                      T[i].parent = T[j].parent
               PROVE  CollationKey[T[i].name] # CollationKey[T[j].name]
    BY <1>1 DEF Forest!SiblingsDiffer
  <2>1. T[i].ancestor_path = T[j].ancestor_path
    BY AgreesAt
  <2> QED
    BY <2>1 DEF KeysDiffer, IndexKey
<1> QED
  BY <1>2, <1>3, <1>4 DEF Forest!Legal, f

\* A commit that changes one category changes one node.
LEMMA OneNodeChanges ==
  ASSUME NEW T \in Tables, NEW U \in Tables, NEW c \in Ids,
         \A i \in Ids \ {c} : Nodes(U)[i] = Nodes(T)[i]
  PROVE  Nodes(U) = [Nodes(T) EXCEPT ![c] = Nodes(U)[c]]
<1>1. /\ Nodes(T) = [i \in Ids |-> Nodes(T)[i]]
      /\ Nodes(U) = [i \in Ids |-> Nodes(U)[i]]
  BY DEF Nodes
<1> HIDE DEF Nodes
<1> QED
  BY <1>1

\* Rows that differ in their paths only are the same node of the forest.
LEMMA SameNodes ==
  ASSUME NEW T \in Tables, NEW U \in Tables, NEW i \in Ids,
         \/ U[i] = T[i]
         \/ T[i] # NoRow /\ SameNode(U[i], T[i])
  PROVE  Nodes(U)[i] = Nodes(T)[i]
BY DEF Nodes, SameNode

\* A commit is one change of the forest, or none.
LEMMA CommitIsOneChange ==
  ASSUME IInv, KeepInv, NoCycle, IInv', KeepInv', NoCycle', NEW r \in Requests, Commit(r)
  PROVE  \/ Nodes(rows') = Nodes(rows) /\ products' = products
         \/ \E c \in Ids : Forest!Remove(c) \/ \E node \in Forest!Node : Forest!Put(c, node)
<1> USE DEF IInv
<1>1. /\ pc[r] = "written" /\ rows' = View(r) /\ products' = products
      /\ rows \in Tables /\ rows' \in Tables /\ pending[r] \in Writes
  BY Types DEF Commit
<1>2. Forest!Legal(Nodes(rows'))
  <2>1. TableAgrees(rows')
    BY DEF PathsAgree
  <2>2. KeysDiffer(rows')
    BY DEF KeepInv, KeysInv
  <2>3. \A S \in (SUBSET Existing(rows')) \ {{}} : \E c \in S : rows'[c].parent \notin S
    BY DEF NoCycle
  <2> QED
    BY <1>1, <2>1, <2>2, <2>3, LegalNodes
<1>3. \A i \in Ids : rows'[i] = IF pending[r][i] = Untouched THEN rows[i] ELSE pending[r][i]
  BY <1>1 DEF View, Written
<1>4. call[r] \in Calls /\ Draft(r)
  BY <1>1 DEF KeepInv, DraftInv
<1>5. ASSUME NEW c \in Ids, rows'[c] # NoRow,
             \A i \in Ids \ {c} : Nodes(rows')[i] = Nodes(rows)[i]
      PROVE  \E node \in Forest!Node : Forest!Put(c, node)
  <2>1. Nodes(rows')[c] \in Forest!Node
    BY <1>1, <1>5, NodeFacts DEF Existing
  <2>2. Nodes(rows') = [Nodes(rows) EXCEPT ![c] = Nodes(rows')[c]]
    BY <1>1, <1>5, OneNodeChanges
  <2> QED
    BY <1>1, <1>2, <2>1, <2>2 DEF Forest!Put, Nodes
<1>6. CASE call[r].op = "create"
  <2>1. PICK i \in Ids : /\ rows[i] = NoRow /\ object[r] # NoRow
                         /\ pending[r] = [NoWrites EXCEPT ![i] = object[r]]
    BY <1>4, <1>6 DEF Draft
  <2>2. object[r] \in Row
    BY <2>1 DEF TypeOK
  <2>3. rows'[i] # NoRow /\ \A j \in Ids \ {i} : rows'[j] = rows[j]
    BY <1>3, <2>1, <2>2, OneWrite, IdsFacts
  <2>4. \A j \in Ids \ {i} : Nodes(rows')[j] = Nodes(rows)[j]
    BY <1>1, <2>3, SameNodes
  <2> QED
    BY <1>5, <2>3, <2>4
<1>7. CASE call[r].op = "update"
  <2> DEFINE c == call[r].id
  <2>1. c \in Ids
    BY <1>7, CallFacts
  <2>2. rows'[c] # NoRow
    BY <1>3, <1>4, <1>7, <2>1 DEF Draft, SameNode
  <2>3. ASSUME NEW i \in Ids \ {c} PROVE Nodes(rows')[i] = Nodes(rows)[i]
    BY <1>1, <1>3, <1>4, <1>7, SameNodes DEF Draft
  <2> QED
    BY <1>5, <2>1, <2>2, <2>3
<1>8. CASE call[r].op = "delete"
  <2>1. PICK c \in Ids : c = call[r].id
    BY <1>8, CallFacts
  <2>2. \A i \in Ids \ {c} : rows'[i] = rows[i]
    BY <1>3, <1>4, <1>8, <2>1 DEF Draft
  <2>3. \A i \in Ids \ {c} : Nodes(rows')[i] = Nodes(rows)[i]
    BY <1>1, <2>2, SameNodes
  <2>4. CASE rows'[c] = rows[c]
    <3>1. \A i \in Ids : Nodes(rows')[i] = Nodes(rows)[i]
      BY <1>1, <2>1, <2>3, <2>4, SameNodes
    <3>2. Nodes(rows') = Nodes(rows)
      BY <3>1 DEF Nodes
    <3> QED
      BY <1>1, <3>2
  <2>5. CASE rows'[c] # rows[c]
    <3>1. pending[r][c] = NoRow /\ rows'[c] = NoRow /\ rows[c] # NoRow
      BY <1>3, <1>4, <1>8, <2>1, <2>5 DEF Draft
    <3>2. FiledUnder(c) = {}
      BY <2>1, <3>1 DEF KeepInv, ContentsInv
    <3>3. ASSUME NEW i \in Existing(rows), rows[i].parent = c PROVE FALSE
      <4>1. CASE i = c
        <5>1. {c} \in (SUBSET Existing(rows)) \ {{}}
          BY <3>3, <4>1
        <5> QED
          BY <3>3, <4>1, <5>1 DEF NoCycle
      <4>2. CASE i # c
        <5>1. i \in Existing(rows') /\ rows'[i].parent = c
          BY <2>2, <3>3, <4>2 DEF Existing
        <5> QED
          BY <1>1, <2>1, <3>1, <5>1, AgreesAt, IdsFacts DEF PathsAgree, Existing
      <4> QED
        BY <4>1, <4>2
    <3>4. Nodes(rows')[c] = NoRow
      BY <2>1, <3>1 DEF Nodes
    <3>5. Nodes(rows') = [Nodes(rows) EXCEPT ![c] = NoRow]
      BY <1>1, <2>1, <2>3, <3>4, OneNodeChanges
    <3>6. /\ Nodes(rows)[c] # NoRow /\ Forest!Present(Nodes(rows)) = Existing(rows)
          /\ \A i \in Existing(rows) : Nodes(rows)[i].parent = rows[i].parent
      BY <1>1, <2>1, <3>1, NodeFacts
    <3>7. Forest!Remove(c)
      <4>1. \A i \in Existing(rows) : Nodes(rows)[i].parent # c
        BY <3>3, <3>6
      <4>2. \A p \in Products : products[p] # c
        BY <3>2 DEF FiledUnder
      <4> QED
        BY <1>1, <3>5, <3>6, <4>1, <4>2 DEF Forest!Remove, Forest!Present, Nodes
    <3> QED
      BY <2>1, <3>7
  <2> QED
    BY <2>4, <2>5
<1>9. call[r].op \in {"create", "update", "delete"}
  BY <1>4 DEF Calls
<1> QED
  BY <1>6, <1>7, <1>8, <1>9

\* CategoryTree implements CategoryForest: whoever sees the committed parents,
\* names and product categories sees one legal change at a time.
THEOREM Refinement == Spec => ImplementsForest
<1>1. Init => Forest!Init
  BY DEF Init, Forest!Init
<1>2. IInv /\ KeepInv /\ NoCycle /\ IInv' /\ KeepInv' /\ NoCycle' /\ [Next]_vars
        => [Forest!Next]_Forest!forest
  <2> SUFFICES ASSUME IInv, KeepInv, NoCycle, IInv', KeepInv', NoCycle', [Next]_vars
               PROVE  [Forest!Next]_Forest!forest
    OBVIOUS
  <2>1. CASE UNCHANGED <<rows, products>>
    BY <2>1 DEF Forest!forest
  <2>2. ASSUME NEW r \in Requests, Commit(r) PROVE [Forest!Next]_Forest!forest
    BY <2>2, CommitIsOneChange DEF Forest!Next, Forest!forest, Nodes
  <2>3. ASSUME NEW p \in Products, RemoveProduct(p) PROVE Forest!Next
    BY <2>3 DEF RemoveProduct, Forest!Next, Forest!Take
  <2>4. ASSUME NEW p \in Products, NEW c \in Ids, FileProduct(p, c) PROVE Forest!Next
    <3>1. c \in Forest!Present(Nodes(rows))
      BY <2>4, Types, NodeFacts DEF FileProduct, IInv, Existing
    <3> QED
      BY <2>4, <3>1 DEF FileProduct, Forest!Next, Forest!File, Forest!Present, Nodes
  <2> QED
    BY <2>1, <2>2, <2>3, <2>4, StepTables
<1> QED
  BY <1>1, <1>2, Inductive, KeepInductive, NeverACycle, PTL
     DEF Spec, ImplementsForest, Forest!Spec

=============================================================================
