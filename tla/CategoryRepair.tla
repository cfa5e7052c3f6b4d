--------------------------- MODULE CategoryRepair ---------------------------
(***************************************************************************)
(* rebuild_category_paths, on a table that something else than the category*)
(* service has changed (a bulk update, a data migration, a manual fix), and*)
(* the service on such a table.                                            *)
(*                                                                         *)
(* One repair at a time.  Its walk is a step per category, in memory; the  *)
(* rows it has locked make everybody else's transaction wait, so each of   *)
(* those is one step.                                                      *)
(***************************************************************************)
EXTENDS CategoryRules

CONSTANT StrayPaths     \* bound: what a manual fix may write as a path

ASSUME StrayPathsAssumption == StrayPaths \subseteq Seq(Ids)

VARIABLES
    rows, lastId,   \* the category table, and its AUTO_INCREMENT
    pc,             \* where the repair is
    dry_run,
    objects,        \* the Category objects it has read and corrects
    to_visit,       \* its stack: <<expected path, id>>
    repaired,       \* the ids in its list of the same name
    outcome         \* how the last repair ended

table == <<rows, lastId>>
repair == <<pc, dry_run, objects, to_visit, repaired, outcome>>
vars   == <<table, repair>>

NoObjects == [i \in Ids |-> NoRow]

\* The rows it has locked FOR UPDATE are those that it has read.
Held == Existing(objects)

Init ==
    /\ rows = NoObjects
    /\ lastId = FirstId - 1
    /\ pc = "idle"
    /\ dry_run = FALSE
    /\ objects = NoObjects
    /\ to_visit = {}
    /\ repaired = {}
    /\ outcome = "none"

-----------------------------------------------------------------------------
(* One statement, which the unique index judges row by row as it goes       *)
(* through them in the order of their ids.                                  *)

\* The table when the rows up to k have been written.
WrittenUpTo(tab, writes, k) ==
    Written(tab, [i \in Ids |-> IF i <= k THEN writes[i] ELSE Untouched])

NoClash(tab, k) == \A j \in Existing(tab) \ {k} : IndexKey(tab[j]) # IndexKey(tab[k])

Accepted(tab, writes) ==
    \A k \in Stored(writes) :
        PathFits(writes[k].ancestor_path) /\ NoClash(WrittenUpTo(tab, writes, k), k)

-----------------------------------------------------------------------------
(* The category service: a whole transaction, which waits for the repair.   *)

Create ==
    \E name \in Names, parent \in Existing(rows) \cup {None} :
        LET row == [parent |-> parent, name |-> name,
                    ancestor_path |-> AncestorPathUnder(rows, parent)]
        IN  /\ Held = {} /\ lastId < LastId
            /\ CreateVerdict(rows, row, row) = "ok"
            /\ lastId' = lastId + 1
            /\ rows' = [rows EXCEPT ![lastId'] = row]
            /\ UNCHANGED repair

\* The row is saved and, if the category's path has changed, its subtree
\* rewritten; a clash takes both back.  (An argument that is not given counts as
\* the value in the row.)
Update ==
    \E c \in Existing(rows), name \in Names, parent \in Existing(rows) \cup {None} :
        LET row    == Wanted(rows, [id |-> c, name |-> name, parent |-> parent])
            saved  == [rows EXCEPT ![c] = row]
            writes == IF PathOf(saved, c) = PathOf(rows, c) THEN NoWrites
                      ELSE Rewritten(saved, PathOf(rows, c), PathOf(saved, c))
        IN  /\ Held = {}
            /\ UpdateVerdict(rows, [id |-> c], row) = "ok"
            /\ Accepted(saved, writes)
            /\ rows' = Written(saved, writes)
            /\ UNCHANGED <<lastId, repair>>

Delete ==
    \E c \in Existing(rows) :
        /\ Held = {}
        /\ Children(rows, c) = {}
        /\ rows' = [rows EXCEPT ![c] = NoRow]
        /\ UNCHANGED <<lastId, repair>>

Service == Create \/ Update \/ Delete

(* Everybody else: single statements that the constraints let pass.         *)

\* QuerySet.update(parent=...)
SetParent ==
    \E c \in Existing(rows), parent \in Existing(rows) \cup {None} :
        /\ Held = {}
        /\ rows' = [rows EXCEPT ![c].parent = parent]
        /\ UNCHANGED <<lastId, repair>>

\* Stored paths that contradict the parent's stored path.
Wrong(tab) == {c \in Existing(tab) : tab[c].ancestor_path # AncestorPathUnder(tab, tab[c].parent)}

\* QuerySet.update(ancestor_path=...)  (Bound: in a table that has nothing wrong.)
SetPath ==
    \E c \in Existing(rows), path \in StrayPaths :
        /\ Held = {} /\ Wrong(rows) = {}
        /\ rows' = [rows EXCEPT ![c].ancestor_path = path]
        /\ NoClash(rows', c)
        /\ UNCHANGED <<lastId, repair>>

-----------------------------------------------------------------------------
(* rebuild_category_paths                                                   *)

End(result, report) ==
    /\ pc' = "idle"
    /\ dry_run' = FALSE
    /\ objects' = NoObjects
    /\ to_visit' = {}
    /\ repaired' = report
    /\ outcome' = result

\* What is to be visited with the children of `parent`, whose full path is `path`.
Below(tab, parent, path) == {<<path, c>> : c \in Children(tab, parent)}

\* Mutant: the walk starts with the parent of the top level, not with its path.
LockAndReadFromNone ==
    /\ pc = "idle"
    /\ pc' = "walking"
    /\ dry_run' \in BOOLEAN
    /\ objects' = rows
    /\ to_visit' = Below(rows, None, None)
    /\ repaired' = {}
    /\ outcome' = "none"
    /\ UNCHANGED table

\* _lock_tree, and the query that reads what it has locked.
LockAndRead ==
    /\ pc = "idle"
    /\ pc' = "walking"
    /\ dry_run' \in BOOLEAN
    /\ objects' = rows
    /\ to_visit' = Below(rows, None, ROOT_PATH)
    /\ repaired' = {}
    /\ outcome' = "none"
    /\ UNCHANGED table

\* Mutant: every category it comes to is reported.
VisitUnchecked ==
    /\ pc = "walking"
    /\ \E next \in to_visit :
        LET expected == next[1]
            category == next[2]
        IN  /\ objects' = [objects EXCEPT ![category].ancestor_path = expected]
            /\ repaired' = repaired \cup {category}
            /\ to_visit' = (to_visit \ {next})
                   \cup Below(objects, category, FullPath(expected, category))
    /\ UNCHANGED <<table, pc, dry_run, outcome>>

\* Mutant: the children are expected under the path that was stored.
VisitBeforeCorrecting ==
    /\ pc = "walking"
    /\ \E next \in to_visit :
        LET expected == next[1]
            category == next[2]
        IN  /\ objects' = [objects EXCEPT ![category].ancestor_path = expected]
            /\ repaired' = IF objects[category].ancestor_path # expected
                           THEN repaired \cup {category} ELSE repaired
            /\ to_visit' = (to_visit \ {next})
                   \cup Below(objects, category, PathOf(objects, category))
    /\ UNCHANGED <<table, pc, dry_run, outcome>>

\* One turn of the loop.  (Which entry the stack gives next is left open.)
Visit ==
    /\ pc = "walking"
    /\ \E next \in to_visit :
        LET expected == next[1]
            category == next[2]
        IN  /\ objects' = [objects EXCEPT ![category].ancestor_path = expected]
            /\ repaired' = IF objects[category].ancestor_path # expected
                           THEN repaired \cup {category} ELSE repaired
            /\ to_visit' = (to_visit \ {next})
                   \cup Below(objects, category, FullPath(expected, category))
    /\ UNCHANGED <<table, pc, dry_run, outcome>>

Corrections ==
    [i \in Ids |-> IF i \in repaired \cap Existing(rows)
                   THEN [rows[i] EXCEPT !.ancestor_path = objects[i].ancestor_path]
                   ELSE Untouched]

\* bulk_update, which is one UPDATE, and the end of the transaction.
Finish ==
    /\ pc = "walking" /\ to_visit = {}
    /\ IF dry_run
       THEN End("ok", repaired) /\ UNCHANGED rows
       ELSE IF Accepted(rows, Corrections)
       THEN End("ok", repaired) /\ rows' = Written(rows, Corrections)
       ELSE End("refused", {}) /\ UNCHANGED rows
    /\ UNCHANGED lastId

\* The command is killed, or loses its connection.
Abort ==
    /\ pc # "idle"
    /\ End("lost", {})
    /\ UNCHANGED table

Next == Service \/ SetParent \/ SetPath \/ LockAndRead \/ Visit \/ Finish \/ Abort

Spec == Init /\ [][Next]_vars

-----------------------------------------------------------------------------
(* Properties.                                                              *)

\* Every variable has its type.
TypeOK ==
    /\ rows \in [Ids -> Row \cup {NoRow}]
    /\ lastId \in (FirstId - 1) .. LastId
    /\ pc \in {"idle", "walking"}
    /\ dry_run \in BOOLEAN
    /\ objects \in [Ids -> Row \cup {NoRow}]
    /\ to_visit \subseteq Seq(Ids) \X Ids
    /\ repaired \subseteq Ids
    /\ outcome \in {"none", "ok", "refused", "lost"}

\* The path that the parent links spell: from the top level down, each category
\* is the parent of the next, and the last one that of c.
Spells(tab, path, c) ==
    LET chain == FullPath(path, c)
    IN  \A n \in 1 .. Len(chain) :
            /\ chain[n] \in Existing(tab)
            /\ tab[chain[n]].parent = IF n = 1 THEN None ELSE chain[n - 1]

\* Categories whose parents are all among them hang in the air: they are on
\* cycles, or below one.
Airborne(tab, S) == \A c \in S : tab[c].parent \in S

Rooted(tab) == Existing(tab) \ UNION {S \in SUBSET Existing(tab) : Airborne(tab, S)}

Misplaced(tab) == {c \in Rooted(tab) : ~Spells(tab, tab[c].ancestor_path, c)}

\* A repair succeeds.  (What is added to an empty table after it has been locked
\* is none of its business.)
Repaired == pc = "walking" /\ Held # {} /\ pc' = "idle" /\ outcome' = "ok"

\* "Recompute every ancestor_path from the parent links": whatever the table was
\* like, no category under the top level has a wrong path after a repair, and a
\* category that a cycle cuts off is left as it is.
RepairRightsWhatItReaches ==
    [][Repaired /\ ~dry_run =>
        /\ Misplaced(rows') = {}
        /\ \A c \in Existing(rows) \ Misplaced(rows) : rows'[c] = rows[c]]_vars

\* "Return the categories whose stored path was wrong": all of them and no
\* others, in a dry run too, although the walk corrects objects as it goes.
ReportsWhatWasWrong == [][Repaired => repaired' = Misplaced(rows)]_vars

\* Categories that are placed as the parent links say, all the way up.
Sound(tab) ==
    {c \in Existing(tab) :
        LET chain == PathOf(tab, c)
        IN  \A n \in DOMAIN chain :
                /\ chain[n] \in Existing(tab)
                /\ tab[chain[n]].parent = (IF n = 1 THEN None ELSE chain[n - 1])
                /\ tab[chain[n]].ancestor_path = SubSeq(chain, 1, n - 1)}

\* c has been created, moved or renamed.
Changed(tab, after, c) ==
    tab[c] = NoRow \/ tab[c].parent # after[c].parent \/ tab[c].name # after[c].name

SpreadsNoDamage(tab, after) ==
    LET sound == Sound(tab)
        still == Sound(after)
    IN  /\ \A c \in sound \cap Existing(after) :
            (\A n \in DOMAIN PathOf(tab, c) : after[PathOf(tab, c)[n]].parent \in sound \cup {None})
            => c \in still
        /\ \A c \in Existing(after) :
            Changed(tab, after, c) /\ after[c].parent \in sound \cup {None} => c \in still

\* The service trusts stored paths, and on a damaged table they lie.  Even so the
\* damage does not get at what is sound: a sound category stays sound whatever is
\* asked of the others, unless it, or one above it, is put below a damaged one; and
\* what a request creates, puts or renames below a sound category is sound.  (Sound
\* categories are on no cycle: one can only be made below a damaged category.)
ServiceSpreadsNoDamage == [][SpreadsNoDamage(rows, rows') \/ ~Service]_rows

\* "The repair tool for whatever bypasses them": a table that obeys every rule but
\* the stored paths can be repaired.
Repairable(tab) ==
    /\ Rooted(tab) = Existing(tab)
    /\ \A c \in Existing(tab), path \in SeqOf(Ids, Cardinality(Ids)) :
        Spells(tab, path, c) => PathFits(path)
    /\ \A c, d \in Existing(tab) :
        c # d /\ tab[c].parent = tab[d].parent
        => CollationKey[tab[c].name] # CollationKey[tab[d].name]

RepairSucceeds == [][Repairable(rows) => outcome' # "refused"]_vars

-----------------------------------------------------------------------------
(* Why it works: the inductive invariant behind the properties.             *)

\* A table that only single statements have changed: ids are given once, and the
\* foreign key holds.
TableInv ==
    \A c \in Existing(rows) : c <= lastId /\ rows[c].parent \in Existing(rows) \cup {None}

\* What the repair has locked is the table, where only paths are different.
ReadInv ==
    /\ pc = "idle" => objects = NoObjects /\ to_visit = {}
    /\ Held # {} => Held = Existing(rows) /\ \A c \in Held : objects[c].parent = rows[c].parent

\* The walk has visited the categories in V: each has the path that its links
\* spell, those at the top level and below V are next if it has not been there, and
\* the rest is as read.
Visited(V) ==
    /\ V \subseteq Rooted(rows)
    /\ \A c \in V : Spells(rows, objects[c].ancestor_path, c)
    /\ \A c \in Held \ V : objects[c] = rows[c]
    /\ \A next \in to_visit : next[2] \in Held \ V /\ Spells(rows, next[1], next[2])
    /\ \A c \in Held : rows[c].parent \in V \cup {None} <=>
        c \in V \/ \E next \in to_visit : next[2] = c
    /\ repaired = {c \in V : objects[c].ancestor_path # rows[c].ancestor_path}

WalkInv == pc = "walking" => \E V \in SUBSET Held : Visited(V)

IInv == TypeOK /\ TableInv /\ ReadInv /\ WalkInv
=============================================================================
