-------------------------- MODULE ProductRequests --------------------------
(***************************************************************************)
(* Product requests (ProductSerializer, Product.save) and the image files  *)
(* of the products, which the database does not roll back.                 *)
(*                                                                         *)
(* No service and no lock stands between two product requests: the view    *)
(* reads the product (Receive...), an upload is stored (StoreUpload), one  *)
(* statement writes the row (InsertRow, PatchRow, PutRow, DeleteRow), and  *)
(* django-cleanup removes the file of the image that the view had read     *)
(* (CleanUp).  Another request, an error or a crash can come in between.   *)
(***************************************************************************)
EXTENDS Naturals, FiniteSets

CONSTANTS
    LastId,         \* bound: product ids 1 .. LastId
    LastFile,       \* bound: file names 1 .. LastFile, each drawn once
    Skus, Titles,
    Requests,
    Settings,       \* what may happen, see Setting
    NoImage,        \* the empty image field, and "image": null
    Upload,         \* the image a client sends
    NoRow, NoId

Ids   == 1 .. LastId
Files == 1 .. LastFile
Image == Files \cup {NoImage}
Row   == [sku : Skus, title : Titles, image : Image]

\* Clients change a product one at a time; a PUT may leave the image out; a
\* worker process may die, and the database fail.
Setting == [one_editor : BOOLEAN, put_keeps_image : BOOLEAN, crashes : BOOLEAN]

ASSUME BoundsAssumption == LastId \in Nat /\ LastFile \in Nat
ASSUME SettingsAssumption == Settings \subseteq Setting
ASSUME MarkersAssumption ==
    NoImage \notin Files \cup {Upload} /\ Upload \notin Files /\ NoId \notin Ids /\ NoRow \notin Row

VARIABLES
    setting,    \* the clients and machines of this history; never changes
    rows,       \* the committed product table
    lastId,     \* AUTO_INCREMENT
    files,      \* the files in the storage
    lastFile,   \* names drawn so far: uuid4 gives none twice
    pc,         \* where a request is
    call,       \* what the client sent
    instance,   \* the Product object with the client's values set on it
    before,     \* django-cleanup's copy of the image as the view read it
    answer      \* how the last request ended

storage == <<files, lastFile>>
table   == <<rows, lastId>>
locals  == <<pc, call, instance, before, answer>>
vars    == <<setting, storage, table, locals>>

Fields == {"sku", "title", "image"}

Calls == [method : {"POST", "PUT", "PATCH", "DELETE"}, id : Ids \cup {NoId},
          sent : SUBSET Fields]

NoCall == [method |-> "DELETE", id |-> NoId, sent |-> {}]

Draft == [sku : Skus, title : Titles, image : Image \cup {Upload}]

Existing   == {p \in Ids : rows[p] # NoRow}
Referenced == {rows[p].image : p \in Existing} \ {NoImage}

Results == {"none", "ok", "ValidationError", "IntegrityError", "DatabaseError",
            "OperationalError", "lost"}

\* catalog_exception_handler: what it does not know is left to Django, 500.
Status(result) ==
    CASE result = "ok" -> 200
      [] result = "ValidationError" -> 400
      [] result = "IntegrityError" -> 409
      [] OTHER -> 500

Init ==
    /\ setting \in Settings
    /\ rows = [p \in Ids |-> NoRow] /\ lastId = 0
    /\ files = {} /\ lastFile = 0
    /\ pc = [r \in Requests |-> "idle"]
    /\ call = [r \in Requests |-> NoCall]
    /\ instance = [r \in Requests |-> NoRow]
    /\ before = [r \in Requests |-> NoImage]
    /\ answer = [r \in Requests |-> "none"]

-----------------------------------------------------------------------------
End(r, result) ==
    /\ pc' = [pc EXCEPT ![r] = "idle"]
    /\ call' = [call EXCEPT ![r] = NoCall]
    /\ instance' = [instance EXCEPT ![r] = NoRow]
    /\ before' = [before EXCEPT ![r] = NoImage]
    /\ answer' = [answer EXCEPT ![r] = result]

\* UniqueValidator: a SELECT, in its own transaction, before the write.
SkuIsFree(sku, ignore) == \A p \in Existing \ {ignore} : rows[p].sku # sku

\* Mutant: validate_sku is left out.
SkuIsValidAlways(method, p, sku) == SkuIsFree(sku, p)

\* The uniqueness check, and ProductSerializer.validate_sku.
SkuIsValid(method, p, sku) ==
    SkuIsFree(sku, p) /\ (method # "POST" => sku = rows[p].sku)

\* The object that the view read as `row`, with any values in the fields sent.
Drafts(sent, row) ==
    [sku   : IF "sku" \in sent THEN Skus ELSE {row.sku},
     title : IF "title" \in sent THEN Titles ELSE {row.title},
     image : IF "image" \in sent THEN {NoImage, Upload} ELSE {row.image}]

\* The view has read product p (none for a POST) and validated the request;
\* draft is the object with the values sent.
Receive(r, method, p, sent, draft) ==
    /\ pc[r] = "idle"
    /\ setting.one_editor /\ p # NoId => \A q \in Requests : call[q].id # p
    /\ IF SkuIsValid(method, p, draft.sku)
       THEN /\ pc' = [pc EXCEPT ![r] = IF draft.image = Upload THEN "upload" ELSE "write"]
            /\ call' = [call EXCEPT ![r] = [method |-> method, id |-> p, sent |-> sent]]
            /\ instance' = [instance EXCEPT ![r] = draft]
            /\ before' = [before EXCEPT ![r] = IF p = NoId THEN NoImage ELSE rows[p].image]
            /\ answer' = [answer EXCEPT ![r] = "none"]
       ELSE End(r, "ValidationError")
    /\ UNCHANGED <<setting, storage, table>>

\* (Bounds: no new product once the ids are used up, no upload once the names are.)
ReceivePost(r) ==
    \E draft \in [sku : Skus, title : Titles, image : {NoImage, Upload}] :
        /\ lastId < LastId /\ lastFile < LastFile
        /\ Receive(r, "POST", NoId, Fields, draft)

\* PATCH sends any fields.  PUT sends all of them but the image, which has no
\* default: left out, the object keeps the one that the view read.
ReceiveUpdate(r) ==
    \E p \in Existing, method \in {"PUT", "PATCH"}, sent \in SUBSET Fields :
        /\ lastFile < LastFile
        /\ method = "PUT" =>
            sent = Fields \/ (setting.put_keeps_image /\ sent = Fields \ {"image"})
        /\ \E draft \in Drafts(sent, rows[p]) : Receive(r, method, p, sent, draft)

ReceiveDelete(r) ==
    \E p \in Existing : Receive(r, "DELETE", p, {}, rows[p])

-----------------------------------------------------------------------------
\* Mutant: the row is written under the client's name, the file stored after it.
StoreUploadLater(r) ==
    /\ pc[r] = "upload" /\ lastFile < LastFile
    /\ pc' = [pc EXCEPT ![r] = "write"]
    /\ UNCHANGED <<setting, storage, table, call, instance, before, answer>>

\* FileField.pre_save: the file is stored, under a name of its own, before the
\* row is written.
StoreUpload(r) ==
    /\ pc[r] = "upload" /\ lastFile < LastFile
    /\ lastFile' = lastFile + 1
    /\ files' = files \cup {lastFile'}
    /\ instance' = [instance EXCEPT ![r].image = lastFile']
    /\ pc' = [pc EXCEPT ![r] = "write"]
    /\ UNCHANGED <<setting, table, call, before, answer>>

\* Mutant: nothing is discarded.
DiscardedNothing(r) == {}

\* Mutant: the image is discarded whether this save stored it or not.
DiscardedAlways(r) == {instance[r].image}

\* _discard_image_stored_by_this_save: only an image whose name has changed
\* during this save, that is, the upload that it stored.
Discarded(r) ==
    IF "image" \in call[r].sent /\ instance[r].image # NoImage
    THEN {instance[r].image} ELSE {}

\* Product.save when the database refuses the row.
Refused(r, result) ==
    /\ End(r, result)
    /\ files' = files \ Discarded(r)
    /\ UNCHANGED <<setting, lastFile, table>>

\* The row is written.  django-cleanup removes the old image if the statement
\* may have changed it, unless the row is new.
Accepted(r, old) ==
    /\ UNCHANGED <<setting, storage, lastId>>
    /\ IF old = NoImage
       THEN End(r, "ok")
       ELSE /\ pc' = [pc EXCEPT ![r] = "cleanup"]
            /\ UNCHANGED <<call, instance, before, answer>>

\* The INSERT of a new product.
InsertRow(r) ==
    /\ pc[r] = "write" /\ call[r].method = "POST"
    /\ IF SkuIsFree(instance[r].sku, NoId)
       THEN /\ lastId < LastId
            /\ lastId' = lastId + 1
            /\ rows' = [rows EXCEPT ![lastId'] = instance[r]]
            /\ End(r, "ok")
            /\ UNCHANGED <<setting, storage>>
       ELSE Refused(r, "IntegrityError")

\* The image that an accepted update has replaced, as django-cleanup knows it.
Replaced(r) == IF instance[r].image # before[r] THEN before[r] ELSE NoImage

\* Mutant: the whole object is saved.
PatchedWhole(r, row) == instance[r]

\* save(update_fields=...): the row with what was sent.
Patched(r, row) ==
    LET sent == call[r].sent
    IN  [sku   |-> IF "sku" \in sent THEN instance[r].sku ELSE row.sku,
         title |-> IF "title" \in sent THEN instance[r].title ELSE row.title,
         image |-> IF "image" \in sent THEN instance[r].image ELSE row.image]

\* A PATCH whose row is gone affects no row, which Django makes an error.
PatchRow(r) ==
    LET p == call[r].id
    IN  /\ pc[r] = "write" /\ call[r].method = "PATCH"
        /\ IF p \in Existing
           THEN /\ rows' = [rows EXCEPT ![p] = Patched(r, rows[p])]
                /\ Accepted(r, Replaced(r))
           ELSE Refused(r, "DatabaseError")

\* A PUT whose row is gone inserts it again, under the same id.
PutRow(r) ==
    LET p == call[r].id
    IN  /\ pc[r] = "write" /\ call[r].method = "PUT"
        /\ IF SkuIsFree(instance[r].sku, p)
           THEN /\ rows' = [rows EXCEPT ![p] = instance[r]]
                /\ Accepted(r, IF p \in Existing THEN Replaced(r) ELSE NoImage)
           ELSE Refused(r, "IntegrityError")

\* DELETE: no error when the row is already gone.
DeleteRow(r) ==
    /\ pc[r] = "write" /\ call[r].method = "DELETE"
    /\ rows' = [rows EXCEPT ![call[r].id] = NoRow]
    /\ Accepted(r, before[r])

\* What else makes the database refuse: a constraint (the category is gone, the
\* price negative) or a failure of its own (lock wait timeout, lost connection).
\* (delete() has no file to discard.)
FailWrite(r) ==
    \E result \in {"IntegrityError", "OperationalError"} :
        /\ pc[r] = "write"
        /\ Refused(r, result)

\* django-cleanup's on_commit hook: removes what the view had read.
CleanUp(r) ==
    /\ pc[r] = "cleanup"
    /\ files' = files \ {before[r]}
    /\ End(r, "ok")
    /\ UNCHANGED <<setting, table, lastFile>>

\* The worker dies: what was stored or written stays as it is.
Crash(r) ==
    /\ setting.crashes /\ pc[r] # "idle"
    /\ End(r, "lost")
    /\ UNCHANGED <<setting, storage, table>>

Next ==
    \E r \in Requests :
        \/ ReceivePost(r) \/ ReceiveUpdate(r) \/ ReceiveDelete(r)
        \/ StoreUpload(r)
        \/ InsertRow(r) \/ PatchRow(r) \/ PutRow(r) \/ DeleteRow(r)
        \/ FailWrite(r) \/ CleanUp(r) \/ Crash(r)

Spec == Init /\ [][Next]_vars

-----------------------------------------------------------------------------
(* Properties.                                                              *)

\* Every variable has its type.
TypeOK ==
    /\ setting \in Settings
    /\ rows \in [Ids -> Row \cup {NoRow}] /\ lastId \in 0 .. LastId
    /\ files \subseteq Files /\ lastFile \in 0 .. LastFile
    /\ pc \in [Requests -> {"idle", "upload", "write", "cleanup"}]
    /\ call \in [Requests -> Calls]
    /\ instance \in [Requests -> Draft \cup {NoRow}]
    /\ before \in [Requests -> Image]
    /\ answer \in [Requests -> Results]

\* No product shows an image whose file is gone, whatever order uploads, clean-up,
\* refusals and crashes come in: if every PUT says what the image is, or nobody
\* replaces the image between a PUT's read and its write.
ImagesExist ==
    setting.one_editor \/ ~setting.put_keeps_image => Referenced \subseteq files

\* "Their files are removed when a product is deleted, its image is replaced, or
\* the database refuses the row": when all is quiet, the files in the storage are
\* the images of the products.
Quiet == \A r \in Requests : pc[r] = "idle"

FilesAreRemoved == Quiet => files = Referenced

\* So it is if clients do not change one product at the same time, and no worker
\* dies, whoever races for a SKU and whatever the database refuses.
NothingLeftOver == setting.one_editor /\ ~setting.crashes => FilesAreRemoved

\* "Races the validation cannot see are caught by database constraints and
\* answered with 409, not 500": only a failure of the database itself makes a 500.
RacesAreConflicts ==
    \A r \in Requests :
        answer[r] \notin {"none", "OperationalError", "lost"} => Status(answer[r]) < 500

\* "A PATCH only writes the fields it was given": what else changed in a product
\* was changed by a PUT, although every request saves an object read earlier.
PatchWritesOnlyWhatWasSent ==
    [][\A p \in Existing : rows'[p] \notin {NoRow, rows[p]} =>
        \E r \in Requests :
            /\ pc[r] = "write" /\ pc'[r] # "write" /\ call[r].id = p
            /\ \/ call[r].method = "PUT"
               \/ /\ rows'[p].title # rows[p].title => "title" \in call[r].sent
                  /\ rows'[p].image # rows[p].image => "image" \in call[r].sent]_vars

\* "The SKU is immutable after creation", and no two products have the same one.
SkuNeverChanges ==
    [][/\ \A p \in Existing : rows'[p] # NoRow => rows'[p].sku = rows[p].sku
       /\ \A p, q \in Existing' : p # q => rows'[p].sku # rows'[q].sku]_vars

\* An id stands for one SKU for ever: the row and all objects that requests hold
\* of it agree, those of a deleted product too, so that a PUT that overtakes a
\* DELETE and inserts the product again cannot give its id another SKU.
OneSkuPerId ==
    \A r \in Requests : call[r].id # NoId =>
        /\ call[r].id \in Existing => rows[call[r].id].sku = instance[r].sku
        /\ \A q \in Requests : call[q].id = call[r].id => instance[q].sku = instance[r].sku

-----------------------------------------------------------------------------
(* Why it works: the inductive invariant behind the properties.             *)

\* What a request carries at each stage: the image it does not send is the one
\* that it read.
Carries(r) ==
    /\ pc[r] = "idle" => call[r] = NoCall /\ before[r] = NoImage
    /\ pc[r] # "idle" =>
        /\ instance[r] \in Draft
        /\ instance[r].image = Upload <=> pc[r] = "upload"
        /\ "image" \notin call[r].sent => instance[r].image = before[r]
        /\ IF call[r].method = "POST"
           THEN call[r].id = NoId /\ call[r].sent = Fields /\ before[r] = NoImage
           ELSE call[r].id \in 1 .. lastId
        /\ call[r].method = "PUT" /\ "image" \notin call[r].sent => setting.put_keeps_image
        /\ call[r].method = "DELETE" => call[r].sent = {}

\* ... and ids are given once.
StagesInv == Existing \subseteq 1 .. lastId /\ \A r \in Requests : Carries(r)

SkusDiffer == \A p, q \in Existing : p # q => rows[p].sku # rows[q].sku

\* The file that a request has stored and not yet made a product's image.
Uploaded(r) ==
    IF pc[r] = "write" /\ "image" \in call[r].sent THEN {instance[r].image} \ {NoImage} ELSE {}

\* A file belongs to one product, for those who have read it too.
OwnersInv ==
    /\ \A p, q \in Existing : rows[p].image = rows[q].image /\ rows[p].image # NoImage => p = q
    /\ \A r \in Requests : before[r] # NoImage =>
        /\ \A p \in Existing : rows[p].image = before[r] => p = call[r].id
        /\ \A q \in Requests : before[q] = before[r] => call[q].id = call[r].id

\* Where nobody else changes the product, it is as the request read it.
EditorsInv ==
    setting.one_editor =>
        \A r \in Requests : call[r].id # NoId =>
            /\ \A q \in Requests : call[q].id = call[r].id => q = r
            /\ pc[r] \in {"upload", "write"} =>
                rows[call[r].id] # NoRow /\ rows[call[r].id].image = before[r]

\* A stored upload is in the storage, and known to the request alone.
UploadsInv ==
    \A r \in Requests : \A f \in Uploaded(r) :
        /\ f \in files /\ f \notin Referenced
        /\ \A q \in Requests : before[q] # f /\ (q # r => f \notin Uploaded(q))

\* No name beyond the last one drawn is in use.
DrawnInv ==
    files \cup Referenced \cup {before[r] : r \in Requests} \subseteq (1 .. lastFile) \cup {NoImage}

\* What is about to be removed is no product's image, ...
CleanUpInv ==
    setting.one_editor \/ ~setting.put_keeps_image =>
        \A r \in Requests : pc[r] = "cleanup" => before[r] \notin Referenced

\* ... and what is no product's image is about to be removed, or to become one.
LeftOversInv ==
    setting.one_editor /\ ~setting.crashes =>
        \A f \in files \ Referenced : \E r \in Requests :
            f \in Uploaded(r) \/ (pc[r] = "cleanup" /\ f = before[r])

IInv ==
    /\ TypeOK /\ StagesInv /\ OneSkuPerId /\ SkusDiffer
    /\ OwnersInv /\ EditorsInv /\ UploadsInv /\ DrawnInv
    /\ CleanUpInv /\ ImagesExist /\ LeftOversInv
=============================================================================
