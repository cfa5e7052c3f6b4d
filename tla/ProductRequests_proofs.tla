----------------------- MODULE ProductRequests_proofs -----------------------
(***************************************************************************)
(* For every number of products, files, SKUs and requests, and all the     *)
(* settings: an id keeps its SKU, the images of the products are in the    *)
(* storage, and nothing else is once all is quiet.                         *)
(*                                                                         *)
(* A step of a request is of one of four kinds: it ends the request, starts *)
(* it, stores its upload or writes its row.  One lemma per kind says that  *)
(* IInv is kept; the actions follow, then the theorems.                    *)
(***************************************************************************)
EXTENDS ProductRequests, TLAPS

-----------------------------------------------------------------------------
(* Rows, drafts and requests                                                *)

\* The markers differ from every file and from each other.
LEMMA Constants ==
  /\ LastId \in Nat /\ LastFile \in Nat
  /\ NoImage \notin Files /\ NoImage # Upload /\ Upload \notin Image
  /\ NoId \notin Ids
  /\ \A row \in Row : row # NoRow
BY BoundsAssumption, MarkersAssumption DEF Image

\* The three choices a setting makes.
LEMMA SettingFields ==
  ASSUME setting \in Settings
  PROVE  setting.one_editor \in BOOLEAN /\ setting.put_keeps_image \in BOOLEAN /\ setting.crashes \in BOOLEAN
BY SettingsAssumption DEF Setting

\* The fields of a stored product.
LEMMA RowFields ==
  ASSUME NEW row \in Row
  PROVE  row.sku \in Skus /\ row.title \in Titles /\ row.image \in Image
BY DEF Row

\* The fields of a product that was sent: its image may be an upload.
LEMMA DraftFields ==
  ASSUME NEW draft \in Draft
  PROVE  draft.sku \in Skus /\ draft.title \in Titles /\ draft.image \in Image \cup {Upload}
BY DEF Draft

\* What a request may carry.
LEMMA CallFields ==
  ASSUME NEW c \in Calls
  PROVE  /\ c.method \in {"POST", "PUT", "PATCH", "DELETE"}
         /\ c.id \in Ids \cup {NoId} /\ c.sent \subseteq Fields
BY DEF Calls

\* A product as read is a draft, and a draft without an upload can be stored.
LEMMA RowsAreDrafts == Row \subseteq Draft
BY DEF Row, Draft

\* A draft without an upload can be stored as it is.
LEMMA DraftsWithoutUpload ==
  ASSUME NEW draft \in Draft, draft.image # Upload
  PROVE  draft \in Row
BY DEF Row, Draft

\* What exists is a row under an id.
LEMMA ExistingRows ==
  ASSUME TypeOK, NEW p \in Existing
  PROVE  p \in Ids /\ rows[p] # NoRow /\ rows[p] \in Row /\ rows[p].image \in Image
BY RowFields DEF TypeOK, Existing

\* The call of a request that is not being served.
LEMMA NoCallFacts ==
  /\ NoCall \in Calls /\ NoCall.id = NoId /\ NoCall.sent = {} /\ NoCall.method = "DELETE"
BY DEF NoCall, Calls, Fields

\* What a step leaves of a request that it does not concern, ...
Same(q) ==
    /\ pc'[q] = pc[q] /\ call'[q] = call[q]
    /\ instance'[q] = instance[q] /\ before'[q] = before[q]

\* ... and of one that it ends.
Ended(r) ==
    /\ pc'[r] = "idle" /\ call'[r] = NoCall
    /\ instance'[r] = NoRow /\ before'[r] = NoImage

LocalsOK ==
    /\ pc \in [Requests -> {"idle", "upload", "write", "cleanup"}]
    /\ call \in [Requests -> Calls]
    /\ instance \in [Requests -> Draft \cup {NoRow}]
    /\ before \in [Requests -> Image]
    /\ answer \in [Requests -> Results]

\* The end of a request resets its locals and leaves the others alone.
LEMMA EndFacts ==
  ASSUME TypeOK, NEW r \in Requests, NEW result \in Results, End(r, result)
  PROVE  /\ LocalsOK' /\ Ended(r)
         /\ \A q \in Requests \ {r} : Same(q)
<1>1. LocalsOK'
  BY NoCallFacts DEF LocalsOK, TypeOK, End, Image
<1> QED
  BY <1>1 DEF TypeOK, End, Ended, Same

\* A request that was left alone has uploaded what it had.
LEMMA SameUploaded ==
  ASSUME NEW q \in Requests, Same(q)
  PROVE  Uploaded(q)' = Uploaded(q)
BY DEF Same, Uploaded

\* A request that ended has no file of its own left.
LEMMA EndedUploaded ==
  ASSUME NEW r \in Requests, Ended(r)
  PROVE  Uploaded(r)' = {}
BY DEF Ended, Uploaded

\* While the row is being written, the file stored for it is what a refusal
\* discards.
LEMMA UploadedIsDiscarded ==
  ASSUME NEW r \in Requests, pc[r] = "write"
  PROVE  Uploaded(r) = Discarded(r)
BY DEF Uploaded, Discarded

\* The file a request stored is the image of the product it is about to save.
LEMMA UploadedAtWrite ==
  ASSUME NEW r \in Requests, NEW f \in Uploaded(r)
  PROVE  pc[r] = "write" /\ "image" \in call[r].sent /\ f = instance[r].image /\ f # NoImage
BY DEF Uploaded

\* What StagesInv says of a request that is not idle, read off once.
LEMMA AtWork ==
  ASSUME TypeOK, StagesInv, NEW r \in Requests, pc[r] # "idle"
  PROVE  /\ instance[r] \in Draft
         /\ pc[r] # "upload" => instance[r] \in Row
         /\ call[r] \in Calls /\ before[r] \in Image
         /\ "image" \notin call[r].sent => instance[r].image = before[r]
         /\ call[r].method = "POST" =>
              call[r].id = NoId /\ "image" \in call[r].sent /\ before[r] = NoImage
         /\ call[r].method # "POST" =>
              call[r].id \in 1 .. lastId /\ call[r].id \in Ids /\ call[r].id # NoId
<1>1. lastId \in Nat /\ lastId <= LastId
  BY Constants DEF TypeOK
<1>2. 1 .. lastId \subseteq Ids
  BY <1>1, Constants DEF Ids
<1> QED
  BY <1>2, DraftsWithoutUpload, Constants DEF StagesInv, Carries, TypeOK, Fields

\* A request that was left alone still carries what it did, though ids were given out.
LEMMA SameCarries ==
  ASSUME NEW q \in Requests, Same(q), Carries(q), setting' = setting,
         lastId \in Nat, lastId' \in Nat, lastId <= lastId'
  PROVE  Carries(q)'
<1>1. 1 .. lastId \subseteq 1 .. lastId'
  OBVIOUS
<1> QED
  BY <1>1 DEF Carries, Same

\* A request that ended carries nothing.
LEMMA EndedCarries ==
  ASSUME NEW r \in Requests, Ended(r)
  PROVE  Carries(r)'
BY DEF Carries, Ended

\* The id of a request, idle or not, is one that has been given.
LEMMA GivenIds ==
  ASSUME TypeOK, StagesInv, NEW r \in Requests, call[r].id # NoId
  PROVE  pc[r] # "idle" /\ call[r].method # "POST" /\ call[r].id \in 1 .. lastId
BY NoCallFacts DEF StagesInv, Carries

-----------------------------------------------------------------------------
(* The end of a request                                                     *)

\* A request ends and the files `gone` are removed: none of them is in use, and
\* where nothing may be left over it is all that only this request knew.
LEMMA EndKeeps ==
  ASSUME IInv, NEW r \in Requests, NEW result \in Results, End(r, result),
         NEW gone,
         files' = files \ gone,
         UNCHANGED <<setting, rows, lastId, lastFile>>,
         setting.one_editor \/ ~setting.put_keeps_image => gone \cap Referenced = {},
         \A q \in Requests \ {r} : gone \cap Uploaded(q) = {},
         setting.one_editor /\ ~setting.crashes =>
            /\ Uploaded(r) \subseteq gone
            /\ pc[r] = "cleanup" => before[r] \in gone
  PROVE  IInv'
<1> USE DEF IInv
<1>1. /\ LocalsOK' /\ Ended(r)
      /\ \A q \in Requests \ {r} : Same(q)
  BY EndFacts
<1>2. Existing' = Existing /\ Referenced' = Referenced
  BY DEF Existing, Referenced
<1>3. /\ \A q \in Requests \ {r} : Uploaded(q)' = Uploaded(q)
      /\ Uploaded(r)' = {}
  BY <1>1, SameUploaded, EndedUploaded
<1>4. TypeOK'
  BY <1>1 DEF TypeOK, LocalsOK
<1>5. StagesInv'
  BY <1>1, <1>2, SameCarries, EndedCarries DEF StagesInv, TypeOK
<1>6. OneSkuPerId'
  BY <1>1, <1>2, NoCallFacts DEF OneSkuPerId, Same, Ended
<1>7. SkusDiffer'
  BY <1>2 DEF SkusDiffer
<1>8. OwnersInv'
  BY <1>1, <1>2 DEF OwnersInv, Same, Ended
<1>9. EditorsInv'
  BY <1>1, <1>2, NoCallFacts DEF EditorsInv, Same, Ended
<1>10. UploadsInv'
  <2> SUFFICES ASSUME NEW q \in Requests, NEW f \in Uploaded(q)'
               PROVE  /\ f \in files' /\ f \notin Referenced'
                      /\ \A x \in Requests : before'[x] # f /\ (x # q => f \notin Uploaded(x)')
    BY DEF UploadsInv
  <2>1. q # r /\ f \in Uploaded(q)
    BY <1>3
  <2>2. f \in files' /\ f \notin Referenced'
    BY <2>1, <1>2 DEF UploadsInv
  <2>3. ASSUME NEW x \in Requests PROVE before'[x] # f
    BY <2>1, <1>1, UploadedAtWrite DEF UploadsInv, Same, Ended
  <2>4. ASSUME NEW x \in Requests, x # q PROVE f \notin Uploaded(x)'
    BY <2>1, <2>4, <1>3 DEF UploadsInv
  <2> QED
    BY <2>2, <2>3, <2>4
<1>11. DrawnInv'
  BY <1>1, <1>2 DEF DrawnInv, Same, Ended
<1>12. CleanUpInv'
  BY <1>1, <1>2 DEF CleanUpInv, Same, Ended
<1>13. ImagesExist'
  BY <1>2 DEF ImagesExist
<1>14. LeftOversInv'
  <2> SUFFICES ASSUME setting.one_editor, ~setting.crashes,
                      NEW f \in files, f \notin gone, f \notin Referenced
               PROVE  \E q \in Requests : f \in Uploaded(q)' \/ (pc'[q] = "cleanup" /\ f = before'[q])
    BY <1>2 DEF LeftOversInv
  <2>1. PICK q \in Requests : f \in Uploaded(q) \/ (pc[q] = "cleanup" /\ f = before[q])
    BY DEF LeftOversInv
  <2>2. q # r
    BY <2>1
  <2> QED
    BY <2>1, <2>2, <1>1, <1>3 DEF Same
<1> QED
  BY <1>4, <1>5, <1>6, <1>7, <1>8, <1>9, <1>10, <1>11, <1>12, <1>13, <1>14

\* Product.save when the database refuses the row: the upload goes, nothing else.
LEMMA RefusedKeeps ==
  ASSUME IInv, NEW r \in Requests, pc[r] = "write",
         NEW result \in Results, Refused(r, result)
  PROVE  IInv'
<1>1. Uploaded(r) = Discarded(r)
  BY UploadedIsDiscarded
<1>2. Uploaded(r) \cap Referenced = {}
  BY DEF IInv, UploadsInv
<1>3. \A q \in Requests \ {r} : Uploaded(r) \cap Uploaded(q) = {}
  BY DEF IInv, UploadsInv
<1>4. End(r, result) /\ files' = files \ Uploaded(r) /\ UNCHANGED <<setting, rows, lastId, lastFile>>
  BY <1>1 DEF Refused, table
<1> QED
  BY <1>2, <1>3, <1>4, EndKeeps

\* `delete_if_unreferenced` deletes only a file that no product refers to.
LEMMA CleanUpKeeps ==
  ASSUME IInv, NEW r \in Requests, CleanUp(r)
  PROVE  IInv'
<1>1. /\ End(r, "ok") /\ files' = files \ {before[r]} /\ pc[r] = "cleanup"
      /\ UNCHANGED <<setting, rows, lastId, lastFile>>
  BY DEF CleanUp, table
<1>2. setting.one_editor \/ ~setting.put_keeps_image => {before[r]} \cap Referenced = {}
  BY <1>1 DEF IInv, CleanUpInv
<1>3. \A q \in Requests : {before[r]} \cap Uploaded(q) = {}
  BY DEF IInv, UploadsInv
<1>4. Uploaded(r) = {}
  BY <1>1 DEF Uploaded
<1>5. "ok" \in Results
  BY DEF Results
<1> QED
  BY <1>1, <1>2, <1>3, <1>4, <1>5, EndKeeps

\* A dead worker removes nothing, and only leaves files over where it may die.
LEMMA CrashKeeps ==
  ASSUME IInv, NEW r \in Requests, Crash(r)
  PROVE  IInv'
<1>1. /\ End(r, "lost") /\ files' = files \ {} /\ setting.crashes
      /\ UNCHANGED <<setting, rows, lastId, lastFile>>
  BY DEF Crash, table, storage
<1>2. "lost" \in Results
  BY DEF Results
<1> QED
  BY <1>1, <1>2, EndKeeps

\* A refused request changes nothing.
LEMMA InvalidKeeps ==
  ASSUME IInv, NEW r \in Requests, pc[r] = "idle",
         End(r, "ValidationError"), UNCHANGED <<setting, storage, table>>
  PROVE  IInv'
<1>1. files' = files \ {} /\ UNCHANGED <<setting, rows, lastId, lastFile>>
  BY DEF storage, table
<1>2. Uploaded(r) = {}
  BY DEF Uploaded
<1>3. "ValidationError" \in Results
  BY DEF Results
<1> QED
  BY <1>1, <1>2, <1>3, EndKeeps

-----------------------------------------------------------------------------
(* The start of a request                                                   *)

\* The view has read product p, or none, and hands a valid object on: what the
\* request knows of the product is what the table says.
LEMMA StartKeeps ==
  ASSUME IInv, NEW r \in Requests, pc[r] = "idle",
         NEW method \in {"POST", "PUT", "PATCH", "DELETE"},
         NEW p \in Existing \cup {NoId}, NEW sent \in SUBSET Fields, NEW draft \in Draft,
         method = "POST" <=> p = NoId,
         method = "POST" => sent = Fields,
         method = "DELETE" => sent = {},
         method = "PUT" /\ "image" \notin sent => setting.put_keeps_image,
         p # NoId => draft.sku = rows[p].sku,
         "image" \in sent => draft.image \in {NoImage, Upload},
         "image" \notin sent => draft.image = rows[p].image,
         setting.one_editor /\ p # NoId => \A q \in Requests : call[q].id # p,
         pc' = [pc EXCEPT ![r] = IF draft.image = Upload THEN "upload" ELSE "write"],
         call' = [call EXCEPT ![r] = [method |-> method, id |-> p, sent |-> sent]],
         instance' = [instance EXCEPT ![r] = draft],
         before' = [before EXCEPT ![r] = IF p = NoId THEN NoImage ELSE rows[p].image],
         answer' = [answer EXCEPT ![r] = "none"],
         UNCHANGED <<setting, rows, lastId, files, lastFile>>
  PROVE  IInv'
<1> USE DEF IInv
<1> DEFINE image == IF p = NoId THEN NoImage ELSE rows[p].image
<1>1. /\ p \in Ids \cup {NoId}
      /\ p # NoId => p \in Existing /\ p \in Ids /\ rows[p] \in Row
      /\ image \in Image
  BY ExistingRows DEF Image
<1>2. [method |-> method, id |-> p, sent |-> sent] \in Calls
  BY <1>1 DEF Calls
<1>3. LocalsOK'
  BY <1>1, <1>2 DEF LocalsOK, TypeOK, Results
<1>4. \A q \in Requests \ {r} : Same(q)
  BY DEF TypeOK, Same
<1>5. /\ pc'[r] = IF draft.image = Upload THEN "upload" ELSE "write"
      /\ call'[r] = [method |-> method, id |-> p, sent |-> sent]
      /\ instance'[r] = draft /\ before'[r] = image
  BY DEF TypeOK
<1>6. Existing' = Existing /\ Referenced' = Referenced
  BY DEF Existing, Referenced
<1>7. p # NoId /\ image # NoImage => image \in Referenced
  BY <1>1 DEF Referenced
<1>8. /\ \A q \in Requests \ {r} : Uploaded(q)' = Uploaded(q)
      /\ Uploaded(r)' = {} /\ Uploaded(r) = {}
  <2>1. Uploaded(r)' = {}
    BY <1>5, Constants DEF Uploaded
  <2>2. Uploaded(r) = {}
    BY DEF Uploaded
  <2> QED
    BY <2>1, <2>2, <1>4, SameUploaded
<1>9. TypeOK'
  BY <1>3 DEF TypeOK, LocalsOK
<1>10. StagesInv'
  <2>1. Existing' \subseteq 1 .. lastId'
    BY <1>6 DEF StagesInv
  <2>2. p # NoId => p \in 1 .. lastId'
    BY <1>1, <1>6 DEF StagesInv
  <2>3. \A q \in Requests \ {r} : Carries(q)'
    BY <1>4, SameCarries DEF StagesInv, TypeOK
  <2>4. /\ pc'[r] # "idle" /\ instance'[r] \in Draft
        /\ instance'[r].image = Upload <=> pc'[r] = "upload"
    BY <1>5
  <2>5. "image" \notin call'[r].sent => instance'[r].image = before'[r]
    BY <1>1, <1>5 DEF Fields
  <2>6. /\ call'[r].method = "POST"
           => call'[r].id = NoId /\ call'[r].sent = Fields /\ before'[r] = NoImage
        /\ call'[r].method # "POST" => call'[r].id \in 1 .. lastId'
        /\ call'[r].method = "PUT" /\ "image" \notin call'[r].sent => setting'.put_keeps_image
        /\ call'[r].method = "DELETE" => call'[r].sent = {}
    BY <1>5, <2>2
  <2> QED
    BY <2>1, <2>3, <2>4, <2>5, <2>6 DEF StagesInv, Carries
<1>11. OneSkuPerId'
  <2>1. \A q \in Requests \ {r} : p # NoId /\ call[q].id = p => instance[q].sku = draft.sku
    BY <1>1 DEF OneSkuPerId
  <2> QED
    BY <2>1, <1>4, <1>5, <1>6 DEF OneSkuPerId, Same
<1>12. SkusDiffer'
  BY <1>6 DEF SkusDiffer
<1>13. OwnersInv'
  <2>1. \A x, y \in Existing' :
          rows'[x].image = rows'[y].image /\ rows'[x].image # NoImage => x = y
    BY <1>6 DEF OwnersInv
  <2>2. image # NoImage =>
          /\ \A x \in Existing : rows[x].image = image => x = p
          /\ \A q \in Requests \ {r} : before[q] = image => call[q].id = p
    BY <1>1 DEF OwnersInv
  <2>3. ASSUME NEW q \in Requests, before'[q] # NoImage
        PROVE  /\ \A x \in Existing' : rows'[x].image = before'[q] => x = call'[q].id
               /\ \A x \in Requests : before'[x] = before'[q] => call'[x].id = call'[q].id
    BY <2>2, <2>3, <1>4, <1>5, <1>6 DEF OwnersInv, Same
  <2> QED
    BY <2>1, <2>3 DEF OwnersInv
<1>14. EditorsInv'
  BY <1>1, <1>4, <1>5, <1>6 DEF EditorsInv, Same, Existing
<1>15. UploadsInv'
  <2> SUFFICES ASSUME NEW q \in Requests, NEW f \in Uploaded(q)'
               PROVE  /\ f \in files' /\ f \notin Referenced'
                      /\ \A x \in Requests : before'[x] # f /\ (x # q => f \notin Uploaded(x)')
    BY DEF UploadsInv
  <2>1. q # r /\ f \in Uploaded(q) /\ f # NoImage
    BY <1>8, UploadedAtWrite
  <2>2. f \in files' /\ f \notin Referenced'
    BY <2>1, <1>6 DEF UploadsInv
  <2>3. ASSUME NEW x \in Requests PROVE before'[x] # f
    BY <2>1, <2>2, <1>4, <1>5, <1>6, <1>7 DEF UploadsInv, Same
  <2>4. ASSUME NEW x \in Requests, x # q PROVE f \notin Uploaded(x)'
    BY <2>1, <2>4, <1>8 DEF UploadsInv
  <2> QED
    BY <2>2, <2>3, <2>4
<1>16. DrawnInv'
  <2>1. image \in (1 .. lastFile) \cup {NoImage}
    BY <1>7 DEF DrawnInv
  <2> QED
    BY <2>1, <1>4, <1>5, <1>6 DEF DrawnInv, Same
<1>17. CleanUpInv'
  BY <1>4, <1>5, <1>6 DEF CleanUpInv, Same
<1>18. ImagesExist'
  BY <1>6 DEF ImagesExist
<1>19. LeftOversInv'
  BY <1>4, <1>6, <1>8 DEF LeftOversInv, Same
<1> QED
  BY <1>9, <1>10, <1>11, <1>12, <1>13, <1>14, <1>15, <1>16, <1>17, <1>18, <1>19

\* A request that was read carries an instance that fits its row.
LEMMA ReceiveKeeps ==
  ASSUME IInv, NEW r \in Requests,
         NEW method \in {"POST", "PUT", "PATCH", "DELETE"},
         NEW p \in Existing \cup {NoId}, NEW sent \in SUBSET Fields, NEW draft \in Draft,
         method = "POST" <=> p = NoId,
         method = "POST" => sent = Fields,
         method = "DELETE" => sent = {},
         method = "PUT" /\ "image" \notin sent => setting.put_keeps_image,
         "image" \in sent => draft.image \in {NoImage, Upload},
         "image" \notin sent => draft.image = rows[p].image,
         Receive(r, method, p, sent, draft)
  PROVE  IInv'
<1>1. CASE SkuIsValid(method, p, draft.sku)
  <2>1. p # NoId => draft.sku = rows[p].sku
    BY <1>1 DEF SkuIsValid
  <2> QED
    BY <1>1, <2>1, StartKeeps, SMTT(60) DEF Receive, storage, table
<1>2. CASE ~SkuIsValid(method, p, draft.sku)
  BY <1>2, InvalidKeeps DEF Receive
<1> QED
  BY <1>1, <1>2

\* POST carries a new product.
LEMMA ReceivePostKeeps ==
  ASSUME IInv, NEW r \in Requests, ReceivePost(r)
  PROVE  IInv'
<1>1. PICK draft \in [sku : Skus, title : Titles, image : {NoImage, Upload}] :
        Receive(r, "POST", NoId, Fields, draft)
  BY DEF ReceivePost
<1>2. draft \in Draft /\ draft.image \in {NoImage, Upload} /\ "image" \in Fields
  BY DEF Draft, Image, Fields
<1> QED
  BY <1>1, <1>2, ReceiveKeeps

\* PUT and PATCH carry the row they read, with the fields that were sent.
LEMMA ReceiveUpdateKeeps ==
  ASSUME IInv, NEW r \in Requests, ReceiveUpdate(r)
  PROVE  IInv'
<1>1. PICK p \in Existing, method \in {"PUT", "PATCH"}, sent \in SUBSET Fields :
        /\ method = "PUT" =>
            sent = Fields \/ (setting.put_keeps_image /\ sent = Fields \ {"image"})
        /\ \E draft \in Drafts(sent, rows[p]) : Receive(r, method, p, sent, draft)
  BY DEF ReceiveUpdate
<1>2. PICK draft \in Drafts(sent, rows[p]) : Receive(r, method, p, sent, draft)
  BY <1>1
<1>3. rows[p] \in Row /\ p \in Ids /\ p # NoId
  BY ExistingRows, Constants DEF IInv
<1>4. draft \in Draft
  <2>1. /\ (IF "sku" \in sent THEN Skus ELSE {rows[p].sku}) \subseteq Skus
        /\ (IF "title" \in sent THEN Titles ELSE {rows[p].title}) \subseteq Titles
        /\ (IF "image" \in sent THEN {NoImage, Upload} ELSE {rows[p].image}) \subseteq Image \cup {Upload}
    BY <1>3, RowFields DEF Image
  <2> QED
    BY <2>1 DEF Drafts, Draft
<1>5. /\ "image" \in sent => draft.image \in {NoImage, Upload}
      /\ "image" \notin sent => draft.image = rows[p].image
  BY DEF Drafts
<1>6. method = "PUT" /\ "image" \notin sent => setting.put_keeps_image
  BY <1>1 DEF Fields
<1> QED
  BY <1>2, <1>3, <1>4, <1>5, <1>6, ReceiveKeeps

\* DELETE carries the row it read.
LEMMA ReceiveDeleteKeeps ==
  ASSUME IInv, NEW r \in Requests, ReceiveDelete(r)
  PROVE  IInv'
<1>1. PICK p \in Existing : Receive(r, "DELETE", p, {}, rows[p])
  BY DEF ReceiveDelete
<1>2. rows[p] \in Draft /\ p # NoId
  BY ExistingRows, RowsAreDrafts, Constants DEF IInv
<1>3. {} \in SUBSET Fields
  OBVIOUS
<1> QED
  BY <1>1, <1>2, <1>3, ReceiveKeeps

-----------------------------------------------------------------------------
(* The upload                                                               *)

\* The new name is in nobody's hands, and from now on in this request's only.
LEMMA StoreUploadKeeps ==
  ASSUME IInv, NEW r \in Requests, StoreUpload(r)
  PROVE  IInv'
<1> USE DEF IInv
<1> DEFINE f == lastFile + 1
<1>1. /\ pc[r] = "upload" /\ lastFile' = f /\ files' = files \cup {f}
      /\ instance' = [instance EXCEPT ![r].image = f]
      /\ pc' = [pc EXCEPT ![r] = "write"]
      /\ UNCHANGED <<setting, rows, lastId, call, before, answer>>
  BY DEF StoreUpload, table
<1>2. f \in Files /\ f \in Image /\ f # NoImage /\ f # Upload /\ lastFile \in Nat /\ lastFile' \in 0 .. LastFile
  BY Constants DEF StoreUpload, TypeOK, Files, Image
<1>3. f \notin files /\ f \notin Referenced /\ \A q \in Requests : before[q] # f
  BY <1>2 DEF DrawnInv
<1>4. \A q \in Requests \ {r} : Same(q)
  BY <1>1 DEF TypeOK, Same
<1>5. /\ instance[r] \in Draft /\ instance'[r] = [instance[r] EXCEPT !.image = f]
      /\ instance[r].image = Upload
      /\ pc'[r] = "write" /\ call'[r] = call[r] /\ before'[r] = before[r]
  BY <1>1 DEF TypeOK, StagesInv, Carries
<1>6. instance'[r] \in Draft /\ instance'[r].image = f /\ instance'[r].sku = instance[r].sku
  BY <1>2, <1>5 DEF Draft
<1>7. "image" \in call[r].sent
  BY <1>1, <1>5, AtWork, Constants
<1>8. Existing' = Existing /\ Referenced' = Referenced
  BY <1>1 DEF Existing, Referenced
<1>9. /\ \A q \in Requests \ {r} : Uploaded(q)' = Uploaded(q)
      /\ Uploaded(r)' = {f} /\ Uploaded(r) = {}
  <2>1. Uploaded(r)' = {f}
    BY <1>2, <1>5, <1>6, <1>7 DEF Uploaded
  <2>2. Uploaded(r) = {}
    BY <1>1 DEF Uploaded
  <2> QED
    BY <2>1, <2>2, <1>4, SameUploaded
<1>10. TypeOK'
  <2>1. instance' \in [Requests -> Draft \cup {NoRow}]
    BY <1>1, <1>6 DEF TypeOK
  <2> HIDE DEF f
  <2> QED
    BY <2>1, <1>1, <1>2 DEF TypeOK
<1>11. StagesInv'
  <2>1. Existing' \subseteq 1 .. lastId'
    BY <1>1, <1>8 DEF StagesInv
  <2>2. \A q \in Requests \ {r} : Carries(q)'
    BY <1>1, <1>4, SameCarries DEF StagesInv, TypeOK
  <2>3. /\ IF call'[r].method = "POST"
           THEN call'[r].id = NoId /\ call'[r].sent = Fields /\ before'[r] = NoImage
           ELSE call'[r].id \in 1 .. lastId'
        /\ call'[r].method = "DELETE" => call'[r].sent = {}
        /\ instance'[r].image # Upload /\ "image" \in call'[r].sent
    BY <1>1, <1>2, <1>5, <1>6, <1>7 DEF StagesInv, Carries
  <2> QED
    <3>1. Carries(r)'
      BY <2>3, <1>5, <1>6 DEF Carries
    <3> QED
      BY <2>1, <2>2, <3>1 DEF StagesInv
<1>12. OneSkuPerId'
  <2>1. \A q \in Requests : call'[q] = call[q] /\ instance'[q].sku = instance[q].sku
    BY <1>4, <1>5, <1>6 DEF Same
  <2> QED
    BY <2>1, <1>1, <1>8 DEF OneSkuPerId
<1>13. SkusDiffer'
  BY <1>1, <1>8 DEF SkusDiffer
<1>14. OwnersInv'
  BY <1>1, <1>8 DEF OwnersInv
<1>15. EditorsInv'
  BY <1>1, <1>4, <1>5 DEF EditorsInv, Same
<1>16. UploadsInv'
  <2> SUFFICES ASSUME NEW q \in Requests, NEW g \in Uploaded(q)'
               PROVE  /\ g \in files' /\ g \notin Referenced'
                      /\ \A x \in Requests : before'[x] # g /\ (x # q => g \notin Uploaded(x)')
    BY DEF UploadsInv
  <2>1. CASE q = r
    <3>1. g = f
      BY <2>1, <1>9
    <3>2. \A x \in Requests \ {r} : f \notin Uploaded(x)
      BY <1>3 DEF UploadsInv
    <3> QED
      BY <2>1, <3>1, <3>2, <1>1, <1>3, <1>8, <1>9
  <2>2. CASE q # r
    <3>1. g \in Uploaded(q) /\ g \in files /\ g # f
      BY <2>2, <1>3, <1>9 DEF UploadsInv
    <3> QED
      BY <2>2, <3>1, <1>1, <1>8, <1>9 DEF UploadsInv
  <2> QED
    BY <2>1, <2>2
<1>17. DrawnInv'
  <2>1. 1 .. lastFile \subseteq 1 .. lastFile' /\ f \in 1 .. lastFile'
    BY <1>1, <1>2
  <2> QED
    BY <2>1, <1>1, <1>8 DEF DrawnInv
<1>18. CleanUpInv'
  BY <1>1, <1>4, <1>5, <1>8 DEF CleanUpInv, Same
<1>19. ImagesExist'
  BY <1>1, <1>8 DEF ImagesExist
<1>20. LeftOversInv'
  <2> SUFFICES ASSUME setting.one_editor, ~setting.crashes,
                      NEW g \in files', g \notin Referenced
               PROVE  \E q \in Requests : g \in Uploaded(q)' \/ (pc'[q] = "cleanup" /\ g = before'[q])
    BY <1>1, <1>8 DEF LeftOversInv
  <2>1. CASE g = f
    BY <2>1, <1>9
  <2>2. CASE g # f
    <3>1. PICK q \in Requests : g \in Uploaded(q) \/ (pc[q] = "cleanup" /\ g = before[q])
      BY <2>2, <1>1 DEF LeftOversInv
    <3>2. q # r
      BY <3>1, <1>1, <1>9
    <3> QED
      BY <3>1, <3>2, <1>4, <1>9 DEF Same
  <2> QED
    BY <2>1, <2>2
<1> QED
  BY <1>10, <1>11, <1>12, <1>13, <1>14, <1>15, <1>16, <1>17, <1>18, <1>19, <1>20

-----------------------------------------------------------------------------
(* The row                                                                  *)

\* What the row's writer leaves for django-cleanup to do.
Cleaning(r) ==
    /\ pc'[r] = "cleanup" /\ call'[r] = call[r]
    /\ instance'[r] = instance[r] /\ before'[r] = before[r]

\* Row p becomes `new`.  Its SKU is nobody else's, its image is the upload, the
\* image that p has, or, where a PUT brings a product back, the one p once had;
\* and an image that p loses is the one that is cleaned up.
LEMMA WriteKeeps ==
  ASSUME IInv, NEW r \in Requests, pc[r] = "write",
         NEW p \in Ids, NEW new \in Row \cup {NoRow},
         rows' = [rows EXCEPT ![p] = new],
         lastId \in Nat, lastId' \in 0 .. LastId, lastId <= lastId', p \in 1 .. lastId',
         UNCHANGED <<setting, files, lastFile>>,
         LocalsOK', \A q \in Requests \ {r} : Same(q),
         Ended(r) \/ (Cleaning(r) /\ call[r].id = p),
         new # NoRow =>
            /\ \A q \in Existing \ {p} : rows[q].sku # new.sku
            /\ \A q \in Requests : call[q].id = p => instance[q].sku = new.sku
            /\ \/ new.image = NoImage
               \/ new.image \in Uploaded(r)
               \/ p \in Existing /\ new.image = rows[p].image
               \/ /\ p = call[r].id /\ new.image = before[r]
                  /\ ~setting.one_editor /\ setting.put_keeps_image,
         setting.one_editor => \A q \in Requests \ {r} : call[q].id # p,
         setting.one_editor /\ ~setting.crashes =>
            /\ IF new = NoRow THEN Uploaded(r) = {} ELSE Uploaded(r) \subseteq {new.image}
            /\ p \in Existing =>
                \/ rows[p].image = NoImage
                \/ new # NoRow /\ rows[p].image = new.image
                \/ pc'[r] = "cleanup" /\ rows[p].image = before[r],
         (setting.one_editor \/ ~setting.put_keeps_image) /\ new # NoRow /\ pc'[r] = "cleanup"
            => new.image # before[r]
  PROVE  IInv'
<1> USE DEF IInv
<1>1. /\ \A x \in Existing' : \/ x = p /\ new # NoRow /\ rows'[x] = new
                              \/ x # p /\ x \in Existing /\ rows'[x] = rows[x]
      /\ \A x \in Existing : x # p => x \in Existing' /\ rows'[x] = rows[x]
      /\ new # NoRow => p \in Existing' /\ rows'[p] = new
  BY DEF TypeOK, Existing
<1>2. \A f \in Referenced' : \/ f \in Referenced
                             \/ new # NoRow /\ f = new.image /\ f # NoImage
  BY <1>1 DEF Referenced
<1>3. /\ \A q \in Requests \ {r} : Uploaded(q)' = Uploaded(q)
      /\ Uploaded(r)' = {}
  BY SameUploaded, EndedUploaded DEF Cleaning, Uploaded
<1>4. TypeOK'
  BY DEF TypeOK, LocalsOK
<1>5. StagesInv'
  <2>1. Existing' \subseteq 1 .. lastId'
    <3>1. 1 .. lastId \subseteq 1 .. lastId' /\ Existing \subseteq 1 .. lastId
      BY DEF StagesInv
    <3> QED
      BY <3>1, <1>1
  <2>2. \A q \in Requests \ {r} : Carries(q)'
    BY SameCarries DEF StagesInv, TypeOK
  <2>3. CASE Ended(r)
    BY <2>1, <2>2, <2>3, EndedCarries DEF StagesInv
  <2>4. CASE Cleaning(r)
    <3>1. 1 .. lastId \subseteq 1 .. lastId' /\ Carries(r)
      BY DEF StagesInv
    <3>2. Carries(r)'
      BY <2>4, <3>1 DEF Carries, Cleaning
    <3> QED
      BY <2>1, <2>2, <3>2 DEF StagesInv
  <2> QED
    BY <2>3, <2>4
<1>6. OneSkuPerId'
  <2> SUFFICES ASSUME NEW q \in Requests, call'[q].id # NoId
               PROVE  /\ call'[q].id \in Existing' => rows'[call'[q].id].sku = instance'[q].sku
                      /\ \A x \in Requests : call'[x].id = call'[q].id
                            => instance'[x].sku = instance'[q].sku
    BY DEF OneSkuPerId
  <2>1. \A x \in Requests : call'[x].id # NoId => call'[x] = call[x] /\ instance'[x] = instance[x]
    BY NoCallFacts DEF Same, Ended, Cleaning
  <2>2. call'[q].id \in Existing' => rows'[call'[q].id].sku = instance'[q].sku
    BY <2>1, <1>1 DEF OneSkuPerId
  <2>3. ASSUME NEW x \in Requests, call'[x].id = call'[q].id
        PROVE  instance'[x].sku = instance'[q].sku
    BY <2>1, <2>3 DEF OneSkuPerId
  <2> QED
    BY <2>2, <2>3
<1>7. SkusDiffer'
  BY <1>1 DEF SkusDiffer
<1>8. \A q \in Requests : before'[q] # NoImage => before'[q] = before[q] /\ call'[q] = call[q]
  BY DEF Same, Ended, Cleaning
<1>9. new # NoRow /\ new.image # NoImage =>
        /\ \A x \in Existing : rows[x].image = new.image => x = p
        /\ \A q \in Requests : before[q] = new.image => call[q].id = p
  BY DEF OwnersInv, UploadsInv, Referenced
<1>10. OwnersInv'
  <2>1. \A x, y \in Existing' :
          rows'[x].image = rows'[y].image /\ rows'[x].image # NoImage => x = y
    BY <1>1, <1>9 DEF OwnersInv
  <2>2. ASSUME NEW q \in Requests, before'[q] # NoImage
        PROVE  /\ \A x \in Existing' : rows'[x].image = before'[q] => x = call'[q].id
               /\ \A x \in Requests : before'[x] = before'[q] => call'[x].id = call'[q].id
    BY <2>2, <1>1, <1>8, <1>9 DEF OwnersInv
  <2> QED
    BY <2>1, <2>2 DEF OwnersInv
<1>11. EditorsInv'
  <2> SUFFICES ASSUME setting.one_editor, NEW q \in Requests, call'[q].id # NoId
               PROVE  /\ \A x \in Requests : call'[x].id = call'[q].id => x = q
                      /\ pc'[q] \in {"upload", "write"} =>
                          rows'[call'[q].id] # NoRow /\ rows'[call'[q].id].image = before'[q]
    BY DEF EditorsInv
  <2>1. \A x \in Requests : call'[x].id # NoId => call'[x] = call[x]
    BY NoCallFacts DEF Same, Ended, Cleaning
  <2>2. \A x \in Requests : call'[x].id = call'[q].id => x = q
    BY <2>1 DEF EditorsInv
  <2>3. ASSUME pc'[q] \in {"upload", "write"}
        PROVE  rows'[call'[q].id] # NoRow /\ rows'[call'[q].id].image = before'[q]
    <3>1. q # r
      BY <2>3 DEF Ended, Cleaning
    <3>2. Same(q) /\ call[q].id # p
      BY <3>1
    <3>3. rows'[call[q].id] = rows[call[q].id]
      BY <3>2 DEF TypeOK
    <3> QED
      BY <2>3, <3>2, <3>3 DEF EditorsInv, Same
  <2> QED
    BY <2>2, <2>3
<1>12. UploadsInv'
  <2> SUFFICES ASSUME NEW q \in Requests, NEW f \in Uploaded(q)'
               PROVE  /\ f \in files' /\ f \notin Referenced'
                      /\ \A x \in Requests : before'[x] # f /\ (x # q => f \notin Uploaded(x)')
    BY DEF UploadsInv
  <2>1. q # r /\ f \in Uploaded(q) /\ f # NoImage
    BY <1>3, UploadedAtWrite
  <2>2. f \in files' /\ f \notin Referenced /\ \A x \in Requests : before[x] # f
    BY <2>1 DEF UploadsInv
  <2>3. f \notin Uploaded(r)
    BY <2>1 DEF UploadsInv
  <2>4. new # NoRow => f # new.image
    BY <2>1, <2>2, <2>3 DEF Referenced
  <2>5. \A x \in Requests : before'[x] # f
    BY <2>1, <2>2, <1>8
  <2>6. \A x \in Requests : x # q => f \notin Uploaded(x)'
    BY <2>1, <1>3 DEF UploadsInv
  <2> QED
    BY <2>2, <2>4, <2>5, <2>6, <1>2
<1>13. DrawnInv'
  <2>1. new # NoRow /\ new.image # NoImage => new.image \in 1 .. lastFile
    BY DEF DrawnInv, UploadsInv, Referenced
  <2> QED
    BY <2>1, <1>2, <1>8 DEF DrawnInv
<1>14. CleanUpInv'
  <2> SUFFICES ASSUME setting.one_editor \/ ~setting.put_keeps_image,
                      NEW q \in Requests, pc'[q] = "cleanup", before'[q] \in Referenced'
               PROVE  FALSE
    BY DEF CleanUpInv
  <2>1. before'[q] = before[q] /\ call'[q] = call[q] /\ before[q] # NoImage
    BY <1>8 DEF Referenced
  <2>2. CASE q = r
    <3>1. call[q].id = p
      BY <2>2 DEF Ended
    <3>2. PICK x \in Existing' : rows'[x].image = before[q]
      BY <2>1 DEF Referenced
    <3>3. x = p
      BY <3>1, <3>2, <2>1, <1>10 DEF OwnersInv
    <3> QED
      BY <2>1, <2>2, <3>2, <3>3, <1>1
  <2>3. CASE q # r
    <3>1. pc[q] = "cleanup" /\ before[q] \notin Referenced
      BY <2>3 DEF CleanUpInv, Same
    <3>2. new # NoRow /\ before[q] = new.image
      BY <3>1, <2>1, <1>2
    <3>3. new.image \in Uploaded(r) \/ new.image \in Referenced
      BY <3>2, <2>1 DEF Referenced
    <3> QED
      BY <3>1, <3>2, <3>3 DEF UploadsInv
  <2> QED
    BY <2>2, <2>3
<1>15. ImagesExist'
  <2>1. (setting.one_editor \/ ~setting.put_keeps_image) /\ new # NoRow /\ new.image # NoImage
        => new.image \in files
    BY DEF ImagesExist, UploadsInv, Referenced
  <2> QED
    BY <2>1, <1>2 DEF ImagesExist
<1>16. LeftOversInv'
  <2> SUFFICES ASSUME setting.one_editor, ~setting.crashes,
                      NEW f \in files, f \notin Referenced'
               PROVE  \E q \in Requests : f \in Uploaded(q)' \/ (pc'[q] = "cleanup" /\ f = before'[q])
    BY DEF LeftOversInv
  <2>1. f # NoImage
    BY Constants DEF TypeOK
  <2>2. new # NoRow => f # new.image
    BY <2>1, <1>1 DEF Referenced
  <2>3. f \notin Uploaded(r)
    BY <2>2
  <2>4. CASE f \in Referenced
    <3>1. PICK x \in Existing : rows[x].image = f
      BY <2>4 DEF Referenced
    <3>2. x = p
      BY <3>1, <2>1, <1>1 DEF Referenced
    <3>3. pc'[r] = "cleanup" /\ f = before[r]
      BY <3>1, <3>2, <2>1, <2>2
    <3> QED
      BY <3>3 DEF Ended, Cleaning
  <2>5. CASE f \notin Referenced
    <3>1. PICK q \in Requests : f \in Uploaded(q) \/ (pc[q] = "cleanup" /\ f = before[q])
      BY <2>5 DEF LeftOversInv
    <3>2. q # r
      BY <3>1, <2>3
    <3> QED
      BY <3>1, <3>2, <1>3 DEF Same
  <2> QED
    BY <2>4, <2>5
<1> QED
  BY <1>4, <1>5, <1>6, <1>7, <1>10, <1>11, <1>12, <1>13, <1>14, <1>15, <1>16

\* A write that was accepted ends the request, or leaves the old file to clean up.
LEMMA AcceptedFacts ==
  ASSUME TypeOK, NEW r \in Requests, NEW old, Accepted(r, old)
  PROVE  /\ LocalsOK' /\ \A q \in Requests \ {r} : Same(q)
         /\ UNCHANGED <<setting, files, lastFile, lastId>>
         /\ old = NoImage => Ended(r)
         /\ old # NoImage => Cleaning(r)
<1>1. "ok" \in Results
  BY DEF Results
<1>2. CASE old = NoImage
  BY <1>1, <1>2, EndFacts DEF Accepted, storage
<1>3. CASE old # NoImage
  <2>1. /\ pc' = [pc EXCEPT ![r] = "cleanup"] /\ UNCHANGED <<call, instance, before, answer>>
        /\ UNCHANGED <<setting, files, lastFile, lastId>>
    BY <1>3 DEF Accepted, storage
  <2>2. LocalsOK'
    BY <2>1 DEF TypeOK, LocalsOK
  <2>3. Cleaning(r) /\ \A q \in Requests \ {r} : Same(q)
    BY <2>1 DEF TypeOK, Cleaning, Same
  <2> QED
    BY <1>3, <2>1, <2>2, <2>3
<1> QED
  BY <1>2, <1>3

\* A new product gets an id that nobody has seen.
LEMMA InsertRowKeeps ==
  ASSUME IInv, NEW r \in Requests, InsertRow(r)
  PROVE  IInv'
<1> USE DEF IInv
<1>1. pc[r] = "write" /\ call[r].method = "POST"
  BY DEF InsertRow
<1>2. CASE ~SkuIsFree(instance[r].sku, NoId)
  BY <1>1, <1>2, RefusedKeeps DEF InsertRow, Results
<1>3. CASE SkuIsFree(instance[r].sku, NoId)
  <2> DEFINE p == lastId + 1
             new == instance[r]
  <2>1. /\ lastId' = p /\ rows' = [rows EXCEPT ![p] = new] /\ End(r, "ok")
        /\ UNCHANGED <<setting, files, lastFile>>
    BY <1>3 DEF InsertRow, storage
  <2>2. lastId \in Nat /\ p \in Ids /\ lastId' \in 0 .. LastId /\ lastId <= lastId' /\ p \in 1 .. lastId'
    BY <1>3, <2>1, Constants DEF InsertRow, TypeOK, Ids
  <2>3. /\ LocalsOK' /\ Ended(r)
        /\ \A q \in Requests \ {r} : Same(q)
    BY <2>1, EndFacts DEF Results
  <2>4. p \notin 1 .. lastId
    BY <2>2
  <2>5. p \notin Existing /\ \A q \in Requests : call[q].id # p
    BY <2>2, <2>4, Constants, GivenIds DEF StagesInv
  <2>6. new \in Row /\ new # NoRow /\ "image" \in call[r].sent
    BY <1>1, AtWork, Constants
  <2>7. new.image = NoImage \/ new.image \in Uploaded(r)
    BY <1>1, <2>6 DEF Uploaded
  <2>8. Uploaded(r) \subseteq {new.image}
    BY DEF Uploaded
  <2>9. \A q \in Existing \ {p} : rows[q].sku # new.sku
    BY <1>3, Constants DEF SkuIsFree, Existing
  <2>10. pc'[r] # "cleanup"
    BY <2>3 DEF Ended
  <2> HIDE DEF p, new
  <2> QED
    BY <1>1, <2>1, <2>2, <2>3, <2>5, <2>6, <2>7, <2>8, <2>9, <2>10, WriteKeeps
<1> QED
  BY <1>2, <1>3

\* A PATCH that finds its row writes what it was given, and what the row has.
LEMMA PatchRowKeeps ==
  ASSUME IInv, NEW r \in Requests, PatchRow(r)
  PROVE  IInv'
<1> USE DEF IInv
<1>1. PICK p : p = call[r].id
  OBVIOUS
<1>2. pc[r] = "write" /\ call[r].method = "PATCH"
  BY DEF PatchRow
<1>3. CASE p \notin Existing
  BY <1>1, <1>2, <1>3, RefusedKeeps DEF PatchRow, Results
<1>4. CASE p \in Existing
  <2>1. PICK new : new = Patched(r, rows[p])
    OBVIOUS
  <2>2. rows' = [rows EXCEPT ![p] = new] /\ Accepted(r, Replaced(r))
    BY <1>1, <1>4, <2>1 DEF PatchRow
  <2>3. p \in 1 .. lastId /\ p \in Ids /\ p # NoId /\ instance[r] \in Row /\ before[r] \in Image
        /\ ("image" \notin call[r].sent => instance[r].image = before[r])
    BY <1>1, <1>2, AtWork
  <2>4. rows[p] \in Row /\ rows[p].sku = instance[r].sku
    BY <1>1, <1>4, <2>3, ExistingRows DEF OneSkuPerId
  <2>5. /\ new.sku = rows[p].sku /\ new.title \in Titles
        /\ new.image = IF "image" \in call[r].sent THEN instance[r].image ELSE rows[p].image
    BY <2>1, <2>3, <2>4, RowFields DEF Patched
  <2>6. new \in Row /\ new # NoRow
    <3>1. instance[r].image \in Image /\ rows[p].image \in Image /\ rows[p].sku \in Skus
      BY <2>3, <2>4, RowFields
    <3>2. /\ (IF "sku" \in call[r].sent THEN instance[r].sku ELSE rows[p].sku) \in Skus
          /\ (IF "title" \in call[r].sent THEN instance[r].title ELSE rows[p].title) \in Titles
          /\ (IF "image" \in call[r].sent THEN instance[r].image ELSE rows[p].image) \in Image
      BY <2>3, <2>4, <3>1, RowFields
    <3> QED
      BY <2>1, <3>2, Constants DEF Patched, Row
  <2>7. lastId \in Nat /\ lastId' \in 0 .. LastId /\ lastId <= lastId' /\ p \in 1 .. lastId'
    <3>1. lastId' = lastId
      BY <2>2, AcceptedFacts
    <3> QED
      BY <2>3, <3>1, Constants DEF TypeOK
  <2>8. /\ LocalsOK' /\ \A q \in Requests \ {r} : Same(q)
        /\ UNCHANGED <<setting, files, lastFile>>
        /\ Ended(r) \/ (Cleaning(r) /\ call[r].id = p)
        /\ pc'[r] = "cleanup" <=> Replaced(r) # NoImage
    BY <1>1, <2>2, AcceptedFacts DEF Ended, Cleaning
  <2>9. /\ \A q \in Existing \ {p} : rows[q].sku # new.sku
        /\ \A q \in Requests : call[q].id = p => instance[q].sku = new.sku
    <3>1. \A q \in Existing \ {p} : rows[q].sku # rows[p].sku
      BY <1>4 DEF SkusDiffer
    <3>2. \A q \in Requests : call[q].id = p => instance[q].sku = instance[r].sku
      BY <1>1, <2>3 DEF OneSkuPerId
    <3> QED
      BY <2>4, <2>5, <3>1, <3>2
  <2>10. new.image = NoImage \/ new.image \in Uploaded(r) \/ new.image = rows[p].image
    BY <1>2, <2>5 DEF Uploaded
  <2>11. Uploaded(r) \subseteq {new.image}
    BY <2>5 DEF Uploaded
  <2>12. setting.one_editor =>
          /\ \A q \in Requests \ {r} : call[q].id # p
          /\ rows[p].image = before[r]
    BY <1>1, <1>2, <2>3 DEF EditorsInv
  <2>13. setting.one_editor =>
          \/ rows[p].image = NoImage \/ rows[p].image = new.image
          \/ pc'[r] = "cleanup" /\ rows[p].image = before[r]
    BY <2>5, <2>8, <2>12 DEF Replaced
  <2>14. pc'[r] = "cleanup" => new.image # before[r]
    BY <2>3, <2>5, <2>8 DEF Replaced
  <2> QED
    BY <1>2, <1>4, <2>2, <2>3, <2>6, <2>7, <2>8, <2>9, <2>10, <2>11, <2>12, <2>13, <2>14, WriteKeeps
<1> QED
  BY <1>3, <1>4

\* A PUT writes the whole object, and brings a product back that is gone.
LEMMA PutRowKeeps ==
  ASSUME IInv, NEW r \in Requests, PutRow(r)
  PROVE  IInv'
<1> USE DEF IInv
<1>1. PICK p : p = call[r].id
  OBVIOUS
<1>2. pc[r] = "write" /\ call[r].method = "PUT"
  BY DEF PutRow
<1>3. CASE ~SkuIsFree(instance[r].sku, p)
  BY <1>1, <1>2, <1>3, RefusedKeeps DEF PutRow, Results
<1>4. CASE SkuIsFree(instance[r].sku, p)
  <2>1. PICK new, old : new = instance[r] /\ old = IF p \in Existing THEN Replaced(r) ELSE NoImage
    OBVIOUS
  <2>2. rows' = [rows EXCEPT ![p] = new] /\ Accepted(r, old)
    BY <1>1, <1>4, <2>1 DEF PutRow
  <2>3. /\ p \in 1 .. lastId /\ p \in Ids /\ p # NoId /\ before[r] \in Image
        /\ new \in Row /\ new # NoRow
        /\ "image" \notin call[r].sent => new.image = before[r]
    BY <1>1, <1>2, <2>1, AtWork, Constants
  <2>4. "image" \notin call[r].sent => setting.put_keeps_image
    BY <1>2 DEF StagesInv, Carries
  <2>5. lastId \in Nat /\ lastId' \in 0 .. LastId /\ lastId <= lastId' /\ p \in 1 .. lastId'
    <3>1. lastId' = lastId
      BY <2>2, AcceptedFacts
    <3> QED
      BY <2>3, <3>1, Constants DEF TypeOK
  <2>6. /\ LocalsOK' /\ \A q \in Requests \ {r} : Same(q)
        /\ UNCHANGED <<setting, files, lastFile>>
        /\ Ended(r) \/ (Cleaning(r) /\ call[r].id = p)
        /\ pc'[r] = "cleanup" <=> old # NoImage
    BY <1>1, <2>2, AcceptedFacts DEF Ended, Cleaning
  <2>7. /\ \A q \in Existing \ {p} : rows[q].sku # new.sku
        /\ \A q \in Requests : call[q].id = p => instance[q].sku = new.sku
    BY <1>1, <1>4, <2>1, <2>3 DEF SkuIsFree, OneSkuPerId
  <2>8. setting.one_editor =>
          /\ \A q \in Requests \ {r} : call[q].id # p
          /\ p \in Existing /\ rows[p].image = before[r]
    BY <1>1, <1>2, <2>3 DEF EditorsInv, Existing
  <2>9. \/ new.image = NoImage
        \/ new.image \in Uploaded(r)
        \/ p \in Existing /\ new.image = rows[p].image
        \/ /\ p = call[r].id /\ new.image = before[r]
           /\ ~setting.one_editor /\ setting.put_keeps_image
    <3>1. CASE "image" \in call[r].sent
      BY <3>1, <1>2, <2>1 DEF Uploaded
    <3>2. CASE "image" \notin call[r].sent
      BY <3>2, <1>1, <2>3, <2>4, <2>8, SettingFields DEF TypeOK
    <3> QED
      BY <3>1, <3>2
  <2>10. Uploaded(r) \subseteq {new.image}
    BY <2>1 DEF Uploaded
  <2>11. setting.one_editor =>
          \/ rows[p].image = NoImage \/ rows[p].image = new.image
          \/ pc'[r] = "cleanup" /\ rows[p].image = before[r]
    BY <2>1, <2>6, <2>8 DEF Replaced
  <2>12. pc'[r] = "cleanup" => new.image # before[r]
    BY <2>1, <2>6 DEF Replaced
  <2> QED
    BY <1>2, <2>2, <2>3, <2>5, <2>6, <2>7, <2>8, <2>9, <2>10, <2>11, <2>12, WriteKeeps
<1> QED
  BY <1>3, <1>4

\* The row goes, and its file is left to the clean-up after the commit.
LEMMA DeleteRowKeeps ==
  ASSUME IInv, NEW r \in Requests, DeleteRow(r)
  PROVE  IInv'
<1> USE DEF IInv
<1>1. PICK p : p = call[r].id
  OBVIOUS
<1>2. /\ pc[r] = "write" /\ call[r].method = "DELETE"
      /\ rows' = [rows EXCEPT ![p] = NoRow] /\ Accepted(r, before[r])
  BY <1>1 DEF DeleteRow
<1>3. p \in 1 .. lastId /\ p \in Ids /\ p # NoId /\ before[r] \in Image
  BY <1>1, <1>2, AtWork
<1>4. lastId \in Nat /\ lastId' \in 0 .. LastId /\ lastId <= lastId' /\ p \in 1 .. lastId'
  <2>1. lastId' = lastId
    BY <1>2, AcceptedFacts
  <2> QED
    BY <1>3, <2>1, Constants DEF TypeOK
<1>5. /\ LocalsOK' /\ \A q \in Requests \ {r} : Same(q)
      /\ UNCHANGED <<setting, files, lastFile>>
      /\ Ended(r) \/ (Cleaning(r) /\ call[r].id = p)
      /\ pc'[r] = "cleanup" <=> before[r] # NoImage
  BY <1>1, <1>2, AcceptedFacts DEF Ended, Cleaning
<1>6. Uploaded(r) = {}
  BY <1>2 DEF StagesInv, Carries, Uploaded
<1>7. setting.one_editor =>
        /\ \A q \in Requests \ {r} : call[q].id # p
        /\ rows[p].image = NoImage \/ (pc'[r] = "cleanup" /\ rows[p].image = before[r])
  BY <1>1, <1>2, <1>3, <1>5 DEF EditorsInv
<1> QED
  BY <1>2, <1>3, <1>4, <1>5, <1>6, <1>7, WriteKeeps

-----------------------------------------------------------------------------
(* Theorems                                                                 *)

\* The empty catalog satisfies the invariant.
LEMMA IInvInit == Init => IInv
<1> SUFFICES ASSUME Init PROVE IInv
  OBVIOUS
<1> USE DEF Init
<1>1. Existing = {} /\ Referenced = {}
  BY DEF Existing, Referenced
<1>2. \A r \in Requests : Uploaded(r) = {}
  BY DEF Uploaded
<1>3. TypeOK
  BY NoCallFacts, Constants DEF TypeOK, Image, Results
<1>4. StagesInv
  BY <1>1 DEF StagesInv, Carries
<1>5. OneSkuPerId /\ EditorsInv
  BY NoCallFacts DEF OneSkuPerId, EditorsInv
<1>6. SkusDiffer /\ OwnersInv /\ UploadsInv /\ DrawnInv
  BY <1>1, <1>2 DEF SkusDiffer, OwnersInv, UploadsInv, DrawnInv
<1>7. CleanUpInv /\ ImagesExist /\ LeftOversInv
  BY <1>1 DEF CleanUpInv, ImagesExist, LeftOversInv
<1> QED
  BY <1>3, <1>4, <1>5, <1>6, <1>7 DEF IInv

\* Every step keeps it.
LEMMA IInvNext == IInv /\ [Next]_vars => IInv'
<1> SUFFICES ASSUME IInv, [Next]_vars PROVE IInv'
  OBVIOUS
<1>1. CASE UNCHANGED vars
  <2>1. UNCHANGED <<setting, rows, lastId, files, lastFile, pc, call, instance, before, answer>>
    BY <1>1 DEF vars, storage, table, locals
  <2>2. Existing' = Existing /\ Referenced' = Referenced
    BY <2>1 DEF Existing, Referenced
  <2>3. \A r \in Requests : Uploaded(r)' = Uploaded(r) /\ Carries(r)' = Carries(r)
    BY <2>1 DEF Uploaded, Carries
  <2>4. (TypeOK /\ StagesInv /\ OneSkuPerId /\ SkusDiffer)'
    BY <2>1, <2>2, <2>3 DEF IInv, TypeOK, StagesInv, OneSkuPerId, SkusDiffer
  <2>5. (OwnersInv /\ EditorsInv /\ UploadsInv /\ DrawnInv)'
    BY <2>1, <2>2, <2>3 DEF IInv, OwnersInv, EditorsInv, UploadsInv, DrawnInv
  <2>6. (CleanUpInv /\ ImagesExist /\ LeftOversInv)'
    BY <2>1, <2>2, <2>3 DEF IInv, CleanUpInv, ImagesExist, LeftOversInv
  <2> QED
    BY <2>4, <2>5, <2>6 DEF IInv
<1>2. ASSUME NEW r \in Requests, ReceivePost(r) \/ ReceiveUpdate(r) \/ ReceiveDelete(r)
      PROVE  IInv'
  BY <1>2, ReceivePostKeeps, ReceiveUpdateKeeps, ReceiveDeleteKeeps
<1>3. ASSUME NEW r \in Requests, StoreUpload(r)
      PROVE  IInv'
  BY <1>3, StoreUploadKeeps
<1>4. ASSUME NEW r \in Requests, InsertRow(r) \/ PatchRow(r) \/ PutRow(r) \/ DeleteRow(r)
      PROVE  IInv'
  BY <1>4, InsertRowKeeps, PatchRowKeeps, PutRowKeeps, DeleteRowKeeps
<1>5. ASSUME NEW r \in Requests, FailWrite(r)
      PROVE  IInv'
  BY <1>5, RefusedKeeps DEF FailWrite, Results
<1>6. ASSUME NEW r \in Requests, CleanUp(r) \/ Crash(r)
      PROVE  IInv'
  BY <1>6, CleanUpKeeps, CrashKeeps
<1> QED
  BY <1>1, <1>2, <1>3, <1>4, <1>5, <1>6 DEF Next

\* Product requests never get out of step with the table and the storage, under
\* every setting: the inductive invariant.
THEOREM IInvariant == Spec => []IInv
BY IInvInit, IInvNext, PTL DEF Spec

\* Every variable has its type in every reachable state: what is written to a row
\* is never a bare upload.
THEOREM TypesAreRight == Spec => []TypeOK
<1>1. IInv => TypeOK
  BY DEF IInv
<1> QED
  BY <1>1, IInvariant, PTL

\* All that requests and the table hold of a product id agrees on its SKU, also
\* after the product is deleted under them (ProductSerializer.validate_sku).
THEOREM AnIdStandsForOneSku == Spec => []OneSkuPerId
<1>1. IInv => OneSkuPerId
  BY DEF IInv
<1> QED
  BY <1>1, IInvariant, PTL

\* No product shows an image whose file django-cleanup or a refused save has
\* removed, unless a PUT may keep an image that another request replaces.
THEOREM ImagesAreThere == Spec => []ImagesExist
<1>1. IInv => ImagesExist
  BY DEF IInv
<1> QED
  BY <1>1, IInvariant, PTL

\* When all is quiet the storage holds the products' images and nothing else, if
\* clients do not change one product at a time and no worker dies.
THEOREM NothingIsLeftOver == Spec => []NothingLeftOver
<1>1. IInv => NothingLeftOver
  <2> SUFFICES ASSUME IInv, setting.one_editor, ~setting.crashes,
                      \A r \in Requests : pc[r] = "idle"
               PROVE  files = Referenced
    BY DEF NothingLeftOver, FilesAreRemoved, Quiet
  <2>1. Referenced \subseteq files
    BY DEF IInv, ImagesExist
  <2>2. \A r \in Requests : Uploaded(r) = {} /\ pc[r] # "cleanup"
    BY DEF Uploaded
  <2>3. files \subseteq Referenced
    BY <2>2 DEF IInv, LeftOversInv
  <2> QED
    BY <2>1, <2>3
<1> QED
  BY <1>1, IInvariant, PTL

\* Only an update changes a product that was there and stays there.
LEMMA OnlyUpdatesChangeARow ==
  ASSUME IInv, Next, NEW p \in Existing, rows'[p] \notin {NoRow, rows[p]}
  PROVE  \E r \in Requests :
            /\ pc[r] = "write" /\ pc'[r] # "write" /\ call[r].id = p
            /\ \/ call[r].method = "PUT" /\ rows'[p] = instance[r]
               \/ call[r].method = "PATCH" /\ rows'[p] = Patched(r, rows[p])
<1>1. p \in Ids /\ rows[p] # NoRow /\ rows[p] \in Row
  BY ExistingRows DEF IInv
<1>2. rows' # rows
  OBVIOUS
<1>3. PICK r \in Requests : InsertRow(r) \/ PatchRow(r) \/ PutRow(r) \/ DeleteRow(r)
  BY <1>2 DEF Next, ReceivePost, ReceiveUpdate, ReceiveDelete, Receive, StoreUpload,
              FailWrite, Refused, CleanUp, Crash, table
<1>4. CASE InsertRow(r)
  <2>1. rows' = [rows EXCEPT ![lastId + 1] = instance[r]]
    BY <1>2, <1>4 DEF InsertRow, Refused, table
  <2>2. p \in 1 .. lastId /\ lastId \in Nat
    BY Constants DEF IInv, StagesInv, TypeOK
  <2>3. rows'[p] = rows[p]
    BY <1>1, <2>1, <2>2 DEF IInv, TypeOK
  <2> QED
    BY <2>3
<1>5. CASE PatchRow(r)
  <2>1. call[r].id \in Existing
    BY <1>2, <1>5 DEF PatchRow, Refused, table
  <2>2. /\ rows' = [rows EXCEPT ![call[r].id] = Patched(r, rows[call[r].id])]
        /\ Accepted(r, Replaced(r)) /\ pc[r] = "write" /\ call[r].method = "PATCH"
    BY <1>5, <2>1 DEF PatchRow
  <2>3. call[r].id = p /\ rows'[p] = Patched(r, rows[p])
    BY <1>1, <2>2 DEF IInv, TypeOK
  <2>4. pc'[r] # "write"
    BY <2>2, AcceptedFacts DEF IInv, Ended, Cleaning
  <2> QED
    BY <2>2, <2>3, <2>4
<1>6. CASE PutRow(r)
  <2>1. PICK old : /\ rows' = [rows EXCEPT ![call[r].id] = instance[r]]
                   /\ Accepted(r, old) /\ pc[r] = "write" /\ call[r].method = "PUT"
    BY <1>2, <1>6 DEF PutRow, Refused, table
  <2>2. call[r].id = p /\ rows'[p] = instance[r]
    BY <1>1, <2>1 DEF IInv, TypeOK
  <2>3. pc'[r] # "write"
    BY <2>1, AcceptedFacts DEF IInv, Ended, Cleaning
  <2> QED
    BY <2>1, <2>2, <2>3
<1>7. CASE DeleteRow(r)
  BY <1>1, <1>7 DEF DeleteRow, IInv, TypeOK
<1> QED
  BY <1>3, <1>4, <1>5, <1>6, <1>7

\* A PATCH leaves the fields alone that it was not given, whatever was written to
\* the product since it was read (ProductSerializer.update: save(update_fields)).
THEOREM PatchesStayNarrow == Spec => PatchWritesOnlyWhatWasSent
<1> DEFINE Narrow == \A p \in Existing : rows'[p] \notin {NoRow, rows[p]} =>
        \E r \in Requests :
            /\ pc[r] = "write" /\ pc'[r] # "write" /\ call[r].id = p
            /\ \/ call[r].method = "PUT"
               \/ /\ rows'[p].title # rows[p].title => "title" \in call[r].sent
                  /\ rows'[p].image # rows[p].image => "image" \in call[r].sent
<1>1. IInv /\ [Next]_vars => [Narrow]_vars
  <2> SUFFICES ASSUME IInv, Next, NEW p \in Existing, rows'[p] \notin {NoRow, rows[p]}
               PROVE  \E r \in Requests :
                        /\ pc[r] = "write" /\ pc'[r] # "write" /\ call[r].id = p
                        /\ \/ call[r].method = "PUT"
                           \/ /\ rows'[p].title # rows[p].title => "title" \in call[r].sent
                              /\ rows'[p].image # rows[p].image => "image" \in call[r].sent
    OBVIOUS
  <2>1. PICK r \in Requests :
          /\ pc[r] = "write" /\ pc'[r] # "write" /\ call[r].id = p
          /\ \/ call[r].method = "PUT" /\ rows'[p] = instance[r]
             \/ call[r].method = "PATCH" /\ rows'[p] = Patched(r, rows[p])
    BY OnlyUpdatesChangeARow
  <2>2. CASE rows'[p] = Patched(r, rows[p])
    <3>1. /\ "title" \notin call[r].sent => rows'[p].title = rows[p].title
          /\ "image" \notin call[r].sent => rows'[p].image = rows[p].image
      BY <2>2 DEF Patched
    <3> QED
      BY <2>1, <3>1
  <2> QED
    BY <2>1, <2>2
<1> QED
  BY <1>1, IInvariant, PTL DEF Spec, PatchWritesOnlyWhatWasSent

\* A product keeps its SKU as long as it is there, and shares it with no other.
THEOREM SkusStay == Spec => SkuNeverChanges
<1> DEFINE Keeps ==
        /\ \A p \in Existing : rows'[p] # NoRow => rows'[p].sku = rows[p].sku
        /\ \A p, q \in Existing' : p # q => rows'[p].sku # rows'[q].sku
<1>1. IInv /\ IInv' /\ [Next]_vars => [Keeps]_vars
  <2> SUFFICES ASSUME IInv, IInv', Next PROVE Keeps
    OBVIOUS
  <2>1. ASSUME NEW p \in Existing, rows'[p] # NoRow
        PROVE  rows'[p].sku = rows[p].sku
    <3>1. CASE rows'[p] = rows[p]
      BY <3>1
    <3>2. CASE rows'[p] # rows[p]
      <4>1. PICK r \in Requests :
                /\ pc[r] = "write" /\ call[r].id = p
                /\ rows'[p] = instance[r] \/ rows'[p] = Patched(r, rows[p])
        BY <2>1, <3>2, OnlyUpdatesChangeARow
      <4>2. rows[p].sku = instance[r].sku
        BY <4>1, ExistingRows, Constants DEF IInv, OneSkuPerId
      <4> QED
        BY <4>1, <4>2 DEF Patched
    <3> QED
      BY <3>1, <3>2
  <2>2. \A p, q \in Existing' : p # q => rows'[p].sku # rows'[q].sku
    BY DEF IInv, SkusDiffer
  <2> QED
    BY <2>1, <2>2
<1> QED
  BY <1>1, IInvariant, PTL DEF Spec, SkuNeverChanges

=============================================================================
