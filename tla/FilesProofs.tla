---------------------------- MODULE FilesProofs ----------------------------
(***************************************************************************)
(* Proofs about documents and the backups of them, for any number of       *)
(* documents, transactions, requests, server instances and backups; and    *)
(* about the calls and lists of the REST interface, for any keys, bodies,  *)
(* rows and page limits; about exchange rates, revaluations and transfers, *)
(* for any rates, accounts, days, amounts and legs; and about imports, for *)
(* any files, rows, entries and pages.                                     *)
(***************************************************************************)
EXTENDS Backups, RestApi, Exchange, Imports, RequestsProofs, FiniteSetTheorems, SequenceTheorems

(* What an upload is stored as is an allowed type, and the type of its     *)
(* bytes but for CSV and unknown text.                                     *)
TrueType(mime, u) ==
    \/ mime = u.found
    \/ mime = "csv" /\ u.declared = "csv"
    \/ mime = "plain" /\ u.found = "unknown"

LEMMA ValidateTells ==
    ASSUME NEW u, Validate(u) # Rejected PROVE TrueType(Validate(u), u)
    BY DEF Validate, TrueType, Rejected

LEMMA ValidateAllows ==
    ASSUME NEW u, u.declared \in ApiMime, Validate(u) # Rejected
    PROVE  Validate(u) \in AllowedMime
    BY DocumentsAssumption DEF Validate, Rejected

(* A document's row, and what a request holds: the file of an upload is    *)
(* there when its row is written, unless a REST removal takes it.          *)
PaperRow(d) ==
    \/ paper[d] = NoPaper
    \/ /\ paper[d] = [txn |-> paper[d].txn, mime |-> paper[d].mime, sent |-> paper[d].sent]
       /\ paper[d].txn \in liveTxn \cup {Inbox}
       /\ paper[d].mime \in AllowedMime
       /\ TrueType(paper[d].mime, paper[d].sent)

PapersOK ==
    /\ DOMAIN paper = Paper
    /\ blob \subseteq Paper /\ liveTxn \subseteq PaperTxn
    /\ ocrTask \in [Paper -> 0..MaxOcr]
    /\ ocr \in [Paper -> {"none", "done", "failed"}]
    /\ \A d \in Paper : PaperRow(d)
    /\ FiledHasFile
    /\ OcrHasDocument

PaperHeld(r) ==
    /\ pc[r] \in {"file", "row"} =>
          /\ loc[r].on \in Paper
          /\ loc[r].txn \in PaperTxn \cup {Inbox}
          /\ Validate(loc[r].sent) \in AllowedMime
    /\ pc[r] = "row" => loc[r].on \in blob \cup removal
    /\ pc[r] = "bind" => loc[r].on \in Paper /\ loc[r].txn \in PaperTxn
    /\ pc[r] \in {"remove_file", "remove_row"} => loc[r].on \in Paper \cap removal

DocumentsInv == RequestsOK /\ PapersOK /\ \A r \in Req : PaperHeld(r)

(* The requests keep what they hold if files go by REST removals only. *)
LEMMA HeldStays ==
    ASSUME DocumentsInv, NEW r \in Req, Keeps(r), blob \ removal' \subseteq blob',
           removal \subseteq removal', PaperHeld(r)'
    PROVE  \A q \in Req : PaperHeld(q)'
    BY DEF DocumentsInv, PaperHeld, Keeps

LEMMA HeldStaysToo ==
    ASSUME DocumentsInv, NEW r \in Req, StaysOrEnds(r), blob \ removal' \subseteq blob',
           removal \subseteq removal'
    PROVE  \A q \in Req : PaperHeld(q)'
    BY DEF DocumentsInv, PaperHeld, StaysOrEnds, Keeps

LEMMA PapersFrame ==
    ASSUME PapersOK, UNCHANGED docVars PROVE PapersOK'
    BY DEF PapersOK, PaperRow, docVars, FiledHasFile, OcrHasDocument, Filed

LEMMA SendingOK ==
    ASSUME DocumentsInv, NEW r \in Req, NEW d \in Paper, NEW t \in PaperTxn \cup {Inbox},
           NEW u, NEW b, Validate(u) \in AllowedMime, Sending(r, d, t, u, b)
    PROVE  DocumentsInv'
<1>1. Keeps(r) /\ pc'[r] = "file" /\ loc'[r] = [on |-> d, txn |-> t, sent |-> u, ocr |-> b]
    BY BeginKeeps DEF Sending, DocumentsInv
<1>2. UNCHANGED docVars BY DEF Sending
<1>3. PaperHeld(r)' BY <1>1 DEF PaperHeld
<1>4. \A q \in Req : PaperHeld(q)' BY <1>1, <1>2, <1>3, HeldStays DEF docVars
<1> QED BY <1>1, <1>2, <1>4, PapersFrame DEF DocumentsInv, Keeps

LEMMA UploadsBeginOK ==
    ASSUME DocumentsInv, NEW r \in Req, NEW d \in Paper, NEW t \in PaperTxn, NEW u,
           UploadBegin(r, d, t, u) \/ ApiDocumentCreate(r, d, t, u)
              \/ SaveInlineDocument(r, d, t, u)
    PROVE  DocumentsInv'
<1>1. CASE UploadBegin(r, d, t, u) BY <1>1, SendingOK DEF UploadBegin
<1>2. CASE ApiDocumentCreate(r, d, t, u)
    BY <1>2, SendingOK, ValidateAllows DEF ApiDocumentCreate
<1>3. CASE SaveInlineDocument(r, d, t, u) BY <1>3, SendingOK DEF SaveInlineDocument
<1> QED BY <1>1, <1>2, <1>3

LEMMA UploadFileOK ==
    ASSUME DocumentsInv, NEW r \in Req, UploadFile(r) PROVE DocumentsInv'
<1>1. Keeps(r) /\ pc'[r] = "row" /\ loc'[r] = loc[r]
    BY GotoKeeps DEF UploadFile, DocumentsInv
<1>2. pc[r] = "file" /\ loc[r].on \in Paper /\ PaperHeld(r)
    BY DEF UploadFile, DocumentsInv, PaperHeld
<1>3. blob' = blob \cup {loc[r].on} /\ UNCHANGED <<paper, liveTxn, ocrTask, ocr, removal>>
    BY DEF UploadFile
<1>4. PaperHeld(r)' BY <1>1, <1>2, <1>3 DEF PaperHeld
<1>5. \A q \in Req : PaperHeld(q)' BY <1>1, <1>3, <1>4, HeldStays
<1>6. PapersOK'
    BY <1>2, <1>3 DEF DocumentsInv, PapersOK, PaperRow, FiledHasFile, OcrHasDocument, Filed
<1> QED BY <1>1, <1>5, <1>6 DEF DocumentsInv, Keeps

(* The row comes when the file is there. *)
LEMMA UploadRowOK ==
    ASSUME DocumentsInv, NEW r \in Req, UploadRow(r) PROVE DocumentsInv'
<1> DEFINE d == loc[r].on
           t == loc[r].txn
           mime == Validate(loc[r].sent)
           new == [txn |-> t, mime |-> mime, sent |-> loc[r].sent]
<1>1. StaysOrEnds(r) /\ RequestsOK'
    BY EndKeeps DEF UploadRow, DocumentsInv, StaysOrEnds, Keeps
<1>2. UNCHANGED <<blob, liveTxn, ocr, removal>>
    BY DEF UploadRow
<1>3. \A q \in Req : PaperHeld(q)' BY <1>1, <1>2, HeldStaysToo
<1>4. /\ d \in Paper /\ d \in blob \cup removal /\ mime \in AllowedMime
      /\ TrueType(mime, loc[r].sent)
    BY ValidateTells, DocumentsAssumption DEF UploadRow, DocumentsInv, PaperHeld, Rejected
<1>5. CASE t \in liveTxn \cup {Inbox}
  <2>1. paper' = [paper EXCEPT ![d] = new] BY <1>5 DEF UploadRow
  <2>2. ocrTask' \in [Paper -> 0..MaxOcr]
      BY <1>4, <1>5, DocumentsAssumption DEF UploadRow, DocumentsInv, PapersOK
  <2>3. paper'[d] = new /\ DOMAIN paper' = Paper /\ \A e \in Paper \ {d} : paper'[e] = paper[e]
      BY <1>4, <2>1 DEF DocumentsInv, PapersOK
  <2>4. new # NoPaper
      BY <1>5, DocumentsAssumption DEF NoPaper, Inbox, DocumentsInv, PapersOK
  <2>5. \A e \in Paper : PaperRow(e)'
      BY <1>2, <1>4, <1>5, <2>3 DEF DocumentsInv, PapersOK, PaperRow
  <2>6. FiledHasFile'
      BY <1>2, <1>4, <2>3 DEF DocumentsInv, PapersOK, FiledHasFile, Filed
  <2>7. OcrHasDocument'
      BY <1>2, <1>4, <2>3, <2>4 DEF DocumentsInv, PapersOK, OcrHasDocument, Filed
  <2>8. PapersOK'
      BY <1>2, <2>2, <2>3, <2>5, <2>6, <2>7 DEF DocumentsInv, PapersOK
  <2> QED BY <1>1, <1>3, <2>8 DEF DocumentsInv
<1>6. CASE t \notin liveTxn \cup {Inbox}
  <2>1. UNCHANGED docVars BY <1>2, <1>6 DEF UploadRow, docVars
  <2> QED BY <1>1, <1>3, <2>1, PapersFrame DEF DocumentsInv
<1> QED BY <1>5, <1>6

LEMMA BindReadOK ==
    ASSUME DocumentsInv, NEW r \in Req, NEW d \in Paper, NEW t \in PaperTxn, BindRead(r, d, t)
    PROVE  DocumentsInv'
<1>1. Keeps(r) /\ pc'[r] = "bind" /\ loc'[r] = [on |-> d, txn |-> t]
    BY BeginKeeps DEF BindRead, DocumentsInv
<1>2. UNCHANGED docVars BY DEF BindRead
<1>3. PaperHeld(r)' BY <1>1 DEF PaperHeld
<1>4. \A q \in Req : PaperHeld(q)' BY <1>1, <1>2, <1>3, HeldStays DEF docVars
<1> QED BY <1>1, <1>2, <1>4, PapersFrame DEF DocumentsInv, Keeps

(* The transaction is looked at again by the foreign key. *)
LEMMA BindWriteOK ==
    ASSUME DocumentsInv, NEW r \in Req, BindWrite(r) PROVE DocumentsInv'
<1> DEFINE d == loc[r].on
<1>1. StaysOrEnds(r) /\ RequestsOK'
    BY EndKeeps DEF BindWrite, DocumentsInv, StaysOrEnds, Keeps
<1>2. UNCHANGED <<blob, liveTxn, ocrTask, ocr, removal>> /\ d \in Paper
    BY DEF BindWrite, DocumentsInv, PaperHeld
<1>3. \A q \in Req : PaperHeld(q)' BY <1>1, <1>2, HeldStaysToo
<1>4. CASE Filed(d) /\ loc[r].txn \in liveTxn
  <2>1. paper' = [paper EXCEPT ![d].txn = loc[r].txn] BY <1>4 DEF BindWrite
  <2>2. PaperRow(d) /\ paper[d] # NoPaper BY <1>2, <1>4 DEF Filed, DocumentsInv, PapersOK
  <2>3. paper'[d] = [txn |-> loc[r].txn, mime |-> paper[d].mime, sent |-> paper[d].sent]
      BY <1>2, <2>1, <2>2 DEF PaperRow, DocumentsInv, PapersOK
  <2>4. DOMAIN paper' = Paper /\ \A e \in Paper \ {d} : paper'[e] = paper[e]
      BY <2>1 DEF DocumentsInv, PapersOK
  <2>5. paper'[d] # NoPaper
      BY <1>4, <2>3, DocumentsAssumption DEF NoPaper, DocumentsInv, PapersOK
  <2>6. \A e \in Paper : PaperRow(e)'
      BY <1>2, <1>4, <2>2, <2>3, <2>4 DEF DocumentsInv, PapersOK, PaperRow
  <2>7. FiledHasFile' /\ OcrHasDocument'
      BY <1>2, <1>4, <2>4, <2>5
      DEF DocumentsInv, PapersOK, FiledHasFile, OcrHasDocument, Filed
  <2>8. PapersOK' BY <1>2, <2>4, <2>6, <2>7 DEF DocumentsInv, PapersOK
  <2> QED BY <1>1, <1>3, <2>8 DEF DocumentsInv
<1>5. CASE ~(Filed(d) /\ loc[r].txn \in liveTxn)
  <2>1. UNCHANGED docVars BY <1>2, <1>5 DEF BindWrite, docVars
  <2> QED BY <1>1, <1>3, <2>1, PapersFrame DEF DocumentsInv
<1> QED BY <1>4, <1>5

(* Rows go with their OCR results, and with the transactions in gone. *)
LEMMA UnfileOK ==
    ASSUME PapersOK, NEW gone, Unfile(gone), UNCHANGED <<blob, ocrTask>>,
           removal \subseteq removal', liveTxn' \subseteq liveTxn,
           \A d \in Paper \ gone : Filed(d) => paper[d].txn \in liveTxn' \cup {Inbox}
    PROVE  PapersOK'
<1>1. \A d \in Paper : IF d \in gone THEN paper'[d] = NoPaper /\ ocr'[d] = "none"
                       ELSE paper'[d] = paper[d] /\ ocr'[d] = ocr[d]
    BY DEF Unfile
<1>2. DOMAIN paper' = Paper /\ ocr' \in [Paper -> {"none", "done", "failed"}]
    BY DEF Unfile, PapersOK
<1>3. \A d \in Paper : PaperRow(d)'
    BY <1>1 DEF PapersOK, PaperRow, Filed
<1>4. FiledHasFile' BY <1>1 DEF PapersOK, FiledHasFile, Filed
<1>5. OcrHasDocument' BY <1>1 DEF PapersOK, OcrHasDocument, Filed
<1> QED BY <1>2, <1>3, <1>4, <1>5 DEF PapersOK

LEMMA DeleteOK ==
    ASSUME DocumentsInv, NEW r \in Req, NEW d \in Paper, Delete(r, d) PROVE DocumentsInv'
<1>1. StaysOrEnds(r) /\ RequestsOK'
    BY ServeKeeps DEF Delete, DocumentsInv, StaysOrEnds, Keeps
<1>2. Unfile({d}) /\ UNCHANGED <<blob, liveTxn, ocrTask, removal>> BY DEF Delete
<1>3. \A q \in Req : PaperHeld(q)' BY <1>1, <1>2, HeldStaysToo
<1>4. PapersOK' BY <1>2, UnfileOK DEF DocumentsInv, PapersOK, PaperRow, Filed
<1> QED BY <1>1, <1>3, <1>4 DEF DocumentsInv

LEMMA RemoveReadOK ==
    ASSUME DocumentsInv, NEW r \in Req, NEW d \in Paper, RemoveRead(r, d) PROVE DocumentsInv'
<1>1. Keeps(r) /\ pc'[r] = "remove_file" /\ loc'[r] = [on |-> d]
    BY BeginKeeps DEF RemoveRead, DocumentsInv
<1>2. removal' = removal \cup {d} /\ UNCHANGED <<paper, blob, liveTxn, ocrTask, ocr>>
    BY DEF RemoveRead
<1>3. PaperHeld(r)' BY <1>1, <1>2 DEF PaperHeld
<1>4. \A q \in Req : PaperHeld(q)' BY <1>1, <1>2, <1>3, HeldStays
<1>5. PapersOK'
    BY <1>2 DEF DocumentsInv, PapersOK, PaperRow, FiledHasFile, OcrHasDocument, Filed
<1> QED BY <1>1, <1>4, <1>5 DEF DocumentsInv, Keeps

LEMMA RemoveFileOK ==
    ASSUME DocumentsInv, NEW r \in Req, RemoveFile(r) PROVE DocumentsInv'
<1>1. Keeps(r) /\ pc'[r] = "remove_row" /\ loc'[r] = loc[r]
    BY GotoKeeps DEF RemoveFile, DocumentsInv
<1>2. /\ loc[r].on \in Paper \cap removal /\ blob' = blob \ {loc[r].on}
      /\ UNCHANGED <<paper, liveTxn, ocrTask, ocr, removal>>
    BY DEF RemoveFile, DocumentsInv, PaperHeld
<1>3. PaperHeld(r)' BY <1>1, <1>2 DEF PaperHeld
<1>4. \A q \in Req : PaperHeld(q)' BY <1>1, <1>2, <1>3, HeldStays
<1>5. PapersOK'
    BY <1>2 DEF DocumentsInv, PapersOK, PaperRow, FiledHasFile, OcrHasDocument, Filed
<1> QED BY <1>1, <1>4, <1>5 DEF DocumentsInv, Keeps

LEMMA RemoveRowOK ==
    ASSUME DocumentsInv, NEW r \in Req, RemoveRow(r) PROVE DocumentsInv'
<1>1. StaysOrEnds(r) /\ RequestsOK'
    BY EndKeeps DEF RemoveRow, DocumentsInv, StaysOrEnds, Keeps
<1>2. Unfile({loc[r].on}) /\ UNCHANGED <<blob, liveTxn, ocrTask, removal>> BY DEF RemoveRow
<1>3. \A q \in Req : PaperHeld(q)' BY <1>1, <1>2, HeldStaysToo
<1>4. PapersOK' BY <1>2, UnfileOK DEF DocumentsInv, PapersOK, PaperRow, Filed
<1> QED BY <1>1, <1>3, <1>4 DEF DocumentsInv

LEMMA OcrRunOK ==
    ASSUME DocumentsInv, NEW r \in Req, NEW d \in Paper, OcrRun(r, d) PROVE DocumentsInv'
<1>1. StaysOrEnds(r) /\ RequestsOK'
    BY ServeKeeps DEF OcrRun, DocumentsInv, StaysOrEnds, Keeps
<1>2. UNCHANGED <<paper, blob, liveTxn, ocr, removal>> BY DEF OcrRun
<1>3. ocrTask' \in [Paper -> 0..MaxOcr]
    BY DocumentsAssumption DEF OcrRun, DocumentsInv, PapersOK
<1>4. \A q \in Req : PaperHeld(q)' BY <1>1, <1>2, HeldStaysToo
<1>5. PapersOK'
    BY <1>2, <1>3 DEF DocumentsInv, PapersOK, PaperRow, FiledHasFile, OcrHasDocument, Filed
<1> QED BY <1>1, <1>4, <1>5 DEF DocumentsInv

LEMMA DocumentsCutOffOK ==
    ASSUME DocumentsInv, NEW r \in Req, DocumentsCutOff(r) PROVE DocumentsInv'
<1>1. StaysOrEnds(r) /\ RequestsOK' /\ UNCHANGED docVars
    BY EndKeeps DEF DocumentsCutOff, CutOff, DocumentsInv, StaysOrEnds, Keeps
<1>2. \A q \in Req : PaperHeld(q)' BY <1>1, HeldStaysToo DEF docVars
<1> QED BY <1>1, <1>2, PapersFrame DEF DocumentsInv

(* Steps of no request leave all of them alone. *)
LEMMA RequestsStay ==
    ASSUME DocumentsInv, UNCHANGED <<reqVars, blob, removal>>
    PROVE  RequestsOK' /\ \A q \in Req : PaperHeld(q)'
    BY DEF DocumentsInv, reqVars, RequestsOK, Busy, PaperHeld

(* The foreign key drops a result that comes after the document went. *)
LEMMA OcrFinishOK ==
    ASSUME DocumentsInv, NEW d \in Paper, NEW result \in {"done", "failed"},
           OcrFinish(d, result)
    PROVE  DocumentsInv'
<1>1. /\ UNCHANGED <<reqVars, paper, blob, liveTxn, removal>>
      /\ ocrTask' = [ocrTask EXCEPT ![d] = @ - 1] /\ ocrTask[d] > 0
      /\ ocr' = IF Filed(d) THEN [ocr EXCEPT ![d] = result] ELSE ocr
    BY DEF OcrFinish
<1>2. ocrTask' \in [Paper -> 0..MaxOcr]
    BY <1>1, DocumentsAssumption DEF DocumentsInv, PapersOK
<1>3. ocr' \in [Paper -> {"none", "done", "failed"}] /\ OcrHasDocument'
    BY <1>1 DEF DocumentsInv, PapersOK, OcrHasDocument, Filed
<1>4. PapersOK'
    BY <1>1, <1>2, <1>3 DEF DocumentsInv, PapersOK, PaperRow, FiledHasFile, Filed
<1> QED BY <1>1, <1>4, RequestsStay DEF DocumentsInv

LEMMA OcrTasksLostOK ==
    ASSUME DocumentsInv, OcrTasksLost PROVE DocumentsInv'
<1>1. /\ UNCHANGED <<reqVars, paper, blob, liveTxn, ocr, removal>>
      /\ ocrTask' \in [Paper -> 0..MaxOcr]
    BY DocumentsAssumption DEF OcrTasksLost
<1>2. PapersOK'
    BY <1>1 DEF DocumentsInv, PapersOK, PaperRow, FiledHasFile, OcrHasDocument, Filed
<1> QED BY <1>1, <1>2, RequestsStay DEF DocumentsInv

LEMMA DeleteTransactionOK ==
    ASSUME DocumentsInv, NEW t, DeleteTransaction(t) PROVE DocumentsInv'
<1> DEFINE gone == {d \in Paper : paper[d].txn = t}
<1>1. /\ UNCHANGED <<reqVars, blob, ocrTask, removal>> /\ liveTxn' = liveTxn \ {t}
      /\ Unfile(gone)
    BY DEF DeleteTransaction
<1>2. \A d \in Paper \ gone : Filed(d) => paper[d].txn \in liveTxn' \cup {Inbox}
    BY <1>1 DEF DocumentsInv, PapersOK, PaperRow, Filed
<1> HIDE DEF gone
<1>3. PapersOK' BY <1>1, <1>2, UnfileOK DEF DocumentsInv
<1> QED BY <1>1, <1>3, RequestsStay DEF DocumentsInv

LEMMA DocumentsNextOK ==
    ASSUME DocumentsInv, DocumentsNext PROVE DocumentsInv'
<1>1. ASSUME NEW r \in Req, DocumentStep(r) PROVE DocumentsInv'
  <2>1. ASSUME NEW d \in Paper, NEW u \in Upload, UploadUnbound(r, d, u) PROVE DocumentsInv'
      BY <2>1, SendingOK DEF UploadUnbound
  <2> QED BY <1>1, <2>1, UploadFileOK, UploadRowOK, BindWriteOK, RemoveFileOK, RemoveRowOK,
             UploadsBeginOK, BindReadOK, DeleteOK, RemoveReadOK, OcrRunOK
          DEF DocumentStep
<1> QED BY <1>1, DocumentsCutOffOK, OcrFinishOK, OcrTasksLostOK, DeleteTransactionOK
        DEF DocumentsNext

LEMMA DocumentsInitOK ==
    ASSUME InitRequests, InitDocuments PROVE DocumentsInv
<1>1. \A r \in Req : PaperHeld(r) BY DEF InitRequests, PaperHeld
<1>2. PapersOK
    BY DocumentsAssumption
    DEF InitDocuments, PapersOK, PaperRow, FiledHasFile, OcrHasDocument, Filed
<1> QED BY <1>1, <1>2, InitRequestsOK DEF DocumentsInv

(* The inductive invariant of documents. *)
THEOREM DocumentsInvariant == DocumentsSpec => []DocumentsInv
<1>1. DocumentsInv /\ [DocumentsNext]_<<reqVars, docVars>> => DocumentsInv'
    BY DocumentsNextOK, PapersFrame, RequestsStay DEF DocumentsInv, docVars
<1> QED BY <1>1, DocumentsInitOK, PTL DEF DocumentsSpec

(* A document, its file and its text go together (documents.rs,            *)
(* api/documents.rs, document_ocr.rs): whatever is cut off, deleted or     *)
(* bound meanwhile, a listed document has its file unless a REST removal   *)
(* of it has begun, is served as what it is, and belongs to a transaction  *)
(* that exists.                                                            *)
THEOREM DocumentsAreSound == DocumentsSpec => []DocumentsSound
<1>1. DocumentsInv => DocumentsSound
  <2> SUFFICES ASSUME DocumentsInv PROVE DocumentsSound OBVIOUS
  <2>1. DocumentsTypeOK
      BY DEF DocumentsInv, PapersOK, PaperRow, DocumentsTypeOK, Filed
  <2>2. ServedAsItIs
      BY DEF DocumentsInv, PapersOK, PaperRow, ServedAsItIs, Filed, TrueType
  <2> QED BY <2>1, <2>2 DEF DocumentsSound, DocumentsInv, PapersOK
<1> QED BY <1>1, DocumentsInvariant, PTL

-----------------------------------------------------------------------------
(* Directories: finite, with one file for each time. *)
Directory(files, now) ==
    /\ IsFiniteSet(DOMAIN files) /\ now \in Nat
    /\ \A f \in DOMAIN files : files[f] \in 1..now
    /\ \A f, g \in DOMAIN files : files[f] = files[g] => f = g

LEMMA NewerFinite ==
    ASSUME NEW files, NEW now, Directory(files, now), NEW f
    PROVE  /\ IsFiniteSet(Newer(files, f)) /\ Cardinality(Newer(files, f)) \in Nat
           /\ Newer(files, f) \subseteq DOMAIN files
<1>1. Newer(files, f) \in SUBSET DOMAIN files BY DEF Newer
<1> QED BY <1>1, FS_Subset, FS_CardinalityType DEF Directory

(* A larger set of files has more of them. *)
LEMMA MoreFiles ==
    ASSUME NEW S, NEW T, IsFiniteSet(T), S \subseteq T, NEW n \in Nat, Cardinality(S) >= n
    PROVE  Cardinality(T) >= n
    BY FS_Subset, FS_CardinalityType

(* Files that are left keep n newer ones when each that goes has n newer   *)
(* ones that stay.                                                         *)
LEMMA StillNewer ==
    ASSUME NEW files, NEW now, Directory(files, now), NEW gone, NEW n \in Nat,
           \A g \in gone \cap DOMAIN files :
              Cardinality({h \in DOMAIN files \ gone : files[h] > files[g]}) >= n,
           NEW f \in DOMAIN files \ gone, Cardinality(Newer(files, f)) >= n
    PROVE  Cardinality(Newer(Without(files, gone), f)) >= n
<1> DEFINE left == Without(files, gone)
           N == Newer(left, f)
<1>1. N = {h \in DOMAIN files \ gone : files[h] > files[f]}
    BY DEF Newer, Without
<1>2. IsFiniteSet(N)
    BY <1>1, FS_Subset DEF Directory
<1>3. CASE \E g \in gone \cap DOMAIN files : files[g] > files[f]
  <2>1. PICK g \in gone \cap DOMAIN files : files[g] > files[f] BY <1>3
  <2>2. {h \in DOMAIN files \ gone : files[h] > files[g]} \subseteq N
      BY <1>1, <2>1 DEF Directory
  <2>3. Cardinality({h \in DOMAIN files \ gone : files[h] > files[g]}) >= n
      BY <2>1
  <2>4. Cardinality(N) >= n
      <3> HIDE DEF N
      <3> QED BY <1>2, <2>2, <2>3, MoreFiles
  <2> QED BY <2>4
<1>4. CASE ~\E g \in gone \cap DOMAIN files : files[g] > files[f]
  <2>1. N = Newer(files, f) BY <1>1, <1>4 DEF Newer
  <2> QED BY <2>1
<1> QED BY <1>3, <1>4

(* Writing a file makes it the newest; nothing gets less newer ones. *)
LEMMA WriteNewest ==
    ASSUME NEW files, NEW now, Directory(files, now), NEW f
    PROVE  /\ Directory(With(files, f, now + 1), now + 1)
           /\ DOMAIN With(files, f, now + 1) = DOMAIN files \cup {f}
           /\ \A n \in Nat : \A g \in DOMAIN files \ {f} :
                 Cardinality(Newer(files, g)) >= n
                    => Cardinality(Newer(With(files, f, now + 1), g)) >= n
<1> DEFINE new == With(files, f, now + 1)
<1>1. /\ DOMAIN new = DOMAIN files \cup {f}
      /\ new[f] = now + 1 /\ \A g \in DOMAIN files \ {f} : new[g] = files[g]
    BY DEF With
<1>2. IsFiniteSet(DOMAIN new)
    BY <1>1, FS_AddElement DEF Directory
<1> HIDE DEF new
<1>3. Directory(new, now + 1)
    BY <1>1, <1>2 DEF Directory
<1>4. ASSUME NEW n \in Nat, NEW g \in DOMAIN files \ {f}, Cardinality(Newer(files, g)) >= n
      PROVE  Cardinality(Newer(new, g)) >= n
  <2>1. Newer(files, g) \subseteq Newer(new, g)
      BY <1>1, <1>4 DEF Newer, Directory
  <2> QED BY <1>3, <1>4, <2>1, NewerFinite, MoreFiles
<1> QED BY <1>1, <1>3, <1>4 DEF new

LEMMA DirectoryLess ==
    ASSUME NEW files, NEW now, Directory(files, now), NEW gone
    PROVE  /\ Directory(Without(files, gone), now)
           /\ DOMAIN Without(files, gone) = DOMAIN files \ gone
<1>1. IsFiniteSet(DOMAIN files \ gone) BY FS_Subset DEF Directory
<1> QED BY <1>1 DEF Directory, Without

-----------------------------------------------------------------------------
(* Backups.  What a worker holds: the rows it dumped have their files in   *)
(* the store, then in its tarball; the file it writes is its own or was    *)
(* opened by another; the file it is about to record is there, whole, or   *)
(* was pruned; the files on a list have enough newer ones, as long as none *)
(* was written meanwhile.                                                  *)
Enough(files, f) == Cardinality(Newer(files, f)) >= LeastKept

ListOK(old) ==
    /\ DOMAIN old \subseteq DOMAIN inside
    /\ \A f \in DOMAIN old : old[f] \in 1..clock
    /\ overtaken = {} => \A f \in DOMAIN old \cap DOMAIN dir : Enough(dir, f)

WorkerHolds(w) ==
    /\ bpc[w] # "wait" => next[w] <= time
    /\ bpc[w] = "pack" => bdata[w].rows \ removal \subseteq blob
    /\ bpc[w] \in {"persist", "write"} /\ backend = "fs" =>
          bdata[w].rows \ removal \subseteq bdata[w].files
    /\ bpc[w] = "write" =>
          /\ Tarball(bdata[w].tick) \in DOMAIN inside
          /\ Tarball(bdata[w].tick) \in DOMAIN dir \cup pruned
          /\ Tarball(bdata[w].tick) \in DOMAIN dir =>
                \/ dir[Tarball(bdata[w].tick)] = bdata[w].opened
                \/ Tarball(bdata[w].tick) \in rewritten
    /\ bpc[w] \in {"insert", "mark"} =>
          WholeFile(Tarball(bdata[w].tick)) \/ Tarball(bdata[w].tick) \in pruned
    /\ bpc[w] \in Pruning => ListOK(bdata[w].old)

(* Two that write the same file: the second has opened it again. *)
WritersApart ==
    \A w, q \in Instance :
        w # q /\ bpc[w] = "write" /\ bpc[q] = "write" /\ bdata[w].tick = bdata[q].tick
           => Tarball(bdata[w].tick) \in rewritten

ManualHolds(n) == ListOK(manual[n].old)

ArchiveOK ==
    /\ time \in 0..MaxTick /\ next \in [Instance -> 1..MaxTick + 1]
    /\ DOMAIN bpc = Instance /\ DOMAIN bdata = Instance /\ DOMAIN manual = 1..MaxManual
    /\ Directory(dir, clock) /\ DOMAIN dir \cup pruned \subseteq DOMAIN inside
    /\ WritersApart
    /\ RestoreFindsDocuments
    /\ SuccessHasTarball

HoldersOK ==
    /\ \A w \in Instance : WorkerHolds(w)
    /\ \A n \in 1..MaxManual : ManualHolds(n)

BackupsInv == DocumentsInv /\ ArchiveOK /\ HoldersOK

LEMMA LeastKeptNat == LeastKept \in Nat /\ LeastKept <= Keep /\ LeastKept <= ManualKeep
    BY BackupsAssumption DEF LeastKept

(* What every step grants those that do not take it. *)
OnRecord(f) == WholeFile(f) \/ f \in pruned

FilesGoOn ==
    /\ removal \subseteq removal' /\ blob \ removal' \subseteq blob' /\ time <= time'
    /\ backend' = backend /\ (clock' = clock \/ clock' = clock + 1)
    /\ DOMAIN inside \subseteq DOMAIN inside' /\ rewritten \subseteq rewritten'
    /\ DOMAIN dir \cup pruned \subseteq DOMAIN dir' \cup pruned'
    /\ \A f : OnRecord(f) => OnRecord(f)'
    /\ overtaken' = {} =>
          /\ overtaken = {}
          /\ \A f \in OnLists \cap DOMAIN dir' :
                f \in DOMAIN dir /\ (Enough(dir, f) => Enough(dir', f))

(* The file a worker is at is not touched, or was opened again. *)
KeepsOwn(q) ==
    bpc[q] = "write" /\ Tarball(bdata[q].tick) \in DOMAIN dir' =>
        \/ /\ Tarball(bdata[q].tick) \in DOMAIN dir
           /\ dir'[Tarball(bdata[q].tick)] = dir[Tarball(bdata[q].tick)]
        \/ Tarball(bdata[q].tick) \in rewritten'

LEMMA NothingHappens ==
    ASSUME ArchiveOK, UNCHANGED <<docVars, backend, tarVars>>, time <= time',
           clock' = clock \/ clock' = clock + 1
    PROVE  FilesGoOn /\ \A q \in Instance : KeepsOwn(q)
<1>1. UNCHANGED <<dir, inside, pruned, rewritten, overtaken>> BY DEF tarVars
<1>2. \A f : OnRecord(f) => OnRecord(f)' BY <1>1 DEF OnRecord, WholeFile
<1> QED BY <1>1, <1>2 DEF FilesGoOn, KeepsOwn, docVars

LEMMA ListStays ==
    ASSUME FilesGoOn, clock \in Nat, NEW CONSTANT old, ListOK(old), DOMAIN old \subseteq OnLists
    PROVE  ListOK(old)'
<1>1. DOMAIN old \subseteq DOMAIN inside' BY DEF ListOK, FilesGoOn
<1>2. \A f \in DOMAIN old : old[f] \in 1..clock' BY DEF ListOK, FilesGoOn
<1>3. overtaken' = {} => \A f \in DOMAIN old \cap DOMAIN dir' : Enough(dir', f)
    BY DEF ListOK, FilesGoOn
<1> QED BY <1>1, <1>2, <1>3 DEF ListOK, Enough

(* A shorter list is as good. *)
LEMMA ListShrinks ==
    ASSUME NEW old, NEW less, ListOK(old), DOMAIN less \subseteq DOMAIN old,
           \A f \in DOMAIN less : less[f] = old[f]
    PROVE  ListOK(less)
    BY DEF ListOK

LEMMA RestOf ==
    ASSUME NEW old
    PROVE  /\ DOMAIN Rest(old) = DOMAIN old \ {FirstOf(old)}
           /\ \A f \in DOMAIN Rest(old) : Rest(old)[f] = old[f]
    BY DEF Rest, Without

LEMMA NoListOK == DOMAIN NoList = {} /\ ListOK(NoList)
    BY DEF NoList, ListOK

(* The files a list names have enough newer ones. *)
LEMMA OldOfOK ==
    ASSUME ArchiveOK, NEW n \in Nat, LeastKept <= n PROVE ListOK(OldOf(dir, n))
<1>1. /\ DOMAIN OldOf(dir, n) = Beyond(dir, n) /\ Beyond(dir, n) \subseteq DOMAIN dir
      /\ \A f \in Beyond(dir, n) : OldOf(dir, n)[f] = dir[f]
    BY DEF OldOf, Beyond
<1>2. \A f \in Beyond(dir, n) : Enough(dir, f)
  <2> SUFFICES ASSUME NEW f \in Beyond(dir, n) PROVE Enough(dir, f) OBVIOUS
  <2>1. Cardinality(Newer(dir, f)) >= n BY DEF Beyond
  <2>2. Cardinality(Newer(dir, f)) \in Nat BY NewerFinite DEF ArchiveOK
  <2> QED BY <2>1, <2>2, LeastKeptNat DEF Enough
<1>3. \A f \in Beyond(dir, n) : dir[f] \in 1..clock BY <1>1 DEF ArchiveOK, Directory
<1>4. Beyond(dir, n) \subseteq DOMAIN inside BY <1>1 DEF ArchiveOK
<1> HIDE DEF Enough
<1> QED BY <1>1, <1>2, <1>3, <1>4 DEF ListOK

LEMMA WorkerStays ==
    ASSUME BackupsInv, FilesGoOn, time' \in 0..MaxTick, NEW q \in Instance, KeepsOwn(q),
           bpc'[q] = bpc[q], bdata'[q] = bdata[q], next'[q] = next[q]
    PROVE  WorkerHolds(q)'
<1>0. WorkerHolds(q) BY DEF BackupsInv, HoldersOK
<1>1. bpc'[q] # "wait" => next'[q] <= time'
    BY <1>0, BackupsAssumption DEF BackupsInv, ArchiveOK, WorkerHolds, FilesGoOn
<1>2. bpc'[q] = "pack" => bdata'[q].rows \ removal' \subseteq blob'
    BY <1>0 DEF WorkerHolds, FilesGoOn
<1>3. bpc'[q] \in {"persist", "write"} /\ backend' = "fs" =>
          bdata'[q].rows \ removal' \subseteq bdata'[q].files
    BY <1>0 DEF WorkerHolds, FilesGoOn
<1>4. PICK f : f = Tarball(bdata[q].tick) OBVIOUS
<1>5. bpc[q] = "write" =>
          /\ f \in DOMAIN inside' /\ f \in DOMAIN dir' \cup pruned'
          /\ f \in DOMAIN dir' => dir'[f] = bdata[q].opened \/ f \in rewritten'
    BY <1>0, <1>4 DEF WorkerHolds, FilesGoOn, KeepsOwn
<1>6. bpc[q] \in {"insert", "mark"} => OnRecord(f)'
    BY <1>0, <1>4 DEF WorkerHolds, FilesGoOn, OnRecord
<1>7. PICK old : old = bdata[q].old OBVIOUS
<1>8. bpc[q] \in Pruning => ListOK(old)'
  <2>1. bpc[q] \in Pruning => DOMAIN old \subseteq OnLists /\ ListOK(old)
      BY <1>0, <1>7 DEF WorkerHolds, OnLists, WorkerLists
  <2> QED BY <2>1, ListStays DEF BackupsInv, ArchiveOK, Directory
<1>9. bpc'[q] = "write" =>
          /\ Tarball(bdata'[q].tick) \in DOMAIN inside'
          /\ Tarball(bdata'[q].tick) \in DOMAIN dir' \cup pruned'
          /\ Tarball(bdata'[q].tick) \in DOMAIN dir' =>
                \/ dir'[Tarball(bdata'[q].tick)] = bdata'[q].opened
                \/ Tarball(bdata'[q].tick) \in rewritten'
    BY <1>4, <1>5
<1>10. bpc'[q] \in {"insert", "mark"} =>
          WholeFile(Tarball(bdata[q].tick))' \/ Tarball(bdata'[q].tick) \in pruned'
    BY <1>4, <1>6 DEF OnRecord, WholeFile, Tarball
<1>11. bpc'[q] \in Pruning => ListOK(bdata[q].old)'
    BY <1>7, <1>8 DEF ListOK, Enough
<1> QED BY <1>1, <1>2, <1>3, <1>9, <1>10, <1>11 DEF WorkerHolds, Tarball, WholeFile, Pruning

LEMMA ManualOnLists ==
    ASSUME NEW n \in 1..MaxManual PROVE DOMAIN manual[n].old \subseteq OnLists
<1>1. DOMAIN manual[n].old \in ManualLists BY DEF ManualLists
<1> QED BY <1>1 DEF OnLists

LEMMA ManualStays ==
    ASSUME BackupsInv, FilesGoOn, NEW n \in 1..MaxManual, manual'[n] = manual[n]
    PROVE  ManualHolds(n)'
<1>1. PICK old : old = manual[n].old OBVIOUS
<1>2. DOMAIN old \subseteq OnLists /\ ListOK(old)
    BY <1>1, ManualOnLists DEF BackupsInv, HoldersOK, ManualHolds
<1>3. ListOK(old)' BY <1>2, ListStays DEF BackupsInv, ArchiveOK, Directory
<1> QED BY <1>1, <1>3 DEF ManualHolds, ListOK, Enough

(* Only worker w moves, or none. *)
Moves(w) ==
    /\ DOMAIN bpc' = Instance /\ DOMAIN bdata' = Instance
    /\ \A q \in Instance \ {w} : bpc'[q] = bpc[q] /\ bdata'[q] = bdata[q]

LEMMA OthersHold ==
    ASSUME BackupsInv, FilesGoOn, time' \in 0..MaxTick, NEW w \in Instance, Moves(w),
           \A q \in Instance \ {w} : next'[q] = next[q] /\ KeepsOwn(q),
           UNCHANGED manual, WorkerHolds(w)'
    PROVE  HoldersOK'
<1>1. ASSUME NEW q \in Instance \ {w} PROVE WorkerHolds(q)'
    BY WorkerStays DEF Moves
<1>2. \A n \in 1..MaxManual : ManualHolds(n)' BY ManualStays
<1> QED BY <1>1, <1>2 DEF HoldersOK

LEMMA WorkersHold ==
    ASSUME BackupsInv, FilesGoOn, time' \in 0..MaxTick, UNCHANGED <<bpc, bdata, next>>,
           \A q \in Instance : KeepsOwn(q)
    PROVE  \A q \in Instance : WorkerHolds(q)'
    BY WorkerStays

LEMMA GoOnOK ==
    ASSUME ArchiveOK, NEW w \in Instance, NEW label, NEW data, GoOn(w, label, data)
    PROVE  bpc'[w] = label /\ bdata'[w] = data /\ Moves(w)
    BY DEF ArchiveOK, GoOn, Moves

LEMMA DocumentsFrame ==
    ASSUME DocumentsInv, UNCHANGED <<reqVars, docVars>> PROVE DocumentsInv'
    BY PapersFrame, RequestsStay DEF DocumentsInv, docVars

(* Nobody begins to write. *)
LEMMA ApartStays ==
    ASSUME WritersApart, rewritten \subseteq rewritten', NEW w, Moves(w), bpc'[w] # "write"
    PROVE  WritersApart'
<1> SUFFICES ASSUME NEW v \in Instance, NEW q \in Instance, v # q, bpc'[v] = "write",
                    bpc'[q] = "write", bdata'[v].tick = bdata'[q].tick
             PROVE  Tarball(bdata'[v].tick) \in rewritten'
    BY DEF WritersApart, Tarball
<1>1. /\ bpc[v] = "write" /\ bpc[q] = "write"
      /\ bdata'[v] = bdata[v] /\ bdata'[q] = bdata[q]
    BY DEF Moves
<1> QED BY <1>1 DEF WritersApart

LEMMA SuccessStays ==
    ASSUME SuccessHasTarball, ran' \subseteq ran, FilesGoOn
    PROVE  SuccessHasTarball'
    BY DEF SuccessHasTarball, FilesGoOn, OnRecord, WholeFile

LEMMA RestoreStays ==
    ASSUME RestoreFindsDocuments, UNCHANGED <<inside, backend>>, removal \subseteq removal'
    PROVE  RestoreFindsDocuments'
    BY DEF RestoreFindsDocuments

(* A step of one worker that leaves the files alone. *)
LEMMA WorkerOnly ==
    ASSUME BackupsInv, NEW w \in Instance, Moves(w), bpc'[w] # "write",
           UNCHANGED <<reqVars, docVars, time, backend, manual, tarVars>>,
           clock' = clock \/ clock' = clock + 1,
           next' \in [Instance -> 1..MaxTick + 1],
           \A q \in Instance \ {w} : next'[q] = next[q],
           WorkerHolds(w)', SuccessHasTarball'
    PROVE  BackupsInv'
<1>0. UNCHANGED <<dir, inside, pruned, rewritten, overtaken>> BY DEF tarVars
<1>1. DocumentsInv' BY DocumentsFrame DEF BackupsInv
<1>2. Directory(dir, clock)' BY <1>0 DEF BackupsInv, ArchiveOK, Directory
<1>3. RestoreFindsDocuments'
    BY <1>0, RestoreStays DEF BackupsInv, ArchiveOK, docVars
<1>4. WritersApart' BY <1>0, ApartStays DEF BackupsInv, ArchiveOK
<1>5. ArchiveOK'
    BY <1>0, <1>2, <1>3, <1>4 DEF BackupsInv, ArchiveOK, Moves
<1>6. FilesGoOn /\ time' \in 0..MaxTick /\ \A q \in Instance : KeepsOwn(q)
    BY NothingHappens, BackupsAssumption DEF BackupsInv, ArchiveOK
<1>7. HoldersOK' BY <1>6, OthersHold
<1> QED BY <1>1, <1>5, <1>7 DEF BackupsInv

LEMMA QuietSuccess ==
    ASSUME BackupsInv, UNCHANGED <<docVars, time, backend, tarVars>>, ran' \subseteq ran,
           clock' = clock
    PROVE  SuccessHasTarball'
<1>1. time <= time' BY BackupsAssumption DEF BackupsInv, ArchiveOK
<1>2. FilesGoOn BY <1>1, NothingHappens DEF BackupsInv
<1> QED BY <1>2, SuccessStays DEF BackupsInv, ArchiveOK

LEMMA RunStartOK ==
    ASSUME BackupsInv, UNCHANGED backend, NEW w \in Instance, RunStart(w) PROVE BackupsInv'
<1>0. /\ UNCHANGED <<reqVars, docVars, time, manual, tarVars, ran, clock>>
      /\ time >= next[w] /\ time \in 0..MaxTick /\ next[w] \in 1..MaxTick + 1
      /\ bpc[w] = "wait" /\ MaxTick \in Nat
    BY BackupsAssumption DEF RunStart, BackupsInv, ArchiveOK
<1>1. SuccessHasTarball' BY <1>0, QuietSuccess
<1>2. CASE GoOn(w, "dump", [tick |-> next[w]]) /\ UNCHANGED next
  <2>1. bpc'[w] = "dump" /\ Moves(w) BY <1>2, GoOnOK DEF BackupsInv
  <2>2. WorkerHolds(w)' BY <1>0, <1>2, <2>1 DEF WorkerHolds, Pruning
  <2> QED BY <1>0, <1>1, <1>2, <2>1, <2>2, WorkerOnly DEF BackupsInv, ArchiveOK
<1>3. CASE next' = [next EXCEPT ![w] = @ + 1] /\ UNCHANGED <<bpc, bdata>>
  <2>1. next' \in [Instance -> 1..MaxTick + 1]
      BY <1>0, <1>3 DEF BackupsInv, ArchiveOK
  <2>2. WorkerHolds(w)' BY <1>0, <1>3 DEF WorkerHolds, Pruning
  <2>3. Moves(w) /\ \A q \in Instance \ {w} : next'[q] = next[q]
      BY <1>3 DEF Moves, BackupsInv, ArchiveOK
  <2> QED BY <1>0, <1>1, <1>3, <2>1, <2>2, <2>3, WorkerOnly
<1> QED BY <1>2, <1>3 DEF RunStart

(* A run that fails or succeeds is recorded; a success has its file. *)
LEMMA FinishOK ==
    ASSUME SuccessHasTarball, NEW kind, NEW status, NEW f, Finish(kind, status, f),
           UNCHANGED <<tarVars>>, status = "success" => OnRecord(f)
    PROVE  SuccessHasTarball' /\ clock' = clock + 1
<1>1. UNCHANGED <<dir, inside, pruned, rewritten>> BY DEF tarVars
<1> QED BY <1>1 DEF SuccessHasTarball, Finish, OnRecord, WholeFile

LEMMA RunFailsOK ==
    ASSUME BackupsInv, UNCHANGED backend, NEW w \in Instance, RunFails(w) PROVE BackupsInv'
<1>1. /\ UNCHANGED <<reqVars, docVars, time, next, manual, tarVars>>
      /\ Finish("scheduled", "failed", NoFile)
      /\ bpc'[w] = "prune" /\ Moves(w) /\ bpc[w] # "wait"
    BY GoOnOK DEF RunFails, BackupsInv
<1>2. SuccessHasTarball' /\ clock' = clock + 1
    BY <1>1, FinishOK DEF BackupsInv, ArchiveOK
<1>3. WorkerHolds(w)' BY <1>1 DEF BackupsInv, HoldersOK, WorkerHolds, Pruning
<1> QED BY <1>1, <1>2, <1>3, WorkerOnly DEF BackupsInv, ArchiveOK

(* The rows of the dump have their files, but for REST removals. *)
LEMMA DumpDatabaseOK ==
    ASSUME BackupsInv, UNCHANGED backend, NEW w \in Instance, DumpDatabase(w) PROVE BackupsInv'
<1>1. /\ UNCHANGED <<reqVars, docVars, time, next, manual, tarVars, ran, clock>>
      /\ bpc'[w] = "pack" /\ Moves(w) /\ bpc[w] # "wait"
      /\ bdata'[w] = [tick |-> bdata[w].tick, rows |-> {d \in Paper : Filed(d)}]
    BY GoOnOK DEF DumpDatabase, BackupsInv
<1>2. SuccessHasTarball' BY <1>1, QuietSuccess
<1>3. {d \in Paper : Filed(d)} \ removal \subseteq blob
    BY DEF BackupsInv, DocumentsInv, PapersOK, FiledHasFile
<1>4. WorkerHolds(w)'
    BY <1>1, <1>3 DEF BackupsInv, HoldersOK, WorkerHolds, docVars, Pruning
<1> QED BY <1>1, <1>2, <1>4, WorkerOnly DEF BackupsInv, ArchiveOK

LEMMA PackDocumentsOK ==
    ASSUME BackupsInv, UNCHANGED backend, NEW w \in Instance, PackDocuments(w) PROVE BackupsInv'
<1>1. /\ UNCHANGED <<reqVars, docVars, time, next, manual, tarVars, ran, clock>>
      /\ bpc'[w] = "persist" /\ Moves(w) /\ bpc[w] = "pack"
      /\ bdata'[w] = [tick |-> bdata[w].tick, rows |-> bdata[w].rows,
                      files |-> IF backend = "fs" THEN blob ELSE {}]
    BY GoOnOK DEF PackDocuments, BackupsInv
<1>2. SuccessHasTarball' BY <1>1, QuietSuccess
<1>3. WorkerHolds(w)'
    BY <1>1 DEF BackupsInv, HoldersOK, WorkerHolds, docVars, Pruning
<1> QED BY <1>1, <1>2, <1>3, WorkerOnly DEF BackupsInv, ArchiveOK

LEMMA InsertBackupOK ==
    ASSUME BackupsInv, UNCHANGED backend, NEW w \in Instance, InsertBackup(w) PROVE BackupsInv'
<1>1. /\ UNCHANGED <<reqVars, docVars, time, next, manual, tarVars, ran, clock>>
      /\ bpc'[w] = "mark" /\ Moves(w) /\ bpc[w] = "insert" /\ bdata'[w] = bdata[w]
    BY GoOnOK DEF InsertBackup, BackupsInv
<1>2. SuccessHasTarball' BY <1>1, QuietSuccess
<1>3. WorkerHolds(w)'
    BY <1>1 DEF BackupsInv, HoldersOK, WorkerHolds, Pruning, WholeFile, tarVars
<1> QED BY <1>1, <1>2, <1>3, WorkerOnly DEF BackupsInv, ArchiveOK

LEMMA MarkSuccessOK ==
    ASSUME BackupsInv, UNCHANGED backend, NEW w \in Instance, MarkSuccess(w) PROVE BackupsInv'
<1>1. /\ UNCHANGED <<reqVars, docVars, time, next, manual, tarVars>>
      /\ Finish("scheduled", "success", Tarball(bdata[w].tick))
      /\ bpc'[w] = "prune" /\ Moves(w) /\ bpc[w] = "mark"
    BY GoOnOK DEF MarkSuccess, BackupsInv
<1>2. OnRecord(Tarball(bdata[w].tick))
    BY <1>1 DEF BackupsInv, HoldersOK, WorkerHolds, OnRecord
<1>3. SuccessHasTarball' /\ clock' = clock + 1
    BY <1>1, <1>2, FinishOK DEF BackupsInv, ArchiveOK
<1>4. WorkerHolds(w)' BY <1>1 DEF BackupsInv, HoldersOK, WorkerHolds, Pruning
<1> QED BY <1>1, <1>3, <1>4, WorkerOnly DEF BackupsInv, ArchiveOK

(* A list that holds still holds when nothing about files has changed. *)
LEMMA SameList ==
    ASSUME NEW CONSTANT old, ListOK(old), UNCHANGED <<tarVars, clock>> PROVE ListOK(old)'
    BY DEF ListOK, tarVars, Enough

LEMMA PruneListOK ==
    ASSUME BackupsInv, UNCHANGED backend, NEW w \in Instance, PruneList(w) PROVE BackupsInv'
<1>1. /\ UNCHANGED <<reqVars, docVars, time, next, manual, tarVars, ran, clock>>
      /\ bpc'[w] = "prune_file" /\ Moves(w) /\ bpc[w] = "prune"
      /\ bdata'[w] = [tick |-> bdata[w].tick, old |-> OldOf(dir, Keep)]
    BY GoOnOK DEF PruneList, BackupsInv
<1>2. SuccessHasTarball' BY <1>1, QuietSuccess
<1>3. PICK old : old = OldOf(dir, Keep) OBVIOUS
<1>4. ListOK(old)'
    BY <1>1, <1>3, OldOfOK, SameList, LeastKeptNat, BackupsAssumption DEF BackupsInv
<1>5. bdata'[w].old = old BY <1>1, <1>3
<1>6. WorkerHolds(w)'
    BY <1>1, <1>4, <1>5 DEF BackupsInv, HoldersOK, WorkerHolds, ListOK, Enough
<1> QED BY <1>1, <1>2, <1>6, WorkerOnly DEF BackupsInv, ArchiveOK

LEMMA PruneRowsOK ==
    ASSUME BackupsInv, UNCHANGED backend, NEW w \in Instance, PruneRows(w) PROVE BackupsInv'
<1>1. /\ UNCHANGED <<reqVars, docVars, time, next, manual, tarVars, clock>>
      /\ bpc'[w] = "prune_file" /\ Moves(w) /\ bpc[w] = "prune_rows"
      /\ bdata'[w] = ListLeft(w) /\ ran' \subseteq ran
    BY GoOnOK DEF PruneRows, BackupsInv
<1>2. SuccessHasTarball' BY <1>1, QuietSuccess
<1>3. PICK old : old = Rest(bdata[w].old) OBVIOUS
<1>4. ListOK(old)
  <2>1. PICK all : all = bdata[w].old OBVIOUS
  <2>2. ListOK(all) BY <1>1, <2>1 DEF BackupsInv, HoldersOK, WorkerHolds, Pruning
  <2>3. old = Rest(all) BY <1>3, <2>1
  <2>4. DOMAIN old \subseteq DOMAIN all /\ \A f \in DOMAIN old : old[f] = all[f]
      BY <2>3, RestOf
  <2> QED BY ONLY <2>2, <2>4, ListShrinks
<1>5. ListOK(old)' /\ bdata'[w].old = old
    BY <1>1, <1>3, <1>4, SameList DEF ListLeft
<1>6. WorkerHolds(w)'
    BY <1>1, <1>5 DEF BackupsInv, HoldersOK, WorkerHolds, ListOK, Enough
<1> QED BY <1>1, <1>2, <1>6, WorkerOnly DEF BackupsInv, ArchiveOK

LEMMA RunOverOK ==
    ASSUME BackupsInv, UNCHANGED backend, NEW w \in Instance, RunOver(w) PROVE BackupsInv'
<1>1. /\ UNCHANGED <<reqVars, docVars, time, manual, tarVars, ran, clock>>
      /\ bpc'[w] = "wait" /\ Moves(w) /\ bpc[w] = "prune_file"
      /\ next' = [next EXCEPT ![w] = @ + 1]
    BY GoOnOK DEF RunOver, BackupsInv
<1>2. SuccessHasTarball' BY <1>1, QuietSuccess
<1>3. next[w] <= time /\ time \in 0..MaxTick /\ next[w] \in 1..MaxTick + 1
    BY <1>1 DEF BackupsInv, ArchiveOK, HoldersOK, WorkerHolds
<1>4. next' \in [Instance -> 1..MaxTick + 1] /\ \A q \in Instance \ {w} : next'[q] = next[q]
    BY <1>1, <1>3, BackupsAssumption DEF BackupsInv, ArchiveOK
<1>5. WorkerHolds(w)' BY <1>1 DEF WorkerHolds, Pruning
<1> QED BY <1>1, <1>2, <1>4, <1>5, WorkerOnly

LEMMA RestartOK ==
    ASSUME BackupsInv, UNCHANGED backend, NEW w \in Instance, Restart(w) PROVE BackupsInv'
<1>1. /\ UNCHANGED <<reqVars, docVars, time, manual, tarVars, ran, clock>>
      /\ bpc'[w] = "wait" /\ Moves(w)
      /\ next' = [next EXCEPT ![w] = time + 1]
    BY GoOnOK DEF Restart, BackupsInv
<1>2. SuccessHasTarball' BY <1>1, QuietSuccess
<1>3. next' \in [Instance -> 1..MaxTick + 1] /\ \A q \in Instance \ {w} : next'[q] = next[q]
    BY <1>1, BackupsAssumption DEF BackupsInv, ArchiveOK
<1>4. WorkerHolds(w)' BY <1>1 DEF WorkerHolds, Pruning
<1> QED BY <1>1, <1>2, <1>3, <1>4, WorkerOnly

-----------------------------------------------------------------------------
(* Writing a file: it is the newest, and the others are as they were. *)
LEMMA WriteGoesOn ==
    ASSUME BackupsInv, NEW f, NEW content, WriteFile(f, content),
           UNCHANGED <<docVars, time, backend>>, rewritten \subseteq rewritten',
           content.whole \/ f \in rewritten' \/ f \notin DOMAIN inside
    PROVE  /\ FilesGoOn /\ time' \in 0..MaxTick
           /\ Directory(dir', clock') /\ DOMAIN dir' = DOMAIN dir \cup {f}
           /\ DOMAIN inside' = DOMAIN inside \cup {f} /\ DOMAIN dir' \cup pruned' \subseteq DOMAIN inside'
           /\ dir'[f] = clock + 1 /\ inside'[f] = content /\ f \in DOMAIN dir'
           /\ \A g \in DOMAIN dir \ {f} : dir'[g] = dir[g]
           /\ \A g \in DOMAIN inside \ {f} : inside'[g] = inside[g]
<1>1. /\ clock' = clock + 1 /\ dir' = With(dir, f, clock + 1)
      /\ inside' = With(inside, f, content) /\ pruned' = pruned \ {f}
      /\ overtaken' = overtaken \cup ({f} \cap OnLists)
    BY DEF WriteFile
<1>2. Directory(dir, clock) /\ DOMAIN dir \cup pruned \subseteq DOMAIN inside
    BY DEF BackupsInv, ArchiveOK
<1>3. /\ Directory(dir', clock') /\ DOMAIN dir' = DOMAIN dir \cup {f}
      /\ \A g \in DOMAIN dir \ {f} : Enough(dir, g) => Enough(dir', g)
    BY <1>1, <1>2, WriteNewest, LeastKeptNat DEF Enough
<1>4. /\ DOMAIN inside' = DOMAIN inside \cup {f} /\ inside'[f] = content
      /\ \A g \in DOMAIN inside \ {f} : inside'[g] = inside[g]
      /\ dir'[f] = clock + 1 /\ \A g \in DOMAIN dir \ {f} : dir'[g] = dir[g]
    BY <1>1 DEF With
<1>5. ASSUME NEW g, OnRecord(g) PROVE OnRecord(g)'
  <2>1. CASE g = f
      BY <1>2, <1>3, <1>4, <1>5, <2>1 DEF OnRecord, WholeFile
  <2>2. CASE g # f
      BY <1>1, <1>2, <1>3, <1>4, <1>5, <2>2 DEF OnRecord, WholeFile
  <2> QED BY <2>1, <2>2
<1>6. time <= time' /\ time' \in 0..MaxTick
    BY BackupsAssumption DEF BackupsInv, ArchiveOK
<1>7. removal \subseteq removal' /\ blob \ removal' \subseteq blob' BY DEF docVars
<1>8. DOMAIN dir \cup pruned \subseteq DOMAIN dir' \cup pruned' BY <1>1, <1>3
<1>9. overtaken' = {} =>
          /\ overtaken = {}
          /\ \A g \in OnLists \cap DOMAIN dir' :
                g \in DOMAIN dir /\ (Enough(dir, g) => Enough(dir', g))
    BY <1>1, <1>3
<1>10. FilesGoOn
    BY <1>1, <1>4, <1>5, <1>6, <1>7, <1>8, <1>9 DEF FilesGoOn
<1> QED BY <1>1, <1>2, <1>3, <1>4, <1>6, <1>10

(* The dump and the files a worker packs agree. *)
LEMMA RestoreWritten ==
    ASSUME RestoreFindsDocuments, NEW f, NEW content, UNCHANGED <<backend, removal>>,
           DOMAIN inside' = DOMAIN inside \cup {f}, inside'[f] = content,
           \A g \in DOMAIN inside \ {f} : inside'[g] = inside[g],
           backend = "fs" => content.rows \ removal \subseteq content.files
    PROVE  RestoreFindsDocuments'
    BY DEF RestoreFindsDocuments

LEMMA PersistOpenOK ==
    ASSUME BackupsInv, UNCHANGED backend, NEW w \in Instance, PersistOpen(w) PROVE BackupsInv'
<1>0. PICK f : f = Tarball(bdata[w].tick) OBVIOUS
<1>1. /\ UNCHANGED <<reqVars, docVars, time, next, manual, ran>>
      /\ bpc'[w] = "write" /\ Moves(w) /\ bpc[w] = "persist"
      /\ bdata'[w] = [tick |-> bdata[w].tick, rows |-> bdata[w].rows,
                      files |-> bdata[w].files, opened |-> clock + 1]
      /\ WriteFile(f, Torn) /\ rewritten' = rewritten \cup ({f} \cap DOMAIN inside)
    BY <1>0, GoOnOK DEF PersistOpen, BackupsInv
<1>2. Torn.rows = {} /\ Torn.files = {} /\ Torn.whole = FALSE BY DEF Torn
<1> DEFINE content == Torn
<1>3. f \in rewritten' \/ f \notin DOMAIN inside BY <1>1
<1>4. /\ FilesGoOn /\ time' \in 0..MaxTick
      /\ Directory(dir', clock') /\ DOMAIN dir' = DOMAIN dir \cup {f}
      /\ DOMAIN inside' = DOMAIN inside \cup {f} /\ DOMAIN dir' \cup pruned' \subseteq DOMAIN inside'
      /\ dir'[f] = clock + 1 /\ inside'[f] = Torn /\ f \in DOMAIN dir'
      /\ \A g \in DOMAIN dir \ {f} : dir'[g] = dir[g]
      /\ \A g \in DOMAIN inside \ {f} : inside'[g] = inside[g]
    BY <1>1, <1>3, WriteGoesOn
<1>5. ASSUME NEW q \in Instance, bpc[q] = "write", Tarball(bdata[q].tick) = f
      PROVE  f \in rewritten'
    BY <1>1, <1>5 DEF BackupsInv, HoldersOK, WorkerHolds
<1>6. ASSUME NEW q \in Instance PROVE KeepsOwn(q)
    BY <1>4, <1>5 DEF KeepsOwn
<1>7. WorkerHolds(w)'
  <2>1. WorkerHolds(w) BY DEF BackupsInv, HoldersOK
  <2>2. /\ bdata'[w].tick = bdata[w].tick /\ bdata'[w].rows = bdata[w].rows
        /\ bdata'[w].files = bdata[w].files /\ bdata'[w].opened = clock + 1
      BY <1>1
  <2>3. Tarball(bdata[w].tick)' = f BY <1>0, <2>2 DEF Tarball
  <2>4. bdata'[w].rows \ removal' \subseteq bdata'[w].files \/ backend' # "fs"
      BY <1>1, <2>1, <2>2 DEF WorkerHolds, docVars
  <2>5. next'[w] <= time' BY <1>1, <2>1 DEF WorkerHolds
  <2> QED BY <1>1, <1>4, <2>2, <2>3, <2>4, <2>5 DEF WorkerHolds, Pruning
<1>8. HoldersOK' BY <1>1, <1>4, <1>6, <1>7, OthersHold
<1>9. WritersApart'
  <2> SUFFICES ASSUME NEW v \in Instance, NEW q \in Instance, v # q, bpc'[v] = "write",
                      bpc'[q] = "write", bdata'[v].tick = bdata'[q].tick
               PROVE  Tarball(bdata'[v].tick) \in rewritten'
      BY DEF WritersApart, Tarball
  <2>0. bdata'[w].tick = bdata[w].tick BY <1>1
  <2>1. CASE v = w
    <3>1. bpc[q] = "write" /\ bdata'[q] = bdata[q] BY <1>1, <2>1 DEF Moves
    <3>2. Tarball(bdata[q].tick) = f BY <1>0, <2>0, <2>1, <3>1
    <3> QED BY <1>0, <1>5, <2>0, <2>1, <3>1, <3>2
  <2>2. CASE q = w
    <3>1. bpc[v] = "write" /\ bdata'[v] = bdata[v] BY <1>1, <2>2 DEF Moves
    <3>2. Tarball(bdata[v].tick) = f BY <1>0, <2>0, <2>2, <3>1
    <3> QED BY <1>5, <3>1, <3>2
  <2>3. CASE v # w /\ q # w
      BY <1>1, <2>3 DEF Moves, WritersApart, BackupsInv, ArchiveOK
  <2> QED BY <2>1, <2>2, <2>3
<1>10. RestoreFindsDocuments'
  <2>1. RestoreFindsDocuments /\ removal' = removal
      BY <1>1 DEF BackupsInv, ArchiveOK, docVars
  <2> QED BY <1>2, <1>4, <2>1, RestoreWritten
<1>11. SuccessHasTarball' BY <1>1, <1>4, SuccessStays DEF BackupsInv, ArchiveOK
<1>12. ArchiveOK'
    BY <1>1, <1>4, <1>9, <1>10, <1>11 DEF BackupsInv, ArchiveOK, Moves
<1>13. DocumentsInv' BY <1>1, DocumentsFrame DEF BackupsInv
<1> QED BY <1>8, <1>12, <1>13 DEF BackupsInv

LEMMA PersistWriteOK ==
    ASSUME BackupsInv, UNCHANGED backend, NEW w \in Instance, PersistWrite(w) PROVE BackupsInv'
<1>0. PICK f : f = Tarball(bdata[w].tick) OBVIOUS
<1>1. /\ UNCHANGED <<reqVars, docVars, time, next, manual, ran>>
      /\ bpc'[w] = "insert" /\ Moves(w) /\ bpc[w] = "write"
      /\ bdata'[w] = [tick |-> bdata[w].tick]
    BY GoOnOK DEF PersistWrite, BackupsInv
<1>2. WorkerHolds(w) /\ bdata'[w].tick = bdata[w].tick
    BY <1>1 DEF BackupsInv, HoldersOK
<1>3. /\ f \in DOMAIN inside /\ f \in DOMAIN dir \cup pruned
      /\ f \in DOMAIN dir => dir[f] = bdata[w].opened \/ f \in rewritten
      /\ backend = "fs" => bdata[w].rows \ removal \subseteq bdata[w].files
      /\ next[w] <= time
    BY <1>0, <1>1, <1>2 DEF WorkerHolds
<1>4. OnRecord(f)' => WorkerHolds(w)'
  <2>1. Tarball(bdata[w].tick)' = f BY <1>0, <1>2 DEF Tarball
  <2>2. ASSUME OnRecord(f)'
        PROVE  WholeFile(Tarball(bdata[w].tick))' \/ Tarball(bdata[w].tick)' \in pruned'
      BY <2>1, <2>2 DEF OnRecord, WholeFile
  <2> QED BY <1>1, <1>3, <2>2 DEF WorkerHolds, Pruning
<1>5. CASE InDir(f)
  <2> DEFINE own == [rows |-> bdata[w].rows, files |-> bdata[w].files, whole |-> TRUE]
  <2>1. PICK content \in {own, Torn, inside[f]} :
            (dir[f] = bdata[w].opened => content = own) /\ WriteFile(f, content)
      BY <1>0, <1>5 DEF PersistWrite
  <2>2. UNCHANGED rewritten BY <1>0, <1>5 DEF PersistWrite
  <2>3. content.whole \/ f \in rewritten
      BY <1>3, <1>5, <2>1 DEF InDir
  <2>4. backend = "fs" => content.rows \ removal \subseteq content.files
    <3>1. CASE content = own BY <1>3, <3>1
    <3>2. CASE content = Torn BY <3>2 DEF Torn
    <3>3. CASE content = inside[f]
        BY <1>3, <3>3 DEF BackupsInv, ArchiveOK, RestoreFindsDocuments
    <3> HIDE DEF own
    <3> QED BY <2>1, <3>1, <3>2, <3>3
  <2> HIDE DEF own
  <2>5. /\ FilesGoOn /\ time' \in 0..MaxTick
        /\ Directory(dir', clock') /\ DOMAIN dir' = DOMAIN dir \cup {f}
        /\ DOMAIN inside' = DOMAIN inside \cup {f}
        /\ DOMAIN dir' \cup pruned' \subseteq DOMAIN inside'
        /\ inside'[f] = content /\ f \in DOMAIN dir'
        /\ \A g \in DOMAIN dir \ {f} : dir'[g] = dir[g]
        /\ \A g \in DOMAIN inside \ {f} : inside'[g] = inside[g]
    <3>1. rewritten \subseteq rewritten' /\ (content.whole \/ f \in rewritten') BY <2>2, <2>3
    <3>2. WriteFile(f, content) BY <2>1
    <3>3. UNCHANGED <<docVars, time, backend>> BY <1>1
    <3> QED BY <3>1, <3>2, <3>3, WriteGoesOn
  <2>6. ASSUME NEW q \in Instance \ {w} PROVE KeepsOwn(q)
    <3>1. CASE bpc[q] = "write" /\ Tarball(bdata[q].tick) = f
      <4>1. bdata[q].tick = bdata[w].tick BY <1>0, <3>1 DEF Tarball
      <4>2. f \in rewritten
          BY <1>0, <1>1, <3>1, <4>1 DEF BackupsInv, ArchiveOK, WritersApart
      <4> QED BY <2>2, <3>1, <4>2 DEF KeepsOwn
    <3>2. CASE ~(bpc[q] = "write" /\ Tarball(bdata[q].tick) = f)
        BY <2>5, <3>2 DEF KeepsOwn
    <3> QED BY <3>1, <3>2
  <2>7. OnRecord(f)' BY <2>2, <2>3, <2>5 DEF OnRecord, WholeFile
  <2>8. HoldersOK' BY <1>1, <1>4, <2>5, <2>6, <2>7, OthersHold
  <2>9. WritersApart' BY <1>1, <2>2, ApartStays DEF BackupsInv, ArchiveOK
  <2>10. RestoreFindsDocuments'
    <3>1. RestoreFindsDocuments /\ removal' = removal
        BY <1>1 DEF BackupsInv, ArchiveOK, docVars
    <3> QED BY <2>4, <2>5, <3>1, RestoreWritten
  <2>11. SuccessHasTarball' BY <1>1, <2>5, SuccessStays DEF BackupsInv, ArchiveOK
  <2>12. ArchiveOK'
      BY <1>1, <2>5, <2>9, <2>10, <2>11 DEF BackupsInv, ArchiveOK, Moves
  <2>13. DocumentsInv' BY <1>1, DocumentsFrame DEF BackupsInv
  <2> QED BY <2>8, <2>12, <2>13 DEF BackupsInv
<1>6. CASE ~InDir(f)
  <2>1. UNCHANGED <<tarVars, clock>> BY <1>0, <1>6 DEF PersistWrite
  <2>2. OnRecord(f)' BY <1>3, <1>6, <2>1 DEF InDir, OnRecord, tarVars
  <2>3. SuccessHasTarball' BY <1>1, <2>1, QuietSuccess
  <2> QED BY <1>1, <1>4, <2>1, <2>2, <2>3, WorkerOnly DEF BackupsInv, ArchiveOK
<1> QED BY <1>5, <1>6

-----------------------------------------------------------------------------
(* The first of a list is a file of it. *)
LEMMA FirstOfList ==
    ASSUME NEW old, NEW now \in Nat, \A f \in DOMAIN old : old[f] \in 1..now,
           DOMAIN old # {}
    PROVE  FirstOf(old) \in DOMAIN old
<1> DEFINE V == {old[f] : f \in DOMAIN old}
<1>1. PICK a \in DOMAIN old : TRUE OBVIOUS
<1>2. V \in SUBSET Int /\ old[a] \in V /\ now \in Int /\ \A x \in V : x <= now OBVIOUS
<1>3. PICK m \in V : \A x \in V : x <= m
    <2> HIDE DEF V
    <2> QED BY <1>2, LargestOfBounded
<1>4. \E f \in DOMAIN old : \A g \in DOMAIN old : old[g] <= old[f]
    BY <1>3
<1> QED BY <1>4 DEF FirstOf

(* Deleting one file with enough newer ones. *)
LEMMA DeleteOne ==
    ASSUME Directory(dir, clock), NEW f \in DOMAIN dir, Enough(dir, f)
    PROVE  /\ Cardinality({g \in DOMAIN dir \ {f} : dir[g] > dir[f]}) >= LeastKept
           /\ \A g \in DOMAIN dir \ {f} : Enough(dir, g) => Enough(Without(dir, {f}), g)
<1>1. {g \in DOMAIN dir \ {f} : dir[g] > dir[f]} = Newer(dir, f)
    BY DEF Newer, Directory
<1>2. Cardinality({g \in DOMAIN dir \ {f} : dir[g] > dir[f]}) >= LeastKept
    BY <1>1 DEF Enough
<1>3. ASSUME NEW g \in DOMAIN dir \ {f}, Enough(dir, g)
      PROVE  Enough(Without(dir, {f}), g)
  <2>1. \A x \in {f} \cap DOMAIN dir :
          Cardinality({h \in DOMAIN dir \ {f} : dir[h] > dir[x]}) >= LeastKept
      BY <1>2
  <2> QED BY <1>3, <2>1, StillNewer, LeastKeptNat DEF Enough
<1> QED BY <1>2, <1>3


(* What deleting files keeps, in one step. *)
KeepsNewest ==
    \A f \in DOMAIN dir : overtaken = {} /\ f \notin DOMAIN dir' =>
        Cardinality({g \in DOMAIN dir' : dir'[g] > dir[f]}) >= LeastKept

LEMMA RemoveGoesOn ==
    ASSUME BackupsInv, NEW f \in DOMAIN dir, RemoveTarball(f),
           UNCHANGED <<docVars, time, backend, clock>>, overtaken = {} => Enough(dir, f)
    PROVE  /\ FilesGoOn /\ time' \in 0..MaxTick /\ \A q \in Instance : KeepsOwn(q)
           /\ Directory(dir', clock') /\ DOMAIN dir' \cup pruned' \subseteq DOMAIN inside'
           /\ KeepsNewest
<1>1. /\ dir' = Without(dir, {f}) /\ pruned' = pruned \cup {f}
      /\ UNCHANGED <<inside, rewritten, overtaken>>
    BY DEF RemoveTarball
<1>2. Directory(dir, clock) /\ DOMAIN dir \cup pruned \subseteq DOMAIN inside
    BY DEF BackupsInv, ArchiveOK
<1>3. /\ Directory(dir', clock') /\ DOMAIN dir' = DOMAIN dir \ {f}
      /\ \A g \in DOMAIN dir' : dir'[g] = dir[g]
    BY <1>1, <1>2, DirectoryLess DEF Without
<1>4. \A g : OnRecord(g) => OnRecord(g)'
    BY <1>1, <1>3 DEF OnRecord, WholeFile
<1>5. time <= time' /\ time' \in 0..MaxTick
    BY BackupsAssumption DEF BackupsInv, ArchiveOK
<1>6. overtaken = {} =>
          /\ Cardinality({g \in DOMAIN dir \ {f} : dir[g] > dir[f]}) >= LeastKept
          /\ \A g \in DOMAIN dir \ {f} : Enough(dir, g) => Enough(dir', g)
    BY <1>1, <1>2, DeleteOne
<1>7. FilesGoOn
  <2>1. removal \subseteq removal' /\ blob \ removal' \subseteq blob' BY DEF docVars
  <2>2. DOMAIN dir \cup pruned \subseteq DOMAIN dir' \cup pruned' BY <1>1, <1>3
  <2>3. overtaken' = {} =>
            /\ overtaken = {}
            /\ \A g \in OnLists \cap DOMAIN dir' :
                  g \in DOMAIN dir /\ (Enough(dir, g) => Enough(dir', g))
      BY <1>1, <1>3, <1>6
  <2> QED BY <1>1, <1>4, <1>5, <2>1, <2>2, <2>3 DEF FilesGoOn
<1>8. ASSUME NEW q \in Instance PROVE KeepsOwn(q) BY <1>3 DEF KeepsOwn
<1>9. KeepsNewest
  <2> SUFFICES ASSUME NEW h \in DOMAIN dir, overtaken = {}, h \notin DOMAIN dir'
               PROVE  Cardinality({g \in DOMAIN dir' : dir'[g] > dir[h]}) >= LeastKept
      BY DEF KeepsNewest
  <2>1. h = f BY <1>3
  <2>2. {g \in DOMAIN dir' : dir'[g] > dir[h]} = {g \in DOMAIN dir \ {f} : dir[g] > dir[f]}
      BY <1>3, <2>1
  <2> QED BY <1>6, <2>2
<1>10. DOMAIN dir' \cup pruned' \subseteq DOMAIN inside' BY <1>1, <1>2, <1>3
<1> QED BY <1>3, <1>5, <1>7, <1>8, <1>9, <1>10

LEMMA PruneFileOK ==
    ASSUME BackupsInv, UNCHANGED backend, NEW w \in Instance, PruneFile(w)
    PROVE  BackupsInv' /\ KeepsNewest
<1>0. PICK f : f = FirstOf(bdata[w].old) OBVIOUS
<1>1. PICK old : old = bdata[w].old OBVIOUS
<1>2. /\ UNCHANGED <<reqVars, docVars, time, next, manual, ran, clock>>
      /\ bpc[w] = "prune_file" /\ DOMAIN old # {}
    BY <1>1 DEF PruneFile
<1>3. ListOK(old) /\ DOMAIN old \subseteq OnLists /\ WorkerHolds(w)
    BY <1>1, <1>2 DEF BackupsInv, HoldersOK, WorkerHolds, Pruning, OnLists, WorkerLists
<1>4. f \in DOMAIN old
    BY <1>0, <1>1, <1>2, <1>3, FirstOfList DEF ListOK, BackupsInv, ArchiveOK, Directory
<1>5. CASE InDir(f)
  <2>1. /\ RemoveTarball(f) /\ bpc'[w] = "prune_rows" /\ bdata'[w] = bdata[w] /\ Moves(w)
      BY <1>0, <1>5, GoOnOK DEF PruneFile, BackupsInv
  <2>2. f \in DOMAIN dir /\ (overtaken = {} => Enough(dir, f))
      BY <1>3, <1>4, <1>5 DEF InDir, ListOK
  <2>3. /\ FilesGoOn /\ time' \in 0..MaxTick /\ \A q \in Instance : KeepsOwn(q)
        /\ Directory(dir', clock') /\ DOMAIN dir' \cup pruned' \subseteq DOMAIN inside'
        /\ KeepsNewest
      BY <1>2, <2>1, <2>2, RemoveGoesOn
  <2>4. ListOK(old)' /\ bdata'[w].old = old
      BY <1>1, <1>3, <2>1, <2>3, ListStays DEF BackupsInv, ArchiveOK, Directory
  <2>5. WorkerHolds(w)'
      BY <1>2, <1>3, <2>1, <2>4 DEF WorkerHolds, ListOK, Enough
  <2>6. HoldersOK' BY <1>2, <2>1, <2>3, <2>5, OthersHold
  <2>7. WritersApart' /\ RestoreFindsDocuments' /\ SuccessHasTarball'
    <3>1. UNCHANGED <<inside, rewritten>> BY <2>1 DEF RemoveTarball
    <3>2. WritersApart' BY <2>1, <3>1, ApartStays DEF BackupsInv, ArchiveOK
    <3>3. RestoreFindsDocuments'
        BY <1>2, <3>1, RestoreStays DEF BackupsInv, ArchiveOK, docVars
    <3>4. SuccessHasTarball' BY <1>2, <2>3, SuccessStays DEF BackupsInv, ArchiveOK
    <3> QED BY <3>2, <3>3, <3>4
  <2>8. ArchiveOK'
      BY <1>2, <2>1, <2>3, <2>7 DEF BackupsInv, ArchiveOK, Moves
  <2>9. DocumentsInv' BY <1>2, DocumentsFrame DEF BackupsInv
  <2> QED BY <2>3, <2>6, <2>8, <2>9 DEF BackupsInv
<1>6. CASE ~InDir(f)
  <2>1. /\ UNCHANGED tarVars /\ bpc'[w] = "prune_file" /\ bdata'[w] = ListLeft(w) /\ Moves(w)
      BY <1>0, <1>6, GoOnOK DEF PruneFile, BackupsInv
  <2>2. PICK less : less = Rest(old) OBVIOUS
  <2>3. ListOK(less)' /\ bdata'[w].old = less
    <3>1. DOMAIN less \subseteq DOMAIN old /\ \A g \in DOMAIN less : less[g] = old[g]
        BY <2>2, RestOf
    <3>2. ListOK(less) BY ONLY <1>3, <3>1, ListShrinks
    <3>3. bdata'[w].old = less BY <1>1, <2>1, <2>2 DEF ListLeft
    <3>4. UNCHANGED <<tarVars, clock>> BY <1>2, <2>1
    <3> QED BY <3>2, <3>3, <3>4, SameList
  <2>4. WorkerHolds(w)'
      BY <1>2, <1>3, <2>1, <2>3 DEF WorkerHolds, ListOK, Enough
  <2>5. SuccessHasTarball' BY <1>2, <2>1, QuietSuccess
  <2>6. BackupsInv'
      BY <1>2, <2>1, <2>4, <2>5, WorkerOnly DEF BackupsInv, ArchiveOK
  <2> QED BY <2>1, <2>6 DEF KeepsNewest, tarVars
<1> QED BY <1>5, <1>6

-----------------------------------------------------------------------------
(* Manual backups: the workers stay where they are. *)
LEMMA ManualMoves ==
    ASSUME BackupsInv, UNCHANGED backend, NEW n \in 1..MaxManual, NEW label, NEW CONSTANT old,
           ManualAt(n, label, old), UNCHANGED workerVars, FilesGoOn, time' \in 0..MaxTick,
           \A q \in Instance : KeepsOwn(q), ListOK(old)', Directory(dir', clock'),
           DOMAIN dir' \cup pruned' \subseteq DOMAIN inside', RestoreFindsDocuments'
    PROVE  BackupsInv'
<1>0. UNCHANGED <<reqVars, docVars, time, next, bpc, bdata, ran>> BY DEF workerVars
<1>1. DOMAIN manual = 1..MaxManual BY DEF BackupsInv, ArchiveOK
<1>2. /\ DOMAIN manual' = 1..MaxManual /\ manual'[n].old = old
      /\ \A m \in 1..MaxManual : m # n => manual'[m] = manual[m]
    BY <1>1 DEF ManualAt
<1>3. ASSUME NEW m \in 1..MaxManual PROVE ManualHolds(m)'
  <2>1. CASE m = n BY <1>2, <2>1 DEF ManualHolds, ListOK, Enough
  <2>2. CASE m # n BY <1>2, <2>2, ManualStays
  <2> QED BY <2>1, <2>2
<1>4. \A q \in Instance : WorkerHolds(q)' BY <1>0, WorkersHold
<1>5. WritersApart' BY <1>0 DEF BackupsInv, ArchiveOK, WritersApart, FilesGoOn
<1>6. SuccessHasTarball' BY <1>0, SuccessStays DEF BackupsInv, ArchiveOK
<1>7. ArchiveOK'
    BY <1>0, <1>2, <1>5, <1>6 DEF BackupsInv, ArchiveOK
<1>8. DocumentsInv' BY <1>0, DocumentsFrame DEF BackupsInv
<1> QED BY <1>3, <1>4, <1>7, <1>8 DEF BackupsInv, HoldersOK

(* The steps that touch no file. *)
LEMMA ManualQuietOK ==
    ASSUME BackupsInv, UNCHANGED backend, NEW n \in 1..MaxManual, NEW label, NEW old,
           ManualAt(n, label, old), UNCHANGED <<workerVars, tarVars, clock>>, ListOK(old)
    PROVE  BackupsInv' /\ KeepsNewest
<1>0. UNCHANGED <<docVars, time, dir, inside, pruned>> BY DEF workerVars, tarVars
<1>1. PICK lst : lst = old OBVIOUS
<1>2. ListOK(lst)' BY <1>1, SameList
<1>3. time <= time' /\ time' \in 0..MaxTick
    BY <1>0, BackupsAssumption DEF BackupsInv, ArchiveOK
<1>4. FilesGoOn /\ \A q \in Instance : KeepsOwn(q)
    BY <1>0, <1>3, NothingHappens DEF BackupsInv
<1>5. RestoreFindsDocuments'
    BY <1>0, RestoreStays DEF BackupsInv, ArchiveOK, docVars
<1>6. Directory(dir', clock') /\ DOMAIN dir' \cup pruned' \subseteq DOMAIN inside'
    BY <1>0 DEF BackupsInv, ArchiveOK
<1>7. BackupsInv' BY <1>1, <1>2, <1>3, <1>4, <1>5, <1>6, ManualMoves
<1> QED BY <1>0, <1>7 DEF KeepsNewest

LEMMA ManualWriteOK ==
    ASSUME BackupsInv, UNCHANGED backend, NEW n \in 1..MaxManual, ManualWrite(n)
    PROVE  BackupsInv' /\ KeepsNewest
<1>0. PICK f : f = SqlFile(n) OBVIOUS
<1>1. PICK content : content = [rows |-> {}, files |-> {}, whole |-> TRUE] OBVIOUS
<1>2. /\ WriteFile(f, content) /\ ManualAt(n, "insert", NoList)
      /\ UNCHANGED <<workerVars, rewritten>>
    BY <1>0, <1>1 DEF ManualWrite
<1>3. UNCHANGED <<docVars, time>> BY <1>2 DEF workerVars
<1>4. content.whole /\ content.rows = {} BY <1>1
<1>5. /\ FilesGoOn /\ time' \in 0..MaxTick
      /\ Directory(dir', clock') /\ DOMAIN dir' = DOMAIN dir \cup {f}
      /\ DOMAIN inside' = DOMAIN inside \cup {f}
      /\ DOMAIN dir' \cup pruned' \subseteq DOMAIN inside' /\ inside'[f] = content
      /\ \A g \in DOMAIN dir \ {f} : dir'[g] = dir[g]
      /\ \A g \in DOMAIN inside \ {f} : inside'[g] = inside[g]
  <2>1. rewritten \subseteq rewritten' BY <1>2
  <2> QED BY <1>2, <1>3, <1>4, <2>1, WriteGoesOn
<1>6. ASSUME NEW q \in Instance PROVE KeepsOwn(q)
  <2>1. Tarball(bdata[q].tick) # f BY <1>0 DEF Tarball, SqlFile
  <2> QED BY <1>5, <2>1 DEF KeepsOwn
<1>7. RestoreFindsDocuments'
  <2>1. RestoreFindsDocuments /\ removal' = removal
      BY <1>3 DEF BackupsInv, ArchiveOK, docVars
  <2>2. content.rows \ removal \subseteq content.files BY <1>4
  <2> QED BY <1>5, <2>1, <2>2, RestoreWritten
<1>8. PICK lst : lst = NoList OBVIOUS
<1>9. ListOK(lst)' BY <1>8 DEF NoList, ListOK
<1>10. BackupsInv' BY <1>2, <1>5, <1>6, <1>7, <1>8, <1>9, ManualMoves
<1> QED BY <1>5, <1>10 DEF KeepsNewest

LEMMA ManualPruneOK ==
    ASSUME BackupsInv, UNCHANGED backend, NEW n \in 1..MaxManual, ManualPrune(n)
    PROVE  BackupsInv' /\ KeepsNewest
<1>0. PICK old : old = manual[n].old OBVIOUS
<1>1. PICK f : f = FirstOf(old) OBVIOUS
<1>2. PICK less : less = Rest(old) OBVIOUS
<1>3. /\ DOMAIN old # {} /\ ManualAt(n, "prune", less) /\ UNCHANGED <<workerVars, clock>>
      /\ IF InDir(f) THEN RemoveTarball(f) ELSE UNCHANGED tarVars
    BY <1>0, <1>1, <1>2 DEF ManualPrune
<1>4. ListOK(old) /\ DOMAIN old \subseteq OnLists
    BY <1>0, ManualOnLists DEF BackupsInv, HoldersOK, ManualHolds
<1>5. ListOK(less) /\ DOMAIN less \subseteq OnLists
    BY <1>2, <1>4, RestOf, ListShrinks
<1>6. f \in DOMAIN old
    BY <1>1, <1>3, <1>4, FirstOfList DEF ListOK, BackupsInv, ArchiveOK, Directory
<1>7. CASE InDir(f)
  <2>0. UNCHANGED <<docVars, time>> /\ RemoveTarball(f) BY <1>3, <1>7 DEF workerVars
  <2>1. f \in DOMAIN dir /\ (overtaken = {} => Enough(dir, f))
      BY <1>4, <1>6, <1>7 DEF InDir, ListOK
  <2>2. /\ FilesGoOn /\ time' \in 0..MaxTick /\ \A q \in Instance : KeepsOwn(q)
        /\ Directory(dir', clock') /\ DOMAIN dir' \cup pruned' \subseteq DOMAIN inside'
        /\ KeepsNewest
      BY <1>3, <2>0, <2>1, RemoveGoesOn
  <2>3. ListOK(less)'
      BY <1>5, <2>2, ListStays DEF BackupsInv, ArchiveOK, Directory
  <2>4. RestoreFindsDocuments'
      BY <2>0, RestoreStays DEF BackupsInv, ArchiveOK, docVars, RemoveTarball
  <2> QED BY <1>3, <2>2, <2>3, <2>4, ManualMoves
<1>8. CASE ~InDir(f)
    BY <1>3, <1>5, <1>8, ManualQuietOK
<1> QED BY <1>7, <1>8

LEMMA ManualStepOK ==
    ASSUME BackupsInv, UNCHANGED backend, NEW n \in 1..MaxManual, ManualStep(n)
    PROVE  BackupsInv' /\ KeepsNewest
<1>1. CASE ManualInsert(n)
    BY <1>1, ManualQuietOK, NoListOK DEF ManualInsert
<1>2. CASE ManualCutOff(n)
    BY <1>2, ManualQuietOK, NoListOK DEF ManualCutOff
<1>3. CASE ManualList(n)
  <2>1. ListOK(OldOf(dir, ManualKeep))
      BY OldOfOK, LeastKeptNat, BackupsAssumption DEF BackupsInv
  <2> QED BY <1>3, <2>1, ManualQuietOK DEF ManualList
<1> QED BY <1>1, <1>2, <1>3, ManualWriteOK, ManualPruneOK DEF ManualStep

LEMMA TickOK ==
    ASSUME BackupsInv, UNCHANGED backend, Tick PROVE BackupsInv'
<1>1. /\ UNCHANGED <<reqVars, docVars, next, bpc, bdata, manual, tarVars, ran, clock>>
      /\ time' = time + 1 /\ time < MaxTick
    BY DEF Tick
<1>2. time' \in 0..MaxTick /\ time <= time'
    BY <1>1, BackupsAssumption DEF BackupsInv, ArchiveOK
<1>3. FilesGoOn /\ \A q \in Instance : KeepsOwn(q)
    BY <1>1, <1>2, NothingHappens DEF BackupsInv
<1>4. HoldersOK'
    BY <1>1, <1>2, <1>3, WorkersHold, ManualStays DEF HoldersOK
<1>5. ArchiveOK'
    BY <1>1, <1>2
    DEF BackupsInv, ArchiveOK, Directory, RestoreFindsDocuments, SuccessHasTarball, WholeFile,
        WritersApart, docVars, tarVars
<1> QED BY <1>1, <1>4, <1>5, DocumentsFrame DEF BackupsInv

LEMMA VerifyLatestOK ==
    ASSUME BackupsInv, UNCHANGED backend, VerifyLatest PROVE BackupsInv'
<1>1. /\ UNCHANGED <<reqVars, docVars, time, next, bpc, bdata, manual, tarVars>>
      /\ Finish("verification", IF Restores(Latest) THEN "success" ELSE "failed", Latest)
    BY DEF VerifyLatest
<1>0. UNCHANGED <<dir, inside, pruned, rewritten>> BY <1>1 DEF tarVars
<1>2. SuccessHasTarball' /\ clock' = clock + 1
    BY <1>1, FinishOK DEF BackupsInv, ArchiveOK, Restores, InDir, OnRecord, WholeFile
<1>3. time' \in 0..MaxTick /\ time <= time'
    BY <1>1, BackupsAssumption DEF BackupsInv, ArchiveOK
<1>4. FilesGoOn /\ \A q \in Instance : KeepsOwn(q)
    BY <1>1, <1>2, <1>3, NothingHappens DEF BackupsInv
<1>5. HoldersOK'
    BY <1>1, <1>3, <1>4, WorkersHold, ManualStays DEF HoldersOK
<1>6. Directory(dir', clock')
    BY <1>0, <1>2 DEF BackupsInv, ArchiveOK, Directory
<1>7. ArchiveOK'
    BY <1>0, <1>1, <1>2, <1>3, <1>6
    DEF BackupsInv, ArchiveOK, RestoreFindsDocuments, WritersApart, docVars
<1> QED BY <1>1, <1>5, <1>7, DocumentsFrame DEF BackupsInv

(* Files leave the store by REST removals only. *)
LEMMA FilesLeaveByRemoval ==
    ASSUME DocumentsInv, DocumentsNext
    PROVE  removal \subseteq removal' /\ blob \ removal' \subseteq blob'
<1> DEFINE Goal == removal \subseteq removal' /\ blob \ removal' \subseteq blob'
<1>1. ASSUME NEW r \in Req, RemoveFile(r) PROVE Goal
    BY <1>1 DEF RemoveFile, DocumentsInv, PaperHeld
<1>2. ASSUME NEW r \in Req, UploadFile(r) \/ UploadRow(r) \/ BindWrite(r) \/ RemoveRow(r) PROVE Goal
    BY <1>2 DEF UploadFile, UploadRow, BindWrite, RemoveRow
<1>3. ASSUME NEW r \in Req, NEW d, NEW t, NEW u,
             \/ UploadBegin(r, d, t, u) \/ ApiDocumentCreate(r, d, t, u)
             \/ SaveInlineDocument(r, d, t, u) \/ UploadUnbound(r, d, u) \/ BindRead(r, d, t)
      PROVE  Goal
    BY <1>3 DEF UploadBegin, ApiDocumentCreate, SaveInlineDocument, UploadUnbound, Sending,
        BindRead, docVars
<1>4. ASSUME NEW r \in Req, NEW d, Delete(r, d) \/ RemoveRead(r, d) \/ OcrRun(r, d) PROVE Goal
    BY <1>4 DEF Delete, RemoveRead, OcrRun
<1>5. ASSUME NEW r \in Req, DocumentsCutOff(r) PROVE Goal
    BY <1>5 DEF DocumentsCutOff, docVars
<1>6. ASSUME NEW d, NEW x, OcrFinish(d, x) \/ DeleteTransaction(d) \/ OcrTasksLost PROVE Goal
    BY <1>6 DEF OcrFinish, DeleteTransaction, OcrTasksLost
<1> HIDE DEF Goal
<1>7. Goal
    BY <1>1, <1>2, <1>3, <1>4, <1>5, <1>6 DEF DocumentsNext, DocumentStep
<1> QED BY <1>7 DEF Goal

LEMMA DocumentsUnderBackups ==
    ASSUME BackupsInv, DocumentsNext, UNCHANGED backupVars PROVE BackupsInv'
<1>1. UNCHANGED <<time, next, bpc, bdata, backend, manual, dir, inside, ran, clock, pruned,
                  rewritten, overtaken>>
    BY DEF backupVars, tarVars
<1>2. removal \subseteq removal' /\ blob \ removal' \subseteq blob'
    BY FilesLeaveByRemoval DEF BackupsInv
<1>3. DocumentsInv' BY DocumentsNextOK DEF BackupsInv
<1>4. time' \in 0..MaxTick /\ time <= time'
    BY <1>1, BackupsAssumption DEF BackupsInv, ArchiveOK
<1>5. FilesGoOn /\ \A q \in Instance : KeepsOwn(q)
    BY <1>1, <1>2, <1>4 DEF FilesGoOn, KeepsOwn, OnRecord, WholeFile
<1>6. HoldersOK'
    BY <1>1, <1>4, <1>5, WorkersHold, ManualStays DEF HoldersOK
<1>7. RestoreFindsDocuments'
    BY <1>1, <1>2, RestoreStays DEF BackupsInv, ArchiveOK
<1>8. ArchiveOK'
    BY <1>1, <1>2, <1>7
    DEF BackupsInv, ArchiveOK, Directory, SuccessHasTarball, WholeFile, WritersApart
<1> QED BY <1>3, <1>6, <1>8 DEF BackupsInv

LEMMA WorkersNextOK ==
    ASSUME BackupsInv, WorkersNext PROVE BackupsInv' /\ KeepsNewest
<1>0. UNCHANGED backend BY DEF WorkersNext
<1>1. CASE Tick
    BY <1>0, <1>1, TickOK DEF Tick, KeepsNewest, tarVars
<1>2. CASE VerifyLatest
    BY <1>0, <1>2, VerifyLatestOK DEF VerifyLatest, KeepsNewest, tarVars
<1>3. ASSUME NEW n \in 1..MaxManual, ManualStep(n) PROVE BackupsInv' /\ KeepsNewest
    BY <1>0, <1>3, ManualStepOK
<1>4. ASSUME NEW w \in Instance, PruneFile(w) PROVE BackupsInv' /\ KeepsNewest
    BY <1>0, <1>4, PruneFileOK
<1>5. ASSUME NEW w \in Instance, PersistOpen(w) \/ PersistWrite(w)
      PROVE  BackupsInv' /\ KeepsNewest
  <2>1. DOMAIN dir \subseteq DOMAIN dir'
      BY <1>5 DEF PersistOpen, PersistWrite, WriteFile, With, tarVars
  <2> QED BY <1>0, <1>5, <2>1, PersistOpenOK, PersistWriteOK DEF KeepsNewest
<1>6. ASSUME NEW w \in Instance,
             \/ RunStart(w) \/ RunFails(w) \/ DumpDatabase(w) \/ PackDocuments(w)
             \/ InsertBackup(w) \/ MarkSuccess(w) \/ PruneList(w) \/ PruneRows(w)
             \/ RunOver(w) \/ Restart(w)
      PROVE  BackupsInv' /\ KeepsNewest
  <2>1. dir' = dir
      BY <1>6 DEF RunStart, RunFails, DumpDatabase, PackDocuments, InsertBackup, MarkSuccess,
         PruneList, PruneRows, RunOver, Restart, tarVars
  <2>2. BackupsInv'
      BY <1>0, <1>6, RunStartOK, RunFailsOK, DumpDatabaseOK, PackDocumentsOK, InsertBackupOK,
         MarkSuccessOK, PruneListOK, PruneRowsOK, RunOverOK, RestartOK
  <2> QED BY <2>1, <2>2 DEF KeepsNewest
<1> QED BY <1>1, <1>2, <1>3, <1>4, <1>5, <1>6 DEF WorkersNext, WorkerStep

LEMMA BackupsInitOK ==
    ASSUME InitRequests, InitDocuments, InitBackups PROVE BackupsInv
<1>1. DocumentsInv BY DocumentsInitOK
<1>2. DOMAIN dir = {} /\ DOMAIN inside = {} /\ IsFiniteSet(DOMAIN dir)
    BY FS_EmptySet DEF InitBackups
<1>3. WritersApart BY DEF InitBackups, WritersApart
<1>4. ArchiveOK
    BY <1>2, <1>3, BackupsAssumption
    DEF InitBackups, ArchiveOK, Directory, RestoreFindsDocuments, SuccessHasTarball
<1>5. \A w \in Instance : WorkerHolds(w)
    BY DEF InitBackups, WorkerHolds, Pruning
<1>6. \A n \in 1..MaxManual : ManualHolds(n)
    BY NoListOK DEF InitBackups, ManualHolds
<1> QED BY <1>1, <1>4, <1>5, <1>6 DEF BackupsInv, HoldersOK

LEMMA BackupsStayOK ==
    ASSUME BackupsInv, UNCHANGED <<reqVars, docVars, backupVars>> PROVE BackupsInv'
<1>1. UNCHANGED <<time, next, bpc, bdata, backend, manual, tarVars, ran, clock>>
    BY DEF backupVars
<1>2. time' \in 0..MaxTick /\ time <= time'
    BY <1>1, BackupsAssumption DEF BackupsInv, ArchiveOK
<1>3. FilesGoOn /\ \A q \in Instance : KeepsOwn(q)
    BY <1>1, <1>2, NothingHappens DEF BackupsInv
<1>4. HoldersOK'
    BY <1>1, <1>2, <1>3, WorkersHold, ManualStays DEF HoldersOK
<1>5. ArchiveOK'
    BY <1>1
    DEF BackupsInv, ArchiveOK, Directory, RestoreFindsDocuments, SuccessHasTarball, WholeFile,
        WritersApart, docVars, tarVars
<1> QED BY <1>4, <1>5, DocumentsFrame DEF BackupsInv

(* The inductive invariant of backups, over every step on documents, REST  *)
(* removals included.                                                      *)
THEOREM BackupsInvariant == BackupsSpec => []BackupsInv
<1>1. ASSUME BackupsInv,
             [WorkersNext \/ (DocumentsNext /\ UNCHANGED backupVars)]_<<reqVars, docVars, backupVars>>
      PROVE  BackupsInv'
    BY <1>1, WorkersNextOK, DocumentsUnderBackups, BackupsStayOK
<1> QED BY <1>1, BackupsInitOK, PTL DEF BackupsSpec

(* A backup that is recorded is there and written to the end, until        *)
(* retention takes it or a second instance opens it again, and, while      *)
(* documents are kept in DOCUMENTS_DIR, can be restored whole              *)
(* (workers/backup.rs, jobs/restore_verify.rs): for any number of          *)
(* instances, of ticks, of manual backups and of documents, and any        *)
(* BACKUP_KEEP, whatever is uploaded or deleted between the dump and the   *)
(* packing, and wherever an instance dies.                                 *)
THEOREM BackupsAreSound == BackupsSpec => []BackupsSound
<1>1. BackupsInv => BackupsSound
  <2> SUFFICES ASSUME BackupsInv PROVE BackupsSound OBVIOUS
  <2>1. BackupsTypeOK
      BY DEF BackupsInv, ArchiveOK, Directory, BackupsTypeOK
  <2> QED BY <2>1 DEF BackupsInv, ArchiveOK, BackupsSound
<1> QED BY <1>1, BackupsInvariant, PTL

(* Retention deletes a file only when LeastKept newer ones stay            *)
(* (workers/backup.rs::prune_dir, handlers/backups.rs::prune_old_backups), *)
(* although workers and manual backups go by lists that may be old, and    *)
(* delete beside each other, until a file on a list is written.            *)
THEOREM PruneKeepsNewestAlways == BackupsSpec => PruneKeepsNewest
<1>1. ASSUME BackupsInv,
             [WorkersNext \/ (DocumentsNext /\ UNCHANGED backupVars)]_<<reqVars, docVars, backupVars>>
      PROVE  [KeepsNewest]_dir
    BY <1>1, WorkersNextOK DEF backupVars, tarVars
<1> QED BY <1>1, BackupsInvariant, PTL DEF BackupsSpec, PruneKeepsNewest, KeepsNewest

-----------------------------------------------------------------------------
(* The REST interface.  A stored answer is that of a call that was         *)
(* executed, with the fingerprint of its body.                             *)
StoredRow(k) ==
    \/ stored[k] = NotStored
    \/ /\ stored[k] = [fp |-> stored[k].fp, call |-> stored[k].call, fresh |-> stored[k].fresh]
       /\ stored[k].call \in Call /\ stored[k].fp = BodyFingerprint(stored[k].call)
       /\ stored[k].fresh \in BOOLEAN

(* Reversals may get any other's answer, creates that of another path. *)
Mixes == {m \in [kind : Kind, differs : {"path", "body"}] :
             m.differs = "body" => m.kind = "reversal"}

StoredOK ==
    /\ DOMAIN stored = Key /\ \A k \in Key : StoredRow(k)
    /\ applied \in [Key -> 0..MaxMade]
    /\ \A k \in Key : Found(k) => applied[k] > 0
    /\ lapsed \cup unsaved \subseteq Key
    /\ mixed \subseteq Mixes

(* A call about to be stored has had its effect in the key's window.  *)
CallHeld(r) ==
    /\ pc[r] \in {"api_execute", "api_store"} =>
          loc[r].on \in Key \cup {NoKey} /\ loc[r].call \in Call
    /\ pc[r] = "api_store" => loc[r].on \in Key /\ applied[loc[r].on] > 0

(* Unless something interfered, the one effect under a key has its answer  *)
(* stored, or a request that is about to store it; and nobody is about to  *)
(* execute another.                                                        *)
OncePer(k) ==
    k \in raced \cup unsaved \cup lapsed
    \/ /\ applied[k] <= 1
       /\ applied[k] = 1 => Found(k) \/ \E r \in Req : pc[r] = "api_store" /\ loc[r].on = k
       /\ \A r \in Req : pc[r] = "api_execute" /\ loc[r].on = k => applied[k] = 0

CallsOK == StoredOK /\ (\A k \in Key : OncePer(k)) /\ \A r \in Req : CallHeld(r)

(* What a client has read is the beginning of the list. *)
Prefix(t, s) == Len(t) <= Len(s) /\ \A i \in 1..Len(t) : t[i] = s[i]
Distinct == \A i, j \in Listed : i # j => names[i] # names[j]

WalkHeld(r) ==
    pc[r] \in {"page", "paged"} =>
        /\ loc[r].on = "list"
        /\ loc[r].offset \in Nat /\ loc[r].limit \in Nat \ {0} /\ loc[r].seen \in Seq(Row)
        /\ ~moved /\ Distinct =>
              /\ pc[r] = "page" => /\ loc[r].offset = Len(loc[r].seen)
                                   /\ \A s \in Sorted : Prefix(loc[r].seen, s)
              /\ pc[r] = "paged" =>
                    \E s \in Sorted : Prefix(loc[r].seen, s) /\ Len(loc[r].seen) = Len(s)

WalksOK == names \in [Row -> Nat] /\ \A r \in Req : WalkHeld(r)

ApiInv == RequestsOK /\ CallsOK /\ WalksOK

-----------------------------------------------------------------------------
(* Lists.  A sorted list has the listed rows, each once. *)
LEMMA SortedLists ==
    ASSUME WalksOK, NEW s \in Sorted
    PROVE  /\ s \in Seq(Row) /\ Len(s) = Cardinality(Listed) /\ Len(s) \in Nat
           /\ s \in [1..Len(s) -> Listed]
           /\ \A i, j \in 1..Len(s) : i # j => s[i] # s[j]
           /\ \A i, j \in 1..Len(s) : i < j => names[s[i]] <= names[s[j]]
           /\ \A x \in Listed : \E i \in 1..Len(s) : s[i] = x
<1>1. IsFiniteSet(Listed) /\ Listed \subseteq Row
    BY ApiAssumption, FS_Subset DEF Listed
<1> DEFINE n == Cardinality(Listed)
<1>2. n \in Nat BY <1>1, FS_CardinalityType
<1>3. s \in [1..n -> Listed] /\ \A i, j \in 1..n : i # j => s[i] # s[j]
    BY DEF Sorted, SetToSeqs
<1>4. s \in Seq(Row) /\ Len(s) = n
    BY <1>1, <1>2, <1>3
<1>5. s \in Surjection(1..n, Listed)
  <2>1. s \in Injection(1..n, Listed)
      BY <1>3 DEF Injection, IsInjective
  <2>2. Cardinality(1..n) = n
      BY <1>2, FS_Interval
  <2> QED BY <1>1, <2>1, <2>2, FS_Injection
<1>6. \A x \in Listed : \E i \in 1..n : s[i] = x
    BY <1>5 DEF Surjection
<1>7. \A i, j \in 1..n : i < j => names[s[i]] <= names[s[j]]
    BY <1>3 DEF Sorted
<1> HIDE DEF n
<1> QED BY <1>2, <1>3, <1>4, <1>6, <1>7 DEF n

(* With distinct names there is one sorted list: where two first differ,   *)
(* each would have the smaller name.                                       *)
LEMMA SortedOnce ==
    ASSUME WalksOK, Distinct, NEW s \in Sorted, NEW t \in Sorted
    PROVE  s = t
<1>1. /\ Len(s) = Len(t) /\ Len(s) \in Nat
      /\ s \in [1..Len(s) -> Listed] /\ t \in [1..Len(s) -> Listed]
      /\ \A i, j \in 1..Len(s) : i # j => s[i] # s[j] /\ t[i] # t[j]
      /\ \A i, j \in 1..Len(s) : i < j => names[s[i]] <= names[s[j]] /\ names[t[i]] <= names[t[j]]
      /\ \A x \in Listed : (\E i \in 1..Len(s) : s[i] = x) /\ \E i \in 1..Len(s) : t[i] = x
    BY SortedLists
<1> SUFFICES ASSUME NEW n \in 1..Len(s), s[n] # t[n] PROVE FALSE
    BY <1>1
<1> DEFINE D == {i \in 1..Len(s) : s[i] # t[i]}
<1>2. PICK d \in D : \A e \in D : d <= e
  <2>1. D \subseteq Nat /\ n \in D
      BY <1>1
  <2> HIDE DEF D
  <2> QED BY <2>1, SmallestNat
<1>3. d \in 1..Len(s) /\ s[d] # t[d] /\ s[d] \in Listed /\ t[d] \in Listed
    BY <1>1, <1>2
<1>4. \A i \in 1..Len(s) : i < d => s[i] = t[i]
    BY <1>1, <1>2
<1>5. PICK j \in 1..Len(s) : t[j] = s[d]
    BY <1>1, <1>3
<1>6. PICK k \in 1..Len(s) : s[k] = t[d]
    BY <1>1, <1>3
<1>7. d < j /\ d < k
    BY <1>1, <1>3, <1>4, <1>5, <1>6
<1>8. names[t[d]] <= names[s[d]] /\ names[s[d]] <= names[t[d]]
    BY <1>1, <1>3, <1>5, <1>6, <1>7
<1>9. names[s[d]] # names[t[d]]
    BY <1>3 DEF Distinct
<1>10. names[s[d]] \in Nat /\ names[t[d]] \in Nat
    BY <1>3 DEF WalksOK, Listed
<1> QED BY <1>8, <1>9, <1>10

(* The smaller of two numbers. *)
LEMMA MinOfTwo ==
    ASSUME NEW a \in Nat, NEW b \in Nat
    PROVE  Min({a, b}) = IF a <= b THEN a ELSE b
    BY DEF Min

(* A part of a list of rows is one, which a walk adds to what it has seen. *)
LEMMA PageIsList ==
    ASSUME NEW s \in Seq(Row), NEW offset \in Nat, NEW m \in Nat, m <= Len(s), NEW seen \in Seq(Row)
    PROVE  /\ SubSeq(s, offset + 1, m) \in Seq(Row) /\ Len(SubSeq(s, offset + 1, m)) \in Nat
           /\ seen \o SubSeq(s, offset + 1, m) \in Seq(Row)
<1> DEFINE page == SubSeq(s, offset + 1, m)
<1>1. CASE offset + 1 <= m
    BY <1>1
<1>2. CASE ~(offset + 1 <= m)
  <2>1. m < offset + 1 /\ m \in Int /\ offset + 1 \in Int BY <1>2
  <2>2. page = <<>> BY <2>1, SubSeqEmpty
  <2> HIDE DEF page
  <2>3. <<>> \in Seq(Row) BY EmptySeq
  <2>4. page \in Seq(Row) BY <2>2, <2>3
  <2>5. seen \o page \in Seq(Row) BY <2>4, ConcatProperties
  <2>6. Len(page) \in Nat BY <2>4, LenProperties
  <2> QED BY <2>4, <2>5, <2>6 DEF page
<1> QED BY <1>1, <1>2

(* A page of limit rows beyond what was read. *)
LEMMA PageReads ==
    ASSUME NEW s \in Seq(Row), NEW t \in Seq(Row), NEW limit \in Nat \ {0}, Prefix(t, s),
           NEW m \in Nat, m = IF Len(s) <= Len(t) + limit THEN Len(s) ELSE Len(t) + limit
    PROVE  LET page == SubSeq(s, Len(t) + 1, m)
           IN  /\ Prefix(t \o page, s)
               /\ Len(t \o page) = Len(t) + Len(page)
               /\ Len(page) < limit => Len(t \o page) = Len(s)
<1> DEFINE page == SubSeq(s, Len(t) + 1, m)
<1>1. Len(s) \in Nat /\ Len(t) \in Nat /\ Len(t) <= Len(s) /\ \A i \in 1..Len(t) : t[i] = s[i]
    BY DEF Prefix
<1>2. Len(t) <= m /\ m <= Len(s)
    BY <1>1
<1>3. page \in Seq(Row) /\ Len(page) = m - Len(t) /\ \A i \in 1..Len(page) : page[i] = s[Len(t) + i]
    BY <1>1, <1>2
<1> HIDE DEF page
<1>4. Len(page) \in Nat BY <1>1, <1>2, <1>3
<1>5. /\ t \o page \in Seq(Row) /\ Len(t \o page) = Len(t) + Len(page)
      /\ \A i \in 1..(Len(t) + Len(page)) :
            (t \o page)[i] = IF i <= Len(t) THEN t[i] ELSE page[i - Len(t)]
    BY <1>3, ConcatProperties
<1>6. \A i \in 1..Len(t \o page) : (t \o page)[i] = s[i]
  <2> SUFFICES ASSUME NEW i \in 1..(Len(t) + Len(page)) PROVE (t \o page)[i] = s[i]
      BY <1>5
  <2>1. CASE i <= Len(t) BY <2>1, <1>1, <1>4, <1>5
  <2>2. CASE i > Len(t)
    <3>1. (t \o page)[i] = page[i - Len(t)] /\ i - Len(t) \in 1..Len(page)
        BY <2>2, <1>1, <1>4, <1>5
    <3> QED BY <3>1, <1>1, <1>3
  <2> QED BY <2>1, <2>2, <1>1, <1>4
<1>7. Prefix(t \o page, s)
    BY <1>1, <1>2, <1>3, <1>5, <1>6 DEF Prefix
<1>8. Len(page) < limit => Len(t \o page) = Len(s)
    BY <1>1, <1>2, <1>3, <1>4, <1>5
<1> QED BY <1>5, <1>7, <1>8 DEF page

-----------------------------------------------------------------------------
(* Frames. *)
CallLabels == {"api_execute", "api_store"}
WalkLabels == {"page", "paged"}

LEMMA CallsFrame ==
    ASSUME CallsOK, NEW r \in Req, Keeps(r), UNCHANGED <<stored, mixed, applied, lapsed, unsaved>>,
           \/ pc[r] \notin CallLabels /\ pc'[r] \notin CallLabels
           \/ pc'[r] = pc[r] /\ loc'[r] = loc[r]
    PROVE  CallsOK'
<1>1. \A q \in Req : pc[q] \in CallLabels \/ pc'[q] \in CallLabels => pc'[q] = pc[q] /\ loc'[q] = loc[q]
    BY DEF Keeps
<1>2. StoredOK' BY DEF CallsOK, StoredOK, StoredRow, Found
<1>3. \A q \in Req : CallHeld(q)'
    BY <1>1 DEF CallsOK, CallHeld, CallLabels
<1>4. ASSUME NEW k \in Key PROVE OncePer(k)'
  <2>1. Found(k)' <=> Found(k) BY DEF Found
  <2>2. raced \subseteq raced' BY DEF Keeps
  <2> QED BY <1>1, <2>1, <2>2 DEF CallsOK, OncePer, CallLabels
<1> QED BY <1>2, <1>3, <1>4 DEF CallsOK

LEMMA WalksFrame ==
    ASSUME WalksOK, UNCHANGED <<names, moved>>,
           \A q \in Req : pc'[q] \in WalkLabels => pc'[q] = pc[q] /\ loc'[q] = loc[q]
    PROVE  WalksOK'
<1>1. Sorted' = Sorted /\ (Distinct' <=> Distinct)
    BY DEF Sorted, Distinct, Listed
<1> QED BY <1>1 DEF WalksOK, WalkHeld, WalkLabels

LEMMA WalksApart ==
    ASSUME ApiInv, NEW r \in Req, Keeps(r), UNCHANGED <<names, moved>>, pc'[r] \notin WalkLabels
    PROVE  WalksOK'
    BY WalksFrame DEF ApiInv, Keeps

-----------------------------------------------------------------------------
(* Calls with a key. *)
LEMMA ApiCallOK ==
    ASSUME ApiInv, NEW r \in Req, NEW k \in Key \cup {NoKey}, NEW call \in Call, ApiCall(r, k, call)
    PROVE  ApiInv'
<1>1. CASE Found(k)
  <2>1. StaysOrEnds(r) /\ UNCHANGED <<pc, loc>> /\ RequestsOK'
      BY <1>1, ServeKeeps DEF ApiCall, ApiInv, StaysOrEnds, Keeps
  <2>2. WalksOK'
      BY <2>1, WalksFrame DEF ApiInv, ApiCall
  <2>3. k \in Key /\ stored[k] # NotStored BY <1>1 DEF Found
  <2>4. mixed' \subseteq Mixes
    <3> DEFINE new == {[kind |-> call.kind, differs |-> x] :
                          x \in {x \in {"path", "body"} : stored[k].call[x] # call[x]}}
    <3>1. mixed' = mixed \/ (stored[k].fp = BodyFingerprint(call) /\ mixed' = mixed \cup new)
        BY <1>1 DEF ApiCall
    <3>2. mixed \subseteq Mixes BY DEF ApiInv, CallsOK, StoredOK
    <3>3. stored[k].call \in Call /\ stored[k].fp = BodyFingerprint(stored[k].call)
        BY <2>3 DEF ApiInv, CallsOK, StoredOK, StoredRow
    <3>4. call.body # "empty" /\ stored[k].call.body # "empty" /\ call.kind \in Kind
        BY <3>3, ApiAssumption DEF Call
    <3>5. ASSUME stored[k].fp = BodyFingerprint(call), stored[k].call.body # call.body
          PROVE  call.kind = "reversal"
        BY <3>3, <3>4, <3>5 DEF BodyFingerprint
    <3>6. ASSUME stored[k].fp = BodyFingerprint(call) PROVE new \subseteq Mixes
      <4> SUFFICES ASSUME NEW x \in {"path", "body"}, stored[k].call[x] # call[x]
                   PROVE  [kind |-> call.kind, differs |-> x] \in Mixes
          OBVIOUS
      <4>1. x = "body" => stored[k].call.body # call.body OBVIOUS
      <4> QED BY <3>4, <3>5, <3>6, <4>1 DEF Mixes
    <3> HIDE DEF new
    <3> QED BY <3>1, <3>2, <3>6
  <2>5. StoredOK' BY <2>4 DEF ApiCall, ApiInv, CallsOK, StoredOK, StoredRow, Found
  <2>6. (\A q \in Req : CallHeld(q)') /\ \A j \in Key : OncePer(j)'
      BY <2>1 DEF ApiCall, ApiInv, CallsOK, CallHeld, OncePer, Found, StaysOrEnds, Keeps
  <2> QED BY <2>1, <2>2, <2>5, <2>6 DEF ApiInv, CallsOK
<1>2. CASE ~Found(k)
  <2>1. /\ Keeps(r) /\ RequestsOK' /\ pc[r] = "idle" /\ pc'[r] = "api_execute"
        /\ loc'[r] = [on |-> k, call |-> call] /\ (WorkingOn(k) # {} => k \in raced')
      BY <1>2, BeginKeeps DEF ApiCall, ApiInv, Keeps
  <2>2. WalksOK'
    <3>1. pc'[r] \notin WalkLabels BY <2>1 DEF WalkLabels
    <3> QED BY <2>1, <3>1, WalksApart DEF ApiCall
  <2>3. StoredOK' BY <1>2 DEF ApiCall, ApiInv, CallsOK, StoredOK, StoredRow, Found
  <2>4. \A q \in Req : CallHeld(q)'
      BY <1>2, <2>1 DEF ApiCall, ApiInv, CallsOK, CallHeld, Keeps
  <2>5. ASSUME NEW j \in Key, j # k PROVE OncePer(j)'
      BY <1>2, <2>1, <2>5 DEF ApiCall, ApiInv, CallsOK, OncePer, Found, Keeps
  <2>6. k \in Key => OncePer(k)'
    <3> SUFFICES ASSUME k \in Key, k \notin raced' \cup unsaved \cup lapsed PROVE OncePer(k)'
        BY <1>2 DEF ApiCall, OncePer
    <3>1. WorkingOn(k) = {} /\ k \notin raced \cup unsaved \cup lapsed BY <2>1 DEF Keeps
    <3>2. \A q \in Req : ~(pc[q] \in CallLabels /\ loc[q].on = k)
        BY <3>1 DEF WorkingOn, Busy, CallLabels
    <3>3. applied[k] = 0
      <4>1. applied[k] \in Nat BY DEF ApiInv, CallsOK, StoredOK
      <4> QED BY <1>2, <3>1, <3>2, <4>1 DEF ApiInv, CallsOK, OncePer, CallLabels
    <3> QED BY <1>2, <3>3 DEF ApiCall, OncePer
  <2> QED BY <2>1, <2>2, <2>3, <2>4, <2>5, <2>6 DEF ApiInv, CallsOK
<1> QED BY <1>1, <1>2

LEMMA ApiExecuteOK ==
    ASSUME ApiInv, NEW r \in Req, ApiExecute(r)
    PROVE  ApiInv'
<1> DEFINE k == loc[r].on
<1>0. pc[r] = "api_execute" /\ k \in Key \cup {NoKey} /\ loc[r].call \in Call
    BY DEF ApiExecute, ApiInv, CallsOK, CallHeld
<1>1. CASE End(r) /\ UNCHANGED applied
  <2>1. StaysOrEnds(r) /\ Keeps(r) /\ RequestsOK' /\ pc'[r] = "idle" /\ raced' = raced
      BY <1>1, EndKeeps DEF ApiInv, StaysOrEnds, Keeps
  <2>2. WalksOK'
    <3>1. pc'[r] \notin WalkLabels BY <2>1 DEF WalkLabels
    <3> QED BY <2>1, <3>1, WalksApart DEF ApiExecute
  <2>3. CallsOK'
    <3>1. StoredOK' BY <1>1 DEF ApiExecute, ApiInv, CallsOK, StoredOK, StoredRow, Found
    <3>2. \A q \in Req : CallHeld(q)'
        BY <1>1, <2>1 DEF ApiExecute, ApiInv, CallsOK, CallHeld, Keeps
    <3>3. ASSUME NEW j \in Key PROVE OncePer(j)'
        BY <1>0, <1>1, <2>1 DEF ApiExecute, ApiInv, CallsOK, OncePer, Found, Keeps
    <3> QED BY <3>1, <3>2, <3>3 DEF CallsOK
  <2> QED BY <2>1, <2>2, <2>3 DEF ApiInv
<1>2. CASE /\ k # NoKey /\ applied[k] < MaxMade
           /\ applied' = [applied EXCEPT ![k] = @ + 1]
           /\ Goto(r, "api_store", loc[r])
  <2>1. Keeps(r) /\ RequestsOK' /\ pc'[r] = "api_store" /\ loc'[r] = loc[r] /\ raced' = raced
      BY <1>0, <1>2, GotoKeeps DEF ApiInv, Keeps
  <2>2. WalksOK'
    <3>1. pc'[r] \notin WalkLabels BY <2>1 DEF WalkLabels
    <3> QED BY <2>1, <3>1, WalksApart DEF ApiExecute
  <2>3. k \in Key /\ applied[k] \in Nat /\ MaxMade \in Nat /\ applied'[k] = applied[k] + 1
        /\ \A j \in Key \ {k} : applied'[j] = applied[j]
      BY <1>0, <1>2, ApiAssumption DEF ApiInv, CallsOK, StoredOK
  <2>4. StoredOK'
    <3>1. applied' \in [Key -> 0..MaxMade]
        BY <1>2, <2>3 DEF ApiInv, CallsOK, StoredOK
    <3>2. \A j \in Key : Found(j)' => applied'[j] > 0
        BY <2>3 DEF ApiExecute, ApiInv, CallsOK, StoredOK, Found
    <3> QED BY <3>1, <3>2 DEF ApiExecute, ApiInv, CallsOK, StoredOK, StoredRow
  <2>5. \A q \in Req : CallHeld(q)'
    <3> SUFFICES ASSUME NEW q \in Req PROVE CallHeld(q)'
        OBVIOUS
    <3>1. CASE q = r BY <3>1, <1>0, <2>1, <2>3 DEF CallHeld
    <3>2. CASE q # r
      <4>1. pc'[q] = pc[q] /\ loc'[q] = loc[q] /\ CallHeld(q)
          BY <3>2, <2>1 DEF Keeps, ApiInv, CallsOK
      <4>2. \A j \in Key : applied[j] > 0 => applied'[j] > 0
          BY <2>3
      <4> QED BY <4>1, <4>2 DEF CallHeld
    <3> QED BY <3>1, <3>2
  <2>6. ASSUME NEW j \in Key, j # k PROVE OncePer(j)'
      BY <1>0, <2>1, <2>3, <2>6 DEF ApiExecute, ApiInv, CallsOK, OncePer, Found, Keeps
  <2>7. OncePer(k)'
    <3> SUFFICES ASSUME k \notin raced \cup unsaved \cup lapsed PROVE OncePer(k)'
        BY <2>1 DEF OncePer, ApiExecute
    <3>1. applied[k] = 0 BY <1>0, <2>3 DEF ApiInv, CallsOK, OncePer
    <3>2. \A q \in Req : pc'[q] = "api_execute" => loc'[q].on # k
        BY <1>0, <2>1 DEF ApiInv, RequestsOK, Busy, Keeps
    <3> QED BY <2>1, <2>3, <3>1, <3>2 DEF OncePer
  <2> QED BY <2>1, <2>2, <2>4, <2>5, <2>6, <2>7 DEF ApiInv, CallsOK
<1> QED BY <1>1, <1>2 DEF ApiExecute

(* The answer is stored, unless a row is there. *)
LEMMA IdempotencyStoreOK ==
    ASSUME ApiInv, NEW r \in Req, IdempotencyStore(r)
    PROVE  ApiInv'
<1>0. PICK k \in Key : /\ k = loc[r].on /\ pc[r] = "api_store"
                         /\ loc[r].call \in Call /\ applied[k] > 0
    BY DEF IdempotencyStore, ApiInv, CallsOK, CallHeld
<1>1. Keeps(r) /\ RequestsOK' /\ pc'[r] = "idle" /\ raced' = raced
    BY EndKeeps DEF IdempotencyStore, ApiInv, StaysOrEnds, Keeps
<1>2. WalksOK'
  <2>1. pc'[r] \notin WalkLabels BY <1>1 DEF WalkLabels
  <2> QED BY <1>1, <2>1, WalksApart DEF IdempotencyStore
<1>3. UNCHANGED <<applied, unsaved, mixed>> /\ lapsed \subseteq lapsed' /\ lapsed' \subseteq Key
    BY <1>0 DEF IdempotencyStore, ApiInv, CallsOK, StoredOK
<1>4. /\ DOMAIN stored = Key /\ DOMAIN stored' = Key
      /\ \A j \in Key : StoredRow(j) /\ (j # k => stored'[j] = stored[j])
    BY <1>0 DEF IdempotencyStore, ApiInv, CallsOK, StoredOK
<1>5. stored[k] = NotStored =>
         stored'[k] = [fp |-> BodyFingerprint(loc[r].call), call |-> loc[r].call, fresh |-> TRUE]
    BY <1>0, <1>4 DEF IdempotencyStore
<1>6. stored[k] # NotStored => stored' = stored /\ (~stored[k].fresh => k \in lapsed')
    BY <1>0 DEF IdempotencyStore
<1>7. StoredOK'
  <2>1. ASSUME NEW j \in Key PROVE StoredRow(j)'
    <3>1. CASE j = k /\ stored[k] = NotStored
      <4>1. PICK c \in Call : stored'[j] = [fp |-> BodyFingerprint(c), call |-> c, fresh |-> TRUE]
          BY <3>1, <1>0, <1>5
      <4>2. stored'[j].fp = BodyFingerprint(c) /\ stored'[j].call = c /\ stored'[j].fresh = TRUE
          BY <4>1
      <4> QED BY <4>1, <4>2 DEF StoredRow
    <3>2. CASE j # k \/ stored[k] # NotStored
        BY <3>2, <1>4, <1>6 DEF StoredRow
    <3> QED BY <3>1, <3>2
  <2>2. \A j \in Key : Found(j)' => applied'[j] > 0
      BY <1>0, <1>3, <1>4 DEF ApiInv, CallsOK, StoredOK, Found
  <2> QED BY <1>3, <1>4, <2>1, <2>2 DEF ApiInv, CallsOK, StoredOK
<1>8. \A q \in Req : CallHeld(q)'
    BY <1>1, <1>3 DEF ApiInv, CallsOK, CallHeld, Keeps
<1>9. ASSUME NEW j \in Key, j # k PROVE OncePer(j)'
    BY <1>0, <1>1, <1>3, <1>4, <1>9 DEF ApiInv, CallsOK, OncePer, Found, Keeps
<1>10. OncePer(k)'
  <2> SUFFICES ASSUME k \notin raced' \cup unsaved' \cup lapsed' PROVE OncePer(k)'
      BY DEF OncePer
  <2>1. OncePer(k) /\ k \notin raced \cup unsaved \cup lapsed
      BY <1>0, <1>1, <1>3 DEF ApiInv, CallsOK
  <2>2. Found(k)'
    <3>1. CASE stored[k] = NotStored
      <4>1. stored'[k].fresh /\ stored'[k] # NotStored
          BY <3>1, <1>0, <1>5 DEF NotStored, BodyFingerprint
      <4> QED BY <4>1, <1>0, ApiAssumption DEF Found
    <3>2. CASE stored[k] # NotStored
        BY <3>2, <1>0, <1>6, ApiAssumption DEF Found
    <3> QED BY <3>1, <3>2
  <2>3. \A q \in Req : pc'[q] = "api_execute" /\ loc'[q].on = k => applied[k] = 0
      BY <1>0, <1>1, <2>1 DEF OncePer, Keeps
  <2> QED BY <1>3, <2>1, <2>2, <2>3 DEF OncePer
<1> QED BY <1>1, <1>2, <1>7, <1>8, <1>9, <1>10 DEF ApiInv, CallsOK

(* The window of a key ends while nobody works under it. *)
LEMMA WindowEndsOK ==
    ASSUME ApiInv, NEW k \in Key, WindowEnds(k)
    PROVE  ApiInv'
<1>1. /\ UNCHANGED <<pc, loc, raced, mixed, lapsed, unsaved, names, moved>>
      /\ DOMAIN stored' = Key /\ stored[k] # NotStored /\ StoredRow(k)
      /\ stored' = [stored EXCEPT ![k] = [stored[k] EXCEPT !.fresh = FALSE]]
      /\ applied' = [applied EXCEPT ![k] = 0]
      /\ \A j \in Key \ {k} : stored'[j] = stored[j] /\ applied'[j] = applied[j] /\ StoredRow(j)
    BY DEF WindowEnds, reqVars, ApiInv, CallsOK, StoredOK
<1>2. stored'[k] = [fp |-> stored[k].fp, call |-> stored[k].call, fresh |-> FALSE] /\ applied'[k] = 0
    BY <1>1 DEF StoredRow, ApiInv, CallsOK, StoredOK
<1>3. \A q \in Req : ~(pc[q] \in CallLabels /\ loc[q].on = k)
    BY DEF WindowEnds, WorkingOn, Busy, CallLabels
<1>4. RequestsOK' BY <1>1 DEF ApiInv, RequestsOK, Busy
<1>5. WalksOK' BY <1>1, WalksFrame DEF ApiInv
<1>6. StoredOK'
  <2>1. applied' \in [Key -> 0..MaxMade]
      BY <1>1, ApiAssumption DEF ApiInv, CallsOK, StoredOK
  <2>2. \A j \in Key : StoredRow(j)'
      BY <1>1, <1>2 DEF StoredRow
  <2>3. ~stored'[k].fresh BY <1>2
  <2>4. \A j \in Key : Found(j)' => applied'[j] > 0
      BY <1>1, <2>3 DEF Found, ApiInv, CallsOK, StoredOK
  <2> QED BY <1>1, <2>1, <2>2, <2>4 DEF ApiInv, CallsOK, StoredOK
<1>7. \A q \in Req : CallHeld(q)'
    BY <1>1, <1>3 DEF ApiInv, CallsOK, CallHeld, CallLabels
<1>8. \A j \in Key : OncePer(j)'
    BY <1>1, <1>2, <1>3 DEF ApiInv, CallsOK, OncePer, Found
<1> QED BY <1>4, <1>5, <1>6, <1>7, <1>8 DEF ApiInv, CallsOK

(* The purge takes only answers that are not replayed any more. *)
LEMMA PurgeExpiredIdempotencyOK ==
    ASSUME ApiInv, PurgeExpiredIdempotency
    PROVE  ApiInv'
<1>1. /\ UNCHANGED <<pc, loc, raced, mixed, applied, lapsed, unsaved, names, moved>>
      /\ DOMAIN stored' = Key
      /\ \A j \in Key : \/ stored'[j] = stored[j]
                        \/ stored'[j] = NotStored /\ stored[j] # NotStored /\ ~stored[j].fresh
    BY DEF PurgeExpiredIdempotency, reqVars
<1>2. RequestsOK' BY <1>1 DEF ApiInv, RequestsOK, Busy
<1>3. WalksOK' BY <1>1, WalksFrame DEF ApiInv
<1>4. \A j \in Key : Found(j)' <=> Found(j)
    BY <1>1 DEF Found
<1>5. StoredOK' BY <1>1, <1>4 DEF ApiInv, CallsOK, StoredOK, StoredRow
<1>6. (\A q \in Req : CallHeld(q)') /\ \A j \in Key : OncePer(j)'
    BY <1>1, <1>4 DEF ApiInv, CallsOK, CallHeld, OncePer
<1> QED BY <1>2, <1>3, <1>5, <1>6 DEF ApiInv, CallsOK

(* A call cut off between its effect and the store is in unsaved. *)
LEMMA ApiCutOffOK ==
    ASSUME ApiInv, NEW r \in Req, ApiCutOff(r)
    PROVE  ApiInv'
<1>1. Keeps(r) /\ RequestsOK' /\ pc'[r] = "idle" /\ raced' = raced
    BY EndKeeps DEF ApiCutOff, CutOff, ApiInv, StaysOrEnds, Keeps
<1>2. WalksOK'
  <2>1. pc'[r] \notin WalkLabels BY <1>1 DEF WalkLabels
  <2> QED BY <1>1, <2>1, WalksApart DEF ApiCutOff
<1>3. /\ UNCHANGED <<stored, mixed, applied, lapsed>> /\ unsaved \subseteq unsaved' /\ unsaved' \subseteq Key
      /\ pc[r] = "api_store" => loc[r].on \in unsaved'
    BY DEF ApiCutOff, ApiInv, CallsOK, StoredOK, CallHeld
<1>4. \A j \in Key : Found(j)' <=> Found(j)
    BY <1>3 DEF Found
<1>5. StoredOK' BY <1>3, <1>4 DEF ApiInv, CallsOK, StoredOK, StoredRow
<1>6. \A q \in Req : CallHeld(q)'
    BY <1>1, <1>3 DEF ApiInv, CallsOK, CallHeld, Keeps
<1>7. \A j \in Key : OncePer(j)'
    BY <1>1, <1>3, <1>4 DEF ApiInv, CallsOK, OncePer, Keeps
<1> QED BY <1>1, <1>2, <1>5, <1>6, <1>7 DEF ApiInv, CallsOK

-----------------------------------------------------------------------------
(* Paging.  A row inserted while nobody pages leaves no walk to be wrong. *)
LEMMA ListInsertOK ==
    ASSUME ApiInv, ListInsert
    PROVE  ApiInv'
<1>1. UNCHANGED <<pc, loc, raced, stored, mixed, applied, lapsed, unsaved>>
    BY DEF ListInsert, reqVars
<1>2. RequestsOK' BY <1>1 DEF ApiInv, RequestsOK, Busy
<1>3. CallsOK' BY <1>1 DEF ApiInv, CallsOK, StoredOK, StoredRow, CallHeld, OncePer, Found
<1>4. names' \in [Row -> Nat]
    BY ApiAssumption DEF ListInsert, ApiInv, WalksOK
<1>5. \A r \in Req : pc[r] \in WalkLabels => moved'
    BY DEF ListInsert, Busy, WalkLabels
<1>6. \A r \in Req : WalkHeld(r)'
    BY <1>1, <1>5 DEF ApiInv, WalksOK, WalkHeld, WalkLabels
<1> QED BY <1>2, <1>3, <1>4, <1>6 DEF ApiInv, WalksOK

(* A client begins with the first page. *)
LEMMA WalkBeginOK ==
    ASSUME ApiInv, NEW r \in Req, WalkBegin(r)
    PROVE  ApiInv'
<1>1. PICK limit \in PageLimits :
         Begin(r, "page", [on |-> "list", offset |-> 0, limit |-> limit, seen |-> <<>>])
    BY DEF WalkBegin, WalkAt
<1> DEFINE d == [on |-> "list", offset |-> 0, limit |-> limit, seen |-> <<>>]
<1>2. Keeps(r) /\ RequestsOK' /\ pc[r] = "idle" /\ pc'[r] = "page" /\ loc'[r] = d
    BY <1>1, BeginKeeps DEF ApiInv, Keeps
<1>3. UNCHANGED <<stored, mixed, applied, lapsed, unsaved, names, moved>>
    BY DEF WalkBegin, apiVars
<1>4. pc[r] \notin CallLabels /\ pc'[r] \notin CallLabels
    BY <1>2 DEF CallLabels
<1>5. CallsOK' BY <1>2, <1>3, <1>4, CallsFrame DEF ApiInv
<1>6. names' \in [Row -> Nat] /\ Sorted' = Sorted /\ (Distinct' <=> Distinct)
    BY <1>3 DEF ApiInv, WalksOK, Sorted, Distinct, Listed
<1>8. \A s \in Sorted : Len(s) \in Nat BY SortedLists DEF ApiInv
<1>9. WalkHeld(r)'
  <2>1. /\ d.offset = 0 /\ d.limit = limit /\ d.seen = <<>> /\ limit \in Nat \ {0}
        /\ <<>> \in Seq(Row) /\ Len(<<>>) = 0
      BY ApiAssumption
  <2>2. \A s \in Sorted : Prefix(<<>>, s) BY <1>8, <2>1 DEF Prefix
  <2> QED BY <1>2, <1>6, <2>1, <2>2 DEF WalkHeld
<1>10. ASSUME NEW q \in Req, q # r PROVE WalkHeld(q)'
    BY <1>2, <1>3, <1>6, <1>10 DEF ApiInv, WalksOK, WalkHeld, Keeps
<1> QED BY <1>2, <1>5, <1>6, <1>9, <1>10 DEF ApiInv, WalksOK

(* A page is read by one client. *)
LEMMA PageStepOK ==
    ASSUME ApiInv, NEW r \in Req, pc[r] = "page", Keeps(r), RequestsOK',
           UNCHANGED <<stored, mixed, applied, lapsed, unsaved, names, moved>>,
           pc'[r] \in WalkLabels, WalkHeld(r)'
    PROVE  ApiInv'
<1>1. pc[r] \notin CallLabels /\ pc'[r] \notin CallLabels
    BY DEF CallLabels, WalkLabels
<1>2. CallsOK' BY <1>1, CallsFrame DEF ApiInv
<1>3. names' \in [Row -> Nat] /\ Sorted' = Sorted /\ (Distinct' <=> Distinct)
    BY DEF ApiInv, WalksOK, Sorted, Distinct, Listed
<1>4. ASSUME NEW q \in Req, q # r PROVE WalkHeld(q)'
    BY <1>3, <1>4 DEF ApiInv, WalksOK, WalkHeld, Keeps
<1> QED BY <1>2, <1>3, <1>4 DEF ApiInv, WalksOK

(* The next page continues the list the pages before it came from. *)
LEMMA PageFromOK ==
    ASSUME ApiInv, NEW r \in Req, PageFrom(r)
    PROVE  ApiInv'
<1> DEFINE d == loc[r]
           Slice(s) == SubSeq(s, d.offset + 1, Min({Len(s), d.offset + d.limit}))
<1>1. PICK s \in Sorted :
         IF Len(Slice(s)) < d.limit
         THEN Goto(r, "paged", WalkAt(d.offset, d.limit, d.seen \o Slice(s)))
         ELSE Goto(r, "page", WalkAt(d.offset + Len(Slice(s)), d.limit, d.seen \o Slice(s)))
    BY DEF PageFrom
<1>2. pc[r] = "page" /\ UNCHANGED <<stored, mixed, applied, lapsed, unsaved, names, moved>>
    BY DEF PageFrom, apiVars
<1>3. /\ d.on = "list"
      /\ d.offset \in Nat /\ d.limit \in Nat \ {0} /\ d.seen \in Seq(Row)
      /\ ~moved /\ Distinct => d.offset = Len(d.seen) /\ \A t \in Sorted : Prefix(d.seen, t)
    BY <1>2 DEF ApiInv, WalksOK, WalkHeld
<1>4. s \in Seq(Row) /\ Len(s) \in Nat BY <1>1, SortedLists DEF ApiInv
<1> DEFINE m == Min({Len(s), d.offset + d.limit})
<1>m. m = (IF Len(s) <= d.offset + d.limit THEN Len(s) ELSE d.offset + d.limit)
  <2>1. d.offset + d.limit \in Nat BY <1>3
  <2> QED BY <1>4, <2>1, MinOfTwo
<1> HIDE DEF m
<1>n. m \in Nat /\ m <= Len(s) BY <1>3, <1>4, <1>m
<1>p. Slice(s) = SubSeq(s, d.offset + 1, m) BY DEF m
<1> HIDE DEF Slice
<1>5. Slice(s) \in Seq(Row) /\ Len(Slice(s)) \in Nat /\ d.seen \o Slice(s) \in Seq(Row)
    BY <1>3, <1>4, <1>n, <1>p, PageIsList
<1>6. ~moved /\ Distinct =>
         /\ Prefix(d.seen \o Slice(s), s)
         /\ Len(d.seen \o Slice(s)) = d.offset + Len(Slice(s))
         /\ Len(Slice(s)) < d.limit => Len(d.seen \o Slice(s)) = Len(s)
  <2> SUFFICES ASSUME ~moved, Distinct
               PROVE  /\ Prefix(d.seen \o Slice(s), s)
                      /\ Len(d.seen \o Slice(s)) = d.offset + Len(Slice(s))
                      /\ Len(Slice(s)) < d.limit => Len(d.seen \o Slice(s)) = Len(s)
      OBVIOUS
  <2>1. Prefix(d.seen, s) /\ d.offset = Len(d.seen)
      BY <1>1, <1>3
  <2>2. Slice(s) = SubSeq(s, Len(d.seen) + 1, m) BY <1>p, <2>1
  <2>3. m = IF Len(s) <= Len(d.seen) + d.limit THEN Len(s) ELSE Len(d.seen) + d.limit
      BY <1>m, <2>1
  <2>4. PICK t \in Seq(Row), limit \in Nat \ {0} : t = d.seen /\ limit = d.limit BY <1>3
  <2>5. /\ Prefix(t \o Slice(s), s) /\ Len(t \o Slice(s)) = Len(t) + Len(Slice(s))
        /\ Len(Slice(s)) < limit => Len(t \o Slice(s)) = Len(s)
    <3>1. /\ Slice(s) = SubSeq(s, Len(t) + 1, m) /\ Prefix(t, s)
          /\ m = IF Len(s) <= Len(t) + limit THEN Len(s) ELSE Len(t) + limit
        BY <2>1, <2>2, <2>3, <2>4
    <3> QED BY <1>4, <1>n, <3>1, PageReads
  <2> QED BY <2>1, <2>4, <2>5
<1>8. CASE Len(Slice(s)) < d.limit
  <2> DEFINE e == [on |-> "list", offset |-> d.offset, limit |-> d.limit, seen |-> d.seen \o Slice(s)]
  <2>1. Goto(r, "paged", e) BY <1>1, <1>8 DEF WalkAt
  <2>2. Keeps(r) /\ RequestsOK' /\ pc'[r] = "paged" /\ loc'[r] = e
    <3>1. pc[r] # "idle" /\ e.on = loc[r].on BY <1>2, <1>3
    <3> QED BY <2>1, <3>1, GotoKeeps DEF ApiInv, Keeps
  <2>3. WalkHeld(r)'
    <3>1. /\ e.offset = d.offset /\ e.limit = d.limit /\ e.seen = d.seen \o Slice(s)
        OBVIOUS
    <3> HIDE DEF e
    <3>2. Sorted' = Sorted /\ (Distinct' <=> Distinct)
        BY <1>2 DEF Sorted, Distinct, Listed
    <3> QED BY <1>1, <1>2, <1>3, <1>5, <1>6, <1>8, <2>2, <3>1, <3>2 DEF WalkHeld, e
  <2>4. pc'[r] \in WalkLabels BY <2>2 DEF WalkLabels
  <2> QED BY <1>2, <2>2, <2>3, <2>4, PageStepOK
<1>9. CASE ~(Len(Slice(s)) < d.limit)
  <2> DEFINE e == [on |-> "list", offset |-> d.offset + Len(Slice(s)), limit |-> d.limit,
                   seen |-> d.seen \o Slice(s)]
  <2>1. Goto(r, "page", e) BY <1>1, <1>9 DEF WalkAt
  <2>2. Keeps(r) /\ RequestsOK' /\ pc'[r] = "page" /\ loc'[r] = e
    <3>1. pc[r] # "idle" /\ e.on = loc[r].on BY <1>2, <1>3
    <3> QED BY <2>1, <3>1, GotoKeeps DEF ApiInv, Keeps
  <2>3. WalkHeld(r)'
    <3>1. /\ e.offset = d.offset + Len(Slice(s)) /\ e.limit = d.limit /\ e.seen = d.seen \o Slice(s)
          /\ e.offset \in Nat
        BY <1>3, <1>5
    <3> HIDE DEF e
    <3>2. Sorted' = Sorted /\ (Distinct' <=> Distinct)
        BY <1>2 DEF Sorted, Distinct, Listed
    <3>3. Distinct => \A t \in Sorted : t = s BY <1>1, SortedOnce DEF ApiInv
    <3> QED BY <1>1, <1>2, <1>3, <1>5, <1>6, <2>2, <3>1, <3>2, <3>3 DEF WalkHeld, e
  <2>4. pc'[r] \in WalkLabels BY <2>2 DEF WalkLabels
  <2> QED BY <1>2, <2>2, <2>3, <2>4, PageStepOK
<1> QED BY <1>8, <1>9

(* The client has its list. *)
LEMMA WalkEndOK ==
    ASSUME ApiInv, NEW r \in Req, WalkEnd(r)
    PROVE  ApiInv'
<1>1. Keeps(r) /\ RequestsOK' /\ pc[r] = "paged" /\ pc'[r] = "idle"
    BY EndKeeps DEF WalkEnd, ApiInv, StaysOrEnds, Keeps
<1>2. UNCHANGED <<stored, mixed, applied, lapsed, unsaved, names, moved>>
    BY DEF WalkEnd, apiVars
<1>3. pc[r] \notin CallLabels /\ pc'[r] \notin CallLabels \cup WalkLabels
    BY <1>1 DEF CallLabels, WalkLabels
<1>4. CallsOK' BY <1>1, <1>2, <1>3, CallsFrame DEF ApiInv
<1>5. WalksOK' BY <1>1, <1>2, <1>3, WalksApart
<1> QED BY <1>1, <1>4, <1>5 DEF ApiInv

-----------------------------------------------------------------------------
(* The invariant holds of every behaviour of the interface: a stored       *)
(* answer is that of a call executed under its key, and each client's      *)
(* pages are the beginning of the list.                                    *)
THEOREM ApiInvariant == ApiSpec => []ApiInv
<1>1. InitRequests /\ InitApi => ApiInv
  <2> SUFFICES ASSUME InitRequests, InitApi PROVE ApiInv
      OBVIOUS
  <2>1. RequestsOK BY InitRequestsOK
  <2>2. \A r \in Req : pc[r] = "idle" BY DEF InitRequests
  <2>3. CallsOK
      BY <2>2, ApiAssumption DEF InitApi, CallsOK, StoredOK, StoredRow, Found, OncePer, CallHeld
  <2>4. WalksOK BY <2>2 DEF InitApi, WalksOK, WalkHeld
  <2> QED BY <2>1, <2>3, <2>4 DEF ApiInv
<1>2. ApiInv /\ [IdempotencyNext \/ PagingNext]_<<reqVars, apiVars>> => ApiInv'
  <2> SUFFICES ASSUME ApiInv, [IdempotencyNext \/ PagingNext]_<<reqVars, apiVars>> PROVE ApiInv'
      OBVIOUS
  <2>1. CASE UNCHANGED <<reqVars, apiVars>>
    <3>1. UNCHANGED <<pc, loc, raced, stored, mixed, applied, lapsed, unsaved, names, moved>>
        BY <2>1 DEF reqVars, apiVars
    <3>2. RequestsOK' BY <3>1 DEF ApiInv, RequestsOK, Busy
    <3>3. CallsOK' BY <3>1 DEF ApiInv, CallsOK, StoredOK, StoredRow, CallHeld, OncePer, Found
    <3>4. WalksOK' BY <3>1, WalksFrame DEF ApiInv
    <3> QED BY <3>2, <3>3, <3>4 DEF ApiInv
  <2>2. CASE IdempotencyNext
      BY <2>2, ApiCallOK, ApiExecuteOK, IdempotencyStoreOK, WindowEndsOK, PurgeExpiredIdempotencyOK,
         ApiCutOffOK DEF IdempotencyNext
  <2>3. CASE PagingNext
      BY <2>3, ListInsertOK, WalkBeginOK, PageFromOK, WalkEndOK DEF PagingNext
  <2> QED BY <2>1, <2>2, <2>3
<1> QED BY <1>1, <1>2, PTL DEF ApiSpec

(* ApiSound of the run files, for any keys, bodies, rows and page limits:  *)
(* a key executes one call in its window and answers only its body, and a  *)
(* client that follows the links reads every row once.                     *)
THEOREM ApiIsSound == ApiSpec => []ApiSound
<1>1. ApiInv => ApiSound
  <2> SUFFICES ASSUME ApiInv PROVE ApiSound
      OBVIOUS
  <2>1. ApiTypeOK
      BY DEF ApiInv, CallsOK, StoredOK, StoredRow, ApiTypeOK, Mixes
  <2>2. AppliedOncePerKey
      BY DEF ApiInv, CallsOK, OncePer, AppliedOncePerKey
  <2>3. ReplayAnswersSameBody
      BY DEF ApiInv, CallsOK, StoredOK, ReplayAnswersSameBody, Mixes
  <2>4. WalkReadsEachRowOnce
    <3> SUFFICES ASSUME NEW r \in Req, pc[r] = "paged", ~moved, Distinct
                 PROVE  Len(loc[r].seen) = Cardinality(Listed) /\ Range(loc[r].seen) = Listed
        BY DEF WalkReadsEachRowOnce, Distinct
    <3> DEFINE t == loc[r].seen
    <3>1. PICK s \in Sorted : Prefix(t, s) /\ Len(t) = Len(s)
        BY DEF ApiInv, WalksOK, WalkHeld
    <3>2. t \in Seq(Row) BY DEF ApiInv, WalksOK, WalkHeld
    <3>3. /\ s \in Seq(Row) /\ Len(s) = Cardinality(Listed) /\ s \in [1..Len(s) -> Listed]
          /\ \A x \in Listed : \E i \in 1..Len(s) : s[i] = x
        BY <3>1, SortedLists DEF ApiInv
    <3>4. \A i \in 1..Len(t) : t[i] = s[i] BY <3>1 DEF Prefix
    <3>5. DOMAIN t = 1..Len(s) BY <3>1, <3>2
    <3>6. Range(t) = {s[i] : i \in 1..Len(s)} BY <3>1, <3>4, <3>5 DEF Range
    <3>7. {s[i] : i \in 1..Len(s)} = Listed BY <3>3
    <3> QED BY <3>1, <3>3, <3>6, <3>7
  <2> QED BY <2>1, <2>2, <2>3, <2>4 DEF ApiSound
<1> QED BY <1>1, ApiInvariant, PTL

-----------------------------------------------------------------------------
(* Rates and their trail: what an override at each of its statements has   *)
(* read still follows the last row of the trail, unless it was overlapped. *)
RateRow == [rate : RateValue, source : {"manual", "ecb"}]

OverrideLabels == {"rate upsert", "rate audit"}

OverrideHeld(q) ==
    pc[q] \in OverrideLabels => loc[q].on \in RateKey /\ loc[q].new \in RateValue

Told(k) == {i \in DOMAIN trail : trail[i].key = k}
LastTold(k, i) == i \in Told(k) /\ \A j \in Told(k) : j <= i

Chained(k) ==
    \A i, j \in Told(k) :
        (i < j /\ \A m \in Told(k) : ~(i < m /\ m < j)) => trail[j].old = trail[i].new

Telling(k) == \E q \in Req : pc[q] = "rate audit" /\ loc[q].on = k

TrailAt(k) ==
    /\ Chained(k)
    /\ Told(k) # {} => rates[k].source = "manual"
    /\ \A q \in Req : pc[q] \in OverrideLabels /\ loc[q].on = k =>
          \A i \in DOMAIN trail : LastTold(k, i) => loc[q].old = trail[i].new
    /\ \A q \in Req : pc[q] = "rate audit" /\ loc[q].on = k =>
          rates[k].source = "manual" /\ rates[k].rate = loc[q].new
    /\ ~Telling(k) =>
          /\ \A i \in DOMAIN trail : LastTold(k, i) => rates[k].rate = trail[i].new
          /\ rates[k].source = "manual" => Told(k) # {}

RatesOK ==
    /\ rates \in [RateKey -> {NoRate} \cup RateRow]
    /\ \E S : trail \in Seq(S)
    /\ \A i \in DOMAIN trail : trail[i].key \in RateKey /\ trail[i].new \in RateValue
    /\ \A q \in Req : OverrideHeld(q)
    /\ \A k \in RateKey \ (raced \cup untold) : TrailAt(k)

(* Lookups: what was read, and that it is the right way round.             *)
ValuedLabels == {"line 1", "line 2", "reval value", "gain", "loss", "insert gain",
                 "insert loss", "reval post"}
GainLabels == {"gain", "loss", "insert gain", "insert loss", "reval post"}
RevalLabels == GainLabels \cup {"reval value", "reval record", "reval check"}
LookLabels == RevalLabels \cup {"lookup", "lookup base", "line 1", "line 2"}

LookData(d) ==
    d = [on |-> d.on, day |-> d.day, next |-> d.next, look |-> d.look, item |-> d.item,
         left |-> d.left, todo |-> d.todo]

Revaluing(q) ==
    \/ pc[q] \in RevalLabels
    \/ pc[q] \in {"lookup", "lookup base"} /\ loc[q].next = "reval value"

Agrees(rate, seen) == rate.num > 0 /\ \A f \in seen : seen = {f} => rate = f

LookHeld(q) ==
    pc[q] \in LookLabels =>
        /\ LookData(loc[q])
        /\ loc[q].day \in FxDay
        /\ pc[q] \in {"lookup", "lookup base"} =>
              loc[q].next \in {"line 1", "line 2", "reval value"}
        /\ pc[q] # "reval check" => loc[q].item.account \in FxAccount
        /\ \A c \in loc[q].left \cup loc[q].todo : c.account \in FxAccount
        /\ pc[q] = "lookup base" =>
              /\ loc[q].look.stored \in RateValue
              /\ \E b \in BOOLEAN : Fraction(loc[q].look.stored, b) \in loc[q].look.seen
        /\ pc[q] \in ValuedLabels => Agrees(loc[q].look.got, loc[q].look.seen)
        /\ pc[q] \in GainLabels => Diff(loc[q]) # 0
        /\ Revaluing(q) => loc[q].on = "reval" /\ loc[q].next = "reval value"

(* Revaluations: a request looks for rows only once, so without an overlap *)
(* the account and month it works on has neither row nor posting.          *)
MonthOfEntry(e) == <<e.account, e.month>>
Current(q) == <<loc[q].item.account, FxMonth[loc[q].day]>>

RevalHeld(q) ==
    /\ \A c, d \in loc[q].left \cup loc[q].todo : c.account = d.account => c = d
    /\ loc[q].left \cap loc[q].todo = {}
    /\ \A c \in loc[q].todo : <<c.account, FxMonth[loc[q].day]>> \notin revaluations
    /\ pc[q] # "reval check" =>
          /\ Current(q) \notin revaluations
          /\ loc[q].left = {}
          /\ \A c \in loc[q].todo : c.account # loc[q].item.account

Recorded(e) ==
    \/ MonthOfEntry(e) \in revaluations \cup unrecorded
    \/ \E q \in Req : pc[q] = "reval record" /\ Current(q) = MonthOfEntry(e)

RevalsOK ==
    "reval" \notin raced =>
        /\ \A i \in DOMAIN fxBook : fxBook[i].kind = "reval" => Recorded(fxBook[i])
        /\ RevaluedOnce
        /\ \A q \in Req : Revaluing(q) => RevalHeld(q)

LookupsOK ==
    /\ \E S : fxBook \in Seq(S)
    /\ \A i \in DOMAIN fxBook :
          /\ fxBook[i].account \in FxAccount /\ fxBook[i].base # 0
          /\ Agrees(fxBook[i].rate, fxBook[i].seen)
    /\ revaluations \subseteq FxAccount \X {FxMonth[d] : d \in FxDay}
    /\ fxAccounts \subseteq {"gain", "loss"}
    /\ \A q \in Req : LookHeld(q)
    /\ RevalsOK

(* Transfers: the first transaction of a pair has been reversed as often   *)
(* as the second, and once more by each request that is between the two.   *)
TransferLabels == {"transfer", "reverse"}
Pairs == Txn \X Txn

Reversing(p, h) == {v \in reversals : v.pair = p /\ v.half = h}
Halfway(p) == {q \in Req : pc[q] = "reverse" /\ loc[q].pair = p /\ loc[q].half = 2}

TransferHeld(q) ==
    /\ pc[q] \in TransferLabels => loc[q].on = "transfers"
    /\ pc[q] = "transfer" => loc[q].id \in Transfer
    /\ pc[q] = "reverse" => loc[q].pair \in Pairs /\ loc[q].half \in {1, 2}

ReversalOK(v) ==
    /\ v.of \in Txn /\ transfers[v.of[1]] # NoTransfer
    /\ v.nth \in Nat /\ v.nth < Cardinality(reversals)
    /\ v.legs = Reversed(transfers[v.of[1]].legs[v.of[2]])

BothSides == [legs |-> [s \in Side |-> SimpleLegs(s)]]

TransfersOK ==
    /\ transfers \in [Transfer -> {NoTransfer, BothSides}]
    /\ IsFiniteSet(reversals)
    /\ \A v \in reversals : ReversalOK(v)
    /\ \A q \in Req : TransferHeld(q)
    /\ \A p \in Pairs \ halved :
          Cardinality(Reversing(p, 1)) = Cardinality(Reversing(p, 2)) + Cardinality(Halfway(p))

ExchangeInv == RequestsOK /\ RatesOK /\ LookupsOK /\ TransfersOK

-----------------------------------------------------------------------------
(* Frames: a part survives a step that leaves its rows alone and neither   *)
(* takes a request from its labels nor puts one there.                     *)
Outside(r, labels) == Keeps(r) /\ pc[r] \notin labels /\ pc'[r] \notin labels

LEMMA RatesFrame ==
    ASSUME RatesOK, NEW r \in Req, Outside(r, OverrideLabels),
           UNCHANGED <<rates, trail>>, untold \subseteq untold'
    PROVE  RatesOK'
<1>1. \A k : Told(k)' = Told(k) BY DEF Told
<1>2. \A k, i : LastTold(k, i)' <=> LastTold(k, i) BY <1>1 DEF LastTold
<1>3. \A k : Chained(k)' <=> Chained(k) BY <1>1 DEF Chained
<1>4. \A q \in Req : \/ pc'[q] = pc[q] /\ loc'[q] = loc[q]
                     \/ pc[q] \notin OverrideLabels /\ pc'[q] \notin OverrideLabels
    BY DEF Outside, Keeps
<1>5. \A k : Telling(k)' <=> Telling(k) BY <1>4 DEF Telling, OverrideLabels
<1>6. \A q \in Req : OverrideHeld(q)' BY <1>4 DEF RatesOK, OverrideHeld
<1>7. ASSUME NEW k \in RateKey \ (raced' \cup untold') PROVE TrailAt(k)'
  <2>1. k \in RateKey \ (raced \cup untold) BY DEF Outside, Keeps
  <2>2. TrailAt(k) BY <2>1 DEF RatesOK
  <2> QED BY <1>1, <1>2, <1>3, <1>4, <1>5, <2>2 DEF TrailAt, OverrideLabels
<1> QED BY <1>6, <1>7 DEF RatesOK

LEMMA LookupsFrame ==
    ASSUME LookupsOK, NEW r \in Req, Outside(r, LookLabels),
           UNCHANGED <<fxBook, revaluations, fxAccounts>>, unrecorded \subseteq unrecorded'
    PROVE  LookupsOK'
<1>1. \A q \in Req : \/ pc'[q] = pc[q] /\ loc'[q] = loc[q]
                     \/ pc[q] \notin LookLabels /\ pc'[q] \notin LookLabels
    BY DEF Outside, Keeps
<1>2. \A q \in Req : /\ Revaluing(q)' <=> Revaluing(q)
                     /\ Revaluing(q) => pc[q] \in LookLabels
    BY <1>1 DEF Revaluing, LookLabels, RevalLabels
<1>3. \A q \in Req : LookHeld(q)' BY <1>1, <1>2 DEF LookupsOK, LookHeld
<1>4. RevalsOK'
  <2> SUFFICES ASSUME "reval" \notin raced' PROVE RevalsOK' BY DEF RevalsOK
  <2>1. "reval" \notin raced BY DEF Outside, Keeps
  <2>2. RevaluedOnce' BY <2>1 DEF LookupsOK, RevalsOK, RevaluedOnce
  <2>3. ASSUME NEW q \in Req, Revaluing(q)' PROVE RevalHeld(q)'
      BY <1>1, <1>2, <2>1, <2>3 DEF LookupsOK, RevalsOK, RevalHeld, Current
  <2>4. ASSUME NEW i \in DOMAIN fxBook, fxBook[i].kind = "reval" PROVE Recorded(fxBook[i])'
    <3>1. Recorded(fxBook[i]) BY <2>1, <2>4 DEF LookupsOK, RevalsOK
    <3>2. \A q \in Req : pc[q] = "reval record" => pc'[q] = pc[q] /\ loc'[q] = loc[q]
        BY <1>1 DEF LookLabels, RevalLabels
    <3> QED BY <3>1, <3>2 DEF Recorded, Current, MonthOfEntry
  <2> QED BY <2>2, <2>3, <2>4 DEF RevalsOK
<1> QED BY <1>3, <1>4 DEF LookupsOK

LEMMA TransfersFrame ==
    ASSUME TransfersOK, NEW r \in Req, Outside(r, TransferLabels),
           UNCHANGED <<transfers, reversals, cashIn>>, halved \subseteq halved'
    PROVE  TransfersOK'
<1>1. \A q \in Req : \/ pc'[q] = pc[q] /\ loc'[q] = loc[q]
                     \/ pc[q] \notin TransferLabels /\ pc'[q] \notin TransferLabels
    BY DEF Outside, Keeps
<1>2. \A t : Halfway(t)' = Halfway(t) BY <1>1 DEF Halfway, TransferLabels
<1>3. \A t, s : Reversing(t, s)' = Reversing(t, s) BY DEF Reversing
<1>4. BothSides' = BothSides BY DEF BothSides, SimpleLegs
<1>5. \A q \in Req : TransferHeld(q)' BY <1>1 DEF TransfersOK, TransferHeld, TransferLabels
<1>6. \A v \in reversals : ReversalOK(v)' BY DEF TransfersOK, ReversalOK
<1> QED BY <1>2, <1>3, <1>4, <1>5, <1>6 DEF TransfersOK

-----------------------------------------------------------------------------
(* An element appended to a sequence of anything. *)
LEMMA Appended ==
    ASSUME NEW s, \E S : s \in Seq(S), NEW e
    PROVE  /\ \E S : Append(s, e) \in Seq(S)
           /\ Len(s) \in Nat /\ DOMAIN s = 1..Len(s)
           /\ DOMAIN Append(s, e) = 1..(Len(s) + 1)
           /\ \A i \in 1..Len(s) : Append(s, e)[i] = s[i]
           /\ Append(s, e)[Len(s) + 1] = e
<1>1. PICK S : s \in Seq(S) OBVIOUS
<1>2. s \in Seq(S \cup {e}) BY <1>1
<1>3. Append(s, e) \in Seq(S \cup {e}) BY <1>2
<1> QED BY <1>2, <1>3

-----------------------------------------------------------------------------
(* A step of the overrides leaves the other two parts alone. *)
LEMMA OverrideApart ==
    ASSUME ExchangeInv, NEW r \in Req, Keeps(r),
           pc[r] \in OverrideLabels \cup {"idle"}, pc'[r] \in OverrideLabels \cup {"idle"},
           UNCHANGED <<fxBook, revaluations, fxAccounts, unrecorded, transfers, reversals,
                       cashIn, halved>>
    PROVE  LookupsOK' /\ TransfersOK' /\ RequestsOK'
<1>1. Outside(r, LookLabels) /\ Outside(r, TransferLabels)
    BY DEF Outside, LookLabels, RevalLabels, GainLabels, TransferLabels, OverrideLabels
<1>2. LookupsOK' BY <1>1, LookupsFrame DEF ExchangeInv
<1>3. TransfersOK' BY <1>1, TransfersFrame DEF ExchangeInv
<1> QED BY <1>2, <1>3 DEF Keeps

LEMMA RateReadOK ==
    ASSUME ExchangeInv, NEW r \in Req, NEW k \in RateKey, NEW n \in RateValue, RateRead(r, k, n)
    PROVE  ExchangeInv'
<1>a. PICK d : d = [on |-> k, old |-> rates[k].rate, new |-> n] OBVIOUS
<1>b. Begin(r, "rate upsert", d) BY <1>a DEF RateRead
<1>0. d.on = k /\ d.old = rates[k].rate /\ d.new = n BY <1>a
<1>1. /\ Keeps(r) /\ pc[r] = "idle" /\ pc'[r] = "rate upsert" /\ loc'[r] = d
      /\ WorkingOn(k) # {} => k \in raced'
  <2>1. /\ Keeps(r) /\ pc[r] = "idle" /\ pc'[r] = "rate upsert" /\ loc'[r] = d
        /\ WorkingOn(d.on) # {} => d.on \in raced'
      BY <1>b, BeginKeeps DEF ExchangeInv
  <2> QED BY <1>0, <2>1
<1>2. LookupsOK' /\ TransfersOK' /\ RequestsOK'
    BY <1>1, OverrideApart DEF RateRead, exchangeVars, OverrideLabels
<1>3. UNCHANGED <<rates, trail, untold>> BY DEF RateRead, exchangeVars
<1>4. \A j : Told(j)' = Told(j) BY <1>3 DEF Told
<1>5. \A j, i : LastTold(j, i)' <=> LastTold(j, i) BY <1>4 DEF LastTold
<1>6. \A j : Chained(j)' <=> Chained(j) BY <1>3, <1>4 DEF Chained
<1>7. \A j : Telling(j)' <=> Telling(j) BY <1>1 DEF Telling, Keeps
<1>8. \A q \in Req : OverrideHeld(q)'
    BY <1>0, <1>1 DEF ExchangeInv, RatesOK, OverrideHeld, Keeps
<1>9. ASSUME NEW j \in RateKey \ (raced' \cup untold') PROVE TrailAt(j)'
  <2>1. TrailAt(j) BY <1>1, <1>3 DEF ExchangeInv, RatesOK, Keeps
  <2>2. \A q \in Req : pc'[q] = "rate audit" /\ loc'[q].on = j =>
            rates'[j].source = "manual" /\ rates'[j].rate = loc'[q].new
      BY <1>1, <1>3, <2>1 DEF TrailAt, Keeps
  <2>3. ASSUME NEW q \in Req, pc'[q] \in OverrideLabels, loc'[q].on = j,
               NEW i \in DOMAIN trail, LastTold(j, i)
        PROVE  loc'[q].old = trail[i].new
    <3>1. CASE q # r BY <1>1, <2>1, <2>3, <3>1 DEF TrailAt, Keeps
    <3>2. CASE q = r
      <4>1. j = k BY <1>0, <1>1, <2>3, <3>2
      <4>2. WorkingOn(k) = {} BY <1>1, <4>1
      <4>3. ~Telling(k) BY <4>2 DEF Telling, WorkingOn, Busy
      <4> QED BY <1>0, <1>1, <2>1, <2>3, <3>2, <4>1, <4>3 DEF TrailAt
    <3> QED BY <3>1, <3>2
  <2> QED BY <1>3, <1>4, <1>5, <1>6, <1>7, <2>1, <2>2, <2>3 DEF TrailAt
<1>10. RatesOK' BY <1>3, <1>8, <1>9 DEF ExchangeInv, RatesOK
<1> QED BY <1>2, <1>10 DEF ExchangeInv

(* Whoever works on a row that is not raced is alone on it. *)
LEMMA AloneOnRow ==
    ASSUME RequestsOK, NEW r \in Req, pc[r] # "idle", loc[r].on \notin raced,
           NEW q \in Req, pc[q] # "idle", loc[q].on = loc[r].on
    PROVE  q = r
    BY DEF RequestsOK, Busy

LEMMA RateUpsertOK ==
    ASSUME ExchangeInv, NEW r \in Req, RateUpsert(r)
    PROVE  ExchangeInv'
<1>0. PICK k, n : k = loc[r].on /\ n = loc[r].new OBVIOUS
<1>1. /\ Keeps(r) /\ pc[r] = "rate upsert" /\ pc'[r] = "rate audit" /\ loc'[r] = loc[r]
      /\ raced' = raced
    BY GotoKeeps DEF RateUpsert, ExchangeInv
<1>2. LookupsOK' /\ TransfersOK' /\ RequestsOK'
    BY <1>1, OverrideApart DEF RateUpsert, transferVars, OverrideLabels
<1>3. UNCHANGED <<trail, untold>> BY DEF RateUpsert
<1>4. k \in RateKey /\ n \in RateValue
    BY <1>0, <1>1 DEF ExchangeInv, RatesOK, OverrideHeld, OverrideLabels
<1>a. PICK row : row = [rate |-> n, source |-> "manual"] OBVIOUS
<1>5. row.rate = n /\ row.source = "manual" /\ row \in RateRow BY <1>4, <1>a DEF RateRow
<1>6. rates' = [rates EXCEPT ![k] = row] BY <1>0, <1>a DEF RateUpsert
<1>7. rates' \in [RateKey -> {NoRate} \cup RateRow]
    BY <1>4, <1>5, <1>6 DEF ExchangeInv, RatesOK, RateRow
<1>8. rates'[k] = row /\ \A j \in RateKey \ {k} : rates'[j] = rates[j]
    BY <1>4, <1>6 DEF ExchangeInv, RatesOK
<1>9. \A j : Told(j)' = Told(j) BY <1>3 DEF Told
<1>10. \A j, i : LastTold(j, i)' <=> LastTold(j, i) BY <1>9 DEF LastTold
<1>11. \A j : Chained(j)' <=> Chained(j) BY <1>3, <1>9 DEF Chained
<1>12. \A q \in Req : OverrideHeld(q)'
    BY <1>1 DEF ExchangeInv, RatesOK, OverrideHeld, Keeps, OverrideLabels
<1>13. ASSUME NEW j \in RateKey \ (raced' \cup untold') PROVE TrailAt(j)'
  <2>1. TrailAt(j) BY <1>1, <1>3 DEF ExchangeInv, RatesOK
  <2>2. \A q \in Req : pc'[q] \in OverrideLabels /\ loc'[q].on = j =>
          \A i \in DOMAIN trail : LastTold(j, i) => loc'[q].old = trail[i].new
    <3>1. \A q \in Req : loc'[q] = loc[q] /\ (pc'[q] \in OverrideLabels => pc[q] \in OverrideLabels)
        BY <1>1 DEF Keeps, OverrideLabels
    <3> QED BY <2>1, <3>1 DEF TrailAt
  <2>3. CASE j = k
    <3>1. Telling(k)' BY <1>0, <1>1 DEF Telling
    <3>2. \A q \in Req : pc'[q] = "rate audit" /\ loc'[q].on = k => q = r
      <4> SUFFICES ASSUME NEW q \in Req, q # r, pc'[q] = "rate audit", loc'[q].on = k PROVE FALSE
          OBVIOUS
      <4>1. pc[q] # "idle" /\ loc[q].on = loc[r].on BY <1>0, <1>1 DEF Keeps
      <4> QED BY <1>0, <1>1, <2>3, <4>1, AloneOnRow DEF ExchangeInv
    <3>3. rates'[k].source = "manual" /\ rates'[k].rate = loc'[r].new BY <1>0, <1>1, <1>5, <1>8
    <3> QED BY <1>3, <1>9, <1>10, <1>11, <2>1, <2>2, <2>3, <3>1, <3>2, <3>3 DEF TrailAt
  <2>4. CASE j # k
    <3>1. Telling(j)' <=> Telling(j) BY <1>0, <1>1, <2>4 DEF Telling, Keeps
    <3>2. rates'[j] = rates[j] BY <1>8, <2>4
    <3>3. \A q \in Req : pc'[q] = "rate audit" /\ loc'[q].on = j =>
              pc[q] = "rate audit" /\ loc[q].on = j /\ loc'[q] = loc[q]
        BY <1>0, <1>1, <2>4 DEF Keeps
    <3> QED BY <1>3, <1>9, <1>10, <1>11, <2>1, <2>2, <3>1, <3>2, <3>3 DEF TrailAt
  <2> QED BY <2>3, <2>4
<1>14. RatesOK' BY <1>3, <1>7, <1>12, <1>13 DEF ExchangeInv, RatesOK
<1> QED BY <1>2, <1>14 DEF ExchangeInv

LEMMA RateAuditOK ==
    ASSUME ExchangeInv, NEW r \in Req, RateAudit(r)
    PROVE  ExchangeInv'
<1>0. PICK k, n, e : /\ k = loc[r].on /\ n = Len(trail) + 1
                     /\ e = [key |-> loc[r].on, old |-> loc[r].old, new |-> loc[r].new]
    OBVIOUS
<1>1. /\ Keeps(r) /\ pc[r] = "rate audit" /\ pc'[r] = "idle" /\ raced' = raced
    BY EndKeeps DEF RateAudit, ExchangeInv, StaysOrEnds
<1>2. LookupsOK' /\ TransfersOK' /\ RequestsOK'
    BY <1>1, OverrideApart DEF RateAudit, transferVars, OverrideLabels
<1>3. UNCHANGED <<rates, untold>> BY DEF RateAudit
<1>4. k \in RateKey /\ loc[r].new \in RateValue
    BY <1>0, <1>1 DEF ExchangeInv, RatesOK, OverrideHeld, OverrideLabels
<1>5. /\ \E S : trail' \in Seq(S)
      /\ n \in Nat /\ DOMAIN trail = 1..(n - 1) /\ DOMAIN trail' = 1..n
      /\ \A i \in 1..(n - 1) : trail'[i] = trail[i]
      /\ trail'[n] = e
  <2>1. trail' = Append(trail, e) BY <1>0 DEF RateAudit
  <2>2. \E S : trail \in Seq(S) BY DEF ExchangeInv, RatesOK
  <2> HIDE <1>0
  <2>3. /\ \E S : Append(trail, e) \in Seq(S)
        /\ Len(trail) \in Nat /\ DOMAIN trail = 1..Len(trail)
        /\ DOMAIN Append(trail, e) = 1..(Len(trail) + 1)
        /\ \A i \in 1..Len(trail) : Append(trail, e)[i] = trail[i]
        /\ Append(trail, e)[Len(trail) + 1] = e
      BY <2>2, Appended
  <2> QED BY <1>0, <2>1, <2>3
<1>6. \A i \in DOMAIN trail' : trail'[i].key \in RateKey /\ trail'[i].new \in RateValue
    BY <1>0, <1>4, <1>5 DEF ExchangeInv, RatesOK
<1>7. \A q \in Req : OverrideHeld(q)'
    BY <1>1 DEF ExchangeInv, RatesOK, OverrideHeld, Keeps, OverrideLabels
<1>8. Told(k)' = Told(k) \cup {n} /\ n \notin Told(k) /\ Told(k) \subseteq 1..(n - 1)
    BY <1>0, <1>5 DEF Told
<1>9. \A j \in RateKey \ {k} : Told(j)' = Told(j) BY <1>0, <1>5 DEF Told
<1>10. ASSUME NEW j \in RateKey \ (raced' \cup untold') PROVE TrailAt(j)'
  <2>1. TrailAt(j) BY <1>1, <1>3 DEF ExchangeInv, RatesOK
  <2>2. CASE j = k
    <3>1. \A q \in Req : ~(pc'[q] \in OverrideLabels /\ loc'[q].on = k)
      <4> SUFFICES ASSUME NEW q \in Req, pc'[q] \in OverrideLabels, loc'[q].on = k PROVE FALSE
          OBVIOUS
      <4>1. q # r /\ pc[q] # "idle" /\ loc[q].on = loc[r].on
          BY <1>0, <1>1 DEF Keeps, OverrideLabels
      <4> QED BY <1>0, <1>1, <2>2, <4>1, AloneOnRow DEF ExchangeInv
    <3>2. \A i \in Told(k)' : i <= n BY <1>5, <1>8
    <3>3. \A i : LastTold(k, i)' => i = n BY <1>5, <1>8, <3>2 DEF LastTold
    <3>4. rates[k].source = "manual" /\ rates[k].rate = loc[r].new
        BY <1>0, <1>1, <2>1, <2>2 DEF TrailAt
    <3>5. Chained(k)'
      <4> SUFFICES ASSUME NEW i \in Told(k)', NEW m \in Told(k)', i < m,
                          \A x \in Told(k)' : ~(i < x /\ x < m)
                   PROVE  trail'[m].old = trail'[i].new
          BY DEF Chained
      <4>1. i \in Told(k) /\ i \in 1..(n - 1) BY <1>5, <1>8, <3>2
      <4>2. CASE m = n
        <5>1. \A x \in Told(k) : x <= i BY <1>5, <1>8, <4>1, <4>2
        <5>2. LastTold(k, i) BY <4>1, <5>1 DEF LastTold
        <5>3. loc[r].old = trail[i].new
            BY <1>0, <1>1, <1>5, <2>1, <2>2, <4>1, <5>2 DEF TrailAt, OverrideLabels
        <5> QED BY <1>0, <1>5, <4>1, <4>2, <5>3
      <4>3. CASE m # n
        <5>1. m \in Told(k) /\ m \in 1..(n - 1) BY <1>8, <4>3
        <5>2. trail[m].old = trail[i].new
            BY <1>8, <2>1, <2>2, <4>1, <5>1 DEF TrailAt, Chained
        <5> QED BY <1>5, <4>1, <5>1, <5>2
      <4> QED BY <4>2, <4>3
    <3>6. ~Telling(k)' BY <3>1 DEF Telling, OverrideLabels
    <3>7. \A i \in DOMAIN trail' : LastTold(k, i)' => rates'[k].rate = trail'[i].new
        BY <1>0, <1>3, <1>5, <3>3, <3>4
    <3>8. Told(k)' # {} /\ rates'[k].source = "manual" BY <1>3, <1>8, <3>4
    <3>9. \A q \in Req : ~(pc'[q] = "rate audit" /\ loc'[q].on = k) BY <3>1 DEF OverrideLabels
    <3> QED BY <2>2, <3>1, <3>5, <3>6, <3>7, <3>8, <3>9 DEF TrailAt
  <2>3. CASE j # k
    <3>1. Telling(j)' <=> Telling(j) BY <1>0, <1>1, <2>3 DEF Telling, Keeps
    <3>2. Told(j)' = Told(j) /\ Told(j) \subseteq 1..(n - 1) BY <1>5, <1>9, <2>3 DEF Told
    <3>3. \A i : LastTold(j, i)' <=> LastTold(j, i) BY <3>2 DEF LastTold
    <3>4. Chained(j)'
      <4>1. \A i \in Told(j) : trail'[i] = trail[i] BY <1>5, <3>2
      <4> SUFFICES ASSUME NEW i \in Told(j), NEW m \in Told(j), i < m,
                          \A x \in Told(j) : ~(i < x /\ x < m)
                   PROVE  trail'[m].old = trail'[i].new
          BY <3>2 DEF Chained
      <4>2. trail[m].old = trail[i].new BY <2>1 DEF TrailAt, Chained
      <4> QED BY <4>1, <4>2
    <3>5. \A i : LastTold(j, i) => i \in 1..(n - 1) /\ trail'[i] = trail[i]
        BY <1>5, <3>2 DEF LastTold
    <3>6. \A q \in Req : pc'[q] \in OverrideLabels /\ loc'[q].on = j =>
              pc'[q] = pc[q] /\ loc'[q] = loc[q]
        BY <1>1 DEF Keeps, OverrideLabels
    <3>7. \A i \in DOMAIN trail' : LastTold(j, i)' =>
              LastTold(j, i) /\ i \in DOMAIN trail /\ trail'[i] = trail[i]
        BY <1>5, <3>3, <3>5
    <3>8. \A q \in Req : pc'[q] \in OverrideLabels /\ loc'[q].on = j =>
              \A i \in DOMAIN trail' : LastTold(j, i)' => loc'[q].old = trail'[i].new
      <4> SUFFICES ASSUME NEW q \in Req, pc'[q] \in OverrideLabels, loc'[q].on = j,
                          NEW i \in DOMAIN trail', LastTold(j, i)'
                   PROVE  loc'[q].old = trail'[i].new
          OBVIOUS
      <4>1. pc'[q] = pc[q] /\ loc'[q] = loc[q] BY <3>6
      <4>2. LastTold(j, i) /\ i \in DOMAIN trail /\ trail'[i] = trail[i] BY <3>7
      <4>3. loc[q].old = trail[i].new BY <2>1, <4>1, <4>2 DEF TrailAt
      <4> QED BY <4>1, <4>2, <4>3
    <3>9. \A q \in Req : pc'[q] = "rate audit" /\ loc'[q].on = j =>
              rates'[j].source = "manual" /\ rates'[j].rate = loc'[q].new
        BY <1>3, <2>1, <3>6 DEF TrailAt, OverrideLabels
    <3>10. ~Telling(j)' => /\ \A i \in DOMAIN trail' : LastTold(j, i)' => rates'[j].rate = trail'[i].new
                           /\ rates'[j].source = "manual" => Told(j)' # {}
        BY <1>3, <2>1, <3>1, <3>2, <3>7 DEF TrailAt
    <3>11. Told(j)' # {} => rates'[j].source = "manual" BY <1>3, <2>1, <3>2 DEF TrailAt
    <3> QED BY <3>4, <3>8, <3>9, <3>10, <3>11 DEF TrailAt
  <2> QED BY <2>2, <2>3
<1>11. RatesOK' BY <1>3, <1>5, <1>6, <1>7, <1>10 DEF ExchangeInv, RatesOK
<1> QED BY <1>2, <1>11 DEF ExchangeInv

(* The feed fills in rates that nobody has set. *)
LEMMA FeedUpsertOK ==
    ASSUME ExchangeInv, NEW batch, NEW n \in RateValue, FeedUpsert(batch, n)
    PROVE  ExchangeInv'
<1>0. PICK row : row = [rate |-> n, source |-> "ecb"] OBVIOUS
<1>1. UNCHANGED <<pc, loc, raced, trail, fxBook, revaluations, fxAccounts, untold, unrecorded,
                  transfers, reversals, cashIn, halved, balanceTrigger>>
    BY DEF FeedUpsert, reqVars, transferVars
<1>2. rates' = [k \in RateKey |-> IF k \in batch /\ rates[k] = NoRate THEN row ELSE rates[k]]
    BY <1>0 DEF FeedUpsert
<1>3. row \in RateRow BY <1>0 DEF RateRow
<1>4. rates' \in [RateKey -> {NoRate} \cup RateRow] BY <1>2, <1>3 DEF ExchangeInv, RatesOK
<1>5. \A j : Told(j)' = Told(j) BY <1>1 DEF Told
<1>6. \A j, i : LastTold(j, i)' <=> LastTold(j, i) BY <1>5 DEF LastTold
<1>7. \A j : Chained(j)' <=> Chained(j) BY <1>1, <1>5 DEF Chained
<1>8. \A j : Telling(j)' <=> Telling(j) BY <1>1 DEF Telling
<1>9. \A q \in Req : OverrideHeld(q)' BY <1>1 DEF ExchangeInv, RatesOK, OverrideHeld
<1>10. ASSUME NEW j \in RateKey \ (raced' \cup untold') PROVE TrailAt(j)'
  <2>1. TrailAt(j) BY <1>1 DEF ExchangeInv, RatesOK
  <2>2. CASE rates'[j] = rates[j]
      BY <1>1, <1>5, <1>6, <1>7, <1>8, <2>1, <2>2 DEF TrailAt
  <2>3. CASE rates'[j] # rates[j]
    <3>1. rates[j] = NoRate /\ rates'[j] = row BY <1>2, <2>3
    <3>2. rates[j].source # "manual" /\ rates'[j].source # "manual" BY <1>0, <3>1 DEF NoRate
    <3>3. Told(j) = {} /\ \A q \in Req : ~(pc[q] = "rate audit" /\ loc[q].on = j)
        BY <2>1, <3>2 DEF TrailAt
    <3>4. \A i : ~LastTold(j, i) BY <3>3 DEF LastTold
    <3> QED BY <1>1, <1>5, <1>6, <1>7, <2>1, <3>2, <3>3, <3>4 DEF TrailAt
  <2> QED BY <2>2, <2>3
<1>11. RatesOK' BY <1>1, <1>4, <1>9, <1>10 DEF ExchangeInv, RatesOK
<1>12. RequestsOK' BY <1>1 DEF ExchangeInv, RequestsOK, Busy
<1>13. LookupsOK'
  <2>1. \A q \in Req : LookHeld(q)' <=> LookHeld(q) BY <1>1 DEF LookHeld, Revaluing
  <2>2. RevalsOK' <=> RevalsOK
    <3>1. \A q \in Req : (Revaluing(q)' <=> Revaluing(q)) /\ (RevalHeld(q)' <=> RevalHeld(q))
        BY <1>1 DEF Revaluing, RevalHeld, Current
    <3>2. \A e : Recorded(e)' <=> Recorded(e) BY <1>1 DEF Recorded, Current
    <3>3. RevaluedOnce' <=> RevaluedOnce BY <1>1 DEF RevaluedOnce
    <3> QED BY <1>1, <3>1, <3>2, <3>3 DEF RevalsOK
  <2> QED BY <1>1, <2>1, <2>2 DEF ExchangeInv, LookupsOK
<1>14. TransfersOK'
  <2>1. BothSides' = BothSides BY <1>1 DEF BothSides, SimpleLegs
  <2>2. \A q \in Req : TransferHeld(q)' <=> TransferHeld(q) BY <1>1 DEF TransferHeld
  <2>3. \A t : Halfway(t)' = Halfway(t) BY <1>1 DEF Halfway
  <2>4. \A t, s : Reversing(t, s)' = Reversing(t, s) BY <1>1 DEF Reversing
  <2>5. \A v : ReversalOK(v)' <=> ReversalOK(v) BY <1>1 DEF ReversalOK
  <2> QED BY <1>1, <2>1, <2>2, <2>3, <2>4, <2>5 DEF ExchangeInv, TransfersOK
<1> QED BY <1>11, <1>12, <1>13, <1>14 DEF ExchangeInv

-----------------------------------------------------------------------------
(* A step of the lookups leaves the other two parts alone. *)
LEMMA LookApart ==
    ASSUME ExchangeInv, NEW r \in Req, Keeps(r),
           pc[r] \in LookLabels \cup {"idle"}, pc'[r] \in LookLabels \cup {"idle"},
           UNCHANGED <<rates, trail, untold, transfers, reversals, cashIn, halved>>
    PROVE  RatesOK' /\ TransfersOK' /\ RequestsOK'
<1>1. Outside(r, OverrideLabels) /\ Outside(r, TransferLabels)
    BY DEF Outside, LookLabels, RevalLabels, GainLabels, TransferLabels, OverrideLabels
<1>2. RatesOK' BY <1>1, RatesFrame DEF ExchangeInv
<1>3. TransfersOK' BY <1>1, TransfersFrame DEF ExchangeInv
<1> QED BY <1>2, <1>3 DEF Keeps

(* When no posting or row is written, what r holds is all there is to show. *)
LEMMA LookSuffices ==
    ASSUME LookupsOK, NEW r \in Req, Keeps(r), pc[r] # "reval record",
           LookHeld(r)', Revaluing(r)' /\ "reval" \notin raced' => RevalHeld(r)',
           UNCHANGED <<fxBook, revaluations, unrecorded>>, fxAccounts' \subseteq {"gain", "loss"}
    PROVE  LookupsOK'
<1>1. \A q \in Req \ {r} : pc'[q] = pc[q] /\ loc'[q] = loc[q] BY DEF Keeps
<1>2. \A q \in Req \ {r} : Revaluing(q)' <=> Revaluing(q) BY <1>1 DEF Revaluing
<1>3. \A q \in Req \ {r} : LookHeld(q)' BY <1>1, <1>2 DEF LookupsOK, LookHeld
<1>4. RevalsOK'
  <2> SUFFICES ASSUME "reval" \notin raced' PROVE RevalsOK' BY DEF RevalsOK
  <2>1. "reval" \notin raced BY DEF Keeps
  <2>2. RevaluedOnce' BY <2>1 DEF LookupsOK, RevalsOK, RevaluedOnce
  <2>3. ASSUME NEW q \in Req \ {r}, Revaluing(q)' PROVE RevalHeld(q)'
    <3>1. pc'[q] = pc[q] /\ loc'[q] = loc[q] /\ Revaluing(q) BY <1>1, <1>2, <2>3
    <3>2. RevalHeld(q) BY <2>1, <3>1 DEF LookupsOK, RevalsOK
    <3> QED BY <3>1, <3>2 DEF RevalHeld, Current
  <2>4. ASSUME NEW i \in DOMAIN fxBook, fxBook[i].kind = "reval" PROVE Recorded(fxBook[i])'
    <3>1. Recorded(fxBook[i]) BY <2>1, <2>4 DEF LookupsOK, RevalsOK
    <3>2. \A q \in Req : pc[q] = "reval record" => pc'[q] = pc[q] /\ loc'[q] = loc[q]
        BY <1>1
    <3> QED BY <3>1, <3>2 DEF Recorded, Current, MonthOfEntry
  <2> QED BY <2>2, <2>3, <2>4 DEF RevalsOK
<1> QED BY <1>3, <1>4 DEF LookupsOK

(* A request that ends holds nothing. *)
LEMMA EndedLooks ==
    ASSUME NEW r, pc'[r] = "idle"
    PROVE  LookHeld(r)' /\ ~Revaluing(r)'
    BY DEF LookHeld, Revaluing, LookLabels, RevalLabels, GainLabels

(* What a request holds of a revaluation does not change with the rate. *)
LEMMA SameItem ==
    ASSUME NEW r, RevalHeld(r), UNCHANGED revaluations,
           loc'[r].item = loc[r].item, loc'[r].day = loc[r].day,
           loc'[r].left = loc[r].left, loc'[r].todo = loc[r].todo,
           pc'[r] # "reval check" => pc[r] # "reval check"
    PROVE  RevalHeld(r)'
    BY DEF RevalHeld, Current

LEMMA Relook ==
    ASSUME NEW d, LookData(d), NEW l, NEW e, e = [d EXCEPT !.look = l]
    PROVE  /\ LookData(e) /\ e.look = l
           /\ e.on = d.on /\ e.day = d.day /\ e.next = d.next /\ e.item = d.item
           /\ e.left = d.left /\ e.todo = d.todo
<1>1. e = [on |-> d.on, day |-> d.day, next |-> d.next, look |-> l, item |-> d.item,
           left |-> d.left, todo |-> d.todo]
    BY DEF LookData
<1> QED BY <1>1 DEF LookData

LEMMA LookIs ==
    ASSUME NEW row, NEW seen, NEW got, NEW l, l = Look(row, seen, got)
    PROVE  l.stored = row /\ l.seen = seen /\ l.got = got
    BY DEF Look

(* What is in force is a rate of the store. *)
LEMMA InForceIs ==
    ASSUME RatesOK, NEW day, NEW k \in InForce(day)
    PROVE  /\ k \in RateKey /\ rates[k].rate \in RateValue
           /\ KeyDirect[k] \in BOOLEAN
           /\ Fraction(rates[k].rate, KeyDirect[k]) \in RatesInForce(day)
<1>1. k \in Dated(day) BY DEF InForce
<1>2. k \in RateKey /\ rates[k] # NoRate BY <1>1 DEF Dated
<1>3. rates[k] \in RateRow BY <1>2 DEF RatesOK
<1> QED BY <1>2, <1>3, ExchangeAssumption DEF RateRow, RatesInForce

(* Two rates, read one way and the other, that are the only fraction seen  *)
(* are that fraction.                                                      *)
LEMMA RightWayRound ==
    ASSUME NEW n \in RateValue, NEW m \in RateValue, NEW b \in BOOLEAN, NEW c \in BOOLEAN,
           NEW seen, Fraction(n, b) \in seen, Fraction(m, c) \in seen
    PROVE  Agrees(Fraction(n, c), seen)
<1>1. n \in Nat /\ n > 0 /\ m \in Nat /\ m > 0 BY ExchangeAssumption
<1>2. Fraction(n, c).num > 0 BY <1>1 DEF Fraction
<1>3. ASSUME NEW f \in seen, seen = {f} PROVE Fraction(n, c) = f
  <2>1. Fraction(n, b) = f /\ Fraction(m, c) = f BY <1>3
  <2>2. CASE b = c BY <2>1, <2>2
  <2>3. CASE b /\ ~c
    <3>1. [num |-> n, den |-> 1] = [num |-> 1, den |-> m] BY <2>1, <2>3 DEF Fraction
    <3>2. [num |-> n, den |-> 1].num = [num |-> 1, den |-> m].num BY <3>1
    <3>3. n = 1 BY <3>2
    <3> QED BY <2>1, <2>3, <3>3 DEF Fraction
  <2>4. CASE ~b /\ c
    <3>1. [num |-> 1, den |-> n] = [num |-> m, den |-> 1] BY <2>1, <2>4 DEF Fraction
    <3>2. [num |-> 1, den |-> n].den = [num |-> m, den |-> 1].den BY <3>1
    <3>3. n = 1 BY <3>2
    <3> QED BY <2>1, <2>4, <3>3 DEF Fraction
  <2> QED BY <2>2, <2>3, <2>4
<1> QED BY <1>2, <1>3 DEF Agrees

LEMMA LookupRateOK ==
    ASSUME ExchangeInv, NEW r \in Req, LookupRate(r)
    PROVE  ExchangeInv'
<1>0. pc[r] = "lookup" /\ UNCHANGED exchangeVars BY DEF LookupRate
<1>1. UNCHANGED <<rates, trail, untold, transfers, reversals, cashIn, halved,
                  fxBook, revaluations, fxAccounts, unrecorded>>
    BY <1>0 DEF exchangeVars
<1>2. fxAccounts' \subseteq {"gain", "loss"} BY <1>1 DEF ExchangeInv, LookupsOK
<1>3. CASE End(r)
  <2>1. Keeps(r) /\ pc'[r] = "idle" BY <1>3, EndKeeps DEF ExchangeInv, StaysOrEnds
  <2>2. RatesOK' /\ TransfersOK' /\ RequestsOK' BY <1>0, <1>1, <2>1, LookApart DEF LookLabels
  <2>3. LookupsOK' BY <1>0, <1>1, <1>2, <2>1, EndedLooks, LookSuffices DEF ExchangeInv
  <2> QED BY <2>2, <2>3 DEF ExchangeInv
<1>4. CASE ~End(r)
  <2>1. PICK k \in InForce(loc[r].day) :
            Goto(r, "lookup base",
                 [loc[r] EXCEPT !.look = Look(rates[k].rate, RatesInForce(loc[r].day),
                                              Fraction(0, TRUE))])
      BY <1>4 DEF LookupRate
  <2>2. PICK l : l = Look(rates[k].rate, RatesInForce(loc[r].day), Fraction(0, TRUE)) OBVIOUS
  <2>3. PICK d : d = [loc[r] EXCEPT !.look = l] OBVIOUS
  <2>4. Goto(r, "lookup base", d) BY <2>1, <2>2, <2>3
  <2>5. LookHeld(r) /\ LookData(loc[r]) /\ loc[r].day \in FxDay
      BY <1>0 DEF ExchangeInv, LookupsOK, LookHeld, LookLabels
  <2>6. /\ LookData(d) /\ d.look = l
        /\ d.on = loc[r].on /\ d.day = loc[r].day /\ d.next = loc[r].next
        /\ d.item = loc[r].item /\ d.left = loc[r].left /\ d.todo = loc[r].todo
      BY <2>3, <2>5, Relook
  <2>7. l.stored = rates[k].rate /\ l.seen = RatesInForce(loc[r].day) BY <2>2 DEF Look
  <2>8. Keeps(r) /\ pc'[r] = "lookup base" /\ loc'[r] = d
      BY <1>0, <2>4, <2>6, GotoKeeps DEF ExchangeInv
  <2>9. RatesOK' /\ TransfersOK' /\ RequestsOK' BY <1>0, <1>1, <2>8, LookApart DEF LookLabels
  <2>10. /\ l.stored \in RateValue /\ KeyDirect[k] \in BOOLEAN
         /\ Fraction(l.stored, KeyDirect[k]) \in l.seen
      BY <2>7, InForceIs DEF ExchangeInv
  <2>11. Revaluing(r)' <=> Revaluing(r)
      BY <1>0, <2>6, <2>8 DEF Revaluing, RevalLabels, GainLabels
  <2>12. LookHeld(r)'
      BY <1>0, <2>5, <2>6, <2>8, <2>10, <2>11
      DEF LookHeld, LookLabels, RevalLabels, GainLabels, ValuedLabels
  <2>13. ASSUME Revaluing(r)', "reval" \notin raced' PROVE RevalHeld(r)'
    <3>1. RevalHeld(r) BY <2>8, <2>11, <2>13 DEF ExchangeInv, LookupsOK, RevalsOK, Keeps
    <3> QED BY <1>0, <1>1, <2>6, <2>8, <3>1, SameItem
  <2>14. LookupsOK' BY <1>0, <1>1, <1>2, <2>8, <2>12, <2>13, LookSuffices DEF ExchangeInv
  <2> QED BY <2>9, <2>14 DEF ExchangeInv
<1> QED BY <1>3, <1>4

LEMMA LookupBaseOK ==
    ASSUME ExchangeInv, NEW r \in Req, LookupBase(r)
    PROVE  ExchangeInv'
<1>0. pc[r] = "lookup base" /\ UNCHANGED exchangeVars BY DEF LookupBase
<1>1. UNCHANGED <<rates, trail, untold, transfers, reversals, cashIn, halved,
                  fxBook, revaluations, fxAccounts, unrecorded>>
    BY <1>0 DEF exchangeVars
<1>2. fxAccounts' \subseteq {"gain", "loss"} BY <1>1 DEF ExchangeInv, LookupsOK
<1>3. PICK old : old = loc[r].look OBVIOUS
<1>4. PICK k \in InForce(loc[r].day) :
          Goto(r, loc[r].next,
               [loc[r] EXCEPT !.look = Look(old.stored, old.seen \cup RatesInForce(loc[r].day),
                                            Fraction(old.stored, KeyDirect[k]))])
    BY <1>3 DEF LookupBase
<1>5. PICK l : l = Look(old.stored, old.seen \cup RatesInForce(loc[r].day),
                        Fraction(old.stored, KeyDirect[k])) OBVIOUS
<1>6. PICK d : d = [loc[r] EXCEPT !.look = l] OBVIOUS
<1>7. Goto(r, loc[r].next, d) BY <1>4, <1>5, <1>6
<1>8. /\ LookHeld(r) /\ LookData(loc[r]) /\ loc[r].day \in FxDay
      /\ loc[r].next \in {"line 1", "line 2", "reval value"}
      /\ old.stored \in RateValue /\ \E b \in BOOLEAN : Fraction(old.stored, b) \in old.seen
    BY <1>0, <1>3 DEF ExchangeInv, LookupsOK, LookHeld, LookLabels
<1>9. /\ LookData(d) /\ d.look = l
      /\ d.on = loc[r].on /\ d.day = loc[r].day /\ d.next = loc[r].next
      /\ d.item = loc[r].item /\ d.left = loc[r].left /\ d.todo = loc[r].todo
  <2>1. LookData(loc[r]) BY <1>8
  <2> QED BY <1>6, <2>1, Relook
<1>10. /\ l.got = Fraction(old.stored, KeyDirect[k])
       /\ l.seen = old.seen \cup RatesInForce(loc[r].day)
    BY <1>5, LookIs
<1>11. Keeps(r) /\ pc'[r] = loc[r].next /\ loc'[r] = d
    BY <1>0, <1>7, <1>9, GotoKeeps DEF ExchangeInv
<1>12. RatesOK' /\ TransfersOK' /\ RequestsOK'
    BY <1>0, <1>1, <1>8, <1>11, LookApart DEF LookLabels, RevalLabels
<1>13. Agrees(l.got, l.seen)
  <2>1. PICK b \in BOOLEAN : Fraction(old.stored, b) \in old.seen BY <1>8
  <2>2. /\ rates[k].rate \in RateValue /\ KeyDirect[k] \in BOOLEAN
        /\ Fraction(rates[k].rate, KeyDirect[k]) \in RatesInForce(loc[r].day)
      BY InForceIs DEF ExchangeInv
  <2>3. Fraction(old.stored, b) \in l.seen /\ Fraction(rates[k].rate, KeyDirect[k]) \in l.seen
      BY <1>10, <2>1, <2>2
  <2>4. Agrees(Fraction(old.stored, KeyDirect[k]), l.seen)
      BY <1>8, <2>1, <2>2, <2>3, RightWayRound
  <2> QED BY <1>10, <2>4
<1>14. Revaluing(r)' <=> Revaluing(r)
    BY <1>0, <1>8, <1>9, <1>11 DEF Revaluing, RevalLabels, GainLabels
<1>15. LookHeld(r)'
    BY <1>0, <1>8, <1>9, <1>11, <1>13, <1>14
    DEF LookHeld, LookLabels, RevalLabels, GainLabels
<1>16. ASSUME Revaluing(r)', "reval" \notin raced' PROVE RevalHeld(r)'
  <2>1. RevalHeld(r) BY <1>11, <1>14, <1>16 DEF ExchangeInv, LookupsOK, RevalsOK, Keeps
  <2> QED BY <1>0, <1>1, <1>9, <1>11, <2>1, SameItem
<1>17. LookupsOK' BY <1>0, <1>1, <1>2, <1>11, <1>15, <1>16, LookSuffices DEF ExchangeInv
<1> QED BY <1>12, <1>17 DEF ExchangeInv

(* A step of a lookup or revaluation that writes neither posting nor row. *)
LEMMA LookMoves ==
    ASSUME ExchangeInv, NEW r \in Req, Keeps(r), pc[r] # "reval record",
           pc[r] \in LookLabels \cup {"idle"}, pc'[r] \in LookLabels \cup {"idle"},
           UNCHANGED <<rates, trail, untold, transfers, reversals, cashIn, halved,
                       fxBook, revaluations, unrecorded>>,
           fxAccounts' \subseteq {"gain", "loss"},
           LookHeld(r)', Revaluing(r)' /\ "reval" \notin raced' => RevalHeld(r)'
    PROVE  ExchangeInv'
<1>1. RatesOK' /\ TransfersOK' /\ RequestsOK' BY LookApart
<1>2. LookupsOK' BY LookSuffices DEF ExchangeInv
<1> QED BY <1>1, <1>2 DEF ExchangeInv

LEMMA NoRowsChange ==
    ASSUME ExchangeInv, UNCHANGED exchangeVars
    PROVE  /\ UNCHANGED <<rates, trail, untold, transfers, reversals, cashIn, halved,
                          fxBook, revaluations, unrecorded>>
           /\ fxAccounts' \subseteq {"gain", "loss"}
    BY DEF exchangeVars, ExchangeInv, LookupsOK

LEMMA ForeignBeginOK ==
    ASSUME ExchangeInv, NEW r \in Req, NEW a \in FxAccount, NEW n, NEW day \in FxDay,
           ForeignBegin(r, a, n, day)
    PROVE  ExchangeInv'
<1>1. PICK c : c = Item(a, n, 0) OBVIOUS
<1>2. PICK d : d = Looking(a, day, "line 1", c, {}, {}) OBVIOUS
<1>3. c.account = a BY <1>1 DEF Item
<1>4. /\ LookData(d) /\ d.on = a /\ d.day = day /\ d.next = "line 1" /\ d.item = c
      /\ d.left = {} /\ d.todo = {}
    BY <1>2 DEF Looking, LookData
<1>5. Begin(r, "lookup", d) BY <1>1, <1>2 DEF ForeignBegin
<1>6. Keeps(r) /\ pc[r] = "idle" /\ pc'[r] = "lookup" /\ loc'[r] = d
    BY <1>5, BeginKeeps DEF ExchangeInv
<1>7. ~Revaluing(r)' BY <1>4, <1>6 DEF Revaluing, RevalLabels, GainLabels
<1>8. LookHeld(r)'
    BY <1>3, <1>4, <1>6, <1>7 DEF LookHeld, ValuedLabels, GainLabels
<1>9. UNCHANGED exchangeVars BY DEF ForeignBegin
<1> QED BY <1>6, <1>7, <1>8, <1>9, NoRowsChange, LookMoves DEF LookLabels

LEMMA ForeignLineOK ==
    ASSUME ExchangeInv, NEW r \in Req, ForeignLine(r)
    PROVE  ExchangeInv'
<1>0. pc[r] = "line 1" /\ UNCHANGED exchangeVars BY DEF ForeignLine
<1>1. PICK c : c = Item(loc[r].item.account, loc[r].item.foreign,
                        DeriveBaseAmount(loc[r].item.foreign, loc[r].look.got)) OBVIOUS
<1>2. PICK d : d = Looking(loc[r].on, loc[r].day, "line 2", c, {}, {}) OBVIOUS
<1>3. c.account = loc[r].item.account BY <1>1 DEF Item
<1>4. /\ LookData(d) /\ d.on = loc[r].on /\ d.day = loc[r].day /\ d.next = "line 2"
      /\ d.item = c /\ d.left = {} /\ d.todo = {}
    BY <1>2 DEF Looking, LookData
<1>5. Goto(r, "lookup", d) BY <1>1, <1>2 DEF ForeignLine
<1>6. Keeps(r) /\ pc'[r] = "lookup" /\ loc'[r] = d
    BY <1>0, <1>4, <1>5, GotoKeeps DEF ExchangeInv
<1>7. loc[r].day \in FxDay /\ loc[r].item.account \in FxAccount
    BY <1>0 DEF ExchangeInv, LookupsOK, LookHeld, LookLabels
<1>8. ~Revaluing(r)' BY <1>4, <1>6 DEF Revaluing, RevalLabels, GainLabels
<1>9. LookHeld(r)'
    BY <1>3, <1>4, <1>6, <1>7, <1>8 DEF LookHeld, ValuedLabels, GainLabels
<1> QED BY <1>0, <1>6, <1>8, <1>9, NoRowsChange, LookMoves DEF LookLabels

LEMMA AppendedLast ==
    ASSUME NEW s, \E S : s \in Seq(S), NEW e, NEW t, t = Append(s, e)
    PROVE  /\ \E S : t \in Seq(S)
           /\ \E n : /\ n \in DOMAIN t /\ t[n] = e
                     /\ \A i \in DOMAIN t \ {n} : i \in DOMAIN s /\ t[i] = s[i]
<1>1. /\ \E S : Append(s, e) \in Seq(S)
      /\ Len(s) \in Nat /\ DOMAIN s = 1..Len(s)
      /\ DOMAIN Append(s, e) = 1..(Len(s) + 1)
      /\ \A i \in 1..Len(s) : Append(s, e)[i] = s[i]
      /\ Append(s, e)[Len(s) + 1] = e
    BY Appended
<1>2. PICK n : n = Len(s) + 1 OBVIOUS
<1>3. n \in DOMAIN t /\ t[n] = e BY <1>1, <1>2
<1>4. \A i \in DOMAIN t \ {n} : i \in DOMAIN s /\ t[i] = s[i] BY <1>1, <1>2
<1> QED BY <1>1, <1>3, <1>4

(* A posting is added to the books. *)
LEMMA BookGrows ==
    ASSUME LookupsOK, NEW r \in Req, Keeps(r), pc[r] # "reval record",
           LookHeld(r)', Revaluing(r)' /\ "reval" \notin raced' => RevalHeld(r)',
           NEW e, fxBook' = Append(fxBook, e),
           e.account \in FxAccount, e.base # 0, Agrees(e.rate, e.seen),
           UNCHANGED <<revaluations, unrecorded, fxAccounts>>,
           e.kind = "reval" /\ "reval" \notin raced' =>
               /\ Recorded(e)'
               /\ \A i \in DOMAIN fxBook :
                     fxBook[i].kind = "reval" /\ MonthOfEntry(fxBook[i]) = MonthOfEntry(e)
                        => MonthOfEntry(e) \in unrecorded
    PROVE  LookupsOK'
<1>0. (\E S : fxBook \in Seq(S)) /\ fxBook' = Append(fxBook, e) BY DEF LookupsOK
<1>1. /\ \E S : fxBook' \in Seq(S)
      /\ \E n : /\ n \in DOMAIN fxBook' /\ fxBook'[n] = e
                /\ \A i \in DOMAIN fxBook' \ {n} : i \in DOMAIN fxBook /\ fxBook'[i] = fxBook[i]
  <2>1. PICK b : b = Append(fxBook, e) OBVIOUS
  <2>2. /\ \E S : b \in Seq(S)
        /\ \E n : /\ n \in DOMAIN b /\ b[n] = e
                  /\ \A i \in DOMAIN b \ {n} : i \in DOMAIN fxBook /\ b[i] = fxBook[i]
      BY ONLY <1>0, <2>1, AppendedLast
  <2> QED BY <1>0, <2>1, <2>2
<1>a. PICK n : /\ n \in DOMAIN fxBook' /\ fxBook'[n] = e
               /\ \A i \in DOMAIN fxBook' \ {n} : i \in DOMAIN fxBook /\ fxBook'[i] = fxBook[i]
    BY <1>1
<1>2. \A q \in Req \ {r} : pc'[q] = pc[q] /\ loc'[q] = loc[q] BY DEF Keeps
<1>3. \A q \in Req \ {r} : Revaluing(q)' <=> Revaluing(q) BY <1>2 DEF Revaluing
<1>4. \A q \in Req \ {r} : LookHeld(q)' BY <1>2, <1>3 DEF LookupsOK, LookHeld
<1>5. \A i \in DOMAIN fxBook' :
          /\ fxBook'[i].account \in FxAccount /\ fxBook'[i].base # 0
          /\ Agrees(fxBook'[i].rate, fxBook'[i].seen)
    <2> SUFFICES ASSUME NEW i \in DOMAIN fxBook'
                 PROVE  /\ fxBook'[i].account \in FxAccount /\ fxBook'[i].base # 0
                        /\ Agrees(fxBook'[i].rate, fxBook'[i].seen)
        OBVIOUS
    <2>1. CASE i = n BY <1>a, <2>1
    <2>2. CASE i # n
      <3>1. i \in DOMAIN fxBook /\ fxBook'[i] = fxBook[i] BY <1>a, <2>2
      <3> QED BY <3>1 DEF LookupsOK
    <2> QED BY <2>1, <2>2
<1>6. RevalsOK'
  <2> SUFFICES ASSUME "reval" \notin raced' PROVE RevalsOK' BY DEF RevalsOK
  <2>1. "reval" \notin raced BY DEF Keeps
  <2>2. /\ \A i \in DOMAIN fxBook : fxBook[i].kind = "reval" => Recorded(fxBook[i])
        /\ RevaluedOnce
        /\ \A q \in Req : Revaluing(q) => RevalHeld(q)
      BY <2>1 DEF LookupsOK, RevalsOK
  <2>3. ASSUME NEW q \in Req, Revaluing(q)' PROVE RevalHeld(q)'
    <3>1. CASE q = r BY <2>3, <3>1
    <3>2. CASE q # r
      <4>1. pc'[q] = pc[q] /\ loc'[q] = loc[q] /\ RevalHeld(q) BY <1>2, <1>3, <2>2, <2>3, <3>2
      <4> QED BY <4>1 DEF RevalHeld, Current
    <3> QED BY <3>1, <3>2
  <2>4. ASSUME NEW x, Recorded(x) PROVE Recorded(x)'
    <3>1. \A q \in Req : pc[q] = "reval record" => pc'[q] = pc[q] /\ loc'[q] = loc[q]
        BY <1>2
    <3> QED BY <2>4, <3>1 DEF Recorded, Current
  <2>5. ASSUME NEW i \in DOMAIN fxBook', fxBook'[i].kind = "reval" PROVE Recorded(fxBook[i])'
    <3>1. CASE i = n BY <1>a, <2>5, <3>1
    <3>2. CASE i # n
      <4>1. i \in DOMAIN fxBook /\ fxBook'[i] = fxBook[i] BY <1>a, <3>2
      <4>2. Recorded(fxBook[i]) BY <2>2, <2>5, <4>1
      <4>3. PICK x : x = fxBook[i] OBVIOUS
      <4>4. Recorded(x)' BY <2>4, <4>2, <4>3
      <4> QED BY <4>1, <4>3, <4>4
    <3> QED BY <3>1, <3>2
  <2>6. RevaluedOnce'
    <3> SUFFICES ASSUME NEW i \in DOMAIN fxBook', NEW j \in DOMAIN fxBook',
                        fxBook'[i].kind = "reval", fxBook'[j].kind = "reval",
                        MonthOfEntry(fxBook'[i]) = MonthOfEntry(fxBook'[j]),
                        MonthOfEntry(fxBook'[i]) \notin unrecorded'
                 PROVE  i = j
        BY DEF RevaluedOnce, MonthOfEntry
    <3>1. CASE i # n /\ j # n
      <4>1. /\ i \in DOMAIN fxBook /\ fxBook'[i] = fxBook[i]
            /\ j \in DOMAIN fxBook /\ fxBook'[j] = fxBook[j]
          BY <1>a, <3>1
      <4> QED BY <2>1, <2>2, <4>1 DEF RevaluedOnce, MonthOfEntry
    <3>2. CASE i = n /\ j # n
      <4>1. j \in DOMAIN fxBook /\ fxBook'[j] = fxBook[j] /\ fxBook'[i] = e BY <1>a, <3>2
      <4> QED BY <4>1
    <3>3. CASE i # n /\ j = n
      <4>1. i \in DOMAIN fxBook /\ fxBook'[i] = fxBook[i] /\ fxBook'[j] = e BY <1>a, <3>3
      <4> QED BY <4>1
    <3> QED BY <3>1, <3>2, <3>3
  <2> QED BY <2>3, <2>5, <2>6 DEF RevalsOK
<1> QED BY <1>1, <1>4, <1>5, <1>6 DEF LookupsOK

LEMMA ForeignPostOK ==
    ASSUME ExchangeInv, NEW r \in Req, ForeignPost(r)
    PROVE  ExchangeInv'
<1>0. /\ pc[r] = "line 2" /\ End(r)
      /\ UNCHANGED <<rates, trail, revaluations, fxAccounts, untold, unrecorded, transfers,
                     reversals, cashIn, halved>>
    BY DEF ForeignPost, transferVars
<1>1. Keeps(r) /\ pc'[r] = "idle" BY <1>0, EndKeeps DEF ExchangeInv, StaysOrEnds
<1>2. RatesOK' /\ TransfersOK' /\ RequestsOK' BY <1>0, <1>1, LookApart DEF LookLabels
<1>3. LookHeld(r)' /\ ~Revaluing(r)' BY <1>1, EndedLooks
<1>4. LookupsOK'
  <2>1. CASE UNCHANGED fxBook
    <3>1. fxAccounts' \subseteq {"gain", "loss"} BY <1>0 DEF ExchangeInv, LookupsOK
    <3> QED BY <1>0, <1>1, <1>3, <2>1, <3>1, LookSuffices DEF ExchangeInv
  <2>2. CASE ~UNCHANGED fxBook
    <3>1. PICK base : base = DeriveBaseAmount(loc[r].item.foreign, loc[r].look.got) OBVIOUS
    <3>2. PICK e : e = [kind |-> "foreign", account |-> loc[r].item.account,
                        foreign |-> loc[r].item.foreign, base |-> base,
                        month |-> FxMonth[loc[r].day], rate |-> loc[r].look.got,
                        seen |-> loc[r].look.seen] OBVIOUS
    <3>3. base # 0 /\ fxBook' = Append(fxBook, e) BY <2>2, <3>1, <3>2 DEF ForeignPost
    <3>4. /\ e.kind = "foreign" /\ e.account = loc[r].item.account /\ e.base = base
          /\ e.rate = loc[r].look.got /\ e.seen = loc[r].look.seen
        BY <3>2
    <3>5. loc[r].item.account \in FxAccount /\ Agrees(loc[r].look.got, loc[r].look.seen)
        BY <1>0 DEF ExchangeInv, LookupsOK, LookHeld, LookLabels, ValuedLabels
    <3>6. e.account \in FxAccount /\ e.base # 0 /\ Agrees(e.rate, e.seen) /\ e.kind # "reval"
        BY <3>3, <3>4, <3>5
    <3> QED BY <1>0, <1>1, <1>3, <3>3, <3>6, BookGrows DEF ExchangeInv
  <2> QED BY <2>1, <2>2
<1> QED BY <1>2, <1>4 DEF ExchangeInv

-----------------------------------------------------------------------------
(* Two revaluations at once have raced. *)
LEMMA OneRevaluation ==
    ASSUME ExchangeInv, "reval" \notin raced, NEW q \in Req, NEW r \in Req,
           Revaluing(q), Revaluing(r)
    PROVE  q = r
<1>1. \A x \in Req : Revaluing(x) => pc[x] \in LookLabels /\ pc[x] # "idle"
    BY DEF Revaluing, LookLabels, RevalLabels, GainLabels
<1>2. loc[q].on = "reval" /\ loc[r].on = "reval"
    BY <1>1 DEF ExchangeInv, LookupsOK, LookHeld
<1> QED BY <1>1, <1>2, AloneOnRow DEF ExchangeInv

LEMMA RevalBeginOK ==
    ASSUME ExchangeInv, NEW r \in Req, NEW day \in FxDay, RevalBegin(r, day)
    PROVE  ExchangeInv'
<1>1. PICK d : d = Looking("reval", day, "reval value", Item("none", 0, 0), Candidates, {})
    OBVIOUS
<1>2. /\ LookData(d) /\ d.on = "reval" /\ d.day = day /\ d.next = "reval value"
      /\ d.left = Candidates /\ d.todo = {}
    BY <1>1 DEF Looking, LookData
<1>3. Begin(r, "reval check", d) BY <1>1 DEF RevalBegin
<1>4. Keeps(r) /\ pc[r] = "idle" /\ pc'[r] = "reval check" /\ loc'[r] = d
  <2>1. RequestsOK /\ "reval check" # "idle" BY DEF ExchangeInv
  <2> QED BY <1>3, <2>1, BeginKeeps
<1>5. PICK cs : cs = Candidates OBVIOUS
<1>6. /\ \A c \in cs : c.account \in FxAccount
      /\ \A c, e \in cs : c.account = e.account => c = e
  <2>1. \A c \in cs : \E a \in FxAccount : c = Item(a, ForeignOn(a), BaseOn(a))
      BY <1>5 DEF Candidates
  <2>2. \A c \in cs : \E a \in FxAccount :
            c = Item(a, ForeignOn(a), BaseOn(a)) /\ c.account = a
      BY <2>1 DEF Item
  <2> QED BY <2>2
<1>7. Revaluing(r)' /\ pc'[r] \in LookLabels /\ pc'[r] \notin ValuedLabels \cup GainLabels
    BY <1>4 DEF Revaluing, LookLabels, RevalLabels, GainLabels, ValuedLabels
<1>8. d.left = cs BY <1>2, <1>5
<1>9. LookHeld(r)' BY <1>2, <1>4, <1>6, <1>7, <1>8 DEF LookHeld
<1>10. RevalHeld(r)' BY <1>2, <1>4, <1>6, <1>8 DEF RevalHeld
<1>11. UNCHANGED exchangeVars BY DEF RevalBegin
<1> QED BY <1>4, <1>7, <1>9, <1>10, <1>11, NoRowsChange, LookMoves

LEMMA RevalCheckOK ==
    ASSUME ExchangeInv, NEW r \in Req, RevalCheck(r)
    PROVE  ExchangeInv'
<1>0. pc[r] = "reval check" /\ UNCHANGED exchangeVars BY DEF RevalCheck
<1>1. PICK c \in loc[r].left :
          Goto(r, "reval check",
               Looking(loc[r].on, loc[r].day, loc[r].next, loc[r].item, loc[r].left \ {c},
                       loc[r].todo \cup
                         (IF <<c.account, FxMonth[loc[r].day]>> \in revaluations
                          THEN {} ELSE {c})))
    BY DEF RevalCheck
<1>2. PICK more : more = IF <<c.account, FxMonth[loc[r].day]>> \in revaluations
                         THEN {} ELSE {c} OBVIOUS
<1>3. PICK d : d = Looking(loc[r].on, loc[r].day, loc[r].next, loc[r].item,
                           loc[r].left \ {c}, loc[r].todo \cup more) OBVIOUS
<1>4. /\ LookData(d) /\ d.on = loc[r].on /\ d.day = loc[r].day /\ d.next = loc[r].next
      /\ d.left = loc[r].left \ {c} /\ d.todo = loc[r].todo \cup more
    BY <1>3 DEF Looking, LookData
<1>5. Goto(r, "reval check", d) BY <1>1, <1>2, <1>3
<1>6. Keeps(r) /\ pc'[r] = "reval check" /\ loc'[r] = d
    BY <1>0, <1>4, <1>5, GotoKeeps DEF ExchangeInv
<1>7. /\ Revaluing(r) /\ Revaluing(r)'
      /\ pc[r] \in LookLabels /\ pc'[r] \in LookLabels
      /\ pc'[r] \notin ValuedLabels \cup GainLabels
    BY <1>0, <1>6 DEF Revaluing, LookLabels, RevalLabels, GainLabels, ValuedLabels
<1>8. /\ loc[r].day \in FxDay /\ loc[r].on = "reval" /\ loc[r].next = "reval value"
      /\ \A x \in loc[r].left \cup loc[r].todo : x.account \in FxAccount
    BY <1>0, <1>7 DEF ExchangeInv, LookupsOK, LookHeld
<1>9. LookHeld(r)' BY <1>2, <1>4, <1>6, <1>7, <1>8 DEF LookHeld
<1>10. UNCHANGED revaluations BY <1>0 DEF exchangeVars
<1>11. ASSUME "reval" \notin raced' PROVE RevalHeld(r)'
  <2>1. RevalHeld(r) BY <1>6, <1>7, <1>11 DEF ExchangeInv, LookupsOK, RevalsOK, Keeps
  <2>2. d.left \cup d.todo \subseteq loc[r].left \cup loc[r].todo BY <1>2, <1>4
  <2>3. d.left \cap d.todo = {} BY <1>2, <1>4, <2>1 DEF RevalHeld
  <2>4. \A x \in more : <<x.account, FxMonth[loc[r].day]>> \notin revaluations BY <1>2
  <2>5. \A x \in d.todo : <<x.account, FxMonth[d.day]>> \notin revaluations
      BY <1>4, <2>1, <2>4 DEF RevalHeld
  <2> QED BY <1>6, <1>10, <2>1, <2>2, <2>3, <2>5 DEF RevalHeld
<1> QED BY <1>0, <1>6, <1>7, <1>9, <1>11, NoRowsChange, LookMoves

LEMMA RevalNextOK ==
    ASSUME ExchangeInv, NEW r \in Req, RevalNext(r)
    PROVE  ExchangeInv'
<1>0. pc[r] = "reval check" /\ loc[r].left = {} /\ UNCHANGED exchangeVars BY DEF RevalNext
<1>1. Revaluing(r) /\ pc[r] \in LookLabels
    BY <1>0 DEF Revaluing, LookLabels, RevalLabels
<1>2. CASE End(r)
  <2>1. Keeps(r) /\ pc'[r] = "idle" BY <1>2, EndKeeps DEF ExchangeInv, StaysOrEnds
  <2> QED BY <1>0, <1>1, <2>1, EndedLooks, NoRowsChange, LookMoves
<1>3. CASE ~End(r)
  <2>1. PICK c \in loc[r].todo :
            Goto(r, "lookup", Looking(loc[r].on, loc[r].day, loc[r].next, c, {},
                                      loc[r].todo \ {c}))
      BY <1>3 DEF RevalNext
  <2>2. PICK d : d = Looking(loc[r].on, loc[r].day, loc[r].next, c, {}, loc[r].todo \ {c})
      OBVIOUS
  <2>3. /\ LookData(d) /\ d.on = loc[r].on /\ d.day = loc[r].day /\ d.next = loc[r].next
        /\ d.item = c /\ d.left = {} /\ d.todo = loc[r].todo \ {c}
      BY <2>2 DEF Looking, LookData
  <2>4. Goto(r, "lookup", d) BY <2>1, <2>2
  <2>5. Keeps(r) /\ pc'[r] = "lookup" /\ loc'[r] = d
      BY <1>0, <2>3, <2>4, GotoKeeps DEF ExchangeInv
  <2>6. /\ loc[r].day \in FxDay /\ loc[r].on = "reval" /\ loc[r].next = "reval value"
        /\ \A x \in loc[r].left \cup loc[r].todo : x.account \in FxAccount
      BY <1>0, <1>1 DEF ExchangeInv, LookupsOK, LookHeld
  <2>7. pc'[r] \in LookLabels /\ pc'[r] \notin ValuedLabels \cup GainLabels
      BY <2>5 DEF LookLabels, GainLabels, ValuedLabels
  <2>8. LookHeld(r)' BY <2>3, <2>5, <2>6, <2>7 DEF LookHeld
  <2>9. UNCHANGED revaluations BY <1>0 DEF exchangeVars
  <2>10. ASSUME "reval" \notin raced' PROVE RevalHeld(r)'
    <3>1. RevalHeld(r) BY <1>1, <2>5, <2>10 DEF ExchangeInv, LookupsOK, RevalsOK, Keeps
    <3>2. <<c.account, FxMonth[d.day]>> \notin revaluations BY <2>3, <3>1 DEF RevalHeld
    <3>3. \A x \in d.todo : x.account # c.account /\ <<x.account, FxMonth[d.day]>> \notin revaluations
        BY <2>3, <3>1 DEF RevalHeld
    <3>4. \A x, y \in d.todo : x.account = y.account => x = y BY <2>3, <3>1 DEF RevalHeld
    <3> QED BY <2>3, <2>5, <2>9, <3>2, <3>3, <3>4 DEF RevalHeld, Current
  <2> QED BY <1>0, <1>1, <2>5, <2>7, <2>8, <2>10, NoRowsChange, LookMoves
<1> QED BY <1>2, <1>3

(* A revaluation goes on with the same account. *)
LEMMA RevalGoesOn ==
    ASSUME ExchangeInv, NEW r \in Req, NEW label \in RevalLabels, Goto(r, label, loc[r]),
           pc[r] \in RevalLabels \ {"reval check", "reval record"},
           label \in GainLabels => Diff(loc[r]) # 0,
           label \in {"reval record", "reval value"} => label = pc[r],
           UNCHANGED <<rates, trail, untold, transfers, reversals, cashIn, halved,
                       fxBook, revaluations, unrecorded>>,
           fxAccounts' \subseteq {"gain", "loss"}
    PROVE  ExchangeInv'
<1>0. pc[r] # "idle" BY DEF RevalLabels, GainLabels
<1>1. Keeps(r) /\ pc'[r] = label /\ loc'[r] = loc[r] BY <1>0, GotoKeeps DEF ExchangeInv
<1>2. /\ Revaluing(r) /\ Revaluing(r)' /\ pc[r] \in LookLabels /\ pc'[r] \in LookLabels
      /\ pc[r] \in ValuedLabels /\ pc'[r] \notin {"lookup", "lookup base"}
    BY <1>1 DEF Revaluing, LookLabels, RevalLabels, GainLabels, ValuedLabels
<1>3. Diff(loc[r])' = Diff(loc[r]) BY <1>1 DEF Diff, DeriveBaseAmount
<1>4. LookHeld(r) BY DEF ExchangeInv, LookupsOK
<1>5. LookHeld(r)' BY <1>1, <1>2, <1>3, <1>4 DEF LookHeld
<1>6. ASSUME "reval" \notin raced' PROVE RevalHeld(r)'
  <2>1. RevalHeld(r) BY <1>1, <1>2, <1>6 DEF ExchangeInv, LookupsOK, RevalsOK, Keeps
  <2> QED BY <1>1, <2>1, SameItem
<1> QED BY <1>1, <1>2, <1>5, <1>6, LookMoves

LEMMA RevalValueOK ==
    ASSUME ExchangeInv, NEW r \in Req, RevalValue(r)
    PROVE  ExchangeInv'
<1>1. UNCHANGED exchangeVars /\ pc[r] = "reval value" BY DEF RevalValue
<1>2. PICK label : label = IF Diff(loc[r]) = 0 THEN "reval check" ELSE "gain" OBVIOUS
<1>3. Goto(r, label, loc[r]) BY <1>2 DEF RevalValue
<1>4. label \in RevalLabels /\ (label \in GainLabels => Diff(loc[r]) # 0)
      /\ label \notin {"reval record", "reval value"}
    BY <1>2 DEF RevalLabels, GainLabels
<1> QED BY <1>1, <1>3, <1>4, NoRowsChange, RevalGoesOn DEF RevalLabels

LEMMA GainHeld ==
    ASSUME ExchangeInv, NEW r \in Req, pc[r] \in GainLabels
    PROVE  Diff(loc[r]) # 0
    BY DEF ExchangeInv, LookupsOK, LookHeld, LookLabels, RevalLabels

LEMMA EnsureFindOK ==
    ASSUME ExchangeInv, NEW r \in Req, EnsureFind(r)
    PROVE  ExchangeInv'
<1>1. UNCHANGED exchangeVars /\ pc[r] \in {"gain", "loss"} BY DEF EnsureFind
<1>2. PICK label : label = IF pc[r] \in fxAccounts THEN AfterEnsure(pc[r])
                           ELSE IF pc[r] = "gain" THEN "insert gain" ELSE "insert loss" OBVIOUS
<1>3. Goto(r, label, loc[r]) BY <1>2 DEF EnsureFind
<1>4. pc[r] \in GainLabels /\ label \in GainLabels BY <1>1, <1>2 DEF GainLabels, AfterEnsure
<1>5. Diff(loc[r]) # 0 BY <1>4, GainHeld
<1>6. /\ label \in RevalLabels /\ label \notin {"reval record", "reval value"}
      /\ pc[r] \in RevalLabels \ {"reval check", "reval record"}
    BY <1>1, <1>4 DEF RevalLabels, GainLabels
<1> QED BY <1>1, <1>3, <1>5, <1>6, NoRowsChange, RevalGoesOn

LEMMA EnsureInsertOK ==
    ASSUME ExchangeInv, NEW r \in Req, EnsureInsert(r)
    PROVE  ExchangeInv'
<1>1. /\ pc[r] \in {"insert gain", "insert loss"}
      /\ UNCHANGED <<rates, trail, fxBook, revaluations, untold, unrecorded, transfers,
                     reversals, cashIn, halved>>
    BY DEF EnsureInsert, transferVars
<1>2. PICK name : name = IF pc[r] = "insert gain" THEN "gain" ELSE "loss" OBVIOUS
<1>3. /\ fxAccounts' = fxAccounts \cup {name}
      /\ End(r) \/ Goto(r, AfterEnsure(name), loc[r])
    BY <1>2 DEF EnsureInsert
<1>4. fxAccounts' \subseteq {"gain", "loss"} BY <1>2, <1>3 DEF ExchangeInv, LookupsOK
<1>5. /\ pc[r] \in GainLabels /\ AfterEnsure(name) \in GainLabels
    BY <1>1, <1>2 DEF GainLabels, AfterEnsure
<1>6. CASE End(r)
  <2>1. Keeps(r) /\ pc'[r] = "idle" BY <1>6, EndKeeps DEF ExchangeInv, StaysOrEnds
  <2> QED BY <1>1, <1>4, <1>5, <2>1, EndedLooks, LookMoves DEF LookLabels, RevalLabels
<1>7. CASE Goto(r, AfterEnsure(name), loc[r])
  <2>1. Diff(loc[r]) # 0 BY <1>5, GainHeld
  <2>2. /\ AfterEnsure(name) \in RevalLabels
        /\ AfterEnsure(name) \notin {"reval record", "reval value"}
        /\ pc[r] \in RevalLabels \ {"reval check", "reval record"}
      BY <1>1, <1>5 DEF RevalLabels, GainLabels
  <2> QED BY <1>1, <1>4, <1>7, <2>1, <2>2, RevalGoesOn
<1> QED BY <1>3, <1>6, <1>7

LEMMA RevalPostOK ==
    ASSUME ExchangeInv, NEW r \in Req, RevalPost(r)
    PROVE  ExchangeInv'
<1>0. /\ pc[r] = "reval post" /\ Goto(r, "reval record", loc[r])
      /\ UNCHANGED <<rates, trail, revaluations, fxAccounts, untold, unrecorded, transfers,
                     reversals, cashIn, halved>>
    BY DEF RevalPost, transferVars
<1>1. Keeps(r) /\ pc'[r] = "reval record" /\ loc'[r] = loc[r]
    BY <1>0, GotoKeeps DEF ExchangeInv
<1>2. /\ pc[r] \in LookLabels /\ pc'[r] \in LookLabels /\ pc'[r] \notin GainLabels \cup ValuedLabels
      /\ pc[r] \in GainLabels /\ pc[r] \in ValuedLabels /\ Revaluing(r) /\ Revaluing(r)'
    BY <1>0, <1>1 DEF LookLabels, RevalLabels, GainLabels, ValuedLabels, Revaluing
<1>3. RatesOK' /\ TransfersOK' /\ RequestsOK' BY <1>0, <1>1, <1>2, LookApart
<1>4. LookHeld(r) BY DEF ExchangeInv, LookupsOK
<1>5. LookHeld(r)' BY <1>0, <1>1, <1>2, <1>4 DEF LookHeld
<1>a. PICK held \in BOOLEAN :
        fxBook' = Append(fxBook,
            [kind |-> "reval", account |-> loc[r].item.account, foreign |-> 0,
             base |-> Diff(loc[r]), month |-> FxMonth[loc[r].day],
             rate |-> loc[r].look.got, seen |-> loc[r].look.seen, held |-> held])
    BY DEF RevalPost
<1>6. PICK e : e = [kind |-> "reval", account |-> loc[r].item.account, foreign |-> 0,
                    base |-> Diff(loc[r]), month |-> FxMonth[loc[r].day],
                    rate |-> loc[r].look.got, seen |-> loc[r].look.seen, held |-> held] OBVIOUS
<1>7. fxBook' = Append(fxBook, e) BY <1>a, <1>6
<1>8. /\ e.account = loc[r].item.account /\ e.base = Diff(loc[r])
      /\ e.rate = loc[r].look.got /\ e.seen = loc[r].look.seen
      /\ e.month = FxMonth[loc[r].day]
    BY <1>6
<1>9. /\ e.account \in FxAccount /\ e.base # 0 /\ Agrees(e.rate, e.seen)
      /\ MonthOfEntry(e) = Current(r)
    BY <1>0, <1>2, <1>4, <1>8 DEF LookHeld, MonthOfEntry, Current
<1>10. ASSUME "reval" \notin raced'
       PROVE  /\ RevalHeld(r)' /\ Recorded(e)'
              /\ \A i \in DOMAIN fxBook :
                    fxBook[i].kind = "reval" /\ MonthOfEntry(fxBook[i]) = MonthOfEntry(e)
                        => MonthOfEntry(e) \in unrecorded
  <2>1. "reval" \notin raced BY <1>1, <1>10 DEF Keeps
  <2>2. RevalHeld(r) /\ \A i \in DOMAIN fxBook : fxBook[i].kind = "reval" => Recorded(fxBook[i])
      BY <1>2, <2>1 DEF ExchangeInv, LookupsOK, RevalsOK
  <2>3. RevalHeld(r)' BY <1>0, <1>1, <2>2, SameItem
  <2>4. Recorded(e)' BY <1>1, <1>9 DEF Recorded, Current
  <2>5. ASSUME NEW i \in DOMAIN fxBook, fxBook[i].kind = "reval",
               MonthOfEntry(fxBook[i]) = MonthOfEntry(e)
        PROVE  MonthOfEntry(e) \in unrecorded
    <3>1. Recorded(fxBook[i]) BY <2>2, <2>5
    <3>2. MonthOfEntry(e) \notin revaluations BY <1>0, <1>9, <2>2 DEF RevalHeld
    <3>3. ~\E q \in Req : pc[q] = "reval record"
      <4> SUFFICES ASSUME NEW q \in Req, pc[q] = "reval record" PROVE FALSE OBVIOUS
      <4>1. Revaluing(q) BY DEF Revaluing, RevalLabels
      <4>2. q = r BY <1>2, <2>1, <4>1, OneRevaluation
      <4> QED BY <1>0, <4>2
    <3> QED BY <2>5, <3>1, <3>2, <3>3 DEF Recorded
  <2> QED BY <2>3, <2>4, <2>5
<1>11. LookupsOK' BY <1>0, <1>1, <1>5, <1>7, <1>9, <1>10, BookGrows DEF ExchangeInv
<1> QED BY <1>3, <1>11 DEF ExchangeInv

LEMMA RevalRecordOK ==
    ASSUME ExchangeInv, NEW r \in Req, RevalRecord(r)
    PROVE  ExchangeInv'
<1>0. /\ pc[r] = "reval record"
      /\ UNCHANGED <<rates, trail, fxBook, fxAccounts, untold, unrecorded, transfers,
                     reversals, cashIn, halved>>
      /\ revaluations' = revaluations \cup {Current(r)}
      /\ IF Current(r) \in revaluations THEN End(r) ELSE Goto(r, "reval check", loc[r])
    BY DEF RevalRecord, transferVars, Current
<1>1. Keeps(r) /\ (pc'[r] = "idle" \/ (pc'[r] = "reval check" /\ loc'[r] = loc[r]))
  <2>1. CASE End(r) BY <2>1, EndKeeps DEF ExchangeInv, StaysOrEnds
  <2>2. CASE Goto(r, "reval check", loc[r]) BY <1>0, <2>2, GotoKeeps DEF ExchangeInv
  <2> QED BY <1>0, <2>1, <2>2
<1>2. /\ pc[r] \in LookLabels /\ pc'[r] \in LookLabels \cup {"idle"} /\ Revaluing(r)
    BY <1>0, <1>1 DEF LookLabels, RevalLabels, Revaluing
<1>3. RatesOK' /\ TransfersOK' /\ RequestsOK' BY <1>0, <1>1, <1>2, LookApart
<1>4. LookHeld(r) BY DEF ExchangeInv, LookupsOK
<1>5. loc[r].item.account \in FxAccount /\ loc[r].day \in FxDay BY <1>0, <1>2, <1>4 DEF LookHeld
<1>6. revaluations' \subseteq FxAccount \X {FxMonth[d] : d \in FxDay}
  <2>1. Current(r) \in FxAccount \X {FxMonth[d] : d \in FxDay} BY <1>5 DEF Current
  <2> QED BY <1>0, <2>1 DEF ExchangeInv, LookupsOK
<1>7. LookHeld(r)'
  <2>1. CASE pc'[r] = "idle" BY <2>1, EndedLooks
  <2>2. CASE pc'[r] = "reval check" /\ loc'[r] = loc[r]
    <3>1. Revaluing(r)' /\ pc'[r] \notin ValuedLabels \cup GainLabels
        BY <2>2 DEF Revaluing, RevalLabels, ValuedLabels, GainLabels
    <3> QED BY <1>2, <1>4, <2>2, <3>1 DEF LookHeld
  <2> QED BY <1>1, <2>1, <2>2
<1>8. \A q \in Req \ {r} : pc'[q] = pc[q] /\ loc'[q] = loc[q] BY <1>1 DEF Keeps
<1>9. \A q \in Req \ {r} : Revaluing(q)' <=> Revaluing(q) BY <1>8 DEF Revaluing
<1>10. \A q \in Req \ {r} : LookHeld(q)'
  <2> SUFFICES ASSUME NEW q \in Req \ {r} PROVE LookHeld(q)' OBVIOUS
  <2>1. LookHeld(q) BY DEF ExchangeInv, LookupsOK
  <2> QED BY <1>8, <1>9, <2>1 DEF LookHeld
<1>11. RevalsOK'
  <2> SUFFICES ASSUME "reval" \notin raced' PROVE RevalsOK' BY DEF RevalsOK
  <2>1. "reval" \notin raced BY <1>1 DEF Keeps
  <2>2. /\ \A i \in DOMAIN fxBook : fxBook[i].kind = "reval" => Recorded(fxBook[i])
        /\ RevaluedOnce /\ RevalHeld(r)
      BY <1>2, <2>1 DEF ExchangeInv, LookupsOK, RevalsOK
  <2>3. RevaluedOnce' BY <1>0, <2>1, <2>2 DEF RevaluedOnce
  <2>4. ASSUME NEW i \in DOMAIN fxBook, fxBook[i].kind = "reval" PROVE Recorded(fxBook[i])'
    <3>1. Recorded(fxBook[i]) BY <2>2, <2>4
    <3>2. PICK m : m = MonthOfEntry(fxBook[i]) OBVIOUS
    <3>3. \/ m \in revaluations \cup unrecorded
          \/ \E q \in Req : pc[q] = "reval record" /\ Current(q) = m
        BY <3>1, <3>2 DEF Recorded
    <3>4. CASE m \in revaluations \cup unrecorded
        BY <1>0, <3>2, <3>4 DEF Recorded, MonthOfEntry
    <3>5. ASSUME NEW q \in Req, pc[q] = "reval record", Current(q) = m
          PROVE  Recorded(fxBook[i])'
      <4>1. Revaluing(q) BY <3>5 DEF Revaluing, RevalLabels
      <4>2. q = r BY <1>2, <2>1, <4>1, OneRevaluation
      <4>3. m \in revaluations' BY <1>0, <3>5, <4>2
      <4> QED BY <1>0, <3>2, <4>3 DEF Recorded, MonthOfEntry
    <3> QED BY <3>3, <3>4, <3>5
  <2>5. ASSUME NEW q \in Req, Revaluing(q)' PROVE RevalHeld(q)'
    <3>1. q = r BY <1>2, <1>9, <2>1, <2>5, OneRevaluation
    <3>2. pc'[r] = "reval check" /\ loc'[r] = loc[r]
        BY <1>1, <2>5, <3>1, EndedLooks
    <3>3. \A c \in loc[r].todo : /\ c.account # loc[r].item.account
                                 /\ <<c.account, FxMonth[loc[r].day]>> \notin revaluations
        BY <1>0, <2>2 DEF RevalHeld
    <3>4. \A c \in loc[r].todo : <<c.account, FxMonth[loc[r].day]>> \notin revaluations'
        BY <1>0, <3>3 DEF Current
    <3> QED BY <2>2, <3>1, <3>2, <3>4 DEF RevalHeld
  <2> QED BY <1>0, <2>3, <2>4, <2>5 DEF RevalsOK
<1>12. LookupsOK' BY <1>0, <1>6, <1>7, <1>10, <1>11 DEF ExchangeInv, LookupsOK
<1> QED BY <1>3, <1>12 DEF ExchangeInv

-----------------------------------------------------------------------------
(* Transfers. *)
LEMMA TransferApart ==
    ASSUME ExchangeInv, NEW r \in Req, Keeps(r),
           pc[r] \in TransferLabels \cup {"idle"}, pc'[r] \in TransferLabels \cup {"idle"},
           UNCHANGED fxVars
    PROVE  RatesOK' /\ LookupsOK' /\ RequestsOK'
<1>1. Outside(r, OverrideLabels) /\ Outside(r, LookLabels)
    BY DEF Outside, LookLabels, RevalLabels, GainLabels, TransferLabels, OverrideLabels
<1>2. UNCHANGED <<rates, trail, fxBook, revaluations, fxAccounts, untold, unrecorded>>
    BY DEF fxVars
<1>3. RatesOK' BY <1>1, <1>2, RatesFrame DEF ExchangeInv
<1>4. LookupsOK' BY <1>1, <1>2, LookupsFrame DEF ExchangeInv
<1> QED BY <1>3, <1>4 DEF Keeps

(* A transfer request that is not between the two sides of a reversal. *)
LEMMA TransferMoves ==
    ASSUME ExchangeInv, NEW r \in Req, Keeps(r), UNCHANGED <<fxVars, reversals, cashIn, halved>>,
           pc[r] \in TransferLabels \cup {"idle"}, pc'[r] \in TransferLabels \cup {"idle"},
           pc[r] # "reverse", pc'[r] = "reverse" => loc'[r].half = 1,
           TransferHeld(r)',
           transfers' \in [Transfer -> {NoTransfer, BothSides}],
           \A t \in Transfer : transfers[t] # NoTransfer => transfers'[t] = transfers[t]
    PROVE  ExchangeInv'
<1>1. RatesOK' /\ LookupsOK' /\ RequestsOK' BY TransferApart
<1>2. \A q \in Req \ {r} : pc'[q] = pc[q] /\ loc'[q] = loc[q] BY DEF Keeps
<1>3. BothSides' = BothSides BY DEF BothSides, SimpleLegs
<1>4. \A t : Halfway(t)' = Halfway(t) BY <1>2 DEF Halfway
<1>5. \A t, s : Reversing(t, s)' = Reversing(t, s) BY DEF Reversing
<1>6. ASSUME NEW v \in reversals PROVE ReversalOK(v)'
  <2>1. ReversalOK(v) BY DEF ExchangeInv, TransfersOK
  <2>2. v.of[1] \in Transfer BY <2>1 DEF ReversalOK, Txn
  <2>3. transfers'[v.of[1]] = transfers[v.of[1]] BY <2>1, <2>2 DEF ReversalOK
  <2> QED BY <2>1, <2>3 DEF ReversalOK
<1>7. \A q \in Req : TransferHeld(q)'
  <2>1. TransferHeld(r)' OBVIOUS
  <2>2. ASSUME NEW q \in Req \ {r} PROVE TransferHeld(q)'
    <3>1. TransferHeld(q) BY DEF ExchangeInv, TransfersOK
    <3> QED BY <1>2, <3>1 DEF TransferHeld, TransferLabels
  <2> QED BY <2>1, <2>2
<1>8. TransfersOK' BY <1>3, <1>4, <1>5, <1>6, <1>7 DEF ExchangeInv, TransfersOK
<1> QED BY <1>1, <1>8 DEF ExchangeInv

LEMMA TransferBeginOK ==
    ASSUME ExchangeInv, NEW r \in Req, NEW t \in Transfer, TransferBegin(r, t)
    PROVE  ExchangeInv'
<1>1. PICK d : d = [on |-> "transfers", id |-> t] OBVIOUS
<1>2. d.on = "transfers" /\ d.id = t /\ Begin(r, "transfer", d) BY <1>1 DEF TransferBegin
<1>3. Keeps(r) /\ pc[r] = "idle" /\ pc'[r] = "transfer" /\ loc'[r] = d
    BY <1>2, BeginKeeps DEF ExchangeInv
<1>4. UNCHANGED <<transfers, reversals, cashIn, halved, fxVars>> BY DEF TransferBegin
<1>5. transfers' \in [Transfer -> {NoTransfer, BothSides}] BY <1>4 DEF ExchangeInv, TransfersOK
<1>6. TransferHeld(r)' BY <1>2, <1>3 DEF TransferHeld, TransferLabels
<1> QED BY <1>2, <1>3, <1>4, <1>5, <1>6, TransferMoves DEF TransferLabels

LEMMA TransferCommitOK ==
    ASSUME ExchangeInv, NEW r \in Req, TransferCommit(r)
    PROVE  ExchangeInv'
<1>0. /\ pc[r] = "transfer" /\ End(r) /\ transfers[loc[r].id] = NoTransfer
      /\ UNCHANGED <<reversals, cashIn, halved, fxVars>>
    BY DEF TransferCommit
<1>1. Keeps(r) /\ pc'[r] = "idle" BY <1>0, EndKeeps DEF ExchangeInv, StaysOrEnds
<1>2. loc[r].id \in Transfer
    BY <1>0 DEF ExchangeInv, TransfersOK, TransferHeld
<1>3. PICK b : b = BothSides OBVIOUS
<1>4. transfers' = [transfers EXCEPT ![loc[r].id] = b] BY <1>3 DEF TransferCommit, BothSides
<1>5. transfers \in [Transfer -> {NoTransfer, b}] BY <1>3 DEF ExchangeInv, TransfersOK
<1>6. transfers' \in [Transfer -> {NoTransfer, BothSides}] BY <1>2, <1>3, <1>4, <1>5
<1>7. \A t \in Transfer : transfers[t] # NoTransfer => transfers'[t] = transfers[t]
    BY <1>0, <1>2, <1>4, <1>5
<1>8. TransferHeld(r)' BY <1>1 DEF TransferHeld, TransferLabels
<1> QED BY <1>0, <1>1, <1>6, <1>7, <1>8, TransferMoves DEF TransferLabels

LEMMA ReverseBeginOK ==
    ASSUME ExchangeInv, NEW r \in Req, NEW ledger \in Side, NEW p \in Pairs,
           ReverseBegin(r, ledger, p)
    PROVE  ExchangeInv'
<1>1. PICK d : d = [on |-> "transfers", pair |-> p, half |-> 1, ledger |-> ledger] OBVIOUS
<1>2. d.on = "transfers" /\ d.pair = p /\ d.half = 1 /\ Begin(r, "reverse", d)
    BY <1>1 DEF ReverseBegin
<1>3. Keeps(r) /\ pc[r] = "idle" /\ pc'[r] = "reverse" /\ loc'[r] = d
    BY <1>2, BeginKeeps DEF ExchangeInv
<1>4. UNCHANGED <<transfers, reversals, cashIn, halved, fxVars>>
    BY DEF ReverseBegin, exchangeVars, fxVars
<1>5. transfers' \in [Transfer -> {NoTransfer, BothSides}] BY <1>4 DEF ExchangeInv, TransfersOK
<1>6. TransferHeld(r)' BY <1>2, <1>3 DEF TransferHeld, TransferLabels
<1> QED BY <1>2, <1>3, <1>4, <1>5, <1>6, TransferMoves DEF TransferLabels

(* Counting: a member more, or a member less. *)
LEMMA OneMore ==
    ASSUME NEW S, IsFiniteSet(S), NEW x, x \notin S
    PROVE  IsFiniteSet(S \cup {x}) /\ Cardinality(S \cup {x}) = Cardinality(S) + 1
           /\ Cardinality(S) \in Nat
    BY FS_AddElement, FS_CardinalityType

LEMMA OneLess ==
    ASSUME NEW S, IsFiniteSet(S), NEW x \in S
    PROVE  Cardinality(S) = Cardinality(S \ {x}) + 1 /\ Cardinality(S \ {x}) \in Nat
<1>1. IsFiniteSet(S \ {x}) BY FS_Subset
<1>2. x \notin S \ {x} /\ (S \ {x}) \cup {x} = S OBVIOUS
<1> QED BY <1>1, <1>2, OneMore

(* The reversal v is written, and the request goes on with d or ends. *)
ReverseStep(r, v, d) ==
    /\ UNCHANGED halved /\ reversals' = reversals \cup {v}
    /\ IF loc[r].half = 2 THEN End(r) ELSE Goto(r, "reverse", d)

LEMMA ReversesOne ==
    ASSUME ExchangeInv, NEW r \in Req, NEW t \in Pairs, NEW s \in {1, 2}, NEW x \in Txn,
           x[1] \in Transfer, transfers[x[1]] # NoTransfer, NEW v, NEW d,
           t = loc[r].pair, s = loc[r].half, loc[r].on = "transfers",
           v = [of |-> x, pair |-> t, half |-> s, ledger |-> loc[r].ledger,
                nth |-> Cardinality(reversals), legs |-> Reversed(transfers[x[1]].legs[x[2]])],
           d = [on |-> "transfers", pair |-> t, half |-> 2, ledger |-> loc[r].ledger],
           pc[r] = "reverse", UNCHANGED <<transfers, cashIn, fxVars>>, ReverseStep(r, v, d)
    PROVE  ExchangeInv'
<1>4. /\ UNCHANGED <<transfers, cashIn, halved, fxVars>>
      /\ reversals' = reversals \cup {v}
      /\ IF s = 2 THEN End(r) ELSE Goto(r, "reverse", d)
    BY DEF ReverseStep
<1>5. /\ v.of = x /\ v.pair = t /\ v.half = s /\ v.nth = Cardinality(reversals)
      /\ v.legs = Reversed(transfers[x[1]].legs[x[2]])
      /\ d.on = "transfers" /\ d.pair = t /\ d.half = 2
    OBVIOUS
<1>6. /\ Keeps(r)
      /\ s = 2 => pc'[r] = "idle"
      /\ s # 2 => pc'[r] = "reverse" /\ loc'[r] = d
  <2>1. CASE s = 2 BY <1>4, <2>1, EndKeeps DEF ExchangeInv, StaysOrEnds
  <2>2. CASE s # 2
    <3>1. RequestsOK /\ pc[r] # "idle" /\ d.on = loc[r].on /\ Goto(r, "reverse", d)
        BY <1>4, <1>5, <2>2 DEF ExchangeInv
    <3> QED BY <2>2, <3>1, GotoKeeps
  <2> QED BY <2>1, <2>2
<1>7. RatesOK' /\ LookupsOK' /\ RequestsOK'
    BY <1>4, <1>6, TransferApart DEF TransferLabels
<1>8. t \in Pairs /\ s \in {1, 2} OBVIOUS
<1>9. IsFiniteSet(reversals) /\ v \notin reversals
  <2>1. IsFiniteSet(reversals) BY DEF ExchangeInv, TransfersOK
  <2>2. \A y \in reversals : y.nth \in Nat /\ y.nth < Cardinality(reversals)
      BY DEF ExchangeInv, TransfersOK, ReversalOK
  <2>3. v \notin reversals
    <3> SUFFICES ASSUME v \in reversals PROVE FALSE OBVIOUS
    <3>1. Cardinality(reversals) \in Nat BY <2>1, FS_CardinalityType
    <3>2. v.nth < Cardinality(reversals) BY <2>2
    <3> QED BY <1>5, <3>1, <3>2
  <2> QED BY <2>1, <2>3
<1>10. /\ IsFiniteSet(reversals') /\ Cardinality(reversals') = Cardinality(reversals) + 1
       /\ Cardinality(reversals) \in Nat
    BY <1>4, <1>9, OneMore
<1>11. \A y \in reversals' : ReversalOK(y)'
  <2> SUFFICES ASSUME NEW y \in reversals' PROVE ReversalOK(y)' OBVIOUS
  <2>1. CASE y = v BY <1>4, <1>5, <1>10, <2>1 DEF ReversalOK
  <2>2. CASE y # v
    <3>1. ReversalOK(y) BY <1>4, <2>2 DEF ExchangeInv, TransfersOK
    <3> QED BY <1>4, <1>10, <3>1 DEF ReversalOK
  <2> QED BY <2>1, <2>2
<1>12. \A q \in Req \ {r} : pc'[q] = pc[q] /\ loc'[q] = loc[q] BY <1>6 DEF Keeps
<1>13. \A q \in Req : TransferHeld(q)'
  <2>1. TransferHeld(r)' BY <1>4, <1>5, <1>6, <1>8 DEF TransferHeld, TransferLabels
  <2>2. ASSUME NEW q \in Req \ {r} PROVE TransferHeld(q)'
    <3>1. TransferHeld(q) BY DEF ExchangeInv, TransfersOK
    <3> QED BY <1>4, <1>12, <3>1 DEF TransferHeld
  <2> QED BY <2>1, <2>2
<1>14. BothSides' = BothSides BY <1>4 DEF BothSides, SimpleLegs
<1>15. ASSUME NEW u \in Pairs \ halved'
       PROVE  Cardinality(Reversing(u, 1))'
                 = Cardinality(Reversing(u, 2))' + Cardinality(Halfway(u))'
  <2>1. Cardinality(Reversing(u, 1))
           = Cardinality(Reversing(u, 2)) + Cardinality(Halfway(u))
      BY <1>4 DEF ExchangeInv, TransfersOK
  <2>2. CASE u # t
    <3>1. \A h : Reversing(u, h)' = Reversing(u, h) BY <1>4, <1>5, <2>2 DEF Reversing
    <3>2. Halfway(u)' = Halfway(u) BY <1>5, <1>6, <1>12, <2>2 DEF Halfway
    <3> QED BY <2>1, <3>1, <3>2
  <2>3. CASE u = t
    <3>1. IsFiniteSet(Reversing(t, 1)) /\ IsFiniteSet(Reversing(t, 2))
          /\ IsFiniteSet(Halfway(t))
        BY <1>9, FS_Subset, ExchangeAssumption DEF Reversing, Halfway
    <3>2. v \notin Reversing(t, s) BY <1>9 DEF Reversing
    <3>3. CASE s = 1
      <4>1. Reversing(t, 1)' = Reversing(t, 1) \cup {v}
          BY <1>4, <1>5, <3>3 DEF Reversing
      <4>2. Reversing(t, 2)' = Reversing(t, 2) BY <1>4, <1>5, <3>3 DEF Reversing
      <4>3. Halfway(t)' = Halfway(t) \cup {r} /\ r \notin Halfway(t)
        <5>1. s # 2 /\ loc[r].half # 2 BY <3>3
        <5>2. pc'[r] = "reverse" /\ loc'[r].pair = t /\ loc'[r].half = 2 BY <1>5, <1>6, <5>1
        <5> QED BY <1>12, <5>1, <5>2 DEF Halfway
      <4>4. /\ Cardinality(Reversing(t, 1) \cup {v}) = Cardinality(Reversing(t, 1)) + 1
            /\ Cardinality(Reversing(t, 1)) \in Nat
          BY <3>1, <3>2, <3>3, OneMore
      <4>5. /\ Cardinality(Halfway(t) \cup {r}) = Cardinality(Halfway(t)) + 1
            /\ Cardinality(Halfway(t)) \in Nat
          BY <3>1, <4>3, OneMore
      <4>6. Cardinality(Reversing(t, 2)) \in Nat BY <3>1, FS_CardinalityType
      <4>7. Cardinality(Reversing(t, 1)) + 1
               = Cardinality(Reversing(t, 2)) + (Cardinality(Halfway(t)) + 1)
          BY <2>1, <2>3, <4>4, <4>5, <4>6
      <4>8. /\ Cardinality(Reversing(u, 1))' = Cardinality(Reversing(t, 1)) + 1
            /\ Cardinality(Reversing(u, 2))' = Cardinality(Reversing(t, 2))
            /\ Cardinality(Halfway(u))' = Cardinality(Halfway(t)) + 1
          BY ONLY <2>3, <4>1, <4>2, <4>3, <4>4, <4>5
      <4> QED BY <4>7, <4>8
    <3>4. CASE s = 2
      <4>1. Reversing(t, 2)' = Reversing(t, 2) \cup {v}
          BY <1>4, <1>5, <3>4 DEF Reversing
      <4>2. Reversing(t, 1)' = Reversing(t, 1) BY <1>4, <1>5, <3>4 DEF Reversing
      <4>3. Halfway(t)' = Halfway(t) \ {r} /\ r \in Halfway(t)
          BY <1>4, <1>6, <1>12, <3>4 DEF Halfway
      <4>4. /\ Cardinality(Reversing(t, 2) \cup {v}) = Cardinality(Reversing(t, 2)) + 1
            /\ Cardinality(Reversing(t, 2)) \in Nat
          BY <3>1, <3>2, <3>4, OneMore
      <4>5. /\ Cardinality(Halfway(t)) = Cardinality(Halfway(t) \ {r}) + 1
            /\ Cardinality(Halfway(t) \ {r}) \in Nat
          BY <3>1, <4>3, OneLess
      <4>6. Cardinality(Reversing(t, 1))
               = (Cardinality(Reversing(t, 2)) + 1) + Cardinality(Halfway(t) \ {r})
          BY <2>1, <2>3, <4>4, <4>5
      <4>7. /\ Cardinality(Reversing(u, 1))' = Cardinality(Reversing(t, 1))
            /\ Cardinality(Reversing(u, 2))' = Cardinality(Reversing(t, 2)) + 1
            /\ Cardinality(Halfway(u))' = Cardinality(Halfway(t) \ {r})
          BY ONLY <2>3, <4>1, <4>2, <4>3, <4>4, <4>5
      <4> QED BY <4>6, <4>7
    <3> QED BY <1>8, <3>3, <3>4
  <2> QED BY <2>2, <2>3
<1>16. TransfersOK'
    BY <1>4, <1>10, <1>11, <1>13, <1>14, <1>15 DEF ExchangeInv, TransfersOK
<1> QED BY <1>7, <1>16 DEF ExchangeInv

(* A request that ends where no pair is left half reversed unnoticed. *)
LEMMA TransferEnds ==
    ASSUME TransfersOK, NEW r \in Req, Keeps(r), pc'[r] = "idle",
           UNCHANGED <<transfers, reversals, cashIn>>, halved \subseteq halved',
           pc[r] = "reverse" /\ loc[r].half = 2 => loc[r].pair \in halved'
    PROVE  TransfersOK'
<1>2. \A q \in Req \ {r} : pc'[q] = pc[q] /\ loc'[q] = loc[q] BY DEF Keeps
<1>3. BothSides' = BothSides BY DEF BothSides, SimpleLegs
<1>4. \A p \in Pairs \ halved' : Halfway(p)' = Halfway(p) BY <1>2 DEF Halfway
<1>5. \A p, h : Reversing(p, h)' = Reversing(p, h) BY DEF Reversing
<1>6. \A v \in reversals : ReversalOK(v)' BY DEF TransfersOK, ReversalOK
<1>7. \A q \in Req : TransferHeld(q)' BY <1>2 DEF TransfersOK, TransferHeld, TransferLabels
<1> QED BY <1>3, <1>4, <1>5, <1>6, <1>7 DEF TransfersOK

(* An id that is not there: the request ends, perhaps after the first.     *)
LEMMA ReverseRefused ==
    ASSUME ExchangeInv, NEW r \in Req, Keeps(r), pc[r] = "reverse", pc'[r] = "idle",
           UNCHANGED <<transfers, reversals, cashIn, fxVars>>, halved \subseteq halved',
           loc[r].half = 2 => loc[r].pair \in halved'
    PROVE  ExchangeInv'
<1>1. RatesOK' /\ LookupsOK' /\ RequestsOK' BY TransferApart DEF TransferLabels
<1>2. TransfersOK' BY TransferEnds DEF ExchangeInv
<1> QED BY <1>1, <1>2 DEF ExchangeInv

LEMMA ReverseSideOK ==
    ASSUME ExchangeInv, NEW r \in Req, ReverseSide(r)
    PROVE  ExchangeInv'
<1>1. PICK t, s, x : t = loc[r].pair /\ s = loc[r].half /\ x = t[s] OBVIOUS
<1>2. PICK v : v = [of |-> x, pair |-> t, half |-> s, ledger |-> loc[r].ledger,
                    nth |-> Cardinality(reversals),
                    legs |-> Reversed(transfers[x[1]].legs[x[2]])] OBVIOUS
<1>3. PICK d : d = [on |-> "transfers", pair |-> t, half |-> 2, ledger |-> loc[r].ledger]
    OBVIOUS
<1>a. pc[r] = "reverse" /\ UNCHANGED <<transfers, cashIn, fxVars>> BY DEF ReverseSide
<1>b. /\ loc[r].on = "transfers" /\ t \in Pairs /\ s \in {1, 2} /\ x \in Txn
      /\ x[1] \in Transfer
  <2>1. TransferHeld(r) BY DEF ExchangeInv, TransfersOK
  <2>2. loc[r].on = "transfers" /\ t \in Pairs /\ s \in {1, 2}
      BY <1>1, <1>a, <2>1 DEF TransferHeld, TransferLabels
  <2>3. x \in Txn BY <1>1, <2>2 DEF Pairs
  <2> QED BY <2>2, <2>3 DEF Txn
<1>c. CASE transfers[x[1]] = NoTransfer
  <2>1. /\ End(r) /\ UNCHANGED reversals /\ halved \subseteq halved'
        /\ loc[r].half = 2 => loc[r].pair \in halved'
      BY <1>1, <1>c DEF ReverseSide
  <2>2. Keeps(r) /\ pc'[r] = "idle" BY <1>a, <2>1, EndKeeps DEF ExchangeInv, StaysOrEnds
  <2> QED BY <1>a, <2>1, <2>2, ReverseRefused
<1>d. CASE transfers[x[1]] # NoTransfer
 <2>1. ReverseStep(r, v, d) BY <1>1, <1>2, <1>3, <1>a, <1>d DEF ReverseSide, ReverseStep
 <2> QED BY <1>1, <1>2, <1>3, <1>a, <1>b, <1>d, <2>1, ReversesOne
<1> QED BY <1>c, <1>d

-----------------------------------------------------------------------------
(* What a request that is cut off leaves is remembered. *)
LEMMA CutOffRates ==
    ASSUME ExchangeInv, NEW r \in Req, ExchangeCutOff(r), Keeps(r), pc'[r] = "idle"
    PROVE  RatesOK'
<1>1. UNCHANGED <<rates, trail>> /\ untold \subseteq untold'
      /\ (pc[r] = "rate audit" => loc[r].on \in untold')
    BY DEF ExchangeCutOff
<1>2. \A q \in Req \ {r} : pc'[q] = pc[q] /\ loc'[q] = loc[q] BY DEF Keeps
<1>3. \A k : Told(k)' = Told(k) BY <1>1 DEF Told
<1>4. \A k, i : LastTold(k, i)' <=> LastTold(k, i) BY <1>3 DEF LastTold
<1>5. \A k : Chained(k)' <=> Chained(k) BY <1>1, <1>3 DEF Chained
<1>6. \A q \in Req : OverrideHeld(q)'
    BY <1>2 DEF ExchangeInv, RatesOK, OverrideHeld, OverrideLabels
<1>7. ASSUME NEW k \in RateKey \ (raced' \cup untold') PROVE TrailAt(k)'
  <2>1. TrailAt(k) BY <1>1 DEF ExchangeInv, RatesOK, Keeps
  <2>2. Telling(k)' <=> Telling(k) BY <1>1, <1>2 DEF Telling
  <2>3. \A q \in Req : pc'[q] \in OverrideLabels => pc'[q] = pc[q] /\ loc'[q] = loc[q]
      BY <1>2 DEF OverrideLabels
  <2>4. \A q \in Req : pc'[q] \in OverrideLabels /\ loc'[q].on = k =>
          \A i \in DOMAIN trail : LastTold(k, i) => loc'[q].old = trail[i].new
      BY <2>1, <2>3 DEF TrailAt
  <2>5. \A q \in Req : pc'[q] = "rate audit" /\ loc'[q].on = k =>
          rates[k].source = "manual" /\ rates[k].rate = loc'[q].new
      BY <2>1, <2>3 DEF TrailAt, OverrideLabels
  <2> QED BY <1>1, <1>3, <1>4, <1>5, <2>1, <2>2, <2>4, <2>5 DEF TrailAt
<1> QED BY <1>1, <1>6, <1>7 DEF ExchangeInv, RatesOK

LEMMA CutOffLookups ==
    ASSUME ExchangeInv, NEW r \in Req, ExchangeCutOff(r), Keeps(r), pc'[r] = "idle"
    PROVE  LookupsOK'
<1>1. /\ UNCHANGED <<fxBook, revaluations, fxAccounts>> /\ unrecorded \subseteq unrecorded'
      /\ pc[r] = "reval record" => Current(r) \in unrecorded'
    BY DEF ExchangeCutOff, Current
<1>2. \A q \in Req \ {r} : pc'[q] = pc[q] /\ loc'[q] = loc[q] BY DEF Keeps
<1>3. \A q \in Req \ {r} : Revaluing(q)' <=> Revaluing(q) BY <1>2 DEF Revaluing
<1>4. LookHeld(r)' /\ ~Revaluing(r)' BY EndedLooks
<1>5. \A q \in Req \ {r} : LookHeld(q)'
  <2> SUFFICES ASSUME NEW q \in Req \ {r} PROVE LookHeld(q)' OBVIOUS
  <2>1. LookHeld(q) BY DEF ExchangeInv, LookupsOK
  <2> QED BY <1>2, <1>3, <2>1 DEF LookHeld
<1>6. RevalsOK'
  <2> SUFFICES ASSUME "reval" \notin raced' PROVE RevalsOK' BY DEF RevalsOK
  <2>1. "reval" \notin raced BY DEF Keeps
  <2>2. /\ \A i \in DOMAIN fxBook : fxBook[i].kind = "reval" => Recorded(fxBook[i])
        /\ RevaluedOnce /\ \A q \in Req : Revaluing(q) => RevalHeld(q)
      BY <2>1 DEF ExchangeInv, LookupsOK, RevalsOK
  <2>3. RevaluedOnce' BY <1>1, <2>1, <2>2 DEF RevaluedOnce
  <2>4. ASSUME NEW i \in DOMAIN fxBook, fxBook[i].kind = "reval" PROVE Recorded(fxBook[i])'
    <3>1. Recorded(fxBook[i]) BY <2>2, <2>4
    <3>2. PICK m : m = MonthOfEntry(fxBook[i]) OBVIOUS
    <3>3. \/ m \in revaluations \cup unrecorded
          \/ \E q \in Req : pc[q] = "reval record" /\ Current(q) = m
        BY <3>1, <3>2 DEF Recorded
    <3>4. \A q \in Req \ {r} : pc[q] = "reval record" => Current(q)' = Current(q)
        BY <1>2 DEF Current
    <3>5. \/ m \in revaluations' \cup unrecorded'
          \/ \E q \in Req : pc'[q] = "reval record" /\ Current(q)' = m
        BY <1>1, <1>2, <3>3, <3>4
    <3> QED BY <1>1, <3>2, <3>5 DEF Recorded, MonthOfEntry
  <2>5. ASSUME NEW q \in Req, Revaluing(q)' PROVE RevalHeld(q)'
    <3>1. q # r BY <1>4, <2>5
    <3>2. pc'[q] = pc[q] /\ loc'[q] = loc[q] /\ RevalHeld(q) BY <1>2, <1>3, <2>2, <2>5, <3>1
    <3> QED BY <1>1, <3>2 DEF RevalHeld, Current
  <2> QED BY <1>1, <2>3, <2>4, <2>5 DEF RevalsOK
<1> QED BY <1>1, <1>4, <1>5, <1>6 DEF ExchangeInv, LookupsOK

LEMMA CutOffTransfers ==
    ASSUME ExchangeInv, NEW r \in Req, ExchangeCutOff(r), Keeps(r), pc'[r] = "idle"
    PROVE  TransfersOK'
<1>1. /\ UNCHANGED <<transfers, reversals, cashIn>> /\ halved \subseteq halved'
      /\ pc[r] = "reverse" /\ loc[r].half = 2 => loc[r].pair \in halved'
    BY DEF ExchangeCutOff
<1> QED BY <1>1, TransferEnds DEF ExchangeInv

LEMMA ExchangeCutOffOK ==
    ASSUME ExchangeInv, NEW r \in Req, ExchangeCutOff(r)
    PROVE  ExchangeInv'
<1>1. Keeps(r) /\ pc'[r] = "idle"
    BY EndKeeps DEF ExchangeCutOff, CutOff, ExchangeInv, StaysOrEnds
<1> QED BY <1>1, CutOffRates, CutOffLookups, CutOffTransfers DEF ExchangeInv, Keeps

-----------------------------------------------------------------------------
LEMMA ExchangeInitOK ==
    ASSUME InitRequests, InitExchange PROVE ExchangeInv
<1>1. RequestsOK BY InitRequestsOK
<1>2. \A q \in Req : pc[q] = "idle" BY DEF InitRequests
<1>3. /\ rates = [k \in RateKey |-> NoRate] /\ trail = <<>> /\ fxBook = <<>>
      /\ revaluations = {} /\ fxAccounts = {} /\ reversals = {}
      /\ transfers = [t \in Transfer |-> NoTransfer]
    BY DEF InitExchange
<1>4. RatesOK
  <2>1. \A k \in RateKey : rates[k].source # "manual" BY <1>3 DEF NoRate
  <2>2. \A k : Told(k) = {} BY <1>3 DEF Told
  <2>3. \A k, i : ~LastTold(k, i) BY <2>2 DEF LastTold
  <2>4. \A q \in Req : OverrideHeld(q) /\ pc[q] \notin OverrideLabels
      BY <1>2 DEF OverrideHeld, OverrideLabels
  <2>5. \A k \in RateKey : TrailAt(k)
      BY <2>1, <2>2, <2>3, <2>4 DEF TrailAt, Chained, OverrideLabels
  <2>6. trail \in Seq({}) BY <1>3
  <2>7. DOMAIN trail = {} BY <1>3
  <2> QED BY <1>3, <2>4, <2>5, <2>6, <2>7 DEF RatesOK
<1>5. LookupsOK
  <2>1. \A q \in Req : LookHeld(q) /\ ~Revaluing(q)
      BY <1>2 DEF LookHeld, Revaluing, LookLabels, RevalLabels, GainLabels
  <2>2. DOMAIN fxBook = {} /\ fxBook \in Seq({}) BY <1>3
  <2>3. RevalsOK BY <2>1, <2>2 DEF RevalsOK, RevaluedOnce
  <2> QED BY <1>3, <2>1, <2>2, <2>3 DEF LookupsOK
<1>6. TransfersOK
  <2>1. \A q \in Req : TransferHeld(q) BY <1>2 DEF TransferHeld, TransferLabels
  <2>2. \A t, s : Reversing(t, s) = {} BY <1>3 DEF Reversing
  <2>3. \A t : Halfway(t) = {} BY <1>2 DEF Halfway
  <2>4. IsFiniteSet({}) /\ Cardinality({}) = 0 BY FS_EmptySet
  <2>5. \A p : Cardinality(Reversing(p, 1)) = Cardinality(Reversing(p, 2)) + Cardinality(Halfway(p))
      BY <2>2, <2>3, <2>4
  <2> QED BY <1>3, <2>1, <2>4, <2>5 DEF TransfersOK
<1> QED BY <1>1, <1>4, <1>5, <1>6 DEF ExchangeInv

LEMMA ExchangeStutters ==
    ASSUME ExchangeInv, UNCHANGED <<reqVars, exchangeVars>>
    PROVE  ExchangeInv'
<1>1. UNCHANGED <<pc, loc, raced, rates, trail, fxBook, revaluations, fxAccounts, untold,
                  unrecorded, transfers, reversals, cashIn, halved>>
    BY DEF reqVars, exchangeVars
<1>2. RequestsOK' BY <1>1 DEF ExchangeInv, RequestsOK, Busy
<1>3. RatesOK'
  <2>1. \A j : Told(j)' = Told(j) BY <1>1 DEF Told
  <2>2. \A j, i : LastTold(j, i)' <=> LastTold(j, i) BY <2>1 DEF LastTold
  <2>3. \A j : Chained(j)' <=> Chained(j) BY <1>1, <2>1 DEF Chained
  <2>4. \A j : Telling(j)' <=> Telling(j) BY <1>1 DEF Telling
  <2>5. \A j : TrailAt(j)' <=> TrailAt(j) BY <1>1, <2>1, <2>2, <2>3, <2>4 DEF TrailAt
  <2>6. \A q : OverrideHeld(q)' <=> OverrideHeld(q) BY <1>1 DEF OverrideHeld
  <2> QED BY <1>1, <2>5, <2>6 DEF ExchangeInv, RatesOK
<1>4. LookupsOK'
  <2>1. \A q \in Req : LookHeld(q)' <=> LookHeld(q) BY <1>1 DEF LookHeld, Revaluing
  <2>2. \A q \in Req : (Revaluing(q)' <=> Revaluing(q)) /\ (RevalHeld(q)' <=> RevalHeld(q))
      BY <1>1 DEF Revaluing, RevalHeld, Current
  <2>3. \A e : Recorded(e)' <=> Recorded(e) BY <1>1 DEF Recorded, Current
  <2>4. RevaluedOnce' <=> RevaluedOnce BY <1>1 DEF RevaluedOnce
  <2>5. RevalsOK' BY <1>1, <2>2, <2>3, <2>4 DEF ExchangeInv, LookupsOK, RevalsOK
  <2> QED BY <1>1, <2>1, <2>5 DEF ExchangeInv, LookupsOK
<1>5. TransfersOK'
  <2>1. BothSides' = BothSides BY <1>1 DEF BothSides, SimpleLegs
  <2>2. \A q \in Req : TransferHeld(q)' <=> TransferHeld(q) BY <1>1 DEF TransferHeld
  <2>3. \A t : Halfway(t)' = Halfway(t) BY <1>1 DEF Halfway
  <2>4. \A t, s : Reversing(t, s)' = Reversing(t, s) BY <1>1 DEF Reversing
  <2>5. \A v : ReversalOK(v)' <=> ReversalOK(v) BY <1>1 DEF ReversalOK
  <2> QED BY <1>1, <2>1, <2>2, <2>3, <2>4, <2>5 DEF ExchangeInv, TransfersOK
<1> QED BY <1>2, <1>3, <1>4, <1>5 DEF ExchangeInv

LEMMA ForeignNextOK ==
    ASSUME ExchangeInv, NEW r \in Req, ForeignNext(r) PROVE ExchangeInv'
    BY LookupRateOK, LookupBaseOK, ForeignBeginOK, ForeignLineOK, ForeignPostOK,
       ExchangeCutOffOK DEF ForeignNext

LEMMA FeedNextKeeps ==
    ASSUME ExchangeInv, FeedNext PROVE ExchangeInv'
    BY FeedUpsertOK DEF FeedNext

LEMMA RatesNextOK ==
    ASSUME ExchangeInv, RatesNext PROVE ExchangeInv'
    BY RateReadOK, RateUpsertOK, RateAuditOK, ExchangeCutOffOK, FeedNextKeeps
    DEF RatesNext, OverrideNext

LEMMA RevaluationNextOK ==
    ASSUME ExchangeInv, RevaluationNext PROVE ExchangeInv'
    BY RevalBeginOK, RevalCheckOK, RevalNextOK, RevalValueOK, EnsureFindOK, EnsureInsertOK,
       RevalPostOK, RevalRecordOK, ForeignNextOK, FeedNextKeeps DEF RevaluationNext

LEMMA TransfersNextOK ==
    ASSUME ExchangeInv, TransfersNext PROVE ExchangeInv'
    BY TransferBeginOK, ReverseBeginOK, TransferCommitOK, ReverseSideOK, ExchangeCutOffOK
    DEF TransfersNext, Pairs

(* The inductive invariant of the rate store, revaluations and transfers. *)
THEOREM ExchangeInvariant == ExchangeSpec => []ExchangeInv
<1>1. InitRequests /\ InitExchange => ExchangeInv BY ExchangeInitOK
<1>2. ExchangeInv /\ [ExchangeNext]_<<reqVars, exchangeVars>> => ExchangeInv'
    BY RatesNextOK, RevaluationNextOK, TransfersNextOK, ExchangeStutters DEF ExchangeNext
<1> QED BY <1>1, <1>2, PTL DEF ExchangeSpec

-----------------------------------------------------------------------------
(* A reversal puts back what its transaction took, on every account. *)
LEMMA ReversalUndoes ==
    ASSUME NEW s, NEW a
    PROVE  Net(SimpleLegs(s) \o Reversed(SimpleLegs(s)), a) = 0
<1>1. PICK p, c : SimpleLegs(s) = <<Debit(p, 1), Credit(c, 1)>> BY DEF SimpleLegs
<1>2. PICK x1, x2, x3, x4 : /\ x1 = Debit(p, 1) /\ x2 = Credit(c, 1)
                            /\ x3 = Credit(p, 1) /\ x4 = Debit(c, 1)
    OBVIOUS
<1>3. Flip(x1) = x3 /\ Flip(x2) = x4
    BY <1>2 DEF Flip, Debit, Credit, Leg
<1>4. Reversed(<<x1, x2>>) = <<x3, x4>>
  <2>1. DOMAIN <<x1, x2>> = 1..2 /\ <<x1, x2>>[1] = x1 /\ <<x1, x2>>[2] = x2 OBVIOUS
  <2>2. DOMAIN <<x3, x4>> = 1..2 /\ <<x3, x4>>[1] = x3 /\ <<x3, x4>>[2] = x4 OBVIOUS
  <2> QED BY <1>3, <2>1, <2>2 DEF Reversed
<1>5. x1.amount \in Int /\ x2.amount \in Int /\ x3.amount \in Int /\ x4.amount \in Int
    BY <1>2 DEF Debit, Credit, Leg
<1>6. /\ Net(<<x1, x2>>, a) = Signed(x1, a) + Signed(x2, a)
      /\ Net(<<x3, x4>>, a) = Signed(x3, a) + Signed(x4, a)
    BY <1>5, NetTwo
<1>7. Net(<<x1, x2>> \o <<x3, x4>>, a) = Net(<<x1, x2>>, a) + Net(<<x3, x4>>, a)
  <2> DEFINE S == {x1, x2, x3, x4}
  <2>1. \A l \in S : l.amount \in Int BY <1>5
  <2>2. <<x1, x2>> \in Seq(S) /\ <<x3, x4>> \in Seq(S) OBVIOUS
  <2> HIDE DEF S
  <2> QED BY <2>1, <2>2, NetConcat
<1>8. /\ Signed(x1, a) = (IF p = a THEN 1 ELSE 0) /\ Signed(x3, a) = (IF p = a THEN -1 ELSE 0)
      /\ Signed(x2, a) = (IF c = a THEN -1 ELSE 0) /\ Signed(x4, a) = (IF c = a THEN 1 ELSE 0)
    BY <1>2 DEF Signed, Debit, Credit, Leg
<1>9. (Signed(x1, a) + Signed(x2, a)) + (Signed(x3, a) + Signed(x4, a)) = 0
    BY <1>8
<1> QED BY <1>1, <1>2, <1>4, <1>6, <1>7, <1>9

LEMMA InvExchange == ASSUME ExchangeInv PROVE ExchangeSound
<1>1. RatesOK /\ LookupsOK /\ TransfersOK BY DEF ExchangeInv
<1>2. ExchangeTypeOK
  <2>1. \A k \in RateKey :
          rates[k] = NoRate \/ (rates[k].rate \in RateValue /\ rates[k].source \in {"manual", "ecb"})
    <3> SUFFICES ASSUME NEW k \in RateKey, rates[k] # NoRate
                 PROVE  rates[k].rate \in RateValue /\ rates[k].source \in {"manual", "ecb"}
        OBVIOUS
    <3>1. rates[k] \in RateRow BY <1>1 DEF RatesOK
    <3> QED BY <3>1 DEF RateRow
  <2>2. \A i \in DOMAIN trail : trail[i].key \in RateKey /\ trail[i].new \in RateValue
      BY <1>1 DEF RatesOK
  <2>3. /\ \A i \in DOMAIN fxBook :
             fxBook[i].account \in FxAccount /\ fxBook[i].base # 0 /\ fxBook[i].rate.num > 0
        /\ revaluations \subseteq FxAccount \X {FxMonth[d] : d \in FxDay}
        /\ fxAccounts \subseteq {"gain", "loss"}
      BY <1>1 DEF LookupsOK, Agrees
  <2>4. \A v \in reversals : v.of \in Txn /\ transfers[v.of[1]] # NoTransfer
      BY <1>1 DEF TransfersOK, ReversalOK
  <2> QED BY <2>1, <2>2, <2>3, <2>4 DEF ExchangeTypeOK
<1>3. LookedUpInForce BY <1>1 DEF LookupsOK, LookedUpInForce, Agrees
<1>4. TrailExplains
  <2> SUFFICES ASSUME NEW k \in RateKey \ (raced \cup untold)
               PROVE  /\ \A i, j \in Told(k) :
                            (i < j /\ \A m \in Told(k) : ~(i < m /\ m < j))
                               => trail[j].old = trail[i].new
                      /\ \A i \in Told(k) : (~Telling(k) /\ \A j \in Told(k) : j <= i)
                               => rates[k].rate = trail[i].new
                      /\ (rates[k].source = "manual" /\ ~Telling(k)) => Told(k) # {}
      BY DEF TrailExplains, Told, Telling
  <2>1. TrailAt(k) BY <1>1 DEF RatesOK
  <2>2. \A i \in Told(k) : i \in DOMAIN trail BY DEF Told
  <2>3. Chained(k) /\ (~Telling(k) =>
          /\ \A i \in DOMAIN trail : LastTold(k, i) => rates[k].rate = trail[i].new
          /\ rates[k].source = "manual" => Told(k) # {})
      BY <2>1 DEF TrailAt
  <2> QED BY <2>2, <2>3 DEF Chained, LastTold
<1>5. RevaluedOnce BY <1>1 DEF LookupsOK, RevalsOK, RevaluedOnce
<1>6. ReversedWhole
  <2>1. ASSUME NEW p \in Pairs \ halved, \A r \in Req : ~(pc[r] = "reverse" /\ loc[r].pair = p)
        PROVE  Cardinality(Reversing(p, 1)) = Cardinality(Reversing(p, 2))
    <3>1. Halfway(p) = {} BY <2>1 DEF Halfway
    <3>2. Cardinality(Halfway(p)) = 0 BY <3>1, FS_EmptySet
    <3>3. IsFiniteSet(Reversing(p, 2)) BY <1>1, FS_Subset DEF TransfersOK, Reversing
    <3>4. Cardinality(Reversing(p, 2)) \in Nat BY <3>3, FS_CardinalityType
    <3> QED BY <1>1, <3>2, <3>4 DEF TransfersOK
  <2>2. ASSUME NEW v \in reversals, NEW a
        PROVE  Net(transfers[v.of[1]].legs[v.of[2]] \o v.legs, a) = 0
    <3>1. PICK t, s : t = v.of[1] /\ s = v.of[2] OBVIOUS
    <3>2. ReversalOK(v) BY <1>1 DEF TransfersOK
    <3>3. t \in Transfer /\ s \in Side BY <3>1, <3>2 DEF ReversalOK, Txn
    <3>4. transfers[t] = BothSides BY <1>1, <3>1, <3>2, <3>3 DEF TransfersOK, ReversalOK
    <3>5. transfers[t].legs[s] = SimpleLegs(s) BY <3>3, <3>4 DEF BothSides
    <3>6. v.legs = Reversed(SimpleLegs(s)) BY <3>1, <3>2, <3>5 DEF ReversalOK
    <3> QED BY <3>1, <3>5, <3>6, ReversalUndoes
  <2> QED BY <2>1, <2>2 DEF ReversedWhole, Reversing, Pairs
<1> QED BY <1>2, <1>3, <1>4, <1>5, <1>6 DEF ExchangeSound

(* Amounts in the base currency can be explained, whatever overlaps or is  *)
(* cut off: domain/fx.rs, handlers/fx.rs and handlers/transfers.rs keep    *)
(* ExchangeSound.                                                          *)
THEOREM ExchangeIsSound == ExchangeSpec => []ExchangeSound
<1>1. ExchangeInv => ExchangeSound BY InvExchange
<1> QED BY <1>1, ExchangeInvariant, PTL

-----------------------------------------------------------------------------
(* Rows picked from a file.  Every rank below the number of positions is   *)
(* some position's: the least rank that is not would follow one that is.   *)
LEMMA RankIs ==
    ASSUME NEW n \in Nat, NEW at \in SUBSET (1..n), NEW k \in 1..Cardinality(at)
    PROVE  \E i \in at : Cardinality({j \in at : j < i}) = k - 1
<1> DEFINE Below(i) == {j \in at : j < i}
           Bad == {m \in Nat : m < Cardinality(at) /\ ~\E i \in at : Cardinality(Below(i)) = m}
<1>0. IsFiniteSet(at)
  <2>1. IsFiniteSet(1..n) BY FS_Interval
  <2> QED BY <2>1, FS_Subset
<1>1. Cardinality(at) \in Nat BY <1>0, FS_CardinalityType
<1>2. \A i \in at : IsFiniteSet(Below(i)) /\ i \notin Below(i)
  <2> SUFFICES ASSUME NEW i \in at PROVE IsFiniteSet(Below(i)) /\ i \notin Below(i)
      OBVIOUS
  <2>1. Below(i) \in SUBSET at /\ i \notin Below(i) OBVIOUS
  <2> HIDE DEF Below
  <2> QED BY <1>0, <2>1, FS_Subset
<1>3. SUFFICES ASSUME k - 1 \in Bad PROVE FALSE
  <2>1. k - 1 \in Nat /\ k - 1 < Cardinality(at) BY <1>1
  <2> QED BY <2>1
<1>4. PICK b \in Bad : \A m \in Bad : b <= m
  <2>1. Bad \subseteq Nat OBVIOUS
  <2> HIDE DEF Bad
  <2> QED BY <1>3, <2>1, SmallestNat
<1>5. b \in Nat /\ b < Cardinality(at) /\ \A i \in at : Cardinality(Below(i)) # b OBVIOUS
<1>6. at \subseteq Nat OBVIOUS
<1>7. b # 0
  <2>1. ASSUME b = 0 PROVE FALSE
    <3>1. at # {} BY <1>5, <2>1, FS_EmptySet
    <3>2. PICK a : a \in at BY <3>1
    <3>3. PICK i \in at : \A j \in at : i <= j BY <1>6, <3>2, SmallestNat
    <3>4. Below(i) = {}
      <4>1. ASSUME NEW j \in at PROVE ~(j < i)
        <5>1. i \in Nat /\ j \in Nat /\ i <= j BY <1>6, <3>3
        <5> QED BY <5>1
      <4> QED BY <4>1
    <3>5. Cardinality(Below(i)) = 0 BY <3>4, FS_EmptySet
    <3> QED BY <1>5, <2>1, <3>5
  <2> QED BY <2>1
<1>8. PICK m \in Nat : b = m + 1
  <2>1. b - 1 \in Nat /\ b = (b - 1) + 1 BY <1>5, <1>7
  <2> QED BY <2>1
<1>9. PICK i \in at : Cardinality(Below(i)) = m
  <2>1. m \notin Bad /\ m < Cardinality(at) BY <1>1, <1>4, <1>5, <1>8
  <2> QED BY <2>1
<1>10. Cardinality(Below(i) \cup {i}) = b
  <2>1. IsFiniteSet(Below(i)) /\ i \notin Below(i) BY <1>2
  <2> HIDE DEF Below, Bad
  <2> QED BY <1>8, <1>9, <2>1, FS_AddElement
<1>11. PICK a \in at : a > i
  <2>1. ASSUME \A j \in at : ~(j > i) PROVE FALSE
    <3>1. at = Below(i) \cup {i}
      <4>1. ASSUME NEW j \in at PROVE j < i \/ j = i
        <5>1. i \in Nat /\ j \in Nat /\ ~(j > i) BY <1>6, <2>1
        <5> QED BY <5>1
      <4> QED BY <4>1
    <3> HIDE DEF Below, Bad
    <3> QED BY <1>1, <1>5, <1>10, <3>1
  <2> QED BY <2>1
<1> DEFINE Above == {j \in at : j > i}
<1>12. PICK l \in Above : \A j \in Above : l <= j
  <2>1. Above \subseteq Nat /\ a \in Above BY <1>6, <1>11
  <2> HIDE DEF Above
  <2> QED BY <2>1, SmallestNat
<1>13. Below(l) = Below(i) \cup {i}
  <2>1. l \in Nat /\ i \in Nat /\ l > i /\ l \in at BY <1>6
  <2>2. ASSUME NEW j \in at PROVE (j < l) <=> (j < i \/ j = i)
    <3>1. j \in Nat BY <1>6
    <3>2. CASE j > i
      <4>1. l <= j BY <1>12, <3>2
      <4> QED BY <2>1, <3>1, <3>2, <4>1
    <3> QED BY <2>1, <3>1, <3>2
  <2> QED BY <2>2
<1>14. l \in at OBVIOUS
<1> QED BY <1>5, <1>10, <1>13, <1>14

(* What is picked are elements at those positions, each position once. *)
LEMMA SelectedFrom ==
    ASSUME NEW S, NEW s \in Seq(S), NEW at \in SUBSET DOMAIN s
    PROVE  /\ Selected(s, at) \in Seq(S)
           /\ \A k \in DOMAIN Selected(s, at) : \E i \in at : Selected(s, at)[k] = s[i]
           /\ \A k, l \in DOMAIN Selected(s, at) : k # l =>
                 \E i, j \in at : i # j /\ Selected(s, at)[k] = s[i] /\ Selected(s, at)[l] = s[j]
<1>1. PICK n \in Nat : n = Len(s) /\ DOMAIN s = 1..n OBVIOUS
<1>2. at \in SUBSET (1..n) BY <1>1
<1>3. Cardinality(at) \in Nat
  <2>1. IsFiniteSet(1..n) BY FS_Interval
  <2> QED BY <1>2, <2>1, FS_Subset, FS_CardinalityType
<1>4. PICK c \in Nat : c = Cardinality(at) BY <1>3
<1> DEFINE Rank(i) == Cardinality({j \in at : j < i})
           Pos(k) == CHOOSE i \in at : Rank(i) = k - 1
<1>5. ASSUME NEW k \in 1..c PROVE Pos(k) \in at /\ Rank(Pos(k)) = k - 1
  <2>1. \E i \in at : Rank(i) = k - 1 BY <1>2, <1>4, RankIs
  <2> HIDE DEF Rank
  <2> QED BY <2>1
<1>6. PICK u : u = Selected(s, at) OBVIOUS
<1>7. u = [k \in 1..c |-> s[Pos(k)]] BY <1>4, <1>6 DEF Selected
<1> HIDE DEF Rank, Pos
<1>8. \A k \in 1..c : u[k] = s[Pos(k)] /\ s[Pos(k)] \in S BY <1>1, <1>2, <1>5, <1>7
<1>9. DOMAIN u = 1..c /\ u \in Seq(S) BY <1>7, <1>8
<1>10. \A k \in DOMAIN u : \E i \in at : u[k] = s[i] BY <1>5, <1>8, <1>9
<1>11. ASSUME NEW k \in DOMAIN u, NEW l \in DOMAIN u, k # l
       PROVE  \E i, j \in at : i # j /\ u[k] = s[i] /\ u[l] = s[j]
  <2>1. k \in 1..c /\ l \in 1..c BY <1>9
  <2>2. /\ Pos(k) \in at /\ Rank(Pos(k)) = k - 1 /\ u[k] = s[Pos(k)]
        /\ Pos(l) \in at /\ Rank(Pos(l)) = l - 1 /\ u[l] = s[Pos(l)]
      BY <1>5, <1>8, <2>1
  <2>3. k - 1 # l - 1 BY <1>11, <2>1
  <2>4. Pos(k) # Pos(l) BY <2>2, <2>3
  <2> QED BY <2>2, <2>4
<1> QED BY <1>6, <1>9, <1>10, <1>11

-----------------------------------------------------------------------------
(* The tables, and what a page and a command hold of them.                 *)
(* Texts is STRING, with the literals spelled out for the provers. *)
Texts == STRING \cup {"row", "bank", "cash", "none", "fallback", "expense"}

BookLegs == Seq([account : Texts, dir : {"DEBIT", "CREDIT"}, amount : Nat \ {0}])

BookRows == [day : Days, payee : DOMAIN Normal, legs : BookLegs, by : ImportKind,
             skip : BOOLEAN, text : Texts, late : BOOLEAN, batch : Nat]

(* A row has two sides, and was not in the book when its import began. *)
TwoSides(t) ==
    t.by # "wizard" =>
        /\ Balanced(t.legs)
        /\ Len(t.legs) >= 2 \/ (t.by = "plain" /\ t.legs = <<>>)

NotYet(t, x) ==
    /\ t.by = "bill" /\ t.day = "recent" => Prints(t) \cap Prints(x) = {}
    /\ t.by = "plain" /\ x.legs # <<>> => EntryPrint(t) # EntryPrint(x)

RowOK(b, i) ==
    /\ b[i].batch < i
    /\ TwoSides(b[i])
    /\ (b[i].skip /\ ~b[i].late) => \A j \in 1..b[i].batch : NotYet(b[i], b[j])

BookOK(b) ==
    /\ b \in Seq(BookRows) /\ Len(b) <= MaxBook
    /\ \A i \in DOMAIN b : RowOK(b, i)

(* Rows are appended only. *)
Grows(b, c) ==
    /\ b \in Seq(BookRows) /\ c \in Seq(BookRows) /\ Len(b) <= Len(c)
    /\ \A i \in 1..Len(b) : c[i] = b[i]

Maps == [debit : BOOLEAN, credit : BOOLEAN, amount_in : BOOLEAN]
SavedRows == [name : MappingName, map : Maps, matches : BOOLEAN]

SavedOK(s) ==
    /\ s \in Seq(SavedRows)
    /\ \A i, k \in DOMAIN s : i # k => s[i].name # s[k].name

(* A row of a page that is not marked was not in the book it was compared  *)
(* with.                                                                   *)
PageRows == [day : STRING, payee : DOMAIN Normal, out : Nat \cup {Malformed},
             in : Nat \cup {Malformed}, dup : BOOLEAN]

PageAmount(row) == IF row.out # Blank THEN row.out ELSE row.in

Unknown(row, t) ==
    (~row.dup /\ t.day = "recent") =>
        Fingerprint(row.day, PageAmount(row), row.payee) \notin Prints(t)

PageOK(d, b) ==
    /\ d \in [on : {"import"}, kind : {"bill", "statement"}, rows : Seq(PageRows), seen : Nat]
    /\ d.seen <= Len(b)
    /\ d.kind = "bill" => \A i \in DOMAIN d.rows, j \in 1..d.seen : Unknown(d.rows[i], b[j])

WizardOK(d) ==
    d \in [on : {"import"}, kind : {"wizard"}, seen : Nat, map : Maps,
           file : [columns : SUBSET STRING, lines : Seq(WizardLines)]]

(* The entries a plain-text import has passed are in the book, or could    *)
(* not be booked; it goes by what the book held when it began.             *)
Bookable(entry, s, g) ==
    /\ entry.resolves /\ Balanced(entry.legs)
    /\ InsertsPass(entry.legs, g) /\ entry.day \notin s

InBook(entry, b) == \E k \in DOMAIN b : EntryPrint(b[k]) = EntryPrint(entry)

PlainRows ==
    [on : {"import"}, kind : {"plain"}, seen : Nat, left : Seq(PlainEntries),
     start : Seq(PlainEntries), batch : Nat, own : Nat,
     known : SUBSET {EntryPrint(t) : t \in BookRows}]

PlainOK(d, b, s, g) ==
    /\ d \in PlainRows
    /\ d.batch <= Len(b)
    /\ \A j \in 1..d.batch : b[j].legs # <<>> => EntryPrint(b[j]) \in d.known
    /\ \A x \in d.known : \E k \in DOMAIN b : EntryPrint(b[k]) = x
    /\ Len(d.left) <= Len(d.start)
    /\ \A k \in 1..Len(d.left) : d.left[k] = d.start[Len(d.start) - Len(d.left) + k]
    /\ \A k \in 1..(Len(d.start) - Len(d.left)) :
          Bookable(d.start[k], s, g) => InBook(d.start[k], b)

HeldAt(at, d, b, s, g) ==
    /\ at = "preview" => PageOK(d, b)
    /\ at = "wizard" => WizardOK(d)
    /\ at \in {"plain", "plain insert"} => PlainOK(d, b, s, g)
    /\ at = "plain insert" => d.left # <<>> /\ EntryIsGood(Head(d.left), d.known)

ImportsInv ==
    /\ RequestsOK
    /\ BookOK(book)
    /\ SavedOK(saved)
    /\ shut \subseteq Days /\ cashAccount \in Texts
    /\ \A q \in Req : HeldAt(pc[q], loc[q], book, shut, balanceTrigger)

-----------------------------------------------------------------------------
(* A book that grows, and periods that close, disturb nobody. *)
LEMMA GrowsSame == ASSUME NEW b \in Seq(BookRows) PROVE Grows(b, b)
    BY DEF Grows

LEMMA PageStays ==
    ASSUME NEW d, NEW b, NEW c, Grows(b, c), PageOK(d, b) PROVE PageOK(d, c)
<1>1. Len(b) \in Nat /\ Len(c) \in Nat /\ Len(b) <= Len(c) /\ d.seen \in Nat /\ d.seen <= Len(b)
    BY DEF Grows, PageOK
<1>2. \A j \in 1..d.seen : c[j] = b[j] BY <1>1 DEF Grows
<1> QED BY <1>1, <1>2 DEF PageOK

LEMMA InBookStays ==
    ASSUME NEW b, NEW c, Grows(b, c), NEW k \in DOMAIN b
    PROVE  k \in DOMAIN c /\ c[k] = b[k]
    BY DEF Grows

LEMMA PlainStays ==
    ASSUME NEW d, NEW b, NEW c, Grows(b, c), NEW s, NEW t, s \subseteq t, NEW g,
           PlainOK(d, b, s, g)
    PROVE  PlainOK(d, c, t, g)
<1>1. /\ Len(b) \in Nat /\ Len(c) \in Nat /\ Len(b) <= Len(c) /\ d.batch \in Nat
      /\ d.batch <= Len(b) /\ d \in PlainRows
    BY DEF Grows, PlainOK, PlainRows
<1>2. \A j \in 1..d.batch : c[j] = b[j] BY <1>1 DEF Grows
<1>3. \A j \in 1..d.batch : c[j].legs # <<>> => EntryPrint(c[j]) \in d.known
    BY <1>2 DEF PlainOK
<1>4. \A x \in d.known : \E k \in DOMAIN c : EntryPrint(c[k]) = x
    BY InBookStays DEF PlainOK
<1>5. ASSUME NEW k \in 1..(Len(d.start) - Len(d.left)), Bookable(d.start[k], t, g)
      PROVE  InBook(d.start[k], c)
  <2>1. Bookable(d.start[k], s, g) BY <1>5 DEF Bookable
  <2>2. InBook(d.start[k], b) BY <2>1 DEF PlainOK
  <2> QED BY <2>2, InBookStays DEF InBook
<1>6. d.batch <= Len(c) BY <1>1
<1>7. /\ Len(d.left) <= Len(d.start)
      /\ \A k \in 1..Len(d.left) : d.left[k] = d.start[Len(d.start) - Len(d.left) + k]
    BY DEF PlainOK
<1>8. \A k \in 1..(Len(d.start) - Len(d.left)) :
        Bookable(d.start[k], t, g) => InBook(d.start[k], c)
    BY <1>5
<1> QED BY ONLY <1>1, <1>3, <1>4, <1>6, <1>7, <1>8 DEF PlainOK

LEMMA HeldAtStays ==
    ASSUME NEW at, NEW d, NEW b, NEW c, Grows(b, c), NEW s, NEW t, s \subseteq t, NEW g,
           HeldAt(at, d, b, s, g)
    PROVE  HeldAt(at, d, c, t, g)
    BY PageStays, PlainStays DEF HeldAt

(* A step of r that keeps the others: what is left to show is its own row  *)
(* and the tables it writes.                                               *)
LEMMA ImportsStep ==
    ASSUME ImportsInv, NEW r \in Req, Keeps(r), Grows(book, book'), BookOK(book'),
           SavedOK(saved'), shut \subseteq shut', shut' \subseteq Days,
           UNCHANGED <<cashAccount, balanceTrigger>>,
           HeldAt(pc'[r], loc'[r], book', shut', balanceTrigger)
    PROVE  ImportsInv'
<1>1. ASSUME NEW q \in Req PROVE HeldAt(pc'[q], loc'[q], book', shut', balanceTrigger)
  <2>1. HeldAt(pc[q], loc[q], book, shut, balanceTrigger) BY DEF ImportsInv
  <2>2. HeldAt(pc[q], loc[q], book', shut', balanceTrigger) BY <2>1, HeldAtStays
  <2>3. q = r \/ (pc'[q] = pc[q] /\ loc'[q] = loc[q]) BY DEF Keeps
  <2> QED BY <2>2, <2>3
<1> QED BY <1>1 DEF ImportsInv, Keeps

(* The tables stay. *)
LEMMA ImportsReads ==
    ASSUME ImportsInv, NEW r \in Req, Keeps(r), UNCHANGED importVars,
           HeldAt(pc'[r], loc'[r], book, shut, balanceTrigger)
    PROVE  ImportsInv'
<1>1. UNCHANGED <<book, saved, shut, cashAccount, balanceTrigger>> BY DEF importVars
<1>2. Grows(book, book') BY <1>1, GrowsSame DEF ImportsInv, BookOK
<1>3. BookOK(book') /\ SavedOK(saved') /\ shut \subseteq shut' /\ shut' \subseteq Days
    BY <1>1 DEF ImportsInv
<1>4. HeldAt(pc'[r], loc'[r], book', shut', balanceTrigger) BY <1>1
<1> QED BY <1>1, <1>2, <1>3, <1>4, ImportsStep

-----------------------------------------------------------------------------
(* Rows that are appended. *)
LEMMA BookAppends ==
    ASSUME NEW b, BookOK(b), NEW made \in Seq(BookRows), Len(b) + Len(made) <= MaxBook,
           \A i \in DOMAIN made :
              /\ made[i].batch <= Len(b) /\ TwoSides(made[i])
              /\ (made[i].skip /\ ~made[i].late) =>
                    \A j \in 1..made[i].batch : NotYet(made[i], b[j])
    PROVE  Grows(b, b \o made) /\ BookOK(b \o made)
<1>1. b \in Seq(BookRows) BY DEF BookOK
<1>2. PICK c : c = b \o made OBVIOUS
<1>3. PICK m \in Nat, n \in Nat : m = Len(b) /\ n = Len(made) BY <1>1
<1>4. c \in Seq(BookRows) /\ Len(c) = m + n BY <1>1, <1>2, <1>3
<1>5. \A i \in 1..(m + n) : c[i] = IF i <= m THEN b[i] ELSE made[i - m]
  <2>1. \A i \in 1..(Len(b) + Len(made)) :
          (b \o made)[i] = IF i <= Len(b) THEN b[i] ELSE made[i - Len(b)]
      BY ONLY <1>1, made \in Seq(BookRows), ConcatProperties
  <2> QED BY <1>2, <1>3, <2>1
<1>6. Grows(b, c) BY <1>1, <1>3, <1>4, <1>5 DEF Grows
<1>7. ASSUME NEW i \in DOMAIN c PROVE RowOK(c, i)
  <2>1. i \in 1..(m + n) BY <1>4
  <2>2. c[i] \in BookRows BY <1>4
  <2>3. c[i].batch \in Nat BY <2>2 DEF BookRows
  <2>4. CASE i <= m
    <3>1. c[i] = b[i] /\ i \in DOMAIN b BY <1>1, <1>3, <1>5, <2>1, <2>4
    <3>2. RowOK(b, i) BY <3>1 DEF BookOK
    <3>3. \A j \in 1..c[i].batch : j \in 1..(m + n) /\ j <= m
        BY <2>1, <2>3, <2>4, <3>1, <3>2 DEF RowOK
    <3>4. \A j \in 1..c[i].batch : c[j] = b[j] BY <1>5, <3>3
    <3> QED BY <3>1, <3>2, <3>4 DEF RowOK
  <2>5. CASE ~(i <= m)
    <3>1. c[i] = made[i - m] /\ i - m \in DOMAIN made BY <1>3, <1>5, <2>1, <2>5
    <3>2. c[i].batch <= m /\ TwoSides(c[i]) BY <1>3, <3>1
    <3>3. \A j \in 1..c[i].batch : j \in 1..(m + n) /\ j <= m
        BY <2>3, <3>2
    <3>4. \A j \in 1..c[i].batch : c[j] = b[j] BY <1>5, <3>3
    <3>5. (c[i].skip /\ ~c[i].late) => \A j \in 1..c[i].batch : NotYet(c[i], b[j])
        BY <3>1
    <3>6. c[i].batch < i BY <2>1, <2>3, <2>5, <3>2
    <3> QED BY <3>2, <3>4, <3>5, <3>6 DEF RowOK
  <2> QED BY <2>4, <2>5
<1>8. Len(c) <= MaxBook BY <1>3, <1>4
<1> QED BY <1>2, <1>4, <1>6, <1>7, <1>8 DEF BookOK

(* A request that is served from its page stays where it is. *)
LEMMA SamePlace ==
    ASSUME RequestsOK, NEW r \in Req, UNCHANGED <<pc, loc, raced>>
    PROVE  Keeps(r)
    BY DEF RequestsOK, Busy, Keeps

-----------------------------------------------------------------------------
(* The previews. *)
LEMMA ParsedRow ==
    ASSUME NEW row \in BillRows, NEW known, NEW p,
           p = [day |-> row.day, payee |-> row.payee,
                out |-> IF Incoming(row) THEN Blank ELSE row.amount,
                in |-> IF Incoming(row) THEN row.amount ELSE Blank,
                dup |-> Fingerprint(row.day, row.amount, row.payee) \in known]
    PROVE  /\ p \in PageRows
           /\ ~p.dup => Fingerprint(p.day, PageAmount(p), p.payee) \notin known
<1>1. row.day \in STRING /\ row.payee \in DOMAIN Normal /\ row.amount \in Nat \cup {Malformed}
    BY DEF BillRows
<1>2. Blank \in Nat \cup {Malformed} BY DEF Blank
<1>3. /\ p.day = row.day /\ p.payee = row.payee
      /\ p.out = (IF Incoming(row) THEN Blank ELSE row.amount)
      /\ p.in = (IF Incoming(row) THEN row.amount ELSE Blank)
      /\ p.dup = (Fingerprint(row.day, row.amount, row.payee) \in known)
    OBVIOUS
<1>4. PageAmount(p) = row.amount
  <2>1. CASE Incoming(row) BY <1>3, <2>1 DEF PageAmount
  <2>2. CASE ~Incoming(row)
    <3>1. p.out = row.amount /\ p.in = Blank BY <1>3, <2>2
    <3> QED BY <3>1 DEF PageAmount
  <2> QED BY <2>1, <2>2
<1>5. ~p.dup => Fingerprint(p.day, PageAmount(p), p.payee) \notin known BY <1>3, <1>4
<1>6. p \in PageRows
  <2>0. PICK o, i : /\ o = (IF Incoming(row) THEN Blank ELSE row.amount)
                    /\ i = (IF Incoming(row) THEN row.amount ELSE Blank)
      OBVIOUS
  <2>1. o \in Nat \cup {Malformed} /\ i \in Nat \cup {Malformed} BY <1>1, <1>2, <2>0
  <2>2. CASE Fingerprint(row.day, row.amount, row.payee) \in known
    <3>1. p = [day |-> row.day, payee |-> row.payee, out |-> o, in |-> i, dup |-> TRUE]
        BY <2>0, <2>2
    <3> QED BY <1>1, <2>1, <3>1 DEF PageRows
  <2>3. CASE Fingerprint(row.day, row.amount, row.payee) \notin known
    <3>0. (Fingerprint(row.day, row.amount, row.payee) \in known) = FALSE BY <2>3
    <3>1. p = [day |-> row.day, payee |-> row.payee, out |-> o, in |-> i, dup |-> FALSE]
        BY <2>0, <3>0
    <3> QED BY <1>1, <2>1, <3>1 DEF PageRows
  <2> QED BY <2>2, <2>3
<1> QED BY <1>5, <1>6

LEMMA PageIs ==
    ASSUME ImportsInv, NEW kind \in {"bill", "statement"}, NEW rows \in Seq(PageRows),
           kind = "bill" => \A i \in DOMAIN rows, j \in DOMAIN book : Unknown(rows[i], book[j])
    PROVE  PageOK(Page(kind, rows), book)
<1>1. book \in Seq(BookRows) BY DEF ImportsInv, BookOK
<1>2. PICK n \in Nat : n = Len(book) /\ DOMAIN book = 1..n BY <1>1
<1>3. PICK d : d = [on |-> "import", kind |-> kind, rows |-> rows, seen |-> n] OBVIOUS
<1>4. /\ d.kind = kind /\ d.rows = rows /\ d.seen = n
      /\ d \in [on : {"import"}, kind : {"bill", "statement"}, rows : Seq(PageRows), seen : Nat]
    BY <1>3
<1>5. PageOK(d, book) BY <1>2, <1>4 DEF PageOK
<1> QED BY <1>2, <1>3, <1>5 DEF Page

LEMMA BillPreviewOK ==
    ASSUME ImportsInv, NEW r \in Req, NEW bill \in Bill, NEW opt \in BillOption,
           BillPreview(r, bill, opt)
    PROVE  ImportsInv'
<1>1. PICK rows : rows = ParsedBill(bill, opt, ExistingFingerprints) OBVIOUS
<1>2. Begin(r, "preview", Page("bill", rows)) /\ UNCHANGED importVars
    BY <1>1 DEF BillPreview
<1>3. PICK kept : kept = Selected(bill.rows,
                {i \in DOMAIN bill.rows : Takes(bill.kind, bill.rows[i], opt)})
    OBVIOUS
<1>4. kept \in Seq(BillRows)
  <2>1. bill.rows \in Seq(BillRows) BY ImportsAssumption
  <2>2. PICK at : at = {i \in DOMAIN bill.rows : Takes(bill.kind, bill.rows[i], opt)} OBVIOUS
  <2>3. at \in SUBSET DOMAIN bill.rows BY <2>2
  <2> QED BY <1>3, <2>1, <2>2, <2>3, SelectedFrom
<1>5. PICK n \in Nat : n = Len(kept) /\ DOMAIN kept = 1..n BY <1>4
<1>6. rows = [i \in 1..n |->
         [day |-> kept[i].day, payee |-> kept[i].payee,
          out |-> IF Incoming(kept[i]) THEN Blank ELSE kept[i].amount,
          in |-> IF Incoming(kept[i]) THEN kept[i].amount ELSE Blank,
          dup |-> Fingerprint(kept[i].day, kept[i].amount, kept[i].payee)
                    \in ExistingFingerprints]]
    BY <1>1, <1>3, <1>5 DEF ParsedBill
<1>7. ASSUME NEW i \in 1..n
      PROVE  /\ rows[i] \in PageRows
             /\ ~rows[i].dup => Fingerprint(rows[i].day, PageAmount(rows[i]), rows[i].payee)
                                   \notin ExistingFingerprints
  <2>1. kept[i] \in BillRows BY <1>4, <1>5
  <2>2. rows[i] = [day |-> kept[i].day, payee |-> kept[i].payee,
          out |-> IF Incoming(kept[i]) THEN Blank ELSE kept[i].amount,
          in |-> IF Incoming(kept[i]) THEN kept[i].amount ELSE Blank,
          dup |-> Fingerprint(kept[i].day, kept[i].amount, kept[i].payee)
                    \in ExistingFingerprints]
      BY <1>6
  <2> QED BY <2>1, <2>2, ParsedRow
<1>8. DOMAIN rows = 1..n /\ rows \in Seq(PageRows)
  <2>1. DOMAIN rows = 1..n /\ rows = [i \in 1..n |-> rows[i]] BY <1>6
  <2> QED BY <1>7, <2>1
<1>9. ASSUME NEW i \in DOMAIN rows, NEW j \in DOMAIN book PROVE Unknown(rows[i], book[j])
  <2>1. i \in 1..n BY <1>8
  <2>2. book[j].day = "recent" => Prints(book[j]) \subseteq ExistingFingerprints
      BY DEF ExistingFingerprints
  <2> QED BY <1>7, <2>1, <2>2 DEF Unknown
<1>10. PageOK(Page("bill", rows), book) BY <1>8, <1>9, PageIs
<1>11. Keeps(r) /\ pc'[r] = "preview" /\ loc'[r] = Page("bill", rows)
  <2>1. RequestsOK BY DEF ImportsInv
  <2> QED BY <1>2, <2>1, BeginKeeps
<1>12. HeldAt(pc'[r], loc'[r], book, shut, balanceTrigger) BY <1>10, <1>11 DEF HeldAt
<1> QED BY <1>2, <1>11, <1>12, ImportsReads

LEMMA StatementRow ==
    ASSUME NEW day \in STRING, NEW payee \in DOMAIN Normal,
           NEW o \in Nat \cup {Malformed}, NEW i \in Nat \cup {Malformed}
    PROVE  [day |-> day, payee |-> payee, dup |-> FALSE, out |-> o, in |-> i] \in PageRows
    BY DEF PageRows

LEMMA StatementUploadOK ==
    ASSUME ImportsInv, NEW r \in Req, NEW file \in Statement7, StatementUpload(r, file)
    PROVE  ImportsInv'
<1>1. PICK rows : rows = StatementRows(file) OBVIOUS
<1>2. Begin(r, "preview", Page("statement", rows)) /\ UNCHANGED importVars
    BY <1>1 DEF StatementUpload
<1>3. PICK csv : csv = (file.kind = "csv") OBVIOUS
<1>4. PICK S : S = IF file.kind = "csv" THEN CsvRows ELSE SignedRows OBVIOUS
<1>5. file.rows \in Seq(S) BY <1>4, ImportsAssumption
<1>6. PICK at : at = {i \in DOMAIN file.rows : file.kind = "csv" \/ file.rows[i].amount # Blank}
    OBVIOUS
<1>7. PICK given : given = Selected(file.rows, at) OBVIOUS
<1>8. given \in Seq(S)
  <2>1. at \in SUBSET DOMAIN file.rows BY <1>6
  <2> QED BY <1>5, <1>7, <2>1, SelectedFrom
<1>9. PICK n \in Nat : n = Len(given) /\ DOMAIN given = 1..n BY <1>8
<1>10. rows = [i \in 1..n |->
            [day |-> given[i].day, payee |-> given[i].payee, dup |-> FALSE,
             out |-> IF file.kind = "csv" THEN given[i].out
                     ELSE IF given[i].amount < 0 THEN -given[i].amount ELSE Blank,
             in |-> IF file.kind = "csv" THEN given[i].in
                    ELSE IF given[i].amount > 0 THEN given[i].amount ELSE Blank]]
    BY <1>1, <1>6, <1>7, <1>9 DEF StatementRows
<1>11. ASSUME NEW i \in 1..n PROVE rows[i] \in PageRows
  <2>1. PICK g : g = given[i] OBVIOUS
  <2>2. g \in S BY <1>8, <1>9, <2>1
  <2>3. PICK o, e :
          /\ o = (IF file.kind = "csv" THEN g.out
                  ELSE IF g.amount < 0 THEN -g.amount ELSE Blank)
          /\ e = (IF file.kind = "csv" THEN g.in
                  ELSE IF g.amount > 0 THEN g.amount ELSE Blank)
      OBVIOUS
  <2>4. rows[i] = [day |-> g.day, payee |-> g.payee, dup |-> FALSE, out |-> o, in |-> e]
      BY <1>10, <2>1, <2>3
  <2>5. /\ g.day \in STRING /\ g.payee \in DOMAIN Normal
        /\ o \in Nat \cup {Malformed} /\ e \in Nat \cup {Malformed}
    <3>1. CASE file.kind = "csv"
      <4>1. g \in CsvRows BY <1>4, <2>2, <3>1
      <4> QED BY <2>3, <3>1, <4>1 DEF CsvRows
    <3>2. CASE file.kind # "csv"
      <4>1. g \in SignedRows BY <1>4, <2>2, <3>2
      <4>2. g.day \in STRING /\ g.payee \in DOMAIN Normal /\ g.amount \in Int
          BY <4>1 DEF SignedRows
      <4> QED BY <2>3, <3>2, <4>2 DEF Blank
    <3> QED BY <3>1, <3>2
  <2> QED BY <2>4, <2>5, StatementRow
<1>12. rows \in Seq(PageRows)
  <2>1. rows = [i \in 1..n |-> rows[i]] BY <1>10
  <2> QED BY <1>11, <2>1
<1>13. PageOK(Page("statement", rows), book) BY <1>12, PageIs
<1>14. Keeps(r) /\ pc'[r] = "preview" /\ loc'[r] = Page("statement", rows)
  <2>1. RequestsOK BY DEF ImportsInv
  <2> QED BY <1>2, <2>1, BeginKeeps
<1>15. HeldAt(pc'[r], loc'[r], book, shut, balanceTrigger) BY <1>13, <1>14 DEF HeldAt
<1> QED BY <1>2, <1>14, <1>15, ImportsReads

-----------------------------------------------------------------------------
(* insert_rows: the legs of a good row. *)
LEMMA PairLegs ==
    ASSUME NEW a \in Texts, NEW b \in Texts, NEW n \in Nat \ {0}
    PROVE  /\ <<Debit(a, n), Credit(b, n)>> \in BookLegs
           /\ Balanced(<<Debit(a, n), Credit(b, n)>>)
           /\ Len(<<Debit(a, n), Credit(b, n)>>) = 2
           /\ \A k \in DOMAIN <<Debit(a, n), Credit(b, n)>> :
                 <<Debit(a, n), Credit(b, n)>>[k].amount = n
<1>1. PICK x, y : x = Debit(a, n) /\ y = Credit(b, n) OBVIOUS
<1>2. /\ x \in [account : Texts, dir : {"DEBIT", "CREDIT"}, amount : Nat \ {0}]
      /\ y \in [account : Texts, dir : {"DEBIT", "CREDIT"}, amount : Nat \ {0}]
      /\ x.amount = n /\ y.amount = n
    BY <1>1 DEF Debit, Credit, Leg
<1>3. <<x, y>> \in BookLegs /\ Len(<<x, y>>) = 2 BY <1>2 DEF BookLegs
<1>4. \A k \in DOMAIN <<x, y>> : <<x, y>>[k].amount = n
  <2>1. PICK s : s = <<x, y>> OBVIOUS
  <2>2. DOMAIN s = 1..2 /\ s[1] = x /\ s[2] = y BY <2>1
  <2>3. \A k \in 1..2 : k = 1 \/ k = 2 OBVIOUS
  <2> QED BY <1>2, <2>1, <2>2, <2>3
<1>5. Balanced(<<x, y>>)
  <2>1. n \in Int OBVIOUS
  <2> QED BY <1>1, <2>1, PairBalances
<1> QED BY <1>1, <1>3, <1>4, <1>5

LEMMA GoodRowLegs ==
    ASSUME NEW row \in PageRows, RowIsGood(row), NEW cash \in Texts, NEW other \in Texts,
           NEW legs, legs = RowLegs(row, cash, other)
    PROVE  /\ legs \in BookLegs /\ Balanced(legs) /\ Len(legs) = 2
           /\ \A k \in DOMAIN legs : legs[k].amount = PageAmount(row)
           /\ row.day \in Days /\ row.payee \in DOMAIN Normal
<1>1. row.out \in Nat \cup {Malformed} /\ row.in \in Nat \cup {Malformed}
    BY DEF PageRows
<1>2. row.day \in Days /\ row.payee \in DOMAIN Normal BY DEF PageRows, RowIsGood
<1>3. CASE row.out # Blank
  <2>1. row.out \in Nat \ {0} /\ PageAmount(row) = row.out
      BY <1>1, <1>3 DEF RowIsGood, Blank, PageAmount
  <2>2. legs = <<Debit(other, row.out), Credit(cash, row.out)>> BY <1>3 DEF RowLegs
  <2> QED BY <1>2, <2>1, <2>2, PairLegs
<1>4. CASE row.out = Blank
  <2>1. row.in \in Nat \ {0} /\ PageAmount(row) = row.in
      BY <1>1, <1>4 DEF RowIsGood, Blank, PageAmount
  <2>2. legs = <<Debit(cash, row.in), Credit(other, row.in)>> BY <1>4 DEF RowLegs
  <2> QED BY <1>2, <2>1, <2>2, PairLegs
<1> QED BY <1>3, <1>4

LEMMA BookRowIs ==
    ASSUME NEW day \in Days, NEW payee \in DOMAIN Normal, NEW legs \in BookLegs,
           NEW by \in ImportKind, NEW skip \in BOOLEAN, NEW text \in Texts,
           NEW late \in BOOLEAN, NEW n \in Nat
    PROVE  [day |-> day, payee |-> payee, legs |-> legs, by |-> by, skip |-> skip,
            text |-> text, late |-> late, batch |-> n] \in BookRows
    BY DEF BookRows

(* What a commit makes of one row of its page. *)
LEMMA BookedRow ==
    ASSUME ImportsInv, NEW d, PageOK(d, book), NEW row, NEW i \in DOMAIN d.rows,
           row = d.rows[i], RowIsGood(row), NEW skip \in BOOLEAN, skip => ~row.dup,
           NEW cash \in Texts, NEW other \in Texts, NEW t,
           t = Booked(d, row.day, row.payee, RowLegs(row, cash, other), skip)
    PROVE  /\ t \in BookRows /\ t.batch = Len(book) /\ TwoSides(t)
           /\ (t.skip /\ ~t.late) => \A j \in 1..t.batch : NotYet(t, book[j])
<1>1. PICK legs : legs = RowLegs(row, cash, other) OBVIOUS
<1>2. /\ d.rows \in Seq(PageRows) /\ d.kind \in {"bill", "statement"}
      /\ d.seen \in Nat
    BY DEF PageOK
<1>3. row \in PageRows BY <1>2
<1>4. /\ legs \in BookLegs /\ Balanced(legs) /\ Len(legs) = 2
      /\ \A k \in DOMAIN legs : legs[k].amount = PageAmount(row)
      /\ row.day \in Days /\ row.payee \in DOMAIN Normal
    BY <1>1, <1>3, GoodRowLegs
<1>5. book \in Seq(BookRows) BY DEF ImportsInv, BookOK
<1>6. PICK n \in Nat : n = Len(book) BY <1>5
<1>7. /\ t.day = row.day /\ t.payee = row.payee /\ t.legs = legs /\ t.by = d.kind
      /\ t.skip = skip /\ t.batch = n /\ t.late = (d.seen # n)
    BY <1>1, <1>6 DEF Booked
<1>8. t \in BookRows
  <2>1. d.kind \in ImportKind /\ "row" \in Texts BY <1>2 DEF ImportKind, Texts
  <2>2. PICK day \in Days, payee \in DOMAIN Normal, by \in ImportKind :
          day = row.day /\ payee = row.payee /\ by = d.kind
      BY <1>4, <2>1
  <2>3. legs \in BookLegs BY <1>4
  <2>4. PICK late \in BOOLEAN : late = (d.seen # n)
    <3>1. (d.seen # n) \in BOOLEAN OBVIOUS
    <3> QED BY <3>1
  <2>5. t = [day |-> day, payee |-> payee, legs |-> legs, by |-> by,
             skip |-> skip, text |-> "row", late |-> late, batch |-> n]
      BY <1>1, <1>6, <2>2, <2>4 DEF Booked
  <2> QED BY ONLY <2>1, <2>3, <2>5, skip \in BOOLEAN, day \in Days, payee \in DOMAIN Normal,
                  by \in ImportKind, late \in BOOLEAN, n \in Nat, BookRowIs
<1>9. TwoSides(t)
  <2>0. t.legs = legs BY <1>7
  <2>1. Balanced(t.legs) /\ Len(t.legs) = 2 BY <1>4, <2>0
  <2> QED BY ONLY <2>1 DEF TwoSides
<1>10. ASSUME t.skip, ~t.late, NEW j \in 1..t.batch PROVE NotYet(t, book[j])
  <2>1. d.seen = n /\ j \in 1..d.seen /\ ~row.dup BY <1>7, <1>10
  <2>2. t.by # "plain" BY <1>2, <1>7
  <2>3. ASSUME t.by = "bill", t.day = "recent", NEW x \in Prints(t), x \in Prints(book[j])
        PROVE  FALSE
    <3>1. x = Fingerprint(row.day, PageAmount(row), row.payee)
      <4>1. PICK k \in DOMAIN legs : x = Fingerprint(t.day, legs[k].amount, t.payee)
          BY <1>7, <2>3 DEF Prints
      <4> QED BY <1>4, <1>7, <4>1
    <3>2. PICK k : x = Fingerprint(book[j].day, k, book[j].payee)
        BY <2>3 DEF Prints
    <3>3. row.day = "recent" /\ book[j].day = "recent"
        BY <1>7, <2>3, <3>1, <3>2 DEF Fingerprint
    <3>4. Unknown(row, book[j]) BY <1>7, <2>1, <2>3 DEF PageOK
    <3> QED BY <2>1, <2>3, <3>1, <3>3, <3>4 DEF Unknown
  <2> QED BY <2>2, <2>3 DEF NotYet
<1> QED BY <1>6, <1>7, <1>8, <1>9, <1>10

LEMMA ImportCommitOK ==
    ASSUME ImportsInv, NEW r \in Req, NEW skip \in BOOLEAN, ImportCommit(r, skip)
    PROVE  ImportsInv'
<1> DEFINE d == loc[r]
           at == {i \in DOMAIN d.rows : ~(skip /\ d.rows[i].dup)}
           rows == Selected(d.rows, at)
           other == IF d.kind = "bill" THEN "expense" ELSE "fallback"
           cash == IF cashAccount = "none" THEN "fallback" ELSE cashAccount
           made == [i \in DOMAIN rows |->
                       Booked(d, rows[i].day, rows[i].payee,
                              RowLegs(rows[i], cash, other), skip)]
<1>1. /\ pc[r] = "preview" /\ UNCHANGED <<pc, loc, raced, saved, shut, cashAccount, balanceTrigger>>
      /\ \/ /\ \A i \in DOMAIN rows : RowIsGood(rows[i])
            /\ Len(book) + Len(rows) <= MaxBook
            /\ book' = book \o made
         \/ UNCHANGED book
    BY DEF ImportCommit
<1>2. PageOK(d, book) /\ HeldAt(pc[r], loc[r], book, shut, balanceTrigger)
    BY <1>1 DEF ImportsInv, HeldAt
<1>3. Keeps(r)
  <2>1. RequestsOK BY DEF ImportsInv
  <2> QED BY <1>1, <2>1, SamePlace
<1>4. CASE UNCHANGED book
  <2>1. UNCHANGED importVars BY <1>1, <1>4 DEF importVars
  <2>2. HeldAt(pc'[r], loc'[r], book, shut, balanceTrigger) BY <1>1, <1>2
  <2> QED BY <1>3, <2>1, <2>2, ImportsReads
<1>5. CASE /\ \A i \in DOMAIN rows : RowIsGood(rows[i])
           /\ Len(book) + Len(rows) <= MaxBook
           /\ book' = book \o made
  <2>1. /\ rows \in Seq(PageRows)
        /\ \A k \in DOMAIN rows : \E i \in at : rows[k] = d.rows[i]
    <3>1. d.rows \in Seq(PageRows) BY <1>2 DEF PageOK
    <3>2. at \in SUBSET DOMAIN d.rows OBVIOUS
    <3> HIDE DEF d, at
    <3> QED BY <3>1, <3>2, SelectedFrom
  <2>2. cash \in Texts /\ other \in Texts
    <3>1. cashAccount \in Texts BY DEF ImportsInv
    <3>2. cash = "fallback" \/ cash = cashAccount OBVIOUS
    <3>3. other = "expense" \/ other = "fallback" OBVIOUS
    <3>4. "fallback" \in Texts /\ "expense" \in Texts BY DEF Texts
    <3> HIDE DEF cash, other
    <3> QED BY <3>1, <3>2, <3>3, <3>4
  <2>3. PICK n \in Nat : n = Len(rows) /\ DOMAIN rows = 1..n
    <3> HIDE DEF rows
    <3> QED BY <2>1
  <2>4. ASSUME NEW k \in 1..n
        PROVE  /\ made[k] \in BookRows /\ made[k].batch = Len(book) /\ TwoSides(made[k])
               /\ (made[k].skip /\ ~made[k].late) =>
                     \A j \in 1..made[k].batch : NotYet(made[k], book[j])
    <3>1. PICK i \in at : rows[k] = d.rows[i] BY <2>1, <2>3
    <3>2. /\ i \in DOMAIN d.rows /\ (skip => ~rows[k].dup) /\ RowIsGood(rows[k])
        BY <1>5, <2>3, <3>1
    <3>3. made[k] = Booked(d, rows[k].day, rows[k].payee,
                           RowLegs(rows[k], cash, other), skip)
        BY <2>3
    <3> HIDE DEF d, at, rows, other, cash, made
    <3> QED BY <1>2, <2>2, <3>1, <3>2, <3>3, BookedRow
  <2>5. DOMAIN made = 1..n /\ made = [k \in 1..n |-> made[k]] BY <2>3
  <2> HIDE DEF d, at, rows, other, cash, made
  <2>6. made \in Seq(BookRows) /\ Len(made) = n BY <2>4, <2>5
  <2>7. BookOK(book) /\ Len(book) \in Nat BY DEF ImportsInv, BookOK
  <2>8. Grows(book, book') /\ BookOK(book')
    <3>1. Len(book) + Len(made) <= MaxBook BY <1>5, <2>3, <2>6
    <3>2. \A k \in DOMAIN made :
            /\ made[k].batch <= Len(book) /\ TwoSides(made[k])
            /\ (made[k].skip /\ ~made[k].late) =>
                  \A j \in 1..made[k].batch : NotYet(made[k], book[j])
        BY <2>4, <2>5, <2>7
    <3>3. Grows(book, book \o made) /\ BookOK(book \o made)
        BY <2>6, <2>7, <3>1, <3>2, BookAppends
    <3> QED BY <1>5, <3>3
  <2>9. HeldAt(pc'[r], loc'[r], book', shut', balanceTrigger)
    <3>1. HeldAt(pc[r], loc[r], book', shut, balanceTrigger) BY <1>2, <2>8, HeldAtStays
    <3> QED BY <1>1, <3>1
  <2>10. SavedOK(saved') /\ shut \subseteq shut' /\ shut' \subseteq Days
      BY <1>1 DEF ImportsInv
  <2> QED BY <1>1, <1>3, <2>8, <2>9, <2>10, ImportsStep
<1> QED BY <1>1, <1>4, <1>5

-----------------------------------------------------------------------------
(* The wizard. *)
LEMMA AutoDetectIs == ASSUME NEW columns PROVE AutoDetect(columns) \in Maps
<1>1. PICK x \in BOOLEAN : x = ("debit" \in columns)
  <2>1. ("debit" \in columns) \in BOOLEAN OBVIOUS
  <2> QED BY <2>1
<1>2. PICK y \in BOOLEAN : y = ("credit" \in columns)
  <2>1. ("credit" \in columns) \in BOOLEAN OBVIOUS
  <2> QED BY <2>1
<1>3. PICK z \in BOOLEAN :
        z = ("amount" \in columns /\ columns \cap {"debit", "credit"} = {})
  <2>1. ("amount" \in columns /\ columns \cap {"debit", "credit"} = {}) \in BOOLEAN OBVIOUS
  <2> QED BY <2>1
<1>4. AutoDetect(columns) = [debit |-> x, credit |-> y, amount_in |-> z]
    BY <1>1, <1>2, <1>3 DEF AutoDetect, Mapping
<1>5. [debit |-> x, credit |-> y, amount_in |-> z] \in Maps BY DEF Maps
<1> QED BY <1>4, <1>5

LEMMA ColumnMapIs == ASSUME NEW row \in SavedRows PROVE ColumnMap(row) \in Maps
<1>1. PICK m \in Maps : m = row.map BY DEF SavedRows
<1>2. [m EXCEPT !.amount_in = FALSE] \in Maps BY DEF Maps
<1> QED BY <1>1, <1>2 DEF ColumnMap

LEMMA WizardUploadOK ==
    ASSUME ImportsInv, NEW r \in Req, NEW file \in WizardFile, WizardUpload(r, file)
    PROVE  ImportsInv'
<1>1. PICK at : at = {i \in DOMAIN saved : saved[i].matches} OBVIOUS
<1>2. PICK map : map = IF at = {} THEN AutoDetect(file.columns)
                       ELSE ColumnMap(saved[Max(at)])
    OBVIOUS
<1>3. book \in Seq(BookRows) /\ saved \in Seq(SavedRows) /\ RequestsOK
    BY DEF ImportsInv, BookOK, SavedOK
<1>4. PICK n \in Nat : n = Len(book) BY <1>3
<1>5. PICK d : d = [on |-> "import", kind |-> "wizard", seen |-> n, file |-> file, map |-> map]
    OBVIOUS
<1>6. Begin(r, "wizard", d) /\ UNCHANGED importVars
    BY <1>1, <1>2, <1>4, <1>5 DEF WizardUpload
<1>7. map \in Maps
  <2>1. CASE at = {} BY <1>2, <2>1, AutoDetectIs
  <2>2. CASE at # {}
    <3>1. PICK m \in Nat : DOMAIN saved = 1..m BY <1>3
    <3>2. at \in SUBSET (1..m) BY <1>1, <3>1
    <3>3. Max(at) \in at BY <2>2, <3>2, MaxIn
    <3>4. PICK k : k = Max(at) OBVIOUS
    <3>5. k \in DOMAIN saved BY <3>1, <3>2, <3>3, <3>4
    <3>6. saved[k] \in SavedRows BY <1>3, <3>5
    <3> QED BY <1>2, <2>2, <3>4, <3>6, ColumnMapIs
  <2> QED BY <2>1, <2>2
<1>8. WizardOK(d)
  <2>1. file \in [columns : SUBSET STRING, lines : Seq(WizardLines)] BY ImportsAssumption
  <2> QED BY <1>5, <1>7, <2>1 DEF WizardOK
<1>9. Keeps(r) /\ pc'[r] = "wizard" /\ loc'[r] = d BY <1>3, <1>6, BeginKeeps
<1>10. HeldAt(pc'[r], loc'[r], book, shut, balanceTrigger) BY <1>8, <1>9 DEF HeldAt
<1> QED BY <1>6, <1>9, <1>10, ImportsReads

(* save_mapping keeps one row of a name. *)
LEMMA SaveMapping ==
    ASSUME NEW s, SavedOK(s), NEW n \in MappingName, NEW map \in Maps, NEW b \in BOOLEAN,
           NEW t, t = Append(Selected(s, {i \in DOMAIN s : s[i].name # n}),
                             [name |-> n, map |-> map, matches |-> b])
    PROVE  SavedOK(t)
<1>1. s \in Seq(SavedRows) BY DEF SavedOK
<1>2. PICK at : at = {i \in DOMAIN s : s[i].name # n} OBVIOUS
<1>3. at \in SUBSET DOMAIN s BY <1>2
<1>4. PICK u : u = Selected(s, at) OBVIOUS
<1>5. /\ u \in Seq(SavedRows)
      /\ \A k \in DOMAIN u : \E i \in at : u[k] = s[i]
      /\ \A k, l \in DOMAIN u : k # l => \E i, j \in at : i # j /\ u[k] = s[i] /\ u[l] = s[j]
    BY <1>1, <1>3, <1>4, SelectedFrom
<1>6. PICK x \in SavedRows : x = [name |-> n, map |-> map, matches |-> b] /\ x.name = n
    BY DEF SavedRows
<1>7. t = Append(u, x) BY <1>2, <1>4, <1>6
<1>8. PICK m \in Nat : m = Len(u) /\ DOMAIN u = 1..m BY <1>5
<1>9. /\ t \in Seq(SavedRows) /\ DOMAIN t = 1..(m + 1) /\ t[m + 1] = x
      /\ \A k \in 1..m : t[k] = u[k]
  <2>1. /\ Append(u, x) \in Seq(SavedRows) /\ Len(Append(u, x)) = Len(u) + 1
        /\ \A k \in 1..Len(u) : Append(u, x)[k] = u[k]
        /\ Append(u, x)[Len(u) + 1] = x
      BY <1>5, <1>6, AppendProperties
  <2>2. t \in Seq(SavedRows) /\ Len(t) = m + 1 BY <1>7, <1>8, <2>1
  <2>3. DOMAIN t = 1..(m + 1) BY <2>2
  <2>4. t[m + 1] = x /\ \A k \in 1..m : t[k] = u[k] BY <1>7, <1>8, <2>1
  <2> QED BY ONLY <2>2, <2>3, <2>4
<1>10. \A k \in 1..m : t[k].name # n
  <2> SUFFICES ASSUME NEW k \in 1..m PROVE t[k].name # n
      OBVIOUS
  <2>1. PICK i \in at : u[k] = s[i] BY <1>5, <1>8
  <2> QED BY <1>2, <1>9, <2>1
<1>11. ASSUME NEW k \in 1..m, NEW l \in 1..m, k # l PROVE t[k].name # t[l].name
  <2>1. PICK i \in at, j \in at : i # j /\ u[k] = s[i] /\ u[l] = s[j]
      BY <1>5, <1>8, <1>11
  <2>2. s[i].name # s[j].name BY <1>3, <2>1 DEF SavedOK
  <2> QED BY <1>9, <2>1, <2>2
<1>12. ASSUME NEW k \in DOMAIN t, NEW l \in DOMAIN t, k # l PROVE t[k].name # t[l].name
  <2>1. (k \in 1..m \/ k = m + 1) /\ (l \in 1..m \/ l = m + 1) BY <1>9
  <2>2. t[m + 1].name = n BY <1>6, <1>9
  <2> QED BY <1>10, <1>11, <1>12, <2>1, <2>2
<1> QED BY <1>9, <1>12 DEF SavedOK

LEMMA WizardPreviewOK ==
    ASSUME ImportsInv, NEW r \in Req, NEW picks \in BOOLEAN, WizardPreview(r, picks)
    PROVE  ImportsInv'
<1>1. PICK d : d = loc[r] OBVIOUS
<1>2. pc[r] = "wizard" /\ WizardOK(d) /\ RequestsOK
    BY <1>1 DEF WizardPreview, ImportsInv, HeldAt
<1>3. PICK map : map = IF picks THEN AutoDetect(d.file.columns) ELSE d.map OBVIOUS
<1>4. d.on = "import" /\ d.map \in Maps BY <1>2 DEF WizardOK
<1>5. map \in Maps BY <1>3, <1>4, AutoDetectIs
<1>6. PICK e : e = [d EXCEPT !.map = map] OBVIOUS
<1>7. WizardOK(e) /\ e.on = d.on BY <1>2, <1>5, <1>6 DEF WizardOK
<1>8. /\ Goto(r, "wizard", e) /\ UNCHANGED <<book, shut, cashAccount, balanceTrigger>>
      /\ \/ UNCHANGED saved
         \/ \E n \in MappingName, matches \in BOOLEAN :
              saved' = Append(Selected(saved, {i \in DOMAIN saved : saved[i].name # n}),
                              [name |-> n, map |-> map, matches |-> matches])
    BY <1>1, <1>3, <1>6 DEF WizardPreview
<1>9. Keeps(r) /\ pc'[r] = "wizard" /\ loc'[r] = e
  <2>1. pc[r] # "idle" /\ e.on = loc[r].on BY <1>1, <1>2, <1>7
  <2> QED BY <1>2, <1>8, <2>1, GotoKeeps
<1>10. SavedOK(saved')
  <2>1. SavedOK(saved) BY DEF ImportsInv
  <2>2. CASE UNCHANGED saved BY <2>1, <2>2
  <2>3. ASSUME NEW n \in MappingName, NEW b \in BOOLEAN,
               saved' = Append(Selected(saved, {i \in DOMAIN saved : saved[i].name # n}),
                               [name |-> n, map |-> map, matches |-> b])
        PROVE  SavedOK(saved')
      BY <1>5, <2>1, <2>3, SaveMapping
  <2> QED BY <1>8, <2>2, <2>3
<1>11. Grows(book, book') /\ BookOK(book') BY <1>8, GrowsSame DEF ImportsInv, BookOK
<1>12. shut \subseteq shut' /\ shut' \subseteq Days BY <1>8 DEF ImportsInv
<1>13. HeldAt(pc'[r], loc'[r], book', shut', balanceTrigger) BY <1>7, <1>9 DEF HeldAt
<1> QED BY <1>8, <1>9, <1>10, <1>11, <1>12, <1>13, ImportsStep

LEMMA LineAmountIs ==
    ASSUME NEW line \in WizardLines, NEW map PROVE LineAmount(line, map) \in Int
<1>1. line.amount \in Int /\ line.debit \in Int /\ line.credit \in Int BY DEF WizardLines
<1> QED BY <1>1 DEF LineAmount

LEMMA Single == ASSUME NEW S, NEW x \in S PROVE <<x>> \in Seq(S)
    OBVIOUS

LEMMA WizardLegs ==
    ASSUME NEW n \in Int, NEW legs,
           legs = IF n = 0 THEN <<>>
                  ELSE IF n < 0 THEN <<Credit("bank", -n)>> ELSE <<Debit("bank", n)>>
    PROVE  legs \in BookLegs
<1>1. "bank" \in Texts BY DEF Texts
<1>2. CASE n = 0 BY <1>2 DEF BookLegs
<1>3. CASE n < 0
  <2>1. PICK m \in Nat \ {0} : m = -n BY <1>3
  <2>2. Credit("bank", m) \in [account : Texts, dir : {"DEBIT", "CREDIT"}, amount : Nat \ {0}]
      BY <1>1 DEF Credit, Leg
  <2>3. PICK x : x = Credit("bank", m) OBVIOUS
  <2>4. legs = <<x>> BY <1>3, <2>1, <2>3
  <2> QED BY <2>2, <2>3, <2>4, Single DEF BookLegs
<1>4. CASE n > 0
  <2>1. n \in Nat \ {0} BY <1>4
  <2>2. Debit("bank", n) \in [account : Texts, dir : {"DEBIT", "CREDIT"}, amount : Nat \ {0}]
      BY <1>1, <2>1 DEF Debit, Leg
  <2>3. PICK x : x = Debit("bank", n) OBVIOUS
  <2>4. legs = <<x>> BY <1>4, <2>3
  <2> QED BY <2>2, <2>3, <2>4, Single DEF BookLegs
<1> QED BY <1>2, <1>3, <1>4

LEMMA WizardCommitOK ==
    ASSUME ImportsInv, NEW r \in Req, WizardCommit(r)
    PROVE  ImportsInv'
<1> DEFINE d == loc[r]
           at == {i \in DOMAIN d.file.lines : d.file.lines[i].day \in Days}
           lines == Selected(d.file.lines, at)
           legs(n) == IF n = 0 THEN <<>>
                      ELSE IF n < 0 THEN <<Credit("bank", -n)>> ELSE <<Debit("bank", n)>>
           made == [i \in DOMAIN lines |->
                       Booked(d, lines[i].day, lines[i].payee,
                              legs(LineAmount(lines[i], d.map)), FALSE)]
<1>1. /\ pc[r] = "wizard" /\ UNCHANGED <<pc, loc, raced, saved, shut, cashAccount, balanceTrigger>>
      /\ Len(book) + Len(lines) <= MaxBook
      /\ book' = book \o made
    BY DEF WizardCommit
<1>2. WizardOK(d) /\ HeldAt(pc[r], loc[r], book, shut, balanceTrigger)
    BY <1>1 DEF ImportsInv, HeldAt
<1>3. Keeps(r)
  <2>1. RequestsOK BY DEF ImportsInv
  <2> QED BY <1>1, <2>1, SamePlace
<1>4. d.file.lines \in Seq(WizardLines) /\ d.kind = "wizard" /\ d.seen \in Nat
    BY <1>2 DEF WizardOK
<1>5. /\ lines \in Seq(WizardLines)
      /\ \A k \in DOMAIN lines : \E i \in at : lines[k] = d.file.lines[i]
  <2>1. at \in SUBSET DOMAIN d.file.lines OBVIOUS
  <2> HIDE DEF d, at
  <2> QED BY <1>4, <2>1, SelectedFrom
<1>6. PICK n \in Nat : n = Len(lines) /\ DOMAIN lines = 1..n
  <2> HIDE DEF lines
  <2> QED BY <1>5
<1>7. book \in Seq(BookRows) /\ BookOK(book) BY DEF ImportsInv, BookOK
<1>8. PICK b \in Nat : b = Len(book) BY <1>7
<1>9. ASSUME NEW k \in 1..n
      PROVE  /\ made[k] \in BookRows /\ made[k].batch = b /\ TwoSides(made[k])
             /\ ~made[k].skip
  <2>1. PICK line \in WizardLines : line = lines[k]
    <3> HIDE DEF lines
    <3> QED BY <1>5, <1>6
  <2>2. line.day \in Days
    <3>1. PICK i \in at : lines[k] = d.file.lines[i] BY <1>5, <1>6
    <3> QED BY <2>1, <3>1
  <2>3. PICK l : l = legs(LineAmount(line, d.map)) OBVIOUS
  <2>4. l \in BookLegs BY <2>3, LineAmountIs, WizardLegs
  <2>5. PICK day \in Days, payee \in DOMAIN Normal : day = line.day /\ payee = line.payee
      BY <2>2 DEF WizardLines
  <2>6. PICK late \in BOOLEAN : late = (d.seen # b)
    <3>1. (d.seen # b) \in BOOLEAN OBVIOUS
    <3> QED BY <3>1
  <2>7. made[k] = [day |-> day, payee |-> payee, legs |-> l, by |-> "wizard", skip |-> FALSE,
                   text |-> "row", late |-> late, batch |-> b]
      BY <1>4, <1>6, <1>8, <2>1, <2>3, <2>5, <2>6 DEF Booked
  <2> HIDE DEF made, d, lines, legs, at
  <2>8. PICK text \in Texts, by \in ImportKind : text = "row" /\ by = "wizard"
      BY DEF Texts, ImportKind
  <2>10. PICK skip \in BOOLEAN : skip = FALSE OBVIOUS
  <2>11. made[k] = [day |-> day, payee |-> payee, legs |-> l, by |-> by, skip |-> skip,
                    text |-> text, late |-> late, batch |-> b]
      BY ONLY <2>7, <2>8, <2>10
  <2>9. made[k] \in BookRows
      BY ONLY <2>4, <2>11, day \in Days, payee \in DOMAIN Normal, late \in BOOLEAN,
              text \in Texts, by \in ImportKind, skip \in BOOLEAN, b \in Nat, BookRowIs
  <2> QED BY <2>7, <2>9 DEF TwoSides
<1>10. DOMAIN made = 1..n /\ made = [k \in 1..n |-> made[k]] BY <1>6
<1> HIDE DEF d, at, lines, legs, made
<1>11. made \in Seq(BookRows) /\ Len(made) = n BY <1>9, <1>10
<1>12. Grows(book, book') /\ BookOK(book')
  <2>1. Len(book) + Len(made) <= MaxBook BY <1>1, <1>6, <1>11
  <2>2. \A k \in DOMAIN made :
          /\ made[k].batch <= Len(book) /\ TwoSides(made[k])
          /\ (made[k].skip /\ ~made[k].late) =>
                \A j \in 1..made[k].batch : NotYet(made[k], book[j])
      BY <1>8, <1>9, <1>10
  <2>3. Grows(book, book \o made) /\ BookOK(book \o made)
      BY <1>7, <1>11, <2>1, <2>2, BookAppends
  <2> QED BY <1>1, <2>3
<1>13. HeldAt(pc'[r], loc'[r], book', shut', balanceTrigger)
  <2>1. HeldAt(pc[r], loc[r], book', shut, balanceTrigger) BY <1>2, <1>12, HeldAtStays
  <2> QED BY <1>1, <2>1
<1>14. SavedOK(saved') /\ shut \subseteq shut' /\ shut' \subseteq Days
    BY <1>1 DEF ImportsInv
<1> QED BY <1>1, <1>3, <1>12, <1>13, <1>14, ImportsStep

-----------------------------------------------------------------------------
(* The plain-text import. *)
LEMMA PlainBeginOK ==
    ASSUME ImportsInv, NEW r \in Req, NEW file \in Plain, PlainBegin(r, file)
    PROVE  ImportsInv'
<1>1. book \in Seq(BookRows) /\ RequestsOK BY DEF ImportsInv, BookOK
<1>2. PICK n \in Nat : n = Len(book) /\ DOMAIN book = 1..n BY <1>1
<1>3. file \in Seq(PlainEntries) BY ImportsAssumption
<1>4. PICK known : known = ExistingEntries OBVIOUS
<1>5. PICK d : d = [on |-> "import", kind |-> "plain", seen |-> n, left |-> file,
                    start |-> file, batch |-> n, own |-> 0, known |-> known]
    OBVIOUS
<1>6. Begin(r, "plain", d) /\ UNCHANGED importVars BY <1>2, <1>4, <1>5 DEF PlainBegin
<1>7. Keeps(r) /\ pc'[r] = "plain" /\ loc'[r] = d BY <1>1, <1>6, BeginKeeps
<1>8. /\ known \in SUBSET {EntryPrint(t) : t \in BookRows}
      /\ \A j \in 1..n : book[j].legs # <<>> => EntryPrint(book[j]) \in known
      /\ \A x \in known : \E k \in DOMAIN book : EntryPrint(book[k]) = x
  <2>1. \A j \in DOMAIN book : book[j] \in BookRows BY <1>1
  <2> QED BY <1>2, <1>4, <2>1 DEF ExistingEntries
<1>9. /\ d.left = file /\ d.start = file /\ d.batch = n /\ d.known = known BY <1>5
<1>10. d \in PlainRows BY <1>3, <1>5, <1>8 DEF PlainRows
<1>11. PlainOK(d, book, shut, balanceTrigger)
  <2>1. PICK m \in Nat : m = Len(file) BY <1>3
  <2>2. \A k \in 1..m : m - m + k = k OBVIOUS
  <2>3. 1..(m - m) = {} OBVIOUS
  <2>4. Len(d.left) = m /\ Len(d.start) = m BY <1>9, <2>1
  <2>5. \A k \in 1..Len(d.left) : d.left[k] = d.start[Len(d.start) - Len(d.left) + k]
      BY <1>9, <2>2, <2>4
  <2>6. \A k \in 1..(Len(d.start) - Len(d.left)) : FALSE BY <2>3, <2>4
  <2>7. Len(d.left) <= Len(d.start) /\ d.batch <= Len(book) BY <1>2, <1>9, <2>4
  <2> QED BY <1>8, <1>9, <1>10, <2>5, <2>6, <2>7 DEF PlainOK
<1>12. HeldAt(pc'[r], loc'[r], book, shut, balanceTrigger) BY <1>7, <1>11 DEF HeldAt
<1> QED BY <1>6, <1>7, <1>12, ImportsReads

(* The import goes past an entry that is in the book or cannot be. *)
LEMMA PlainAdvance ==
    ASSUME NEW d, NEW b, NEW s, NEW g, PlainOK(d, b, s, g), d.left # <<>>,
           Bookable(Head(d.left), s, g) => InBook(Head(d.left), b),
           NEW e \in PlainRows, e.left = Tail(d.left), e.start = d.start,
           e.batch = d.batch, e.known = d.known
    PROVE  PlainOK(e, b, s, g)
<1>1. d.left \in Seq(PlainEntries) /\ d.start \in Seq(PlainEntries)
    BY DEF PlainOK, PlainRows
<1>2. PICK left, start : left = d.left /\ start = d.start OBVIOUS
<1>3. PICK m \in Nat, n \in Nat : m = Len(left) /\ n = Len(start) BY <1>1, <1>2
<1>4. left \in Seq(PlainEntries) /\ left # <<>> /\ m >= 1 BY <1>1, <1>2, <1>3
<1>5. /\ m <= n /\ \A k \in 1..m : left[k] = start[n - m + k]
      /\ \A k \in 1..(n - m) : Bookable(start[k], s, g) => InBook(start[k], b)
    BY <1>2, <1>3 DEF PlainOK
<1>6. /\ Len(Tail(left)) = m - 1 /\ Head(left) = left[1]
      /\ \A k \in 1..(m - 1) : Tail(left)[k] = left[k + 1]
  <2>1. /\ Len(Tail(left)) = Len(left) - 1
        /\ \A k \in 1..(Len(left) - 1) : Tail(left)[k] = left[k + 1]
      BY ONLY <1>4, HeadTailProperties
  <2> QED BY <1>3, <1>4, <2>1
<1>7. \A k \in 1..(m - 1) : Tail(left)[k] = start[n - (m - 1) + k]
  <2> SUFFICES ASSUME NEW k \in 1..(m - 1) PROVE Tail(left)[k] = start[n - (m - 1) + k]
      OBVIOUS
  <2>1. k + 1 \in 1..m /\ n - m + (k + 1) = n - (m - 1) + k OBVIOUS
  <2>2. left[k + 1] = start[n - m + (k + 1)] BY <1>5, <2>1
  <2> QED BY <1>6, <2>1, <2>2
<1>8. ASSUME NEW k \in 1..(n - (m - 1)), Bookable(start[k], s, g) PROVE InBook(start[k], b)
  <2>1. CASE k \in 1..(n - m) BY <1>5, <1>8, <2>1
  <2>2. CASE k = n - m + 1
    <3>1. 1 \in 1..m /\ left[1] = start[n - m + 1] BY <1>4, <1>5
    <3>2. Head(left) = start[k] BY <1>6, <2>2, <3>1
    <3> QED BY <1>2, <1>8, <3>2
  <2> QED BY <1>4, <1>5, <2>1, <2>2
<1>9. m - 1 <= n BY <1>5
<1>10. e.left = Tail(left) /\ e.start = start /\ Len(e.left) = m - 1 /\ Len(e.start) = n
    BY <1>2, <1>3, <1>6
<1>11. /\ e.batch <= Len(b)
       /\ \A j \in 1..e.batch : b[j].legs # <<>> => EntryPrint(b[j]) \in e.known
       /\ \A x \in e.known : \E k \in DOMAIN b : EntryPrint(b[k]) = x
    BY DEF PlainOK
<1>12. \A k \in 1..(n - (m - 1)) : Bookable(start[k], s, g) => InBook(start[k], b) BY <1>8
<1> QED BY ONLY e \in PlainRows, <1>7, <1>9, <1>10, <1>11, <1>12 DEF PlainOK

LEMMA PlainEntryOK ==
    ASSUME ImportsInv, NEW r \in Req, PlainEntry(r)
    PROVE  ImportsInv'
<1>1. PICK d : d = loc[r] OBVIOUS
<1>2. /\ pc[r] = "plain" /\ d.left # <<>> /\ UNCHANGED importVars
      /\ RequestsOK /\ PlainOK(d, book, shut, balanceTrigger)
    BY <1>1 DEF PlainEntry, ImportsInv, HeldAt
<1>3. d \in PlainRows BY <1>2 DEF PlainOK
<1>4. PICK e : e = [d EXCEPT !.left = Tail(d.left)] OBVIOUS
<1>5. PICK entry : entry = Head(d.left) OBVIOUS
<1>6. IF EntryIsGood(entry, d.known) /\ entry.day \notin shut
      THEN Goto(r, "plain insert", d) ELSE Goto(r, "plain", e)
  <2>1. [d EXCEPT !.left = Tail(@)] = e BY <1>4
  <2> QED BY <1>1, <1>5, <2>1 DEF PlainEntry
<1>7. CASE EntryIsGood(entry, d.known) /\ entry.day \notin shut
  <2>1. Goto(r, "plain insert", d) BY <1>6, <1>7
  <2>2. Keeps(r) /\ pc'[r] = "plain insert" /\ loc'[r] = d BY <1>1, <1>2, <2>1, GotoKeeps
  <2>3. HeldAt(pc'[r], loc'[r], book, shut, balanceTrigger) BY <1>2, <1>5, <1>7, <2>2 DEF HeldAt
  <2> QED BY <1>2, <2>2, <2>3, ImportsReads
<1>8. CASE ~(EntryIsGood(entry, d.known) /\ entry.day \notin shut)
  <2>1. Goto(r, "plain", e) BY <1>6, <1>8
  <2>2. /\ e \in PlainRows /\ e.left = Tail(d.left) /\ e.start = d.start
        /\ e.batch = d.batch /\ e.known = d.known /\ e.on = d.on
    <3>1. d.left \in Seq(PlainEntries) BY <1>3 DEF PlainRows
    <3>0. Tail(d.left) \in Seq(PlainEntries) BY <1>2, <3>1, HeadTailProperties
    <3>2. PICK rest \in Seq(PlainEntries) : rest = Tail(d.left) BY <3>0
    <3>3. e = [d EXCEPT !.left = rest] BY <1>4, <3>2
    <3> QED BY <1>3, <3>2, <3>3 DEF PlainRows
  <2>3. Keeps(r) /\ pc'[r] = "plain" /\ loc'[r] = e
      BY <1>1, <1>2, <2>1, <2>2, GotoKeeps
  <2>4. Bookable(entry, shut, balanceTrigger) => InBook(entry, book)
      BY <1>2, <1>8 DEF Bookable, EntryIsGood, InBook, PlainOK
  <2>5. PlainOK(e, book, shut, balanceTrigger) BY <1>2, <1>5, <2>2, <2>4, PlainAdvance
  <2>6. HeldAt(pc'[r], loc'[r], book, shut, balanceTrigger) BY <2>3, <2>5 DEF HeldAt
  <2> QED BY <1>2, <2>3, <2>6, ImportsReads
<1> QED BY <1>7, <1>8

(* A balanced entry whose postings pass the CHECK has none, or two. *)
LEMMA BookableLegs ==
    ASSUME NEW legs \in Seq(PlainLegs),
           \A i \in DOMAIN legs : legs[i].amount > 0, Balanced(legs)
    PROVE  legs \in BookLegs /\ (Len(legs) >= 2 \/ legs = <<>>)
<1>1. PICK n \in Nat : n = Len(legs) /\ DOMAIN legs = 1..n OBVIOUS
<1>2. legs \in BookLegs
  <2> DEFINE L == [account : Texts, dir : {"DEBIT", "CREDIT"}, amount : Nat \ {0}]
  <2>1. ASSUME NEW i \in 1..n PROVE legs[i] \in L
    <3>1. PICK x \in PlainLegs : x = legs[i] BY <1>1
    <3>2. x.amount \in Int /\ x.account \in STRING /\ x.dir \in {"DEBIT", "CREDIT"}
          /\ x = [account |-> x.account, dir |-> x.dir, amount |-> x.amount]
        BY DEF PlainLegs
    <3>3. x.amount > 0 BY <1>1, <3>1
    <3>4. x.amount \in Nat \ {0} /\ x.account \in Texts BY <3>2, <3>3 DEF Texts
    <3> QED BY <3>1, <3>2, <3>4
  <2> HIDE DEF L
  <2>2. legs \in Seq(L) BY <1>1, <2>1
  <2> QED BY <2>2 DEF BookLegs, L
<1>3. ASSUME n = 1 PROVE FALSE
  <2>1. PICK x : x = legs[1] OBVIOUS
  <2>6. x \in PlainLegs /\ x.amount > 0 BY <1>1, <1>3, <2>1
  <2>2. x.amount \in Int /\ x.amount > 0 /\ x.dir \in {"DEBIT", "CREDIT"}
      BY <2>6 DEF PlainLegs
  <2>3. legs = <<x>> BY <1>1, <1>3, <2>1
  <2>4. Total(legs, "DEBIT") = Part(x, "DEBIT") /\ Total(legs, "CREDIT") = Part(x, "CREDIT")
      BY <2>2, <2>3, TotalOne
  <2>5. Part(x, "DEBIT") # Part(x, "CREDIT") BY <2>2 DEF Part
  <2> QED BY <2>4, <2>5 DEF Balanced
<1>4. n = 0 => legs = <<>> BY <1>1
<1>5. n = 0 \/ n = 1 \/ n >= 2 OBVIOUS
<1> QED BY <1>1, <1>2, <1>3, <1>4, <1>5

LEMMA PlainInsertOK ==
    ASSUME ImportsInv, NEW r \in Req, PlainInsert(r)
    PROVE  ImportsInv'
<1>1. PICK d : d = loc[r] OBVIOUS
<1>2. PICK entry : entry = Head(d.left) OBVIOUS
<1>3. /\ pc[r] = "plain insert" /\ d.left # <<>> /\ EntryIsGood(entry, d.known)
      /\ RequestsOK /\ PlainOK(d, book, shut, balanceTrigger)
    BY <1>1, <1>2 DEF PlainInsert, ImportsInv, HeldAt
<1>4. /\ d \in PlainRows /\ d.left \in Seq(PlainEntries) /\ d.own \in Nat /\ d.batch \in Nat
      /\ d.batch <= Len(book)
    BY <1>3 DEF PlainOK, PlainRows
<1>5. entry \in PlainEntries /\ Tail(d.left) \in Seq(PlainEntries)
    BY <1>2, <1>3, <1>4, HeadTailProperties
<1>6. /\ entry.legs \in Seq(PlainLegs) /\ entry.day \in Days /\ entry.payee \in DOMAIN Normal
      /\ entry.text \in STRING
    BY <1>5 DEF PlainEntries
<1>7. PICK pass : pass = InsertsPass(entry.legs, balanceTrigger) OBVIOUS
<1>8. PICK own \in Nat : own = d.own + (IF InsertsPass(entry.legs, balanceTrigger) THEN 1 ELSE 0)
    BY <1>4
<1>9. PICK e : e = [d EXCEPT !.left = Tail(d.left), !.own = own] OBVIOUS
<1>10. /\ Goto(r, "plain", e) /\ UNCHANGED <<saved, shut, cashAccount, balanceTrigger>>
  <2>1. [d EXCEPT !.left = Tail(@),
                  !.own = @ + (IF InsertsPass(entry.legs, balanceTrigger) THEN 1 ELSE 0)] = e
      BY <1>8, <1>9
  <2> QED BY <1>1, <1>2, <2>1 DEF PlainInsert
<1>11. /\ e \in PlainRows /\ e.left = Tail(d.left) /\ e.start = d.start
       /\ e.batch = d.batch /\ e.known = d.known /\ e.on = d.on
  <2>1. PICK rest \in Seq(PlainEntries) : rest = Tail(d.left) BY <1>5
  <2>2. e = [d EXCEPT !.left = rest, !.own = own] BY <1>9, <2>1
  <2> QED BY <1>4, <2>1, <2>2 DEF PlainRows
<1>12. Keeps(r) /\ pc'[r] = "plain" /\ loc'[r] = e
    BY <1>1, <1>3, <1>10, <1>11, GotoKeeps
<1>13. BookOK(book) /\ book \in Seq(BookRows) /\ SavedOK(saved') /\ shut \subseteq shut'
       /\ shut' \subseteq Days /\ shut' = shut
    BY <1>10 DEF ImportsInv, BookOK
<1>14. CASE ~InsertsPass(entry.legs, balanceTrigger)
  <2>1. UNCHANGED book BY <1>1, <1>2, <1>14 DEF PlainInsert
  <2>2. ~Bookable(entry, shut, balanceTrigger) BY <1>14 DEF Bookable
  <2>3. PlainOK(e, book, shut, balanceTrigger) BY <1>2, <1>3, <1>11, <2>2, PlainAdvance
  <2>4. HeldAt(pc'[r], loc'[r], book, shut, balanceTrigger) BY <1>12, <2>3 DEF HeldAt
  <2>5. UNCHANGED importVars BY <1>10, <2>1 DEF importVars
  <2> QED BY <1>12, <2>4, <2>5, ImportsReads
<1>15. CASE InsertsPass(entry.legs, balanceTrigger)
  <2>1. PICK late \in BOOLEAN : late = (d.seen + d.own # Len(book))
    <3>1. (d.seen + d.own # Len(book)) \in BOOLEAN OBVIOUS
    <3> QED BY <3>1
  <2>2. PICK t : t = [day |-> entry.day, payee |-> entry.payee, legs |-> entry.legs,
                      by |-> "plain", late |-> late, batch |-> d.batch, skip |-> TRUE,
                      text |-> entry.text]
      OBVIOUS
  <2>3. Len(book) < MaxBook /\ book' = Append(book, t)
      BY <1>1, <1>2, <1>15, <2>1, <2>2 DEF PlainInsert
  <2>4. /\ entry.legs \in BookLegs /\ (Len(entry.legs) >= 2 \/ entry.legs = <<>>)
        /\ Balanced(entry.legs)
    <3>1. Balanced(entry.legs) BY <1>3 DEF EntryIsGood
    <3>2. \A i \in DOMAIN entry.legs : entry.legs[i].amount > 0 BY <1>15 DEF InsertsPass
    <3>3. PICK legs : legs = entry.legs OBVIOUS
    <3> QED BY <1>6, <3>1, <3>2, <3>3, BookableLegs
  <2>5. /\ t.day = entry.day /\ t.payee = entry.payee /\ t.legs = entry.legs
        /\ t.by = "plain" /\ t.batch = d.batch /\ t.text = entry.text
      BY <2>2
  <2>6. t \in BookRows
    <3>1. PICK day \in Days, payee \in DOMAIN Normal, legs \in BookLegs, n \in Nat :
            day = entry.day /\ payee = entry.payee /\ legs = entry.legs /\ n = d.batch
        BY <1>4, <1>6, <2>4
    <3>2. PICK text \in Texts : text = entry.text BY <1>6 DEF Texts
    <3>3. PICK by \in ImportKind : by = "plain" BY DEF ImportKind
    <3>4. PICK skip \in BOOLEAN : skip = TRUE OBVIOUS
    <3>5. t = [day |-> day, payee |-> payee, legs |-> legs, by |-> by, skip |-> skip,
               text |-> text, late |-> late, batch |-> n]
        BY <2>2, <3>1, <3>2, <3>3, <3>4
    <3> QED BY ONLY <3>5, day \in Days, payee \in DOMAIN Normal, legs \in BookLegs,
                    by \in ImportKind, skip \in BOOLEAN, text \in Texts, late \in BOOLEAN,
                    n \in Nat, BookRowIs
  <2>7. TwoSides(t) BY <2>4, <2>5 DEF TwoSides
  <2>8. EntryPrint(t) = EntryPrint(entry) BY <2>5 DEF EntryPrint
  <2>9. \A j \in 1..t.batch : NotYet(t, book[j])
    <3> SUFFICES ASSUME NEW j \in 1..t.batch PROVE NotYet(t, book[j])
        OBVIOUS
    <3>1. book[j].legs # <<>> => EntryPrint(book[j]) \in d.known BY <1>3, <2>5 DEF PlainOK
    <3>2. EntryPrint(entry) \notin d.known BY <1>3 DEF EntryIsGood
    <3> QED BY <2>5, <2>8, <3>1, <3>2 DEF NotYet
  <2>10. Grows(book, book') /\ BookOK(book')
    <3>1. PICK made : made = <<t>> OBVIOUS
    <3>2. made \in Seq(BookRows) /\ Len(made) = 1 /\ DOMAIN made = {1} /\ made[1] = t
        BY <2>6, <3>1
    <3>3. book' = book \o made
        BY <1>13, <2>3, <2>6, <3>1, AppendIsConcat
    <3>4. \A i \in DOMAIN made :
            /\ made[i].batch <= Len(book) /\ TwoSides(made[i])
            /\ (made[i].skip /\ ~made[i].late) =>
                  \A j \in 1..made[i].batch : NotYet(made[i], book[j])
        BY <1>4, <2>5, <2>7, <2>9, <3>2
    <3>5. Len(book) \in Nat BY <1>13
    <3>6. Len(book) + Len(made) <= MaxBook BY <2>3, <3>2, <3>5, ImportsAssumption
    <3>7. Grows(book, book \o made) /\ BookOK(book \o made)
        BY ONLY <1>13, <3>2, <3>4, <3>6, BookAppends
    <3> QED BY <3>3, <3>7
  <2>11. PlainOK(d, book', shut, balanceTrigger) BY <1>3, <2>10, PlainStays
  <2>12. InBook(entry, book')
    <3>1. PICK n \in Nat : n = Len(book) BY <1>13
    <3>2. n + 1 \in DOMAIN book' /\ book'[n + 1] = t
      <4>1. Len(Append(book, t)) = Len(book) + 1 /\ Append(book, t)[Len(book) + 1] = t
          BY <1>13, <2>6, AppendProperties
      <4>2. book' \in Seq(BookRows) BY <2>10 DEF Grows
      <4> QED BY <2>3, <3>1, <4>1, <4>2
    <3> QED BY <2>8, <3>2 DEF InBook
  <2>13. PlainOK(e, book', shut, balanceTrigger) BY <1>2, <1>3, <1>11, <2>11, <2>12, PlainAdvance
  <2>14. HeldAt(pc'[r], loc'[r], book', shut', balanceTrigger) BY <1>12, <1>13, <2>13 DEF HeldAt
  <2> QED BY <1>10, <1>12, <1>13, <2>10, <2>14, ImportsStep
<1> QED BY <1>14, <1>15

-----------------------------------------------------------------------------
(* Ends, closings, and the whole. *)
LEMMA ImportsEndOK ==
    ASSUME ImportsInv, NEW r \in Req, End(r), UNCHANGED importVars
    PROVE  ImportsInv'
<1>1. RequestsOK BY DEF ImportsInv
<1>2. Keeps(r) /\ pc'[r] = "idle" BY <1>1, EndKeeps DEF StaysOrEnds
<1>3. HeldAt(pc'[r], loc'[r], book, shut, balanceTrigger) BY <1>2 DEF HeldAt
<1> QED BY <1>2, <1>3, ImportsReads

LEMMA ShutPeriodOK ==
    ASSUME ImportsInv, NEW day \in Days, ShutPeriod(day)
    PROVE  ImportsInv'
<1>1. /\ UNCHANGED <<pc, loc, raced, book, saved, cashAccount, balanceTrigger>>
      /\ shut \subseteq shut' /\ shut' \subseteq Days
    BY DEF ShutPeriod, ImportsInv
<1>2. Grows(book, book') BY <1>1, GrowsSame DEF ImportsInv, BookOK
<1>3. RequestsOK' BY <1>1 DEF ImportsInv, RequestsOK, Busy
<1>4. ASSUME NEW q \in Req PROVE HeldAt(pc'[q], loc'[q], book', shut', balanceTrigger')
  <2>1. HeldAt(pc[q], loc[q], book, shut, balanceTrigger) BY DEF ImportsInv
  <2>2. HeldAt(pc[q], loc[q], book', shut', balanceTrigger) BY <1>1, <1>2, <2>1, HeldAtStays
  <2> QED BY <1>1, <2>2
<1>5. BookOK(book') /\ SavedOK(saved') /\ cashAccount' \in Texts BY <1>1 DEF ImportsInv
<1> QED BY <1>1, <1>3, <1>4, <1>5 DEF ImportsInv

LEMMA ImportsInit == ASSUME InitRequests, InitImports PROVE ImportsInv
<1>1. RequestsOK BY InitRequestsOK
<1>2. BookOK(book)
  <2>1. book \in Seq(BookRows) /\ Len(book) = 0 /\ DOMAIN book = {} BY DEF InitImports
  <2> QED BY <2>1, ImportsAssumption DEF BookOK
<1>3. SavedOK(saved)
  <2>1. saved \in Seq(SavedRows) /\ DOMAIN saved = {} BY DEF InitImports
  <2> QED BY <2>1 DEF SavedOK
<1>4. shut \subseteq Days /\ cashAccount \in Texts BY DEF InitImports, Texts
<1>5. \A q \in Req : HeldAt(pc[q], loc[q], book, shut, balanceTrigger)
    BY DEF InitRequests, HeldAt
<1> QED BY <1>1, <1>2, <1>3, <1>4, <1>5 DEF ImportsInv

LEMMA ImportsNextOK == ASSUME ImportsInv, ImportsNext PROVE ImportsInv'
<1>1. CASE FilesNext
  <2>1. CASE \E day \in Days : ShutPeriod(day) BY <2>1, ShutPeriodOK
  <2>2. ASSUME NEW r \in Req, PlainEnd(r) \/ LeavePage(r) PROVE ImportsInv'
      BY <2>2, ImportsEndOK DEF PlainEnd, LeavePage, CutOff
  <2> QED BY <1>1, <2>1, <2>2, BillPreviewOK, StatementUploadOK, ImportCommitOK,
             PlainBeginOK, PlainEntryOK, PlainInsertOK DEF FilesNext
<1>2. CASE WizardNext
  <2>1. ASSUME NEW r \in Req, LeavePage(r) PROVE ImportsInv'
      BY <2>1, ImportsEndOK DEF LeavePage, CutOff
  <2> QED BY <1>2, <2>1, BillPreviewOK, ImportCommitOK, WizardUploadOK, WizardPreviewOK,
             WizardCommitOK DEF WizardNext
<1> QED BY <1>1, <1>2 DEF ImportsNext

LEMMA ImportsStutter ==
    ASSUME ImportsInv, UNCHANGED <<reqVars, importVars>> PROVE ImportsInv'
<1>1. UNCHANGED <<pc, loc, raced>> /\ UNCHANGED <<book, saved, shut, cashAccount, balanceTrigger>>
    BY DEF reqVars, importVars
<1>2. RequestsOK' BY <1>1 DEF ImportsInv, RequestsOK, Busy
<1>3. \A q \in Req : HeldAt(pc'[q], loc'[q], book', shut', balanceTrigger')
    BY <1>1 DEF ImportsInv
<1>4. /\ BookOK(book') /\ SavedOK(saved') /\ shut' \subseteq Days /\ cashAccount' \in Texts
    BY <1>1 DEF ImportsInv
<1> QED BY <1>2, <1>3, <1>4 DEF ImportsInv

(* The inductive invariant of the imports. *)
THEOREM ImportsInvariant == ImportsSpec => []ImportsInv
<1>1. ImportsInv /\ [ImportsNext]_<<reqVars, importVars>> => ImportsInv'
    BY ImportsNextOK, ImportsStutter
<1> QED BY <1>1, ImportsInit, PTL DEF ImportsSpec

LEMMA InvImports == ASSUME ImportsInv PROVE ImportsSound
<1>1. book \in Seq(BookRows) /\ Len(book) <= MaxBook /\ SavedOK(saved) /\ shut \subseteq Days
    BY DEF ImportsInv, BookOK
<1>2. ASSUME NEW i \in DOMAIN book
      PROVE  /\ book[i].day \in Days /\ book[i].by \in ImportKind
             /\ book[i].payee \in DOMAIN Normal
             /\ \A k \in DOMAIN book[i].legs : book[i].legs[k].amount \in Nat \ {0}
             /\ RowOK(book, i)
  <2>1. book[i] \in BookRows BY <1>1
  <2>2. /\ book[i].day \in Days /\ book[i].by \in ImportKind
        /\ book[i].payee \in DOMAIN Normal /\ book[i].legs \in BookLegs
      BY <2>1 DEF BookRows
  <2>3. PICK legs \in BookLegs : legs = book[i].legs BY <2>2
  <2>4. \A k \in DOMAIN legs : legs[k].amount \in Nat \ {0}
    <3> DEFINE L == [account : Texts, dir : {"DEBIT", "CREDIT"}, amount : Nat \ {0}]
    <3>1. \A x \in L : x.amount \in Nat \ {0} OBVIOUS
    <3>2. legs \in Seq(L) BY DEF BookLegs
    <3> HIDE DEF L
    <3>3. \A k \in DOMAIN legs : legs[k] \in L BY <3>2
    <3> QED BY <3>1, <3>3
  <2>5. RowOK(book, i) BY DEF ImportsInv, BookOK
  <2> QED BY <2>2, <2>3, <2>4, <2>5
<1>3. ImportsTypeOK BY <1>1, <1>2 DEF ImportsTypeOK, SavedOK
<1>4. ImportedOnce BY <1>2 DEF ImportedOnce, RowOK, NotYet
<1>5. ImportedBalances BY <1>2 DEF ImportedBalances, RowOK, TwoSides
<1> QED BY <1>3, <1>4, <1>5 DEF ImportsSound

(* What handlers/import*.rs and import/pta.rs book, for any files and any  *)
(* pages committed late, again or together, is booked once and has two     *)
(* equal sides: ImportsSound.                                              *)
THEOREM ImportsAreSound == ImportsSpec => []ImportsSound
<1>1. ImportsInv => ImportsSound BY InvImports
<1> QED BY <1>1, ImportsInvariant, PTL

(* A plain-text import that comes to its end has left out no entry that    *)
(* could be booked, whatever it passed over, whichever imports ran beside  *)
(* it and whichever period was closed meanwhile: PlainLeavesNothingOut.    *)
THEOREM PlainLeavesNothingOutAlways == ImportsSpec => PlainLeavesNothingOut
<1> DEFINE Left == \A r \in Req :
             (pc[r] = "plain" /\ loc[r].left = <<>> /\ pc'[r] = "idle") =>
                \A i \in DOMAIN loc[r].start :
                    LET entry == loc[r].start[i] IN
                    (/\ entry.resolves /\ Balanced(entry.legs)
                     /\ InsertsPass(entry.legs, balanceTrigger)
                     /\ entry.day \notin shut) =>
                        \E k \in DOMAIN book : EntryPrint(book[k]) = EntryPrint(entry)
<1>1. ImportsInv => Left
  <2> SUFFICES ASSUME ImportsInv, NEW r \in Req, pc[r] = "plain", loc[r].left = <<>>,
                      NEW i \in DOMAIN loc[r].start,
                      Bookable(loc[r].start[i], shut, balanceTrigger)
               PROVE  \E k \in DOMAIN book : EntryPrint(book[k]) = EntryPrint(loc[r].start[i])
      BY DEF Bookable
  <2>1. PICK d : d = loc[r] OBVIOUS
  <2>2. PlainOK(d, book, shut, balanceTrigger) BY <2>1 DEF ImportsInv, HeldAt
  <2>3. d.start \in Seq(PlainEntries) BY <2>2 DEF PlainOK, PlainRows
  <2>4. PICK n \in Nat : n = Len(d.start) /\ DOMAIN d.start = 1..n BY <2>3
  <2>5. Len(d.left) = 0 BY <2>1
  <2>6. i \in 1..(Len(d.start) - Len(d.left))
    <3>1. i \in 1..n /\ n - 0 = n BY <2>1, <2>4
    <3>2. Len(d.start) - Len(d.left) = n BY <2>4, <2>5, <3>1
    <3> QED BY ONLY <3>1, <3>2
  <2>7. InBook(d.start[i], book) BY <2>1, <2>2, <2>6 DEF PlainOK
  <2> QED BY <2>1, <2>7 DEF InBook
<1>2. ImportsInv => [Left]_<<reqVars, importVars>> BY <1>1
<1> QED BY <1>2, ImportsInvariant, PTL DEF PlainLeavesNothingOut
=============================================================================
