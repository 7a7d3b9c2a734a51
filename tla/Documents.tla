----------------------------- MODULE Documents -----------------------------
(***************************************************************************)
(* Uploaded documents: handlers/documents.rs, api/documents.rs, upload.rs, *)
(* the store (storage/filesystem.rs) and the reading of receipts           *)
(* (handlers/document_ocr.rs).  A document is a row of the database and a  *)
(* file of the store, and no transaction covers both.                      *)
(***************************************************************************)
EXTENDS Requests

CONSTANTS
    Paper,          \* ids of documents, each with its stored name
    PaperTxn,       \* transactions documents are attached to
    Upload,         \* what is sent: declared type, type found, extension
    AllowedMime,    \* ALLOWED_MIME of handlers/documents.rs
    ApiMime,        \* ALLOWED_MIME of api/documents.rs
    ExtensionWins,  \* extension -> type, for the office formats
    MaxOcr          \* bound: OCR tasks of a document at a time

(* The list of the REST interface is shorter; the office formats that win  *)
(* by their extension are on the list of the web.                          *)
ASSUME DocumentsAssumption ==
    /\ "none" \notin PaperTxn
    /\ "rejected" \notin AllowedMime
    /\ ApiMime \subseteq AllowedMime
    /\ \A ext \in DOMAIN ExtensionWins : ExtensionWins[ext] \in AllowedMime
    /\ MaxOcr \in Nat \ {0}

VARIABLES
    paper,          \* the documents rows: [txn, mime, sent]
    blob,           \* the files in the store
    liveTxn,        \* transactions that exist
    ocrTask,        \* OCR tasks spawned and not finished
    ocr,            \* document_ocr_results: "none", "done" or "failed"
    removal         \* history: documents whose REST removal has begun

docVars == <<paper, blob, liveTxn, ocrTask, ocr, removal>>

NoPaper == [txn |-> "none"]
Inbox == "inbox"
Filed(d) == paper[d] # NoPaper
Used(d) == Filed(d) \/ d \in blob \/ WorkingOn(d) # {} \/ d \in removal

InitDocuments ==
    /\ paper = [d \in Paper |-> NoPaper]
    /\ blob = {}
    /\ liveTxn = PaperTxn
    /\ ocrTask = [d \in Paper |-> 0]
    /\ ocr = [d \in Paper |-> "none"]
    /\ removal = {}

-----------------------------------------------------------------------------
Rejected == "rejected"

(* upload::validate: the type to store, of a body that is not empty. *)
Validate(u) ==
    IF u.declared = "csv" THEN "csv"
    ELSE IF u.ext \in DOMAIN ExtensionWins /\ u.found = ExtensionWins[u.ext] THEN u.found
    ELSE IF u.found = u.declared THEN u.found
    ELSE IF u.found = "unknown" /\ u.declared = "plain" THEN "plain" ELSE Rejected

Sending(r, d, t, u, ocrToo) ==
    /\ ~Used(d)
    /\ Begin(r, "file", [on |-> d, txn |-> t, sent |-> u, ocr |-> ocrToo])
    /\ UNCHANGED docVars

(* upload, to a transaction of the ledger: checks, then the file ... *)
UploadBegin(r, d, t, u) ==
    /\ t \in liveTxn /\ u.declared \in AllowedMime /\ Validate(u) \in AllowedMime
    /\ \E ocrToo \in BOOLEAN : Sending(r, d, t, u, ocrToo)        \* ?ocr=false

(* upload_unbound, to the inbox: the type found has to be allowed. *)
UploadUnbound(r, d, u) ==
    Validate(u) \in AllowedMime /\ Sending(r, d, Inbox, u, FALSE)

(* create of the REST interface: the declared type has to be. *)
ApiDocumentCreate(r, d, t, u) ==
    /\ t \in liveTxn /\ u.declared \in ApiMime /\ Validate(u) # Rejected
    /\ Sending(r, d, t, u, FALSE)

(* save_inline_document, to a transaction the form has just created. *)
SaveInlineDocument(r, d, t, u) ==
    /\ t \in liveTxn /\ Validate(u) \in AllowedMime
    /\ Sending(r, d, t, u, FALSE)

UploadFile(r) ==
    /\ pc[r] = "file"
    /\ blob' = blob \cup {loc[r].on}
    /\ Goto(r, "row", loc[r])
    /\ UNCHANGED <<paper, liveTxn, ocrTask, ocr, removal>>

(* Fault: the row is written although its transaction has been deleted. *)
UploadRowUnbound(r) ==
    /\ pc[r] = "row"
    /\ paper' = [paper EXCEPT ![loc[r].on] =
          [txn |-> loc[r].txn, mime |-> Validate(loc[r].sent), sent |-> loc[r].sent]]
    /\ End(r)
    /\ UNCHANGED <<blob, liveTxn, ocrTask, ocr, removal>>

(* ... then the row, which the foreign key refuses if the transaction is   *)
(* gone.  Tags, the quota warning and the audit entry follow; upload hands *)
(* an image or a PDF to an OCR task.                                       *)
UploadRow(r) ==
    /\ pc[r] = "row"
    /\ LET d == loc[r].on
           t == loc[r].txn
           mime == Validate(loc[r].sent)
       IN  IF t \in liveTxn \cup {Inbox}
           THEN /\ paper' = [paper EXCEPT ![d] = [txn |-> t, mime |-> mime, sent |-> loc[r].sent]]
                /\ ocrTask' = IF loc[r].ocr /\ mime = "image"
                               THEN [ocrTask EXCEPT ![d] = 1] ELSE ocrTask
           ELSE UNCHANGED <<paper, ocrTask>>
    /\ End(r)
    /\ UNCHANGED <<blob, liveTxn, ocr, removal>>

(* bind_document: unbound, and a transaction of the ledger, as read. *)
BindRead(r, d, t) ==
    /\ paper[d].txn = Inbox /\ t \in liveTxn
    /\ Begin(r, "bind", [on |-> d, txn |-> t])
    /\ UNCHANGED docVars

BindWrite(r) ==
    /\ pc[r] = "bind"
    /\ LET d == loc[r].on
       IN  paper' = IF Filed(d) /\ loc[r].txn \in liveTxn
                    THEN [paper EXCEPT ![d].txn = loc[r].txn] ELSE paper
    /\ End(r)
    /\ UNCHANGED <<blob, liveTxn, ocrTask, ocr, removal>>

Unfile(gone) ==
    /\ paper' = [d \in Paper |-> IF d \in gone THEN NoPaper ELSE paper[d]]
    /\ ocr' = [d \in Paper |-> IF d \in gone THEN "none" ELSE ocr[d]]

(* delete, of the web: the row, and the OCR result with it.  The file      *)
(* stays.                                                                  *)
Delete(r, d) ==
    /\ Filed(d)
    /\ Unfile({d})
    /\ Serve(r, d)
    /\ UNCHANGED <<blob, liveTxn, ocrTask, removal>>

(* remove, of the REST interface: the row of a bound document is read ...  *)
RemoveRead(r, d) ==
    /\ Filed(d) /\ paper[d].txn # Inbox
    /\ Begin(r, "remove_file", [on |-> d])
    /\ removal' = removal \cup {d}
    /\ UNCHANGED <<paper, blob, liveTxn, ocrTask, ocr>>

(* ... the file is deleted (one that is gone is no error), then the row. *)
RemoveFile(r) ==
    /\ pc[r] = "remove_file"
    /\ blob' = blob \ {loc[r].on}
    /\ Goto(r, "remove_row", loc[r])
    /\ UNCHANGED <<paper, liveTxn, ocrTask, ocr, removal>>

RemoveRow(r) ==
    /\ pc[r] = "remove_row"
    /\ Unfile({loc[r].on})
    /\ End(r)
    /\ UNCHANGED <<blob, liveTxn, ocrTask, removal>>

(* A transaction is deleted (delete_draft, bulk delete): ON DELETE CASCADE *)
(* takes the rows and leaves the files.                                    *)
DeleteTransaction(t) ==
    /\ t \in liveTxn
    /\ liveTxn' = liveTxn \ {t}
    /\ Unfile({d \in Paper : paper[d].txn = t})
    /\ UNCHANGED <<reqVars, blob, ocrTask, removal>>

(* document_ocr::run: a bound document whose file can be read. *)
OcrRun(r, d) ==
    /\ Filed(d) /\ paper[d].txn # Inbox /\ d \in blob
    /\ ocrTask[d] < MaxOcr
    /\ ocrTask' = [ocrTask EXCEPT ![d] = @ + 1]
    /\ Serve(r, d)
    /\ UNCHANGED <<paper, blob, liveTxn, ocr, removal>>

(* The end of an OCR task: an upsert, which the foreign key refuses, with  *)
(* nobody told, if the document is gone.                                   *)
OcrFinish(d, result) ==
    /\ ocrTask[d] > 0
    /\ ocrTask' = [ocrTask EXCEPT ![d] = @ - 1]
    /\ ocr' = IF Filed(d) THEN [ocr EXCEPT ![d] = result] ELSE ocr
    /\ UNCHANGED <<reqVars, paper, blob, liveTxn, removal>>

(* The process ends: its OCR tasks are gone for good. *)
OcrTasksLost ==
    /\ ocrTask # [d \in Paper |-> 0]
    /\ ocrTask' = [d \in Paper |-> 0]
    /\ UNCHANGED <<reqVars, paper, blob, liveTxn, ocr, removal>>

DocumentsCutOff(r) == CutOff(r) /\ UNCHANGED docVars

DocumentStep(r) ==
    \/ UploadFile(r) \/ UploadRow(r) \/ BindWrite(r) \/ RemoveFile(r) \/ RemoveRow(r)
    \/ \E d \in Paper :
          \/ \E t \in PaperTxn, u \in Upload :
                UploadBegin(r, d, t, u) \/ ApiDocumentCreate(r, d, t, u)
                    \/ SaveInlineDocument(r, d, t, u)
          \/ \E u \in Upload : UploadUnbound(r, d, u)
          \/ \E t \in PaperTxn : BindRead(r, d, t)
          \/ Delete(r, d) \/ RemoveRead(r, d) \/ OcrRun(r, d)

DocumentsNext ==
    \/ \E r \in Req : DocumentStep(r) \/ DocumentsCutOff(r)
    \/ \E d \in Paper, result \in {"done", "failed"} : OcrFinish(d, result)
    \/ \E t \in PaperTxn : DeleteTransaction(t)
    \/ OcrTasksLost

DocumentsSpec ==
    InitRequests /\ InitDocuments /\ [][DocumentsNext]_<<reqVars, docVars>>

-----------------------------------------------------------------------------
(* A document is in the inbox or belongs to a transaction that exists, and  *)
(* has one of the types an upload may have.                                 *)
DocumentsTypeOK ==
    /\ blob \subseteq Paper /\ liveTxn \subseteq PaperTxn
    /\ \A d \in Paper :
          /\ ocrTask[d] \in 0..MaxOcr /\ ocr[d] \in {"none", "done", "failed"}
          /\ Filed(d) => paper[d].txn \in liveTxn \cup {Inbox} /\ paper[d].mime \in AllowedMime

(* A document that is listed can be downloaded: upload writes the file     *)
(* before it inserts the row, whatever is cut off half way.  (documents/   *)
(* spec.md has the row inserted first, with which a cut off upload would   *)
(* list a document that has no file; the code leaves a file without a row  *)
(* instead.)  Only a REST removal takes the file first                     *)
(* (api/documents.rs::remove).                                             *)
FiledHasFile == \A d \in Paper \ removal : Filed(d) => d \in blob

(* A document is served with the type its bytes have: an upload renamed or *)
(* declared as something else is refused, but for CSV and for text nothing *)
(* is known about (upload.rs::validate).                                   *)
ServedAsItIs ==
    \A d \in Paper : Filed(d) =>
        \/ paper[d].mime = paper[d].sent.found
        \/ paper[d].mime = "csv" /\ paper[d].sent.declared = "csv"
        \/ paper[d].mime = "plain" /\ paper[d].sent.found = "unknown"

(* A result of OCR never outlives its document, though tasks end after the *)
(* document is deleted and the process may end first.                      *)
OcrHasDocument == \A d \in Paper : ocr[d] # "none" => Filed(d)

(* A document, its file and its text go together. *)
DocumentsSound ==
    /\ DocumentsTypeOK
    /\ FiledHasFile
    /\ ServedAsItIs
    /\ OcrHasDocument
=============================================================================
