------------------------------ MODULE Imports ------------------------------
(***************************************************************************)
(* Files that become transactions of one ledger: the generic upload of     *)
(* handlers/import.rs with the parsers under import/, the WeChat and       *)
(* Alipay bills of handlers/import_wechat.rs and import_alipay.rs, the CSV *)
(* wizard of handlers/import_wizard.rs, and the plain-text import of       *)
(* import/pta.rs that the command line runs.                               *)
(*                                                                         *)
(* A preview is a page: the rows, their is_duplicate marks included, go to *)
(* the browser and come back with the commit, which may come late, more    *)
(* than once, or never.                                                    *)
(*                                                                         *)
(* A file is a sequence of rows.  The parsers sort bills by date; nothing  *)
(* here depends on the order, so it is left out.  A cell is an amount,     *)
(* Blank, or Malformed for text that is no positive decimal.               *)
(***************************************************************************)
EXTENDS Requests, Legs

CONSTANTS
    Bill,           \* WeChat and Alipay files: kind and rows
    BillOption,     \* include_pending and include_other, as the form sends them
    Statement7,     \* CSV, OFX, QIF and MT940 files: kind and rows
    Plain,          \* plain-text files: entries with their postings
    WizardFile,     \* CSV files for the wizard: columns and lines
    Normal,         \* dedup::normalize_payee, on the payees that occur
    MappingName,    \* names under which a column mapping is saved
    MaxBook         \* bound: transactions in the ledger

VARIABLES
    book,           \* transactions of the ledger, with their postings
    saved,          \* csv_import_mappings, oldest updated_at first
    shut,           \* days whose period is in closed_periods
    cashAccount     \* the account insert_rows finds for cash, or "none"

importVars == <<book, saved, shut, cashAccount, balanceTrigger>>

Blank == 0
Malformed == -1
Days == {"recent", "old"}   \* within 90 days of today, or before that
ImportKind == {"bill", "statement", "wizard", "plain"}

(* The rows of each kind of file.  A date may be missing but for plain     *)
(* text, and plain-text postings are typed in by hand.                     *)
BillRows == [day : STRING, payee : DOMAIN Normal, side : STRING, note : STRING,
             settled : BOOLEAN, amount : Nat \cup {Malformed}]
CsvRows == [day : STRING, payee : DOMAIN Normal, out : Nat \cup {Malformed},
            in : Nat \cup {Malformed}]
SignedRows == [day : STRING, payee : DOMAIN Normal, amount : Int]
PlainLegs == [account : STRING, dir : {"DEBIT", "CREDIT"}, amount : Int]
PlainEntries == [text : STRING, payee : DOMAIN Normal, resolves : BOOLEAN, day : Days,
                 legs : Seq(PlainLegs)]
WizardLines == [day : STRING, payee : DOMAIN Normal, amount : Int, debit : Int, credit : Int]

ASSUME ImportsAssumption ==
    /\ MaxBook \in Nat
    /\ \A bill \in Bill : bill.rows \in Seq(BillRows)
    /\ \A file \in Statement7 :
          file.rows \in IF file.kind = "csv" THEN Seq(CsvRows) ELSE Seq(SignedRows)
    /\ Plain \subseteq Seq(PlainEntries)
    /\ WizardFile \subseteq [columns : SUBSET STRING, lines : Seq(WizardLines)]

InitImports ==
    /\ book = <<>>
    /\ saved = <<>>
    /\ shut = {}
    /\ cashAccount \in {"cash", "none"}
    /\ balanceTrigger \in BOOLEAN

-----------------------------------------------------------------------------
(* The elements of s at the positions at, in their order. *)
Selected(s, at) ==
    [k \in 1..Cardinality(at) |->
        s[CHOOSE i \in at : Cardinality({j \in at : j < i}) = k - 1]]

(* dedup::fingerprint, a hash taken to be free of collisions. *)
Fingerprint(day, cents, payee) == <<day, cents, Normal[payee]>>

(* The fingerprints of one transaction: one per posting. *)
Prints(t) == {Fingerprint(t.day, t.legs[i].amount, t.payee) : i \in DOMAIN t.legs}

(* Fault: the payee is compared as it is stored. *)
ExistingFingerprintsRaw ==
    UNION {{<<book[i].day, book[i].legs[k].amount, book[i].payee>> :
                k \in DOMAIN book[i].legs} :
           i \in {i \in DOMAIN book : book[i].day = "recent"}}

(* existing_fingerprints of handlers/import_wechat.rs *)
ExistingFingerprints ==
    UNION {Prints(book[i]) : i \in {i \in DOMAIN book : book[i].day = "recent"}}

(* The rows of a bill that a parser looks at: settled ones unless          *)
(* include_pending is set, and of the rows that are neither income nor     *)
(* expense only Alipay's, when include_other is set.                       *)
Reads(kind, row, opt) ==
    /\ row.settled \/ opt.pending
    /\ \/ row.side \in {"in", "out"}
       \/ kind = "alipay" /\ row.side = "other" /\ opt.other
Takes(kind, row, opt) ==
    /\ Reads(kind, row, opt)
    /\ row.side = "other" => row.note \in {"refund", "fund"}
Incoming(row) == row.side = "in" \/ (row.side = "other" /\ row.note = "refund")

(* parse_str: a malformed amount in a row it reads fails the whole file. *)
ParseFails(bill, opt) ==
    \E i \in DOMAIN bill.rows :
        /\ Reads(bill.kind, bill.rows[i], opt)
        /\ bill.rows[i].amount = Malformed

ParsedBill(bill, opt, known) ==
    LET kept == Selected(bill.rows,
                    {i \in DOMAIN bill.rows : Takes(bill.kind, bill.rows[i], opt)})
        parsed(row) ==
            [day |-> row.day, payee |-> row.payee,
             out |-> IF Incoming(row) THEN Blank ELSE row.amount,
             in |-> IF Incoming(row) THEN row.amount ELSE Blank,
             dup |-> Fingerprint(row.day, row.amount, row.payee) \in known]
    IN  [i \in DOMAIN kept |-> parsed(kept[i])]

(* A page with rows on it; seen is the length of the book it was made from. *)
Page(kind, rows) == [on |-> "import", kind |-> kind, rows |-> rows, seen |-> Len(book)]

(* preview and render_wechat_preview, render_alipay_preview.  The generic  *)
(* upload recognises a bill by its first line and renders the same page    *)
(* with both options off.                                                  *)
BillPreview(r, bill, opt) ==
    /\ ~ParseFails(bill, opt)
    /\ Begin(r, "preview", Page("bill", ParsedBill(bill, opt, ExistingFingerprints)))
    /\ UNCHANGED importVars

(* The 7-column CSV has its two amount columns; OFX, QIF and MT940 have a  *)
(* signed amount, and an entry without one is dropped.                     *)
StatementRows(file) ==
    LET given == Selected(file.rows,
                    {i \in DOMAIN file.rows : file.kind = "csv" \/ file.rows[i].amount # Blank})
        parsed(row) ==
            [day |-> row.day, payee |-> row.payee, dup |-> FALSE,
             out |-> IF file.kind = "csv" THEN row.out
                     ELSE IF row.amount < 0 THEN -row.amount ELSE Blank,
             in |-> IF file.kind = "csv" THEN row.in
                    ELSE IF row.amount > 0 THEN row.amount ELSE Blank]
    IN  [i \in DOMAIN given |-> parsed(given[i])]

(* upload: none of these rows is ever marked as a duplicate. *)
StatementUpload(r, file) ==
    /\ Begin(r, "preview", Page("statement", StatementRows(file)))
    /\ UNCHANGED importVars

-----------------------------------------------------------------------------
(* insert_rows takes a row with a date and exactly one positive amount. *)
RowIsGood(row) ==
    /\ row.day \in Days
    /\ (row.out = Blank) # (row.in = Blank)
    /\ row.out # Malformed /\ row.in # Malformed

(* Cash in debits the cash account, cash out credits it. *)
RowLegs(row, cash, other) ==
    IF row.out # Blank
    THEN <<Debit(other, row.out), Credit(cash, row.out)>>
    ELSE <<Debit(cash, row.in), Credit(other, row.in)>>

(* A transaction as the import d books it: late says that the book has     *)
(* changed since the page was made, batch where this commit began.         *)
Booked(d, day, payee, legs, skip) ==
    [day |-> day, payee |-> payee, legs |-> legs, by |-> d.kind, skip |-> skip,
     text |-> "row", late |-> d.seen # Len(book), batch |-> Len(book)]

(* confirm and the commits of the bills: insert_rows in one database       *)
(* transaction.  A row that is not good rolls all of them back.  confirm   *)
(* posts both legs to its one account when it finds no cash account.       *)
ImportCommit(r, skip) ==
    /\ pc[r] = "preview"
    /\ LET d == loc[r]
           rows == Selected(d.rows, {i \in DOMAIN d.rows : ~(skip /\ d.rows[i].dup)})
           other == IF d.kind = "bill" THEN "expense" ELSE "fallback"
           cash == IF cashAccount = "none" THEN "fallback" ELSE cashAccount
           made == [i \in DOMAIN rows |->
                       Booked(d, rows[i].day, rows[i].payee,
                              RowLegs(rows[i], cash, other), skip)]
       IN  \/ /\ \A i \in DOMAIN rows : RowIsGood(rows[i])
              /\ Len(book) + Len(rows) <= MaxBook
              /\ book' = book \o made
           \/ /\ \E i \in DOMAIN rows : ~RowIsGood(rows[i])
              /\ UNCHANGED book
    /\ UNCHANGED <<pc, loc, raced, saved, shut, cashAccount, balanceTrigger>>

-----------------------------------------------------------------------------
(* A mapping says in which column the wizard finds the money. *)
Mapping(debit, credit, amount_in) ==
    [debit |-> debit, credit |-> credit, amount_in |-> amount_in]

(* auto_detect *)
AutoDetect(columns) ==
    Mapping("debit" \in columns, "credit" \in columns,
            "amount" \in columns /\ columns \cap {"debit", "credit"} = {})

(* SavedMapping::column_map: amount_in does not come back. *)
ColumnMap(row) == [row.map EXCEPT !.amount_in = FALSE]

(* transform, on one line: text that is no number counts as zero. *)
LineAmount(line, map) ==
    IF map.amount_in THEN line.amount
    ELSE (IF map.debit THEN line.debit ELSE 0) - (IF map.credit THEN line.credit ELSE 0)

(* handle_upload: the latest saved mapping whose pattern matches the fixed *)
(* name upload.csv is preferred to the one detected.                       *)
WizardUpload(r, file) ==
    /\ LET matching == {i \in DOMAIN saved : saved[i].matches}
           map == IF matching = {} THEN AutoDetect(file.columns)
                  ELSE ColumnMap(saved[Max(matching)])
       IN  Begin(r, "wizard",
                 [on |-> "import", kind |-> "wizard", seen |-> Len(book), file |-> file,
                  map |-> map])
    /\ UNCHANGED importVars

(* handle_preview: the user keeps the mapping or picks the columns, and    *)
(* may save it under a name; save_mapping replaces the row of that name.   *)
WizardPreview(r, picks) ==
    /\ pc[r] = "wizard"
    /\ LET d == loc[r]
           map == IF picks THEN AutoDetect(d.file.columns) ELSE d.map
           kept(n) == Selected(saved, {i \in DOMAIN saved : saved[i].name # n})
       IN  /\ \/ UNCHANGED saved
              \/ \E n \in MappingName, matches \in BOOLEAN :
                     saved' = Append(kept(n), [name |-> n, map |-> map, matches |-> matches])
           /\ Goto(r, "wizard", [d EXCEPT !.map = map])
    /\ UNCHANGED <<book, shut, cashAccount, balanceTrigger>>

(* handle_commit: one posting per line with money, on Bank Account, and    *)
(* none for a line without; lines without a date are left out.             *)
WizardCommit(r) ==
    /\ pc[r] = "wizard"
    /\ LET d == loc[r]
           lines == Selected(d.file.lines,
                             {i \in DOMAIN d.file.lines : d.file.lines[i].day \in Days})
           legs(n) == IF n = 0 THEN <<>>
                      ELSE IF n < 0 THEN <<Credit("bank", -n)>> ELSE <<Debit("bank", n)>>
           made == [i \in DOMAIN lines |->
                       Booked(d, lines[i].day, lines[i].payee,
                              legs(LineAmount(lines[i], d.map)), FALSE)]
       IN  /\ lines # <<>>
           /\ Len(book) + Len(lines) <= MaxBook
           /\ book' = book \o made
    /\ UNCHANGED <<pc, loc, raced, saved, shut, cashAccount, balanceTrigger>>

-----------------------------------------------------------------------------
(* PtaTxn::fingerprint, and existing_fingerprints of import/pta.rs *)
EntryPrint(t) == <<t.day, t.text, t.payee, Total(t.legs, "DEBIT") + Total(t.legs, "CREDIT")>>
ExistingEntries ==
    {EntryPrint(book[i]) : i \in {i \in DOMAIN book : book[i].legs # <<>>}}

(* pta::import reads the ledger once, then goes through the file. *)
PlainBegin(r, file) ==
    /\ Begin(r, "plain", [on |-> "import", kind |-> "plain", seen |-> Len(book),
                          left |-> file, start |-> file, batch |-> Len(book),
                          own |-> 0, known |-> ExistingEntries])
    /\ UNCHANGED importVars

(* Its accounts are all known, it balances, and it is not in the ledger. *)
EntryIsGood(entry, known) ==
    /\ entry.resolves
    /\ Balanced(entry.legs)
    /\ EntryPrint(entry) \notin known

(* The next entry is passed over, refused by insert_txn because its period *)
(* is closed, or goes to the insert.                                       *)
PlainEntry(r) ==
    /\ pc[r] = "plain" /\ loc[r].left # <<>>
    /\ LET d == loc[r]
           entry == Head(d.left)
       IN  IF EntryIsGood(entry, d.known) /\ entry.day \notin shut
           THEN Goto(r, "plain insert", d)
           ELSE Goto(r, "plain", [d EXCEPT !.left = Tail(@)])
    /\ UNCHANGED importVars

(* Fault: the first entry that fails ends the import. *)
PlainInsertStops(r) ==
    /\ pc[r] = "plain insert"
    /\ LET d == loc[r]
           entry == Head(d.left)
           pass == InsertsPass(entry.legs, balanceTrigger)
       IN  /\ ~pass
           /\ Goto(r, "plain", [d EXCEPT !.left = <<>>])
    /\ UNCHANGED importVars

(* insert_txn: one database transaction per entry; a failure is reported   *)
(* and the file goes on.                                                   *)
PlainInsert(r) ==
    /\ pc[r] = "plain insert"
    /\ LET d == loc[r]
           entry == Head(d.left)
           pass == InsertsPass(entry.legs, balanceTrigger)
       IN  /\ IF pass
              THEN /\ Len(book) < MaxBook
                   /\ book' = Append(book,
                        [day |-> entry.day, payee |-> entry.payee, legs |-> entry.legs,
                         by |-> "plain", late |-> d.seen + d.own # Len(book),
                         batch |-> d.batch, skip |-> TRUE, text |-> entry.text])
              ELSE UNCHANGED book
           /\ Goto(r, "plain", [d EXCEPT !.left = Tail(@),
                                         !.own = @ + (IF pass THEN 1 ELSE 0)])
    /\ UNCHANGED <<saved, shut, cashAccount, balanceTrigger>>

PlainEnd(r) ==
    /\ pc[r] = "plain" /\ loc[r].left = <<>>
    /\ End(r)
    /\ UNCHANGED importVars

(* The year of a day is closed by handlers/closing.rs meanwhile. *)
ShutPeriod(day) ==
    /\ shut' = shut \cup {day}
    /\ UNCHANGED <<pc, loc, raced, book, saved, cashAccount, balanceTrigger>>

(* The page is left, or the command stopped. *)
LeavePage(r) == CutOff(r) /\ UNCHANGED importVars

FilesNext ==
    \/ \E r \in Req :
        \/ \E bill \in Bill, opt \in BillOption : BillPreview(r, bill, opt)
        \/ \E file \in Statement7 : StatementUpload(r, file)
        \/ \E skip \in BOOLEAN : ImportCommit(r, skip)
        \/ \E file \in Plain : PlainBegin(r, file)
        \/ PlainEntry(r) \/ PlainInsert(r) \/ PlainEnd(r)
        \/ LeavePage(r)
    \/ \E day \in Days : ShutPeriod(day)

(* The wizard beside bills: only these two meet in one state space, so that *)
(* the saved mappings are not multiplied by the plain-text imports.         *)
WizardNext ==
    \E r \in Req :
        \/ \E bill \in Bill, opt \in BillOption : BillPreview(r, bill, opt)
        \/ \E skip \in BOOLEAN : ImportCommit(r, skip)
        \/ \E file \in WizardFile : WizardUpload(r, file)
        \/ \E picks \in BOOLEAN : WizardPreview(r, picks)
        \/ WizardCommit(r)
        \/ LeavePage(r)

ImportsNext == FilesNext \/ WizardNext

ImportsSpec == InitRequests /\ InitImports /\ [][ImportsNext]_<<reqVars, importVars>>

-----------------------------------------------------------------------------
(* The types of the ledger's rows, whichever import wrote them. *)
ImportsTypeOK ==
    /\ Len(book) <= MaxBook
    /\ \A i \in DOMAIN book :
        /\ book[i].day \in Days /\ book[i].by \in ImportKind
        /\ book[i].payee \in DOMAIN Normal
        /\ \A k \in DOMAIN book[i].legs : book[i].legs[k].amount \in Nat \ {0}
    /\ \A i, k \in DOMAIN saved : saved[i].name = saved[k].name => i = k
    /\ shut \subseteq Days

(* A row of a bill that is committed with skip_duplicates, from a page that *)
(* is not older than the last import, and an entry of a plain-text file     *)
(* are never booked when the ledger already had them before this import     *)
(* began: the fingerprint the parser takes of a row is the one the ledger's *)
(* own rows give, whoever wrote them (existing_fingerprints).  Bills are    *)
(* compared with the last 90 days only.                                     *)
ImportedOnce ==
    \A i \in DOMAIN book :
        LET t == book[i] IN
        (t.skip /\ ~t.late) =>
            \A j \in 1..t.batch :
                /\ t.by = "bill" /\ t.day = "recent" => Prints(t) \cap Prints(book[j]) = {}
                /\ t.by = "plain" /\ book[j].legs # <<>> => EntryPrint(t) # EntryPrint(book[j])

(* What insert_rows and insert_txn book has two sides of the same amount,   *)
(* also while trg_posting_balance is off; only a plain-text entry without   *)
(* postings has none.                                                       *)
ImportedBalances ==
    \A i \in DOMAIN book :
        book[i].by # "wizard" =>
            /\ Balanced(book[i].legs)
            /\ Len(book[i].legs) >= 2 \/ (book[i].by = "plain" /\ book[i].legs = <<>>)

(* When a plain-text import comes to its end, each entry that can be booked *)
(* is in the ledger, whatever happened to the entries before it and however *)
(* often the import had been stopped and started again.                     *)
PlainLeavesNothingOut ==
    [][\A r \in Req :
        (pc[r] = "plain" /\ loc[r].left = <<>> /\ pc'[r] = "idle") =>
            \A i \in DOMAIN loc[r].start :
                LET entry == loc[r].start[i] IN
                (/\ entry.resolves /\ Balanced(entry.legs)
                 /\ InsertsPass(entry.legs, balanceTrigger)
                 /\ entry.day \notin shut) =>
                    \E k \in DOMAIN book : EntryPrint(book[k]) = EntryPrint(entry)
      ]_<<reqVars, importVars>>

(* What is imported is booked once, with two equal sides. *)
ImportsSound ==
    /\ ImportsTypeOK
    /\ ImportedOnce
    /\ ImportedBalances
=============================================================================
