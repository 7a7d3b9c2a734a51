---------------------------- MODULE Interchange ----------------------------
(***************************************************************************)
(* Export of a ledger (export/mod.rs, export/beancount.rs,                 *)
(* export/hledger.rs, handlers/export.rs) and the way back through the     *)
(* plain-text importers (import/beancount.rs, import/hledger.rs,           *)
(* import/pta.rs).                                                         *)
(*                                                                         *)
(* A file is a sequence of lines and a line of tokens; what a line says is *)
(* kept, its layout is not.  A name is a sequence of one word, or of two   *)
(* words with what stands between them.  A leg has a signed amount, which  *)
(* is the convention of both formats: debits are positive.  Entries of     *)
(* none and of more than two legs are met in module Imports.               *)
(***************************************************************************)
EXTENDS Requests, Sequences, SequencesExt

CONSTANTS
    AcctNames,      \* names of accounts of the exported ledger
    TargetCharts,   \* charts of ledgers that files are imported into
    LastIxDay,      \* days are 1..LastIxDay
    IxTexts,        \* payee and description, as one
    Currencies,     \* currencies of entries
    BaseCurrency,   \* base_currency of the other ledger
    MaxSource,      \* bound: entries of the exported ledger
    MaxTarget       \* bound: entries of the other ledger

VARIABLES
    names,          \* accounts of the exported ledger
    source,         \* its transactions, in the order of their creation
    file,           \* the last file made, or NoFile
    targetChart,    \* accounts of the other ledger
    target,         \* its transactions
    refused         \* history: entries whose INSERTs failed, by fingerprint

ixVars == <<names, source, file, targetChart, target, refused>>

NoFile == [format |-> "none"]

InitInterchange ==
    /\ names = {} /\ source = <<>> /\ target = <<>> /\ refused = {}
    /\ file = NoFile
    /\ targetChart \in TargetCharts

-----------------------------------------------------------------------------
(* Names. *)

(* beancount_account_name, and the same mapping in resolve_account. *)
Mangle(n) == IF Len(n) = 3 /\ n[2] \in {" ", "-", ":"} THEN <<n[1], "_", n[3]>> ELSE n

(* unmangle_account_name *)
Unmangle(n) == IF Len(n) = 3 /\ n[2] = "_" THEN <<n[1], " ", n[3]>> ELSE n

(* The part after the last colon, if there is one. *)
TailOf(n) == IF Len(n) = 3 /\ n[2] = ":" THEN <<n[3]>> ELSE n

(* resolve_account: the first of the candidates, each also mangled, that   *)
(* names an account; {} for none.                                          *)
ResolveAccount(chart, n) ==
    LET tries == <<n, Mangle(n), TailOf(n), Mangle(TailOf(n)),
                   Unmangle(n), Mangle(Unmangle(n))>>
        found == SelectSeq(tries, LAMBDA t : t \in chart)
    IN  IF found = <<>> THEN {} ELSE {Head(found)}

-----------------------------------------------------------------------------
(* The exported ledger goes on while it is exported. *)

AddAccount(n) ==
    /\ n \notin names
    /\ names' = names \cup {n}
    /\ UNCHANGED <<reqVars, source, file, targetChart, target, refused>>

PostEntry(day, text, currency, from, to) ==
    /\ Len(source) < MaxSource /\ from # to /\ {from, to} \subseteq names
    /\ source' = Append(source, [day |-> day, text |-> text, currency |-> currency,
                                 legs |-> <<[name |-> to, amount |-> 1],
                                            [name |-> from, amount |-> -1]>>])
    /\ UNCHANGED <<reqVars, names, file, targetChart, target, refused>>

-----------------------------------------------------------------------------
(* LedgerSnapshot::load. *)

(* BEGIN and the first statements: REPEATABLE READ fixes the snapshot of   *)
(* the ones that follow.                                                   *)
LoadAccounts(r, format) ==
    /\ Begin(r, "load rows",
             [on |-> "export", format |-> format, names |-> names, seen |-> source])
    /\ UNCHANGED ixVars

(* Transactions and postings, of the same snapshot; drafts are among them. *)
LoadRows(r) == [names |-> loc[r].names, rows |-> loc[r].seen]

(* By day, then by creation. *)
InDateOrder(rows) ==
    FlattenSeq([d \in 1..LastIxDay |-> SelectSeq(rows, LAMBDA t : t.day = d)])

UsedOn(rows, n) ==
    {rows[i].day : i \in {i \in DOMAIN rows :
                            \E k \in DOMAIN rows[i].legs : rows[i].legs[k].name = n}}
Days1(rows) == {rows[i].day : i \in DOMAIN rows}
Earliest(days) == IF days = {} THEN 0 ELSE CHOOSE d \in days : \A e \in days : d <= e

(* first_use: its earliest entry, or that of the ledger (0: the day the    *)
(* ledger was created).                                                    *)
FirstUse(rows, n) ==
    IF UsedOn(rows, n) = {} THEN Earliest(Days1(rows)) ELSE Earliest(UsedOn(rows, n))

(* A leg whose account is not in the snapshot is one of "Unknown". *)
NameIn(snap, n) == IF n \in snap.names THEN Mangle(n) ELSE <<"Unknown">>

(* render of export/beancount.rs: options and commodities, which the       *)
(* importer skips, are left out.  An account gets an open with its mangled *)
(* name and no root before it; two whose names mangle alike get two.       *)
RenderBeancount(snap) ==
    LET opens == [i \in 1..Cardinality(snap.names) |->
                     LET n == SetToSeq(snap.names)[i]
                     IN  [k |-> "open", day |-> FirstUse(snap.rows, n), name |-> Mangle(n)]]
        block(t) == <<[k |-> "txn", day |-> t.day, text |-> t.text]>> \o
                    [i \in DOMAIN t.legs |->
                        [k |-> "leg", name |-> NameIn(snap, t.legs[i].name),
                         amount |-> t.legs[i].amount, currency |-> t.currency]]
    IN  opens \o FoldLeft(LAMBDA lines, t : lines \o block(t), <<>>, InDateOrder(snap.rows))

(* render of export/hledger.rs: a row per transaction, with raw names and  *)
(* no currencies.                                                          *)
(* The csv writer is not flexible: a row that is not as wide as the header *)
(* has its cells written and fails before its line end, which `let _ =`    *)
(* drops.  So the rows make one record.                                    *)
RenderHledger(snap) ==
    LET cells(t) == <<[k |-> "day", day |-> t.day], [k |-> "text", text |-> t.text],
                      [k |-> "payee"]>> \o
                    FlattenSeq([i \in DOMAIN t.legs |->
                        <<[k |-> "name", name |-> t.legs[i].name],
                          [k |-> "amount", amount |-> t.legs[i].amount]>>])
    IN  FoldLeft(LAMBDA record, t : record \o cells(t), <<>>, InDateOrder(snap.rows))

(* export_beancount and the export command: the file is the snapshot's. *)
WriteExport(r) ==
    /\ pc[r] = "load rows"
    /\ LET snap == LoadRows(r)
       IN  file' = [format |-> loc[r].format, of |-> snap.rows,
                    names |-> snap.names,
                    lines |-> IF loc[r].format = "beancount" THEN RenderBeancount(snap)
                              ELSE RenderHledger(snap)]
    /\ End(r)
    /\ UNCHANGED <<names, source, targetChart, target, refused>>

-----------------------------------------------------------------------------
(* The way back. *)

(* parse of import/beancount.rs: a header closes the transaction before    *)
(* it, as does any other directive, and the end of the file the last one.  *)
(* The currency of a leg is not kept.                                      *)
ParseBeancount(lines) ==
    LET step(got, line) ==
            CASE line.k = "txn" -> [open |-> <<[day |-> line.day, text |-> line.text,
                                                legs |-> <<>>]>>,
                                    done |-> got.done \o got.open]
              [] line.k = "leg" -> [got EXCEPT !.open[1].legs =
                                       Append(@, [name |-> line.name, amount |-> line.amount])]
              [] OTHER -> [open |-> <<>>, done |-> got.done \o got.open]
        end == FoldLeft(step, [open |-> <<>>, done |-> <<>>], lines)
    IN  end.done \o end.open

(* parse of import/hledger.rs takes three cells and then pairs; a name     *)
(* where an amount should be is an error, and an error ends the import.    *)
HledgerParses(cells) ==
    \/ cells = <<>>
    \/ /\ Len(cells) >= 4 /\ (Len(cells) - 3) % 2 = 0
       /\ \A i \in 4..Len(cells) : i % 2 = 1 => cells[i].k = "amount"

ParseHledger(cells) ==
    IF cells = <<>> THEN <<>>
    ELSE <<[day |-> cells[1].day, text |-> cells[2].text,
            legs |-> [i \in 1..((Len(cells) - 3) \div 2) |->
                         [name |-> cells[2 * i + 2].name, amount |-> cells[2 * i + 3].amount]]]>>

Parsed(f) == IF f.format = "beancount" THEN ParseBeancount(f.lines) ELSE ParseHledger(f.lines)

(* PtaTxn::fingerprint: day, texts, and the total of the amounts. *)
PtaPrint(t) ==
    <<t.day, t.text,
      FoldLeft(LAMBDA s, l : s + (IF l.amount < 0 THEN -l.amount ELSE l.amount), 0, t.legs)>>

(* Fault: only the entries of the first day are compared. *)
KnownPrintsOld == {PtaPrint(target[i]) : i \in {i \in DOMAIN target : target[i].day = 1}}

(* existing_fingerprints *)
KnownPrints == {PtaPrint(target[i]) : i \in DOMAIN target}

(* import: the file, the accounts and the fingerprints, once. *)
ImportFile(r) ==
    /\ file # NoFile /\ (file.format = "hledger" => HledgerParses(file.lines))
    /\ Begin(r, "pta import", [on |-> "import", left |-> Parsed(file), of |-> file.of,
                           known |-> KnownPrints])
    /\ UNCHANGED ixVars

(* insert_txn writes the entry in the base currency of the ledger. *)
Inserted(t, to) ==
    [day |-> t.day, text |-> t.text, currency |-> BaseCurrency,
     legs |-> [i \in DOMAIN t.legs |-> [name |-> to[i], amount |-> t.legs[i].amount]]]

(* An entry goes in when its accounts are found, it balances, it is not    *)
(* known and insert_txn does not fail (a closed year, a broken             *)
(* connection); otherwise it is counted or reported, and the next one      *)
(* follows.                                                                *)
ImportNext(r) ==
    /\ pc[r] = "pta import" /\ loc[r].left # <<>>
    /\ LET t == Head(loc[r].left)
           to(i) == ResolveAccount(targetChart, t.legs[i].name)
           takes == /\ \A i \in DOMAIN t.legs : to(i) # {}
                    /\ FoldLeft(LAMBDA s, l : s + l.amount, 0, t.legs) = 0
                    /\ PtaPrint(t) \notin loc[r].known
       IN  IF takes
           THEN \/ /\ Len(target) < MaxTarget
                   /\ target' = Append(target, Inserted(t, [i \in DOMAIN t.legs |->
                                                       CHOOSE n \in to(i) : TRUE]))
                   /\ UNCHANGED refused
                \/ refused' = refused \cup {PtaPrint(t)} /\ UNCHANGED target
           ELSE UNCHANGED <<target, refused>>
    /\ Goto(r, "pta import", [loc[r] EXCEPT !.left = Tail(@)])
    /\ UNCHANGED <<names, source, file, targetChart>>

ImportOver(r) == pc[r] = "pta import" /\ loc[r].left = <<>> /\ End(r) /\ UNCHANGED ixVars

InterchangeCutOff(r) == CutOff(r) /\ UNCHANGED ixVars

InterchangeNext ==
    \/ \E n \in AcctNames : AddAccount(n)
    \/ \E day \in 1..LastIxDay, text \in IxTexts, currency \in Currencies,
          from, to \in AcctNames : PostEntry(day, text, currency, from, to)
    \/ \E r \in Req :
        \/ \E format \in {"beancount", "hledger"} : LoadAccounts(r, format)
        \/ WriteExport(r) \/ ImportFile(r) \/ ImportNext(r) \/ ImportOver(r)
        \/ InterchangeCutOff(r)

-----------------------------------------------------------------------------
(* The rows: a file is one snapshot, so its entries only post to accounts  *)
(* that it lists, also when accounts and entries are added while it is     *)
(* made (load); and imported entries post to accounts of their own ledger. *)
InterchangeTypeOK ==
    /\ file # NoFile =>
        \A i \in DOMAIN file.of : \A k \in DOMAIN file.of[i].legs :
            file.of[i].legs[k].name \in file.names
    /\ \A i \in DOMAIN target : \A k \in DOMAIN target[i].legs :
            target[i].legs[k].name \in targetChart

(* Every account that a Beancount file names is open on the day of each    *)
(* leg that names it, also when names mangle alike (first_use in           *)
(* export/beancount.rs).  That the output "loads cleanly in bean-check",   *)
(* as that file says, takes more, which it does not have: a root before    *)
(* each name, and one open a name.                                         *)
OpensBeforeUse ==
    file.format = "beancount" =>
        \A i \in DOMAIN file.lines :
            file.lines[i].k = "leg" =>
                LET head == CHOOSE h \in 1..i :
                        /\ file.lines[h].k = "txn"
                        /\ \A x \in (h + 1)..i : file.lines[x].k = "leg"
                IN  \E j \in DOMAIN file.lines :
                        /\ file.lines[j].k = "open"
                        /\ file.lines[j].name = file.lines[i].name
                        /\ file.lines[j].day <= file.lines[head].day

(* An account whose name comes back from both formats: it is one of the    *)
(* other ledger, and a Beancount file does not mistake it for another.     *)
ComesBack(n) ==
    /\ n \in targetChart
    /\ n # Mangle(n) => n = Unmangle(Mangle(n)) /\ Mangle(n) \notin targetChart

(* "The imported rows equal the original" but for their currency, which is *)
(* the other ledger's: when an import has gone through a file, each entry  *)
(* of the exported ledger whose accounts come back is in the other ledger  *)
(* with the same legs, however often imports were cut off and begun again; *)
(* entries that share a fingerprint, entries whose INSERTs failed, and     *)
(* imports that overlapped are excepted (pta-export-import, import/pta.rs).*)
RoundTrip ==
    \A r \in Req :
        (pc[r] = "pta import" /\ loc[r].left = <<>> /\ "import" \notin raced) =>
            \A i \in DOMAIN loc[r].of :
                LET t == loc[r].of[i]
                    same(u) == PtaPrint(u) = PtaPrint(t)
                IN  (/\ \A k \in DOMAIN t.legs : ComesBack(t.legs[k].name)
                     /\ \A j \in DOMAIN source : same(source[j]) => source[j] = t
                     /\ PtaPrint(t) \notin refused)
                    => \E j \in DOMAIN target :
                            target[j] = [t EXCEPT !.currency = BaseCurrency]

(* "No duplicate rows; the second run is a no-op": a ledger that is filled *)
(* from exports, the newer after the older, has no entry more often than   *)
(* the ledger they are of, unless imports overlapped (pta-export-import).  *)
ReimportAddsNothing ==
    "import" \notin raced =>
        \A i \in DOMAIN target :
            LET copies(s) == {j \in DOMAIN s : PtaPrint(s[j]) = PtaPrint(target[i])}
            IN  Cardinality(copies(target)) <= Cardinality(copies(source))

(* A ledger survives the way through a file: the file loads, its entries   *)
(* come back, and coming back twice adds nothing.                          *)
InterchangeSound ==
    /\ InterchangeTypeOK
    /\ OpensBeforeUse
    /\ RoundTrip
    /\ ReimportAddsNothing
=============================================================================
