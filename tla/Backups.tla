------------------------------ MODULE Backups ------------------------------
(***************************************************************************)
(* Scheduled and manual backups (workers/backup.rs, handlers/backups.rs)   *)
(* and the drill that restores the latest (jobs/restore_verify.rs), over   *)
(* the documents they save.  Each instance of the server has a worker of   *)
(* its own; they share the database and the backup directory.              *)
(***************************************************************************)
EXTENDS Documents

CONSTANTS
    Instance,       \* server instances
    Keep,           \* BACKUP_KEEP
    ManualKeep,     \* the 30 files a manual backup leaves
    MaxTick,        \* bound: cron ticks
    MaxManual       \* bound: manual backups

ASSUME BackupsAssumption ==
    Keep \in Nat /\ ManualKeep \in Nat /\ MaxTick \in Nat

VARIABLES
    time,           \* the last cron tick that has passed
    next,           \* the tick each worker waits for
    bpc,            \* the step each worker is at
    bdata,          \* what the worker has collected
    backend,        \* STORAGE_BACKEND: where documents are kept, "fs" or "s3"
    manual,         \* the manual backups: the step each is at, its list
    dir,            \* files of the backup directory: name -> mtime
    inside,         \* what each file holds: rows dumped, files packed
    ran,            \* the finished backup_runs
    clock,          \* what mtime and finished_at are taken from
    stuck,          \* backup_runs still 'running': the ticks they are for
    listed,         \* file names in backups
    pruned,         \* history: names that retention has deleted
    rewritten,      \* history: names opened for writing a second time
    overtaken       \* history: names written while on a list of old files

tarVars == <<dir, inside, pruned, rewritten, overtaken>>
backupVars == <<time, next, bpc, bdata, backend, manual, tarVars, ran, clock, stuck, listed>>

Tarball(tick) == <<"tar", tick>>
SqlFile(n) == <<"sql", n>>
InDir(f) == f \in DOMAIN dir
With(files, f, x) == [g \in DOMAIN files \cup {f} |-> IF g = f THEN x ELSE files[g]]
Without(files, gone) == [g \in DOMAIN files \ gone |-> files[g]]
NoFile == <<"none", 0>>
NoList == [f \in {} |-> 0]
Empty == [tick |-> 0]

(* A file opened for writing is empty until it is written. *)
Torn == [rows |-> {}, files |-> {}, whole |-> FALSE]

InitBackups ==
    /\ time = 0
    /\ next = [w \in Instance |-> 1]
    /\ bpc = [w \in Instance |-> "wait"]
    /\ bdata = [w \in Instance |-> Empty]
    /\ backend \in {"fs", "s3"}
    /\ manual = [n \in 1..MaxManual |-> [at |-> "no", old |-> NoList]]
    /\ dir = [f \in {} |-> 0]
    /\ inside = [f \in {} |-> {}]
    /\ ran = {}
    /\ clock = 0
    /\ stuck = {}
    /\ listed = {}
    /\ pruned = {}
    /\ rewritten = {}
    /\ overtaken = {}

Tick ==
    /\ time < MaxTick
    /\ time' = time + 1
    /\ UNCHANGED <<reqVars, docVars, next, bpc, bdata, manual, tarVars, ran, clock, stuck, listed>>

-----------------------------------------------------------------------------
(* A run gets its status and finished_at. *)
Finish(kind, status, f) ==
    /\ clock' = clock + 1
    /\ ran' = ran \cup {[kind |-> kind, status |-> status, file |-> f, finished |-> clock']}

GoOn(w, label, data) ==
    /\ bpc' = [bpc EXCEPT ![w] = label]
    /\ bdata' = [bdata EXCEPT ![w] = data]

(* record_run_start; if the INSERT fails the tick is skipped. *)
RunStart(w) ==
    /\ bpc[w] = "wait" /\ time >= next[w]
    /\ \/ /\ GoOn(w, "dump", [tick |-> next[w]])
          /\ stuck' = stuck \cup {<<w, next[w]>>}
          /\ UNCHANGED next
       \/ /\ next' = [next EXCEPT ![w] = @ + 1]
          /\ UNCHANGED <<bpc, bdata, stuck>>
    /\ UNCHANGED <<reqVars, docVars, time, manual, tarVars, ran, clock, listed>>

(* The error path of any step after it; a file half written stays. *)
RunFails(w) ==
    /\ bpc[w] \in {"dump", "pack", "persist", "write", "insert", "mark"}
    /\ GoOn(w, "prune", bdata[w])
    /\ Finish("scheduled", "failed", NoFile)
    /\ stuck' = stuck \ {<<w, bdata[w].tick>>}
    /\ UNCHANGED <<reqVars, docVars, time, next, manual, tarVars, listed>>

(* database_payload: pg_dump reads one snapshot. *)
DumpDatabase(w) ==
    /\ bpc[w] = "dump"
    /\ GoOn(w, "pack", [tick |-> bdata[w].tick, rows |-> {d \in Paper : Filed(d)}])
    /\ UNCHANGED <<reqVars, docVars, time, next, manual, tarVars, ran, clock, stuck, listed>>

(* tar_directory and build_tarball_with: the local DOCUMENTS_DIR, which is *)
(* empty or not there when documents are kept in S3.                       *)
PackDocuments(w) ==
    /\ bpc[w] = "pack"
    /\ GoOn(w, "persist", [tick |-> bdata[w].tick, rows |-> bdata[w].rows,
                           files |-> IF backend = "fs" THEN blob ELSE {}])
    /\ UNCHANGED <<reqVars, docVars, time, next, manual, tarVars, ran, clock, stuck, listed>>

(* The names on the lists that retention is at. *)
Pruning == {"prune_file", "prune_rows"}
WorkerLists == {DOMAIN bdata[w].old : w \in {w \in Instance : bpc[w] \in Pruning}}
ManualLists == {DOMAIN manual[n].old : n \in 1..MaxManual}
OnLists == (UNION WorkerLists) \cup (UNION ManualLists)

WriteFile(f, content) ==
    /\ clock' = clock + 1
    /\ dir' = With(dir, f, clock + 1)
    /\ inside' = With(inside, f, content)
    /\ pruned' = pruned \ {f}
    /\ overtaken' = overtaken \cup ({f} \cap OnLists)

(* Fault: the file is written when the run is marked. *)
PersistLater(w) ==
    /\ bpc[w] = "persist"
    /\ GoOn(w, "insert", bdata[w])
    /\ UNCHANGED <<reqVars, docVars, time, next, manual, tarVars, ran, clock, stuck, listed>>

(* persist_bytes: named after the tick, so that two instances write the    *)
(* same file.  tokio::fs::write opens it, which empties it, ...            *)
PersistOpen(w) ==
    /\ bpc[w] = "persist"
    /\ LET f == Tarball(bdata[w].tick)
       IN  /\ WriteFile(f, Torn)
           /\ rewritten' = rewritten \cup ({f} \cap DOMAIN inside)
    /\ GoOn(w, "write", [tick |-> bdata[w].tick, rows |-> bdata[w].rows,
                         files |-> bdata[w].files, opened |-> clock + 1])
    /\ UNCHANGED <<reqVars, docVars, time, next, manual, ran, stuck, listed>>

(* ... and writes it.  If another instance has opened the file meanwhile,  *)
(* it may hold the bytes of either or of both; if it was deleted, the      *)
(* bytes are lost and nobody is told.                                      *)
PersistWrite(w) ==
    /\ bpc[w] = "write"
    /\ LET f == Tarball(bdata[w].tick)
           own == [rows |-> bdata[w].rows, files |-> bdata[w].files, whole |-> TRUE]
       IN  IF InDir(f)
           THEN /\ \E content \in {own, Torn, inside[f]} :
                      /\ dir[f] = bdata[w].opened => content = own
                      /\ WriteFile(f, content)
                /\ UNCHANGED rewritten
           ELSE UNCHANGED <<tarVars, clock>>
    /\ GoOn(w, "insert", [tick |-> bdata[w].tick])
    /\ UNCHANGED <<reqVars, docVars, time, next, manual, ran, stuck, listed>>

InsertBackup(w) ==
    /\ bpc[w] = "insert"
    /\ listed' = listed \cup {Tarball(bdata[w].tick)}
    /\ GoOn(w, "mark", bdata[w])
    /\ UNCHANGED <<reqVars, docVars, time, next, manual, tarVars, ran, clock, stuck>>

MarkSuccess(w) ==
    /\ bpc[w] = "mark"
    /\ Finish("scheduled", "success", Tarball(bdata[w].tick))
    /\ stuck' = stuck \ {<<w, bdata[w].tick>>}
    /\ GoOn(w, "prune", bdata[w])
    /\ UNCHANGED <<reqVars, docVars, time, next, manual, tarVars, listed>>

Newer(files, f) == {g \in DOMAIN files : files[g] > files[f]}

(* Fault: oldest first. *)
BeyondOldest(files, n) ==
    {f \in DOMAIN files : Cardinality({g \in DOMAIN files : files[g] < files[f]}) >= n}

(* The files after the n newest. *)
Beyond(files, n) == {f \in DOMAIN files : Cardinality(Newer(files, f)) >= n}
OldOf(files, n) == [f \in Beyond(files, n) |-> files[f]]

(* prune_dir: the directory is read once, with the times, ... *)
PruneList(w) ==
    /\ bpc[w] = "prune"
    /\ GoOn(w, "prune_file", [tick |-> bdata[w].tick, old |-> OldOf(dir, Keep)])
    /\ UNCHANGED <<reqVars, docVars, time, next, manual, tarVars, ran, clock, stuck, listed>>

(* The list goes from the newest to the oldest of the files in it. *)
FirstOf(old) == CHOOSE f \in DOMAIN old : \A g \in DOMAIN old : old[g] <= old[f]
Rest(old) == Without(old, {FirstOf(old)})
ListLeft(w) == [tick |-> bdata[w].tick, old |-> Rest(bdata[w].old)]

RemoveTarball(f) ==
    /\ dir' = Without(dir, {f})
    /\ pruned' = pruned \cup {f}
    /\ UNCHANGED <<inside, rewritten, overtaken>>

(* ... each old file is deleted, or cannot be and is passed over, ...      *)
PruneFile(w) ==
    /\ bpc[w] = "prune_file" /\ DOMAIN bdata[w].old # {}
    /\ LET f == FirstOf(bdata[w].old)
       IN  IF InDir(f)
           THEN RemoveTarball(f) /\ GoOn(w, "prune_rows", bdata[w])
           ELSE UNCHANGED tarVars /\ GoOn(w, "prune_file", ListLeft(w))
    /\ UNCHANGED <<reqVars, docVars, time, next, manual, ran, clock, stuck, listed>>

(* ... and its rows after it, those of the drill included.                 *)
PruneRows(w) ==
    /\ bpc[w] = "prune_rows"
    /\ LET f == FirstOf(bdata[w].old)
       IN  /\ ran' = {x \in ran : x.file # f}
           /\ listed' = listed \ {f}
    /\ GoOn(w, "prune_file", ListLeft(w))
    /\ UNCHANGED <<reqVars, docVars, time, next, manual, tarVars, clock, stuck>>

RunOver(w) ==
    /\ bpc[w] = "prune_file" /\ DOMAIN bdata[w].old = {}
    /\ GoOn(w, "wait", Empty)
    /\ next' = [next EXCEPT ![w] = @ + 1]
    /\ UNCHANGED <<reqVars, docVars, time, manual, tarVars, ran, clock, stuck, listed>>

(* The server dies and comes back: it waits for the first tick to come,    *)
(* and the run it was at stays 'running'.                                  *)
Restart(w) ==
    /\ GoOn(w, "wait", Empty)
    /\ next' = [next EXCEPT ![w] = time + 1]
    /\ UNCHANGED <<reqVars, docVars, time, manual, tarVars, ran, clock, stuck, listed>>

WorkerStep(w) ==
    \/ RunStart(w) \/ RunFails(w) \/ DumpDatabase(w) \/ PackDocuments(w) \/ PersistOpen(w)
    \/ PersistWrite(w) \/ InsertBackup(w) \/ MarkSuccess(w) \/ PruneList(w) \/ PruneFile(w)
    \/ PruneRows(w) \/ RunOver(w) \/ Restart(w)

-----------------------------------------------------------------------------
(* handlers/backups.rs::create_backup, in the same directory: a small file *)
(* that counts rows and holds none, named after the second, ...            *)
ManualAt(n, label, old) == manual' = [manual EXCEPT ![n] = [at |-> label, old |-> old]]
workerVars == <<reqVars, docVars, time, next, bpc, bdata, ran, stuck>>

ManualWrite(n) ==
    /\ manual[n].at = "no" /\ \A m \in 1..n - 1 : manual[m].at # "no"
    /\ WriteFile(SqlFile(n), [rows |-> {}, files |-> {}, whole |-> TRUE])
    /\ ManualAt(n, "insert", NoList)
    /\ UNCHANGED <<workerVars, rewritten, listed>>

(* ... its row, ... *)
ManualInsert(n) ==
    /\ manual[n].at = "insert"
    /\ listed' = listed \cup {SqlFile(n)}
    /\ ManualAt(n, "list", NoList)
    /\ UNCHANGED <<workerVars, tarVars, clock>>

(* ... and a retention of its own: the directory is read, ... *)
ManualList(n) ==
    /\ manual[n].at = "list"
    /\ ManualAt(n, "prune", OldOf(dir, ManualKeep))
    /\ UNCHANGED <<workerVars, tarVars, clock, listed>>

(* ... and the old files are deleted one by one.  No row is. *)
ManualPrune(n) ==
    /\ manual[n].at = "prune" /\ DOMAIN manual[n].old # {}
    /\ LET f == FirstOf(manual[n].old)
       IN  /\ IF InDir(f) THEN RemoveTarball(f) ELSE UNCHANGED tarVars
           /\ ManualAt(n, "prune", Rest(manual[n].old))
    /\ UNCHANGED <<workerVars, clock, listed>>

(* The INSERT fails, or the server dies. *)
ManualCutOff(n) ==
    /\ manual[n].at \in {"insert", "list", "prune"}
    /\ ManualAt(n, "over", NoList)
    /\ UNCHANGED <<workerVars, tarVars, clock, listed>>

ManualStep(n) ==
    \/ ManualWrite(n) \/ ManualInsert(n) \/ ManualList(n) \/ ManualPrune(n) \/ ManualCutOff(n)

(* verify_latest: the file of the latest successful run, of either kind,   *)
(* is restored; documents rows and files must be as many.                  *)
Latest ==
    LET good == {x \in ran : x.status = "success"}
    IN  IF good = {} THEN NoFile
        ELSE (CHOOSE x \in good : \A y \in good : y.finished <= x.finished).file

Restores(f) ==
    /\ InDir(f) /\ inside[f].whole
    /\ Cardinality(inside[f].rows) = Cardinality(inside[f].files)

VerifyLatest ==
    /\ Latest # NoFile
    /\ ~\E x \in ran : x.kind = "verification" /\ x.file = Latest
    /\ Finish("verification", IF Restores(Latest) THEN "success" ELSE "failed", Latest)
    /\ UNCHANGED <<reqVars, docVars, time, next, bpc, bdata, manual, tarVars, stuck, listed>>

(* The steps on documents that write a row or a file, for requests that    *)
(* come one at a time: binding and OCR write neither, and neither what an  *)
(* upload holds nor which transaction it belongs to matters to a backup.   *)
(* A REST removal, which takes the file first, is excepted below.          *)
FilingNext ==
    \/ \E r \in Req :
        /\ \A q \in Req \ {r} : ~Busy(q)
        /\ \/ UploadFile(r) \/ UploadRow(r) \/ DocumentsCutOff(r)
           \/ \E d \in Paper :
               \/ \E u \in {u \in Upload : u.declared = u.found /\ u.found # "image"} :
                       UploadBegin(r, d, CHOOSE t \in PaperTxn : TRUE, u)
               \/ Delete(r, d)
    \/ \E d \in Paper : Filed(d) /\ DeleteTransaction(paper[d].txn)

WorkersNext ==
    /\ UNCHANGED backend
    /\ \/ Tick \/ VerifyLatest
       \/ \E w \in Instance : WorkerStep(w)
       \/ \E n \in 1..MaxManual : ManualStep(n)

BackupsNext == WorkersNext \/ (FilingNext /\ UNCHANGED backupVars)

(* Backups over everything that happens to documents. *)
BackupsSpec ==
    /\ InitRequests /\ InitDocuments /\ InitBackups
    /\ [][WorkersNext \/ (DocumentsNext /\ UNCHANGED backupVars)]_<<reqVars, docVars, backupVars>>

-----------------------------------------------------------------------------
(* The backup directory holds files that were written, no two at the same  *)
(* time.                                                                   *)
BackupsTypeOK ==
    /\ time \in 0..MaxTick
    /\ \A w \in Instance : next[w] \in 1..MaxTick + 1
    /\ DOMAIN dir \subseteq DOMAIN inside
    /\ \A f, g \in DOMAIN dir : dir[f] = dir[g] => f = g

(* A backup can be restored whole: every document in its dump is among the *)
(* files packed with it, whatever was uploaded or deleted meanwhile, but   *)
(* for REST removals.  It is why the dump comes first                      *)
(* (workers/backup.rs::run_backup_with_target).  It is so while documents  *)
(* are kept in DOCUMENTS_DIR: with STORAGE_BACKEND=s3 the tarball holds    *)
(* none of them, and the drill fails as soon as there is one.              *)
RestoreFindsDocuments ==
    backend = "fs" => \A f \in DOMAIN inside : inside[f].rows \ removal \subseteq inside[f].files

(* A run that is recorded as a success has its file, written to the end,   *)
(* until retention takes it, wherever the server dies; a second instance   *)
(* that opens the same name may leave it half written.                     *)
WholeFile(f) == f \in DOMAIN dir /\ (inside[f].whole \/ f \in rewritten)
SuccessHasTarball ==
    \A x \in ran : x.status = "success" => WholeFile(x.file) \/ x.file \in pruned

(* Retention, from the workers or from manual backups, only deletes files  *)
(* that have as many newer ones as the smaller of BACKUP_KEEP and 30,      *)
(* although every list may be old by the time it is gone through, others   *)
(* delete meanwhile and new files arrive: until a file is written while it *)
(* is on a list, after which the directory may even be emptied.            *)
LeastKept == IF Keep <= ManualKeep THEN Keep ELSE ManualKeep
PruneKeepsNewest ==
    [][\A f \in DOMAIN dir : overtaken = {} /\ f \notin DOMAIN dir' =>
          Cardinality({g \in DOMAIN dir' : dir'[g] > dir[f]}) >= LeastKept]_dir

(* A backup that is recorded is there and can be restored whole. *)
BackupsSound ==
    /\ BackupsTypeOK
    /\ RestoreFindsDocuments
    /\ SuccessHasTarball
=============================================================================
