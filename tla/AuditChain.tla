----------------------------- MODULE AuditChain -----------------------------
(***************************************************************************)
(* The hash chain of audit_entries: audit.rs, audit/chain.rs, the anchor   *)
(* of workers/audit_anchor.rs.  A hash stands for all that was hashed into *)
(* it, oldest first, so equal hashes mean equal content and equal          *)
(* predecessors.                                                           *)
(***************************************************************************)
EXTENDS Requests, Sequences

CONSTANTS
    Entry,          \* audit entries
    Uuid,           \* their ids, as numbers; random, so in any order
    LastUuid,       \* the largest id there is
    Legacy,         \* entries written before the chain existed, without hash
    MaxClock,       \* bound on the clock
    MaxAnchors      \* bound on the lines of the anchor file

ASSUME AuditAssumption ==
    /\ IsFiniteSet(Entry) /\ Legacy \subseteq Entry
    /\ LastUuid \in Nat /\ Uuid \in [Entry -> 0..LastUuid]
    /\ \A a, b \in Entry : Uuid[a] = Uuid[b] => a = b
    /\ MaxClock \in Nat /\ MaxAnchors \in Nat

VARIABLES
    clock,          \* the wall clock, in microseconds
    entry,          \* audit_entries: id -> [at, prev, hash]
    anchors,        \* lines of the anchor file, oldest first
    crossed,        \* history: an entry was appended before an older one
    rehashed        \* history: an entry was hashed while others were appended

auditVars == <<clock, entry, anchors, crossed, rehashed>>

NULL == <<>>
NoEntry == [at |-> -1, prev |-> NULL, hash |-> NULL]
Entries == {e \in Entry : entry[e] # NoEntry}
Hashed == {e \in Entries : entry[e].hash # NULL}

InitAudit ==
    /\ clock = 0
    /\ entry = [e \in Entry |-> IF e \in Legacy THEN [NoEntry EXCEPT !.at = 0] ELSE NoEntry]
    /\ anchors = <<>>
    /\ crossed = FALSE
    /\ rehashed = FALSE

(* ORDER BY created_at, id *)
Before(a, b) == entry[a].at < entry[b].at \/ (entry[a].at = entry[b].at /\ Uuid[a] < Uuid[b])
Latest(S) == CHOOSE e \in S : \A x \in S \ {e} : Before(x, e)

(* compute_hash over canonical_bytes: the id is left out, but no two       *)
(* entries of this model have the same content.                            *)
ComputeHash(prev, e, at) == Append(prev, <<e, at>>)

TailHash == IF Hashed = {} THEN NULL ELSE entry[Latest(Hashed)].hash

(* Time goes on; two entries may carry the same microsecond. *)
ClockTick == clock < MaxClock /\ clock' = clock + 1
        /\ UNCHANGED <<reqVars, entry, anchors, crossed, rehashed>>

(* audit::log takes the time before log_hashed takes the lock. *)
AuditLog(r, e) ==
    /\ e \notin Entries /\ WorkingOn(e) = {}
    /\ Begin(r, "append", [on |-> e, at |-> clock])
    /\ UNCHANGED auditVars

(* Fault: the tail is the entry appended first. *)
LogHashedFirst(r) ==
    /\ pc[r] = "append"
    /\ LET e == loc[r].on
           prev == IF Hashed = {} THEN NULL
                   ELSE entry[CHOOSE x \in Hashed : \A y \in Hashed \ {x} : Before(x, y)].hash
       IN  /\ entry' = [entry EXCEPT ![e] =
                         [at |-> loc[r].at, prev |-> prev,
                          hash |-> ComputeHash(prev, e, loc[r].at)]]
           /\ crossed' = (crossed \/ \E x \in Entries : entry[x].at >= loc[r].at)
    /\ End(r)
    /\ rehashed' = (rehashed \/ \E q \in Req : pc[q] = "backfill")
    /\ UNCHANGED <<clock, anchors>>

(* log_hashed: under the advisory lock, the tail read and the entry        *)
(* inserted behind it.                                                     *)
LogHashed(r) ==
    /\ pc[r] = "append"
    /\ LET e == loc[r].on
           prev == TailHash
       IN  /\ entry' = [entry EXCEPT ![e] =
                         [at |-> loc[r].at, prev |-> prev,
                          hash |-> ComputeHash(prev, e, loc[r].at)]]
           /\ crossed' = (crossed \/ \E x \in Entries : entry[x].at >= loc[r].at)
    /\ End(r)
    /\ rehashed' = (rehashed \/ Entries # Hashed)
    /\ UNCHANGED <<clock, anchors>>

(* ensure_backfilled at the start of an instance: the entries without a    *)
(* hash, read on the pool ...                                              *)
BackfillRead(r) ==
    /\ Entries # Hashed
    /\ Begin(r, "backfill", [on |-> "backfill", rows |-> Entries \ Hashed])
    /\ UNCHANGED auditVars

(* A row's place among rows, and the hash of the first n of them behind    *)
(* the tail.                                                               *)
Place(rows, e) == Cardinality({x \in rows : x = e \/ Before(x, e)})
Chained(tail, rows, n) ==
    LET row(k) == CHOOSE e \in rows : Place(rows, e) = k
    IN  tail \o [k \in 1..n |-> <<row(k), entry[row(k)].at>>]

(* ... and chained behind the tail in one transaction, which takes no lock *)
(* and does not look whether they have a hash by now.                      *)
BackfillCommit(r) ==
    /\ pc[r] = "backfill"
    /\ LET rows == loc[r].rows
           prev(e) == Chained(TailHash, rows, Place(rows, e) - 1)
       IN  entry' = [e \in Entry |-> IF e \notin rows THEN entry[e]
                       ELSE [at |-> entry[e].at, prev |-> prev(e),
                             hash |-> ComputeHash(prev(e), e, entry[e].at)]]
    /\ rehashed' = (rehashed \/ Hashed # {})
    /\ End(r)
    /\ UNCHANGED <<clock, anchors, crossed>>

(* run_once of the anchor worker: the tail's hash, appended to the file. *)
Anchor ==
    /\ Hashed # {}
    /\ Len(anchors) < MaxAnchors
    /\ anchors' = Append(anchors, TailHash)
    /\ UNCHANGED <<reqVars, clock, entry, crossed, rehashed>>

AuditNext ==
    \/ ClockTick \/ Anchor
    \/ \E r \in Req :
          \/ LogHashed(r) \/ BackfillRead(r) \/ BackfillCommit(r)
          \/ CutOff(r) /\ UNCHANGED auditVars
          \/ \E e \in Entry : AuditLog(r, e)

AuditSpec == InitRequests /\ InitAudit /\ [][AuditNext]_<<reqVars, auditVars>>

-----------------------------------------------------------------------------
(* verify, walking the rows in order: the link of each to the hash before  *)
(* it and its own hash.  Of a row without a hash before it only the link   *)
(* is looked at.                                                           *)
HashBefore(e) ==
    LET earlier == {x \in Entries : Before(x, e)}
    IN  IF earlier = {} THEN NULL ELSE entry[Latest(earlier)].hash

Verify ==
    {e \in Entries :
        \/ entry[e].prev # HashBefore(e)
        \/ /\ HashBefore(e) # NULL
           /\ entry[e].hash # ComputeHash(entry[e].prev, e, entry[e].at)}

(* An entry carries a time that has been, an anchor a hash (an empty log   *)
(* has no tail to anchor).                                                 *)
AuditTypeOK ==
    /\ clock \in 0..MaxClock
    /\ \A e \in Entries : entry[e].at \in 0..clock
    /\ \A i \in DOMAIN anchors : anchors[i] # NULL

(* An untouched log verifies once its old entries have hashes, as long as  *)
(* entries are appended in the order of their times and nothing is         *)
(* appended or backfilled next to a backfill (audit/chain.rs::verify).     *)
UntouchedLogVerifies ==
    ~crossed /\ ~rehashed /\ Entries = Hashed => Verify = {}

(* An anchor is the hash of an entry for good: the file can be compared    *)
(* with the log, whatever was appended since (workers/audit_anchor.rs).    *)
AnchorsStayInLog ==
    ~rehashed => \A i \in DOMAIN anchors : \E e \in Hashed : entry[e].hash = anchors[i]

(* The log proves that nobody changed it: it verifies, and each anchor is  *)
(* the hash of one of its entries.                                         *)
LogProvesItself ==
    /\ AuditTypeOK
    /\ UntouchedLogVerifies
    /\ AnchorsStayInLog
=============================================================================
