------------------------------ MODULE RestApi ------------------------------
(***************************************************************************)
(* /api/v1: what a call with an Idempotency-Key does (api/accounts.rs,     *)
(* contacts.rs, budgets.rs, ledgers.rs and the reversal of transactions.rs *)
(* share one protocol of api/helpers.rs), and how a client pages through a *)
(* list.  One token.  Whether a call is allowed is in Access.tla.          *)
(***************************************************************************)
EXTENDS Requests, Sequences, SequencesExt

CONSTANTS
    Key,            \* values of the Idempotency-Key header
    NoKey,          \* a call without the header
    Path,           \* what a call is about: a ledger, or a transaction to reverse
    Body,           \* request bodies
    MaxMade,        \* bound: resources made under one key
    Row,            \* rows of a list
    Name,           \* what a list is ordered by, numbers
    PageLimits      \* values of the limit parameter

(* The body of a create has fields, so it is not the empty one whose       *)
(* fingerprint reversals have; page_from refuses a limit below 1.          *)
ASSUME ApiAssumption ==
    /\ NoKey \notin Key /\ "list" \notin Key \cup {NoKey}
    /\ "empty" \notin Body /\ MaxMade \in Nat
    /\ IsFiniteSet(Row) /\ Name \subseteq Nat \ {0} /\ PageLimits \subseteq Nat \ {0}

(* Accounts, contacts, budgets and ledgers are created in one way. *)
Kind == {"create", "reversal"}
Call == [kind : Kind, path : Path, body : Body]

VARIABLES
    stored,         \* api_idempotency: key -> [call, fp, fresh]
    mixed,          \* history: kinds of calls that got the answer to another, and
                    \* what of it was not theirs, the path or the body
    applied,        \* history: calls executed under a key in its window
    lapsed,         \* history: keys used again before their old row was purged
    unsaved,        \* history: keys of calls cut off after their effect
    names,          \* the listed table: row -> name, 0 for none
    moved           \* history: the table changed under a client paging through it

apiVars == <<stored, mixed, applied, lapsed, unsaved, names, moved>>

NotStored == [fp |-> "none"]

InitApi ==
    /\ stored = [k \in Key |-> NotStored]
    /\ mixed = {}
    /\ applied = [k \in Key |-> 0]
    /\ lapsed = {}
    /\ unsaved = {}
    /\ names = [i \in Row |-> 0]
    /\ moved = FALSE

(* fingerprint: of the body, never of the path; a reversal hashes an empty *)
(* one, whatever transaction its path names.                               *)
BodyFingerprint(call) == IF call.kind = "reversal" THEN "empty" ELSE call.body

Found(k) == k # NoKey /\ stored[k] # NotStored /\ stored[k].fresh

(* idempotency_lookup, by key and token: a stored answer is replayed, also *)
(* to a call on another ledger, or refused with 422 if it was given to     *)
(* another body; otherwise the call goes on.                               *)
ApiCall(r, k, call) ==
    /\ IF Found(k)
       THEN /\ Serve(r, k)
            /\ mixed' = IF stored[k].fp = BodyFingerprint(call)
                        THEN mixed \cup {[kind |-> call.kind, differs |-> x] :
                                 x \in {x \in {"path", "body"} : stored[k].call[x] # call[x]}}
                        ELSE mixed
       ELSE /\ Begin(r, "api_execute", [on |-> k, call |-> call])
            /\ UNCHANGED mixed
    /\ UNCHANGED <<stored, applied, lapsed, unsaved, names, moved>>

(* The access check, the validation and the INSERT of each create; the     *)
(* reversal goes through PostingService.  Either the call is refused,      *)
(* which is not stored, or it is done.                                     *)
ApiExecute(r) ==
    /\ pc[r] = "api_execute"
    /\ LET k == loc[r].on
       IN  \/ End(r) /\ UNCHANGED applied
           \/ k = NoKey /\ End(r) /\ UNCHANGED applied
           \/ /\ k # NoKey /\ applied[k] < MaxMade
              /\ applied' = [applied EXCEPT ![k] = @ + 1]
              /\ Goto(r, "api_store", loc[r])
    /\ UNCHANGED <<stored, mixed, lapsed, unsaved, names, moved>>

(* Fault: only the status of the answer is stored, under no key. *)
IdempotencyStoreNothing(r) ==
    /\ pc[r] = "api_store"
    /\ End(r)
    /\ UNCHANGED apiVars

(* idempotency_store: ON CONFLICT DO NOTHING leaves any row that is there, *)
(* one past its window too.                                                *)
IdempotencyStore(r) ==
    /\ pc[r] = "api_store"
    /\ LET k == loc[r].on
       IN  /\ stored' = IF stored[k] # NotStored THEN stored
                        ELSE [stored EXCEPT ![k] =
                               [fp |-> BodyFingerprint(loc[r].call), call |-> loc[r].call,
                                fresh |-> TRUE]]
           /\ lapsed' = IF stored[k] # NotStored /\ ~stored[k].fresh
                        THEN lapsed \cup {k} ELSE lapsed
    /\ End(r)
    /\ UNCHANGED <<mixed, applied, unsaved, names, moved>>

(* 24 hours later, and the nightly purge of the scheduler. *)
WindowEnds(k) ==
    /\ stored[k] # NotStored /\ stored[k].fresh /\ WorkingOn(k) = {}
    /\ stored' = [stored EXCEPT ![k].fresh = FALSE]
    /\ applied' = [applied EXCEPT ![k] = 0]
    /\ UNCHANGED <<reqVars, mixed, lapsed, unsaved, names, moved>>

PurgeExpiredIdempotency ==
    /\ stored' = [k \in Key |-> IF stored[k] # NotStored /\ ~stored[k].fresh
                                THEN NotStored ELSE stored[k]]
    /\ UNCHANGED <<reqVars, mixed, applied, lapsed, unsaved, names, moved>>

ApiCutOff(r) ==
    /\ CutOff(r)
    /\ unsaved' = IF pc[r] = "api_store" THEN unsaved \cup {loc[r].on} ELSE unsaved
    /\ UNCHANGED <<stored, mixed, applied, lapsed, names, moved>>

IdempotencyNext ==
    \/ PurgeExpiredIdempotency
    \/ \E k \in Key : WindowEnds(k)
    \/ \E r \in Req :
          \/ ApiExecute(r) \/ IdempotencyStore(r) \/ ApiCutOff(r)
          \/ \E k \in Key \cup {NoKey}, call \in Call : ApiCall(r, k, call)

-----------------------------------------------------------------------------
(* Lists: ORDER BY name LIMIT limit OFFSET offset.  Rows of equal name     *)
(* come in any order, and in another one on the next page.                 *)
Listed == {i \in Row : names[i] # 0}
Sorted == {s \in SetToSeqs(Listed) :
             \A i, j \in DOMAIN s : i < j => names[s[i]] <= names[s[j]]}

ListInsert ==
    /\ \E i \in Row \ Listed, n \in Name : names' = [names EXCEPT ![i] = n]
    /\ moved' = (moved \/ \E r \in Req : Busy(r))
    /\ UNCHANGED <<reqVars, stored, mixed, applied, lapsed, unsaved>>

(* Where a client is in the list: the parameters of its next call and the  *)
(* rows it has.                                                            *)
WalkAt(offset, limit, seen) ==
    [on |-> "list", offset |-> offset, limit |-> limit, seen |-> seen]

(* page_from and next_link: a full page links to the next offset, which    *)
(* the signed cursor carries unchanged.                                    *)
PageFrom(r) ==
    /\ pc[r] = "page"
    /\ \E s \in Sorted :
         LET d == loc[r]
             page == SubSeq(s, d.offset + 1, Min({Len(s), d.offset + d.limit}))
         IN  IF Len(page) < d.limit
             THEN Goto(r, "paged", WalkAt(d.offset, d.limit, d.seen \o page))
             ELSE Goto(r, "page", WalkAt(d.offset + Len(page), d.limit, d.seen \o page))
    /\ UNCHANGED apiVars

WalkBegin(r) ==
    /\ \E limit \in PageLimits :
         Begin(r, "page", WalkAt(0, limit, <<>>))
    /\ UNCHANGED apiVars

WalkEnd(r) == pc[r] = "paged" /\ End(r) /\ UNCHANGED apiVars

PagingNext ==
    \/ ListInsert
    \/ \E r \in Req : WalkBegin(r) \/ PageFrom(r) \/ WalkEnd(r)

ApiSpec ==
    InitRequests /\ InitApi /\ [][IdempotencyNext \/ PagingNext]_<<reqVars, apiVars>>

-----------------------------------------------------------------------------
(* The stored answers; one that is replayed is the answer to a call that    *)
(* was executed, never to one that was refused.                             *)
ApiTypeOK ==
    /\ \A k \in Key : /\ stored[k] # NotStored => stored[k].call \in Call
                      /\ Found(k) => applied[k] > 0
                      /\ applied[k] \in 0..MaxMade
    /\ mixed \subseteq [kind : Kind, differs : {"path", "body"}]
    /\ lapsed \cup unsaved \subseteq Key

(* "replays within 24 h return the stored response without re-executing"   *)
(* (migrations/0052_api_idempotency.sql): a call is executed once per key  *)
(* and window if calls with the key do not overlap, none is cut off        *)
(* between its effect and the store, and no row past its window is left    *)
(* when the key is used again.                                             *)
AppliedOncePerKey ==
    \A k \in Key \ (raced \cup unsaved \cup lapsed) : applied[k] <= 1

(* "A fingerprint mismatch is a hard 422" (api/helpers.rs::                *)
(* idempotency_lookup): a key used again with another body never gets the  *)
(* first body's answer, though it may get that of the same body sent to    *)
(* another ledger.  Reversals are excepted: all have one fingerprint.      *)
ReplayAnswersSameBody ==
    \A m \in mixed : m.differs = "body" => m.kind = "reversal"

(* A client that follows the links reads every row once, whatever the      *)
(* limit, also when the last page is full (api/helpers.rs::next_link), if  *)
(* nothing is inserted meanwhile and no two rows have the same name.       *)
WalkReadsEachRowOnce ==
    \A r \in Req : pc[r] = "paged" /\ ~moved
                   /\ (\A i, j \in Listed : i # j => names[i] # names[j])
        => Len(loc[r].seen) = Cardinality(Listed) /\ Range(loc[r].seen) = Listed

(* A client may retry and page: a key executes one call, answers only its  *)
(* body, and the pages hold each row once.                                 *)
ApiSound ==
    /\ ApiTypeOK
    /\ AppliedOncePerKey
    /\ ReplayAnswersSameBody
    /\ WalkReadsEachRowOnce
=============================================================================
