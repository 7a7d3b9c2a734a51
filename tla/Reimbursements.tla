--------------------------- MODULE Reimbursements ---------------------------
(***************************************************************************)
(* Expense claims of one ledger: handlers/reimbursement.rs, the state      *)
(* machine of domain/reimbursement.rs, the levels of                       *)
(* domain/approval_routing.rs, the rules of domain/policies.rs and the     *)
(* owner's handlers/approval_policies.rs.                                  *)
(*                                                                         *)
(* Every handler loads the claim on the pool, without a lock, and acts on  *)
(* that status some statements later.                                      *)
(***************************************************************************)
EXTENDS Requests, Legs

CONSTANTS
    Claim,          \* ids of reimbursement_claims
    ClaimUser,      \* users of the ledger
    Access,         \* the role each of them has on it
    GlobalAdmin,    \* those whose users.role is admin
    Line,           \* claim lines users enter: acct, day, amount, tax, advance
    OcrLine,        \* claim lines read from a receipt, on 'Other Expense'
    Levels,         \* approval policies the owner may write: level, min, role
    Rules,          \* rows of reimbursement_policies: kind, acct, limit, hard
    MaxLines        \* bound: lines per claim

ASSUME ClaimsAssumption == IsFiniteSet(ClaimUser)

VARIABLES
    claim,          \* reimbursement_claims with their lines and steps
    gl,             \* the transactions whose reference is the claim's short id
    levels,         \* reimbursement_approval_policies of the ledger
    rules,          \* the active reimbursement_policies
    staff           \* users with access to the ledger

claimVars == <<claim, gl, levels, rules, staff, balanceTrigger>>

NoClaim == [status |-> "none"]
ClaimStatus == {"draft", "submitted", "partially_approved", "fully_approved",
                "approved", "rejected", "paid"}

InitClaims ==
    /\ claim = [c \in Claim |-> NoClaim]
    /\ gl = [c \in Claim |-> <<>>]
    /\ levels \in SUBSET Levels
    /\ rules = {}
    /\ staff \in {{u \in ClaimUser : Access[u] = "owner"}, ClaimUser}
    /\ balanceTrigger \in BOOLEAN

(* ledgers::ensure_writer *)
Writers == {u \in staff : Access[u] \notin {"viewer", "auditor"}}
LedgerOwner == {u \in staff : Access[u] = "owner"}

SumOf(lines, Value(_)) ==
    FoldLeft(LAMBDA sum, line : sum + Value(line), 0, lines)
ClaimTotal(lines) == SumOf(lines, LAMBDA l : l.amount + l.tax)

-----------------------------------------------------------------------------
(* ClaimStatus::can_transition_to *)
CanTransition(from, to) ==
    <<from, to>> \in {<<"draft", "submitted">>,
        <<"submitted", "partially_approved">>, <<"submitted", "fully_approved">>,
        <<"submitted", "rejected">>,
        <<"partially_approved", "partially_approved">>,
        <<"partially_approved", "fully_approved">>,
        <<"fully_approved", "paid">>, <<"approved", "paid">>,
        <<"rejected", "draft">>}

(* domain/approval_routing.rs *)
RequiredLevels(total) ==
    LET matching == {p.level : p \in {q \in levels : q.min <= total}}
    IN  IF matching = {} THEN {1} ELSE matching

RecordedLevels(c) == {s.level : s \in claim[c].steps}

EligibleApprovers(role) ==
    {u \in staff : /\ Access[u] # "viewer"
                   /\ \/ role = "Accountant"
                      \/ u \in GlobalAdmin
                      \/ Access[u] = "owner"}

ApproverRoleForLevel(level, total) ==
    LET matching == {p \in levels : p.level = level /\ p.min <= total}
    IN  IF matching = {} THEN "Admin"
        ELSE (CHOOSE p \in matching : \A q \in matching : q.min <= p.min).role

LedgerUserCount == Cardinality(staff)

(* domain/policies.rs.  The handler loads every line with has_receipt      *)
(* FALSE, and eval_per_diem finds nothing.                                 *)
CategoryCapOver(rule, lines) ==
    \E i \in DOMAIN lines :
        /\ lines[i].acct = rule.acct
        /\ SumOf(SelectSeq(lines, LAMBDA l : l.acct = rule.acct /\ l.day = lines[i].day),
                 LAMBDA l : l.amount) > rule.limit

ReceiptMissing(rule, lines) ==
    \E i \in DOMAIN lines : lines[i].amount >= rule.limit

HardViolation(lines) ==
    \E rule \in rules :
        /\ rule.hard
        /\ \/ rule.kind = "category_cap" /\ CategoryCapOver(rule, lines)
           \/ rule.kind = "receipt_required" /\ ReceiptMissing(rule, lines)

-----------------------------------------------------------------------------
(* create.  The event rows are not kept: nothing reads them back. *)
ClaimCreate(r, u, c) ==
    /\ claim[c] = NoClaim /\ u \in Writers
    /\ Serve(r, c)
    /\ claim' = [claim EXCEPT ![c] =
            [status |-> "draft", author |-> u, lines |-> <<>>, steps |-> {},
             scanned |-> {}]]
    /\ UNCHANGED <<gl, levels, rules, staff, balanceTrigger>>

(* The bound on lines, those about to be inserted included. *)
RoomForLine(c) ==
    Len(claim[c].lines) + Cardinality({q \in WorkingOn(c) : pc[q] = "line_insert"})
        < MaxLines

(* add_line: only drafts accept lines, as loaded. *)
AddLineLoad(r, u, c) ==
    /\ claim[c].status = "draft" /\ u \in Writers
    /\ RoomForLine(c)
    /\ \E line \in Line : Begin(r, "line_insert", [on |-> c, line |-> line])
    /\ UNCHANGED claimVars

AddLineInsert(r) ==
    /\ pc[r] = "line_insert"
    /\ claim' = [claim EXCEPT ![loc[r].on].lines = Append(@, loc[r].line)]
    /\ End(r)
    /\ UNCHANGED <<gl, levels, rules, staff, balanceTrigger>>

(* handlers/document_ocr.rs::apply: anyone but a viewer puts the receipt's *)
(* line into any claim of the ledger; the status is not looked at.         *)
(* scanned is history: the lines that came this way, and in which status.  *)
OcrApply(r, u, c) ==
    /\ claim[c] # NoClaim /\ u \in staff /\ Access[u] # "viewer"
    /\ RoomForLine(c)
    /\ \E line \in OcrLine :
          claim' = [claim EXCEPT
            ![c].lines = Append(@, line),
            ![c].scanned = @ \cup {<<Len(claim[c].lines) + 1, claim[c].status>>}]
    /\ Serve(r, c)
    /\ UNCHANGED <<gl, levels, rules, staff, balanceTrigger>>

(* submit: the status as loaded, at least one line, no hard violation. *)
SubmitLoad(r, u, c) ==
    /\ CanTransition(claim[c].status, "submitted") /\ u \in Writers
    /\ Begin(r, "submit_check", [on |-> c, to |-> "submitted"])
    /\ UNCHANGED claimVars

SubmitCheck(r) ==
    /\ pc[r] = "submit_check"
    /\ LET lines == claim[loc[r].on].lines
       IN  IF lines = <<>> \/ HardViolation(lines) THEN End(r)
           ELSE Goto(r, "update_status", loc[r])
    /\ UNCHANGED claimVars

(* reject: the reason, which no handler reads, is written on the pool, the *)
(* status after it.                                                        *)
RejectLoad(r, u, c) ==
    /\ CanTransition(claim[c].status, "rejected") /\ u \in Writers
    /\ Begin(r, "reject_reason", [on |-> c, to |-> "rejected"])
    /\ UNCHANGED claimVars

RejectReason(r) ==
    /\ pc[r] = "reject_reason"
    /\ Goto(r, "update_status", loc[r])
    /\ UNCHANGED claimVars

(* update_status: the new status whatever the claim's status is by now. *)
UpdateStatus(r) ==
    /\ pc[r] = "update_status"
    /\ claim' = [claim EXCEPT ![loc[r].on].status = loc[r].to]
    /\ End(r)
    /\ UNCHANGED <<gl, levels, rules, staff, balanceTrigger>>

-----------------------------------------------------------------------------
(* The levels a form may name. *)
LevelAsked == {1} \cup {p.level : p \in Levels}

(* approve, by any member: the status as loaded.  A claim that is fully    *)
(* approved gets 409, any other status but these two 400.                  *)
ApproveLoad(r, u, c) ==
    /\ claim[c].status \in {"submitted", "partially_approved"} /\ u \in staff
    /\ \E level \in LevelAsked :
          Begin(r, "approve_policy", [on |-> c, user |-> u, level |-> level])
    /\ UNCHANGED claimVars

ApprovePolicy(r) ==
    /\ pc[r] = "approve_policy"
    /\ IF HardViolation(claim[loc[r].on].lines) THEN End(r)
       ELSE Goto(r, "approve_read", loc[r])
    /\ UNCHANGED claimVars

(* The checks inside the transaction, in their order. *)
MayApprove(u, c, level, required, total) ==
    /\ level \in required
    /\ level \notin RecordedLevels(c)
    /\ u \in EligibleApprovers(ApproverRoleForLevel(level, total))
    /\ ~(LedgerUserCount > 1 /\ claim[c].author = u)

(* BEGIN and the reads: the total, the levels it needs, those recorded.    *)
(* began is the length of gl when now() was fixed.                         *)
ApproveRead(r) ==
    /\ pc[r] = "approve_read"
    /\ LET c == loc[r].on
           total == ClaimTotal(claim[c].lines)
           required == RequiredLevels(total)
       IN  IF MayApprove(loc[r].user, c, loc[r].level, required, total)
           THEN Goto(r, "approve_step",
                     [on |-> c, user |-> loc[r].user, level |-> loc[r].level,
                      required |-> required, began |-> Len(gl[c])])
           ELSE End(r)
    /\ UNCHANGED claimVars

(* INSERT the step and read the recorded levels again: the transaction     *)
(* sees its own step and the committed ones.  UNIQUE (claim, level,        *)
(* approver) makes it wait for the same step of another transaction, and   *)
(* fail once that one has committed.                                       *)
ApproveStep(r) ==
    /\ pc[r] = "approve_step"
    /\ LET d == loc[r]
           step == [level |-> d.level, approver |-> d.user]
       IN  /\ \A q \in WorkingOn(d.on) \ {r} : pc[q] = "approve_commit" =>
                 [level |-> loc[q].level, approver |-> loc[q].user] # step
           /\ IF step \in claim[d.on].steps THEN End(r)
              ELSE Goto(r, "approve_commit",
                        [on |-> d.on, user |-> d.user, level |-> d.level,
                         required |-> d.required, began |-> d.began,
                         full |-> d.required \subseteq
                                    RecordedLevels(d.on) \cup {d.level}])
    /\ UNCHANGED claimVars

(* The approval transaction: per expense account the net of advances and   *)
(* the tax, then the advance that is cleared, then what is owed.           *)
ApprovalLegs(lines) ==
    LET accts == SetToSeq({lines[i].acct : i \in DOMAIN lines})
        On(a) == SelectSeq(lines, LAMBDA l : l.acct = a)
        Tax(a) == SumOf(On(a), LAMBDA l : l.tax)
        net(a) == Debit(a, SumOf(On(a), LAMBDA l : l.amount - l.advance))
        advance == SumOf(lines, LAMBDA l : l.advance)
        owed == SumOf(lines, LAMBDA l : l.amount - l.advance) - advance
    IN  FlattenSeq([i \in DOMAIN accts |->
                       IF Tax(accts[i]) > 0
                       THEN <<net(accts[i]), Debit(accts[i], Tax(accts[i]))>>
                       ELSE <<net(accts[i])>>])
        \o (IF advance > 0 THEN <<Credit("advance", advance)>> ELSE <<>>)
        \o <<Credit("payable", owed)>>

(* Fault: one recorded level is enough. *)
ApproveCommitFirstLevel(r) ==
    /\ pc[r] = "approve_commit"
    /\ LET d == loc[r]
           legs == ApprovalLegs(claim[d.on].lines)
           step == [level |-> d.level, approver |-> d.user]
       IN  /\ claim' = [claim EXCEPT ![d.on].steps = @ \cup {step},
                                     ![d.on].status = "fully_approved"]
           /\ gl' = [gl EXCEPT ![d.on] = Append(@,
                    [kind |-> "approval", began |-> d.began, legs |-> legs,
                     required |-> d.required])]
    /\ End(r)
    /\ UNCHANGED <<levels, rules, staff, balanceTrigger>>

(* The end of approve: partially_approved, or the GL transaction and       *)
(* fully_approved; a refused leg rolls everything back.                    *)
ApproveCommit(r) ==
    /\ pc[r] = "approve_commit"
    /\ LET d == loc[r]
           legs == ApprovalLegs(claim[d.on].lines)
           recorded(status) ==
               [claim EXCEPT
                    ![d.on].steps = @ \cup {[level |-> d.level, approver |-> d.user]},
                    ![d.on].status = status]
       IN  \/ /\ ~d.full
              /\ claim' = recorded("partially_approved")
              /\ UNCHANGED gl
           \/ /\ d.full /\ InsertsPass(legs, balanceTrigger)
              /\ claim' = recorded("fully_approved")
              /\ gl' = [gl EXCEPT ![d.on] = Append(@,
                       [kind |-> "approval", began |-> d.began, legs |-> legs,
                        required |-> d.required])]
           \/ /\ d.full /\ ~InsertsPass(legs, balanceTrigger)
              /\ UNCHANGED <<claim, gl>>
    /\ End(r)
    /\ UNCHANGED <<levels, rules, staff, balanceTrigger>>

-----------------------------------------------------------------------------
(* pay: the status as loaded, and a payout account that holds cash. *)
PayLoad(r, u, c) ==
    /\ CanTransition(claim[c].status, "paid") /\ u \in Writers
    /\ Begin(r, "pay_read", [on |-> c])
    /\ UNCHANGED claimVars

(* ORDER BY created_at DESC LIMIT 1.  created_at is the start of the       *)
(* transaction: a row that was committed before another began is older.    *)
LatestEntries(c) == {i \in DOMAIN gl[c] : \A j \in DOMAIN gl[c] : gl[c][j].began < i}

PayRead(r) ==
    /\ pc[r] = "pay_read"
    /\ LET c == loc[r].on
       IN  \/ /\ gl[c] = <<>> /\ End(r)
           \/ \E i \in LatestEntries(c) :
                 Goto(r, "pay_commit",
                      [on |-> c, began |-> Len(gl[c]),
                       owed |-> Total(SelectSeq(gl[c][i].legs,
                                   LAMBDA leg : leg.account = "payable"), "CREDIT")])
    /\ UNCHANGED claimVars

(* Fault: the payout debits the expense instead of the payable. *)
PayCommitExpense(r) ==
    /\ pc[r] = "pay_commit"
    /\ LET d == loc[r]
           legs == <<Debit("expense", d.owed), Credit("bank", d.owed)>>
       IN  /\ InsertsPass(legs, balanceTrigger)
           /\ claim' = [claim EXCEPT ![d.on].status = "paid"]
           /\ gl' = [gl EXCEPT ![d.on] = Append(@,
                    [kind |-> "payout", began |-> d.began, legs |-> legs])]
    /\ End(r)
    /\ UNCHANGED <<levels, rules, staff, balanceTrigger>>

(* The first INSERT INTO transactions of pay leaves a row without legs, the *)
(* second carries the payout.  Zero is refused by CHECK (amount > 0).      *)
PayCommit(r) ==
    /\ pc[r] = "pay_commit"
    /\ LET d == loc[r]
           legs == <<Debit("payable", d.owed), Credit("bank", d.owed)>>
           entry(kind, ls) == [kind |-> kind, began |-> d.began, legs |-> ls]
       IN  \/ /\ InsertsPass(legs, balanceTrigger)
              /\ claim' = [claim EXCEPT ![d.on].status = "paid"]
              /\ gl' = [gl EXCEPT ![d.on] =
                       @ \o <<entry("blank", <<>>), entry("payout", legs)>>]
           \/ ~InsertsPass(legs, balanceTrigger) /\ UNCHANGED <<claim, gl>>
    /\ End(r)
    /\ UNCHANGED <<levels, rules, staff, balanceTrigger>>

-----------------------------------------------------------------------------
(* handlers/approval_policies.rs, for the owner. *)
PolicyCreate(u, p) ==
    /\ u \in LedgerOwner /\ p \notin levels
    /\ levels' = levels \cup {p}
    /\ raced' = raced \cup {c \in Claim : WorkingOn(c) # {}}
    /\ UNCHANGED <<pc, loc, claim, gl, rules, staff, balanceTrigger>>

PolicyDelete(u, p) ==
    /\ u \in LedgerOwner /\ p \in levels
    /\ levels' = levels \ {p}
    /\ raced' = raced \cup {c \in Claim : WorkingOn(c) # {}}
    /\ UNCHANGED <<pc, loc, claim, gl, rules, staff, balanceTrigger>>

(* An operator inserts a reimbursement_policies row with SQL. *)
OperatorAddsRule(rule) ==
    /\ rule \notin rules
    /\ rules' = rules \cup {rule}
    /\ UNCHANGED <<pc, loc, raced, claim, gl, levels, staff, balanceTrigger>>

ClaimStep(r) ==
    \/ AddLineInsert(r) \/ SubmitCheck(r)
    \/ RejectReason(r) \/ UpdateStatus(r) \/ ApprovePolicy(r)
    \/ ApproveRead(r) \/ ApproveStep(r) \/ ApproveCommit(r)
    \/ PayRead(r) \/ PayCommit(r)
    \/ CutOff(r) /\ UNCHANGED claimVars

ClaimBegin(r, u, c) ==
    \/ ClaimCreate(r, u, c) \/ AddLineLoad(r, u, c) \/ SubmitLoad(r, u, c)
    \/ OcrApply(r, u, c) \/ RejectLoad(r, u, c) \/ ApproveLoad(r, u, c) \/ PayLoad(r, u, c)

ClaimsNext ==
    \/ \E r \in Req : ClaimStep(r)
    \/ \E r \in Req, u \in ClaimUser, c \in Claim : ClaimBegin(r, u, c)
    \/ \E u \in ClaimUser, p \in Levels : PolicyCreate(u, p) \/ PolicyDelete(u, p)
    \/ \E rule \in Rules : OperatorAddsRule(rule)

ClaimsSpec == InitRequests /\ InitClaims /\ [][ClaimsNext]_<<reqVars, claimVars>>

-----------------------------------------------------------------------------
(* What the claim's page (show) offers: the levels this user may approve.  *)
ApproveLevelsShown(u, c) ==
    LET total == ClaimTotal(claim[c].lines)
    IN  {l \in RequiredLevels(total) \ RecordedLevels(c) :
            /\ u \in EligibleApprovers(ApproverRoleForLevel(l, total))
            /\ LedgerUserCount <= 1 \/ claim[c].author # u}

(* A receipt was scanned into a line of a claim that was decided already. *)
ScannedLate(c) ==
    \E x \in claim[c].scanned : x[2] \notin {"draft", "submitted", "partially_approved"}

Entries(c, kind) == {i \in DOMAIN gl[c] : gl[c][i].kind = kind}

(* Claims, their lines and steps have the shape the tables give them; a    *)
(* claim that has left the drafts has a line.                              *)
ClaimsTypeOK ==
    \A c \in Claim : claim[c] # NoClaim =>
        /\ claim[c].status \in ClaimStatus
        /\ claim[c].author \in ClaimUser
        /\ claim[c].status # "draft" => claim[c].lines # <<>>
        /\ \A s \in claim[c].steps : s.approver \in ClaimUser

(* "post the GL transaction exactly once" (approve), and pay once: unless  *)
(* two requests for the claim overlapped, it has at most one approval and  *)
(* one payout in the journal.                                              *)
ClaimPostedOnce ==
    \A c \in Claim \ raced :
        Cardinality(Entries(c, "approval")) <= 1 /\ Cardinality(Entries(c, "payout")) <= 1

(* pay takes from the payable what approve put there: a paid claim owes    *)
(* nothing, unless two requests for it overlapped or a receipt's line came *)
(* after the approval.                                                     *)
PaidClaimOwesNothing ==
    \A c \in Claim \ raced : claim[c].status = "paid" /\ ~ScannedLate(c) =>
        Net(FlattenSeq([i \in DOMAIN gl[c] |-> gl[c][i].legs]), "payable") = 0

(* Whatever overlaps: money leaves only for a claim whose approval is in   *)
(* the journal, that approval had every level it required, and in a ledger *)
(* of several users none of the claim's levels was recorded by its author  *)
(* or by someone outside the roles that may approve.                       *)
ApprovedByOthers ==
    \A c \in Claim :
        /\ Entries(c, "payout") # {} => Entries(c, "approval") # {}
        /\ \A i \in Entries(c, "approval") : gl[c][i].required \subseteq RecordedLevels(c)
        /\ claim[c] # NoClaim => \A s \in claim[c].steps :
              /\ s.approver \in EligibleApprovers("Accountant")
              /\ Cardinality(staff) > 1 => s.approver # claim[c].author

(* The page never offers a level that approve would refuse, and offers     *)
(* every level it would record (show against approve).                     *)
OfferedIsAccepted ==
    \A c \in Claim, u \in staff : claim[c] # NoClaim =>
        LET total == ClaimTotal(claim[c].lines)
        IN  ApproveLevelsShown(u, c) =
                {l \in LevelAsked : MayApprove(u, c, l, RequiredLevels(total), total)}

(* Only the edges of can_transition_to, although approve, pay and          *)
(* update_status write the status without asking it: for a claim on which  *)
(* no two requests overlapped.  After the draft only a receipt adds lines. *)
ClaimFollowsStateMachine ==
    [][\A c \in Claim \ raced' :
          /\ claim[c] # NoClaim /\ claim'[c].status # claim[c].status =>
                CanTransition(claim[c].status, claim'[c].status)
          /\ claim[c] # NoClaim /\ claim[c].status # "draft"
             /\ claim'[c].scanned = claim[c].scanned =>
                claim'[c].lines = claim[c].lines]_<<claim, raced>>

(* The level that completes a claim posts it: no claim is left with every  *)
(* level recorded and no transaction, unless requests overlapped.          *)
LastLevelPosts ==
    [][\A c \in Claim \ raced' :
          claim[c] # NoClaim /\ claim'[c].steps # claim[c].steps =>
            (claim'[c].status = "fully_approved" <=>
                RequiredLevels(ClaimTotal(claim[c].lines)) \subseteq
                    {s.level : s \in claim'[c].steps})]_<<claim, raced>>

(* A claim is posted once, by levels that others recorded, and paid what   *)
(* its approval put on the payable.                                        *)
ClaimsSound ==
    /\ ClaimsTypeOK
    /\ ClaimPostedOnce
    /\ PaidClaimOwesNothing
    /\ ApprovedByOthers
    /\ OfferedIsAccepted

(* A claim goes through its levels: along the edges of the state machine,  *)
(* and with the posting at the level that completes it.                    *)
ClaimsTakeEachLevel == ClaimFollowsStateMachine /\ LastLevelPosts
=============================================================================
