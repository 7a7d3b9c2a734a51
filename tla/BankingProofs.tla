--------------------------- MODULE BankingProofs ---------------------------
(***************************************************************************)
(* Proofs about bank feeds, statements, reconciliation sessions and rules, *)
(* for any number of requests, feed transactions, rows and sessions.       *)
(***************************************************************************)
EXTENDS Banking, RequestsProofs

-----------------------------------------------------------------------------
(* Feeds: what a sync holds is behind it booked, whatever another sync has *)
(* done since it read the cursor.                                          *)
Booked(n) == n \in 0..provider /\ \A i \in (1..n) \ Unreadable : feedTxn[i] = 1

Page(d) == d = [on |-> "link", by |-> d.by, next |-> d.next, upto |-> d.upto]

SyncHolds(r) ==
    /\ pc[r] \in {"webhook", "fetch", "import", "import_write"} => loc[r].on = "link"
    /\ pc[r] = "fetch" => Booked(loc[r].cursor)
    /\ pc[r] \in {"import", "import_write"} =>
          /\ Page(loc[r])
          /\ loc[r].next \in Nat \ {0} /\ Booked(loc[r].next - 1)
          /\ loc[r].upto \in 0..provider
          /\ loc[r].next <= loc[r].upto + 1
    /\ pc[r] = "import_write" => loc[r].next <= loc[r].upto

FeedOK ==
    /\ provider \in 0..MaxFeed
    /\ feedTxn \in [1..MaxFeed -> 0..1]
    /\ link \in [status : {"active", "error", "disconnected"}, cursor : Nat]
    /\ Booked(link.cursor)
    /\ \A r \in Req : SyncHolds(r)

(* Statements: an upload that nothing overlaps still finds no row of a     *)
(* line it has looked up, unless the bank's id or the description is odd.  *)
LinesOK ==
    /\ lines \in [Statement -> Nat]
    /\ \A r \in Req : pc[r] = "upload" =>
          /\ loc[r].on \in Statement
          /\ loc[r].on \in PlainText \ raced => lines[loc[r].on] = 0
    /\ \A e \in BankId \cup (PlainText \ raced) : lines[e] <= 1

(* Sessions: without an overlap nothing but a reopening is under way on a  *)
(* closed one, and a difference that was found to be zero is still zero.   *)
SessionRow(s) ==
    \/ recon[s] = Absent /\ cleared[s] = {}
    \/ /\ recon[s].status \in {"open", "closed"}
       /\ recon[s] = [status |-> recon[s].status, close |-> recon[s].close,
                      opening |-> recon[s].opening]

SessionHolds(r) ==
    /\ pc[r] = "create" => loc[r].on \in StmtSession
    /\ pc[r] \in {"mark", "finish_sum", "finish_write", "unreconcile"} =>
          /\ loc[r].on \in StmtSession
          /\ recon[loc[r].on].status \in {"open", "closed"}
          /\ loc[r].on \notin raced =>
                /\ pc[r] # "unreconcile" => ~Closed(loc[r].on)
                /\ pc[r] = "finish_write" => Difference(loc[r].on) = 0

SessionsOK ==
    /\ DOMAIN recon = StmtSession /\ DOMAIN cleared = StmtSession
    /\ \A s \in StmtSession : SessionRow(s)
    /\ \A r \in Req : SessionHolds(r)
    /\ ClosedSessionTies

(* Lines matched to transactions, and rules. *)
MatchesOK ==
    /\ matched \in [Row -> {Absent} \cup [status : {"matched", "excluded"}, txn : BankTxn]]
    /\ MatchedIsReconciled

RulesOK ==
    /\ category \in [BankTxn -> Category]
    /\ \A r \in Req : pc[r] = "apply_rules" =>
          /\ loc[r].on = "books" /\ loc[r].to \in Category
          /\ "books" \notin raced => \A t \in BankTxn \cap loc[r].chosen : ~InClosedYear(t)

BankingInv == RequestsOK /\ FeedOK /\ LinesOK /\ SessionsOK /\ MatchesOK /\ RulesOK

-----------------------------------------------------------------------------
(* Frames: each part of the invariant survives a step that leaves its own  *)
(* rows alone and gives request r none of its labels, or what it had.      *)
FeedLabels == {"webhook", "fetch", "import", "import_write"}
SessionLabels == {"create", "mark", "finish_sum", "finish_write", "unreconcile"}

LEMMA FeedFrame ==
    ASSUME FeedOK, UNCHANGED feedVars, NEW r \in Req, Keeps(r),
           StaysOrEnds(r) \/ pc'[r] \notin FeedLabels
    PROVE  FeedOK'
<1>1. \A n : Booked(n)' <=> Booked(n)
    BY DEF Booked, feedVars
<1>2. \A q \in Req : SyncHolds(q)'
    BY <1>1 DEF FeedOK, SyncHolds, Keeps, StaysOrEnds, FeedLabels, feedVars
<1> QED BY <1>1, <1>2 DEF FeedOK, feedVars

LEMMA LinesFrame ==
    ASSUME LinesOK, UNCHANGED lines, NEW r \in Req, Keeps(r),
           StaysOrEnds(r) \/ pc'[r] # "upload"
    PROVE  LinesOK'
    BY DEF LinesOK, Keeps, StaysOrEnds

LEMMA SessionsFrame ==
    ASSUME SessionsOK, UNCHANGED reconVars, NEW r \in Req, Keeps(r),
           StaysOrEnds(r) \/ pc'[r] \notin SessionLabels
    PROVE  SessionsOK'
<1>1. \A s \in StmtSession : /\ Difference(s)' = Difference(s)
                             /\ Closed(s)' <=> Closed(s)
                             /\ SessionRow(s)' <=> SessionRow(s)
    BY DEF Difference, ClearedSum, Closed, SessionRow, reconVars
<1>2. \A q \in Req : SessionHolds(q)'
    BY <1>1 DEF SessionsOK, SessionHolds, Keeps, StaysOrEnds, SessionLabels, reconVars
<1>3. ClosedSessionTies'
    BY <1>1 DEF SessionsOK, ClosedSessionTies, Keeps
<1> QED BY <1>1, <1>2, <1>3 DEF SessionsOK, reconVars

LEMMA MatchesFrame ==
    ASSUME MatchesOK, UNCHANGED <<matched, reconciled>> PROVE MatchesOK'
    BY DEF MatchesOK, MatchedIsReconciled

LEMMA RulesFrame ==
    ASSUME RulesOK, UNCHANGED <<category, closedThrough>>, NEW r \in Req, Keeps(r),
           StaysOrEnds(r) \/ pc'[r] # "apply_rules"
    PROVE  RulesOK'
<1>1. \A t : InClosedYear(t)' <=> InClosedYear(t) BY DEF InClosedYear
<1> QED BY <1>1 DEF RulesOK, Keeps, StaysOrEnds

(* The whole invariant, when no row changes and r goes nowhere new. *)
LEMMA AllFrame ==
    ASSUME BankingInv, UNCHANGED bankVars, NEW r \in Req, StaysOrEnds(r)
    PROVE  BankingInv'
<1> USE DEF BankingInv
<1>1. Keeps(r) /\ RequestsOK'
    BY DEF StaysOrEnds, Keeps
<1>2. UNCHANGED <<feedVars, lines, reconVars, matched, reconciled, category, closedThrough>>
    BY DEF bankVars, bookVars
<1>3. FeedOK' BY <1>1, <1>2, FeedFrame
<1>4. LinesOK' BY <1>1, <1>2, LinesFrame
<1>5. SessionsOK' BY <1>1, <1>2, SessionsFrame
<1>6. MatchesOK' BY <1>2, MatchesFrame
<1>7. RulesOK' BY <1>1, <1>2, RulesFrame
<1> QED BY <1>1, <1>3, <1>4, <1>5, <1>6, <1>7

LEMMA CutOffOK ==
    ASSUME BankingInv, NEW r \in Req, BankCutOff(r) PROVE BankingInv'
    BY AllFrame, EndKeeps DEF BankCutOff, CutOff, BankingInv

-----------------------------------------------------------------------------
(* Feeds.  Everything but FeedOK is framed. *)
LEMMA FeedSuffices ==
    ASSUME BankingInv, NEW r \in Req, Keeps(r), FeedOK',
           UNCHANGED <<lines, reconVars, bookVars>>,
           StaysOrEnds(r) \/ pc'[r] \in FeedLabels
    PROVE  BankingInv'
<1> USE DEF BankingInv
<1>1. RequestsOK' BY DEF Keeps
<1>2. UNCHANGED <<matched, reconciled, category, closedThrough>> BY DEF bookVars
<1>3. StaysOrEnds(r) \/ pc'[r] \notin SessionLabels \cup {"upload", "apply_rules"}
    BY DEF FeedLabels, SessionLabels
<1>4. LinesOK' BY <1>3, LinesFrame
<1>5. SessionsOK' BY <1>3, SessionsFrame
<1>6. MatchesOK' BY <1>2, MatchesFrame
<1>7. RulesOK' BY <1>2, <1>3, RulesFrame
<1> QED BY <1>1, <1>4, <1>5, <1>6, <1>7

(* Booked(n) outlives what the bank and other syncs do. *)
LEMMA BookedGrows ==
    ASSUME FeedOK, NEW n, Booked(n), provider' \in 0..MaxFeed,
           provider <= provider', \A i \in 1..MaxFeed : feedTxn[i] = 1 => feedTxn'[i] = 1
    PROVE  Booked(n)'
    BY BankingAssumption DEF FeedOK, Booked

(* FeedOK after a step of r: its rows grow, and r holds what it must. *)
LEMMA FeedGrows ==
    ASSUME FeedOK, NEW r \in Req, Keeps(r),
           provider' \in 0..MaxFeed, provider <= provider',
           feedTxn' \in [1..MaxFeed -> 0..1],
           \A i \in 1..MaxFeed : feedTxn[i] = 1 => feedTxn'[i] = 1,
           link' \in [status : {"active", "error", "disconnected"}, cursor : Nat],
           Booked(link.cursor)' , SyncHolds(r)'
    PROVE  FeedOK'
<1>1. \A n : Booked(n) => Booked(n)'
    BY BookedGrows
<1>2. \A n \in 0..provider : n \in 0..provider'
    BY BankingAssumption DEF FeedOK
<1>3. ASSUME NEW q \in Req \ {r} PROVE SyncHolds(q)'
    BY <1>1, <1>2 DEF FeedOK, SyncHolds, Keeps
<1> QED BY <1>3 DEF FeedOK

LEMMA ProviderOK ==
    ASSUME BankingInv, ProviderBooks PROVE BankingInv'
<1> USE DEF BankingInv
<1>1. /\ UNCHANGED <<pc, loc, raced, lines, reconVars, matched, reconciled, category,
                     closedThrough, link, feedTxn>>
      /\ provider < MaxFeed /\ provider' = provider + 1
    BY DEF ProviderBooks, reqVars, bookVars
<1>2. RequestsOK' BY <1>1 DEF RequestsOK, Busy
<1>3. provider' \in 0..MaxFeed /\ provider <= provider'
    BY <1>1, BankingAssumption DEF FeedOK
<1>4. \A n : Booked(n) => Booked(n)'
    BY <1>1, <1>3, BookedGrows
<1>5. \A n \in 0..provider : n \in 0..provider'
    BY <1>3, BankingAssumption DEF FeedOK
<1>6. \A q \in Req : SyncHolds(q)'
    BY <1>1, <1>4, <1>5 DEF FeedOK, SyncHolds
<1>7. FeedOK' BY <1>1, <1>3, <1>4, <1>6 DEF FeedOK
<1>8. LinesOK' BY <1>1 DEF LinesOK
<1>9. \A s \in StmtSession : /\ Difference(s)' = Difference(s)
                             /\ Closed(s)' <=> Closed(s)
                             /\ SessionRow(s)' <=> SessionRow(s)
    BY <1>1 DEF Difference, ClearedSum, Closed, SessionRow, reconVars
<1>10. SessionsOK'
    BY <1>1, <1>9 DEF SessionsOK, SessionHolds, ClosedSessionTies, reconVars
<1>11. MatchesOK' BY <1>1, MatchesFrame
<1>12. RulesOK' BY <1>1 DEF RulesOK, InClosedYear
<1> QED BY <1>2, <1>7, <1>8, <1>10, <1>11, <1>12

LEMMA SyncStartOK ==
    ASSUME BankingInv, NEW r \in Req, NEW by, SyncStart(r, by) PROVE BankingInv'
<1> DEFINE d == [on |-> "link", by |-> by, cursor |-> link.cursor]
<1>1. Keeps(r) /\ pc'[r] = "fetch" /\ loc'[r] = d
    BY BeginKeeps DEF SyncStart, BankingInv
<1>2. UNCHANGED <<provider, link, feedTxn, lines, reconVars, bookVars>>
    BY DEF SyncStart, bankVars, feedVars
<1>3. Booked(link.cursor)'
    BY <1>2 DEF BankingInv, FeedOK, Booked
<1>4. SyncHolds(r)'
    BY <1>1, <1>2, <1>3 DEF SyncHolds, Booked
<1>5. FeedOK'
    BY <1>1, <1>2, <1>3, <1>4, FeedGrows DEF BankingInv, FeedOK
<1> QED BY <1>1, <1>2, <1>5, FeedSuffices DEF FeedLabels

LEMMA WebhookFindOK ==
    ASSUME BankingInv, NEW r \in Req, WebhookFind(r) PROVE BankingInv'
<1>1. Keeps(r) /\ pc'[r] = "webhook" /\ loc'[r] = [on |-> "link"]
    BY BeginKeeps DEF WebhookFind, BankingInv
<1>2. UNCHANGED <<provider, link, feedTxn, lines, reconVars, bookVars>>
    BY DEF WebhookFind, bankVars, feedVars
<1>3. Booked(link.cursor)'
    BY <1>2 DEF BankingInv, FeedOK, Booked
<1>4. SyncHolds(r)'
    BY <1>1 DEF SyncHolds
<1>5. FeedOK'
    BY <1>1, <1>2, <1>3, <1>4, FeedGrows DEF BankingInv, FeedOK
<1> QED BY <1>1, <1>2, <1>5, FeedSuffices DEF FeedLabels

LEMMA WebhookSyncOK ==
    ASSUME BankingInv, NEW r \in Req, WebhookSync(r) PROVE BankingInv'
<1> DEFINE d == [on |-> "link", by |-> "request", cursor |-> link.cursor]
<1>0. pc[r] = "webhook" /\ loc[r].on = "link"
    BY DEF WebhookSync, BankingInv, FeedOK, SyncHolds
<1>1. Keeps(r) /\ pc'[r] = "fetch" /\ loc'[r] = d
    BY <1>0, GotoKeeps DEF WebhookSync, BankingInv
<1>2. UNCHANGED <<provider, link, feedTxn, lines, reconVars, bookVars>>
    BY DEF WebhookSync, bankVars, feedVars
<1>3. Booked(link.cursor)'
    BY <1>2 DEF BankingInv, FeedOK, Booked
<1>4. SyncHolds(r)'
    BY <1>1, <1>2, <1>3 DEF SyncHolds, Booked
<1>5. FeedOK'
    BY <1>1, <1>2, <1>3, <1>4, FeedGrows DEF BankingInv, FeedOK
<1> QED BY <1>1, <1>2, <1>5, FeedSuffices DEF FeedLabels

(* A sync that ends with an error, or an unlinking: the cursor stays. *)
LEMMA LinkKeepsCursor ==
    ASSUME BankingInv, NEW r \in Req, StaysOrEnds(r),
           UNCHANGED <<provider, feedTxn, lines, reconVars, bookVars>>,
           NEW st \in {"error", "disconnected"},
           link' = link \/ link' = [link EXCEPT !.status = st]
    PROVE  BankingInv'
<1>1. Keeps(r) BY DEF StaysOrEnds
<1>2. link' \in [status : {"active", "error", "disconnected"}, cursor : Nat]
      /\ link'.cursor = link.cursor
    BY DEF BankingInv, FeedOK
<1>3. \A n : Booked(n)' <=> Booked(n)
    BY DEF Booked
<1>4. Booked(link.cursor)'
    BY <1>2, <1>3 DEF BankingInv, FeedOK, Booked
<1>5. SyncHolds(r)'
    BY <1>3 DEF SyncHolds, StaysOrEnds, BankingInv, FeedOK
<1>6. FeedOK'
    BY <1>1, <1>2, <1>4, <1>5, FeedGrows DEF BankingInv, FeedOK
<1> QED BY <1>1, <1>6, FeedSuffices

LEMMA UnlinkOK ==
    ASSUME BankingInv, NEW r \in Req, Unlink(r) PROVE BankingInv'
    BY ServeKeeps, LinkKeepsCursor DEF Unlink, BankingInv

LEMMA SyncFailsOK ==
    ASSUME BankingInv, NEW r \in Req, SyncFails(r),
           UNCHANGED <<provider, feedTxn, lines, reconVars, bookVars>>
    PROVE  BankingInv'
    BY EndKeeps, LinkKeepsCursor DEF SyncFails, BankingInv

(* The page that is fetched begins after what is booked. *)
LEMMA SyncFetchOK ==
    ASSUME BankingInv, NEW r \in Req, SyncFetch(r) PROVE BankingInv'
<1> DEFINE d == [on |-> "link", by |-> loc[r].by, next |-> loc[r].cursor + 1,
                 upto |-> provider]
<1>0. /\ pc[r] = "fetch" /\ loc[r].on = "link" /\ Booked(loc[r].cursor)
      /\ UNCHANGED <<provider, feedTxn, lines, reconVars, bookVars>>
    BY DEF SyncFetch, BankingInv, FeedOK, SyncHolds
<1>1. CASE SyncFails(r) BY <1>0, <1>1, SyncFailsOK
<1>2. CASE Goto(r, "import", d) /\ UNCHANGED link
  <2>1. Keeps(r) /\ pc'[r] = "import" /\ loc'[r] = d
      BY <1>0, <1>2, GotoKeeps DEF BankingInv
  <2>2. Booked(link.cursor)'
      BY <1>0, <1>2 DEF BankingInv, FeedOK, Booked
  <2>3. provider \in Nat /\ loc[r].cursor \in 0..provider
      BY <1>0, BankingAssumption DEF BankingInv, FeedOK, Booked
  <2>4. /\ Page(loc[r])'
        /\ loc'[r].next \in Nat \ {0} /\ Booked(loc[r].next - 1)'
        /\ loc'[r].upto \in 0..provider' /\ loc'[r].next <= loc'[r].upto + 1
      BY <1>0, <2>1, <2>3 DEF Booked, Page
  <2>5. SyncHolds(r)'
      BY <2>1, <2>4 DEF SyncHolds
  <2>6. FeedOK'
      BY <1>0, <1>2, <2>1, <2>2, <2>3, <2>5, FeedGrows DEF BankingInv, FeedOK
  <2> QED BY <1>0, <2>1, <2>6, FeedSuffices DEF FeedLabels
<1> QED BY <1>1, <1>2 DEF SyncFetch

(* After a page's item i is seen to be booked, the sync holds Booked(i). *)
LEMMA NextItem ==
    ASSUME BankingInv, NEW r \in Req, RequestsOK',
           pc[r] \in {"import", "import_write"}, loc[r].next <= loc[r].upto,
           Goto(r, "import", [loc[r] EXCEPT !.next = @ + 1]),
           UNCHANGED <<provider, link, lines, reconVars, bookVars>>,
           feedTxn' \in [1..MaxFeed -> 0..1],
           \A i \in 1..MaxFeed : feedTxn[i] = 1 => feedTxn'[i] = 1,
           loc[r].next \in Unreadable \/ feedTxn'[loc[r].next] = 1
    PROVE  BankingInv'
<1> DEFINE d == [loc[r] EXCEPT !.next = @ + 1]
<1>i. PICK i : i = loc[r].next OBVIOUS
<1>0. /\ loc[r].on = "link" /\ Booked(i - 1) /\ i \in Nat \ {0} /\ Page(loc[r])
      /\ loc[r].upto \in 0..provider /\ i <= loc[r].upto
    BY <1>i DEF BankingInv, FeedOK, SyncHolds
<1>1. provider \in Nat /\ provider <= MaxFeed /\ i \in 1..provider
    BY <1>0, BankingAssumption DEF BankingInv, FeedOK
<1>a. FeedOK /\ provider' \in 0..MaxFeed /\ provider <= provider' /\ link' = link
    BY <1>1 DEF BankingInv, FeedOK
<1>b. Booked(link.cursor) BY DEF BankingInv, FeedOK
<1>c. \A n : Booked(n) => Booked(n)' BY <1>a, BookedGrows
<1>2. (\A n : n = link.cursor => Booked(n)') /\ Booked(i - 1)'
    BY <1>0, <1>b, <1>c
<1>3. Booked(i)'
  <2>1. \A k \in 1..i : k = i \/ k \in 1..(i - 1)
      BY <1>1
  <2> QED BY <1>1, <1>2, <1>i, <2>1 DEF Booked
<1>d. Booked(link.cursor)' BY <1>2, <1>a DEF Booked
<1>4. d = [on |-> "link", by |-> loc[r].by, next |-> i + 1, upto |-> loc[r].upto]
    BY <1>0, <1>i DEF Page
<1>5. Keeps(r) /\ pc'[r] = "import" /\ loc'[r] = d
    BY <1>0, <1>4, GotoKeeps DEF BankingInv
<1>6. SyncHolds(r)'
  <2>1. loc'[r].next = i + 1 /\ loc'[r].upto = loc[r].upto /\ loc'[r].on = "link"
        /\ Page(loc[r])'
      BY <1>4, <1>5 DEF Page
  <2>2. (i + 1) - 1 = i /\ i + 1 \in Nat \ {0} /\ i + 1 <= loc[r].upto + 1
        /\ loc[r].upto \in 0..provider'
      BY <1>0, <1>1
  <2>3. Booked(loc[r].next - 1)'
      BY <1>3, <2>1, <2>2 DEF Booked
  <2> QED BY <1>5, <2>1, <2>2, <2>3 DEF SyncHolds
<1>7. FeedOK'
    BY <1>1, <1>d, <1>5, <1>6, FeedGrows DEF BankingInv, FeedOK
<1> QED BY <1>5, <1>7, FeedSuffices DEF FeedLabels

LEMMA ImportCheckOK ==
    ASSUME BankingInv, NEW r \in Req, ImportCheck(r) PROVE BankingInv'
<1> DEFINE i == loc[r].next
<1>0. /\ pc[r] = "import" /\ i <= loc[r].upto /\ SyncHolds(r) /\ i \in Nat \ {0}
      /\ UNCHANGED <<provider, link, feedTxn, lines, reconVars, bookVars>>
      /\ loc[r].upto \in 0..provider
    BY DEF ImportCheck, BankingInv, FeedOK, SyncHolds, bankVars, feedVars
<1>1. i \in 1..MaxFeed /\ feedTxn[i] \in 0..1 /\ provider \in Nat
    BY <1>0, BankingAssumption DEF BankingInv, FeedOK
<1>2. CASE i \in Unreadable \/ feedTxn[i] > 0
  <2>1. /\ Goto(r, "import", [loc[r] EXCEPT !.next = @ + 1])
        /\ i \in Unreadable \/ feedTxn[i] = 1
      BY <1>1, <1>2 DEF ImportCheck
  <2>2. RequestsOK'
      BY <1>0, <2>1, GotoKeeps DEF BankingInv, Keeps, SyncHolds, Page
  <2> QED BY <1>0, <2>1, <2>2, NextItem DEF BankingInv, FeedOK
<1>3. CASE ~(i \in Unreadable \/ feedTxn[i] > 0)
  <2>1. Goto(r, "import_write", loc[r])
      BY <1>3 DEF ImportCheck
  <2>2. Keeps(r) /\ pc'[r] = "import_write" /\ loc'[r] = loc[r]
      BY <1>0, <2>1, GotoKeeps DEF BankingInv
  <2>3. \A n : Booked(n)' <=> Booked(n)
      BY <1>0 DEF Booked
  <2>4. Booked(link.cursor)'
      BY <1>0, <2>3 DEF BankingInv, FeedOK, Booked
  <2>5. SyncHolds(r)'
      BY <1>0, <2>2, <2>3 DEF SyncHolds
  <2>6. FeedOK'
      BY <1>0, <1>1, <2>2, <2>4, <2>5, FeedGrows DEF BankingInv, FeedOK
  <2> QED BY <1>0, <2>2, <2>6, FeedSuffices DEF FeedLabels
<1> QED BY <1>2, <1>3

(* The item is booked, or refused and the sync fails. *)
LEMMA ImportWriteOK ==
    ASSUME BankingInv, NEW r \in Req, ImportWrite(r) PROVE BankingInv'
<1> DEFINE i == loc[r].next
<1>0. /\ pc[r] = "import_write" /\ i <= loc[r].upto /\ Page(loc[r]) /\ i \in Nat \ {0}
      /\ UNCHANGED <<provider, lines, reconVars, bookVars>>
      /\ loc[r].upto \in 0..provider
    BY DEF ImportWrite, BankingInv, FeedOK, SyncHolds
<1>1. i \in 1..MaxFeed /\ feedTxn[i] \in 0..1 /\ provider \in Nat
    BY <1>0, BankingAssumption DEF BankingInv, FeedOK
<1>2. CASE i \in ZeroItem \/ feedTxn[i] > 0
    BY <1>0, <1>2, SyncFailsOK DEF ImportWrite
<1>3. CASE ~(i \in ZeroItem \/ feedTxn[i] > 0)
  <2>1. /\ feedTxn' = [feedTxn EXCEPT ![i] = @ + 1] /\ feedTxn[i] = 0
        /\ Goto(r, "import", [loc[r] EXCEPT !.next = @ + 1]) /\ UNCHANGED link
      BY <1>1, <1>3 DEF ImportWrite
  <2>2. RequestsOK'
      BY <1>0, <2>1, GotoKeeps DEF BankingInv, Keeps, Page
  <2>3. /\ feedTxn' \in [1..MaxFeed -> 0..1] /\ feedTxn'[i] = 1
        /\ \A k \in 1..MaxFeed : feedTxn[k] = 1 => feedTxn'[k] = 1
      BY <1>1, <2>1 DEF BankingInv, FeedOK
  <2> QED BY <1>0, <2>1, <2>2, <2>3, NextItem
<1> QED BY <1>2, <1>3

(* The cursor is saved when all of the page is booked. *)
LEMMA SyncCursorOK ==
    ASSUME BankingInv, NEW r \in Req, SyncCursor(r) PROVE BankingInv'
<1>0. /\ pc[r] = "import" /\ loc[r].next > loc[r].upto /\ Booked(loc[r].next - 1)
      /\ loc[r].upto \in 0..provider /\ loc[r].next \in Nat \ {0}
      /\ loc[r].next <= loc[r].upto + 1 /\ provider \in Nat
      /\ link' = [link EXCEPT !.cursor = loc[r].upto] /\ End(r)
      /\ UNCHANGED <<provider, feedTxn, lines, reconVars, bookVars>>
    BY BankingAssumption DEF SyncCursor, BankingInv, FeedOK, SyncHolds
<1>1. StaysOrEnds(r) /\ Keeps(r) /\ pc'[r] = "idle"
    BY <1>0, EndKeeps DEF BankingInv, StaysOrEnds
<1>2. loc[r].next - 1 = loc[r].upto /\ provider \in Nat
    BY <1>0
<1>3. link' \in [status : {"active", "error", "disconnected"}, cursor : Nat]
      /\ link'.cursor = loc[r].upto
    BY <1>0, <1>2 DEF BankingInv, FeedOK
<1>4. Booked(link.cursor)'
    BY <1>0, <1>2, <1>3 DEF Booked
<1>5. SyncHolds(r)'
    BY <1>1 DEF SyncHolds
<1>6. FeedOK'
    BY <1>0, <1>1, <1>2, <1>3, <1>4, <1>5, FeedGrows DEF BankingInv, FeedOK
<1> QED BY <1>0, <1>1, <1>6, FeedSuffices

LEMMA FeedNextOK ==
    ASSUME BankingInv, FeedNext PROVE BankingInv'
    BY ProviderOK, SyncStartOK, WebhookFindOK, WebhookSyncOK, UnlinkOK, SyncFetchOK,
       ImportCheckOK, ImportWriteOK, SyncCursorOK, CutOffOK
    DEF FeedNext, SyncBegin, SyncNow

-----------------------------------------------------------------------------
(* Statements. *)
LEMMA UploadReadOK ==
    ASSUME BankingInv, NEW r \in Req, NEW e \in Statement, UploadRead(r, e)
    PROVE  BankingInv'
<1>0. UNCHANGED <<bankVars, feedVars, lines, reconVars, matched, reconciled, category,
                  closedThrough>>
    BY DEF UploadRead, bankVars, bookVars
<1>1. CASE Known(e)
    BY <1>0, <1>1, ServeKeeps, AllFrame DEF UploadRead, BankingInv
<1>2. CASE ~Known(e)
  <2>1. Keeps(r) /\ pc'[r] = "upload" /\ loc'[r] = [on |-> e]
      BY <1>2, BeginKeeps DEF UploadRead, BankingInv
  <2>2. e \in PlainText => lines[e] = 0
      BY <1>2 DEF BankingInv, LinesOK, Known
  <2>3. LinesOK'
      BY <1>0, <2>1, <2>2 DEF BankingInv, LinesOK, Keeps
  <2>4. FeedOK' BY <1>0, <2>1, FeedFrame DEF BankingInv, FeedLabels
  <2>5. SessionsOK' BY <1>0, <2>1, SessionsFrame DEF BankingInv, SessionLabels
  <2>6. MatchesOK' /\ RulesOK' BY <1>0, <2>1, MatchesFrame, RulesFrame DEF BankingInv
  <2> QED BY <2>1, <2>3, <2>4, <2>5, <2>6 DEF BankingInv, Keeps
<1> QED BY <1>1, <1>2

(* The line is inserted for good: an overlapping upload of the same line   *)
(* has made it raced, or the bank's id makes the second insert a no-op.    *)
LEMMA UploadCommitOK ==
    ASSUME BankingInv, NEW r \in Req, UploadCommit(r) PROVE BankingInv'
<1>0. UNCHANGED <<feedVars, reconVars, matched, reconciled, category, closedThrough>>
    BY DEF UploadCommit, bookVars
<1>1. StaysOrEnds(r) /\ Keeps(r) /\ pc'[r] = "idle" /\ raced' = raced
    BY EndKeeps DEF UploadCommit, BankingInv, StaysOrEnds
<1>2. PICK e : e = loc[r].on OBVIOUS
<1>3. /\ pc[r] = "upload" /\ e \in Statement /\ lines[e] \in Nat
      /\ e \in PlainText \ raced => lines[e] = 0
      /\ lines' = IF e \in BankId /\ lines[e] > 0 THEN lines
                  ELSE [lines EXCEPT ![e] = @ + 1]
    BY <1>2 DEF UploadCommit, BankingInv, LinesOK
<1>4. /\ lines' \in [Statement -> Nat]
      /\ \A f \in Statement \ {e} : lines'[f] = lines[f]
      /\ e \in BankId \cup (PlainText \ raced) => lines'[e] <= 1
    BY <1>3 DEF BankingInv, LinesOK
<1>5. \A q \in Req \ {r} : pc[q] = "upload" /\ loc[q].on = e => e \in raced
    BY <1>2, <1>3 DEF BankingInv, RequestsOK, Busy
<1>6. \A f \in BankId \cup (PlainText \ raced) : f \in Statement
    BY BankingAssumption
<1>7. LinesOK'
    BY <1>1, <1>3, <1>4, <1>5, <1>6 DEF BankingInv, LinesOK, Keeps
<1>8. FeedOK' /\ SessionsOK' /\ MatchesOK' /\ RulesOK'
    BY <1>0, <1>1, FeedFrame, SessionsFrame, MatchesFrame, RulesFrame DEF BankingInv
<1> QED BY <1>1, <1>7, <1>8 DEF BankingInv, Keeps

LEMMA StatementNextOK ==
    ASSUME BankingInv, StatementNext PROVE BankingInv'
    BY UploadReadOK, UploadCommitOK, CutOffOK DEF StatementNext

-----------------------------------------------------------------------------
(* Sessions.  Everything but SessionsOK is framed. *)
LEMMA SessionSuffices ==
    ASSUME BankingInv, NEW r \in Req, Keeps(r), SessionsOK',
           UNCHANGED <<feedVars, lines, bookVars>>,
           StaysOrEnds(r) \/ pc'[r] \in SessionLabels
    PROVE  BankingInv'
<1> USE DEF BankingInv
<1>1. RequestsOK' BY DEF Keeps
<1>2. UNCHANGED <<matched, reconciled, category, closedThrough>> BY DEF bookVars
<1>3. StaysOrEnds(r) \/ pc'[r] \notin FeedLabels \cup {"upload", "apply_rules"}
    BY DEF FeedLabels, SessionLabels
<1>4. LinesOK' BY <1>3, LinesFrame
<1>5. FeedOK' BY <1>3, FeedFrame
<1>6. MatchesOK' BY <1>2, MatchesFrame
<1>7. RulesOK' BY <1>2, <1>3, RulesFrame
<1> QED BY <1>1, <1>4, <1>5, <1>6, <1>7

(* SessionsOK after a step of r that touches session s only: the others    *)
(* and the requests on them are as before.                                 *)
LEMMA OneSession ==
    ASSUME SessionsOK, RequestsOK, NEW r \in Req, NEW s \in StmtSession, Keeps(r),
           DOMAIN recon' = StmtSession, DOMAIN cleared' = StmtSession,
           \A t \in StmtSession \ {s} : recon'[t] = recon[t] /\ cleared'[t] = cleared[t],
           SessionRow(s)', s \notin raced' /\ Closed(s)' => Difference(s)' = 0,
           \A q \in Req \ {r} : loc[q].on = s => SessionHolds(q)',
           SessionHolds(r)'
    PROVE  SessionsOK'
<1>1. \A t \in StmtSession \ {s} : /\ Difference(t)' = Difference(t)
                                   /\ Closed(t)' <=> Closed(t)
                                   /\ SessionRow(t)' <=> SessionRow(t)
    BY DEF Difference, ClearedSum, Closed, SessionRow
<1>2. ASSUME NEW q \in Req, q # r, loc[q].on # s PROVE SessionHolds(q)'
    BY <1>1, <1>2 DEF SessionsOK, SessionHolds, Keeps
<1>3. ClosedSessionTies'
    BY <1>1 DEF SessionsOK, ClosedSessionTies, Keeps
<1> QED BY <1>1, <1>2, <1>3 DEF SessionsOK

(* A request arrives for a session that is there, in the state its guard   *)
(* asks for.                                                               *)
LEMMA SessionBegins ==
    ASSUME BankingInv, NEW r \in Req, NEW s \in StmtSession, NEW label, NEW d,
           recon[s] # Absent, label \in SessionLabels \ {"create", "finish_write"}, d.on = s,
           Begin(r, label, d), label # "unreconcile" => ~Closed(s),
           UNCHANGED bankVars
    PROVE  BankingInv'
<1>1. Keeps(r) /\ pc'[r] = label /\ loc'[r] = d
    BY BeginKeeps DEF BankingInv, SessionLabels
<1>2. UNCHANGED <<feedVars, lines, bookVars, recon, cleared>>
    BY DEF bankVars, reconVars
<1>3. recon[s].status \in {"open", "closed"}
    BY DEF BankingInv, SessionsOK, SessionRow
<1>4. SessionHolds(r)'
    BY <1>1, <1>2, <1>3 DEF SessionHolds, Closed, SessionLabels
<1>5. \A t \in StmtSession : /\ Difference(t)' = Difference(t)
                             /\ Closed(t)' <=> Closed(t)
                             /\ SessionRow(t)' <=> SessionRow(t)
    BY <1>2 DEF Difference, ClearedSum, Closed, SessionRow
<1>6. ASSUME NEW q \in Req, q # r PROVE SessionHolds(q)'
    BY <1>1, <1>2, <1>5, <1>6 DEF BankingInv, SessionsOK, SessionHolds, Keeps
<1>7. ClosedSessionTies'
    BY <1>1, <1>5 DEF BankingInv, SessionsOK, ClosedSessionTies, Keeps
<1>8. SessionsOK'
    BY <1>2, <1>4, <1>5, <1>6, <1>7 DEF BankingInv, SessionsOK
<1> QED BY <1>1, <1>2, <1>8, SessionSuffices

LEMMA SessionServed ==
    ASSUME BankingInv, NEW r \in Req, NEW s, Serve(r, s), UNCHANGED bankVars
    PROVE  BankingInv'
    BY ServeKeeps, AllFrame DEF BankingInv

LEMMA MarkReadOK ==
    ASSUME BankingInv, NEW r \in Req, NEW s \in StmtSession, NEW x, NEW on,
           MarkRead(r, s, x, on)
    PROVE  BankingInv'
    BY SessionServed, SessionBegins DEF MarkRead, SessionLabels

LEMMA FinishLoadOK ==
    ASSUME BankingInv, NEW r \in Req, NEW s \in StmtSession, FinishLoad(r, s)
    PROVE  BankingInv'
    BY SessionServed, SessionBegins DEF FinishLoad, SessionLabels

LEMMA UnreconcileLoadOK ==
    ASSUME BankingInv, NEW r \in Req, NEW s \in StmtSession, UnreconcileLoad(r, s)
    PROVE  BankingInv'
    BY SessionServed, SessionBegins DEF UnreconcileLoad, SessionLabels

(* A session nobody has asked anything of yet comes into being. *)
LEMMA CreateReadOK ==
    ASSUME BankingInv, NEW r \in Req, NEW s \in StmtSession, NEW close, CreateRead(r, s, close)
    PROVE  BankingInv'
<1>1. PICK d : d.on = s /\ Begin(r, "create", d) BY DEF CreateRead
<1>2. Keeps(r) /\ pc'[r] = "create" /\ loc'[r] = d BY <1>1, BeginKeeps DEF BankingInv
<1>3. UNCHANGED <<feedVars, lines, bookVars, recon, cleared>>
    BY DEF CreateRead, bankVars, reconVars
<1>4. SessionHolds(r)' BY <1>1, <1>2 DEF SessionHolds
<1>5. \A t \in StmtSession : /\ Difference(t)' = Difference(t)
                             /\ Closed(t)' <=> Closed(t)
                             /\ SessionRow(t)' <=> SessionRow(t)
    BY <1>3 DEF Difference, ClearedSum, Closed, SessionRow
<1>6. ASSUME NEW q \in Req, q # r PROVE SessionHolds(q)'
    BY <1>2, <1>3, <1>5, <1>6 DEF BankingInv, SessionsOK, SessionHolds, Keeps
<1>7. ClosedSessionTies'
    BY <1>2, <1>5 DEF BankingInv, SessionsOK, ClosedSessionTies, Keeps
<1>8. SessionsOK'
    BY <1>3, <1>4, <1>5, <1>6, <1>7 DEF BankingInv, SessionsOK
<1> QED BY <1>2, <1>3, <1>8, SessionSuffices DEF SessionLabels

LEMMA CreateWriteOK ==
    ASSUME BankingInv, NEW r \in Req, CreateWrite(r)
    PROVE  BankingInv'
<1>1. PICK s : s = loc[r].on OBVIOUS
<1>2. pc[r] = "create" /\ End(r) /\ UNCHANGED <<feedVars, lines, cleared, bookVars>>
    BY DEF CreateWrite
<1>3. StaysOrEnds(r) /\ Keeps(r) /\ pc'[r] = "idle" /\ raced' = raced
    BY <1>2, EndKeeps DEF BankingInv, StaysOrEnds
<1>4. CASE recon' = recon
  <2>1. SessionsOK' BY <1>2, <1>3, <1>4, SessionsFrame DEF BankingInv, reconVars
  <2> QED BY <1>2, <1>3, <2>1, SessionSuffices
<1>5. CASE recon' # recon
  <2>0. PICK close, opening : /\ recon[s] = Absent
                              /\ recon' = [recon EXCEPT ![s] =
                                    [status |-> "open", close |-> close, opening |-> opening]]
      BY <1>1, <1>5 DEF CreateWrite
  <2>1. s \in StmtSession BY <1>1, <1>2 DEF BankingInv, SessionsOK, SessionHolds
  <2>3. /\ recon'[s] = [status |-> "open", close |-> close, opening |-> opening]
        /\ DOMAIN recon' = StmtSession /\ DOMAIN cleared' = StmtSession
        /\ \A t \in StmtSession \ {s} : recon'[t] = recon[t] /\ cleared'[t] = cleared[t]
      BY <1>2, <2>0, <2>1 DEF BankingInv, SessionsOK
  <2>4. SessionRow(s)' /\ ~Closed(s)'
      BY <2>3 DEF SessionRow, Closed
  <2>5. recon[s].status \notin {"open", "closed"}
      BY <2>0 DEF Absent
  <2>6. \A q \in Req : loc[q].on = s => pc[q] \notin SessionLabels \ {"create"}
      BY <2>5 DEF BankingInv, SessionsOK, SessionHolds, SessionLabels
  <2>7. \A q \in Req \ {r} : loc[q].on = s => SessionHolds(q)'
      BY <1>3, <2>6 DEF BankingInv, SessionsOK, SessionHolds, SessionLabels, Keeps
  <2>8. SessionHolds(r)' BY <1>3 DEF SessionHolds
  <2>9. SessionsOK'
      BY <1>3, <2>1, <2>3, <2>4, <2>7, <2>8, OneSession DEF BankingInv
  <2> QED BY <1>2, <1>3, <2>9, SessionSuffices
<1> QED BY <1>4, <1>5

(* When r, at work on s, ends, no request on s is left that is not raced.  *)
LEMMA AloneOn ==
    ASSUME RequestsOK, NEW r \in Req, NEW s, pc[r] # "idle", loc[r].on = s, s \notin raced
    PROVE  \A q \in Req \ {r} : loc[q].on = s => pc[q] = "idle"
    BY DEF RequestsOK, Busy

(* A step that rewrites session s, by the only request on it unless raced. *)
LEMMA SessionWritten ==
    ASSUME BankingInv, NEW r \in Req, pc[r] \in SessionLabels, NEW s, s = loc[r].on, End(r),
           UNCHANGED <<feedVars, lines, bookVars>>,
           DOMAIN recon' = StmtSession, DOMAIN cleared' = StmtSession,
           \A t \in StmtSession \ {s} : recon'[t] = recon[t] /\ cleared'[t] = cleared[t],
           SessionRow(s)', recon'[s] # Absent, s \notin raced /\ Closed(s)' => Difference(s)' = 0
    PROVE  BankingInv'
<1>1. StaysOrEnds(r) /\ Keeps(r) /\ pc'[r] = "idle" /\ raced' = raced
    BY EndKeeps DEF StaysOrEnds, BankingInv
<1>2. s \in StmtSession
    BY DEF BankingInv, SessionsOK, SessionHolds, SessionLabels
<1>3. ASSUME NEW q \in Req \ {r}, loc[q].on = s PROVE SessionHolds(q)'
  <2>1. pc[q] # "idle" => s \in raced
      BY <1>3, AloneOn DEF BankingInv, SessionLabels
  <2>2. recon'[s].status \in {"open", "closed"}
      BY DEF SessionRow
  <2> QED BY <1>1, <1>2, <1>3, <2>1, <2>2 DEF SessionHolds, Keeps
<1>4. SessionHolds(r)'
    BY <1>1 DEF SessionHolds
<1>5. SessionsOK'
    BY <1>1, <1>2, <1>3, <1>4, OneSession DEF BankingInv
<1> QED BY <1>1, <1>5, SessionSuffices

LEMMA MarkWriteOK ==
    ASSUME BankingInv, NEW r \in Req, MarkWrite(r) PROVE BankingInv'
<1>1. PICK s : s = loc[r].on OBVIOUS
<1>2. /\ s \in StmtSession /\ recon[s].status \in {"open", "closed"}
      /\ s \notin raced => ~Closed(s)
    BY <1>1 DEF MarkWrite, BankingInv, SessionsOK, SessionHolds
<1>3. /\ UNCHANGED <<feedVars, lines, bookVars, recon>> /\ End(r) /\ pc[r] \in SessionLabels
      /\ DOMAIN cleared' = StmtSession
      /\ \A t \in StmtSession \ {s} : cleared'[t] = cleared[t]
    BY <1>1 DEF MarkWrite, BankingInv, SessionsOK, SessionLabels
<1>4. recon[s] # Absent BY <1>2 DEF Absent
<1>5. SessionRow(s)' /\ (Closed(s)' <=> Closed(s))
    BY <1>2, <1>3, <1>4 DEF BankingInv, SessionsOK, SessionRow, Closed
<1> QED BY <1>1, <1>2, <1>3, <1>4, <1>5, SessionWritten DEF BankingInv, SessionsOK

(* The difference is found to be zero: what finish_write relies on. *)
LEMMA FinishSumOK ==
    ASSUME BankingInv, NEW r \in Req, FinishSum(r) PROVE BankingInv'
<1>0. pc[r] = "finish_sum" /\ UNCHANGED bankVars
    BY DEF FinishSum
<1>1. CASE Difference(loc[r].on) = 0
  <2>1. Goto(r, "finish_write", loc[r]) BY <1>1 DEF FinishSum
  <2>2. Keeps(r) /\ pc'[r] = "finish_write" /\ loc'[r] = loc[r] /\ raced' = raced
      BY <1>0, <2>1, GotoKeeps DEF BankingInv
  <2>3. UNCHANGED <<feedVars, lines, bookVars, recon, cleared>>
      BY <1>0 DEF bankVars, reconVars
  <2>4. PICK s : s = loc[r].on OBVIOUS
  <2>5. /\ s \in StmtSession /\ recon[s].status \in {"open", "closed"}
        /\ s \notin raced => ~Closed(s)
      BY <1>0, <2>4 DEF BankingInv, SessionsOK, SessionHolds
  <2>6. \A t \in StmtSession : /\ Difference(t)' = Difference(t)
                               /\ Closed(t)' <=> Closed(t)
                               /\ SessionRow(t)' <=> SessionRow(t)
      BY <2>3 DEF Difference, ClearedSum, Closed, SessionRow
  <2>7. SessionHolds(r)'
    <3>1. Difference(s)' = 0 BY <1>1, <2>4, <2>5, <2>6
    <3>2. Difference(loc[r].on)' = 0
        BY <2>2, <2>4, <3>1 DEF Difference, ClearedSum
    <3> QED BY <2>2, <2>3, <2>4, <2>5, <2>6, <3>2 DEF SessionHolds, Closed
  <2>8. ASSUME NEW q \in Req, q # r PROVE SessionHolds(q)'
      BY <2>2, <2>3, <2>6, <2>8 DEF BankingInv, SessionsOK, SessionHolds, Keeps
  <2>9. ClosedSessionTies'
      BY <2>2, <2>6 DEF BankingInv, SessionsOK, ClosedSessionTies
  <2>10. SessionsOK'
      BY <2>3, <2>6, <2>7, <2>8, <2>9 DEF BankingInv, SessionsOK
  <2> QED BY <2>2, <2>3, <2>10, SessionSuffices DEF SessionLabels
<1>2. CASE Difference(loc[r].on) # 0
    BY <1>0, <1>2, EndKeeps, AllFrame DEF FinishSum, BankingInv
<1> QED BY <1>1, <1>2

LEMMA FinishWriteOK ==
    ASSUME BankingInv, NEW r \in Req, FinishWrite(r) PROVE BankingInv'
<1>1. PICK s : s = loc[r].on OBVIOUS
<1>2. /\ s \in StmtSession /\ recon[s].status \in {"open", "closed"}
      /\ s \notin raced => Difference(s) = 0
    BY <1>1 DEF FinishWrite, BankingInv, SessionsOK, SessionHolds
<1>3. /\ UNCHANGED <<feedVars, lines, bookVars, cleared>> /\ End(r)
      /\ pc[r] \in SessionLabels /\ DOMAIN recon' = StmtSession
      /\ \A t \in StmtSession \ {s} : recon'[t] = recon[t]
      /\ recon'[s] = [recon[s] EXCEPT !.status = "closed"]
    BY <1>1, <1>2 DEF FinishWrite, BankingInv, SessionsOK, SessionLabels
<1>4. recon[s] # Absent BY <1>2 DEF Absent
<1>5. recon[s] = [status |-> recon[s].status, close |-> recon[s].close,
                  opening |-> recon[s].opening]
    BY <1>2, <1>4 DEF BankingInv, SessionsOK, SessionRow
<1>6. recon'[s] = [status |-> "closed", close |-> recon[s].close,
                   opening |-> recon[s].opening]
    BY <1>3, <1>5
<1>7. SessionRow(s)' /\ recon'[s] # Absent
    BY <1>6 DEF SessionRow, Absent
<1>8. Difference(s)' = Difference(s)
    BY <1>3, <1>6 DEF Difference, ClearedSum
<1> QED BY <1>1, <1>2, <1>3, <1>7, <1>8, SessionWritten DEF BankingInv, SessionsOK

LEMMA UnreconcileCommitOK ==
    ASSUME BankingInv, NEW r \in Req, UnreconcileCommit(r) PROVE BankingInv'
<1>1. PICK s : s = loc[r].on OBVIOUS
<1>2. s \in StmtSession /\ recon[s].status \in {"open", "closed"}
    BY <1>1 DEF UnreconcileCommit, BankingInv, SessionsOK, SessionHolds
<1>3. /\ UNCHANGED <<feedVars, lines, bookVars>> /\ End(r) /\ pc[r] \in SessionLabels
      /\ DOMAIN recon' = StmtSession /\ DOMAIN cleared' = StmtSession
      /\ \A t \in StmtSession \ {s} : recon'[t] = recon[t] /\ cleared'[t] = cleared[t]
      /\ recon'[s] = [recon[s] EXCEPT !.status = "open"]
    BY <1>1, <1>2 DEF UnreconcileCommit, BankingInv, SessionsOK, SessionLabels
<1>4. recon[s] # Absent BY <1>2 DEF Absent
<1>5. recon[s] = [status |-> recon[s].status, close |-> recon[s].close,
                  opening |-> recon[s].opening]
    BY <1>2, <1>4 DEF BankingInv, SessionsOK, SessionRow
<1>6. recon'[s] = [status |-> "open", close |-> recon[s].close,
                   opening |-> recon[s].opening]
    BY <1>3, <1>5
<1>7. SessionRow(s)' /\ recon'[s] # Absent /\ ~Closed(s)'
    BY <1>6 DEF SessionRow, Absent, Closed
<1> QED BY <1>1, <1>3, <1>7, SessionWritten

LEMMA ReconcileNextOK ==
    ASSUME BankingInv, ReconcileNext PROVE BankingInv'
    BY MarkWriteOK, FinishSumOK, FinishWriteOK, UnreconcileCommitOK, CutOffOK,
       CreateReadOK, CreateWriteOK, MarkReadOK, FinishLoadOK, UnreconcileLoadOK
    DEF ReconcileNext

-----------------------------------------------------------------------------
(* Lines matched by hand, and rules. *)
LEMMA ServedFrame ==
    ASSUME BankingInv, NEW r \in Req, StaysOrEnds(r), MatchesOK', RulesOK',
           UNCHANGED <<feedVars, lines, reconVars>>
    PROVE  BankingInv'
<1>1. Keeps(r) /\ RequestsOK' BY DEF StaysOrEnds, Keeps
<1> QED BY <1>1, FeedFrame, LinesFrame, SessionsFrame DEF BankingInv

LEMMA MatchLineOK ==
    ASSUME BankingInv, NEW r \in Req, NEW x \in Row, NEW t \in BankTxn, MatchLine(r, x, t)
    PROVE  BankingInv'
<1>1. StaysOrEnds(r) /\ Keeps(r)
    BY ServeKeeps DEF MatchLine, BankingInv, StaysOrEnds
<1>2. MatchesOK'
    BY DEF MatchLine, BankingInv, MatchesOK, MatchedIsReconciled, Absent
<1>3. RulesOK'
    BY <1>1, RulesFrame DEF MatchLine, BankingInv
<1> QED BY <1>1, <1>2, <1>3, ServedFrame DEF MatchLine

LEMMA ExcludeLineOK ==
    ASSUME BankingInv, NEW r \in Req, NEW x \in Row, ExcludeLine(r, x)
    PROVE  BankingInv'
<1>1. StaysOrEnds(r) /\ Keeps(r)
    BY ServeKeeps DEF ExcludeLine, BankingInv, StaysOrEnds
<1>2. \/ matched[x] = Absent
      \/ /\ matched[x] \in [status : {"matched", "excluded"}, txn : BankTxn]
         /\ matched[x] # Absent
    BY DEF BankingInv, MatchesOK
<1>3. matched[x] = Absent => matched'[x] = Absent
    BY DEF ExcludeLine, BankingInv, MatchesOK
<1>4. matched[x] # Absent =>
          /\ matched'[x] \in [status : {"matched", "excluded"}, txn : BankTxn]
          /\ matched'[x].txn = matched[x].txn
    BY <1>2 DEF ExcludeLine, BankingInv, MatchesOK
<1>5. \A y \in Row \ {x} : matched'[y] = matched[y]
    BY DEF ExcludeLine, BankingInv, MatchesOK
<1>6. DOMAIN matched' = Row /\ matched' = [y \in DOMAIN matched' |-> matched'[y]]
      /\ reconciled' = reconciled
    BY DEF ExcludeLine, BankingInv, MatchesOK
<1>7. \A y \in Row : matched'[y] \in
          {Absent} \cup [status : {"matched", "excluded"}, txn : BankTxn]
    BY <1>3, <1>4, <1>5 DEF BankingInv, MatchesOK
<1>8. MatchedIsReconciled'
    BY <1>3, <1>4, <1>5, <1>6 DEF BankingInv, MatchesOK, MatchedIsReconciled
<1>9. MatchesOK'
    BY <1>6, <1>7, <1>8 DEF MatchesOK
<1>10. RulesOK'
    BY <1>1, RulesFrame DEF ExcludeLine, BankingInv
<1> QED BY <1>1, <1>9, <1>10, ServedFrame DEF ExcludeLine

LEMMA ApplyRulesReadOK ==
    ASSUME BankingInv, NEW r \in Req, NEW chosen, NEW to \in Category,
           ApplyRulesRead(r, chosen, to)
    PROVE  BankingInv'
<1>0. UNCHANGED <<bankVars, feedVars, lines, reconVars, matched, reconciled, category,
                  closedThrough>>
    BY DEF ApplyRulesRead, bankVars, bookVars
<1>1. CASE \E t \in chosen : InClosedYear(t)
    BY <1>0, <1>1, SessionServed DEF ApplyRulesRead
<1>2. CASE ~\E t \in chosen : InClosedYear(t)
  <2>1. /\ Keeps(r) /\ pc'[r] = "apply_rules"
        /\ loc'[r] = [on |-> "books", chosen |-> chosen, to |-> to]
      BY <1>2, BeginKeeps DEF ApplyRulesRead, BankingInv
  <2>2. RulesOK'
    <3>1. \A t : InClosedYear(t)' <=> InClosedYear(t) BY <1>0 DEF InClosedYear
    <3> QED BY <1>0, <1>2, <2>1, <3>1 DEF BankingInv, RulesOK, Keeps
  <2>3. FeedOK' /\ SessionsOK' /\ LinesOK'
      BY <1>0, <2>1, FeedFrame, SessionsFrame, LinesFrame
      DEF BankingInv, FeedLabels, SessionLabels
  <2> QED BY <1>0, <2>1, <2>2, <2>3, MatchesFrame DEF BankingInv, Keeps
<1> QED BY <1>1, <1>2

LEMMA ApplyRulesCommitOK ==
    ASSUME BankingInv, NEW r \in Req, ApplyRulesCommit(r) PROVE BankingInv'
<1>1. StaysOrEnds(r) /\ Keeps(r) /\ pc'[r] = "idle"
    BY EndKeeps DEF ApplyRulesCommit, BankingInv, StaysOrEnds
<1>2. MatchesOK'
    BY MatchesFrame DEF ApplyRulesCommit, BankingInv
<1>3. category' \in [BankTxn -> Category]
    BY DEF ApplyRulesCommit, BankingInv, RulesOK
<1>4. RulesOK'
  <2>1. \A t : InClosedYear(t)' <=> InClosedYear(t) BY DEF ApplyRulesCommit, InClosedYear
  <2> QED BY <1>1, <1>3, <2>1 DEF BankingInv, RulesOK, Keeps
<1> QED BY <1>1, <1>2, <1>4, ServedFrame DEF ApplyRulesCommit

(* A period closed under a request that read it open makes the books      *)
(* raced.                                                                 *)
LEMMA YearsOK ==
    ASSUME BankingInv, NEW r \in Req, NEW d, CloseThrough(r, d) \/ ReopenFrom(r, d)
    PROVE  BankingInv'
<1>0. Serve(r, "books") /\ UNCHANGED <<feedVars, lines, reconVars, matched, reconciled, category>>
    BY DEF CloseThrough, ReopenFrom
<1>1. /\ StaysOrEnds(r) /\ Keeps(r) /\ UNCHANGED <<pc, loc>>
      /\ WorkingOn("books") # {} => "books" \in raced'
    BY <1>0, ServeKeeps DEF BankingInv, StaysOrEnds
<1>2. MatchesOK'
    BY <1>0, MatchesFrame DEF BankingInv
<1>3. \A q \in Req : pc[q] = "apply_rules" => q \in WorkingOn("books")
    BY DEF BankingInv, RulesOK, WorkingOn, Busy
<1>4. RulesOK'
    BY <1>0, <1>1, <1>3 DEF BankingInv, RulesOK
<1> QED BY <1>0, <1>1, <1>2, <1>4, ServedFrame

LEMMA RulesNextOK ==
    ASSUME BankingInv, RulesNext PROVE BankingInv'
    BY ApplyRulesCommitOK, YearsOK, CutOffOK, ExcludeLineOK, MatchLineOK,
       ApplyRulesReadOK
    DEF RulesNext

-----------------------------------------------------------------------------
LEMMA BankingInitOK ==
    ASSUME InitRequests, InitBanking PROVE BankingInv
<1>1. RequestsOK BY InitRequestsOK
<1>2. \A r \in Req : pc[r] = "idle" BY DEF InitRequests
<1>3. FeedOK
    BY <1>2, BankingAssumption DEF InitBanking, FeedOK, Booked, SyncHolds
<1>4. LinesOK
    BY <1>2, BankingAssumption DEF InitBanking, LinesOK
<1>5. SessionsOK
    BY <1>2 DEF InitBanking, SessionsOK, SessionRow, SessionHolds, ClosedSessionTies,
                Closed, Absent
<1>6. MatchesOK /\ RulesOK
    BY <1>2 DEF InitBanking, MatchesOK, MatchedIsReconciled, RulesOK
<1> QED BY <1>1, <1>3, <1>4, <1>5, <1>6 DEF BankingInv

LEMMA BankingStepOK ==
    ASSUME BankingInv, [BankingNext]_<<reqVars, bankVars>> PROVE BankingInv'
<1>1. CASE BankingNext
    BY <1>1, FeedNextOK, StatementNextOK, ReconcileNextOK, RulesNextOK DEF BankingNext
<1>2. CASE UNCHANGED <<reqVars, bankVars>>
  <2>1. UNCHANGED <<pc, loc, raced, provider, link, feedTxn, lines, recon, cleared,
                    matched, reconciled, category, closedThrough>>
      BY <1>2 DEF reqVars, bankVars, feedVars, reconVars, bookVars
  <2>2. RequestsOK' /\ LinesOK' /\ MatchesOK' /\ RulesOK'
      BY <2>1, MatchesFrame DEF BankingInv, RequestsOK, Busy, LinesOK, RulesOK, InClosedYear
  <2>3. \A n : Booked(n)' <=> Booked(n) BY <2>1 DEF Booked
  <2>4. FeedOK' BY <2>1, <2>3 DEF BankingInv, FeedOK, SyncHolds
  <2>5. \A s \in StmtSession : /\ Difference(s)' = Difference(s)
                               /\ Closed(s)' <=> Closed(s)
                               /\ SessionRow(s)' <=> SessionRow(s)
      BY <2>1 DEF Difference, ClearedSum, Closed, SessionRow
  <2>6. SessionsOK'
      BY <2>1, <2>5 DEF BankingInv, SessionsOK, SessionHolds, ClosedSessionTies
  <2> QED BY <2>2, <2>4, <2>6 DEF BankingInv
<1> QED BY <1>1, <1>2

(* The inductive invariant of feeds, statements, sessions and rules. *)
THEOREM BankingInvariant == BankingSpec => []BankingInv
    BY BankingInitOK, BankingStepOK, PTL DEF BankingSpec

(* BankTies follows. *)
LEMMA InvBankTies == ASSUME BankingInv PROVE BankTies
<1>1. BankingTypeOK
  <2>1. \A s \in StmtSession : cleared[s] # {} => recon[s] # Absent
      BY DEF BankingInv, SessionsOK, SessionRow, Absent
  <2>2. provider \in 0..MaxFeed /\ link.cursor \in 0..provider
        /\ link.status \in {"active", "error", "disconnected"}
      BY DEF BankingInv, FeedOK, Booked
  <2> QED BY <2>1, <2>2 DEF BankingTypeOK, BankingInv, RulesOK
<1>2. FeedBookedOnce
    BY DEF FeedBookedOnce, BankingInv, FeedOK
<1>3. CursorPassesBooked
    BY DEF CursorPassesBooked, BankingInv, FeedOK, Booked
<1> QED BY <1>1, <1>2, <1>3
        DEF BankTies, BankingInv, LinesOK, StatementLineOnce, SessionsOK, MatchesOK

(* What the bank says is in the ledger once (workers/sync.rs,              *)
(* reconciliation.rs, rec_sessions.rs): nothing of a feed is lost behind   *)
(* the cursor or booked twice, whatever syncs overlap or are cut off; a    *)
(* statement line is kept once, a closed session ties out, and a matched   *)
(* transaction stays reconciled.                                           *)
THEOREM BankTiesAlways == BankingSpec => []BankTies
    BY BankingInvariant, InvBankTies, PTL

(* Who writes cleared, and who writes categories. *)
LEMMA WhoClears ==
    ASSUME BankingNext
    PROVE  \/ UNCHANGED cleared
           \/ \E r \in Req : MarkWrite(r) \/ UnreconcileCommit(r)
<1>1. CASE FeedNext \/ StatementNext \/ RulesNext
    BY <1>1 DEF FeedNext, StatementNext, RulesNext, ProviderBooks, SyncFetch, ImportCheck,
         ImportWrite, SyncCursor, Unlink, BankCutOff, SyncBegin, SyncNow, SyncStart,
         WebhookFind, WebhookSync, UploadCommit, UploadRead, ApplyRulesCommit, CloseThrough, ReopenFrom,
         ExcludeLine, MatchLine, ApplyRulesRead, bankVars, reconVars
<1>2. CASE ReconcileNext
    BY <1>2 DEF ReconcileNext, FinishSum, FinishWrite, BankCutOff, CreateRead, CreateWrite, MarkRead,
         FinishLoad, UnreconcileLoad, bankVars, reconVars
<1> QED BY <1>1, <1>2 DEF BankingNext

LEMMA WhoCategorises ==
    ASSUME BankingNext
    PROVE  UNCHANGED category \/ \E r \in Req : ApplyRulesCommit(r)
<1>1. CASE FeedNext \/ StatementNext \/ ReconcileNext
    BY <1>1 DEF FeedNext, StatementNext, ReconcileNext, ProviderBooks, SyncFetch, ImportCheck,
         ImportWrite, SyncCursor, Unlink, BankCutOff, SyncBegin, SyncNow, SyncStart,
         WebhookFind, WebhookSync, UploadCommit, UploadRead, MarkWrite, FinishSum,
         FinishWrite, UnreconcileCommit, CreateRead, CreateWrite, MarkRead, FinishLoad,
         UnreconcileLoad, bankVars, bookVars
<1>2. CASE RulesNext
    BY <1>2 DEF RulesNext, CloseThrough, ReopenFrom, BankCutOff, ExcludeLine, MatchLine, ApplyRulesRead,
         bankVars, bookVars
<1> QED BY <1>1, <1>2 DEF BankingNext

(* One step changes no line of a closed session, except by reopening it,   *)
(* and no category of a closed year, unless requests on them overlap.      *)
LEMMA SessionStaysClosed ==
    ASSUME BankingInv, BankingNext, NEW s \in StmtSession, s \notin raced',
           Closed(s), cleared'[s] # cleared[s]
    PROVE  recon'[s].status = "open"
<1>1. PICK r \in Req : MarkWrite(r) \/ UnreconcileCommit(r)
    BY WhoClears
<1>2. loc[r].on = s /\ raced' = raced
    BY <1>1 DEF MarkWrite, UnreconcileCommit, End, BankingInv, SessionsOK
<1>3. ~MarkWrite(r)
    BY <1>2 DEF MarkWrite, BankingInv, SessionsOK, SessionHolds
<1>4. UnreconcileCommit(r) BY <1>1, <1>3
<1>5. recon[s] # Absent BY DEF Closed, Absent
<1>6. recon[s] = [status |-> recon[s].status, close |-> recon[s].close,
                  opening |-> recon[s].opening]
    BY <1>5 DEF BankingInv, SessionsOK, SessionRow
<1>7. recon'[s] = [recon[s] EXCEPT !.status = "open"]
    BY <1>2, <1>4 DEF UnreconcileCommit, BankingInv, SessionsOK
<1> QED BY <1>6, <1>7

LEMMA YearStaysClosed ==
    ASSUME BankingInv, BankingNext, NEW t \in BankTxn, InClosedYear(t), "books" \notin raced'
    PROVE  category'[t] = category[t]
<1>1. SUFFICES ASSUME NEW r \in Req, ApplyRulesCommit(r) PROVE category'[t] = category[t]
    BY WhoCategorises
<1>2. raced' = raced /\ pc[r] = "apply_rules" BY <1>1 DEF ApplyRulesCommit, End
<1>3. t \notin loc[r].chosen BY <1>2 DEF BankingInv, RulesOK
<1> QED BY <1>1, <1>3 DEF ApplyRulesCommit

(* "Closed sessions SHALL lock their lines", and rules refuse the years    *)
(* that closed_periods has a row of (rec_sessions.rs, rules_apply.rs):     *)
(* what was closed so stays as it was, unless requests on it overlap.      *)
THEOREM ClosedStaysAlways == BankingSpec => ClosedStays
<1>1. BankingInv /\ [BankingNext]_<<reqVars, bankVars>> =>
        [\A s \in StmtSession \ raced' :
            Closed(s) /\ cleared'[s] # cleared[s] => recon'[s].status = "open"]_reconVars
    BY SessionStaysClosed DEF reqVars, bankVars
<1>2. BankingInv /\ [BankingNext]_<<reqVars, bankVars>> =>
        [\A t \in BankTxn :
            InClosedYear(t) /\ "books" \notin raced' => category'[t] = category[t]]_bookVars
    BY YearStaysClosed DEF reqVars, bankVars
<1> QED BY <1>1, <1>2, BankingInvariant, PTL
        DEF BankingSpec, ClosedStays, ClosedSessionLocked, RulesKeepClosedYears
=============================================================================
