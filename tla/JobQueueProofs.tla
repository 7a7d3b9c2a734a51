--------------------------- MODULE JobQueueProofs ---------------------------
(***************************************************************************)
(* Proofs about the job queue and the deliveries that use it.              *)
(***************************************************************************)
EXTENDS EventDelivery, TLAPS

(* What stage, hand and cur say of one another. *)
HandsOK ==
    \A w \in Worker :
        /\ stage[w] = "idle" => hand[w] = {}
        /\ stage[w] \in {"handler", "ok", "err"} <=> cur[w] # NoClaim
        /\ \A c \in hand[w] : cur[w] # NoClaim => c.job # cur[w].job

(* Every call of a handler is counted in attempts, except the one under    *)
(* way and one that a crash or a lost update has hidden.                   *)
Counted ==
    /\ \A j \in Job :
        /\ jobs[j] = NoJob => runs[j] = 0
        /\ jobs[j] # NoJob =>
            /\ runs[j] <= MaxAttempts
            /\ jobs[j].status = "pending" =>
                  runs[j] = jobs[j].attempts /\ jobs[j].attempts < MaxAttempts
            /\ jobs[j].status = "running" =>
                  runs[j] <= jobs[j].attempts + 1
                  /\ jobs[j].attempts < MaxAttempts
            /\ jobs[j].status = "dead" => runs[j] = MaxAttempts
    /\ \A w \in Worker :
        /\ \A c \in hand[w] : runs[c.job] = c.attempts
        /\ cur[w] # NoClaim => runs[cur[w].job] = cur[w].attempts + 1

(* The inductive invariant: OneRunner needs HandsOK to know whose claims   *)
(* a step adds or drops, RunsBounded needs Counted, and Counted needs      *)
(* OneRunner for the claimed value of attempts to be the row's.            *)
QueueInv == QueueTypeOK /\ OneRunner /\ HandsOK /\ Counted

(* A new status leaves the rest of the row alone. *)
LEMMA WithStatusRow ==
    ASSUME NEW row \in JobRow, NEW s \in Status
    PROVE  /\ WithStatus(row, s) \in JobRow
           /\ WithStatus(row, s).status = s
           /\ WithStatus(row, s).attempts = row.attempts
    BY DEF WithStatus, JobRow

(* The empty queue. *)
LEMMA QueueInitOK == QueueInit => QueueInv
<1> SUFFICES ASSUME QueueInit PROVE QueueInv
    OBVIOUS
<1> USE QueueAssumption, NoAssumption
<1>1. QueueTypeOK
    BY DEF QueueInit, QueueTypeOK, Stage, Job
<1>2. OneRunner /\ HandsOK /\ Counted
    BY DEF QueueInit, OneRunner, Claims, HandsOK, Counted
<1> QED BY <1>1, <1>2 DEF QueueInv

(* enqueue adds a row nobody has claimed. *)
LEMMA EnqueueOK ==
    ASSUME QueueInv, NEW j \in Job, NEW d \in Target, Enqueue(j, d),
           UNCHANGED <<now, stage, hand, cur, runs, faults>>
    PROVE  QueueInv'
<1> USE QueueAssumption, NoAssumption DEF QueueInv, QueueTypeOK
<1> DEFINE row == [status |-> "pending", attempts |-> 0, runAt |-> now,
                   target |-> d]
<1>1. row \in JobRow /\ jobs[j] = NoJob /\ jobs' = [jobs EXCEPT ![j] = row]
    BY DEF Enqueue, Fresh, JobRow, Status
<1>2. QueueTypeOK'
    BY <1>1
<1>3. OneRunner'
    BY <1>1 DEF OneRunner, Claims, ClaimedJob
<1>4. HandsOK' /\ Counted'
    BY <1>1 DEF HandsOK, Counted, ClaimedJob
<1> QED BY <1>2, <1>3, <1>4

(* A claim takes due rows that no claim holds: a row in other hands is     *)
(* running, or locked.                                                     *)
LEMMA ClaimLockOK ==
    ASSUME QueueInv, NEW w \in Worker, ClaimLock(w)
    PROVE  QueueInv'
<1> USE QueueAssumption, NoAssumption DEF QueueInv, QueueTypeOK
<1>1. PICK S \in SUBSET Due :
        /\ FirstDue(S, Due \ Locked)
        /\ hand' = [hand EXCEPT ![w] =
                      {[job |-> j, attempts |-> jobs[j].attempts] : j \in S}]
    BY DEF ClaimLock
<1>2. /\ stage[w] = "idle" /\ stage' = [stage EXCEPT ![w] = "claiming"]
      /\ UNCHANGED <<jobs, now, cur, runs, faults>>
    BY DEF ClaimLock
<1>3. \A j \in S : /\ j \in Job /\ jobs[j] \in JobRow
                   /\ jobs[j].status = "pending"
                   /\ j \notin Locked
    BY <1>1 DEF FirstDue, Due
<1>4. \A c \in hand'[w] : /\ c \in ClaimedJob /\ c.job \in S
                          /\ c.attempts = jobs[c.job].attempts
    BY <1>1, <1>3 DEF ClaimedJob, JobRow
<1>5. QueueTypeOK'
    BY <1>1, <1>2, <1>4 DEF Stage
<1>6. \A v \in Worker \ {w} : \A c \in Claims(v) : c.job \notin S
    <2> SUFFICES ASSUME NEW v \in Worker \ {w}, NEW c \in Claims(v),
                        c.job \in S
                 PROVE  FALSE
        OBVIOUS
    <2>1. stage[v] = "claiming"
        BY <1>3 DEF OneRunner
    <2>2. c \in hand[v]
        BY <2>1 DEF Claims, HandsOK
    <2>3. c.job \in Locked
        BY <2>1, <2>2 DEF Locked, Has
    <2> QED BY <1>3, <2>3
<1>7. OneRunner'
    <2>1. \A v \in Worker \ {w} : Claims(v)' = Claims(v) /\ stage'[v] = stage[v]
        BY <1>1, <1>2 DEF Claims
    <2>2. Claims(w)' = hand'[w]
        BY <1>2, <1>5 DEF Claims, HandsOK
    <2> QED BY <1>2, <1>3, <1>4, <1>6, <2>1, <2>2 DEF OneRunner, JobRow
<1>8. HandsOK'
    BY <1>1, <1>2, <1>5 DEF HandsOK
<1>9. Counted'
    <2>1. \A v \in Worker \ {w} : hand'[v] = hand[v]
        BY <1>1
    <2>2. \A c \in hand'[w] : runs[c.job] = c.attempts
        BY <1>3, <1>4 DEF Counted
    <2> QED BY <1>2, <2>1, <2>2 DEF Counted
<1> QED BY <1>5, <1>7, <1>8, <1>9

(* The commit of a claim shows exactly the claimed rows as running. *)
LEMMA ClaimCommitOK ==
    ASSUME QueueInv, NEW w \in Worker, ClaimCommit(w)
    PROVE  QueueInv'
<1> USE QueueAssumption, NoAssumption DEF QueueInv, QueueTypeOK
<1>1. /\ stage[w] = "claiming" /\ stage' = [stage EXCEPT ![w] = "working"]
      /\ jobs' = [j \in Job |-> IF j \in Has(w)
                                THEN WithStatus(jobs[j], "running")
                                ELSE jobs[j]]
      /\ UNCHANGED <<now, hand, cur, runs, faults>>
    BY DEF ClaimCommit
<1>2. cur[w] = NoClaim /\ Claims(w) = hand[w]
    BY <1>1 DEF HandsOK, Claims
<1>3. \A j \in Has(w) : /\ j \in Job /\ jobs[j] \in JobRow
                        /\ jobs[j].status = "pending"
                        /\ \E c \in hand[w] : c.job = j
    BY <1>1, <1>2 DEF Has, OneRunner, ClaimedJob
<1>4. \A j \in Job : jobs'[j] = IF j \in Has(w)
                                THEN WithStatus(jobs[j], "running")
                                ELSE jobs[j]
    BY <1>1
<1>5. \A j \in Has(w) : /\ jobs'[j] \in JobRow
                        /\ jobs'[j].status = "running"
                        /\ jobs'[j].attempts = jobs[j].attempts
    <2>1. \A j \in Has(w) : jobs'[j] = WithStatus(jobs[j], "running")
        BY <1>3, <1>4
    <2>2. "running" \in Status
        BY DEF Status
    <2> QED BY <1>3, <2>1, <2>2, WithStatusRow
<1>6. QueueTypeOK'
    BY <1>1, <1>4, <1>5 DEF Stage
<1>7. \A v \in Worker : Claims(v)' = Claims(v)
    BY <1>1 DEF Claims
<1>8. \A v \in Worker \ {w} : \A c \in Claims(v) : c.job \notin Has(w)
    <2> SUFFICES ASSUME NEW v \in Worker \ {w}, NEW c \in Claims(v),
                        c.job \in Has(w)
                 PROVE  FALSE
        OBVIOUS
    <2>1. PICK d \in Claims(w) : d.job = c.job
        BY <1>2, <1>3
    <2> QED BY <2>1 DEF OneRunner
<1>9. \A v \in Worker : \A c \in Claims(v) : c.job \in Job
    BY DEF Claims, ClaimedJob
<1>10. OneRunner'
    <2> SUFFICES ASSUME NEW v \in Worker, NEW c \in Claims(v)
                 PROVE  /\ \A u \in Worker : \A d \in Claims(u) :
                              c.job = d.job => u = v
                        /\ jobs'[c.job] # NoJob
                        /\ jobs'[c.job].attempts = c.attempts
                        /\ jobs'[c.job].status =
                              IF stage'[v] = "claiming" THEN "pending"
                              ELSE "running"
        BY <1>7 DEF OneRunner
    <2>1. \A u \in Worker : \A d \in Claims(u) : c.job = d.job => u = v
        BY DEF OneRunner
    <2>2. CASE v = w
        <3>1. c.job \in Has(w)
            BY <1>2, <2>2 DEF Has
        <3>2. jobs[c.job].attempts = c.attempts /\ stage'[w] = "working"
            BY <1>1, <2>2 DEF OneRunner
        <3>3. jobs'[c.job] # NoJob
            BY <1>5, <3>1
        <3> QED BY <1>5, <2>1, <2>2, <3>1, <3>2, <3>3
    <2>3. CASE v # w
        BY <1>1, <1>4, <1>8, <1>9, <2>1, <2>3 DEF OneRunner
    <2> QED BY <2>2, <2>3
<1>11. HandsOK'
    BY <1>1 DEF HandsOK
<1>12. Counted'
    <2>1. \A j \in Job \ Has(w) : jobs'[j] = jobs[j]
        BY <1>4
    <2>2. \A j \in Has(w) : /\ jobs'[j] # NoJob
                            /\ jobs[j].attempts \in Nat
                            /\ runs'[j] = jobs'[j].attempts
                            /\ jobs'[j].attempts < MaxAttempts
        <3> SUFFICES ASSUME NEW j \in Has(w)
                     PROVE  /\ jobs'[j] # NoJob
                            /\ jobs[j].attempts \in Nat
                            /\ runs'[j] = jobs'[j].attempts
                            /\ jobs'[j].attempts < MaxAttempts
            OBVIOUS
        <3>1. j \in Job /\ jobs[j] \in JobRow /\ jobs[j].status = "pending"
            BY <1>3
        <3>2. jobs'[j] \in JobRow /\ jobs'[j].attempts = jobs[j].attempts
            BY <1>5
        <3>3. runs[j] = jobs[j].attempts /\ jobs[j].attempts < MaxAttempts
            BY <3>1 DEF Counted
        <3> QED BY <1>1, <3>1, <3>2, <3>3 DEF JobRow
    <2>3. \A j \in Has(w) : runs'[j] <= MaxAttempts
                            /\ runs'[j] <= jobs'[j].attempts + 1
        BY <1>5, <2>2
    <2> QED BY <1>1, <1>5, <2>1, <2>2, <2>3 DEF Counted
<1> QED BY <1>6, <1>10, <1>11, <1>12

(* run_due begins the next claimed job. *)
LEMMA TakeOK ==
    ASSUME QueueInv, NEW w \in Worker, Take(w)
    PROVE  QueueInv'
<1> USE QueueAssumption, NoAssumption DEF QueueInv, QueueTypeOK
<1>1. PICK c \in hand[w] :
        /\ cur' = [cur EXCEPT ![w] = c]
        /\ hand' = [hand EXCEPT ![w] = @ \ {c}]
        /\ runs' = [runs EXCEPT ![c.job] = @ + 1]
    BY DEF Take
<1>2. /\ stage[w] = "working" /\ stage' = [stage EXCEPT ![w] = "handler"]
      /\ UNCHANGED <<jobs, now, faults>>
    BY DEF Take
<1>3. c \in ClaimedJob /\ c # NoClaim /\ c.job \in Job /\ cur[w] = NoClaim
    <2>1. c \in ClaimedJob /\ c # NoClaim
        OBVIOUS
    <2>2. c.job \in Job
        BY <2>1 DEF ClaimedJob
    <2>3. cur[w] = NoClaim
        BY <1>2 DEF HandsOK
    <2> QED BY <2>1, <2>2, <2>3
<1>4. QueueTypeOK'
    BY <1>1, <1>2, <1>3 DEF Stage
<1>5. \A v \in Worker : Claims(v)' = Claims(v)
    BY <1>1, <1>3 DEF Claims
<1>6. OneRunner'
    BY <1>2, <1>5 DEF OneRunner
<1>7. /\ c \in Claims(w)
      /\ \A v \in Worker : \A d \in Claims(v) :
            d.job = c.job => v = w /\ d.attempts = c.attempts
    BY DEF OneRunner, Claims
<1>8. \A v \in Worker : \A d \in Claims(v) : d \in ClaimedJob
    BY DEF Claims
<1>9. \A d \in hand[w] : d.job = c.job => d = c
    <2> SUFFICES ASSUME NEW d \in hand[w], d.job = c.job PROVE d = c
        OBVIOUS
    <2>1. d.attempts = c.attempts
        BY <1>7 DEF Claims
    <2> QED BY <1>3, <2>1 DEF ClaimedJob
<1>10. HandsOK'
    BY <1>1, <1>2, <1>3, <1>9 DEF HandsOK
<1>11. /\ jobs[c.job] # NoJob /\ jobs[c.job].status = "running"
       /\ jobs[c.job].attempts = c.attempts /\ runs[c.job] = c.attempts
    BY <1>2, <1>7 DEF OneRunner, Counted
<1>12. jobs[c.job] \in JobRow /\ jobs[c.job].attempts \in Nat
    BY <1>3, <1>11 DEF JobRow
<1>13. Counted'
    <2>1. \A j \in Job :
            runs'[j] = IF j = c.job THEN runs[j] + 1 ELSE runs[j]
        BY <1>1, <1>3
    <2>2. \A j \in Job :
            /\ jobs'[j] = NoJob => runs'[j] = 0
            /\ jobs'[j] # NoJob =>
                /\ runs'[j] <= MaxAttempts
                /\ jobs'[j].status = "pending" =>
                      runs'[j] = jobs'[j].attempts
                      /\ jobs'[j].attempts < MaxAttempts
                /\ jobs'[j].status = "running" =>
                      runs'[j] <= jobs'[j].attempts + 1
                      /\ jobs'[j].attempts < MaxAttempts
                /\ jobs'[j].status = "dead" => runs'[j] = MaxAttempts
        BY <1>2, <1>3, <1>11, <1>12, <2>1 DEF Counted
    <2>3. \A v \in Worker : \A d \in hand'[v] : runs'[d.job] = d.attempts
        <3> SUFFICES ASSUME NEW v \in Worker, NEW d \in hand'[v]
                     PROVE  runs'[d.job] = d.attempts
            OBVIOUS
        <3>1. d \in hand[v] /\ (v = w => d # c)
            BY <1>1
        <3>2. d.job # c.job
            BY <1>7, <1>9, <3>1 DEF Claims
        <3>3. d.job \in Job
            BY <3>1 DEF ClaimedJob
        <3> QED BY <2>1, <3>1, <3>2, <3>3 DEF Counted
    <2>4. \A v \in Worker : cur'[v] # NoClaim =>
             runs'[cur'[v].job] = cur'[v].attempts + 1
        <3> SUFFICES ASSUME NEW v \in Worker, cur'[v] # NoClaim
                     PROVE  runs'[cur'[v].job] = cur'[v].attempts + 1
            OBVIOUS
        <3>1. CASE v = w
            BY <1>1, <1>3, <1>11, <2>1, <3>1
        <3>2. CASE v # w
            <4>1. cur'[v] = cur[v] /\ cur[v] \in Claims(v)
                BY <1>1, <3>2 DEF Claims
            <4>2. cur[v].job # c.job /\ cur[v].job \in Job
                BY <1>7, <1>8, <3>2, <4>1 DEF ClaimedJob
            <4> QED BY <2>1, <4>1, <4>2 DEF Counted
        <3> QED BY <3>1, <3>2
    <2> QED BY <2>2, <2>3, <2>4 DEF Counted
<1> QED BY <1>4, <1>6, <1>10, <1>13

(* The end of a handler touches no row and no claim. *)
LEMMA HandlerOK ==
    ASSUME QueueInv, NEW w \in Worker, NEW s \in {"ok", "err"},
           stage[w] = "handler", stage' = [stage EXCEPT ![w] = s],
           faults' \in 0..MaxFaults, UNCHANGED <<jobs, now, hand, cur, runs>>
    PROVE  QueueInv'
<1> USE QueueAssumption, NoAssumption DEF QueueInv, QueueTypeOK
<1>1. QueueTypeOK'
    BY DEF Stage
<1>2. OneRunner'
    BY DEF OneRunner, Claims
<1>3. HandsOK' /\ Counted'
    BY DEF HandsOK, Counted
<1> QED BY <1>1, <1>2, <1>3

(* Whoever lets claims go leaves the others' claims as they were, and the  *)
(* rows it touched were nobody else's.                                     *)
LEMMA ReleaseOK ==
    ASSUME QueueInv, NEW w \in Worker, NEW H \in SUBSET hand[w],
           NEW s \in {"idle", "working"}, s = "idle" => H = {},
           H # {} => stage[w] # "claiming",
           hand' = [hand EXCEPT ![w] = H],
           cur' = [cur EXCEPT ![w] = NoClaim],
           stage' = [stage EXCEPT ![w] = s],
           jobs' \in [Job -> JobRow \cup {NoJob}],
           \A j \in Job : jobs'[j] # jobs[j] =>
              cur[w] # NoClaim /\ j = cur[w].job,
           faults' \in 0..MaxFaults, UNCHANGED <<now, runs>>,
           \A j \in Job :
              /\ jobs'[j] = NoJob => runs[j] = 0
              /\ jobs'[j] # NoJob =>
                  /\ runs[j] <= MaxAttempts
                  /\ jobs'[j].status = "pending" =>
                        runs[j] = jobs'[j].attempts
                        /\ jobs'[j].attempts < MaxAttempts
                  /\ jobs'[j].status = "running" =>
                        runs[j] <= jobs'[j].attempts + 1
                        /\ jobs'[j].attempts < MaxAttempts
                  /\ jobs'[j].status = "dead" => runs[j] = MaxAttempts
    PROVE  QueueInv'
<1> USE NoAssumption DEF QueueInv, QueueTypeOK
<1>1. QueueTypeOK'
    BY DEF Stage
<1>2. /\ Claims(w)' = H
      /\ \A v \in Worker \ {w} : Claims(v)' = Claims(v) /\ stage'[v] = stage[v]
    BY DEF Claims
<1>3. \A v \in Worker : Claims(v)' \subseteq Claims(v)
    BY <1>2 DEF Claims
<1>4. \A v \in Worker : \A c \in Claims(v) : c \in ClaimedJob /\ c.job \in Job
    BY DEF Claims, ClaimedJob
<1>5. \A v \in Worker : \A c \in Claims(v)' : jobs'[c.job] = jobs[c.job]
    <2> SUFFICES ASSUME NEW v \in Worker, NEW c \in Claims(v)',
                        cur[w] # NoClaim, c.job = cur[w].job
                 PROVE  FALSE
        BY <1>3, <1>4
    <2>1. cur[w] \in Claims(w) /\ c \in Claims(v)
        BY <1>3 DEF Claims
    <2>2. v = w
        BY <2>1 DEF OneRunner
    <2> QED BY <1>2, <2>2 DEF HandsOK
<1>6. OneRunner'
    <2> SUFFICES ASSUME NEW v \in Worker, NEW c \in Claims(v)'
                 PROVE  /\ \A u \in Worker : \A d \in Claims(u)' :
                              c.job = d.job => u = v
                        /\ jobs'[c.job] # NoJob
                        /\ jobs'[c.job].attempts = c.attempts
                        /\ jobs'[c.job].status =
                              IF stage'[v] = "claiming" THEN "pending"
                              ELSE "running"
        BY DEF OneRunner
    <2>1. \A u \in Worker : \A d \in Claims(u)' : c.job = d.job => u = v
        BY <1>3 DEF OneRunner
    <2>2. (stage'[v] = "claiming") <=> (stage[v] = "claiming")
        BY <1>2
    <2> QED BY <1>3, <1>5, <2>1, <2>2 DEF OneRunner
<1>7. HandsOK'
    BY <1>1 DEF HandsOK
<1>8. Counted'
    <2>1. \A v \in Worker : \A c \in hand'[v] : runs'[c.job] = c.attempts
        BY DEF Counted
    <2>2. \A v \in Worker : cur'[v] # NoClaim =>
             runs'[cur'[v].job] = cur'[v].attempts + 1
        BY DEF Counted
    <2> QED BY <2>1, <2>2 DEF Counted
<1> QED BY <1>1, <1>6, <1>7, <1>8

(* A row that waits for its next attempt. *)
LEMMA RetriedRow ==
    ASSUME NEW row \in JobRow, NEW n \in Nat, now \in Nat, Delay(n) \in Nat
    PROVE  /\ Retried(row, n) \in JobRow
           /\ Retried(row, n).status = "pending"
           /\ Retried(row, n).attempts = n
<1>1. now + Delay(n) \in Nat
    OBVIOUS
<1> HIDE DEF Delay
<1> DEFINE t == now + Delay(n)
<1>2. t \in Nat
    BY <1>1
<1>3. Retried(row, n) = [row EXCEPT !.status = "pending", !.attempts = n,
                                    !.runAt = t]
    BY DEF Retried
<1> HIDE DEF t
<1> QED BY <1>2, <1>3 DEF JobRow, Status

(* The row a finished job becomes is well-formed, and counts the call. *)
LEMMA FinalizedRow ==
    ASSUME NEW row \in JobRow, NEW c \in ClaimedJob, NEW s \in {"ok", "err"},
           now \in Nat
    PROVE  LET new == Finalized(row, c, s)
           IN  /\ new \in JobRow
               /\ new.status \in {"done", "dead", "pending"}
               /\ new.status = "dead" => c.attempts + 1 >= MaxAttempts
               /\ new.status = "pending" =>
                     new.attempts = c.attempts + 1 /\ new.attempts < MaxAttempts
<1> USE QueueAssumption
<1>1. c.attempts + 1 \in Nat /\ c.attempts + 1 >= 1
    BY DEF ClaimedJob
<1>2. CASE s = "ok"
    <2>1. "done" \in Status
        BY DEF Status
    <2> QED BY <1>2, <2>1, WithStatusRow DEF Finalized
<1>3. CASE s = "err" /\ c.attempts + 1 >= MaxAttempts
    BY <1>1, <1>3 DEF Finalized, JobRow, Status
<1>4. CASE s = "err" /\ ~(c.attempts + 1 >= MaxAttempts)
    <2> DEFINE i == IF c.attempts + 1 <= Len(Backoff) THEN c.attempts + 1
                    ELSE Len(Backoff)
    <2>1. Len(Backoff) \in Nat \ {0}
        OBVIOUS
    <2>2. i \in 1..Len(Backoff)
        BY <1>1, <2>1
    <2>3. Delay(c.attempts + 1) \in Nat
        BY <2>2 DEF Delay
    <2>4. Finalized(row, c, s) = Retried(row, c.attempts + 1)
        BY <1>4 DEF Finalized
    <2>5. /\ Retried(row, c.attempts + 1) \in JobRow
          /\ Retried(row, c.attempts + 1).status = "pending"
          /\ Retried(row, c.attempts + 1).attempts = c.attempts + 1
        BY <1>1, <2>3, RetriedRow
    <2> QED BY <1>1, <1>4, <2>4, <2>5
<1> QED BY <1>2, <1>3, <1>4

(* execute writes the outcome to the row of its own claim. *)
LEMMA FinalizeOK ==
    ASSUME QueueInv, NEW w \in Worker, Finalize(w)
    PROVE  QueueInv'
<1> USE QueueAssumption, NoAssumption DEF QueueInv, QueueTypeOK
<1> DEFINE c == cur[w]
           row == jobs[c.job]
           new == Finalized(row, c, stage[w])
<1>1. /\ stage[w] \in {"ok", "err"}
      /\ jobs' = [jobs EXCEPT ![c.job] = new]
      /\ stage' = [stage EXCEPT ![w] = IF hand[w] = {} THEN "idle"
                                       ELSE "working"]
      /\ cur' = [cur EXCEPT ![w] = NoClaim]
      /\ UNCHANGED <<now, hand, runs, faults>>
    BY DEF Finalize, NextJob
<1>2. c # NoClaim /\ c \in ClaimedJob /\ c \in Claims(w)
    BY <1>1 DEF HandsOK, Claims
<1>3. c.job \in Job /\ row # NoJob /\ row \in JobRow
    BY <1>2 DEF OneRunner, ClaimedJob
<1>4. row.attempts = c.attempts /\ runs[c.job] = c.attempts + 1
    BY <1>2 DEF OneRunner, Counted
<1>5. row.status = "running" /\ c.attempts < MaxAttempts /\ c.attempts \in Nat
    BY <1>1, <1>2, <1>3, <1>4 DEF OneRunner, Counted, ClaimedJob
<1>6. /\ new \in JobRow
      /\ new.status \in {"done", "dead", "pending"}
      /\ new.status = "dead" => c.attempts + 1 >= MaxAttempts
      /\ new.status = "pending" =>
            new.attempts = c.attempts + 1 /\ new.attempts < MaxAttempts
    BY <1>1, <1>2, <1>3, FinalizedRow
<1> DEFINE s == IF hand[w] = {} THEN "idle" ELSE "working"
<1>7. jobs' \in [Job -> JobRow \cup {NoJob}]
    BY <1>1, <1>3, <1>6
<1>8. \A j \in Job : jobs'[j] = IF j = c.job THEN new ELSE jobs[j]
    BY <1>1, <1>3
<1> HIDE DEF new
<1>9. ASSUME NEW j \in Job
      PROVE  /\ jobs'[j] = NoJob => runs[j] = 0
             /\ jobs'[j] # NoJob =>
                  /\ runs[j] <= MaxAttempts
                  /\ jobs'[j].status = "pending" =>
                        runs[j] = jobs'[j].attempts
                        /\ jobs'[j].attempts < MaxAttempts
                  /\ jobs'[j].status = "running" =>
                        runs[j] <= jobs'[j].attempts + 1
                        /\ jobs'[j].attempts < MaxAttempts
                  /\ jobs'[j].status = "dead" => runs[j] = MaxAttempts
    <2>1. CASE j = c.job
        BY <1>4, <1>5, <1>6, <1>8, <2>1
    <2>2. CASE j # c.job
        BY <1>8, <2>2 DEF Counted
    <2> QED BY <2>1, <2>2
<1>10. hand' = [hand EXCEPT ![w] = hand[w]] /\ hand[w] \in SUBSET hand[w]
    BY <1>1
<1>11. /\ s \in {"idle", "working"} /\ (s = "idle" => hand[w] = {})
       /\ stage' = [stage EXCEPT ![w] = s] /\ stage[w] # "claiming"
    BY <1>1
<1>12. \A j \in Job : jobs'[j] # jobs[j] => cur[w] # NoClaim /\ j = cur[w].job
    BY <1>2, <1>8
<1>13. faults' \in 0..MaxFaults /\ UNCHANGED <<now, runs>>
    BY <1>1
<1> HIDE DEF c, s, row
<1> QED BY <1>1, <1>7, <1>9, <1>10, <1>11, <1>12, <1>13, ReleaseOK

(* A lost outcome leaves the row 'running', in nobody's hands. *)
LEMMA FinalizeFailsOK ==
    ASSUME QueueInv, NEW w \in Worker, FinalizeFails(w)
    PROVE  QueueInv'
<1> USE QueueAssumption DEF QueueInv, QueueTypeOK
<1> DEFINE s == IF hand[w] = {} THEN "idle" ELSE "working"
<1>1. /\ stage[w] \in {"ok", "err"}
      /\ stage' = [stage EXCEPT ![w] = s]
      /\ cur' = [cur EXCEPT ![w] = NoClaim]
      /\ UNCHANGED <<jobs, now, hand, runs>>
      /\ faults' \in 0..MaxFaults
    BY DEF FinalizeFails, NextJob
<1>2. hand' = [hand EXCEPT ![w] = hand[w]] /\ hand[w] \in SUBSET hand[w]
    BY <1>1
<1>3. s \in {"idle", "working"} /\ (s = "idle" => hand[w] = {})
    OBVIOUS
<1>4. \A j \in Job :
              /\ jobs'[j] = NoJob => runs[j] = 0
              /\ jobs'[j] # NoJob =>
                  /\ runs[j] <= MaxAttempts
                  /\ jobs'[j].status = "pending" =>
                        runs[j] = jobs'[j].attempts
                        /\ jobs'[j].attempts < MaxAttempts
                  /\ jobs'[j].status = "running" =>
                        runs[j] <= jobs'[j].attempts + 1
                        /\ jobs'[j].attempts < MaxAttempts
                  /\ jobs'[j].status = "dead" => runs[j] = MaxAttempts
    BY <1>1 DEF Counted
<1> HIDE DEF s
<1> QED BY <1>1, <1>2, <1>3, <1>4, ReleaseOK

(* A crash forgets the claims and leaves the rows as they were committed. *)
LEMMA CrashOK ==
    ASSUME QueueInv, NEW w \in Worker, Crash(w)
    PROVE  QueueInv'
<1> USE QueueAssumption DEF QueueInv, QueueTypeOK
<1>1. /\ stage' = [stage EXCEPT ![w] = "idle"]
      /\ hand' = [hand EXCEPT ![w] = {}]
      /\ cur' = [cur EXCEPT ![w] = NoClaim]
      /\ UNCHANGED <<jobs, now, runs>>
      /\ faults' \in 0..MaxFaults
    BY DEF Crash
<1>2. \A j \in Job :
              /\ jobs'[j] = NoJob => runs[j] = 0
              /\ jobs'[j] # NoJob =>
                  /\ runs[j] <= MaxAttempts
                  /\ jobs'[j].status = "pending" =>
                        runs[j] = jobs'[j].attempts
                        /\ jobs'[j].attempts < MaxAttempts
                  /\ jobs'[j].status = "running" =>
                        runs[j] <= jobs'[j].attempts + 1
                        /\ jobs'[j].attempts < MaxAttempts
                  /\ jobs'[j].status = "dead" => runs[j] = MaxAttempts
    BY <1>1 DEF Counted
<1>3. {} \in SUBSET hand[w]
    OBVIOUS
<1> QED BY <1>1, <1>2, <1>3, ReleaseOK

(* Only finished rows are purged, and no claim holds one. *)
LEMMA PurgeOK ==
    ASSUME QueueInv, NEW j \in Job, Purge(j)
    PROVE  QueueInv'
<1> USE QueueAssumption, NoAssumption DEF QueueInv, QueueTypeOK
<1>1. /\ jobs[j] \in JobRow /\ jobs[j].status \in {"done", "dead"}
      /\ jobs' = [jobs EXCEPT ![j] = WithStatus(jobs[j], "purged")]
      /\ UNCHANGED <<now, stage, hand, cur, runs, faults>>
    BY DEF Purge
<1>2. "purged" \in Status
    BY DEF Status
<1>3. jobs'[j] \in JobRow /\ jobs'[j].status = "purged"
    BY <1>1, <1>2, WithStatusRow
<1>4. \A i \in Job \ {j} : jobs'[i] = jobs[i]
    BY <1>1
<1>5. QueueTypeOK'
    BY <1>1, <1>3, <1>4
<1>6. \A w \in Worker : Claims(w)' = Claims(w)
    BY <1>1 DEF Claims
<1>7. \A w \in Worker : \A c \in Claims(w) : c.job \in Job \ {j}
    BY <1>1 DEF OneRunner, Claims, ClaimedJob
<1>8. OneRunner'
    BY <1>1, <1>4, <1>6, <1>7 DEF OneRunner
<1>9. HandsOK'
    BY <1>1 DEF HandsOK
<1>10. Counted'
    BY <1>1, <1>3, <1>4 DEF Counted
<1> QED BY <1>5, <1>8, <1>9, <1>10

(* Time changes no row. *)
LEMMA TickOK ==
    ASSUME QueueInv, Tick
    PROVE  QueueInv'
<1> USE DEF QueueInv, QueueTypeOK, Tick
<1>1. QueueTypeOK'
    OBVIOUS
<1>2. OneRunner' /\ HandsOK' /\ Counted'
    BY DEF OneRunner, Claims, HandsOK, Counted
<1> QED BY <1>1, <1>2

(* Every step of the queue preserves the invariant. *)
LEMMA QueueNextOK ==
    ASSUME QueueInv, [QueueNext]_queueVars
    PROVE  QueueInv'
<1>1. CASE UNCHANGED queueVars
    BY <1>1 DEF queueVars, QueueInv, QueueTypeOK, OneRunner, Claims, HandsOK,
                Counted
<1>2. ASSUME NEW w \in Worker, NEW s \in {"ok", "err"}, Return(w, s)
      PROVE  QueueInv'
    BY <1>2, HandlerOK DEF Return, QueueInv, QueueTypeOK
<1>3. ASSUME NEW w \in Worker, HandlerFails(w)
      PROVE  QueueInv'
    <2>1. faults' \in 0..MaxFaults
        BY <1>3, QueueAssumption DEF HandlerFails, QueueInv, QueueTypeOK
    <2> QED BY <1>3, <2>1, HandlerOK DEF HandlerFails
<1>4. CASE QueueNext
    BY <1>2, <1>3, <1>4, EnqueueOK, ClaimLockOK, ClaimCommitOK, TakeOK,
       FinalizeOK, FinalizeFailsOK, CrashOK, PurgeOK, TickOK DEF QueueNext
<1> QED BY <1>1, <1>4

(* The queue's inductive invariant holds throughout claim_due, execute     *)
(* and purge_old, faults included.                                         *)
THEOREM QueueInvariant == QueueSpec => []QueueInv
<1>1. QueueInit => QueueInv
    BY QueueInitOK
<1>2. QueueInv /\ [QueueNext]_queueVars => QueueInv'
    BY QueueNextOK
<1> QED BY <1>1, <1>2, PTL DEF QueueSpec

(* OneRunner and RunsBounded, for any number of instances, jobs, attempts  *)
(* and crashes, whatever the handlers do: two instances never have the     *)
(* same job, and no handler is called more than max_attempts times for it. *)
THEOREM QueueSafe == QueueSpec => [](OneRunner /\ RunsBounded)
<1>1. QueueInv => OneRunner /\ RunsBounded
    BY QueueAssumption DEF QueueInv, QueueTypeOK, Counted, RunsBounded
<1> QED BY <1>1, QueueInvariant, PTL

-----------------------------------------------------------------------------
(* A worker inside deliver has a job whose payload is a delivery, and goes *)
(* on to a next attempt only when there is one.                            *)
StepOK ==
    /\ step \in [Worker -> {"load", "record_ok", "record_failed", "next",
                            "enqueue", "return"}]
    /\ \A w \in Worker :
        /\ step[w] # "load" => stage[w] = "handler" /\ Subject(w) \in Delivery
        /\ step[w] \in {"next", "enqueue"} => Next1(Subject(w)) \in Delivery

(* A row that was enqueued keeps its payload. *)
LEMMA PayloadStays ==
    ASSUME QueueInv, [QueueNext]_queueVars, NEW j \in Job, jobs[j] # NoJob
    PROVE  jobs'[j] # NoJob /\ jobs'[j].target = jobs[j].target
<1> USE QueueAssumption, NoAssumption
<1>1. jobs[j] \in JobRow /\ jobs'[j] \in JobRow \cup {NoJob}
    BY QueueNextOK DEF QueueInv, QueueTypeOK
<1>2. ASSUME NEW s PROVE WithStatus(jobs[j], s).target = jobs[j].target
    BY <1>1 DEF WithStatus, JobRow
<1>3. ASSUME NEW n PROVE Retried(jobs[j], n).target = jobs[j].target
    BY <1>1 DEF Retried, JobRow
<1>4. ASSUME NEW c, NEW s
      PROVE  Finalized(jobs[j], c, s).target = jobs[j].target
    BY <1>1, <1>2, <1>3 DEF Finalized, JobRow
<1>5. ASSUME NEW row, row.target = jobs[j].target, row \in JobRow \cup {NoJob},
             row = WithStatus(jobs[j], "running") \/ row = jobs[j]
      PROVE  row # NoJob
    <2>1. "running" \in Status
        BY DEF Status
    <2> QED BY <1>1, <1>5, <2>1, WithStatusRow
<1>6. ASSUME NEW i \in Job, NEW d \in Target, Enqueue(i, d)
      PROVE  jobs'[j] = jobs[j]
    BY <1>6 DEF Enqueue, Fresh, QueueInv, QueueTypeOK
<1>7. ASSUME NEW w \in Worker, ClaimCommit(w)
      PROVE  jobs'[j] # NoJob /\ jobs'[j].target = jobs[j].target
    <2>1. jobs'[j] = WithStatus(jobs[j], "running") \/ jobs'[j] = jobs[j]
        BY <1>7 DEF ClaimCommit
    <2>2. jobs'[j].target = jobs[j].target
        BY <1>2, <2>1
    <2> QED BY <1>1, <1>5, <2>1, <2>2
<1>8. ASSUME NEW w \in Worker, Finalize(w)
      PROVE  jobs'[j] # NoJob /\ jobs'[j].target = jobs[j].target
    <2>1. cur[w] \in ClaimedJob /\ stage[w] \in {"ok", "err"} /\ now \in Nat
        BY <1>8 DEF Finalize, QueueInv, QueueTypeOK, HandsOK
    <2>2. \/ jobs'[j] = jobs[j]
          \/ jobs'[j] = Finalized(jobs[j], cur[w], stage[w])
        BY <1>8 DEF Finalize, QueueInv, QueueTypeOK
    <2>3. Finalized(jobs[j], cur[w], stage[w]) \in JobRow
        BY <1>1, <2>1, FinalizedRow
    <2> QED BY <1>4, <2>2, <2>3
<1>9. ASSUME NEW i \in Job, Purge(i)
      PROVE  jobs'[j] # NoJob /\ jobs'[j].target = jobs[j].target
    <2>1. jobs'[j] = jobs[j] \/ jobs'[j] = WithStatus(jobs[j], "purged")
        BY <1>9 DEF Purge, QueueInv, QueueTypeOK
    <2>2. "purged" \in Status
        BY DEF Status
    <2> QED BY <1>1, <1>2, <2>1, <2>2, WithStatusRow
<1>10. CASE jobs' = jobs
    BY <1>10
<1>11. CASE UNCHANGED queueVars
    BY <1>11 DEF queueVars
<1>12. CASE QueueNext
    BY <1>6, <1>7, <1>8, <1>9, <1>10, <1>12
    DEF QueueNext, ClaimLock, Take, Return, HandlerFails, FinalizeFails, Crash,
        Tick
<1> QED BY <1>11, <1>12

(* Every step of the deliveries is a step of the queue, or none. *)
LEMMA DeliveryIsQueueStep ==
    ASSUME QueueInv, StepOK, [DeliveryNext]_allVars
    PROVE  [QueueNext]_queueVars
<1> USE DeliveryAssumption
<1>1. CASE UNCHANGED allVars
    BY <1>1 DEF allVars
<1>2. ASSUME NEW d \in Delivery, NEW j \in Job, EnqueueOwed(d, j)
      PROVE  QueueNext
    BY <1>2 DEF EnqueueOwed, QueueNext
<1>3. ASSUME NEW w \in Worker, NEW j \in Job, DeliverEnqueue(w, j)
      PROVE  QueueNext
    <2>1. Next1(Subject(w)) \in Target
        BY <1>3 DEF DeliverEnqueue, At, StepOK
    <2> QED BY <1>3, <2>1 DEF DeliverEnqueue, QueueNext
<1>4. ASSUME NEW j \in Job, EnqueueScan(j)
      PROVE  QueueNext
    BY <1>4 DEF EnqueueScan, QueueNext
<1>5. ASSUME NEW w \in Worker, Loop(w)
      PROVE  QueueNext
    BY <1>5 DEF Loop, QueueNext
<1>6. ASSUME NEW w \in Worker, DeliverNext(w) \/ DeliverReturn(w) \/ RunScan(w)
      PROVE  [QueueNext]_queueVars
    BY <1>6 DEF DeliverNext, DeliverReturn, RunScan, QueueNext
<1>7. ASSUME NEW w \in Worker, DeliverPost(w) \/ DeliverRecord(w)
      PROVE  UNCHANGED queueVars
    BY <1>7 DEF DeliverPost, DeliverRecord
<1>8. ASSUME NEW w \in Worker,
             DeliverFails(w) \/ WorkerCrash(w) \/ FinalizeFails(w)
      PROVE  QueueNext
    BY <1>8 DEF DeliverFails, WorkerCrash, QueueNext
<1>9. ASSUME \/ \E e \in Event : Emit(e)
             \/ \E d \in Delivery : ReplayLatest(d) \/ LoseOwed(d)
             \/ Toggle
      PROVE  UNCHANGED queueVars
    BY <1>9 DEF Emit, ReplayLatest, LoseOwed, Toggle
<1>10. CASE (\E j \in Job : Purge(j)) \/ Tick
    BY <1>10 DEF QueueNext
<1>11. CASE DeliveryNext
    BY <1>2, <1>3, <1>4, <1>5, <1>6, <1>7, <1>8, <1>9, <1>10, <1>11
    DEF DeliveryNext, Work
<1> QED BY <1>1, <1>11

(* A worker that does not move keeps its place in deliver. *)
LEMMA StepStays ==
    ASSUME QueueInv, StepOK, [QueueNext]_queueVars, NEW w \in Worker,
           step'[w] = step[w], stage'[w] = stage[w], cur'[w] = cur[w]
    PROVE  /\ step'[w] # "load" =>
                 stage'[w] = "handler" /\ Subject(w)' \in Delivery
           /\ step'[w] \in {"next", "enqueue"} => Next1(Subject(w))' \in Delivery
<1>1. CASE step[w] = "load"
    BY <1>1
<1>2. CASE step[w] # "load"
    <2>1. stage[w] = "handler" /\ Subject(w) \in Delivery
        BY <1>2 DEF StepOK
    <2>2. cur[w] # NoClaim /\ cur[w] \in Claims(w) /\ cur[w].job \in Job
        BY <2>1 DEF QueueInv, QueueTypeOK, HandsOK, Claims, ClaimedJob
    <2>3. Subject(w)' = Subject(w)
        BY <2>2, PayloadStays DEF Subject, QueueInv, OneRunner
    <2> QED BY <2>1, <2>3 DEF StepOK, Next1
<1> QED BY <1>1, <1>2

(* deliver keeps its own place, and the queue's steps keep it too. *)
LEMMA StepNextOK ==
    ASSUME QueueInv, StepOK, [DeliveryNext]_allVars
    PROVE  StepOK'
<1> USE DeliveryAssumption
<1>1. [QueueNext]_queueVars
    BY DeliveryIsQueueStep
<1> DEFINE Steps == {"load", "record_ok", "record_failed", "next", "enqueue",
                     "return"}
<1> DEFINE Fine(w) ==
              /\ step'[w] # "load" =>
                    stage'[w] = "handler" /\ Subject(w)' \in Delivery
              /\ step'[w] \in {"next", "enqueue"} =>
                    Next1(Subject(w))' \in Delivery
<1>2. ASSUME step' = step, stage' = stage, cur' = cur
      PROVE  StepOK'
    BY <1>1, <1>2, StepStays DEF StepOK
<1>3. ASSUME NEW w \in Worker, NEW s \in Steps, step' = [step EXCEPT ![w] = s],
             \A v \in Worker \ {w} : stage'[v] = stage[v] /\ cur'[v] = cur[v],
             Fine(w)
      PROVE  StepOK'
    <2>1. step' \in [Worker -> Steps]
        BY <1>3 DEF StepOK
    <2>2. \A v \in Worker \ {w} : Fine(v)
        BY <1>1, <1>3, StepStays DEF StepOK
    <2> QED BY <1>3, <2>1, <2>2 DEF StepOK
<1>4. \A w \in Worker : stage[w] # "handler" => step[w] = "load"
    BY DEF StepOK
<1>5. ASSUME NEW w \in Worker, step' = step, stage[w] # "handler",
             \A v \in Worker \ {w} : stage'[v] = stage[v] /\ cur'[v] = cur[v]
      PROVE  StepOK'
    <2>1. step[w] = "load" /\ step' = [step EXCEPT ![w] = "load"]
        BY <1>4, <1>5 DEF StepOK
    <2>2. step'[w] = "load"
        BY <1>5, <2>1
    <2> QED BY <1>3, <1>5, <2>1, <2>2
<1>6. ASSUME NEW w \in Worker, step' = [step EXCEPT ![w] = "load"],
             \A v \in Worker \ {w} : stage'[v] = stage[v] /\ cur'[v] = cur[v]
      PROVE  StepOK'
    <2>1. step'[w] = "load"
        BY <1>6 DEF StepOK
    <2> QED BY <1>3, <1>6, <2>1
<1>7. ASSUME NEW w \in Worker, NEW s \in Steps \ {"load"}, stage[w] = "handler",
             step' = [step EXCEPT ![w] = s], stage' = stage, cur' = cur,
             Subject(w) \in Delivery,
             s \in {"next", "enqueue"} => Next1(Subject(w)) \in Delivery
      PROVE  StepOK'
    <2>1. cur[w] # NoClaim /\ cur[w] \in Claims(w) /\ cur[w].job \in Job
        BY <1>7 DEF QueueInv, QueueTypeOK, HandsOK, Claims, ClaimedJob
    <2>2. Subject(w)' = Subject(w)
        BY <1>1, <1>7, <2>1, PayloadStays DEF Subject, QueueInv, OneRunner
    <2>3. step'[w] = s
        BY <1>7 DEF StepOK
    <2>4. Fine(w)
        BY <1>7, <2>2, <2>3 DEF Next1
    <2> QED BY <1>3, <1>7, <2>4
<1>8. ASSUME NEW w \in Worker, DeliverPost(w)
      PROVE  StepOK'
    <2>1. /\ stage[w] = "handler" /\ Subject(w) # Scan
          /\ UNCHANGED <<stage, cur>>
          /\ \E s \in {"return", "record_ok", "record_failed"} :
                step' = [step EXCEPT ![w] = s]
        BY <1>8 DEF DeliverPost, At, GoTo, queueVars
    <2>2. cur[w].job \in Job /\ jobs[cur[w].job] \in JobRow
        BY <2>1 DEF QueueInv, QueueTypeOK, HandsOK, OneRunner, Claims,
                    ClaimedJob
    <2>3. Subject(w) \in Delivery
        BY <2>1, <2>2 DEF Subject, JobRow
    <2> QED BY <1>7, <2>1, <2>3
<1>9. ASSUME NEW w \in Worker, DeliverRecord(w)
      PROVE  StepOK'
    <2>1. /\ stage[w] = "handler" /\ Subject(w) \in Delivery
          /\ UNCHANGED <<stage, cur>>
          /\ \E s \in {"return", "next"} :
                /\ step' = [step EXCEPT ![w] = s]
                /\ s = "next" => Subject(w)[2] + 1 < MaxTries
        BY <1>9 DEF DeliverRecord, At, GoTo, queueVars, StepOK
    <2>2. Subject(w)[2] + 1 < MaxTries => Next1(Subject(w)) \in Delivery
        BY <2>1 DEF Next1, Delivery
    <2> QED BY <1>7, <2>1, <2>2
<1>10. ASSUME NEW w \in Worker, DeliverNext(w)
       PROVE  StepOK'
    <2>1. /\ stage[w] = "handler" /\ Subject(w) \in Delivery
          /\ Next1(Subject(w)) \in Delivery
        BY <1>10 DEF DeliverNext, At, StepOK
    <2>2. \/ step' = [step EXCEPT ![w] = "enqueue"] /\ UNCHANGED <<stage, cur>>
          \/ /\ step' = [step EXCEPT ![w] = "load"]
             /\ stage' = [stage EXCEPT ![w] = "err"] /\ UNCHANGED cur
        BY <1>10 DEF DeliverNext, GoTo, Return, queueVars
    <2>3. \A v \in Worker \ {w} :
             stage' = [stage EXCEPT ![w] = "err"] => stage'[v] = stage[v]
        BY DEF QueueInv, QueueTypeOK
    <2> QED BY <1>6, <1>7, <2>1, <2>2, <2>3
<1>11. ASSUME NEW w \in Worker, NEW j \in Job, DeliverEnqueue(w, j)
       PROVE  StepOK'
    <2>1. /\ stage[w] = "handler" /\ Subject(w) \in Delivery
          /\ UNCHANGED <<stage, cur>> /\ step' = [step EXCEPT ![w] = "return"]
        BY <1>11 DEF DeliverEnqueue, At, GoTo, StepOK
    <2> QED BY <1>7, <2>1
<1>12. ASSUME NEW w \in Worker,
              DeliverReturn(w) \/ DeliverFails(w) \/ WorkerCrash(w)
       PROVE  StepOK'
    <2>1. step' = [step EXCEPT ![w] = "load"]
        BY <1>12 DEF DeliverReturn, DeliverFails, WorkerCrash, GoTo
    <2>2. \A v \in Worker \ {w} : stage'[v] = stage[v] /\ cur'[v] = cur[v]
        BY <1>12 DEF DeliverReturn, DeliverFails, WorkerCrash, Return,
                     HandlerFails, Crash, QueueInv, QueueTypeOK
    <2> QED BY <1>6, <2>1, <2>2
<1>13. ASSUME NEW w \in Worker, RunScan(w)
       PROVE  StepOK'
    <2>1. step[w] = "load" /\ step' = step
        BY <1>13 DEF RunScan, At, deliveryVars
    <2>2. \A v \in Worker \ {w} : stage'[v] = stage[v] /\ cur'[v] = cur[v]
        BY <1>13 DEF RunScan, Return, QueueInv, QueueTypeOK
    <2>3. step' = [step EXCEPT ![w] = "load"]
        BY <2>1 DEF StepOK
    <2> QED BY <1>6, <2>2, <2>3
<1>14. ASSUME NEW w \in Worker,
              \/ Loop(w)
              \/ FinalizeFails(w) /\ UNCHANGED deliveryVars
       PROVE  StepOK'
    <2>1. step' = step /\ stage[w] # "handler"
        BY <1>14 DEF Loop, deliveryVars, ClaimLock, ClaimCommit, Take, Finalize,
                     FinalizeFails
    <2>2. \A v \in Worker \ {w} : stage'[v] = stage[v] /\ cur'[v] = cur[v]
        BY <1>14 DEF Loop, ClaimLock, ClaimCommit, Take, Finalize,
                     FinalizeFails, NextJob, QueueInv, QueueTypeOK
    <2> QED BY <1>5, <2>1, <2>2
<1>15. ASSUME \/ \E e \in Event : Emit(e)
              \/ \E d \in Delivery : \/ ReplayLatest(d) \/ LoseOwed(d)
                                     \/ \E j \in Job : EnqueueOwed(d, j)
              \/ Toggle
              \/ \E j \in Job : \/ EnqueueScan(j)
                                \/ Purge(j) /\ UNCHANGED deliveryVars
              \/ Tick /\ UNCHANGED deliveryVars
              \/ UNCHANGED allVars
       PROVE  StepOK'
    <2>1. step' = step /\ stage' = stage /\ cur' = cur
        BY <1>15 DEF Emit, ReplayLatest, LoseOwed, EnqueueOwed, Toggle,
                     EnqueueScan, Purge, Tick, queueVars, deliveryVars, allVars
    <2> QED BY <1>2, <2>1
<1>16. ASSUME NEW w \in Worker, Work(w)
       PROVE  StepOK'
    <2>1. CASE Loop(w)
        BY <1>14, <2>1
    <2>2. CASE DeliverPost(w) \/ DeliverRecord(w) \/ DeliverNext(w)
        BY <1>8, <1>9, <1>10, <2>2
    <2>3. CASE \E j \in Job : DeliverEnqueue(w, j)
        BY <1>11, <2>3
    <2>4. CASE DeliverReturn(w) \/ RunScan(w)
        BY <1>12, <1>13, <2>4
    <2> QED BY <1>16, <2>1, <2>2, <2>3, <2>4 DEF Work
<1>17. ASSUME NEW w \in Worker,
              \/ Work(w) \/ DeliverFails(w) \/ WorkerCrash(w)
              \/ FinalizeFails(w) /\ UNCHANGED deliveryVars
       PROVE  StepOK'
    BY <1>12, <1>14, <1>16, <1>17
<1>18. CASE UNCHANGED allVars
    BY <1>15, <1>18
<1>19. CASE DeliveryNext
    BY <1>15, <1>17, <1>19 DEF DeliveryNext
<1> QED BY <1>18, <1>19

(* The deliveries use the queue as JobQueue describes it: emit, replay and *)
(* deliver only enqueue, return Ok or return Err.                          *)
THEOREM DeliveriesKeepQueue == DeliverySpec => QueueKept
<1>1. DeliveryInit => QueueInit /\ StepOK
    BY DEF DeliveryInit, QueueInit, StepOK
<1>2. QueueInit => QueueInv
    BY QueueInitOK
<1>3. QueueInv /\ StepOK /\ [DeliveryNext]_allVars =>
         [QueueNext]_queueVars /\ StepOK'
    BY DeliveryIsQueueStep, StepNextOK
<1>4. QueueInv /\ [QueueNext]_queueVars => QueueInv'
    BY QueueNextOK
<1> QED BY <1>1, <1>2, <1>3, <1>4, PTL DEF DeliverySpec, QueueSpec, QueueKept

(* So two instances never deliver the same attempt, and an attempt is sent *)
(* at most max_attempts times by its job.                                  *)
THEOREM DeliveriesSafe == DeliverySpec => [](OneRunner /\ RunsBounded)
    BY DeliveriesKeepQueue, QueueSafe, PTL DEF QueueKept

-----------------------------------------------------------------------------
(* A job for the attempt d; a worker about to enqueue one. *)
JobOf(j, d) == jobs[j] # NoJob /\ jobs[j].target = d
Comes(w, d) == At(w, "enqueue") /\ Next1(Subject(w)) = d

(* An attempt gets its row, then someone who owes it a job, then the job:  *)
(* one after the other, and never a second time.                           *)
AttemptsOK ==
    /\ rows \in [Delivery -> {"none", "open", "ok", "failed"}]
    /\ owed \subseteq Delivery /\ lost \subseteq Delivery /\ enabled \in BOOLEAN
    /\ \A d \in Delivery :
        /\ \A j \in Job : JobOf(j, d) =>
              /\ rows[d] # "none" /\ d \notin owed
              /\ \A w \in Worker : ~Comes(w, d)
              /\ \A i \in Job : JobOf(i, d) => i = j
        /\ d \in owed => rows[d] # "none" /\ \A w \in Worker : ~Comes(w, d)
        /\ \A w \in Worker : Comes(w, d) =>
              rows[d] # "none" /\ \A v \in Worker : Comes(v, d) => v = w
    /\ Undisturbed => \A d \in Delivery : rows[d] # "none" =>
          d \in owed \/ (\E w \in Worker : Comes(w, d)) \/ \E j \in Job : JobOf(j, d)

(* The inductive invariant of the deliveries. *)
DeliveryInv == QueueInv /\ StepOK /\ AttemptsOK

(* Only a worker that moves begins or ceases to owe a job. *)
LEMMA ComesStays ==
    ASSUME DeliveryInv, [DeliveryNext]_allVars, NEW w \in Worker, NEW d,
           step'[w] = step[w], stage'[w] = stage[w], cur'[w] = cur[w]
    PROVE  Comes(w, d)' <=> Comes(w, d)
<1>1. CASE step[w] # "enqueue"
    BY <1>1 DEF Comes, At
<1>2. CASE step[w] = "enqueue"
    <2>1. stage[w] = "handler"
        BY <1>2 DEF DeliveryInv, StepOK
    <2>2. cur[w] # NoClaim /\ cur[w] \in Claims(w) /\ cur[w].job \in Job
        BY <2>1 DEF DeliveryInv, QueueInv, QueueTypeOK, HandsOK, Claims, ClaimedJob
    <2>3. Subject(w)' = Subject(w)
        BY <2>2, PayloadStays, DeliveryIsQueueStep
        DEF Subject, DeliveryInv, QueueInv, OneRunner
    <2> QED BY <2>3 DEF Comes, At, Next1
<1> QED BY <1>1, <1>2

(* No step of the queue but Enqueue makes or retargets a row. *)
LEMMA JobsStay ==
    ASSUME DeliveryInv, [DeliveryNext]_allVars, NEW j \in Job, NEW d,
           \/ jobs' = jobs
           \/ \E w \in Worker : ClaimCommit(w) \/ Finalize(w)
           \/ \E i \in Job : Purge(i)
    PROVE  JobOf(j, d)' <=> JobOf(j, d)
<1>1. [QueueNext]_queueVars /\ QueueInv
    BY DeliveryIsQueueStep DEF DeliveryInv
<1>2. CASE jobs[j] # NoJob
    BY <1>1, <1>2, PayloadStays DEF JobOf
<1>3. CASE jobs[j] = NoJob
    <2>1. jobs'[j] = NoJob
        <3>1. CASE jobs' = jobs
            BY <1>3, <3>1
        <3>2. ASSUME NEW w \in Worker, ClaimCommit(w)
              PROVE  jobs'[j] = NoJob
            <4>1. j \notin Has(w)
                BY <1>1, <1>3 DEF QueueInv, OneRunner, Claims, Has
            <4> QED BY <1>3, <3>2, <4>1 DEF ClaimCommit
        <3>3. ASSUME NEW w \in Worker, Finalize(w)
              PROVE  jobs'[j] = NoJob
            <4>1. cur[w] # NoClaim
                BY <1>1, <3>3 DEF Finalize, QueueInv, HandsOK
            <4>2. cur[w].job # j
                BY <1>1, <1>3, <4>1 DEF QueueInv, OneRunner, Claims
            <4> QED BY <1>1, <1>3, <3>3, <4>2 DEF Finalize, QueueInv, QueueTypeOK
        <3>4. ASSUME NEW i \in Job, Purge(i)
              PROVE  jobs'[j] = NoJob
            BY <1>1, <1>3, <3>4 DEF Purge, QueueInv, QueueTypeOK
        <3> QED BY <3>1, <3>2, <3>3, <3>4
    <2> QED BY <1>3, <2>1 DEF JobOf
<1> QED BY <1>2, <1>3

(* Nobody's obligation changes but possibly that of w, who gives up. *)
LEMMA NoNewAttempt ==
    ASSUME DeliveryInv,
           rows' \in [Delivery -> {"none", "open", "ok", "failed"}],
           owed' = owed, lost' \subseteq Delivery, enabled' \in BOOLEAN,
           \A d \in Delivery : rows'[d] = "none" <=> rows[d] = "none",
           \A d \in Delivery, j \in Job : JobOf(j, d)' <=> JobOf(j, d),
           \A d \in Delivery, w \in Worker : Comes(w, d)' => Comes(w, d),
           Undisturbed' => /\ Undisturbed
                           /\ \A d \in Delivery, w \in Worker : Comes(w, d) => Comes(w, d)'
    PROVE  AttemptsOK'
    BY DEF DeliveryInv, AttemptsOK

(* The request inserts the row and owes its job. *)
LEMMA RowInsertedOK ==
    ASSUME DeliveryInv, [DeliveryNext]_allVars, NEW d \in Delivery,
           rows[d] = "none", rows' = [rows EXCEPT ![d] = "open"],
           owed' = owed \cup {d}, UNCHANGED <<queueVars, step, lost, enabled>>
    PROVE  AttemptsOK'
<1>1. \A f \in Delivery, w \in Worker : Comes(w, f)' <=> Comes(w, f)
    BY ComesStays DEF queueVars
<1>2. \A f \in Delivery, j \in Job : JobOf(j, f)' <=> JobOf(j, f)
    BY DEF queueVars, JobOf
<1>3. Undisturbed' <=> Undisturbed
    BY DEF queueVars, Undisturbed
<1>4. rows' \in [Delivery -> {"none", "open", "ok", "failed"}]
    BY DEF DeliveryInv, AttemptsOK
<1> QED BY <1>1, <1>2, <1>3, <1>4 DEF DeliveryInv, AttemptsOK

(* The request enqueues the job it owes. *)
LEMMA EnqueueOwedOK ==
    ASSUME DeliveryInv, [DeliveryNext]_allVars, NEW d \in Delivery,
           NEW j \in Job, EnqueueOwed(d, j)
    PROVE  AttemptsOK'
<1> USE QueueAssumption, NoAssumption, DeliveryAssumption
<1>1. \A f \in Delivery, w \in Worker : Comes(w, f)' <=> Comes(w, f)
    BY ComesStays DEF EnqueueOwed
<1>2. \A f \in Delivery, i \in Job :
         JobOf(i, f)' <=> (JobOf(i, f) \/ (i = j /\ f = d))
    BY DEF EnqueueOwed, Enqueue, Fresh, JobOf, DeliveryInv, QueueInv,
           QueueTypeOK, JobRow, Status
<1>3. Undisturbed' <=> Undisturbed
    BY DEF EnqueueOwed, Undisturbed
<1> QED BY <1>1, <1>2, <1>3 DEF EnqueueOwed, DeliveryInv, AttemptsOK

(* The request dies, or fails, between the two statements. *)
LEMMA LoseOwedOK ==
    ASSUME DeliveryInv, [DeliveryNext]_allVars, NEW d \in Delivery, LoseOwed(d)
    PROVE  AttemptsOK'
<1>1. \A f \in Delivery, w \in Worker : Comes(w, f)' <=> Comes(w, f)
    BY ComesStays DEF LoseOwed, queueVars
<1>2. \A f \in Delivery, j \in Job : JobOf(j, f)' <=> JobOf(j, f)
    BY DEF LoseOwed, queueVars, JobOf
<1>3. ~Undisturbed'
    BY DEF LoseOwed, Undisturbed
<1> QED BY <1>1, <1>2, <1>3 DEF LoseOwed, DeliveryInv, AttemptsOK

(* The worker inserts the next attempt, or meets a row that is there. *)
LEMMA DeliverNextOK ==
    ASSUME DeliveryInv, [DeliveryNext]_allVars, NEW w \in Worker, DeliverNext(w)
    PROVE  AttemptsOK'
<1> DEFINE d == Next1(Subject(w))
<1>1. d \in Delivery /\ ~(\E f \in Delivery : Comes(w, f))
    BY DEF DeliverNext, At, DeliveryInv, StepOK, Comes
<1>2. \A f \in Delivery, v \in Worker \ {w} : Comes(v, f)' <=> Comes(v, f)
    <2> SUFFICES ASSUME NEW f \in Delivery, NEW v \in Worker \ {w}
                 PROVE  Comes(v, f)' <=> Comes(v, f)
        OBVIOUS
    <2>1. step'[v] = step[v] /\ stage'[v] = stage[v] /\ cur'[v] = cur[v]
        BY DEF DeliverNext, GoTo, Return, queueVars, DeliveryInv, QueueInv,
               QueueTypeOK, StepOK
    <2> QED BY <2>1, ComesStays
<1>3. \A f \in Delivery, j \in Job : JobOf(j, f)' <=> JobOf(j, f)
    BY DEF DeliverNext, Return, queueVars, JobOf
<1>4. Undisturbed' <=> Undisturbed
    BY DEF DeliverNext, Return, queueVars, Undisturbed
<1>5. CASE rows[d] = "none"
    <2>1. /\ rows' = [rows EXCEPT ![d] = "open"]
          /\ UNCHANGED <<queueVars, owed, lost, enabled>>
          /\ step' = [step EXCEPT ![w] = "enqueue"]
        BY <1>5 DEF DeliverNext, GoTo
    <2>2. \A f \in Delivery : Comes(w, f)' <=> f = d
        BY <2>1, <1>1 DEF Comes, At, queueVars, DeliverNext, Subject, Next1,
                          DeliveryInv, StepOK
    <2>3. rows' \in [Delivery -> {"none", "open", "ok", "failed"}]
        BY <2>1 DEF DeliveryInv, AttemptsOK
    <2>4. \A v \in Worker : ~Comes(v, d)
        BY <1>1, <1>5 DEF DeliveryInv, AttemptsOK
    <2> HIDE DEF d
    <2> QED BY <1>1, <1>2, <1>3, <1>4, <1>5, <2>1, <2>2, <2>3, <2>4
        DEF DeliveryInv, AttemptsOK
<1>6. CASE rows[d] # "none"
    <2>1. /\ UNCHANGED <<rows, owed, lost, enabled>>
          /\ step' = [step EXCEPT ![w] = "load"]
        BY <1>6 DEF DeliverNext, GoTo
    <2>2. \A f \in Delivery : ~Comes(w, f)'
        BY <2>1 DEF Comes, At, DeliveryInv, StepOK
    <2> QED BY <1>1, <1>2, <1>3, <1>4, <2>1, <2>2, NoNewAttempt
        DEF DeliveryInv, AttemptsOK
<1> QED BY <1>5, <1>6

(* The worker enqueues the job of the attempt it has inserted. *)
LEMMA DeliverEnqueueOK ==
    ASSUME DeliveryInv, [DeliveryNext]_allVars, NEW w \in Worker, NEW j \in Job,
           DeliverEnqueue(w, j)
    PROVE  AttemptsOK'
<1> USE QueueAssumption, NoAssumption, DeliveryAssumption
<1> DEFINE d == Next1(Subject(w))
<1>1. d \in Delivery /\ Comes(w, d) /\ \A f \in Delivery : Comes(w, f) => f = d
    BY DEF DeliverEnqueue, At, DeliveryInv, StepOK, Comes
<1>2. \A f \in Delivery, v \in Worker \ {w} : Comes(v, f)' <=> Comes(v, f)
    <2> SUFFICES ASSUME NEW f \in Delivery, NEW v \in Worker \ {w}
                 PROVE  Comes(v, f)' <=> Comes(v, f)
        OBVIOUS
    <2>1. step'[v] = step[v] /\ stage'[v] = stage[v] /\ cur'[v] = cur[v]
        BY DEF DeliverEnqueue, GoTo, DeliveryInv, StepOK
    <2> QED BY <2>1, ComesStays
<1>3. \A f \in Delivery : ~Comes(w, f)'
    BY DEF DeliverEnqueue, GoTo, Comes, At, DeliveryInv, StepOK
<1>4. Enqueue(j, d) /\ UNCHANGED <<rows, owed, lost, enabled, faults>>
    BY DEF DeliverEnqueue
<1> HIDE DEF d
<1>5. \A f \in Delivery, i \in Job :
         JobOf(i, f)' <=> (JobOf(i, f) \/ (i = j /\ f = d))
    BY <1>1, <1>4 DEF Enqueue, Fresh, JobOf, DeliveryInv, QueueInv,
           QueueTypeOK, JobRow, Status
<1>6. Undisturbed' <=> Undisturbed
    BY <1>4 DEF Undisturbed
<1> QED BY <1>1, <1>2, <1>3, <1>4, <1>5, <1>6 DEF DeliveryInv, AttemptsOK

(* The other kinds of jobs are no attempt's. *)
LEMMA EnqueueScanOK ==
    ASSUME DeliveryInv, [DeliveryNext]_allVars, NEW j \in Job, EnqueueScan(j)
    PROVE  AttemptsOK'
<1> USE QueueAssumption, NoAssumption, DeliveryAssumption
<1>1. \A f \in Delivery, w \in Worker : Comes(w, f)' <=> Comes(w, f)
    BY ComesStays DEF EnqueueScan, deliveryVars
<1>2. \A f \in Delivery, i \in Job : JobOf(i, f)' <=> JobOf(i, f)
    BY DEF EnqueueScan, Enqueue, Fresh, JobOf, DeliveryInv, QueueInv,
           QueueTypeOK, JobRow, Status
<1>3. Undisturbed' <=> Undisturbed
    BY DEF EnqueueScan, deliveryVars, Undisturbed
<1> QED BY <1>1, <1>2, <1>3, NoNewAttempt
    DEF EnqueueScan, deliveryVars, DeliveryInv, AttemptsOK

(* The steps of a worker that touch no attempt but the one it sends. *)
LEMMA WorkerStepOK ==
    ASSUME DeliveryInv, [DeliveryNext]_allVars, NEW w \in Worker,
           \/ Loop(w) \/ DeliverPost(w) \/ DeliverRecord(w)
           \/ DeliverReturn(w) \/ RunScan(w) \/ DeliverFails(w)
           \/ WorkerCrash(w)
           \/ FinalizeFails(w) /\ UNCHANGED deliveryVars
    PROVE  AttemptsOK'
<1>1. \A v \in Worker \ {w} :
         step'[v] = step[v] /\ stage'[v] = stage[v] /\ cur'[v] = cur[v]
    <2>1. \A v \in Worker \ {w} : step'[v] = step[v]
        BY DEF Loop, DeliverPost, DeliverRecord, DeliverReturn, RunScan,
               DeliverFails, WorkerCrash, deliveryVars, GoTo, DeliveryInv, StepOK
    <2>2. \A v \in Worker \ {w} : stage'[v] = stage[v] /\ cur'[v] = cur[v]
        BY DEF Loop, ClaimLock, ClaimCommit, Take, Finalize, NextJob,
               DeliverPost, DeliverRecord, DeliverReturn, RunScan, Return,
               DeliverFails, HandlerFails, WorkerCrash, Crash, FinalizeFails,
               queueVars, DeliveryInv, QueueInv, QueueTypeOK
    <2> QED BY <2>1, <2>2
<1>2. \A f \in Delivery, v \in Worker \ {w} : Comes(v, f)' <=> Comes(v, f)
    BY <1>1, ComesStays
<1>3. \A f \in Delivery : ~Comes(w, f)'
    <2>1. step'[w] # "enqueue" \/ stage'[w] # "handler"
        <3>1. CASE DeliverPost(w) \/ DeliverRecord(w)
            BY <3>1 DEF DeliverPost, DeliverRecord, GoTo, DeliveryInv, StepOK
        <3>2. CASE DeliverReturn(w) \/ DeliverFails(w) \/ WorkerCrash(w)
            BY <3>2 DEF DeliverReturn, DeliverFails, WorkerCrash, GoTo,
                        DeliveryInv, StepOK
        <3>3. CASE RunScan(w)
            BY <3>3 DEF RunScan, At, deliveryVars
        <3>4. CASE Loop(w) \/ (FinalizeFails(w) /\ UNCHANGED deliveryVars)
            <4>1. stage[w] # "handler" /\ step' = step
                BY <3>4 DEF Loop, ClaimLock, ClaimCommit, Take, Finalize,
                            FinalizeFails, deliveryVars
            <4> QED BY <4>1 DEF DeliveryInv, StepOK
        <3> QED BY <3>1, <3>2, <3>3, <3>4
    <2> QED BY <2>1 DEF Comes, At
<1>4. \A f \in Delivery, j \in Job : JobOf(j, f)' <=> JobOf(j, f)
    <2>1. \/ jobs' = jobs
          \/ ClaimCommit(w) \/ Finalize(w)
        BY DEF Loop, ClaimLock, Take, DeliverPost, DeliverRecord, DeliverReturn,
               RunScan, Return, DeliverFails, HandlerFails, WorkerCrash, Crash,
               FinalizeFails, queueVars
    <2> QED BY <2>1, JobsStay
<1>5. Undisturbed' => Undisturbed /\ \A f \in Delivery : ~Comes(w, f)
    <2>1. CASE \/ Loop(w) \/ DeliverPost(w) \/ DeliverRecord(w)
               \/ DeliverReturn(w) \/ RunScan(w)
        <3>1. step[w] # "enqueue" \/ stage[w] # "handler"
            BY <2>1 DEF Loop, ClaimLock, ClaimCommit, Take, Finalize,
                        DeliverPost, DeliverRecord, DeliverReturn, RunScan, At
        <3>2. UNCHANGED <<faults, lost>>
            BY <2>1 DEF Loop, ClaimLock, ClaimCommit, Take, Finalize,
                        DeliverPost, DeliverRecord, DeliverReturn, RunScan,
                        Return, queueVars, deliveryVars
        <3> QED BY <3>1, <3>2 DEF Comes, At, Undisturbed
    <2>2. CASE \/ DeliverFails(w) \/ WorkerCrash(w)
               \/ FinalizeFails(w) /\ UNCHANGED deliveryVars
        <3>1. faults' = faults + 1 /\ faults \in Nat
            BY <2>2, QueueAssumption
            DEF DeliverFails, HandlerFails, WorkerCrash, Crash, FinalizeFails,
                DeliveryInv, QueueInv, QueueTypeOK
        <3> QED BY <3>1 DEF Undisturbed
    <2> QED BY <2>1, <2>2
<1>6. /\ rows' \in [Delivery -> {"none", "open", "ok", "failed"}]
      /\ \A d \in Delivery : rows'[d] = "none" <=> rows[d] = "none"
    <2>1. CASE DeliverRecord(w)
        <3>1. PICK o \in {"ok", "failed"} :
                 rows' = [rows EXCEPT ![Subject(w)] = o]
            BY <2>1 DEF DeliverRecord
        <3>2. Subject(w) \in Delivery /\ stage[w] = "handler"
            BY <2>1 DEF DeliverRecord, At, DeliveryInv, StepOK
        <3>3. cur[w] # NoClaim /\ cur[w] \in Claims(w) /\ cur[w].job \in Job
            BY <3>2 DEF DeliveryInv, QueueInv, QueueTypeOK, HandsOK, Claims,
                        ClaimedJob
        <3>4. JobOf(cur[w].job, Subject(w))
            BY <3>3 DEF DeliveryInv, QueueInv, OneRunner, JobOf, Subject
        <3>5. rows[Subject(w)] # "none"
            BY <3>2, <3>3, <3>4 DEF DeliveryInv, AttemptsOK
        <3> QED BY <3>1, <3>2, <3>5 DEF DeliveryInv, AttemptsOK
    <2>2. CASE ~DeliverRecord(w)
        <3>1. rows' = rows
            BY <2>2 DEF Loop, DeliverPost, DeliverReturn, RunScan, DeliverFails,
                        WorkerCrash, deliveryVars
        <3> QED BY <3>1 DEF DeliveryInv, AttemptsOK
    <2> QED BY <2>1, <2>2
<1>7. UNCHANGED <<owed, lost, enabled>>
    BY DEF Loop, DeliverPost, DeliverRecord, DeliverReturn, RunScan,
           DeliverFails, WorkerCrash, deliveryVars
<1>8. lost' \subseteq Delivery /\ enabled' \in BOOLEAN
    BY <1>7 DEF DeliveryInv, AttemptsOK
<1>9. \A f \in Delivery, v \in Worker : Comes(v, f)' => Comes(v, f)
    BY <1>2, <1>3
<1>10. Undisturbed' => /\ Undisturbed
                       /\ \A f \in Delivery, v \in Worker : Comes(v, f) => Comes(v, f)'
    BY <1>2, <1>5
<1> QED BY <1>4, <1>6, <1>7, <1>8, <1>9, <1>10, NoNewAttempt

(* Every step keeps what is known of the attempts. *)
LEMMA AttemptsNextOK ==
    ASSUME DeliveryInv, [DeliveryNext]_allVars
    PROVE  AttemptsOK'
<1>1. CASE \/ Toggle \/ UNCHANGED allVars
           \/ Tick /\ UNCHANGED deliveryVars
           \/ \E j \in Job : Purge(j) /\ UNCHANGED deliveryVars
    <2>1. /\ UNCHANGED <<stage, cur, faults, step, rows, owed, lost>>
          /\ enabled' \in BOOLEAN
        BY <1>1 DEF Toggle, Tick, Purge, allVars, queueVars, deliveryVars,
                    DeliveryInv, AttemptsOK
    <2>2. \A f \in Delivery, w \in Worker : Comes(w, f)' <=> Comes(w, f)
        BY <2>1, ComesStays
    <2>3. jobs' = jobs \/ \E j \in Job : Purge(j)
        BY <1>1 DEF Toggle, Tick, allVars, queueVars
    <2>4. \A f \in Delivery, j \in Job : JobOf(j, f)' <=> JobOf(j, f)
        BY <2>3, JobsStay
    <2>5. Undisturbed' <=> Undisturbed
        BY <2>1 DEF Undisturbed
    <2> QED BY <2>1, <2>2, <2>4, <2>5, NoNewAttempt DEF DeliveryInv, AttemptsOK
<1>2. ASSUME NEW e \in Event, Emit(e) PROVE AttemptsOK'
    <2>1. <<e, 0>> \in Delivery
        BY DeliveryAssumption DEF Delivery
    <2> QED BY <1>2, <2>1, RowInsertedOK DEF Emit
<1>3. ASSUME NEW d \in Delivery, ReplayLatest(d) PROVE AttemptsOK'
    BY <1>3, RowInsertedOK DEF ReplayLatest
<1>4. ASSUME NEW w \in Worker, Work(w) PROVE AttemptsOK'
    BY <1>4, WorkerStepOK, DeliverNextOK, DeliverEnqueueOK DEF Work
<1>5. CASE DeliveryNext
    BY <1>1, <1>2, <1>3, <1>4, <1>5, EnqueueOwedOK, LoseOwedOK, EnqueueScanOK,
       WorkerStepOK DEF DeliveryNext
<1> QED BY <1>1, <1>5

(* DeliveryInv is inductive, whatever crashes, fails or is replayed. *)
THEOREM DeliveryInvariant == DeliverySpec => []DeliveryInv
<1>1. DeliveryInit => DeliveryInv
    <2> SUFFICES ASSUME DeliveryInit PROVE DeliveryInv
        OBVIOUS
    <2>1. QueueInv
        BY QueueInitOK DEF DeliveryInit
    <2>2. StepOK
        BY DEF DeliveryInit, StepOK
    <2>3. AttemptsOK
        BY DEF DeliveryInit, QueueInit, AttemptsOK, JobOf, Comes, At
    <2> QED BY <2>1, <2>2, <2>3 DEF DeliveryInv
<1>2. DeliveryInv /\ [DeliveryNext]_allVars => DeliveryInv'
    BY DeliveryIsQueueStep, QueueNextOK, StepNextOK, AttemptsNextOK
    DEF DeliveryInv
<1> QED BY <1>1, <1>2, PTL DEF DeliverySpec

(* Rows, obligations and steps of deliver keep their types: the row of an  *)
(* attempt is open, ok or failed, and every job's payload is an attempt.   *)
THEOREM DeliveryTyped == DeliverySpec => []DeliveryTypeOK
<1>1. DeliveryInv => DeliveryTypeOK
    BY DEF DeliveryInv, QueueInv, StepOK, AttemptsOK, DeliveryTypeOK
<1> QED BY <1>1, DeliveryInvariant, PTL

(* An attempt gets one job in its life: emit, replay_latest and deliver    *)
(* cannot both enqueue it, because the unique key lets one INSERT through. *)
THEOREM AttemptsOnce == DeliverySpec => []OneJobPerAttempt
<1>1. DeliveryInv => OneJobPerAttempt
    <2> SUFFICES ASSUME DeliveryInv, NEW i \in Job, NEW j \in Job,
                        jobs[i] # NoJob, jobs[j] # NoJob,
                        jobs[i].target = jobs[j].target, jobs[i].target # Scan
                 PROVE  i = j
        BY DEF OneJobPerAttempt
    <2>1. jobs[i].target \in Delivery
        BY DeliveryAssumption DEF DeliveryInv, QueueInv, QueueTypeOK, JobRow
    <2> QED BY <2>1 DEF DeliveryInv, AttemptsOK, JobOf
<1> QED BY <1>1, DeliveryInvariant, PTL

(* Without a crash or a failed statement, an attempt without an outcome    *)
(* has one job, or one request or worker that is about to enqueue it.      *)
THEOREM AttemptsHaveJobs == DeliverySpec => []AttemptHasJob
<1>1. DeliveryInv => AttemptHasJob
    <2> SUFFICES ASSUME DeliveryInv, Undisturbed, NEW d \in Delivery,
                        rows[d] = "open"
                 PROVE  \/ Enqueuing(d) /\ \A j \in Job : ~Live(j, d)
                        \/ ~Enqueuing(d) /\ \E j \in Job :
                              /\ jobs[j] # NoJob /\ jobs[j].target = d
                              /\ \A i \in Job : Live(i, d) => i = j
        BY DEF AttemptHasJob
    <2>1. Enqueuing(d) <=> d \in owed \/ \E w \in Worker : Comes(w, d)
        BY DEF Enqueuing, Comes
    <2>2. \A j \in Job : Live(j, d) => JobOf(j, d)
        BY DEF Live, JobOf
    <2>3. CASE Enqueuing(d)
        BY <2>1, <2>2, <2>3 DEF DeliveryInv, AttemptsOK
    <2>4. CASE ~Enqueuing(d)
        <3>1. PICK j \in Job : JobOf(j, d)
            BY <2>1, <2>4 DEF DeliveryInv, AttemptsOK
        <3>2. \A i \in Job : Live(i, d) => i = j
            BY <2>2, <3>1 DEF DeliveryInv, AttemptsOK
        <3> QED BY <2>4, <3>1, <3>2 DEF JobOf
    <2> QED BY <2>3, <2>4
<1> QED BY <1>1, DeliveryInvariant, PTL
=============================================================================
