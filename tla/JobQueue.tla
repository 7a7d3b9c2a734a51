------------------------------ MODULE JobQueue ------------------------------
(***************************************************************************)
(* jobs/mod.rs: the rows of table jobs and the scheduler instances that    *)
(* claim, execute and finish them.  What a handler does is left open here: *)
(* it returns Ok or Err.  Time is counted in the units of Backoff and only *)
(* passes while some job waits for it.                                     *)
(***************************************************************************)
EXTENDS Integers, Sequences, FiniteSets

CONSTANTS Worker,       \* server instances, one scheduler loop each
          MaxJobs,      \* bound: rows that are ever enqueued
          Target,       \* what a payload can refer to
          MaxAttempts,  \* jobs.max_attempts
          Backoff,      \* BACKOFF_SECONDS
          Limit,        \* rows claimed at a time
          MaxFaults,    \* bound: crashes and failed statements
          NoJob, NoClaim

ASSUME QueueAssumption ==
    /\ MaxJobs \in Nat
    /\ MaxAttempts \in Nat \ {0}
    /\ Limit \in Nat \ {0}
    /\ MaxFaults \in Nat
    /\ Backoff \in Seq(Nat) /\ Backoff # <<>>

Job == 1..MaxJobs
Status == {"pending", "running", "done", "dead", "purged"}

VARIABLES
    jobs,    \* table jobs
    now,     \* the database's clock
    stage,   \* where each worker's loop is
    hand,    \* the rows a worker has claimed and not begun
    cur,     \* the claimed row it is executing
    runs,    \* history: how often each job was handed to its handler
    faults   \* crashes and failed statements so far

queueVars == <<jobs, now, stage, hand, cur, runs, faults>>

JobRow ==
    [status : Status, attempts : Nat, runAt : Nat, target : Target]
ClaimedJob == [job : Job, attempts : Nat]
ASSUME NoAssumption == NoJob \notin JobRow /\ NoClaim \notin ClaimedJob
Stage == {"idle", "claiming", "working", "handler", "ok", "err"}

QueueTypeOK ==
    /\ jobs \in [Job -> JobRow \cup {NoJob}]
    /\ now \in Nat
    /\ stage \in [Worker -> Stage]
    /\ hand \in [Worker -> SUBSET ClaimedJob]
    /\ cur \in [Worker -> ClaimedJob \cup {NoClaim}]
    /\ runs \in [Job -> Nat]
    /\ faults \in 0..MaxFaults

QueueInit ==
    /\ jobs = [j \in Job |-> NoJob]
    /\ now = 0
    /\ stage = [w \in Worker |-> "idle"]
    /\ hand = [w \in Worker |-> {}]
    /\ cur = [w \in Worker |-> NoClaim]
    /\ runs = [j \in Job |-> 0]
    /\ faults = 0

-----------------------------------------------------------------------------
(* enqueue: INSERT with run_at = now().  Ids are never used again. *)
Fresh(j) == jobs[j] = NoJob /\ \A i \in 1..(j - 1) : jobs[i] # NoJob
Enqueue(j, target) ==
    /\ Fresh(j)
    /\ jobs' = [jobs EXCEPT ![j] = [status |-> "pending", attempts |-> 0,
                                    runAt |-> now, target |-> target]]

-----------------------------------------------------------------------------
(* claim_due.  The statement locks the first Limit due rows that no other  *)
(* claim holds, the commit shows them as running.                          *)
Has(w) == {c.job : c \in hand[w]}
Locked == UNION {Has(w) : w \in {v \in Worker : stage[v] = "claiming"}}
Due == {j \in Job : /\ jobs[j] # NoJob
                    /\ jobs[j].status = "pending"
                    /\ jobs[j].runAt <= now}

(* S is ORDER BY run_at LIMIT Limit over the rows of D. *)
FirstDue(S, D) ==
    /\ S \subseteq D
    /\ Cardinality(S) <= Limit
    /\ Cardinality(S) < Limit => S = D
    /\ \A i \in S, j \in D \ S : jobs[i].runAt <= jobs[j].runAt

(* Fault: FOR UPDATE SKIP LOCKED is left out. *)
ClaimLockAny(w) ==
    /\ stage[w] = "idle"
    /\ \E S \in SUBSET Due :
          /\ S # {} /\ FirstDue(S, Due)
          /\ hand' = [hand EXCEPT ![w] =
                         {[job |-> j, attempts |-> jobs[j].attempts] : j \in S}]
    /\ stage' = [stage EXCEPT ![w] = "claiming"]
    /\ UNCHANGED <<jobs, now, cur, runs, faults>>

ClaimLock(w) ==
    /\ stage[w] = "idle"
    /\ \E S \in SUBSET Due :
          /\ S # {} /\ FirstDue(S, Due \ Locked)
          /\ hand' = [hand EXCEPT ![w] =
                         {[job |-> j, attempts |-> jobs[j].attempts] : j \in S}]
    /\ stage' = [stage EXCEPT ![w] = "claiming"]
    /\ UNCHANGED <<jobs, now, cur, runs, faults>>

WithStatus(row, s) == [row EXCEPT !.status = s]
ClaimCommit(w) ==
    /\ stage[w] = "claiming"
    /\ jobs' = [j \in Job |-> IF j \in Has(w)
                              THEN WithStatus(jobs[j], "running")
                              ELSE jobs[j]]
    /\ stage' = [stage EXCEPT ![w] = "working"]
    /\ UNCHANGED <<now, hand, cur, runs, faults>>

-----------------------------------------------------------------------------
(* run_due and execute: one claimed job after the other, in no fixed       *)
(* order (RETURNING has none).                                             *)
Take(w) ==
    /\ stage[w] = "working"
    /\ \E c \in hand[w] :
          /\ cur' = [cur EXCEPT ![w] = c]
          /\ hand' = [hand EXCEPT ![w] = @ \ {c}]
          /\ runs' = [runs EXCEPT ![c.job] = @ + 1]
    /\ stage' = [stage EXCEPT ![w] = "handler"]
    /\ UNCHANGED <<jobs, now, faults>>

Return(w, result) ==
    /\ stage[w] = "handler"
    /\ stage' = [stage EXCEPT ![w] = result]
    /\ UNCHANGED <<jobs, now, hand, cur, runs, faults>>

(* A statement of the handler fails, and the handler with it. *)
HandlerFails(w) ==
    /\ stage[w] = "handler"
    /\ faults < MaxFaults
    /\ faults' = faults + 1
    /\ stage' = [stage EXCEPT ![w] = "err"]
    /\ UNCHANGED <<jobs, now, hand, cur, runs>>

Delay(n) == Backoff[IF n <= Len(Backoff) THEN n ELSE Len(Backoff)]

(* What the row of a finished job becomes.  attempts is the claimed value. *)
Retried(row, attempts) ==
    [row EXCEPT !.status = "pending", !.attempts = attempts,
                !.runAt = now + Delay(attempts)]

(* Fault: the comparison with max_attempts is off by one. *)
FinalizedLate(row, c, result) ==
    IF result = "ok" THEN WithStatus(row, "done")
    ELSE IF c.attempts + 1 > MaxAttempts
    THEN [row EXCEPT !.status = "dead", !.attempts = c.attempts + 1]
    ELSE Retried(row, c.attempts + 1)

(* Fault: a job that gave up is marked 'failed', which jobs_status_check   *)
(* does not know.                                                          *)
FinalizedFailed(row, c, result) ==
    IF result = "ok" THEN WithStatus(row, "done")
    ELSE IF c.attempts + 1 >= MaxAttempts
    THEN [row EXCEPT !.status = "failed", !.attempts = c.attempts + 1]
    ELSE Retried(row, c.attempts + 1)

Finalized(row, c, result) ==
    IF result = "ok" THEN WithStatus(row, "done")
    ELSE IF c.attempts + 1 >= MaxAttempts
    THEN [row EXCEPT !.status = "dead", !.attempts = c.attempts + 1]
    ELSE Retried(row, c.attempts + 1)

(* On to the next claimed job, or back to the loop when there is none. *)
NextJob(w) ==
    /\ stage' = [stage EXCEPT ![w] = IF hand[w] = {} THEN "idle" ELSE "working"]
    /\ cur' = [cur EXCEPT ![w] = NoClaim]

Finalize(w) ==
    /\ stage[w] \in {"ok", "err"}
    /\ LET c == cur[w]
       IN  jobs' = [jobs EXCEPT ![c.job] = Finalized(@, c, stage[w])]
    /\ NextJob(w)
    /\ UNCHANGED <<now, hand, runs, faults>>

(* The UPDATE fails and its error is dropped: the row stays 'running'. *)
FinalizeFails(w) ==
    /\ stage[w] \in {"ok", "err"}
    /\ faults < MaxFaults
    /\ faults' = faults + 1
    /\ NextJob(w)
    /\ UNCHANGED <<jobs, now, hand, runs>>

(* The process dies and starts again.  A claim that was not committed is   *)
(* rolled back; what was committed as 'running' stays so.                  *)
Crash(w) ==
    /\ stage[w] # "idle"
    /\ faults < MaxFaults
    /\ faults' = faults + 1
    /\ stage' = [stage EXCEPT ![w] = "idle"]
    /\ hand' = [hand EXCEPT ![w] = {}]
    /\ cur' = [cur EXCEPT ![w] = NoClaim]
    /\ UNCHANGED <<jobs, now, runs>>

(* purge_old deletes finished rows (the 30 days are not counted). *)
Purge(j) ==
    /\ jobs[j] # NoJob /\ jobs[j].status \in {"done", "dead"}
    /\ jobs' = [jobs EXCEPT ![j] = WithStatus(@, "purged")]
    /\ UNCHANGED <<now, stage, hand, cur, runs, faults>>

Tick ==
    /\ \E j \in Job : jobs[j] # NoJob /\ jobs[j].status = "pending"
                                      /\ jobs[j].runAt > now
    /\ now' = now + 1
    /\ UNCHANGED <<jobs, stage, hand, cur, runs, faults>>

QueueNext ==
    \/ \E j \in Job, d \in Target :
          Enqueue(j, d) /\ UNCHANGED <<now, stage, hand, cur, runs, faults>>
    \/ \E w \in Worker :
          \/ ClaimLock(w) \/ ClaimCommit(w) \/ Take(w)
          \/ Return(w, "ok") \/ Return(w, "err") \/ HandlerFails(w)
          \/ Finalize(w) \/ FinalizeFails(w) \/ Crash(w)
    \/ \E j \in Job : Purge(j)
    \/ Tick

QueueSpec == QueueInit /\ [][QueueNext]_queueVars

-----------------------------------------------------------------------------
(* A job is in the hands of one worker at a time, and a claimed row is     *)
(* still what the claim read: whoever finishes it overwrites nothing of    *)
(* another's.                                                              *)
Claims(w) == hand[w] \cup ({cur[w]} \ {NoClaim})
OneRunner ==
    \A w \in Worker : \A c \in Claims(w) :
        /\ \A v \in Worker : \A d \in Claims(v) : c.job = d.job => v = w
        /\ jobs[c.job] # NoJob
        /\ jobs[c.job].attempts = c.attempts
        /\ jobs[c.job].status = IF stage[w] = "claiming" THEN "pending"
                                ELSE "running"

(* A handler is called at most max_attempts times for a job, crashes and   *)
(* lost updates included, and a job is dead only after that many calls.    *)
RunsBounded ==
    \A j \in Job :
        /\ runs[j] <= MaxAttempts
        /\ jobs[j] # NoJob /\ jobs[j].status = "dead" => runs[j] = MaxAttempts
=============================================================================
