--------------------------- MODULE EventDelivery ---------------------------
(***************************************************************************)
(* jobs/events.rs, jobs/webhook_delivery.rs and the replay and toggle      *)
(* handlers of handlers/webhooks_out.rs, for one subscription, on top of   *)
(* the job queue.  A delivery is one attempt <<event, number>>; the row's  *)
(* UNIQUE key makes the pair its identity.                                 *)
(***************************************************************************)
EXTENDS JobQueue

CONSTANTS Event,
          MaxTries,   \* MAX_ATTEMPTS of webhook_delivery.rs
          Replays,    \* bound: attempts beyond MaxTries, from replay_latest
          Toggling,   \* whether owners switch the subscription off and on
          MaxScans,   \* bound: scans that are ever enqueued
          Scan        \* payload of the jobs that are not deliveries

Delivery == Event \X (0..(MaxTries + Replays - 1))
Next1(d) == <<d[1], d[2] + 1>>

ASSUME DeliveryAssumption ==
    /\ MaxTries \in Nat \ {0}
    /\ Replays \in Nat
    /\ MaxScans \in Nat
    /\ Toggling \in BOOLEAN
    /\ Target = Delivery \cup {Scan}
    /\ Scan \notin Delivery

VARIABLES
    rows,     \* webhook_deliveries.ok, or "none" without a row
    step,     \* where each worker is inside deliver
    owed,     \* rows a web request has inserted and not yet enqueued
    lost,     \* history: rows whose request died before it enqueued
    enabled   \* webhook_subscriptions.is_enabled

deliveryVars == <<rows, step, owed, lost, enabled>>
allVars == <<queueVars, deliveryVars>>

DeliveryTypeOK ==
    /\ QueueTypeOK
    /\ rows \in [Delivery -> {"none", "open", "ok", "failed"}]
    /\ step \in [Worker -> {"load", "record_ok", "record_failed", "next",
                            "enqueue", "return"}]
    /\ owed \subseteq Delivery
    /\ enabled \in BOOLEAN
    /\ lost \subseteq Delivery

DeliveryInit ==
    /\ QueueInit
    /\ rows = [d \in Delivery |-> "none"]
    /\ step = [w \in Worker |-> "load"]
    /\ owed = {}
    /\ enabled = TRUE
    /\ lost = {}

-----------------------------------------------------------------------------
(* emit, and replay_latest: INSERT the attempt's row, then enqueue its     *)
(* job; two statements on the pool.                                        *)
Emit(e) ==
    /\ enabled
    /\ rows[<<e, 0>>] = "none"
    /\ rows' = [rows EXCEPT ![<<e, 0>>] = "open"]
    /\ owed' = owed \cup {<<e, 0>>}
    /\ UNCHANGED <<queueVars, step, lost, enabled>>

(* The latest failed attempt.  The INSERT of its successor fails on the    *)
(* unique key when the worker has already made it.                         *)
ReplayLatest(d) ==
    /\ rows[d] = "failed"
    /\ \A f \in Delivery : f[1] = d[1] /\ f[2] > d[2] => rows[f] # "failed"
    /\ Next1(d) \in Delivery /\ rows[Next1(d)] = "none"
    /\ rows' = [rows EXCEPT ![Next1(d)] = "open"]
    /\ owed' = owed \cup {Next1(d)}
    /\ UNCHANGED <<queueVars, step, lost, enabled>>

EnqueueOwed(d, j) ==
    /\ d \in owed
    /\ Enqueue(j, d)
    /\ owed' = owed \ {d}
    /\ UNCHANGED <<now, stage, hand, cur, runs, faults, rows, step, lost,
                   enabled>>

(* The request dies, or its second statement fails: emit logs it. *)
LoseOwed(d) ==
    /\ d \in owed
    /\ faults + Cardinality(lost) < MaxFaults
    /\ lost' = lost \cup {d}
    /\ owed' = owed \ {d}
    /\ UNCHANGED <<queueVars, rows, step, enabled>>

Toggle ==
    /\ Toggling
    /\ enabled' = ~enabled
    /\ UNCHANGED <<queueVars, rows, step, owed, lost>>

(* Jobs of the other kinds: housekeeping's daily scans, e-mails, the       *)
(* automation actions that emit enqueues.                                  *)
Scans == {i \in Job : jobs[i] # NoJob /\ jobs[i].target = Scan}
EnqueueScan(j) ==
    /\ Cardinality(Scans) < MaxScans
    /\ Enqueue(j, Scan)
    /\ UNCHANGED <<now, stage, hand, cur, runs, faults, deliveryVars>>

-----------------------------------------------------------------------------
(* deliver, statement by statement. *)
At(w, s) == stage[w] = "handler" /\ step[w] = s
Subject(w) == jobs[cur[w].job].target
GoTo(w, s) == step' = [step EXCEPT ![w] = s]

(* A disabled subscription ends the job without a POST.  The receiver's    *)
(* answer is 2xx or not; a timeout may come after it acted.                *)
DeliverPost(w) ==
    /\ At(w, "load") /\ Subject(w) # Scan
    /\ \/ ~enabled /\ GoTo(w, "return")
       \/ enabled /\ (GoTo(w, "record_ok") \/ GoTo(w, "record_failed"))
    /\ UNCHANGED <<queueVars, rows, owed, lost, enabled>>

(* Fault: the last of the MaxTries attempts is not made. *)
DeliverRecordShort(w) ==
    /\ \/ /\ At(w, "record_ok")
          /\ rows' = [rows EXCEPT ![Subject(w)] = "ok"]
          /\ GoTo(w, "return")
       \/ /\ At(w, "record_failed")
          /\ rows' = [rows EXCEPT ![Subject(w)] = "failed"]
          /\ GoTo(w, IF Subject(w)[2] + 2 < MaxTries THEN "next" ELSE "return")
    /\ UNCHANGED <<queueVars, owed, lost, enabled>>

DeliverRecord(w) ==
    /\ \/ /\ At(w, "record_ok")
          /\ rows' = [rows EXCEPT ![Subject(w)] = "ok"]
          /\ GoTo(w, "return")
       \/ /\ At(w, "record_failed")
          /\ rows' = [rows EXCEPT ![Subject(w)] = "failed"]
          /\ GoTo(w, IF Subject(w)[2] + 1 < MaxTries THEN "next" ELSE "return")
    /\ UNCHANGED <<queueVars, owed, lost, enabled>>

(* Fault: ON CONFLICT DO UPDATE ... RETURNING id, so that a second run of  *)
(* the attempt goes on with the row that is already there.                 *)
DeliverNextAgain(w) ==
    /\ At(w, "next")
    /\ rows' = [rows EXCEPT ![Next1(Subject(w))] = "open"]
    /\ GoTo(w, "enqueue")
    /\ UNCHANGED <<queueVars, owed, lost, enabled>>

(* INSERT the next attempt; without ON CONFLICT, a row that is already     *)
(* there is an error.                                                      *)
DeliverNext(w) ==
    /\ At(w, "next")
    /\ \/ /\ rows[Next1(Subject(w))] = "none"
          /\ rows' = [rows EXCEPT ![Next1(Subject(w))] = "open"]
          /\ GoTo(w, "enqueue")
          /\ UNCHANGED queueVars
       \/ /\ rows[Next1(Subject(w))] # "none"
          /\ Return(w, "err")
          /\ GoTo(w, "load")
          /\ UNCHANGED rows
    /\ UNCHANGED <<owed, lost, enabled>>

(* Fault: the payload names the attempt that has just failed. *)
DeliverEnqueueSame(w, j) ==
    /\ At(w, "enqueue")
    /\ Enqueue(j, Subject(w))
    /\ GoTo(w, "return")
    /\ UNCHANGED <<now, stage, hand, cur, runs, faults, rows, owed, lost,
                   enabled>>

(* Fault: the new job starts with the attempt's number in jobs.attempts. *)
DeliverEnqueueCounted(w, j) ==
    /\ At(w, "enqueue")
    /\ Fresh(j)
    /\ jobs' = [jobs EXCEPT ![j] = [status |-> "pending", runAt |-> now,
                                    attempts |-> Subject(w)[2] + 1,
                                    target |-> Next1(Subject(w))]]
    /\ GoTo(w, "return")
    /\ UNCHANGED <<now, stage, hand, cur, runs, faults, rows, owed, lost,
                   enabled>>

DeliverEnqueue(w, j) ==
    /\ At(w, "enqueue")
    /\ Enqueue(j, Next1(Subject(w)))
    /\ GoTo(w, "return")
    /\ UNCHANGED <<now, stage, hand, cur, runs, faults, rows, owed, lost,
                   enabled>>

DeliverReturn(w) ==
    /\ At(w, "return")
    /\ Return(w, "ok")
    /\ GoTo(w, "load")
    /\ UNCHANGED <<rows, owed, lost, enabled>>

(* A statement of deliver fails: `?` hands the error to execute. *)
DeliverFails(w) ==
    /\ HandlerFails(w)
    /\ step[w] # "return"
    /\ GoTo(w, "load")
    /\ UNCHANGED <<rows, owed, lost, enabled>>

RunScan(w) ==
    /\ At(w, "load") /\ Subject(w) = Scan
    /\ Return(w, "ok") \/ Return(w, "err")
    /\ UNCHANGED deliveryVars

WorkerCrash(w) ==
    /\ Crash(w)
    /\ GoTo(w, "load")
    /\ UNCHANGED <<rows, owed, lost, enabled>>

-----------------------------------------------------------------------------
Loop(w) ==
    /\ ClaimLock(w) \/ ClaimCommit(w) \/ Take(w) \/ Finalize(w)
    /\ UNCHANGED deliveryVars

Work(w) ==
    \/ Loop(w)
    \/ DeliverPost(w) \/ DeliverRecord(w) \/ DeliverNext(w)
    \/ \E j \in Job : DeliverEnqueue(w, j)
    \/ DeliverReturn(w) \/ RunScan(w)

DeliveryNext ==
    \/ \E e \in Event : Emit(e)
    \/ \E d \in Delivery : \/ ReplayLatest(d)
                           \/ LoseOwed(d)
                           \/ \E j \in Job : EnqueueOwed(d, j)
    \/ Toggle
    \/ \E w \in Worker : \/ Work(w) \/ DeliverFails(w) \/ WorkerCrash(w)
                         \/ FinalizeFails(w) /\ UNCHANGED deliveryVars
    \/ \E j \in Job : \/ EnqueueScan(j)
                      \/ Purge(j) /\ UNCHANGED deliveryVars
    \/ Tick /\ UNCHANGED deliveryVars

DeliverySpec == DeliveryInit /\ [][DeliveryNext]_allVars

(* Every instance's loop wakes up every 30 seconds, the clock goes on and  *)
(* a web request runs to its end unless it dies.                           *)
FairDelivery ==
    /\ DeliverySpec
    /\ \A w \in Worker : WF_allVars(Work(w))
    /\ \A d \in Delivery : WF_allVars(\E j \in Job : EnqueueOwed(d, j))
    /\ WF_allVars(Tick /\ UNCHANGED deliveryVars)

-----------------------------------------------------------------------------
(* Inside deliver a worker is, for the queue, calling a handler: the queue *)
(* is used as JobQueue says, so that what is proved of it holds here.      *)
QueueKept == QueueSpec

Undisturbed == faults = 0 /\ lost = {}

(* The job of an attempt that is on its way. *)
Live(j, d) == jobs[j] # NoJob /\ jobs[j].target = d
                              /\ jobs[j].status \in {"pending", "running"}
Enqueuing(d) ==
    \/ d \in owed
    \/ \E w \in Worker : At(w, "enqueue") /\ Next1(Subject(w)) = d

(* As long as nothing crashes or fails, an attempt without an outcome has  *)
(* one job, or someone who is about to enqueue it, or ended at a disabled  *)
(* subscription.                                                           *)
AttemptHasJob ==
    Undisturbed => \A d \in Delivery : rows[d] = "open" =>
        \/ Enqueuing(d) /\ \A j \in Job : ~Live(j, d)
        \/ ~Enqueuing(d) /\ \E j \in Job :
              /\ jobs[j] # NoJob /\ jobs[j].target = d
              /\ \A i \in Job : Live(i, d) => i = j

(* An attempt's row gets one job in its life, whatever fails and however   *)
(* often the owner replays: it is sent at most max_attempts times, and its *)
(* outcome is written by one worker at a time.                             *)
OneJobPerAttempt ==
    \A i, j \in Job :
        /\ jobs[i] # NoJob /\ jobs[j] # NoJob
        /\ jobs[i].target = jobs[j].target /\ jobs[i].target # Scan
        => i = j

(* Nothing but a fault keeps an event from its end: the receiver took it,  *)
(* or the last attempt failed, or a job found the subscription disabled.   *)
Skipped(d) ==
    \E j \in Job : /\ jobs[j] # NoJob /\ jobs[j].target = d
                   /\ jobs[j].status \in {"done", "purged"}
Ended(e) ==
    \E d \in Delivery : /\ d[1] = e
                        /\ \/ rows[d] = "ok"
                           \/ rows[d] = "failed" /\ d[2] + 1 >= MaxTries
                           \/ rows[d] = "open" /\ Skipped(d)
EventsEnd ==
    \A e \in Event : rows[<<e, 0>>] # "none" ~> Ended(e) \/ ~Undisturbed
=============================================================================
